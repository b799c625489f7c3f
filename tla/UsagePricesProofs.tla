-------------------------- MODULE UsagePricesProofs --------------------------
(***************************************************************************)
(* What explains an amount, and that it is settled once, for any calls,    *)
(* releases, tariffs and catalogs.                                         *)
(***************************************************************************)
EXTENDS UsagePrices, TLAPS

Places == {"unwritten", "new", "read", "gone"}

\* A row has been read, and its line is still there or was rotated away.
RowsWereRead == \A c \in Rows : c \in Call /\ place[c] \in {"read", "gone"}

\* What the tariff that was last applied says, whatever release runs now: a
\* release may be replaced before it has read the log.
Known(r, c)  == ModelOf[c] \in DOMAIN Rules[r]
Amount(r, c) == IF c \in Fast THEN Rules[r][ModelOf[c]].fast ELSE Rules[r][ModelOf[c]].default

LastTariffApplied ==
  \A c \in Rows :
    place[c] = "read" /\ Known(tariff, c) /\ Amount(tariff, c) # Unpriced /\ At[c] >= floor =>
      /\ amounts[c] # Unpriced
      /\ ModelOf[c] \in Repriced[tariff] \/ c \in Fast => amounts[c] = Amount(tariff, c)

\* Rows without an amount that were asked of a catalog.
Declined == {c \in Rows : amounts[c] = Unpriced /\ c \notin unoffered}

\* The revision kept in memory is one of the catalog in use.
RevisionIsOfCatalog ==
  \A v \in catalogRev : \E k \in catalog : \A p \in v : p[1] \in DOMAIN k

\* It was computed over fewer rows than there are now, yet a row it does not speak
\* for was asked of the same catalog when it was created.
RevisionCovers ==
  \A v \in catalogRev, k \in catalog, c \in Declined :
    ModelOf[c] \in DOMAIN k => <<ModelOf[c], k[ModelOf[c]]>> \in v

\* What was last offered has nothing for a row it left without an amount.
OfferedInVain ==
  \A v \in offered, c \in Declined :
    place[c] = "read" /\ At[c] >= floor => \A p \in v : p[1] # ModelOf[c]

CatalogInv ==
  /\ \A j, k \in catalog : j = k
  /\ RevisionIsOfCatalog /\ RevisionCovers /\ OfferedInVain

PricesInv ==
  /\ place \in [Call -> Places] /\ floor \in Nat
  /\ catalog \subseteq Catalogs
  /\ \A e \in records : e.usd # Unpriced
  /\ RowsWereRead
  /\ LinksLead
  /\ CatalogElse
  /\ LastTariffApplied
  /\ CatalogInv

-----------------------------------------------------------------------------
(***************************************************************************)
(* Quotes.                                                                 *)
(***************************************************************************)
\* A stored record that is used is the only one of its model.
LEMMA UsableIsOne ==
  ASSUME NEW c, Usable(c) # {}
  PROVE  \E e \in records : Usable(c) = {e} /\ e.model = ModelOf[c]
<1>1. PICK e \in Usable(c) : TRUE
  OBVIOUS
<1>2. e \in Evidence(c) /\ Evidence(c) = {e}
  BY <1>1 DEF Usable
<1>3. Usable(c) = {e}
  BY <1>1, <1>2 DEF Usable
<1>4. e \in records /\ e.model = ModelOf[c]
  BY <1>2 DEF Evidence
<1>5. QED
  BY <1>3, <1>4

\* A quote with a record gives the record's amount, and a known one.
LEMMA QuoteExplained ==
  ASSUME NEW c, \A e \in records : e.usd # Unpriced, QuoteIngest(c).by # {}
  PROVE  \E e : /\ QuoteIngest(c).by = {e} /\ e.model = ModelOf[c]
                /\ e.usd = QuoteIngest(c).usd /\ e.usd # Unpriced
<1>1. CASE QuoteIngest(c) = TariffQuote(c)
  <2>1. /\ QuoteIngest(c) = [usd |-> Resolved(c).usd, by |-> {Resolved(c)}]
        /\ Resolved(c).usd # Unpriced
    BY <1>1 DEF TariffQuote, NoQuote
  <2>2. Resolved(c).model = ModelOf[c]
    BY DEF Resolved
  <2>3. QED
    BY <2>1, <2>2
<1>2. CASE QuoteIngest(c) = RecordQuote(c)
  <2>1. /\ QuoteIngest(c) = [usd |-> (CHOOSE e \in Usable(c) : TRUE).usd, by |-> Usable(c)]
        /\ Usable(c) # {}
    BY <1>2 DEF RecordQuote, NoQuote
  <2>2. PICK e \in records : Usable(c) = {e} /\ e.model = ModelOf[c]
    BY <2>1, UsableIsOne
  <2>3. (CHOOSE d \in Usable(c) : TRUE) = e
    BY <2>2
  <2>4. QED
    BY <2>1, <2>2, <2>3
<1>3. CASE QuoteIngest(c) \in {NoQuote, CatalogQuote(c)}
  BY <1>3 DEF CatalogQuote, NoQuote
<1>4. QED
  BY <1>1, <1>2, <1>3 DEF QuoteIngest

\* A known amount without a record is one the catalog offers.
LEMMA QuoteOffered ==
  ASSUME NEW c, QuoteIngest(c).by = {}, QuoteIngest(c).usd # Unpriced
  PROVE  \E k \in catalog : ModelOf[c] \in DOMAIN k /\ k[ModelOf[c]] = QuoteIngest(c).usd
<1>1. QuoteIngest(c) # NoQuote
  BY DEF NoQuote
<1>2. QuoteIngest(c) = CatalogQuote(c)
  <2>1. QuoteIngest(c) # TariffQuote(c)
    BY <1>1 DEF TariffQuote
  <2>2. QuoteIngest(c) # RecordQuote(c)
    BY <1>1 DEF RecordQuote
  <2>3. QED
    BY <1>1, <2>1, <2>2 DEF QuoteIngest
<1>3. QuoteIngest(c).usd \in Offers(c)
  BY <1>1, <1>2 DEF CatalogQuote
<1>4. QED
  BY <1>3 DEF Offers

-----------------------------------------------------------------------------
(***************************************************************************)
(* The ingest.                                                             *)
(***************************************************************************)
\* A row that is not written keeps amount and link; a written one is as quoted.
LEMMA IngestAmounts ==
  ASSUME IngestPrices
  PROVE  /\ Rows' = Rows \cup Batch
         /\ \A c \in Rows' : amounts'[c] = IF c \in Written THEN QuoteIngest(c).usd ELSE amounts[c]
         /\ Linked' = KeptLinks \cup NewLinks
         /\ \A c \in Linked' \ NewLinks : links'[c] = links[c]
         /\ \A c \in NewLinks : links'[c] \in QuoteIngest(c).by
BY Zenon DEF IngestPrices, Rows, Linked, NewLinks

\* A link that is kept is that of a row that is not written.
LEMMA KeptUnwritten ==
  ASSUME PricesInv, NEW c \in KeptLinks
  PROVE  c \in Rows /\ c \notin Written
<1>1. c \in Linked /\ c \notin Replaced
  BY DEF KeptLinks
<1>2. c \in Rows /\ links[c] \in records /\ links[c].usd = amounts[c]
  BY <1>1 DEF PricesInv, LinksLead
<1>3. amounts[c] # Unpriced
  BY <1>2 DEF PricesInv
<1>4. QED
  BY <1>1, <1>2, <1>3 DEF Written, Created, Filled

LEMMA IngestLinks ==
  ASSUME PricesInv, IngestPrices
  PROVE  LinksLead'
<1> SUFFICES ASSUME NEW c \in Linked'
             PROVE  /\ c \in Rows' /\ links'[c] \in records'
                    /\ links'[c].model = ModelOf[c] /\ links'[c].usd = amounts'[c]
  BY Zenon DEF LinksLead
<1>1. CASE c \in NewLinks
  <2>1. c \in Written /\ QuoteIngest(c).by # {}
    BY <1>1 DEF NewLinks
  <2>2. PICK e : /\ QuoteIngest(c).by = {e} /\ e.model = ModelOf[c]
                 /\ e.usd = QuoteIngest(c).usd /\ e.usd # Unpriced
    BY <2>1, QuoteExplained DEF PricesInv
  <2>3. links'[c] = e
    BY <1>1, <2>2, IngestAmounts
  <2>4. e \in records'
    BY <2>1, <2>2 DEF IngestPrices
  <2>5. c \in Rows' /\ amounts'[c] = QuoteIngest(c).usd
    BY <2>1, IngestAmounts DEF Written, Created, Filled, Replaced
  <2>6. QED
    BY <2>2, <2>3, <2>4, <2>5
<1>2. CASE c \notin NewLinks
  <2>1. c \in KeptLinks /\ links'[c] = links[c]
    BY <1>2, IngestAmounts
  <2>2. c \in Rows' /\ amounts'[c] = amounts[c]
    BY <2>1, KeptUnwritten, IngestAmounts
  <2>3. c \in Linked
    BY <2>1 DEF KeptLinks
  <2>4. links[c] \in records'
    BY <2>3 DEF PricesInv, LinksLead, IngestPrices
  <2>5. QED
    BY <2>1, <2>2, <2>3, <2>4 DEF PricesInv, LinksLead
<1>3. QED
  BY <1>1, <1>2

LEMMA IngestRecords ==
  ASSUME PricesInv, IngestPrices
  PROVE  \A e \in records' : e.usd # Unpriced
<1> SUFFICES ASSUME NEW e \in records', e \notin records
             PROVE  e.usd # Unpriced
  BY DEF PricesInv
<1>1. PICK c \in Written : e \in QuoteIngest(c).by
  BY DEF IngestPrices
<1>2. QED
  BY <1>1, QuoteExplained DEF PricesInv

LEMMA IngestElse ==
  ASSUME PricesInv, IngestPrices
  PROVE  CatalogElse'
<1> SUFFICES ASSUME NEW c \in Rows', c \notin Linked', amounts'[c] # Unpriced
             PROVE  \E k \in Catalogs : ModelOf[c] \in DOMAIN k /\ k[ModelOf[c]] = amounts'[c]
  BY Zenon DEF CatalogElse
<1>1. c \notin KeptLinks /\ c \notin NewLinks
  BY IngestAmounts
<1>2. CASE c \in Written
  <2>1. QuoteIngest(c).by = {}
    BY <1>1, <1>2 DEF NewLinks
  <2>2. amounts'[c] = QuoteIngest(c).usd
    BY <1>2, IngestAmounts
  <2>3. \E k \in catalog : ModelOf[c] \in DOMAIN k /\ k[ModelOf[c]] = QuoteIngest(c).usd
    BY <2>1, <2>2, QuoteOffered
  <2>4. QED
    BY <2>2, <2>3 DEF PricesInv
<1>3. CASE c \notin Written
  <2>1. c \in Rows /\ amounts'[c] = amounts[c]
    BY <1>3, IngestAmounts DEF Written, Created
  <2>2. c \notin Linked
    BY <1>1, <1>3 DEF KeptLinks, Written
  <2>3. QED
    BY <2>1, <2>2 DEF PricesInv, CatalogElse
<1>4. QED
  BY <1>2, <1>3

LEMMA IngestRead ==
  ASSUME PricesInv, IngestPrices
  PROVE  place' \in [Call -> Places] /\ RowsWereRead'
<1>1. place' \in [Call -> Places]
  BY DEF PricesInv, IngestPrices, Places
<1>2. ASSUME NEW c \in Rows' PROVE c \in Call /\ place'[c] \in {"read", "gone"}
  <2>1. CASE c \in Log
    BY <2>1 DEF IngestPrices, Log
  <2>2. CASE c \notin Log
    <3>1. c \in Rows
      BY <2>2, IngestAmounts DEF Batch
    <3>2. c \in Call /\ place[c] = "gone"
      BY <2>2, <3>1 DEF PricesInv, RowsWereRead, Log
    <3>3. QED
      BY <2>2, <3>2 DEF IngestPrices
  <2>3. QED
    BY <2>1, <2>2
<1>3. QED
  BY Zenon, <1>1, <1>2 DEF RowsWereRead

LEMMA IngestTariff ==
  ASSUME PricesInv, IngestPrices
  PROVE  LastTariffApplied'
<1> SUFFICES ASSUME NEW c \in Rows', place'[c] = "read", Known(revision, c),
                    Amount(revision, c) # Unpriced, At[c] >= floor
             PROVE  /\ amounts'[c] # Unpriced
                    /\ ModelOf[c] \in Repriced[revision] \/ c \in Fast =>
                         amounts'[c] = Amount(revision, c)
  BY DEF LastTariffApplied, IngestPrices, Known, Amount
<1>1. QuoteIngest(c).usd = Amount(revision, c)
  BY DEF QuoteIngest, TariffQuote, Conditional, Resolved, Known, Amount
<1>2. c \in Log
  <2>1. c \in Call
    BY IngestRead DEF RowsWereRead
  <2>2. place'[c] = IF c \in Log THEN "read" ELSE place[c]
    BY <2>1 DEF IngestPrices
  <2>3. QED
    BY <2>1, <2>2 DEF Log
<1>3. CASE c \in Created \cup Filled
  <2>1. amounts'[c] = QuoteIngest(c).usd
    BY <1>3, IngestAmounts DEF Written
  <2>2. QED
    BY <1>1, <2>1
<1>4. CASE c \notin Created \cup Filled /\ Repricing
  <2>1. c \in Batch /\ c \in Rows
    BY <1>2, <1>4, IngestAmounts DEF Batch, Replays, Created
  <2>2. amounts[c] # Unpriced
    BY <1>1, <1>4, <2>1 DEF Filled
  <2>3. amounts'[c] \in {amounts[c], QuoteIngest(c).usd}
    BY IngestAmounts
  <2>4. ASSUME RepriceRow(c) PROVE amounts'[c] = Amount(revision, c)
    <3>1. amounts[c] # QuoteIngest(c).usd => c \in Replaced
      BY <1>1, <1>4, <2>1, <2>4 DEF Replaced
    <3>2. QED
      BY <1>1, <3>1, IngestAmounts DEF Written
  <2>5. QED
    BY <1>1, <2>2, <2>3, <2>4 DEF RepriceRow
<1>5. CASE c \notin Created \cup Filled /\ ~Repricing
  <2>1. c \in Rows
    BY <1>5, IngestAmounts DEF Created
  <2>2. place[c] = "read"
    BY <1>2, <2>1 DEF Log, PricesInv, RowsWereRead
  <2>3. c \notin Written
    BY <1>5 DEF Written, Replaced
  <2>4. amounts'[c] = amounts[c]
    BY <2>3, IngestAmounts
  <2>5. tariff = revision
    BY <1>5 DEF Repricing
  <2>6. QED
    BY <2>1, <2>2, <2>4, <2>5 DEF PricesInv, LastTariffApplied
<1>6. QED
  BY <1>3, <1>4, <1>5

\* What the catalog offers is an amount.
LEMMA OffersAreAmounts ==
  ASSUME PricesInv, NEW c
  PROVE  Offers(c) \subseteq Nat
BY PricesAssumption DEF PricesInv, Offers

\* A row that is left without an amount was asked in vain, or was not in the batch.
LEMMA IngestDeclined ==
  ASSUME PricesInv, IngestPrices, NEW c \in Declined'
  PROVE  \/ c \in Batch /\ catalog # {} /\ Offers(c) = {}
         \/ c \notin Batch /\ c \in Declined
<1>1. /\ c \in Rows' /\ amounts'[c] = Unpriced /\ c \notin unoffered'
      /\ unoffered' = (unoffered \ Batch) \cup {d \in Batch : ~AsksCatalog(d)}
  BY Zenon DEF Declined, IngestPrices
<1>2. CASE c \in Batch
  <2>1. AsksCatalog(c)
    BY <1>1, <1>2
  <2>2. QuoteIngest(c) = CatalogQuote(c) /\ catalog # {}
    BY <2>1 DEF QuoteIngest, AsksCatalog
  <2>3. QuoteIngest(c).usd = Unpriced
    <3>1. CASE c \in Written
      BY <1>1, <3>1, IngestAmounts
    <3>2. CASE c \notin Written
      BY <1>1, <1>2, <3>2, IngestAmounts DEF Written, Created, Filled
    <3> QED
      BY <3>1, <3>2
  <2>4. Offers(c) = {}
    <3> SUFFICES ASSUME Offers(c) # {} PROVE FALSE
      OBVIOUS
    <3>1. QuoteIngest(c).usd \in Offers(c)
      BY <2>2 DEF CatalogQuote
    <3> QED
      BY <2>3, <3>1, OffersAreAmounts, PricesAssumption
  <2> QED
    BY <1>2, <2>2, <2>4
<1>3. CASE c \notin Batch
  <2>1. c \in Rows /\ c \notin Written
    BY <1>1, <1>3, IngestAmounts DEF Written, Created, Filled, Replaced
  <2>2. amounts'[c] = amounts[c]
    BY <1>1, <2>1, IngestAmounts
  <2> QED
    BY <1>1, <1>3, <2>1, <2>2 DEF Declined
<1> QED
  BY <1>2, <1>3

\* The revision that an ingest compares is of the catalog, and speaks for every row
\* that was asked.
LEMMA RevisionForIngest ==
  ASSUME PricesInv
  PROVE  /\ \A v \in CatalogForIngest : \E k \in catalog : \A p \in v : p[1] \in DOMAIN k
         /\ \A v \in CatalogForIngest, k \in catalog, c \in Declined :
              ModelOf[c] \in DOMAIN k => <<ModelOf[c], k[ModelOf[c]]>> \in v
<1>1. CASE catalogRev # {}
  BY <1>1 DEF PricesInv, CatalogInv, RevisionIsOfCatalog, RevisionCovers, CatalogForIngest
<1>2. CASE catalogRev = {}
  <2>1. \A v \in CatalogForIngest, k \in catalog : v = RevisionOf(k)
    BY <1>2 DEF CatalogForIngest, PricesInv, CatalogInv
  <2>2. \A v \in CatalogForIngest : \E k \in catalog : v = RevisionOf(k)
    BY <1>2 DEF CatalogForIngest
  <2>3. \A c \in Declined : c \in Rows
    BY DEF Declined
  <2> QED
    BY <2>1, <2>2, <2>3 DEF RevisionOf
<1> QED
  BY <1>1, <1>2

LEMMA IngestCatalog ==
  ASSUME PricesInv, IngestPrices
  PROVE  CatalogInv'
<1>1. /\ catalogRev' = CatalogForIngest /\ catalog' = catalog /\ floor' = floor
      /\ offered' = IF catalog = {} THEN offered ELSE CatalogForIngest
  BY DEF IngestPrices
<1>2. RevisionIsOfCatalog'
  BY <1>1, RevisionForIngest DEF RevisionIsOfCatalog
<1>3. RevisionCovers'
  <2> SUFFICES ASSUME NEW v \in CatalogForIngest, NEW k \in catalog, NEW c \in Declined',
                      ModelOf[c] \in DOMAIN k
               PROVE  <<ModelOf[c], k[ModelOf[c]]>> \in v
    BY <1>1, Zenon DEF RevisionCovers
  <2>1. c \in Declined
    BY IngestDeclined DEF Offers
  <2> QED
    BY <2>1, RevisionForIngest
<1>4. OfferedInVain'
  <2> SUFFICES ASSUME NEW v \in offered', NEW c \in Declined', place'[c] = "read",
                      At[c] >= floor, NEW p \in v, p[1] = ModelOf[c]
               PROVE  FALSE
    BY <1>1, Zenon DEF OfferedInVain
  <2>1. CASE c \in Batch
    <3>1. catalog # {} /\ Offers(c) = {}
      BY <2>1, IngestDeclined
    <3>2. PICK k \in catalog : p[1] \in DOMAIN k
      BY <1>1, <3>1, RevisionForIngest
    <3> QED
      BY <3>1, <3>2 DEF Offers
  <2>2. CASE c \notin Batch
    <3>1. c \in Declined
      BY <2>2, IngestDeclined
    <3>2. c \in Call /\ place[c] = "read"
      BY <3>1 DEF Declined, PricesInv, RowsWereRead, IngestPrices, Log
    <3>3. ~Replays
      BY <2>2, <3>2 DEF Batch, Log
    <3>4. v \in offered
      BY <1>1, <3>3 DEF Replays
    <3> QED
      BY <3>1, <3>2, <3>4 DEF PricesInv, CatalogInv, OfferedInVain
  <2> QED
    BY <2>1, <2>2
<1> QED
  BY <1>1, <1>2, <1>3, <1>4 DEF CatalogInv, PricesInv

\* A step that quotes nothing keeps it.
LEMMA CatalogKept ==
  ASSUME PricesInv, amounts' = amounts, unoffered' = unoffered, offered' = offered, floor' = floor,
         catalog' = catalog, catalogRev' \in {catalogRev, CatalogForIngest},
         \A c \in Rows : place'[c] = "read" => place[c] = "read"
  PROVE  CatalogInv'
<1>1. Declined' = Declined /\ Declined \subseteq Rows
  BY DEF Declined, Rows
<1>2. RevisionIsOfCatalog'
  BY RevisionForIngest DEF RevisionIsOfCatalog, PricesInv, CatalogInv
<1>3. RevisionCovers'
  BY <1>1, RevisionForIngest DEF RevisionCovers, PricesInv, CatalogInv
<1>4. OfferedInVain'
  BY <1>1 DEF OfferedInVain, PricesInv, CatalogInv
<1> QED
  BY <1>2, <1>3, <1>4 DEF CatalogInv, PricesInv

-----------------------------------------------------------------------------
(***************************************************************************)
(* Every step.                                                             *)
(***************************************************************************)
LEMMA InitInv == PricesInit => PricesInv
BY DEF PricesInit, PricesInv, Places, RowsWereRead, LinksLead, CatalogElse, LastTariffApplied,
       Rows, Linked, CatalogInv, RevisionIsOfCatalog, RevisionCovers, OfferedInVain, Declined

LEMMA StepInv ==
  ASSUME PricesInv, [PricesNext]_pricesVars
  PROVE  PricesInv'
<1>1. CASE IngestPrices
  <2>1. catalog' = catalog /\ floor' = floor
    BY <1>1 DEF IngestPrices
  <2>2. QED
    BY <1>1, <2>1, IngestLinks, IngestRecords, IngestElse, IngestRead, IngestTariff, IngestCatalog
       DEF PricesInv
<1>2. CASE MaintainPrices
  <2>1. /\ Rows' = Retained /\ Linked' = LinksLeft
        /\ \A c \in Rows' : amounts'[c] = amounts[c]
        /\ \A c \in Linked' : links'[c] = links[c]
    BY <1>2 DEF MaintainPrices, Rows, Linked
  <2>2. Rows' \subseteq Rows /\ Linked' \subseteq Linked /\ Rows' \ Linked' \subseteq Rows \ Linked
    BY <2>1 DEF Retained, LinksLeft
  <2>3. /\ records' \subseteq records
        /\ \A c \in Linked' : c \in Rows' /\ links'[c] \in records'
    BY <1>2, <2>1 DEF MaintainPrices, LinksLeft, PricesInv, LinksLead
  <2>4. UNCHANGED <<tariff, revision, catalog, place, floor>>
    BY <1>2 DEF MaintainPrices
  <2>5. LinksLead' /\ CatalogElse'
    BY <2>1, <2>2, <2>3 DEF PricesInv, LinksLead, CatalogElse
  <2>6. RowsWereRead' /\ LastTariffApplied'
    BY <2>1, <2>2, <2>4 DEF PricesInv, RowsWereRead, LastTariffApplied, Known, Amount
  <2>7. CatalogInv'
    <3>1. Declined' \subseteq Declined
      BY <1>2, <2>1, <2>2 DEF Declined, MaintainPrices
    <3>2. UNCHANGED <<catalogRev, offered>>
      BY <1>2 DEF MaintainPrices
    <3>3. RevisionIsOfCatalog' /\ RevisionCovers' /\ OfferedInVain'
      BY <2>4, <3>1, <3>2 DEF PricesInv, CatalogInv, RevisionIsOfCatalog, RevisionCovers, OfferedInVain
    <3> QED
      BY <2>4, <3>3 DEF PricesInv, CatalogInv
  <2>8. QED
    BY <2>3, <2>4, <2>5, <2>6, <2>7 DEF PricesInv
<1>3. ASSUME UNCHANGED <<amounts, records, links, tariff, place>>,
             catalog' \subseteq Catalogs, floor' \in Nat, floor' >= floor, CatalogInv'
      PROVE  PricesInv'
  <2>1. \A c \in Rows : At[c] \in Nat
    BY PricesAssumption DEF PricesInv, RowsWereRead
  <2>2. \A c \in Rows : At[c] >= floor' => At[c] >= floor
    BY <1>3, <2>1 DEF PricesInv
  <2>3. LastTariffApplied'
    BY <1>3, <2>2 DEF PricesInv, LastTariffApplied, Rows, Known, Amount
  <2>4. RowsWereRead' /\ LinksLead' /\ CatalogElse'
    BY <1>3 DEF PricesInv, RowsWereRead, LinksLead, CatalogElse, Rows, Linked
  <2>5. QED
    BY <1>3, <2>3, <2>4 DEF PricesInv
<1>4. ASSUME UNCHANGED <<amounts, records, links, tariff, catalog, floor>>,
             place' \in [Call -> Places],
             \A c \in Rows : place'[c] \in {"read", "gone"} /\ (place'[c] = "read" => place[c] = "read"),
             CatalogInv'
      PROVE  PricesInv'
  <2>1. RowsWereRead' /\ LastTariffApplied'
    BY <1>4 DEF PricesInv, RowsWereRead, LastTariffApplied, Rows, Known, Amount
  <2>2. LinksLead' /\ CatalogElse'
    BY <1>4 DEF PricesInv, LinksLead, CatalogElse, Rows, Linked
  <2>3. QED
    BY <1>4, <2>1, <2>2 DEF PricesInv
<1>5. CASE PricesFail
  BY <1>3, <1>5, CatalogKept DEF PricesFail, PricesInv
<1>6. CASE \E c \in Call : WriteCall(c)
  <2>1. PICK c \in Call : WriteCall(c)
    BY <1>6
  <2>2. place[c] = "unwritten" /\ place' = [place EXCEPT ![c] = "new"]
    BY <2>1 DEF WriteCall
  <2>3. place' \in [Call -> Places]
    BY <2>2 DEF PricesInv, Places
  <2>4. \A d \in Rows : place'[d] = place[d]
    BY <2>2 DEF PricesInv, RowsWereRead
  <2>5. UNCHANGED <<amounts, records, links, tariff, catalog, floor>>
    BY <2>1 DEF WriteCall
  <2>6. CatalogInv'
    BY <2>1, <2>4, CatalogKept DEF WriteCall
  <2>7. QED
    BY <1>4, <2>3, <2>4, <2>5, <2>6 DEF PricesInv, RowsWereRead
<1>7. CASE RotateLog
  <2>1. \A c \in Rows : place'[c] = "gone" \/ place'[c] = place[c]
    BY <1>7 DEF RotateLog, PricesInv, RowsWereRead
  <2>2. CatalogInv'
    BY <1>7, <2>1, CatalogKept DEF RotateLog
  <2> QED
    BY <1>4, <1>7, <2>2 DEF RotateLog, PricesInv, RowsWereRead, Places, Log
<1>8. CASE Expire
  <2>1. /\ floor' \in Nat /\ floor' >= floor /\ Declined' = Declined
        /\ UNCHANGED <<amounts, records, links, tariff, place, catalog, catalogRev, offered>>
    BY <1>8 DEF Expire, PricesInv, Declined, Rows
  <2>2. \A c \in Declined : At[c] \in Nat
    BY PricesAssumption DEF PricesInv, RowsWereRead, Declined
  <2>3. \A c \in Declined : At[c] >= floor' => At[c] >= floor
    BY <2>1, <2>2 DEF PricesInv
  <2>4. OfferedInVain'
    BY <2>1, <2>3 DEF PricesInv, CatalogInv, OfferedInVain
  <2>5. CatalogInv'
    BY <2>1, <2>4 DEF PricesInv, CatalogInv, RevisionIsOfCatalog, RevisionCovers
  <2> QED
    BY <1>3, <2>1, <2>5 DEF PricesInv
<1>9. ASSUME catalogRev' = {}, UNCHANGED <<amounts, records, links, tariff, place, floor, offered, unoffered>>,
             catalog' \subseteq Catalogs, \A j, k \in catalog' : j = k
      PROVE  PricesInv'
  <2>1. Declined' = Declined
    BY <1>9 DEF Declined, Rows
  <2>2. RevisionIsOfCatalog' /\ RevisionCovers'
    BY <1>9 DEF RevisionIsOfCatalog, RevisionCovers
  <2>3. OfferedInVain'
    BY <1>9, <2>1 DEF PricesInv, CatalogInv, OfferedInVain
  <2>4. CatalogInv'
    BY <1>9, <2>2, <2>3 DEF CatalogInv
  <2> QED
    BY <1>3, <1>9, <2>4 DEF PricesInv
<1>10. CASE \E k \in Catalogs : SetCatalog(k)
  BY <1>9, <1>10 DEF SetCatalog
<1>11. CASE \E r \in Revision : Deploy(r)
  BY <1>9, <1>11 DEF Deploy
<1>12. CASE UNCHANGED pricesVars
  BY <1>3, <1>12, CatalogKept DEF pricesVars, PricesInv
<1>13. QED
  BY <1>1, <1>2, <1>5, <1>6, <1>7, <1>8, <1>10, <1>11, <1>12 DEF PricesNext

-----------------------------------------------------------------------------
(***************************************************************************)
(* What every run of the program keeps.                                    *)
(***************************************************************************)
LEMMA PricesInvAlways == PricesSpec => []PricesInv
<1>1. QED
  BY InitInv, StepInv, PTL DEF PricesSpec

LEMMA InvExplains ==
  ASSUME PricesInv
  PROVE  AmountsExplained
<1>1. ASSUME tariff = revision PROVE TariffApplied
  BY <1>1 DEF PricesInv, LastTariffApplied, TariffApplied, Known, Amount, Conditional, Resolved,
              RepriceRow
<1>2. CatalogApplied
  <2> SUFFICES ASSUME offered = CatalogForIngest, NEW c \in Declined,
                      place[c] = "read", At[c] >= floor, NEW k \in catalog, ModelOf[c] \in DOMAIN k
               PROVE  FALSE
    BY DEF CatalogApplied, Declined, Offers
  <2>1. PICK v \in CatalogForIngest : TRUE
    BY DEF CatalogForIngest
  <2>2. <<ModelOf[c], k[ModelOf[c]]>> \in v
    BY RevisionForIngest
  <2>3. \A p \in v : p[1] # ModelOf[c]
    BY <2>1 DEF PricesInv, CatalogInv, OfferedInVain
  <2> QED
    BY <2>2, <2>3
<1>3. QED
  BY <1>1, <1>2 DEF PricesInv, TariffApplied, AmountsExplained

\* Whatever releases run and whichever tables and catalogs they bring: a link leads to
\* a record that gives the row's amount, an amount without one is the public catalog's,
\* no row whose line can still be read is left at a tariff that was replaced, and
\* none is left without an amount that the catalog last offered would give it
\* (settleIngest, Maintain, IngestJSONL, catalogForIngest).
THEOREM ExplainedAlways == PricesSpec => []AmountsExplained
<1>1. QED
  BY PricesInvAlways, InvExplains, PTL

\* Only the repricing pass of a new tariff changes a settled amount, and only to a
\* known one, of a row that it may touch and whose line it reads (settleIngest).
THEOREM SettledOnceAlways == PricesSpec => SettledOnce
<1>1. ASSUME PricesInv, [PricesNext]_pricesVars, NEW c \in Rows \cap DOMAIN amounts',
             amounts[c] # Unpriced, amounts'[c] # amounts[c]
      PROVE  /\ amounts'[c] # Unpriced
             /\ tariff # tariff' /\ tariff' = revision
             /\ ModelOf[c] \in Repriced[revision] \/ c \in Fast
             /\ c \in Log
  <2>1. CASE IngestPrices
    <3>1. amounts'[c] = QuoteIngest(c).usd /\ c \in Written
      BY <1>1, <2>1, IngestAmounts DEF Rows
    <3>2. c \in Replaced
      BY <1>1, <3>1 DEF Written, Created, Filled
    <3>3. QED
      BY <2>1, <3>1, <3>2 DEF Replaced, Repricing, RepriceRow, Batch, IngestPrices
  <2>2. CASE MaintainPrices
    BY <1>1, <2>2 DEF MaintainPrices, Retained
  <2>3. CASE UNCHANGED amounts
    BY <1>1, <2>3
  <2>4. QED
    BY <1>1, <2>1, <2>2, <2>3 DEF PricesNext, PricesFail, WriteCall, RotateLog, Expire, SetCatalog,
                                   Deploy, pricesVars
<1>2. PricesInv /\ [PricesNext]_pricesVars =>
        [\A c \in Rows \cap DOMAIN amounts' :
           amounts[c] # Unpriced /\ amounts'[c] # amounts[c] =>
             /\ amounts'[c] # Unpriced
             /\ tariff # tariff' /\ tariff' = revision
             /\ ModelOf[c] \in Repriced[revision] \/ c \in Fast
             /\ c \in Log]_pricesVars
  BY <1>1
<1>3. QED
  BY <1>2, PricesInvAlways, PTL DEF PricesSpec, SettledOnce
=============================================================================

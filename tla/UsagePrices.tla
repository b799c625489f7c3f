----------------------------- MODULE UsagePrices -----------------------------
(***************************************************************************)
(* How a call gets its amount, once, and what explains it afterwards:      *)
(* quoteIngest and settleIngest of internal/store/ingest_price.go, the     *)
(* replays that IngestJSONL decides on, the revision of the catalog, and   *)
(* the links to price records that retention releases.                     *)
(*                                                                         *)
(* A release brings a table of tariffs; a deployment or a rollback changes *)
(* it under the rows that are there.  Every call has the same tokens, so   *)
(* that a rate is an amount.  A transaction that fails changes nothing.    *)
(***************************************************************************)
EXTENDS Naturals, FiniteSets

CONSTANTS
  Call,         \* ids of calls
  ModelOf,      \* the model of each
  At,           \* and its time
  Fast,         \* calls sent on the fast tier
  Revision,     \* TariffRevision of the releases
  Rules,        \* price_rules.json of each: a tariff for each model it knows
  Repriced,     \* repricedModels of each
  Catalogs,     \* what the public catalog may hold: an amount for some models
  Unpriced,     \* no amount
  Never,        \* no revision was recorded
  MaxFloor      \* bound: how far retention advances

ASSUME PricesAssumption ==
  /\ ModelOf \in [Call -> STRING] /\ At \in [Call -> Nat] /\ Fast \subseteq Call
  /\ Unpriced \notin Nat /\ Never \notin Revision /\ MaxFloor \in Nat
  /\ \A r \in Revision : \A m \in DOMAIN Rules[r] :
       Rules[r][m] \in [default : Nat \cup {Unpriced}, fast : Nat \cup {Unpriced}, plain : BOOLEAN]
  /\ \A k \in Catalogs : \A m \in DOMAIN k : k[m] \in Nat

VARIABLES
  amounts,     \* usage.usd of each row of table usage
  records,     \* table price_evidence, a digest standing for its content
  links,       \* table usage_prices: the record of a row
  tariff,      \* meta tariffRevision
  offered,     \* meta catalogPriceRevision, a set of at most one
  revision,    \* TariffRevision of the running release
  catalog,     \* History.catalog, a set of at most one
  catalogRev,  \* History.catalogRev, computed once per catalog
  place,       \* where the line of a call is: the log and its cursor
  floor,       \* cutoff: the time below which lines are skipped
  unoffered    \* calls whose last quote did not get as far as a catalog

pricesVars == <<amounts, records, links, tariff, offered, revision, catalog, catalogRev,
                place, floor, unoffered>>

Rows   == DOMAIN amounts
Linked == DOMAIN links
Log    == {c \in Call : place[c] \in {"new", "read"}}

PricesInit ==
  /\ amounts = [c \in {} |-> Unpriced] /\ links = [c \in {} |-> Unpriced] /\ records = {}
  /\ tariff = Never /\ offered = {} /\ revision \in Revision
  /\ catalog = {} /\ catalogRev = {} /\ unoffered = {}
  /\ place = [c \in Call |-> "unwritten"] /\ floor = 0

(***************************************************************************)
(* conditionalEvidence, quoteIngest: the tariff of the release if it knows *)
(* the model, else a record that is there, else the catalog.               *)
(***************************************************************************)
Conditional(c) == ModelOf[c] \in DOMAIN Rules[revision]
Resolved(c) ==
  LET tariffs == Rules[revision][ModelOf[c]] IN
  [model |-> ModelOf[c], usd |-> IF c \in Fast THEN tariffs.fast ELSE tariffs.default,
   fast |-> c \in Fast, plain |-> tariffs.plain]

Evidence(c) == {e \in records : e.model = ModelOf[c]}
Offers(c)   == {k[ModelOf[c]] : k \in {k \in catalog : ModelOf[c] \in DOMAIN k}}

\* Two records that apply at once, or one with a condition, price nothing, and
\* the catalog is not asked.
Usable(c) == {e \in Evidence(c) : Evidence(c) = {e} /\ ~e.fast /\ e.plain}

NoQuote == [usd |-> Unpriced, by |-> {}]
TariffQuote(c) ==
  IF Resolved(c).usd = Unpriced THEN NoQuote
  ELSE [usd |-> Resolved(c).usd, by |-> {Resolved(c)}]
RecordQuote(c) ==
  IF Usable(c) = {} THEN NoQuote
  ELSE [usd |-> (CHOOSE e \in Usable(c) : TRUE).usd, by |-> Usable(c)]
CatalogQuote(c) ==
  IF Offers(c) = {} THEN NoQuote
  ELSE [usd |-> CHOOSE u \in Offers(c) : TRUE, by |-> {}]

QuoteIngest(c) ==
  IF Conditional(c) THEN TariffQuote(c)
  ELSE IF c \in Fast THEN NoQuote
  ELSE IF Evidence(c) # {} THEN RecordQuote(c)
  ELSE CatalogQuote(c)

AsksCatalog(c) == ~Conditional(c) /\ c \notin Fast /\ Evidence(c) = {} /\ catalog # {}

(***************************************************************************)
(* Catalog.Revision over the models in history, kept in catalogForIngest;  *)
(* and which lines IngestJSONL reads: a new tariff, or a catalog that      *)
(* gives our models other rates, sends it back to the start of the file.   *)
(***************************************************************************)
RevisionOf(k) == {<<m, k[m]>> : m \in DOMAIN k \cap {ModelOf[c] : c \in Rows}}
CatalogForIngest ==
  IF catalogRev # {} THEN catalogRev ELSE {RevisionOf(k) : k \in catalog}

Repricing == tariff # revision
Replays   == Repricing \/ (catalog # {} /\ offered # CatalogForIngest)
Batch     == {c \in Log : (Replays \/ place[c] = "new") /\ At[c] >= floor}

(***************************************************************************)
(* settleIngest.                                                           *)
(***************************************************************************)
RepriceRow_Any(c) == TRUE
RepriceRow(c) == ModelOf[c] \in Repriced[revision] \/ c \in Fast

Created == Batch \ Rows
Filled  == {c \in Batch \cap Rows : amounts[c] = Unpriced /\ QuoteIngest(c).usd # Unpriced}
Replaced ==
  {c \in Batch \cap Rows : /\ Repricing /\ RepriceRow(c)
                           /\ QuoteIngest(c).usd \notin {Unpriced, amounts[c]}}
Written == Created \cup Filled \cup Replaced

\* DELETE FROM usage_prices, then INSERT OR IGNORE.
KeptLinks_All == Linked
KeptLinks == Linked \ Replaced
NewLinks  == {c \in Written : QuoteIngest(c).by # {}} \ KeptLinks

IngestPrices ==
  /\ amounts' = [c \in Rows \cup Batch |-> IF c \in Written THEN QuoteIngest(c).usd ELSE amounts[c]]
  /\ records' = records \cup UNION {QuoteIngest(c).by : c \in Written}
  /\ links' = [c \in KeptLinks \cup NewLinks |->
                 IF c \in NewLinks THEN CHOOSE e \in QuoteIngest(c).by : TRUE ELSE links[c]]
  /\ tariff' = revision
  /\ offered' = IF catalog = {} THEN offered ELSE CatalogForIngest
  /\ catalogRev' = CatalogForIngest
  /\ place' = [c \in Call |-> IF c \in Log THEN "read" ELSE place[c]]
  /\ unoffered' = (unoffered \ Batch) \cup {c \in Batch : ~AsksCatalog(c)}
  /\ UNCHANGED <<revision, catalog, floor>>

\* Rolled back; what was computed of the catalog stays in memory.
PricesFail ==
  /\ catalogRev' = CatalogForIngest
  /\ UNCHANGED <<amounts, records, links, tariff, offered, revision, catalog, place, floor, unoffered>>

(***************************************************************************)
(* Retention: rows that expired, the links of rows that are gone, and the  *)
(* records no link points at.                                              *)
(***************************************************************************)
Retained == {c \in Rows : At[c] >= floor}
LinksLeft == Linked \cap Retained

MaintainPrices ==
  /\ amounts' = [c \in Retained |-> amounts[c]]
  /\ links' = [c \in LinksLeft |-> links[c]]
  /\ records' = records \cap {links[c] : c \in LinksLeft}
  /\ UNCHANGED <<tariff, offered, revision, catalog, catalogRev, place, floor, unoffered>>

(***************************************************************************)
(* OpenCodex, time, the catalog and the release.                           *)
(***************************************************************************)
WriteCall(c) ==
  /\ place[c] = "unwritten" /\ place' = [place EXCEPT ![c] = "new"]
  /\ UNCHANGED <<amounts, records, links, tariff, offered, revision, catalog, catalogRev, floor, unoffered>>
RotateLog ==
  /\ Log # {} /\ place' = [c \in Call |-> IF c \in Log THEN "gone" ELSE place[c]]
  /\ UNCHANGED <<amounts, records, links, tariff, offered, revision, catalog, catalogRev, floor, unoffered>>
Expire ==
  /\ floor < MaxFloor /\ floor' = floor + 1
  /\ UNCHANGED <<amounts, records, links, tariff, offered, revision, catalog, catalogRev, place, unoffered>>

SetCatalog(k) ==
  /\ catalog' = {k} /\ catalogRev' = {}
  /\ UNCHANGED <<amounts, records, links, tariff, offered, revision, place, floor, unoffered>>

\* A restart, of this release or of another: the catalog has to be read again.
Deploy(r) ==
  /\ revision' = r /\ catalog' = {} /\ catalogRev' = {}
  /\ UNCHANGED <<amounts, records, links, tariff, offered, place, floor, unoffered>>

PricesNext ==
  \/ IngestPrices \/ PricesFail \/ MaintainPrices
  \/ (\E c \in Call : WriteCall(c)) \/ RotateLog \/ Expire
  \/ (\E k \in Catalogs : SetCatalog(k)) \/ (\E r \in Revision : Deploy(r))

PricesSpec == PricesInit /\ [][PricesNext]_pricesVars

-----------------------------------------------------------------------------
(***************************************************************************)
(* What explains the amounts.                                              *)
(***************************************************************************)
\* A link leads from a row that is there to a record that is there, and the
\* record gives the row's amount.
LinksLead ==
  \A c \in Linked :
    /\ c \in Rows /\ links[c] \in records
    /\ links[c].model = ModelOf[c] /\ links[c].usd = amounts[c]

\* An amount without a record is one of the public catalog.
CatalogElse ==
  \A c \in Rows \ Linked :
    amounts[c] # Unpriced =>
      \E k \in Catalogs : ModelOf[c] \in DOMAIN k /\ k[ModelOf[c]] = amounts[c]

\* Once a release has read the log, every row it holds a line of has the amount of
\* its tariff, if the release reprices such rows, and some amount in any case.
TariffApplied ==
  tariff = revision =>
    \A c \in Rows :
      place[c] = "read" /\ Conditional(c) /\ Resolved(c).usd # Unpriced /\ At[c] >= floor =>
        /\ amounts[c] # Unpriced
        /\ RepriceRow(c) => amounts[c] = Resolved(c).usd

\* And a row is without an amount only while the catalog in use has none for it,
\* or is still to be read again; or when its line was read with no catalog loaded.
CatalogApplied ==
  tariff = revision /\ offered = CatalogForIngest =>
    \A c \in Rows :
      /\ place[c] = "read" /\ At[c] >= floor
      /\ ~Conditional(c) /\ c \notin unoffered /\ amounts[c] = Unpriced
      => Offers(c) = {}

\* An amount on record is explained, across releases, rollbacks, replays, rotated
\* logs and retention: its link leads to a record that gives it, one without a link
\* is the public catalog's; and no line that can still be read is left behind at a
\* tariff, or without one, that the release in use has replaced.
AmountsExplained == LinksLead /\ CatalogElse /\ TariffApplied /\ CatalogApplied

\* A settled amount changes in one place only: the first ingest of a release that
\* differs from the one before, on a row that release reprices and whose line is
\* still in the log; no catalog, restart, failure or repeated replay changes it,
\* and nothing makes it unknown again.
SettledOnce ==
  [][\A c \in Rows \cap DOMAIN amounts' :
       amounts[c] # Unpriced /\ amounts'[c] # amounts[c] =>
         /\ amounts'[c] # Unpriced
         /\ tariff # tariff' /\ tariff' = revision
         /\ ModelOf[c] \in Repriced[revision] \/ c \in Fast
         /\ c \in Log]_pricesVars
=============================================================================

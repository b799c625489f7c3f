------------------------------- MODULE Periods -------------------------------
(***************************************************************************)
(* What the page says of a span of usage: web/src/ui/quota.ts states how   *)
(* much of the span is on record, how much was observed and what of it is  *)
(* priced; web/src/ui/views.ts writes the cells, the totals and the ranks  *)
(* of the cost page from the same figures.                                 *)
(***************************************************************************)
EXTENDS Values, FiniteSets, FiniteSetsExt, Sequences, SequencesExt, Functions

CONSTANTS
  Statistics,   \* what may be published of each period
  Costs,        \* what may be published as analytics.costs of a span
  Tolerance,    \* TOL: how far short of its span a record may fall
  TableRows     \* rows of a table; twelve in the code

ASSUME PeriodsAssumption == Tolerance \in Nat /\ TableRows \in Nat

PERIODS == {"oneHour", "weekly"}
COST_PERIODS == {"day", "week"}

\* What usageSum.dto makes of the calls: their counts are not negative.
ASSUME StatisticsAssumption ==
  \A key \in PERIODS : \A o \in Statistics[key] :
    IsRecord(o) => N0(o.requests) >= 0 /\ N0(o.unpriced) >= 0

\* The rows of a breakdown are a list.
ASSUME CostsAssumption ==
  \A c \in Costs : IsRecord(c) => DOMAIN c.accounts \subseteq Nat

VARIABLES
  periods,      \* analytics.periods of a provider, by period, or none of them
  selected,     \* ctx.selectedPeriod
  costs,        \* analytics.costs, by span
  costSelection \* the span the cost page shows

periodsVars == <<periods, selected, costs, costSelection>>

(***************************************************************************)
(* coverageAxis and periodState.                                           *)
(***************************************************************************)
CoverageAxis(value, hours) ==
  IF ~Known(value) \/ ~Known(hours) THEN "unknown"
  ELSE IF hours <= 0 THEN "unknown"
  ELSE IF value <= Tolerance THEN "none"
  ELSE IF value < hours - Tolerance THEN "partial" ELSE "full"

ShortAxis(axis) == axis \in {"none", "partial"}

StateWord_RecordFirst(s, record, observation) ==
  IF record = "none" /\ s.requests = 0 THEN "no record"
  ELSE IF observation = "none" THEN "unobserved"
  ELSE IF ShortAxis(record) THEN "short record"
  ELSE IF observation = "partial" THEN "short observation" ELSE "none"

\* Unobserved first: what the record says must not hide that nobody was reading.
\* A record of no length with calls in it is short, it is not empty.
StateWord(s, record, observation) ==
  IF observation = "none" THEN "unobserved"
  ELSE IF record = "none" /\ s.requests = 0 THEN "no record"
  ELSE IF ShortAxis(record) /\ ShortAxis(observation)
       THEN IF N0(s.observed) <= N0(s.record) THEN "short observation" ELSE "short record"
  ELSE IF observation = "partial" THEN "short observation"
  ELSE IF ShortAxis(record) THEN "short record" ELSE "none"

\* usageAmount, baseNote and rowNote.
UsageAmount(s) == IF s = Null THEN Null ELSE s.usd
HeadNote(s) ==
  IF s.requests = 0 THEN "no calls" ELSE IF ~Known(s.usd) THEN "no price" ELSE "calls"

PeriodState(bag, key) ==
  LET s == IF IsRecord(bag) /\ key \in DOMAIN bag THEN PeriodStats(bag[key]) ELSE Null
      record      == CoverageAxis(s.record, s.hours)
      observation == CoverageAxis(s.observed, s.hours)
      word        == StateWord(s, record, observation)
      axes        == {record, observation}
  IN  IF ~IsRecord(bag)
      THEN [state |-> "unknown", amount |-> Null, head |-> "no period", word |-> "none",
            spans |-> {}, partial |-> FALSE, estimated |-> FALSE]
      ELSE IF s = Null
      THEN [state |-> "unsupported", amount |-> Null, head |-> "unsupported", word |-> "none",
            spans |-> {}, partial |-> FALSE, estimated |-> FALSE]
      ELSE [state |-> IF "none" \in axes THEN "attention"
                      ELSE IF "partial" \in axes THEN "partial" ELSE "ok",
            amount |-> UsageAmount(s),
            head |-> IF word = "no record" THEN "no record" ELSE HeadNote(s),
            word |-> word,
            spans |-> (IF ShortAxis(record) THEN {"record"} ELSE {})
                        \cup (IF ShortAxis(observation) THEN {"observed"} ELSE {}),
            partial |-> s.unpriced > 0,
            estimated |-> s.cached > 0]

\* excludedNote and cacheNote: what the total leaves out, and what was assumed.
ExcludedNote(s) == IF s = Null \/ s.unpriced = 0 THEN {} ELSE {s.unpriced}
CacheNote(s)    == IF s = Null \/ s.cached = 0 THEN {} ELSE {s.cached}

\* coverage: the share of the calls that has a price, in hundredths.
PricedShare(s) ==
  IF s = Null \/ s.requests = 0 THEN 0 ELSE (100 * s.priced) \div s.requests

(***************************************************************************)
(* periodGrid and markPeriod, on the summary and in every detail; and the  *)
(* lines of providerAnalytics and accountView, for the periods they have.  *)
(***************************************************************************)
PeriodCell(bag, key) == PeriodState(bag, key)
Grid(bag) == [key \in PERIODS |-> PeriodCell(bag, key)]
Unsupported(bag) == PeriodState(bag, selected).state = "unsupported"

PeriodLine(bag, key) ==
  LET s == IF IsRecord(bag) /\ key \in DOMAIN bag THEN PeriodStats(bag[key]) ELSE Null
  IN  IF s = Null THEN {}
      ELSE {[requests |-> s.requests, priced |-> PricedShare(s), excluded |-> ExcludedNote(s),
             spans |-> PeriodState(bag, key).spans, selected |-> key = selected]}

\* The tokens of a detail: none are written for a period without calls.
TokenNotes(bag) ==
  LET s == IF IsRecord(bag) THEN PeriodStats(bag[selected]) ELSE Null
  IN  IF s = Null \/ s.requests = 0 THEN {}
      ELSE {[excluded |-> ExcludedNote(s), estimated |-> CacheNote(s)]}

(***************************************************************************)
(* costPeriod, costCell and costRows; costsView and rankTable.             *)
(***************************************************************************)
CostCell(o) ==
  IF ~IsRecord(o) THEN [requests |-> 0, usd |-> 0, unpriced |-> 0, tokenless |-> 0]
  ELSE [requests |-> N0(o.requests), usd |-> N0(o.usd), unpriced |-> N0(o.unpriced),
        tokenless |-> N0(o.tokenless)]

Clamped(x) == IF x < 0 THEN 0 ELSE IF x > 100 THEN 100 ELSE x
RankedRow(o) == [cell |-> CostCell(o), key |-> o.key, width |-> Clamped(N0(o.share)),
              shown |-> IF N0(o.share) > 0 THEN {o.share} ELSE {}]
RankTable(rows) ==
  LET kept == SelectSeq(rows, IsRecord)
  IN  [n \in 1 .. Min({TableRows, Len(kept)}) |-> RankedRow(kept[n])]

\* find takes the first row of the calls without an account: there is one for each
\* provider that has such calls.
WithoutAccount(rows) == {n \in DOMAIN rows : IsRecord(rows[n]) /\ rows[n].key = "none"}
Unattributed(rows) ==
  IF WithoutAccount(rows) = {} THEN {} ELSE {CostCell(rows[Min(WithoutAccount(rows))]).requests}

CostsView ==
  LET o == costs[costSelection]
  IN  IF ~IsRecord(o) THEN [total |-> {}, facts |-> {}, accounts |-> << >>, unattributed |-> {}]
      ELSE LET t == CostCell(o.total)
           IN  [total |-> {t.usd},
                facts |-> (IF t.unpriced > 0 THEN {<<"unpriced", t.unpriced>>} ELSE {})
                     \cup (IF t.tokenless > 0 THEN {<<"tokenless", t.tokenless>>} ELSE {}),
                accounts |-> RankTable(o.accounts),
                unattributed |-> Unattributed(o.accounts)]

(***************************************************************************)
(* The server publishes, the reader chooses.                               *)
(***************************************************************************)
PeriodsInit ==
  /\ periods \in {Null} \cup {b \in [PERIODS -> UNION Range(Statistics)] :
                              \A key \in PERIODS : b[key] \in Statistics[key]}
  /\ selected = "weekly"
  /\ costs \in [COST_PERIODS -> Costs] /\ costSelection = "week"

PublishPeriod(key, s) ==
  /\ IsRecord(periods) /\ periods' = [periods EXCEPT ![key] = s]
  /\ UNCHANGED <<selected, costs, costSelection>>
PublishCosts(key, c) ==
  /\ costs' = [costs EXCEPT ![key] = c] /\ UNCHANGED <<periods, selected, costSelection>>
ChoosePeriod(key) ==
  /\ key # selected /\ selected' = key /\ UNCHANGED <<periods, costs, costSelection>>
ChooseSpan(key) ==
  /\ key # costSelection /\ costSelection' = key /\ UNCHANGED <<periods, selected, costs>>

PeriodsNext ==
  \/ \E key \in PERIODS : \E s \in Statistics[key] : PublishPeriod(key, s)
  \/ \E key \in COST_PERIODS, c \in Costs : PublishCosts(key, c)
  \/ \E key \in PERIODS : ChoosePeriod(key)
  \/ \E key \in COST_PERIODS : ChooseSpan(key)

PeriodsSpec == PeriodsInit /\ [][PeriodsNext]_periodsVars

\* A period says in its own cell whatever its figure is short of.  It carries a
\* word exactly when an axis is short; a span nobody observed is called that,
\* whatever its record says, and one with calls is never called empty; of two
\* short axes the word names the shorter, and the detail gives both.  Calls are
\* announced only with an amount; an amount that leaves calls out says how many,
\* in the cell and in the detail; and no tokens are listed for a span without
\* calls.  The cost page names every call its total leaves out, and tells of calls
\* without an account whenever there are any, even when their row is cut.
WordMatchesSpan ==
  /\ \A key \in PERIODS :
       LET v == PeriodCell(periods, key) IN
       /\ v.word = "none" <=> v.state \in {"ok", "unknown", "unsupported"}
       /\ v.word = "none" <=> v.spans = {}
       /\ v.word = "short record" => "record" \in v.spans
       /\ v.word = "short observation" => "observed" \in v.spans
       /\ \A l \in PeriodLine(periods, key) :
            LET s == PeriodStats(periods[key]) IN
            /\ Known(s.hours) /\ s.hours > 0 /\ s.observed = 0 => v.word = "unobserved"
            /\ v.word = "no record" => s.record <= Tolerance /\ s.requests = 0
            /\ v.spans = {"record", "observed"} /\ v.word = "short observation" =>
                 s.observed <= s.record
            /\ v.head = "calls" => Known(v.amount) /\ s.requests > 0
            /\ v.partial <=> l.excluded # {}
            /\ l.selected /\ TokenNotes(periods) # {} => v.head \in {"calls", "no price"}
            /\ l.selected => ~Unsupported(periods)
  /\ IsRecord(costs[costSelection]) =>
       LET o == costs[costSelection] v == CostsView IN
       /\ IsRecord(o.total) => \A x \in {"unpriced", "tokenless"} :
            N0(o.total[x]) > 0 <=> <<x, N0(o.total[x])>> \in v.facts
       /\ v.unattributed = {} <=> WithoutAccount(o.accounts) = {}
       /\ v.unattributed \subseteq {N0(o.accounts[n].requests) : n \in WithoutAccount(o.accounts)}
=============================================================================

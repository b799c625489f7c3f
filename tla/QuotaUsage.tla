----------------------------- MODULE QuotaUsage -----------------------------
(***************************************************************************)
(* What a provider's accounts consumed of their limit in a period, twice:  *)
(* the server's total (internal/calc/consumption_total.go) and the page's  *)
(* own computation for answers without it (web/src/ui/quota.ts), and the   *)
(* number of accounts that would cover the total (internal/calc/need.go,   *)
(* and neededAccounts of web/src/contract.ts).                             *)
(*                                                                         *)
(* An amount, a span and a coverage are whole numbers of small units.  A   *)
(* sum or a quotient of floating-point numbers is the exact one and some   *)
(* roundings, each of half a unit in the last place at most.               *)
(***************************************************************************)
EXTENDS Values, FiniteSets, FiniteSetsExt, Functions

CONSTANTS
  Owner,          \* the accounts of one provider
  Holdings,       \* what the server may publish of an account
  PeriodHours,    \* PERIOD_HOURS: the length of each period
  CapacityHours,  \* the length of the windows "weekly" and "monthly"
  SpanSlack,      \* TOL: how far short of its period a span may fall
  Covered,        \* a coverage of 1
  HalfUlps        \* the tolerance of NeededAccounts: 8 eps are sixteen of them

ASSUME QuotaUsageAssumption ==
  /\ SpanSlack \in Nat /\ Covered \in Nat \ {0} /\ HalfUlps \in Nat
  /\ \A p \in DOMAIN PeriodHours : PeriodHours[p] \in Nat \ {0}
  /\ "weekly" \in DOMAIN PeriodHours
  /\ \A id \in {"weekly", "monthly"} : CapacityHours[id] \in Nat \ {0}

\* What ConsumePeriods makes of the readings: no consumption is negative, no coverage
\* is more than the whole, and a window with a forecast has a sample of the week, if
\* one without an amount.
Sampled(o) ==
  LET s == Sample(o)
  IN  s # Null => (Known(s.delta) => s.delta >= 0) /\ (Known(s.coverage) => s.coverage <= Covered)

ASSUME HoldingsAssumption ==
  /\ \E h \in Holdings : DOMAIN h.windows = {}
  /\ \A h \in Holdings : \A id \in DOMAIN h.windows :
       LET w == h.windows[id] IN
       /\ \A p \in DOMAIN PeriodHours : Sampled(w.periods[p])
       /\ Sample(w.forecast) # Null => Sample(w.periods["weekly"]) # Null

VARIABLES
  holding,      \* each account: whether it is paused, and its windows by id
  totalled,     \* the server publishes analytics.quotaConsumption
  usagePeriod   \* ctx.selectedPeriod

usageVars == <<holding, totalled, usagePeriod>>

Holders(id) == {o \in Owner : id \in DOMAIN holding[o].windows}
Held(id)    == {o \in Holders(id) : holding[o].windows[id].wide = TRUE}
Basis == IF Held("weekly") # {} THEN "weekly" ELSE IF Held("monthly") # {} THEN "monthly" ELSE "none"
Unread(o) == DOMAIN holding[o].windows = {}

(***************************************************************************)
(* SumConsumption, consumptionDTO.                                         *)
(***************************************************************************)
Current(id, o) == Sample(holding[o].windows[id].periods[usagePeriod])
Measured(id) == {o \in Held(id) : Current(id, o) # Null /\ Known(Current(id, o).delta)
                                    /\ Current(id, o).delta >= 0}

SumConsumption ==
  LET id == Basis
      measured == IF id = "none" THEN {} ELSE Measured(id)
      S(o) == Current(id, o)
      known == \A o \in measured : Known(S(o).coverage)
  IN  [window |-> id,
       held |-> IF id = "none" THEN 0 ELSE Cardinality(Held(id)),
       measured |-> Cardinality(measured),
       delta |-> IF measured = {} THEN Null ELSE SumFunction([o \in measured |-> S(o).delta]),
       spans |-> SumFunction([o \in measured |-> N0(S(o).span)]),
       coverages |-> IF known THEN SumFunction([o \in measured |-> S(o).coverage]) ELSE Null,
       partial |-> \E o \in measured :
                      \/ ~Known(S(o).coverage) \/ S(o).coverage < Covered
                      \/ N0(S(o).span) < PeriodHours[usagePeriod] - SpanSlack,
       rising |-> \E o \in measured : S(o).rising,
       gaps |-> SumFunction([o \in measured |-> S(o).gaps])]

(***************************************************************************)
(* The figure of a period: fromPublished, and summariseQuotaUsage.  A mean *)
(* is short exactly when the sum is short of as many times the whole.      *)
(***************************************************************************)
Nothing(state) == [state |-> state, window |-> "none", value |-> <<"unknown", 0>>, of |-> <<0, 0>>,
                   short |-> FALSE, seen |-> Null, rising |-> FALSE, gaps |-> 0, absent |-> 0,
                   unreadable |-> 0, historical |-> FALSE]
Unobserved(id, held) == [Nothing("unobserved") EXCEPT !.window = id, !.of = <<0, held>>]
NoWindow == Nothing(IF Owner # {} /\ \A o \in Owner : Unread(o) THEN "unobserved" ELSE "unsupported")

ShortMean(sum, n, whole) == sum < n * whole

FromPublished(t) ==
  IF t.window = "none" THEN NoWindow
  ELSE IF t.measured = 0 THEN Unobserved(t.window, t.held)
  ELSE [Nothing(IF t.partial \/ t.rising \/ t.measured < t.held THEN "partial" ELSE "measured")
        EXCEPT !.window = t.window, !.value = QuotaFigure(t.delta), !.of = <<t.measured, t.held>>,
               !.short = ShortMean(t.spans, t.measured, PeriodHours[usagePeriod] - SpanSlack),
               !.seen = t.coverages, !.rising = t.rising, !.gaps = t.gaps]

\* A past period of an account stands in only when no account has a current one;
\* the forecast of an older answer stands in for the sample of a week.
AnyCurrent(id) == \E o \in Held(id) : Current(id, o) # Null /\ Known(Current(id, o).delta)
Borrowed_Always(id, o) ==
  IF Current(id, o) # Null /\ Known(Current(id, o).delta) THEN Null
  ELSE Sample(holding[o].windows[id].past[usagePeriod])
Borrowed(id, o) ==
  IF AnyCurrent(id) THEN Null ELSE Sample(holding[o].windows[id].past[usagePeriod])
Picked(id, o) ==
  IF Borrowed(id, o) # Null THEN Borrowed(id, o)
  ELSE IF Current(id, o) # Null THEN Current(id, o)
  ELSE IF usagePeriod = "weekly" THEN Sample(holding[o].windows[id].forecast) ELSE Null

SummariseQuotaUsage(id) ==
  LET measured == {o \in Held(id) : Picked(id, o) # Null /\ Known(Picked(id, o).delta)}
      n == Cardinality(measured)
      S(o) == Picked(id, o)
      spans == SumFunction([o \in measured |-> N0(S(o).span)])
      short == ShortMean(spans, n, PeriodHours[usagePeriod] - SpanSlack)
      known == \A o \in measured : Known(S(o).coverage)
      seen == IF known THEN SumFunction([o \in measured |-> S(o).coverage]) ELSE Null
      rising == \E o \in measured : S(o).rising
      historical == \E o \in measured : Borrowed(id, o) # Null
      unreadable == {o \in Owner \ Held(id) : Unread(o)}
      absent == (Owner \ Held(id)) \ unreadable
      partial == \/ historical \/ rising \/ short \/ measured # Held(id)
                 \/ absent # {} \/ unreadable # {}
                 \/ seen = Null
  IN  IF measured = {} THEN Unobserved(id, Cardinality(Held(id)))
      ELSE [Nothing(IF partial THEN "partial"
                    ELSE IF ShortMean(seen, n, Covered) THEN "partial" ELSE "measured")
            EXCEPT !.window = id, !.value = QuotaFigure(SumFunction([o \in measured |-> S(o).delta])),
                   !.of = <<n, Cardinality(Held(id))>>, !.short = short, !.seen = seen,
                   !.rising = rising, !.gaps = SumFunction([o \in measured |-> S(o).gaps]),
                   !.absent = Cardinality(absent), !.unreadable = Cardinality(unreadable),
                   !.historical = historical]

OwnUsage ==
  IF Basis # "none" THEN SummariseQuotaUsage(Basis)
  ELSE IF \E id \in {"weekly", "monthly"} : \E o \in Holders(id) :
            holding[o].windows[id].wide = Null
  THEN Nothing("unknown-scope") ELSE NoWindow

WeeklyQuotaUsage == IF totalled THEN FromPublished(SumConsumption) ELSE OwnUsage

(***************************************************************************)
(* NeededAccounts: raw is sum / 100 * capacity / period with some number   *)
(* of half units in the last place of error, and a whole number within the *)
(* tolerance stands for itself.  RecommendFromTotal, recommendationView    *)
(* and a row of quotaView write it.                                        *)
(***************************************************************************)
Ceiling(x, y) == IF x % y = 0 THEN x \div y ELSE x \div y + 1

NeededAccounts_Unrounded(sum, capacity, period, error) ==
  LET exact == sum * capacity  unit == 100 * period IN
  IF exact % unit = 0 /\ exact > 0 /\ error > 0 THEN exact \div unit + 1
  ELSE Ceiling(exact, unit)

NeededAccounts(sum, capacity, period, error) ==
  LET exact == sum * capacity  unit == 100 * period
      whole == exact % unit = 0 /\ exact > 0
  IN  IF whole /\ error > HalfUlps THEN exact \div unit + 1 ELSE Ceiling(exact, unit)

\* An addition for every account after the first, a division, a product, a division.
Roundings(measured) == measured + 2

Recommendation(t, error) ==
  LET working == Cardinality({o \in Owner : ~holding[o].paused})
      need == IF t.delta = Null THEN Null
              ELSE NeededAccounts(t.delta, CapacityHours[t.window], PeriodHours[usagePeriod], error)
  IN  [status |-> IF t.delta = Null THEN "collecting"
                  ELSE IF t.partial \/ t.rising \/ t.measured < t.held THEN "provisional" ELSE "ready",
       need |-> need,
       add |-> IF need = Null THEN Null ELSE Max({0, need - working})]

RecommendationView(published) ==
  LET r == RecommendationOf(published)
  IN  IF r.status # "collecting" /\ Known(r.need) THEN <<r.need>> ELSE << >>
QuotaRow(t, r) ==
  [total |-> IF t.delta = Null THEN <<"unknown", 0>> ELSE QuotaFigure(t.delta),
   of |-> <<t.measured, t.held>>, need |-> IF r.need = Null THEN << >> ELSE <<r.need>>]

(***************************************************************************)
(* A cycle publishes what it read of an account; the server may be one     *)
(* that publishes no totals; the reader chooses a period.                  *)
(***************************************************************************)
UsageInit ==
  /\ holding = [o \in Owner |-> CHOOSE h \in Holdings : DOMAIN h.windows = {}]
  /\ totalled = TRUE /\ usagePeriod = "weekly"

ReadAccount(o, h) == holding' = [holding EXCEPT ![o] = h] /\ UNCHANGED <<totalled, usagePeriod>>
Upgrade    == totalled' = ~totalled /\ UNCHANGED <<holding, usagePeriod>>
ChooseUsagePeriod(p) ==
  /\ p # usagePeriod /\ usagePeriod' = p /\ UNCHANGED <<holding, totalled>>

UsageNext ==
  \/ \E o \in Owner, h \in Holdings : ReadAccount(o, h)
  \/ Upgrade
  \/ \E p \in DOMAIN PeriodHours : ChooseUsagePeriod(p)

UsageSpec == UsageInit /\ [][UsageNext]_usageVars

\* The page says the same of a period whether the server totals it or the page
\* does: the same window, amount, accounts, gaps and shortage.  It may know more:
\* that accounts without the limit, or unread ones, leave the total partial; that
\* nothing of the period was read but something before it; and, before servers
\* said so, that a window's scope is not known.  It may know less of one thing
\* only: spans short by the tolerance on average, one of them by more.
PublishedAgrees ==
  LET own == OwnUsage  theirs == FromPublished(SumConsumption)
      shared == {"window", "value", "of", "short", "seen", "rising", "gaps"}
  IN  /\ own.state # "unknown-scope" /\ ~own.historical =>
           /\ \A f \in shared : own[f] = theirs[f]
           /\ theirs.state \in {"unobserved", "unsupported"} => own.state = theirs.state
           /\ own.state = "measured" =>
                \/ theirs.state = "measured"
                \/ ~own.short /\ \E o \in Held(Basis) :
                      N0(Current(Basis, o).span) < PeriodHours[usagePeriod] - SpanSlack
           /\ own.absent + own.unreadable = 0 /\ theirs.state = "measured" => own.state = "measured"
           /\ own.absent + own.unreadable > 0 => own.state = "partial"
      /\ own.historical => theirs.state = "unobserved" /\ own.state = "partial"
      /\ own.state = "unknown-scope" => theirs.window = "none"
      /\ WeeklyQuotaUsage.state = "measured" =>
           \A o \in Held(Basis) : Current(Basis, o).coverage = Covered

\* Whatever the roundings of the sum and the quotient, the number of accounts
\* written is the least whose windows hold the whole total; none is written for
\* a period nothing was read of, and what is to be added is what is missing.
NeedIsLeast ==
  LET t == SumConsumption  e == Roundings(t.measured) IN
  \A error \in -e .. e :
    LET r == Recommendation(t, error)  shown == RecommendationView(r) IN
    /\ shown = QuotaRow(t, r).need
    /\ (shown = << >>) = (FromPublished(t).state \in {"unobserved", "unsupported"})
    /\ \A i \in DOMAIN shown :
         LET unit == 100 * PeriodHours[usagePeriod]  used == t.delta * CapacityHours[t.window] IN
         /\ shown[i] * unit >= used
         /\ shown[i] > 0 => (shown[i] - 1) * unit < used
         /\ r.add + Cardinality({o \in Owner : ~holding[o].paused}) >= shown[i]
=============================================================================

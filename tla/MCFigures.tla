----------------------------- MODULE MCFigures -----------------------------
(* Everything the page writes and the tools behind it, one machine at a time: *)
(* the readings, the spans of usage, a provider's total, the route check, the *)
(* embedding of the page, the check of the release binary, and the loop of    *)
(* Scheduler.backoff.  "part" is the one that runs; the others stay in one    *)
(* state.                                                                     *)
EXTENDS Readings, Periods, QuotaUsage, Flow, Embed, PortCheck, BackoffLoop, TLC

CONSTANTS a1, a2, o1, o2, null, junk, extless, cut, nobody

(* What may be published of an account: a1 takes every status, age and form   *)
(* of a window, a2 stays current and brings a model's window along.           *)
WeeklyWindow(left, stale, reset, analytics) ==
  [key |-> "weekly", left |-> left, stale |-> stale, reset |-> reset, spark |-> FALSE,
   analytics |-> analytics]
SparkWindow ==
  [key |-> "spark", left |-> 4, stale |-> FALSE, reset |-> 1, spark |-> TRUE, analytics |-> null]
Analysed ==
  [status |-> "ok", capacity |-> 5, remaining |-> 3, exhausts |-> 1, rate |-> 1,
   resetFirst |-> junk, prior |-> null]
Collecting ==
  [status |-> "collecting", capacity |-> null, remaining |-> null, exhausts |-> null, rate |-> null,
   resetFirst |-> FALSE, prior |-> [usd |-> 4, remaining |-> junk]]
AnalysisOf(left) == IF left = 0 THEN Collecting ELSE Analysed
Unshared ==
  [reported |-> null, calculated |-> junk, used |-> 99999, limit |-> null, limitState |-> "zero",
   reconciliation |-> "unverified", precision |-> "none such", semantics |-> "unknown"]
AccountAt(status, seen, windows) ==
  [status |-> status, seen |-> seen, windows |-> windows,
   refresh |-> IF status = "ok" THEN [status |-> "delayed", next |-> 1] ELSE null,
   direct |-> IF status = "reauth"
              THEN [status |-> "unauthorized", next |-> junk, evidence |-> junk,
                    last |-> [status |-> status, windows |-> <<[used |-> 4, measured |-> junk]>>]]
             ELSE IF status = "stale"
             THEN [status |-> "partial", next |-> 1, last |-> null,
                    evidence |-> <<[stale |-> TRUE, measurement |-> Unshared]>>] ELSE null]
Various ==
  {AccountAt(status, seen, <<WeeklyWindow(left, FALSE, reset, AnalysisOf(left))>>) :
     status \in {"ok", "stale", "reauth", "unavailable"}, seen \in {null, -2, 0},
     left \in {null, 50000}, reset \in {null, junk, 1, 2}}
  \cup {AccountAt(status, 0, <<WeeklyWindow(left, TRUE, 2, AnalysisOf(left))>>) :
          status \in {"ok", "stale", "reauth", "unavailable"}, left \in {null, 50000}}
  \cup {AccountAt("ok", 0, <<WeeklyWindow(left, FALSE, 2, AnalysisOf(left))>>) :
          left \in {0, 4, 99999, 100001}}
  \cup {AccountAt("ok", 0, <<WeeklyWindow(50000, FALSE, 2, Analysed), SparkWindow>>),
        AccountAt("unavailable", null, << >>)}
  \cup {AccountAt("odd", 0, << >>), AccountAt("ok", 0, junk),
        AccountAt("ok", 0, <<WeeklyWindow(junk, FALSE, 2, Analysed)>>)}
Few ==
  {AccountAt("ok", 0, <<WeeklyWindow(100000, FALSE, 2, Analysed)>>),
   AccountAt("ok", 0, <<WeeklyWindow(4, FALSE, 1, Analysed), SparkWindow>>)}
SomePublished == (a1 :> Various) @@ (a2 :> Few)
Listed(health) == [health |-> health]
SomeRosters == {<< >>, <<Listed("ok"), junk>>, <<Listed("critical"), Listed("odd")>>}

(* What may be published of a span: missing, unreadable, of every shortage.   *)
StatisticsOf(hours, record, observed, requests, usd, unpriced) ==
  [hours |-> hours, record |-> record, observed |-> observed, requests |-> requests,
   priced |-> requests, usd |-> usd, unpriced |-> unpriced, cached |-> unpriced]
SomeStatistics ==
  ("weekly" :> {null, junk, StatisticsOf(null, 2, 4, 2, 5, 0)} \cup
     {StatisticsOf(4, record, observed, calls[1], usd, calls[2]) :
        record \in {null, 0, 2, 4}, observed \in {null, 0, 1, 3, 4}, usd \in {null, 5},
        calls \in {<<junk, 0>>, <<2, 0>>, <<2, 1>>}})
  @@ ("oneHour" :> {null, StatisticsOf(1, 1, 1, 0, 0, 0), StatisticsOf(4, 2, 2, 2, 5, 1)})
CostRow(key, requests, usd) ==
  [requests |-> requests, usd |-> usd, unpriced |-> 0, tokenless |-> 0, key |-> key, share |-> 120]
SomeCosts == {null,
  [total |-> [requests |-> 3, usd |-> 2, unpriced |-> 1, tokenless |-> 2],
   accounts |-> <<junk, CostRow("a", 2, 2), CostRow("none", 1, null),
                 CostRow("none", 4, null)>>],
  [total |-> [requests |-> 3, usd |-> 2, unpriced |-> null, tokenless |-> 0],
   accounts |-> <<CostRow("b", 3, 2)>>]}

(* What may be published of an account's consumption, in hundredths of its    *)
(* limit: the week of 4 units, the hour of 1, and the month of 16.            *)
Steady(delta, span, coverage) ==
  [delta |-> delta, span |-> span, coverage |-> coverage, basis |-> "steady", gaps |-> 0]
Rise == [delta |-> 50, span |-> 4, coverage |-> 2, basis |-> "observed-increase", gaps |-> 1]
LimitWindow(wide, week, hour, past, forecast) ==
  [wide |-> wide, periods |-> ("weekly" :> week) @@ ("oneHour" :> hour),
   past |-> ("weekly" :> past) @@ ("oneHour" :> null), forecast |-> forecast]
HoldingOf(paused, windows) == [paused |-> paused, windows |-> windows]
Monthly(wide, week) == LimitWindow(wide, week, Steady(75, 1, 2), null, null)
SomeHoldings ==
  {HoldingOf(paused, << >>) : paused \in BOOLEAN}
  \cup {HoldingOf(FALSE, "weekly" :> LimitWindow(TRUE, week, hour, past, null)) :
      week \in {null, Steady(null, 4, 2), Steady(0, 4, 2), Steady(100, 4, 2), Steady(30, 2, 2),
                Steady(31, 4, 1), Steady(1, 4, null), Rise},
      hour \in {null, Steady(100, 1, 2)}, past \in {null, Steady(7, 4, 2)}}
  \cup {HoldingOf(FALSE, "weekly" :> LimitWindow(TRUE, Steady(100, 4, 2), hour, null, null)) :
      hour \in {Steady(25, 1, 2), Steady(24, 0, 1)}}
  \cup {HoldingOf(FALSE, "weekly" :> LimitWindow(TRUE, Steady(30, 2, 2), null, null, Steady(9, 4, 2)))}
  \cup {HoldingOf(TRUE, "monthly" :> LimitWindow(wide, Steady(50, 3, 2), Steady(75, 1, 2),
                                                 Steady(1, 1, 1), null)) : wide \in {TRUE, FALSE, null}}
  \cup {HoldingOf(FALSE, ("weekly" :> LimitWindow(wide, Steady(4, 4, 2), null, null, null))
                         @@ ("monthly" :> Monthly(TRUE, Steady(50, 4, 2)))) :
          wide \in {TRUE, FALSE, null}}
SomePeriodHours   == ("weekly" :> 4) @@ ("oneHour" :> 1)
SomeCapacityHours == ("weekly" :> 4) @@ ("monthly" :> 16)

Stops == {"", "04", "99"}
SomeCompiled == <<"app.js">>
SomeCopied   == <<"index.html">>

(* The figures of the code, in minutes.                                       *)
MCFailures == 0 .. 12
MCFloors   == {0, 1, 2, 5, 30, 31, 90}

VARIABLE part
figuresVars ==
  <<part, readingsVars, periodsVars, usageVars, flowVars, embedVars, portVars, vars>>

ReadingsAtRest ==
  accounts = [id \in Account |-> AccountAt("unavailable", null, << >>)] /\ roster = << >>
PeriodsAtRest  ==
  /\ periods = null /\ selected = "weekly"
  /\ costs = [key \in COST_PERIODS |-> null] /\ costSelection = "week"
FlowAtRest     == FlowInit /\ stopAt = ""
LoopAtRest     == Init /\ failures = 0 /\ floor = 0

FiguresInit ==
  \/ part = "readings" /\ ReadingsInit   /\ PeriodsAtRest /\ UsageInit /\ FlowAtRest /\ EmbedInit /\ PortInit /\ LoopAtRest
  \/ part = "periods"  /\ ReadingsAtRest /\ PeriodsInit   /\ UsageInit /\ FlowAtRest /\ EmbedInit /\ PortInit /\ LoopAtRest
  \/ part = "flow"     /\ ReadingsAtRest /\ PeriodsAtRest /\ UsageInit /\ FlowInit   /\ EmbedInit /\ PortInit /\ LoopAtRest
  \/ part = "loop"     /\ ReadingsAtRest /\ PeriodsAtRest /\ UsageInit /\ FlowAtRest /\ EmbedInit /\ PortInit /\ Init
  \/ part \in {"usage", "embed", "port"}
                       /\ ReadingsAtRest /\ PeriodsAtRest /\ UsageInit /\ FlowAtRest /\ EmbedInit /\ PortInit /\ LoopAtRest

FiguresNext ==
  /\ UNCHANGED part
  /\ \/ part = "readings" /\ ReadingsNext /\ UNCHANGED <<periodsVars, usageVars, flowVars, embedVars, portVars, vars>>
     \/ part = "periods"  /\ PeriodsNext  /\ UNCHANGED <<readingsVars, usageVars, flowVars, embedVars, portVars, vars>>
     \/ part = "usage"    /\ UsageNext    /\ UNCHANGED <<readingsVars, periodsVars, flowVars, embedVars, portVars, vars>>
     \/ part = "flow"     /\ FlowNext     /\ UNCHANGED <<readingsVars, periodsVars, usageVars, embedVars, portVars, vars>>
     \/ part = "embed"    /\ EmbedNext    /\ UNCHANGED <<readingsVars, periodsVars, usageVars, flowVars, portVars, vars>>
     \/ part = "port"     /\ PortNext     /\ UNCHANGED <<readingsVars, periodsVars, usageVars, flowVars, embedVars, vars>>
     \/ part = "loop"     /\ Next         /\ UNCHANGED <<readingsVars, periodsVars, usageVars, flowVars, embedVars, portVars>>

FiguresSpec == FiguresInit /\ [][FiguresNext]_figuresVars
=============================================================================

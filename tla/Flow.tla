-------------------------------- MODULE Flow --------------------------------
(***************************************************************************)
(* The route check of the page: scripts/ui-flow.ts drives one browser      *)
(* (scripts/ui-browser.ts) through ten steps, freezes its clock, replaces  *)
(* its fetch, cuts its network and marks the snapshot it is served, and    *)
(* undoes all of it before it says whether the route passed.               *)
(*                                                                         *)
(* An operation of a step is one call of the browser: a click by text      *)
(* ("click") that may miss, an evaluation ("evaluate", or an injection)    *)
(* that may throw, a wait ("settle") that never throws, an assertion       *)
(* ("check") that may fail.  A scene of step 09 is captured at four sizes  *)
(* and themes, here at one; what a check evaluates for its message goes    *)
(* with what it checks.                                                    *)
(***************************************************************************)
EXTENDS Naturals, Sequences, FiniteSets

CONSTANT StopAfter   \* what QUOTA_UI_FLOW_STOP may be: step names, or "" for unset

VARIABLES
  stage,       \* "opening", "running", "restoring", "returned", "closed" or "hung"
  running,     \* what was started and not yet torn down
  stopAt,      \* QUOTA_UI_FLOW_STOP
  stepNo, opNo, \* the step under way and the next of its operations
  failedHere, stopped,
  missed,      \* failures: something was recorded against the route
  flags,       \* pinned, injectedFetch, cdpOffline
  injected,    \* what the page, or its snapshot, is really under
  ran,         \* the steps whose body came to its end
  verdict      \* how the process ended: "none", "pass" or "fail"

flowVars == <<stage, running, stopAt, stepNo, opNo, failedHere, stopped, missed,
              flags, injected, ran, verdict>>

\* selectPeriod, typeSearch, counter, unattended, refreshed, and skew of step 08.
SelectPeriod == <<"click", "settle">>
TypeSearch   == <<"evaluate">>
Unattended   == <<"evaluate", "mark", "evaluate", "settle", "unmark">>
Refreshed    == <<"evaluate", "settle">>
SkewClock         == <<"evaluate">> \o Refreshed
Checks(n)    == [k \in 1 .. n |-> "check"]
Read(n)      == [k \in 1 .. 2 * n |-> IF k % 2 = 1 THEN "evaluate" ELSE "check"]

Summary == <<"click", "settle", "check">> \o SelectPeriod \o <<"check">> \o Read(1)
Period  == <<"evaluate">> \o SelectPeriod \o <<"check", "settle", "check">> \o Read(2)
ProviderAccounts ==
  <<"click", "settle", "check">> \o TypeSearch \o <<"settle", "check">> \o Read(1)
CalcDetail ==
  <<"evaluate">> \o Read(1) \o <<"evaluate">> \o Read(1) \o <<"settle", "check">> \o Read(1)
    \o Unattended \o <<"check">> \o Read(1)
AutomaticPricing == TypeSearch \o <<"click">> \o SelectPeriod \o Read(2)
Sources == <<"evaluate">> \o Read(2)
Refresh == <<"evaluate">> \o Refreshed \o <<"check">> \o Read(2)
Failure ==
  <<"click", "settle">> \o TypeSearch \o <<"evaluate">> \o Refreshed
    \o <<"pin">> \o Refreshed \o <<"evaluate", "evaluate", "evaluate">> \o Read(1) \o <<"check">>
    \o <<"inject", "evaluate", "settle", "check">> \o Read(3)
    \o <<"evaluate", "evaluate", "settle", "check">> \o SkewClock \o Read(1)
    \o SkewClock \o Read(2) \o SkewClock \o Read(1) \o SkewClock \o Read(1)
    \o <<"release">> \o Refreshed \o <<"settle", "check", "evaluate", "settle", "check">>
    \o <<"cut", "settle", "check">> \o Read(1) \o <<"evaluate">> \o Read(1)
    \o <<"pin">> \o Read(1) \o <<"evaluate", "settle", "check">> \o Read(1)
    \o <<"unpin", "reconnect", "settle", "check">>
Capture == <<"resize", "evaluate", "settle", "evaluate">>
Evidence ==
  <<"evaluate", "click", "settle">> \o SelectPeriod \o Capture \o <<"resetSize">>
    \o <<"click", "settle", "evaluate">> \o Capture \o <<"resetSize">>
    \o <<"click", "evaluate">> \o Capture \o <<"resetSize">>
    \o <<"pinInject", "click", "settle", "evaluate", "settle">> \o Capture \o <<"resetSize">>
    \o <<"check", "restore", "settle", "check">>
DirectBasis ==
  <<"click", "settle", "settle", "check">> \o Read(1) \o <<"settle", "check", "evaluate">>
    \o Unattended \o <<"check">> \o Read(1) \o <<"evaluate">> \o Read(1) \o <<"check">>

STEPS == <<Summary, Period, ProviderAccounts, CalcDetail, AutomaticPricing, Sources, Refresh,
           Failure, Evidence, DirectBasis>>
NAMES == <<"01", "02", "03", "04", "05", "06", "07", "08", "09", "10">>

Adds ==
  [pin |-> {"clock"}, inject |-> {"fetch"}, pinInject |-> {"clock", "fetch"}, cut |-> {"network"},
   mark |-> {"warnings"}, resize |-> {"size"}]
Removes ==
  [unpin |-> {"clock"}, release |-> {"clock", "fetch"}, reconnect |-> {"network"},
   unmark |-> {"warnings"}, resetSize |-> {"size"}]
Flagged == {"clock", "fetch", "network"}

(***************************************************************************)
(* openDashboard, startFixtureServer and close.  From the launch of the    *)
(* browser on, what was started is torn down before the error goes on; an  *)
(* earlier failure leaves what there was.                                  *)
(***************************************************************************)
STARTS == <<"dir", "server", "profile", "chrome">>

FlowInit ==
  /\ stage = "opening" /\ running = {} /\ stopAt \in StopAfter
  /\ stepNo = 1 /\ opNo = 1 /\ failedHere = FALSE /\ stopped = FALSE /\ missed = FALSE
  /\ flags = {} /\ injected = {} /\ ran = {} /\ verdict = "none"

route == <<stopAt, stepNo, opNo, failedHere, stopped, missed, flags, injected, ran>>

Start ==
  /\ stage = "opening" /\ Cardinality(running) < Len(STARTS)
  /\ running' = running \cup {STARTS[Cardinality(running) + 1]}
  /\ UNCHANGED <<stage, verdict, route>>
Attach ==
  /\ stage = "opening" /\ "chrome" \in running
  /\ stage' = "running" /\ UNCHANGED <<running, verdict, route>>
Refuse ==
  /\ stage = "opening"
  /\ running' \in IF "chrome" \in running THEN {{}}
                  ELSE IF running = {"dir", "server"} THEN {{"dir"}, running} ELSE {running}
  /\ stage' = "closed" /\ verdict' = "fail" /\ UNCHANGED route

(***************************************************************************)
(* step and check.  An operation that throws ends the body of its step;    *)
(* unattended takes its mark back on the way out, once it is published.    *)
(***************************************************************************)
Op == STEPS[stepNo][opNo]
InStep == stage = "running" /\ stepNo <= Len(STEPS) /\ ~stopped /\ opNo <= Len(STEPS[stepNo])

Advance(ok) ==
  /\ opNo' = opNo + 1
  /\ missed' = (missed \/ ~ok)
  /\ UNCHANGED <<stage, running, stopAt, stepNo, stopped, ran, verdict>>

Do ==
  /\ InStep /\ Op \notin {"check", "restore"}
  /\ injected' = IF Op \in DOMAIN Adds THEN injected \cup Adds[Op]
                 ELSE IF Op \in DOMAIN Removes THEN injected \ Removes[Op] ELSE injected
  /\ flags' = IF Op \in DOMAIN Adds THEN flags \cup (Adds[Op] \cap Flagged)
              ELSE IF Op \in DOMAIN Removes THEN flags \ Removes[Op] ELSE flags
  /\ UNCHANGED failedHere
  /\ Advance(TRUE)

\* clickText records what it could not click and goes on.
MissClick ==
  /\ InStep /\ Op = "click"
  /\ UNCHANGED <<failedHere, flags, injected>> /\ Advance(FALSE)

Check(ok) ==
  /\ InStep /\ Op = "check"
  /\ failedHere' = (failedHere \/ ~ok)
  /\ UNCHANGED <<flags, injected>> /\ Advance(ok)

Throw ==
  /\ InStep /\ Op \notin {"settle", "check", "restore"}
  /\ opNo' = Len(STEPS[stepNo]) + 1
  /\ failedHere' = TRUE /\ missed' = TRUE
  /\ injected' = IF Op = "mark" THEN injected \cup {"warnings"}
                 ELSE IF Op = "unmark" THEN injected ELSE injected \ {"warnings"}
  /\ UNCHANGED <<stage, running, stopAt, stepNo, stopped, flags, ran, verdict>>

\* The end of a step; dump changes nothing, and must never mask the failure.
EndStep(id) == stopped' = (failedHere \/ stopAt = id)

NextStep ==
  /\ stage = "running" /\ stepNo <= Len(STEPS) /\ ~stopped /\ opNo > Len(STEPS[stepNo])
  /\ EndStep(NAMES[stepNo])
  /\ ran' = IF failedHere THEN ran ELSE ran \cup {stepNo}
  /\ stepNo' = stepNo + 1 /\ opNo' = 1 /\ failedHere' = FALSE
  /\ UNCHANGED <<stage, running, stopAt, missed, flags, injected, verdict>>

(***************************************************************************)
(* restoreAll, inside step 09 and in the end: the network, then the clock  *)
(* and fetch in one evaluation, then the size, then a refresh of the page. *)
(* One that throws is recorded, and what comes after it is not undone.     *)
(***************************************************************************)
Undoes_ClockOnly(k) ==
  (IF k >= 1 /\ "network" \in flags THEN {"network"} ELSE {})
    \cup (IF k >= 2 /\ "clock" \in flags THEN {"clock"} ELSE {})
    \cup (IF k >= 3 THEN {"size"} ELSE {})
Undoes(k) ==
  (IF k >= 1 /\ "network" \in flags THEN {"network"} ELSE {})
    \cup (IF k >= 2 /\ {"clock", "fetch"} \cap flags # {} THEN {"clock", "fetch"} ELSE {})
    \cup (IF k >= 3 THEN {"size"} ELSE {})
RestoreAll(k) ==
  /\ injected' = injected \ Undoes(k)
  /\ flags' = flags \ Undoes(k)
  /\ missed' = (missed \/ k < 4)

RestoreInStep ==
  /\ InStep /\ Op = "restore" /\ \E k \in 0 .. 4 : RestoreAll(k)
  /\ opNo' = opNo + 1
  /\ UNCHANGED <<stage, running, stopAt, stepNo, failedHere, stopped, ran, verdict>>

Finally ==
  /\ stage = "running" /\ (stopped \/ stepNo > Len(STEPS))
  /\ \E k \in 0 .. 4 : RestoreAll(k)
  /\ stage' = "returned"
  /\ UNCHANGED <<running, stopAt, stepNo, opNo, failedHere, stopped, ran, verdict>>

(***************************************************************************)
(* The end of the script: the browser's own problems count, the session is *)
(* closed, and a route stopped early is not a pass.                        *)
(***************************************************************************)
Verdict(problems) == IF missed \/ problems \/ stopAt # "" THEN "fail" ELSE "pass"

Close(problems) ==
  /\ stage = "returned"
  /\ missed' = (missed \/ problems)
  /\ running' = {} /\ stage' = "closed" /\ verdict' = Verdict(problems)
  /\ UNCHANGED <<stopAt, stepNo, opNo, failedHere, stopped, flags, injected, ran>>

\* What cannot be removed stays, and the script ends with an error.
CloseThrows ==
  /\ stage = "returned"
  /\ running' \in {{"dir", "profile"}, {"profile"}} /\ stage' = "closed" /\ verdict' = "fail"
  /\ UNCHANGED route

\* A browser that is gone answers no call, and no call gives up waiting.
LoseBrowser ==
  /\ stage = "running" /\ stage' = "hung" /\ UNCHANGED <<running, verdict, route>>

FlowNext ==
  \/ Start \/ Attach \/ Refuse
  \/ Do \/ MissClick \/ (\E ok \in BOOLEAN : Check(ok)) \/ Throw
  \/ NextStep \/ RestoreInStep \/ Finally
  \/ (\E problems \in BOOLEAN : Close(problems)) \/ CloseThrows
  \/ LoseBrowser

FlowSpec == FlowInit /\ [][FlowNext]_flowVars

\* A pass means the whole route: every step to its end, nothing recorded, not
\* stopped early, the page as it was and nothing left behind.  What the page is
\* under, a flag says; a clock, a fetch, a network, a size or a mark the route did
\* not put back is a recorded failure; no step runs after one that failed; and no
\* process outlives a script that had its browser.
PassIsWhole ==
  /\ verdict = "pass" =>
       ran = DOMAIN STEPS /\ ~missed /\ stopAt = "" /\ injected = {} /\ running = {}
  /\ injected \cap Flagged = flags
  /\ stage \in {"returned", "closed"} /\ injected # {} => missed
  /\ failedHere => missed
  /\ stepNo > 1 /\ ~stopped => ran = 1 .. (stepNo - 1)
  /\ stage = "closed" /\ ran # {} => running \cap {"server", "chrome"} = {}
=============================================================================

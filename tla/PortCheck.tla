------------------------------ MODULE PortCheck ------------------------------
(***************************************************************************)
(* The check of the release binary, scripts/check-port-ui.ts: build the    *)
(* page and the fixture server, let the server refuse an incomplete        *)
(* directory, find a port, start the server on it, and drive the page it   *)
(* serves through scripts/ui-browser.ts.                                   *)
(*                                                                         *)
(* Other processes take and leave the ports meanwhile: "other" answers     *)
(* /healthz well, if not always in time, as the server of a second check   *)
(* does; "mute" never does.  The checks that syncEmbed and its controls    *)
(* make are in Embed.                                                      *)
(***************************************************************************)
EXTENDS Naturals, Sequences, SequencesExt

CONSTANTS
  LastPort,   \* the ports tried are 1 .. LastPort: 18794 to 18820
  Nobody      \* holds a port that is free

ASSUME PortCheckAssumption ==
  LastPort \in Nat \ {0} /\ Nobody \notin {"own", "other", "mute"}

VARIABLES
  at,        \* the phase under way: one of PHASES, or "over"
  pageOp,    \* the next of PAGE
  occupant,  \* who holds each port: Nobody, "own", "other" or "mute"
  chosen,    \* the port that was picked, or 0
  raced,     \* another server took that port before ours had it
  late,      \* another server had that port at the pick, and answered too late
  server,    \* the child: "none", "starting", "serving", "gone" or "killed"
  drove,     \* whose page the browser was sent to
  noted,     \* "nothing", a recorded "failure", or an "error" on its way out
  scratch,   \* the directory of the check exists
  outcome    \* "none", "pass" or "fail"

portVars == <<at, pageOp, occupant, chosen, raced, late, server, drove, noted, scratch, outcome>>

PHASES == <<"build", "controls", "binary", "denied", "pick", "spawn", "health", "routes",
            "open", "page", "close", "release", "report">>
After(phase) == PHASES[1 + CHOOSE i \in 1 .. Len(PHASES) - 1 : PHASES[i] = phase]

\* The page, call by call: an expectation, a click that may miss, an evaluation
\* that may throw.  A wait never throws, and each is here followed by what is
\* expected of it.
Expect(n)   == [k \in 1 .. n |-> "expect"]
Ask(n)      == FlattenSeq([k \in 1 .. n |-> <<"evaluate", "expect">>])
FirstRender == Expect(1) \o Ask(3)
Controls    == Ask(9)
PeriodChoice ==
  <<"click">> \o Expect(1) \o <<"click">> \o Expect(1) \o Ask(1) \o <<"evaluate", "evaluate">> \o Ask(2)
Amounts ==
  <<"evaluate">> \o Ask(1) \o <<"click", "evaluate">> \o Ask(1)
Order       ==
  <<"click", "evaluate", "evaluate", "evaluate", "evaluate">> \o Expect(2)
KeepsLast   == <<"evaluate", "evaluate">> \o Expect(1) \o <<"evaluate", "evaluate">> \o Expect(2)
Narrow      == <<"evaluate">> \o Expect(1) \o Ask(2)
Console     == Expect(1)
PAGE == FirstRender \o Controls \o PeriodChoice \o Amounts \o Order \o KeepsLast \o Narrow \o Console

PortInit ==
  /\ at = "build" /\ pageOp = 1 /\ chosen = 0 /\ raced = FALSE /\ late = FALSE
  /\ server = "none" /\ drove = "none" /\ noted = "nothing" /\ scratch = FALSE /\ outcome = "none"
  /\ occupant = [p \in 1 .. LastPort |-> Nobody]

(***************************************************************************)
(* What comes before the server.  fail ends the process where it is called *)
(* and an error nobody catches does too: no "finally" of the script runs.  *)
(***************************************************************************)
Note(ok)    == noted' = IF ok \/ noted = "error" THEN noted ELSE "failure"
GoOn(phase) == at = phase /\ at' = After(phase)
Exit        == at' = "over" /\ outcome' = "fail"

Prepare(phase) ==
  /\ phase \in {"build", "binary", "denied"} /\ GoOn(phase)
  /\ UNCHANGED <<pageOp, occupant, chosen, raced, late, server, drove, noted, scratch, outcome>>
ControlsRefuse(ok) ==
  /\ GoOn("controls") /\ scratch' = TRUE /\ Note(ok)
  /\ UNCHANGED <<pageOp, occupant, chosen, raced, late, server, drove, outcome>>
GiveUp ==
  /\ at \in {"build", "controls", "binary"} /\ Exit
  /\ scratch' \in IF at = "controls" THEN BOOLEAN ELSE {scratch}
  /\ UNCHANGED <<pageOp, occupant, chosen, raced, late, server, drove, noted>>

\* pickPort tries one port after the other: one that answers within 200 ms, well or
\* not, is passed over; any other is taken, one whose holder is slower than that too.
Answers_Never(p, inTime) == FALSE
Answers(p, inTime) == occupant[p] # Nobody /\ inTime

PickPort ==
  /\ at = "pick" /\ chosen < LastPort
  /\ chosen' = chosen + 1
  /\ \E inTime \in BOOLEAN :
       IF Answers(chosen', inTime) THEN UNCHANGED <<at, late>>
       ELSE at' = After("pick") /\ late' = (occupant[chosen'] = "other" /\ ~inTime)
  /\ UNCHANGED <<pageOp, occupant, raced, server, drove, noted, scratch, outcome>>
NoPort ==
  /\ at = "pick" /\ chosen = LastPort /\ Exit
  /\ UNCHANGED <<pageOp, occupant, chosen, raced, late, server, drove, noted, scratch>>

(***************************************************************************)
(* The server.  It ends when it cannot listen; waitHealth asks the port,   *)
(* not the process, any server may be too slow for all of its tries, and   *)
(* its fail leaves the process behind.                                     *)
(***************************************************************************)
Spawn ==
  /\ GoOn("spawn") /\ server' = "starting"
  /\ UNCHANGED <<pageOp, occupant, chosen, raced, late, drove, noted, scratch, outcome>>
Listen ==
  /\ server = "starting"
  /\ IF occupant[chosen] = Nobody
     THEN occupant' = [occupant EXCEPT ![chosen] = "own"] /\ server' = "serving"
     ELSE server' = "gone" /\ UNCHANGED occupant
  /\ UNCHANGED <<at, pageOp, chosen, raced, late, drove, noted, scratch, outcome>>
Healthy ==
  /\ GoOn("health") /\ occupant[chosen] \in {"own", "other"}
  /\ UNCHANGED <<pageOp, occupant, chosen, raced, late, server, drove, noted, scratch, outcome>>
Unhealthy ==
  /\ at = "health" /\ Exit
  /\ UNCHANGED <<pageOp, occupant, chosen, raced, late, server, drove, noted, scratch>>

(***************************************************************************)
(* From here on the server is killed whatever happens, and the page closed *)
(* once it was open.                                                       *)
(***************************************************************************)
Leave(phase, ok) == at' = phase /\ noted' = IF ok THEN noted ELSE "error"

Routes(ok) ==
  /\ GoOn("routes") /\ occupant[chosen] # Nobody /\ Note(ok)
  /\ UNCHANGED <<pageOp, occupant, chosen, raced, late, server, drove, scratch, outcome>>
RoutesThrow ==
  /\ at = "routes" /\ Leave("release", FALSE)
  /\ UNCHANGED <<pageOp, occupant, chosen, raced, late, server, drove, scratch, outcome>>
Open(ok) ==
  /\ at = "open"
  /\ IF ok THEN GoOn("open") /\ drove' = occupant[chosen] /\ UNCHANGED noted
     ELSE Leave("release", FALSE) /\ UNCHANGED drove
  /\ UNCHANGED <<pageOp, occupant, chosen, raced, late, server, scratch, outcome>>
Call(ok) ==
  /\ at = "page" /\ pageOp <= Len(PAGE)
  /\ IF PAGE[pageOp] = "evaluate" /\ ~ok
     THEN Leave("close", FALSE) /\ UNCHANGED pageOp
     ELSE pageOp' = pageOp + 1 /\ Note(ok) /\ UNCHANGED at
  /\ UNCHANGED <<occupant, chosen, raced, late, server, drove, scratch, outcome>>
PageDone ==
  /\ pageOp > Len(PAGE) /\ GoOn("page")
  /\ UNCHANGED <<pageOp, occupant, chosen, raced, late, server, drove, noted, scratch, outcome>>
ClosePage(ok) ==
  /\ at = "close" /\ Leave("release", ok)
  /\ UNCHANGED <<pageOp, occupant, chosen, raced, late, server, drove, scratch, outcome>>

\* The server killed and the directory removed, as far as it can be; then an error
\* goes on its way, or the failures decide.
Freed == [p \in DOMAIN occupant |-> IF occupant[p] = "own" THEN Nobody ELSE occupant[p]]
Release ==
  /\ at = "release"
  /\ server' = IF server = "gone" THEN "gone" ELSE "killed"
  /\ occupant' = Freed /\ scratch' \in BOOLEAN
  /\ IF noted = "error" THEN Exit ELSE at' = After("release") /\ UNCHANGED outcome
  /\ UNCHANGED <<pageOp, chosen, raced, late, drove, noted>>
Report ==
  /\ at = "report" /\ at' = "over"
  /\ outcome' = IF noted = "nothing" THEN "pass" ELSE "fail"
  /\ UNCHANGED <<pageOp, occupant, chosen, raced, late, server, drove, noted, scratch>>

(***************************************************************************)
(* Other processes, and the next run, to which a server that was left      *)
(* behind is one of them.                                                  *)
(***************************************************************************)
Take(p, who) ==
  /\ occupant[p] = Nobody /\ occupant' = [occupant EXCEPT ![p] = who]
  /\ raced' = (raced \/ (who = "other" /\ p = chosen /\ at \in {"spawn", "health"}))
  /\ UNCHANGED <<at, pageOp, chosen, late, server, drove, noted, scratch, outcome>>
GoAway(p) ==
  /\ occupant[p] \in {"other", "mute"} /\ occupant' = [occupant EXCEPT ![p] = Nobody]
  /\ UNCHANGED <<at, pageOp, chosen, raced, late, server, drove, noted, scratch, outcome>>
RunAgain ==
  /\ at = "over" /\ server # "starting"
  /\ at' = "build" /\ pageOp' = 1 /\ chosen' = 0 /\ raced' = FALSE /\ late' = FALSE
  /\ server' = "none" /\ drove' = "none" /\ noted' = "nothing" /\ scratch' = FALSE /\ outcome' = "none"
  /\ occupant' = [p \in DOMAIN occupant |-> IF occupant[p] = "own" THEN "other" ELSE occupant[p]]

PortNext ==
  \/ (\E phase \in ToSet(PHASES) : Prepare(phase)) \/ GiveUp
  \/ PickPort \/ NoPort \/ Spawn \/ Listen \/ Healthy \/ Unhealthy \/ RoutesThrow
  \/ \E ok \in BOOLEAN : ControlsRefuse(ok) \/ Routes(ok) \/ Open(ok) \/ Call(ok) \/ ClosePage(ok)
  \/ PageDone \/ Release \/ Report \/ RunAgain
  \/ \E p \in 1 .. LastPort : GoAway(p) \/ \E who \in {"other", "mute"} : Take(p, who)

PortSpec == PortInit /\ [][PortNext]_portVars

\* A pass is a pass of the binary just built: the whole page was driven, nothing
\* was recorded, and the server behind the page was the check's own, unless
\* another one took the port in the moment between the pick and the start, or had
\* it all along and was too slow to say so at the pick; and a server is left
\* behind only by a run whose wait for an answer ran out, and that says so.
PassIsOfThisBuild ==
  /\ outcome = "pass" =>
       noted = "nothing" /\ pageOp > Len(PAGE) /\ (drove = "own" \/ raced \/ late)
  /\ at \in {"routes", "open", "page", "close"} /\ ~raced /\ ~late => occupant[chosen] = "own"
  /\ at = "over" /\ server \in {"starting", "serving"} => outcome = "fail" /\ drove = "none"
=============================================================================

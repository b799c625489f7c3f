----------------------------- MODULE ToolProofs -----------------------------
(***************************************************************************)
(* The tools behind the page: what a pass of the check of the release      *)
(* binary is a pass of, whatever else takes and leaves the ports; what a   *)
(* script embeds, whatever was interrupted before it or edited under it;   *)
(* and what a pass of the route of the browser stands for, wherever an     *)
(* operation of it fails.                                                  *)
(***************************************************************************)
EXTENDS PortCheck, Embed, Flow, FiniteSetTheorems, TLAPS

Before == {"build", "controls", "binary", "denied", "pick", "spawn"}
Driving == {"routes", "open", "page", "close"}
PhaseNames == Before \cup Driving \cup {"health", "release", "report", "over"}

PortTyped ==
  /\ at \in PhaseNames /\ raced \in BOOLEAN /\ late \in BOOLEAN
  /\ DOMAIN occupant = 1 .. LastPort
  /\ chosen \in 0 .. LastPort
  /\ at \in Driving \cup {"spawn", "health"} => chosen \in 1 .. LastPort
  /\ noted \in {"nothing", "failure", "error"}
  /\ outcome \in {"none", "pass", "fail"} /\ (at = "over" <=> outcome # "none")

\* Whoever answers on the port that was picked came after the pick, or was too slow at
\* it, or is the child.
OwnAnswers ==
  /\ at \in {"spawn", "health"} /\ ~raced /\ ~late => occupant[chosen] # "other"
  /\ at \in Driving /\ ~raced /\ ~late => occupant[chosen] = "own"

\* An error is on its way out; without one, the page behind is that of this check and
\* was driven to its end.
DrivenWhole ==
  /\ noted = "error" => at \in {"close", "release", "over"}
  /\ at \in {"page", "close", "release", "report"} /\ noted # "error" => drove = "own" \/ raced \/ late
  /\ at \in {"close", "release", "report"} /\ noted # "error" => pageOp > Len(PAGE)
  /\ outcome = "pass" => noted = "nothing" /\ pageOp > Len(PAGE) /\ (drove = "own" \/ raced \/ late)

\* The child is there from the start to the release, unless the check gave up before
\* the browser was sent to it.
ChildFollows ==
  /\ at \in Before => server = "none"
  /\ at \in Before \cup {"health", "routes", "open"} => drove = "none"
  /\ at = "report" => server \notin {"starting", "serving"}
  /\ at = "over" /\ server \in {"starting", "serving"} => outcome = "fail" /\ drove = "none"

PortInv == PortTyped /\ OwnAnswers /\ DrivenWhole /\ ChildFollows

LEMMA PhasesFollow ==
  /\ After("build") = "controls" /\ After("controls") = "binary" /\ After("binary") = "denied"
  /\ After("denied") = "pick" /\ After("pick") = "spawn" /\ After("spawn") = "health"
  /\ After("health") = "routes" /\ After("routes") = "open" /\ After("open") = "page"
  /\ After("page") = "close" /\ After("close") = "release" /\ After("release") = "report"
<1>1. Len(PHASES) = 13
  BY DEF PHASES
<1>2. ASSUME NEW n \in 1 .. 12
      PROVE  After(PHASES[n]) = PHASES[1 + n]
  <2>1. \A k \in 1 .. 12 : PHASES[k] = PHASES[n] => k = n
    BY SMT DEF PHASES
  <2>2. (CHOOSE k \in 1 .. Len(PHASES) - 1 : PHASES[k] = PHASES[n]) = n
    BY <1>1, <2>1, SMT
  <2> QED
    BY <2>2 DEF After
<1> QED
  BY <1>2, SMT DEF PHASES

LEMMA PortStarts == PortInit => PortInv
<1> SUFFICES ASSUME PortInit PROVE PortInv
  OBVIOUS
<1>1. 0 \in 0 .. LastPort
  BY PortCheckAssumption, SMT
<1> QED
  BY <1>1 DEF PortInit, PortInv, PortTyped, OwnAnswers, DrivenWhole, ChildFollows,
              PhaseNames, Before, Driving

LEMMA PortKept == PortInv /\ [PortNext]_portVars => PortInv'
<1> SUFFICES ASSUME PortInv, [PortNext]_portVars PROVE PortInv'
  OBVIOUS
<1> USE DEF PhaseNames, Before, Driving
<1>1. ASSUME NEW phase, Prepare(phase)
      PROVE  PortInv'
  <2>1. PortTyped'
    BY <1>1, PhasesFollow DEF Prepare, GoOn, PortInv, PortTyped, DrivenWhole
  <2>2. OwnAnswers'
    BY <1>1, PhasesFollow DEF Prepare, GoOn, PortInv, PortTyped, OwnAnswers
  <2>3. DrivenWhole'
    BY <1>1, PhasesFollow DEF Prepare, GoOn, PortInv, PortTyped, DrivenWhole
  <2>4. ChildFollows'
    BY <1>1, PhasesFollow DEF Prepare, GoOn, PortInv, PortTyped, ChildFollows
  <2> QED
    BY <2>1, <2>2, <2>3, <2>4 DEF PortInv
<1>2. ASSUME NEW ok \in BOOLEAN, ControlsRefuse(ok)
      PROVE  PortInv'
  <2>1. PortTyped'
    BY <1>2, PhasesFollow DEF ControlsRefuse, GoOn, Note, PortInv, PortTyped, DrivenWhole
  <2>2. OwnAnswers'
    BY <1>2, PhasesFollow DEF ControlsRefuse, GoOn, Note, PortInv, PortTyped, OwnAnswers
  <2>3. DrivenWhole'
    BY <1>2, PhasesFollow DEF ControlsRefuse, GoOn, Note, PortInv, PortTyped, DrivenWhole
  <2>4. ChildFollows'
    BY <1>2, PhasesFollow DEF ControlsRefuse, GoOn, Note, PortInv, PortTyped, ChildFollows
  <2> QED
    BY <2>1, <2>2, <2>3, <2>4 DEF PortInv
<1>3. CASE GiveUp
  <2>1. PortTyped'
    BY <1>3 DEF GiveUp, Exit, PortInv, PortTyped, DrivenWhole
  <2>2. OwnAnswers'
    BY <1>3 DEF GiveUp, Exit, PortInv, PortTyped, OwnAnswers
  <2>3. DrivenWhole'
    BY <1>3 DEF GiveUp, Exit, PortInv, PortTyped, DrivenWhole
  <2>4. ChildFollows'
    BY <1>3 DEF GiveUp, Exit, PortInv, PortTyped, ChildFollows
  <2> QED
    BY <2>1, <2>2, <2>3, <2>4 DEF PortInv
<1>4. CASE NoPort
  <2>1. PortTyped'
    BY <1>4 DEF NoPort, Exit, PortInv, PortTyped, DrivenWhole
  <2>2. OwnAnswers'
    BY <1>4 DEF NoPort, Exit, PortInv, PortTyped, OwnAnswers
  <2>3. DrivenWhole'
    BY <1>4 DEF NoPort, Exit, PortInv, PortTyped, DrivenWhole
  <2>4. ChildFollows'
    BY <1>4 DEF NoPort, Exit, PortInv, PortTyped, ChildFollows
  <2> QED
    BY <2>1, <2>2, <2>3, <2>4 DEF PortInv
<1>5. CASE Spawn
  <2>1. PortTyped'
    BY <1>5, PhasesFollow DEF Spawn, GoOn, PortInv, PortTyped, DrivenWhole
  <2>2. OwnAnswers'
    BY <1>5, PhasesFollow DEF Spawn, GoOn, PortInv, PortTyped, OwnAnswers
  <2>3. DrivenWhole'
    BY <1>5, PhasesFollow DEF Spawn, GoOn, PortInv, PortTyped, DrivenWhole
  <2>4. ChildFollows'
    BY <1>5, PhasesFollow DEF Spawn, GoOn, PortInv, PortTyped, ChildFollows
  <2> QED
    BY <2>1, <2>2, <2>3, <2>4 DEF PortInv
<1>6. CASE Healthy
  <2>1. PortTyped'
    BY <1>6, PhasesFollow DEF Healthy, GoOn, PortInv, PortTyped, DrivenWhole
  <2>2. OwnAnswers'
    BY <1>6, PhasesFollow DEF Healthy, GoOn, PortInv, PortTyped, OwnAnswers
  <2>3. DrivenWhole'
    BY <1>6, PhasesFollow DEF Healthy, GoOn, PortInv, PortTyped, DrivenWhole
  <2>4. ChildFollows'
    BY <1>6, PhasesFollow DEF Healthy, GoOn, PortInv, PortTyped, ChildFollows
  <2> QED
    BY <2>1, <2>2, <2>3, <2>4 DEF PortInv
<1>7. CASE Unhealthy
  <2>1. PortTyped'
    BY <1>7 DEF Unhealthy, Exit, PortInv, PortTyped, DrivenWhole
  <2>2. OwnAnswers'
    BY <1>7 DEF Unhealthy, Exit, PortInv, PortTyped, OwnAnswers
  <2>3. DrivenWhole'
    BY <1>7 DEF Unhealthy, Exit, PortInv, PortTyped, DrivenWhole
  <2>4. ChildFollows'
    BY <1>7 DEF Unhealthy, Exit, PortInv, PortTyped, ChildFollows
  <2> QED
    BY <2>1, <2>2, <2>3, <2>4 DEF PortInv
<1>8. ASSUME NEW ok \in BOOLEAN, Routes(ok)
      PROVE  PortInv'
  <2>1. PortTyped'
    BY <1>8, PhasesFollow DEF Routes, GoOn, Note, PortInv, PortTyped, DrivenWhole
  <2>2. OwnAnswers'
    BY <1>8, PhasesFollow DEF Routes, GoOn, Note, PortInv, PortTyped, OwnAnswers
  <2>3. DrivenWhole'
    BY <1>8, PhasesFollow DEF Routes, GoOn, Note, PortInv, PortTyped, DrivenWhole
  <2>4. ChildFollows'
    BY <1>8, PhasesFollow DEF Routes, GoOn, Note, PortInv, PortTyped, ChildFollows
  <2> QED
    BY <2>1, <2>2, <2>3, <2>4 DEF PortInv
<1>9. CASE RoutesThrow
  <2>1. PortTyped'
    BY <1>9 DEF RoutesThrow, Leave, PortInv, PortTyped, DrivenWhole
  <2>2. OwnAnswers'
    BY <1>9 DEF RoutesThrow, Leave, PortInv, PortTyped, OwnAnswers
  <2>3. DrivenWhole'
    BY <1>9 DEF RoutesThrow, Leave, PortInv, PortTyped, DrivenWhole
  <2>4. ChildFollows'
    BY <1>9 DEF RoutesThrow, Leave, PortInv, PortTyped, ChildFollows
  <2> QED
    BY <2>1, <2>2, <2>3, <2>4 DEF PortInv
<1>10. ASSUME NEW ok \in BOOLEAN, Open(ok)
      PROVE  PortInv'
  <2>1. PortTyped'
    BY <1>10, PhasesFollow DEF Open, GoOn, Leave, PortInv, PortTyped, DrivenWhole
  <2>2. OwnAnswers'
    BY <1>10, PhasesFollow DEF Open, GoOn, Leave, PortInv, PortTyped, OwnAnswers
  <2>3. DrivenWhole'
    BY <1>10, PhasesFollow DEF Open, GoOn, Leave, PortInv, PortTyped, OwnAnswers, DrivenWhole
  <2>4. ChildFollows'
    BY <1>10, PhasesFollow DEF Open, GoOn, Leave, PortInv, PortTyped, ChildFollows
  <2> QED
    BY <2>1, <2>2, <2>3, <2>4 DEF PortInv
<1>11. ASSUME NEW ok \in BOOLEAN, Call(ok)
      PROVE  PortInv'
  <2>1. PortTyped'
    BY <1>11 DEF Call, Leave, Note, PortInv, PortTyped, DrivenWhole
  <2>2. OwnAnswers'
    BY <1>11 DEF Call, Leave, Note, PortInv, PortTyped, OwnAnswers
  <2>3. DrivenWhole'
    BY <1>11 DEF Call, Leave, Note, PortInv, PortTyped, DrivenWhole
  <2>4. ChildFollows'
    BY <1>11 DEF Call, Leave, Note, PortInv, PortTyped, ChildFollows
  <2> QED
    BY <2>1, <2>2, <2>3, <2>4 DEF PortInv
<1>12. CASE PageDone
  <2>1. PortTyped'
    BY <1>12, PhasesFollow DEF PageDone, GoOn, PortInv, PortTyped, DrivenWhole
  <2>2. OwnAnswers'
    BY <1>12, PhasesFollow DEF PageDone, GoOn, PortInv, PortTyped, OwnAnswers
  <2>3. DrivenWhole'
    BY <1>12, PhasesFollow DEF PageDone, GoOn, PortInv, PortTyped, DrivenWhole
  <2>4. ChildFollows'
    BY <1>12, PhasesFollow DEF PageDone, GoOn, PortInv, PortTyped, ChildFollows
  <2> QED
    BY <2>1, <2>2, <2>3, <2>4 DEF PortInv
<1>13. ASSUME NEW ok \in BOOLEAN, ClosePage(ok)
      PROVE  PortInv'
  <2>1. PortTyped'
    BY <1>13 DEF ClosePage, Leave, PortInv, PortTyped, DrivenWhole
  <2>2. OwnAnswers'
    BY <1>13 DEF ClosePage, Leave, PortInv, PortTyped, OwnAnswers
  <2>3. DrivenWhole'
    BY <1>13 DEF ClosePage, Leave, PortInv, PortTyped, DrivenWhole
  <2>4. ChildFollows'
    BY <1>13 DEF ClosePage, Leave, PortInv, PortTyped, ChildFollows
  <2> QED
    BY <2>1, <2>2, <2>3, <2>4 DEF PortInv
<1>14. CASE Release
  <2>1. PortTyped'
    BY <1>14, PhasesFollow DEF Release, Exit, Freed, PortInv, PortTyped, DrivenWhole
  <2>2. OwnAnswers'
    BY <1>14, PhasesFollow, PortCheckAssumption DEF Release, Exit, Freed, PortInv, PortTyped, OwnAnswers
  <2>3. DrivenWhole'
    BY <1>14, PhasesFollow DEF Release, Exit, Freed, PortInv, PortTyped, DrivenWhole
  <2>4. ChildFollows'
    BY <1>14, PhasesFollow DEF Release, Exit, Freed, PortInv, PortTyped, ChildFollows
  <2> QED
    BY <2>1, <2>2, <2>3, <2>4 DEF PortInv
<1>15. CASE Report
  <2>1. PortTyped'
    BY <1>15 DEF Report, PortInv, PortTyped, DrivenWhole
  <2>2. OwnAnswers'
    BY <1>15 DEF Report, PortInv, PortTyped, OwnAnswers
  <2>3. DrivenWhole'
    BY <1>15 DEF Report, PortInv, PortTyped, DrivenWhole
  <2>4. ChildFollows'
    BY <1>15 DEF Report, PortInv, PortTyped, ChildFollows
  <2> QED
    BY <2>1, <2>2, <2>3, <2>4 DEF PortInv
<1>16. CASE RunAgain
  <2>1. PortTyped'
    <3>1. 0 \in 0 .. LastPort
      BY PortCheckAssumption, SMT
    <3> QED
      BY <1>16, <3>1 DEF RunAgain, PortInv, PortTyped, DrivenWhole
  <2>2. OwnAnswers'
    BY <1>16 DEF RunAgain, PortInv, PortTyped, OwnAnswers
  <2>3. DrivenWhole'
    BY <1>16 DEF RunAgain, PortInv, PortTyped, DrivenWhole
  <2>4. ChildFollows'
    BY <1>16 DEF RunAgain, PortInv, PortTyped, ChildFollows
  <2> QED
    BY <2>1, <2>2, <2>3, <2>4 DEF PortInv
<1>17. CASE PickPort
  <2>1. PICK inTime \in BOOLEAN :
          \/ occupant[chosen'] # Nobody /\ inTime /\ UNCHANGED <<at, late>>
          \/ /\ ~(occupant[chosen'] # Nobody /\ inTime) /\ at' = "spawn"
             /\ late' = (occupant[chosen'] = "other" /\ ~inTime)
    BY <1>17, PhasesFollow DEF PickPort, Answers
  <2>2. /\ at = "pick" /\ UNCHANGED <<pageOp, occupant, raced, server, drove, noted, scratch, outcome>>
        /\ chosen' = chosen + 1 /\ chosen < LastPort
    BY <1>17 DEF PickPort
  <2>3. chosen' \in 1 .. LastPort /\ chosen' \in 0 .. LastPort
    <3>1. chosen \in 0 .. LastPort
      BY DEF PortInv, PortTyped
    <3> QED
      BY <3>1, <2>2, PortCheckAssumption, SMT
  <2>4. late' \in BOOLEAN
    BY <2>1, Zenon DEF PortInv, PortTyped
  <2>5. at' \in {"pick", "spawn"}
    BY <2>1, <2>2
  <2>6. at' = "spawn" /\ occupant[chosen'] = "other" => late'
    <3>1. CASE occupant[chosen'] # Nobody /\ inTime /\ UNCHANGED <<at, late>>
      BY <3>1, <2>2
    <3>2. CASE /\ ~(occupant[chosen'] # Nobody /\ inTime)
               /\ late' = (occupant[chosen'] = "other" /\ ~inTime)
      BY <3>2, PortCheckAssumption
    <3> QED
      BY <2>1, <3>1, <3>2
  <2>7. PortTyped'
    BY <2>2, <2>3, <2>4, <2>5 DEF PortInv, PortTyped
  <2>8. OwnAnswers'
    BY <2>2, <2>5, <2>6 DEF OwnAnswers
  <2>9. DrivenWhole'
    BY <2>2, <2>5 DEF PortInv, PortTyped, DrivenWhole
  <2>10. ChildFollows'
    BY <2>2, <2>5 DEF PortInv, ChildFollows
  <2> QED
    BY <2>7, <2>8, <2>9, <2>10 DEF PortInv
<1>18. CASE Listen
  <2>1. PortTyped'
    BY <1>18 DEF Listen, PortInv, PortTyped, DrivenWhole
  <2>2. OwnAnswers'
    BY <1>18, PortCheckAssumption DEF Listen, PortInv, PortTyped, OwnAnswers
  <2>3. DrivenWhole'
    BY <1>18 DEF Listen, PortInv, PortTyped, DrivenWhole
  <2>4. ChildFollows'
    BY <1>18 DEF Listen, PortInv, PortTyped, ChildFollows
  <2> QED
    BY <2>1, <2>2, <2>3, <2>4 DEF PortInv
<1>19. ASSUME NEW p \in 1 .. LastPort, NEW who \in {"other", "mute"}, Take(p, who)
      PROVE  PortInv'
  <2>1. PortTyped'
    BY <1>19 DEF Take, PortInv, PortTyped, DrivenWhole
  <2>2. OwnAnswers'
    BY <1>19, PortCheckAssumption DEF Take, PortInv, PortTyped, OwnAnswers
  <2>3. DrivenWhole'
    BY <1>19 DEF Take, PortInv, PortTyped, DrivenWhole
  <2>4. ChildFollows'
    BY <1>19 DEF Take, PortInv, PortTyped, ChildFollows
  <2> QED
    BY <2>1, <2>2, <2>3, <2>4 DEF PortInv
<1>20. ASSUME NEW p \in 1 .. LastPort, GoAway(p)
      PROVE  PortInv'
  <2>1. PortTyped'
    BY <1>20 DEF GoAway, PortInv, PortTyped, DrivenWhole
  <2>2. OwnAnswers'
    BY <1>20, PortCheckAssumption DEF GoAway, PortInv, PortTyped, OwnAnswers
  <2>3. DrivenWhole'
    BY <1>20 DEF GoAway, PortInv, PortTyped, DrivenWhole
  <2>4. ChildFollows'
    BY <1>20 DEF GoAway, PortInv, PortTyped, ChildFollows
  <2> QED
    BY <2>1, <2>2, <2>3, <2>4 DEF PortInv
<1>21. CASE UNCHANGED portVars
  <2>1. PortTyped'
    BY <1>21 DEF portVars, PortInv, PortTyped, DrivenWhole
  <2>2. OwnAnswers'
    BY <1>21 DEF portVars, PortInv, PortTyped, OwnAnswers
  <2>3. DrivenWhole'
    BY <1>21 DEF portVars, PortInv, PortTyped, DrivenWhole
  <2>4. ChildFollows'
    BY <1>21 DEF portVars, PortInv, PortTyped, ChildFollows
  <2> QED
    BY <2>1, <2>2, <2>3, <2>4 DEF PortInv
<1> QED
  BY <1>1, <1>2, <1>3, <1>4, <1>5, <1>6, <1>7, <1>8, <1>9, <1>10, <1>11, <1>12, <1>13, <1>14, <1>15, <1>16, <1>17, <1>18, <1>19, <1>20, <1>21 DEF PortNext

THEOREM PortInvAlways == PortSpec => []PortInv
  BY PortStarts, PortKept, PTL DEF PortSpec

\* A pass is of the binary just built, driven to the end of its page, and a server is
\* left behind only by a run that says it failed: scripts/check-port-ui.ts.
THEOREM PassIsOfThisBuildAlways == PortSpec => []PassIsOfThisBuild
<1>1. PortInv => PassIsOfThisBuild
  BY DEF PortInv, PortTyped, OwnAnswers, DrivenWhole, ChildFollows, PassIsOfThisBuild, Driving
<1> QED
  BY <1>1, PortInvAlways, PTL

(***************************************************************************)
(* The embedding.  First the lists of files it works through.              *)
(***************************************************************************)
Names == Required \cup {Leftover}

LEMMA ListShrinks ==
  ASSUME NEW X, NEW s \in Seq(X), s # << >>
  PROVE  /\ Head(s) \in X /\ Head(s) \in ToSet(s)
         /\ Tail(s) \in Seq(X)
         /\ \A n \in ToSet(s) : n = Head(s) \/ n \in ToSet(Tail(s))
         /\ ToSet(Tail(s)) \subseteq ToSet(s)
<1>1. Len(s) \in Nat /\ Len(s) >= 1 /\ DOMAIN s = 1 .. Len(s) /\ Head(s) = s[1]
  BY SMT
<1>2. 1 \in DOMAIN s
  BY <1>1, SMT
<1>3. /\ Tail(s) \in Seq(X) /\ DOMAIN Tail(s) = 1 .. Len(s) - 1
      /\ \A k \in 1 .. Len(s) - 1 : Tail(s)[k] = s[k + 1]
  BY <1>1, SMT
<1>4. ASSUME NEW k \in DOMAIN s
      PROVE  s[k] = Head(s) \/ s[k] \in ToSet(Tail(s))
  <2>1. CASE k = 1
    BY <2>1, <1>1
  <2>2. CASE k # 1
    <3>1. k - 1 \in 1 .. Len(s) - 1 /\ (k - 1) + 1 = k
      BY <2>2, <1>1, SMT
    <3>2. Tail(s)[k - 1] = s[k]
      BY <3>1, <1>3
    <3> QED
      BY <3>1, <3>2, <1>3 DEF ToSet
  <2> QED
    BY <2>1, <2>2
<1>5. ASSUME NEW k \in DOMAIN Tail(s)
      PROVE  Tail(s)[k] \in ToSet(s)
  <2>1. k + 1 \in DOMAIN s
    BY <1>1, <1>3, SMT
  <2> QED
    BY <2>1, <1>3 DEF ToSet
<1> QED
  BY <1>1, <1>2, <1>3, <1>4, <1>5 DEF ToSet

LEMMA ListOfNothing ==
  ToSet(<< >>) = {} /\ \A X : << >> \in Seq(X)
  BY SMT DEF ToSet

LEMMA ListIsFinite ==
  ASSUME NEW X, NEW s \in Seq(X)
  PROVE  IsFiniteSet(ToSet(s)) /\ ToSet(s) \subseteq X
<1>1. Len(s) \in Nat /\ DOMAIN s = 1 .. Len(s)
  OBVIOUS
<1>2. IsFiniteSet(1 .. Len(s))
  BY <1>1, FS_Interval, SMT
<1>3. s \in Surjection(1 .. Len(s), ToSet(s))
  BY <1>1 DEF Surjection, ToSet
<1> QED
  BY <1>1, <1>2, <1>3, FS_Surjection DEF ToSet

\* readdirSync lists a directory without a name twice, and every name.
LEMMA DirectoryListed ==
  ASSUME NEW S, IsFiniteSet(S)
  PROVE  SetToSeq(S) \in Seq(S) /\ ToSet(SetToSeq(S)) = S
<1> DEFINE n == Cardinality(S)
           f == SetToSeq(S)
<1>1. n \in Nat /\ ExistsBijection(1 .. n, S)
  BY FS_CardinalityType
<1>2. \E g \in [1 .. n -> S] : IsInjective(g)
  BY <1>1 DEF ExistsBijection, Bijection, Injection, IsInjective
<1>3. f \in [1 .. n -> S] /\ IsInjective(f)
  BY <1>2 DEF SetToSeq
<1>4. f \in Injection(1 .. n, S)
  BY <1>3 DEF Injection, IsInjective
<1>5. Cardinality(1 .. n) = n
  BY <1>1, FS_Interval, SMT
<1>6. f \in Surjection(1 .. n, S)
  BY <1>4, <1>5, FS_Injection
<1> QED
  BY <1>1, <1>3, <1>6 DEF Surjection, ToSet


LEMMA RequiredListed ==
  /\ REQUIRED_UI_ASSETS \in Seq(Required)
  /\ Compiled \in Seq(Required) /\ Copied \in Seq(Required)
  /\ ToSet(Compiled) \subseteq Modules /\ CONTRACT \in Modules /\ Modules \subseteq Required
  /\ \A n \in Required : n \in Modules \/ n \in ToSet(Copied)
  /\ IsFiniteSet(Required)
<1> DEFINE a == Compiled
           b == Copied
           c == <<CONTRACT>>
           r == a \o b \o c
           X == ToSet(Compiled) \cup ToSet(Copied) \cup {CONTRACT}
<1>1. /\ a \in Seq(X) /\ b \in Seq(X) /\ c \in Seq(X) /\ r \in Seq(X)
      /\ Len(c) = 1 /\ c[1] = CONTRACT
  <2>1. a \in Seq(ToSet(Compiled)) /\ b \in Seq(ToSet(Copied))
    BY EmbedAssumption
  <2>2. a \in Seq(X) /\ b \in Seq(X)
    <3> HIDE DEF r
    <3> QED
      BY <2>1, SMT
  <2>3. c \in Seq(X) /\ Len(c) = 1 /\ c[1] = CONTRACT
    OBVIOUS
  <2>4. a \o b \in Seq(X)
    BY <2>2
  <2>5. r \in Seq(X)
    BY <2>3, <2>4
  <2> QED
    BY <2>2, <2>3, <2>5
<1>2. /\ Len(a) \in Nat /\ Len(b) \in Nat /\ DOMAIN a = 1 .. Len(a) /\ DOMAIN b = 1 .. Len(b)
      /\ DOMAIN r = 1 .. Len(a) + Len(b) + 1
  BY <1>1, SMT
<1>3. \A k \in 1 .. Len(a) : r[k] = a[k]
  BY <1>1, <1>2, SMT
<1>4. \A k \in 1 .. Len(b) : r[Len(a) + k] = b[k]
  BY <1>1, <1>2, SMT
<1>5. r[Len(a) + Len(b) + 1] = CONTRACT
  BY <1>1, <1>2, SMT
<1>6. Required = ToSet(r) /\ REQUIRED_UI_ASSETS = r
  BY DEF Required, REQUIRED_UI_ASSETS
<1>7. ASSUME NEW k \in DOMAIN a
      PROVE  a[k] \in Required
  <2>1. k \in DOMAIN r
    BY <1>2, SMT
  <2> QED
    BY <2>1, <1>2, <1>3, <1>6 DEF ToSet
<1>8. ASSUME NEW k \in DOMAIN b
      PROVE  b[k] \in Required
  <2>1. Len(a) + k \in DOMAIN r
    BY <1>2, SMT
  <2> QED
    BY <2>1, <1>2, <1>4, <1>6 DEF ToSet
<1>9. CONTRACT \in Required
  <2>1. Len(a) + Len(b) + 1 \in DOMAIN r
    BY <1>2, SMT
  <2> QED
    BY <2>1, <1>5, <1>6 DEF ToSet
<1>10. ASSUME NEW k \in DOMAIN r
       PROVE  r[k] \in Modules \/ r[k] \in ToSet(Copied)
  <2>1. CASE k <= Len(a)
    <3>1. k \in DOMAIN a
      BY <2>1, <1>2, SMT
    <3> QED
      BY <3>1, <1>2, <1>3 DEF ToSet, Modules
  <2>2. CASE ~(k <= Len(a)) /\ k <= Len(a) + Len(b)
    <3>1. k - Len(a) \in 1 .. Len(b) /\ Len(a) + (k - Len(a)) = k
      BY <2>2, <1>2, SMT
    <3> QED
      BY <3>1, <1>2, <1>4 DEF ToSet
  <2>3. CASE ~(k <= Len(a) + Len(b))
    <3>1. k = Len(a) + Len(b) + 1
      BY <2>3, <1>2, SMT
    <3> QED
      BY <3>1, <1>5 DEF Modules
  <2> QED
    BY <2>1, <2>2, <2>3, <1>2, SMT
<1>11. IsFiniteSet(Required)
  BY <1>1, <1>6, ListIsFinite
<1>12. \A n \in Required : n \in Modules \/ n \in ToSet(Copied)
  BY <1>6, <1>10 DEF ToSet
<1>13. a \in Seq(Required) /\ b \in Seq(Required)
  BY <1>1, <1>2, <1>7, <1>8, SMT
<1>14. r \in Seq(Required)
  <2>1. c \in Seq(Required)
    BY <1>9
  <2>2. a \o b \in Seq(Required)
    BY <1>13
  <2> QED
    BY <2>1, <2>2
<1>15. ToSet(Compiled) \subseteq Modules /\ CONTRACT \in Modules /\ Modules \subseteq Required
  BY <1>7, <1>9 DEF Modules, ToSet
<1> QED
  BY <1>6, <1>11, <1>12, <1>13, <1>14, <1>15

Written(r) == 0 .. r \cup {Extensionless, Truncated}
Running    == {"compile", "copy", "check"}
Embedding  == {"clear", "put", "build"}

EmbedTyped ==
  /\ revision \in Nat /\ revision > 0 /\ since \in Nat /\ since <= revision
  /\ script \in {"idle"} \cup Running \cup Embedding
  /\ todo \in Seq(Names)
  /\ contract \subseteq Written(revision)
  /\ dist \in [DOMAIN dist -> Written(revision)]
  /\ DOMAIN static \subseteq Names
  /\ static \in [DOMAIN static -> Written(revision)]

\* What this run of build-web.ts makes of a file: a recent revision of it, but for a
\* module that came out empty or with an extensionless import.
Made(n) ==
  /\ n \in DOMAIN dist /\ dist[n] \in Output
  /\ n \notin Modules => dist[n] \in Revisions

\* What the compiler and the copies have left to make is on their list.
BuildAdvances ==
  /\ script \in {"compile", "copy"} => rebuilt
  /\ script = "compile" => \A n \in ToSet(Compiled) : n \in ToSet(todo) \/ Made(n)
  /\ script = "copy" =>
       /\ contract \subseteq Output
       /\ \A n \in ToSet(Compiled) : Made(n)
       /\ \A n \in ToSet(Copied) : n \in ToSet(todo) \/ Made(n)
  /\ script \in {"check"} \cup Embedding /\ rebuilt => \A n \in Required : Made(n)

\* What was checked stays as it was checked; what the clearing has not reached is on
\* its list; what was put is what was built.
SyncAdvances ==
  /\ script = "compile" => ToSet(todo) \subseteq ToSet(Compiled)
  /\ script = "copy" => ToSet(todo) \subseteq ToSet(Copied)
  /\ script \in Embedding => UiAssets(dist) /\ ModuleSpecifiers(dist)
  /\ script = "clear" => DOMAIN static \subseteq ToSet(todo)
  /\ script \in {"put", "build"} =>
       /\ ToSet(todo) \subseteq Required
       /\ \A n \in DOMAIN static : n \in Required /\ static[n] = dist[n]
  /\ script = "build" => DOMAIN static = Required

\* Whatever is embedded, no module of it has an extensionless import.
StaticLoads == \A n \in Modules \cap DOMAIN static : static[n] # Extensionless

EmbedInv == EmbedTyped /\ BuildAdvances /\ SyncAdvances /\ StaticLoads

LEMMA WrittenValues ==
  ASSUME NEW r \in Nat
  PROVE  /\ {0, Extensionless, Truncated} \subseteq Written(r) /\ Written(r) \subseteq Written(r + 1)
         /\ r + 1 \in Nat /\ r + 1 \notin Written(r) /\ 1 \in Written(1)
<1>1. Extensionless \notin Nat /\ Truncated \notin Nat /\ Extensionless # Truncated
  BY EmbedAssumption
<1>2. /\ r \in 0 .. r /\ 0 \in 0 .. r /\ 0 .. r \subseteq 0 .. r + 1 /\ r + 1 \notin 0 .. r
      /\ r + 1 \in Nat /\ 0 .. r \subseteq Nat /\ 1 \in 0 .. 1
  BY SMT
<1> QED
  BY <1>1, <1>2 DEF Written

LEMMA RevisionValues ==
  ASSUME EmbedTyped
  PROVE  revision \in Revisions /\ Revisions \subseteq Output /\ Output \subseteq Written(revision)
<1>1. revision \in since .. revision /\ since .. revision \subseteq 0 .. revision
  BY SMT DEF EmbedTyped
<1>2. {0, Extensionless} \subseteq Written(revision) /\ 0 .. revision \subseteq Written(revision)
  BY WrittenValues DEF EmbedTyped, Written
<1> QED
  BY <1>1, <1>2 DEF Revisions, Output

LEMMA FileWritten ==
  ASSUME NEW V, NEW dir, dir \in [DOMAIN dir -> V], NEW name, NEW content \in V,
         NEW after, after = With(dir, name, content)
  PROVE  /\ DOMAIN after = DOMAIN dir \cup {name} /\ after[name] = content
         /\ \A n \in DOMAIN dir : n # name => after[n] = dir[n]
         /\ after \in [DOMAIN after -> V]
  BY DEF With

\* A file more is made, and those that were stay made.
LEMMA FileMade ==
  ASSUME EmbedTyped, NEW name, NEW content \in Output,
         name \notin Modules => content \in Revisions,
         dist' = With(dist, name, content), UNCHANGED <<revision, since>>
  PROVE  /\ dist' \in [DOMAIN dist' -> Written(revision)]
         /\ Made(name)'
         /\ \A n : Made(n) => Made(n)'
<1>1. content \in Written(revision)
  BY RevisionValues
<1>2. dist \in [DOMAIN dist -> Written(revision)]
  BY DEF EmbedTyped
<1>3. /\ DOMAIN dist' = DOMAIN dist \cup {name} /\ dist'[name] = content
      /\ \A n \in DOMAIN dist : n # name => dist'[n] = dist[n]
      /\ dist' \in [DOMAIN dist' -> Written(revision)]
  <2> DEFINE after == With(dist, name, content)
  <2>1. /\ DOMAIN after = DOMAIN dist \cup {name} /\ after[name] = content
        /\ \A n \in DOMAIN dist : n # name => after[n] = dist[n]
        /\ after \in [DOMAIN after -> Written(revision)]
    BY <1>1, <1>2, FileWritten
  <2>2. dist' = after
    OBVIOUS
  <2> HIDE DEF after
  <2> QED
    BY <2>1, <2>2
<1>4. Output' = Output /\ Revisions' = Revisions
  BY DEF Output, Revisions
<1> QED
  BY <1>3, <1>4 DEF Made

LEMMA SameMade ==
  ASSUME UNCHANGED <<dist, revision, since>>
  PROVE  \A n : Made(n) <=> Made(n)'
  BY DEF Made, Output, Revisions

LEMMA EmbedStarts == EmbedInit => EmbedInv
<1> SUFFICES ASSUME EmbedInit PROVE EmbedInv
  OBVIOUS
<1>1. << >> \in Seq(Names) /\ 1 \in Nat /\ 1 \in Written(1)
  BY WrittenValues
<1>2. Extensionless # 1
  BY EmbedAssumption
<1>3. Modules \subseteq Required
  BY RequiredListed
<1>4. EmbedTyped
  <2>1. since <= revision /\ revision > 0 /\ 0 \in Nat
    BY SMT DEF EmbedInit
  <2> QED
    BY <1>1, <2>1 DEF EmbedInit, EmbedTyped, Empty, Names
<1>5. StaticLoads
  BY <1>2, <1>3 DEF EmbedInit, StaticLoads
<1> QED
  BY <1>4, <1>5 DEF EmbedInit, EmbedInv, BuildAdvances, SyncAdvances, Running, Embedding

\* A script begins, or one ends wherever it was.
LEMMA IdleKeeps ==
  ASSUME EmbedInv, script' \in {"idle", "check"}, todo' = << >>, since' = 0,
         UNCHANGED <<revision, contract, dist, static>>
  PROVE  EmbedInv'
<1>1. EmbedTyped'
  <2>1. since' \in Nat /\ since' <= revision'
    BY SMT DEF EmbedInv, EmbedTyped
  <2> QED
    BY <2>1 DEF EmbedInv, EmbedTyped, Running
<1>2. BuildAdvances'
  <2>1. ~rebuilt'
    BY SMT DEF rebuilt
  <2> QED
    BY <2>1 DEF BuildAdvances, Embedding
<1>3. SyncAdvances'
  BY DEF SyncAdvances, Embedding
<1>4. StaticLoads'
  BY DEF EmbedInv, StaticLoads
<1> QED
  BY <1>1, <1>2, <1>3, <1>4 DEF EmbedInv

\* What was recent when it was made is recent after an edit.
LEMMA EditKeeps == EmbedInv /\ Edit => EmbedInv'
<1> SUFFICES ASSUME EmbedInv, Edit PROVE EmbedInv'
  OBVIOUS
<1>1. /\ revision' = revision + 1 /\ revision \in Nat /\ since \in Nat /\ since <= revision
      /\ UNCHANGED <<since, contract, dist, static, script, todo, rebuilt>>
  BY DEF Edit, EmbedInv, EmbedTyped, rebuilt
<1>2. revision' \in Nat /\ Written(revision) \subseteq Written(revision') /\ since' <= revision'
  BY <1>1, WrittenValues
<1>3. contract' \subseteq Written(revision')
  BY <1>1, <1>2 DEF EmbedInv, EmbedTyped
<1>4. dist' \in [DOMAIN dist' -> Written(revision')]
  BY <1>1, <1>2 DEF EmbedInv, EmbedTyped
<1>5. static' \in [DOMAIN static' -> Written(revision')]
  BY <1>1, <1>2 DEF EmbedInv, EmbedTyped
<1>6. EmbedTyped'
  BY <1>1, <1>2, <1>3, <1>4, <1>5 DEF EmbedInv, EmbedTyped
<1>7. Revisions \subseteq Revisions'
  BY <1>1, SMT DEF Revisions
<1>8. Output \subseteq Output' /\ \A n : Made(n) => Made(n)'
  BY <1>1, <1>7 DEF Output, Made
<1>9. BuildAdvances'
  BY <1>1, <1>8 DEF EmbedInv, BuildAdvances
<1>10. SyncAdvances' /\ StaticLoads'
  BY <1>1 DEF EmbedInv, SyncAdvances, StaticLoads, UiAssets, ModuleSpecifiers
<1> QED
  BY <1>6, <1>9, <1>10 DEF EmbedInv

\* One file more of a list is made.
LEMMA MadeOneMore ==
  ASSUME EmbedInv, todo # << >>, todo' = Tail(todo), NEW files, ToSet(todo) \subseteq files,
         NEW name, name = Head(todo), Made(name)', \A n : Made(n) => Made(n)',
         \A n \in files : n \in ToSet(todo) \/ Made(n)
  PROVE  /\ todo' \in Seq(Names) /\ ToSet(todo') \subseteq files
         /\ \A n \in files : n \in ToSet(todo') \/ Made(n)'
<1>1. todo \in Seq(Names)
  BY DEF EmbedInv, EmbedTyped
<1>2. /\ todo' \in Seq(Names) /\ ToSet(todo') \subseteq ToSet(todo)
      /\ \A n \in ToSet(todo) : n = Head(todo) \/ n \in ToSet(todo')
  BY <1>1, ListShrinks
<1> QED
  BY <1>2

LEMMA CompileKeeps == EmbedInv /\ Compile => EmbedInv'
<1> SUFFICES ASSUME EmbedInv, Compile PROVE EmbedInv'
  OBVIOUS
<1>0. PICK name : name = Head(todo)
  OBVIOUS
<1>1. PICK content \in Output : dist' = With(dist, name, content)
  BY <1>0 DEF Compile
<1>2. /\ script = "compile" /\ todo # << >> /\ todo' = Tail(todo)
      /\ UNCHANGED <<revision, since, contract, static, script, rebuilt>>
  BY DEF Compile, rebuilt
<1>3. content \in Output
  OBVIOUS
<1>4. name \in Modules
  <2>1. todo \in Seq(Names) /\ ToSet(todo) \subseteq ToSet(Compiled)
    BY <1>2 DEF EmbedInv, EmbedTyped, SyncAdvances
  <2> QED
    BY <2>1, <1>0, <1>2, ListShrinks, RequiredListed
<1>5. /\ dist' \in [DOMAIN dist' -> Written(revision)]
      /\ Made(name)' /\ \A n : Made(n) => Made(n)'
  BY <1>1, <1>2, <1>3, <1>4, FileMade DEF EmbedInv
<1>6. /\ todo' \in Seq(Names) /\ ToSet(todo') \subseteq ToSet(Compiled)
      /\ \A n \in ToSet(Compiled) : n \in ToSet(todo') \/ Made(n)'
  BY <1>0, <1>2, <1>5, MadeOneMore DEF EmbedInv, BuildAdvances, SyncAdvances
<1>7. EmbedTyped'
  BY <1>2, <1>5, <1>6 DEF EmbedInv, EmbedTyped
<1>8. BuildAdvances'
  BY <1>2, <1>6 DEF EmbedInv, BuildAdvances, Embedding
<1>9. SyncAdvances'
  BY <1>2, <1>6 DEF EmbedInv, SyncAdvances, Embedding
<1> QED
  BY <1>2, <1>7, <1>8, <1>9 DEF EmbedInv, StaticLoads

LEMMA CompilesKeeps == EmbedInv /\ Compiles => EmbedInv'
<1> SUFFICES ASSUME EmbedInv, Compiles PROVE EmbedInv'
  OBVIOUS
<1>1. PICK content \in Output : contract' = {content}
  BY DEF Compiles
<1>2. /\ script = "compile" /\ todo = << >> /\ script' = "copy" /\ todo' = Copied
      /\ UNCHANGED <<revision, since, dist, static, rebuilt>>
  BY DEF Compiles, rebuilt
<1>3. contract' \subseteq Output'
  BY <1>1, <1>2 DEF Output, Revisions
<1>4. contract' \subseteq Output
  BY <1>1
<1>5. contract' \subseteq Written(revision)
  BY <1>4, RevisionValues DEF EmbedInv
<1>6. todo' \in Seq(Names)
  <2>1. Copied \in Seq(Required)
    BY RequiredListed
  <2> QED
    BY <2>1, <1>2, SMT DEF Names
<1>7. EmbedTyped'
  BY <1>2, <1>5, <1>6 DEF EmbedInv, EmbedTyped, Running
<1>8. \A n \in ToSet(Compiled) : Made(n)'
  BY <1>2, SameMade, ListOfNothing DEF EmbedInv, BuildAdvances
<1>9. BuildAdvances'
  BY <1>2, <1>3, <1>8 DEF EmbedInv, BuildAdvances, Embedding
<1>10. SyncAdvances'
  BY <1>2 DEF SyncAdvances, Embedding
<1> QED
  BY <1>2, <1>7, <1>9, <1>10 DEF EmbedInv, StaticLoads

LEMMA CopyKeeps == EmbedInv /\ Copy => EmbedInv'
<1> SUFFICES ASSUME EmbedInv, Copy PROVE EmbedInv'
  OBVIOUS
<1>0. PICK name : name = Head(todo)
  OBVIOUS
<1>1. /\ script = "copy" /\ todo # << >> /\ todo' = Tail(todo)
      /\ dist' = With(dist, name, revision)
      /\ UNCHANGED <<revision, since, contract, static, script, rebuilt>>
  BY <1>0 DEF Copy, rebuilt
<1>2. /\ dist' \in [DOMAIN dist' -> Written(revision)]
      /\ Made(name)' /\ \A n : Made(n) => Made(n)'
  <2>1. revision \in Revisions /\ revision \in Output
    BY RevisionValues DEF EmbedInv
  <2> QED
    BY <1>1, <2>1, FileMade DEF EmbedInv
<1>3. /\ todo' \in Seq(Names) /\ ToSet(todo') \subseteq ToSet(Copied)
      /\ \A n \in ToSet(Copied) : n \in ToSet(todo') \/ Made(n)'
  BY <1>0, <1>1, <1>2, MadeOneMore DEF EmbedInv, BuildAdvances, SyncAdvances
<1>4. EmbedTyped'
  BY <1>1, <1>2, <1>3 DEF EmbedInv, EmbedTyped
<1>5. BuildAdvances'
  BY <1>1, <1>2, <1>3 DEF EmbedInv, BuildAdvances, Embedding, Output, Revisions
<1>6. SyncAdvances'
  BY <1>1, <1>3 DEF EmbedInv, SyncAdvances, Embedding
<1> QED
  BY <1>1, <1>4, <1>5, <1>6 DEF EmbedInv, StaticLoads

LEMMA FlattenKeeps == EmbedInv /\ Flatten => EmbedInv'
<1> SUFFICES ASSUME EmbedInv, Flatten PROVE EmbedInv'
  OBVIOUS
<1>1. PICK content \in contract : dist' = With(dist, CONTRACT, content)
  BY DEF Flatten
<1>2. /\ script = "copy" /\ todo = << >> /\ script' = "check"
      /\ UNCHANGED <<revision, since, contract, static, todo, rebuilt>>
  BY DEF Flatten, rebuilt
<1>3. content \in Output /\ CONTRACT \in Modules
  BY <1>2, RequiredListed DEF EmbedInv, BuildAdvances
<1>4. /\ dist' \in [DOMAIN dist' -> Written(revision)]
      /\ Made(CONTRACT)' /\ \A n : Made(n) => Made(n)'
  BY <1>1, <1>2, <1>3, FileMade DEF EmbedInv
<1>5. EmbedTyped'
  BY <1>2, <1>4 DEF EmbedInv, EmbedTyped, Running
<1>6. \A n \in Required : Made(n)'
  <2>1. \A n \in Modules : Made(n)'
    BY <1>2, <1>4 DEF EmbedInv, BuildAdvances, Modules
  <2>2. \A n \in ToSet(Copied) : Made(n)'
    BY <1>2, <1>4, ListOfNothing DEF EmbedInv, BuildAdvances
  <2> QED
    BY <2>1, <2>2, RequiredListed
<1>7. BuildAdvances'
  BY <1>2, <1>6 DEF BuildAdvances
<1>8. SyncAdvances'
  BY <1>2 DEF SyncAdvances, Embedding
<1> QED
  BY <1>2, <1>5, <1>7, <1>8 DEF EmbedInv, StaticLoads

LEMMA CheckedKeeps == EmbedInv /\ Checked => EmbedInv'
<1> SUFFICES ASSUME EmbedInv, Checked PROVE EmbedInv'
  OBVIOUS
<1>1. /\ script = "check" /\ UiAssets(dist) /\ ModuleSpecifiers(dist)
      /\ script' = "clear" /\ todo' = SetToSeq(DOMAIN static)
      /\ UNCHANGED <<revision, since, contract, dist, static, rebuilt>>
  BY DEF Checked, rebuilt
<1>2. IsFiniteSet(DOMAIN static)
  <2>1. IsFiniteSet(Names)
    BY RequiredListed, FS_AddElement DEF Names
  <2> QED
    BY <2>1, FS_Subset DEF EmbedInv, EmbedTyped
<1>3. todo' \in Seq(DOMAIN static) /\ ToSet(todo') = DOMAIN static
  BY <1>1, <1>2, DirectoryListed
<1>4. todo' \in Seq(Names)
  <2>1. DOMAIN static \subseteq Names
    BY DEF EmbedInv, EmbedTyped
  <2> QED
    BY <2>1, <1>3, SMT
<1>5. EmbedTyped'
  BY <1>1, <1>4 DEF EmbedInv, EmbedTyped, Embedding
<1>6. BuildAdvances'
  BY <1>1, SameMade DEF EmbedInv, BuildAdvances, Embedding
<1>7. SyncAdvances'
  BY <1>1, <1>3 DEF SyncAdvances, UiAssets, ModuleSpecifiers
<1> QED
  BY <1>1, <1>5, <1>6, <1>7 DEF EmbedInv, StaticLoads

LEMMA ClearKeeps == EmbedInv /\ Clear => EmbedInv'
<1> SUFFICES ASSUME EmbedInv, Clear PROVE EmbedInv'
  OBVIOUS
<1>0. PICK name : name = Head(todo)
  OBVIOUS
<1>1. /\ script = "clear" /\ todo # << >> /\ todo' = Tail(todo)
      /\ static' = [n \in DOMAIN static \ {name} |-> static[n]]
      /\ UNCHANGED <<revision, since, contract, dist, script, rebuilt>>
  BY <1>0 DEF Clear, Restrict, rebuilt
<1>2. todo \in Seq(Names) /\ DOMAIN static \subseteq ToSet(todo)
  BY <1>1 DEF EmbedInv, EmbedTyped, SyncAdvances
<1>3. /\ todo' \in Seq(Names)
      /\ \A n \in ToSet(todo) : n = name \/ n \in ToSet(todo')
  BY <1>0, <1>1, <1>2, ListShrinks
<1>4. /\ DOMAIN static' = DOMAIN static \ {name}
      /\ \A n \in DOMAIN static' : static'[n] = static[n]
  BY <1>1
<1>5. EmbedTyped'
  BY <1>1, <1>3 DEF EmbedInv, EmbedTyped
<1>6. BuildAdvances'
  BY <1>1, SameMade DEF EmbedInv, BuildAdvances, Embedding
<1>7. SyncAdvances'
  BY <1>1, <1>2, <1>3, <1>4 DEF EmbedInv, SyncAdvances, UiAssets, ModuleSpecifiers, Embedding
<1>8. StaticLoads'
  BY <1>4 DEF EmbedInv, StaticLoads
<1> QED
  BY <1>5, <1>6, <1>7, <1>8 DEF EmbedInv

LEMMA ClearedKeeps == EmbedInv /\ Cleared => EmbedInv'
<1> SUFFICES ASSUME EmbedInv, Cleared PROVE EmbedInv'
  OBVIOUS
<1>1. /\ script = "clear" /\ todo = << >> /\ script' = "put" /\ todo' = REQUIRED_UI_ASSETS
      /\ UNCHANGED <<revision, since, contract, dist, static, rebuilt>>
  BY DEF Cleared, rebuilt
<1>2. todo' \in Seq(Required)
  BY <1>1, RequiredListed
<1>3. todo' \in Seq(Names)
  BY <1>2, SMT DEF Names
<1>4. ToSet(todo') \subseteq Required
  BY <1>1 DEF Required
<1>5. DOMAIN static = {}
  BY <1>1, ListOfNothing DEF EmbedInv, SyncAdvances
<1>6. EmbedTyped'
  BY <1>1, <1>3 DEF EmbedInv, EmbedTyped, Embedding
<1>7. BuildAdvances'
  BY <1>1, SameMade DEF EmbedInv, BuildAdvances, Embedding
<1>8. SyncAdvances'
  BY <1>1, <1>4, <1>5 DEF EmbedInv, SyncAdvances, UiAssets, ModuleSpecifiers, Embedding
<1> QED
  BY <1>1, <1>6, <1>7, <1>8 DEF EmbedInv, StaticLoads

\* A copy that is made, or cut short: what it writes is no module that cannot be loaded.
LEMMA StaticWritten ==
  ASSUME EmbedInv, script = "put", todo # << >>, NEW name, name = Head(todo),
         NEW content \in {dist[name], 0, Truncated}, static' = With(static, name, content),
         UNCHANGED <<revision, dist>>
  PROVE  /\ name \in Required
         /\ DOMAIN static' = DOMAIN static \cup {name} /\ static'[name] = content
         /\ \A n \in DOMAIN static : n # name => static'[n] = static[n]
         /\ DOMAIN static' \subseteq Names
         /\ static' \in [DOMAIN static' -> Written(revision)]
         /\ StaticLoads'
<1>1. name \in Required
  <2>1. todo \in Seq(Names) /\ ToSet(todo) \subseteq Required
    BY DEF EmbedInv, EmbedTyped, SyncAdvances
  <2> QED
    BY <2>1, ListShrinks
<1>2. dist[name] \in Written(revision) /\ (name \in Modules => dist[name] # Extensionless)
  BY <1>1 DEF EmbedInv, EmbedTyped, SyncAdvances, Embedding, UiAssets, ModuleSpecifiers
<1>3. content \in Written(revision)
  <2>1. {0, Truncated} \subseteq Written(revision)
    BY WrittenValues DEF EmbedInv, EmbedTyped
  <2> QED
    BY <1>2, <2>1
<1>4. static \in [DOMAIN static -> Written(revision)]
  BY DEF EmbedInv, EmbedTyped
<1>5. /\ DOMAIN static' = DOMAIN static \cup {name} /\ static'[name] = content
      /\ \A n \in DOMAIN static : n # name => static'[n] = static[n]
      /\ static' \in [DOMAIN static' -> Written(revision)]
  <2> DEFINE after == With(static, name, content)
             V == Written(revision)
  <2>1. /\ DOMAIN after = DOMAIN static \cup {name} /\ after[name] = content
        /\ \A n \in DOMAIN static : n # name => after[n] = static[n]
        /\ after \in [DOMAIN after -> V]
    <3>1. content \in V /\ static \in [DOMAIN static -> V]
      BY <1>3, <1>4
    <3> HIDE DEF V
    <3> QED
      BY <3>1 DEF With
  <2>2. static' = after
    OBVIOUS
  <2> HIDE DEF after
  <2> QED
    BY <2>1, <2>2
<1>6. DOMAIN static' \subseteq Names
  BY <1>1, <1>5 DEF EmbedInv, EmbedTyped, Names
<1>7. Truncated # Extensionless /\ 0 # Extensionless
  BY EmbedAssumption
<1>8. StaticLoads'
  BY <1>2, <1>5, <1>7 DEF EmbedInv, StaticLoads
<1> QED
  BY <1>1, <1>5, <1>6, <1>8

LEMMA PutKeeps == EmbedInv /\ Put => EmbedInv'
<1> SUFFICES ASSUME EmbedInv, Put PROVE EmbedInv'
  OBVIOUS
<1>0. PICK name : name = Head(todo)
  OBVIOUS
<1>1. /\ script = "put" /\ todo # << >> /\ todo' = Tail(todo)
      /\ static' = With(static, name, dist[name])
      /\ UNCHANGED <<revision, since, contract, dist, script, rebuilt>>
  BY <1>0 DEF Put, rebuilt
<1>2. /\ name \in Required
      /\ DOMAIN static' = DOMAIN static \cup {name} /\ static'[name] = dist[name]
      /\ \A n \in DOMAIN static : n # name => static'[n] = static[n]
      /\ DOMAIN static' \subseteq Names
      /\ static' \in [DOMAIN static' -> Written(revision)]
      /\ StaticLoads'
  BY <1>0, <1>1, StaticWritten
<1>3. todo' \in Seq(Names) /\ ToSet(todo') \subseteq ToSet(todo)
  BY <1>1, ListShrinks DEF EmbedInv, EmbedTyped
<1>4. EmbedTyped'
  BY <1>1, <1>2, <1>3 DEF EmbedInv, EmbedTyped
<1>5. BuildAdvances'
  BY <1>1, SameMade DEF EmbedInv, BuildAdvances, Embedding
<1>6. SyncAdvances'
  BY <1>1, <1>2, <1>3 DEF EmbedInv, SyncAdvances, UiAssets, ModuleSpecifiers, Embedding
<1> QED
  BY <1>2, <1>4, <1>5, <1>6 DEF EmbedInv

LEMMA VerifyKeeps == EmbedInv /\ Verify => EmbedInv'
<1> SUFFICES ASSUME EmbedInv, Verify PROVE EmbedInv'
  OBVIOUS
<1>1. /\ script = "put" /\ UiAssets(static) /\ script' = "build"
      /\ UNCHANGED <<revision, since, contract, dist, static, todo, rebuilt>>
  BY DEF Verify, rebuilt
<1>2. DOMAIN static = Required
  BY <1>1 DEF EmbedInv, SyncAdvances, UiAssets
<1>3. EmbedTyped'
  BY <1>1 DEF EmbedInv, EmbedTyped, Embedding
<1>4. BuildAdvances'
  BY <1>1, SameMade DEF EmbedInv, BuildAdvances, Embedding
<1>5. SyncAdvances'
  BY <1>1, <1>2 DEF EmbedInv, SyncAdvances, UiAssets, ModuleSpecifiers, Embedding
<1> QED
  BY <1>1, <1>3, <1>4, <1>5 DEF EmbedInv, StaticLoads

LEMMA EndsKeep == EmbedInv /\ (GoBuild \/ Stop) => EmbedInv'
<1> SUFFICES ASSUME EmbedInv, GoBuild \/ Stop PROVE EmbedInv'
  OBVIOUS
<1>1. /\ script' = "idle" /\ todo' \in {todo, << >>}
      /\ since' = 0 /\ UNCHANGED <<revision, contract, dist, static>>
  BY DEF GoBuild, Stop
<1>2. todo' \in Seq(Names)
  BY <1>1, ListOfNothing DEF EmbedInv, EmbedTyped
<1>3. EmbedTyped'
  <2>1. since' \in Nat /\ since' <= revision'
    BY <1>1, SMT DEF EmbedInv, EmbedTyped
  <2> QED
    BY <1>1, <1>2, <2>1 DEF EmbedInv, EmbedTyped
<1> QED
  BY <1>1, <1>3 DEF EmbedInv, BuildAdvances, SyncAdvances, StaticLoads, Embedding

LEMMA CutShortKeeps == EmbedInv /\ (\E part \in {0, Truncated} : CutShort(part)) => EmbedInv'
<1> SUFFICES ASSUME EmbedInv, NEW part \in {0, Truncated}, CutShort(part) PROVE EmbedInv'
  OBVIOUS
<1>0. PICK name : name = Head(todo)
  OBVIOUS
<1>1. script' = "idle" /\ todo' = << >> /\ since' = 0 /\ revision' = revision
  BY DEF CutShort
<1>2. todo' \in Seq(Names)
  BY <1>1, ListOfNothing
<1>3. part \in Written(revision)
  BY WrittenValues DEF EmbedInv, EmbedTyped
<1>4. /\ contract' \subseteq Written(revision) /\ dist' \in [DOMAIN dist' -> Written(revision)]
      /\ DOMAIN static' \subseteq Names /\ static' \in [DOMAIN static' -> Written(revision)]
      /\ StaticLoads'
  <2>1. CASE script = "put"
    <3>1. todo # << >> /\ static' = With(static, name, part) /\ UNCHANGED <<contract, dist>>
      BY <1>0, <2>1 DEF CutShort
    <3>2. /\ DOMAIN static' \subseteq Names /\ static' \in [DOMAIN static' -> Written(revision)]
          /\ StaticLoads'
      BY <1>0, <1>1, <2>1, <3>1, StaticWritten
    <3> QED
      BY <3>1, <3>2 DEF EmbedInv, EmbedTyped
  <2>2. CASE script # "put"
    <3>1. /\ UNCHANGED static
          /\ \/ UNCHANGED dist /\ contract' = {part}
             \/ UNCHANGED contract /\ \E file : dist' = With(dist, file, part)
      BY <2>2 DEF CutShort
    <3>2. ASSUME NEW file, dist' = With(dist, file, part)
          PROVE  dist' \in [DOMAIN dist' -> Written(revision)]
      <4> DEFINE V == Written(revision)
      <4>1. dist \in [DOMAIN dist -> V] /\ part \in V
        BY <1>3 DEF EmbedInv, EmbedTyped
      <4> HIDE DEF V
      <4>2. dist' \in [DOMAIN dist' -> V]
        BY <3>2, <4>1 DEF With
      <4> QED
        BY <4>2 DEF V
    <3> QED
      BY <1>3, <3>1, <3>2 DEF EmbedInv, EmbedTyped, StaticLoads
  <2> QED
    BY <2>1, <2>2
<1>5. since' \in Nat /\ since' <= revision'
  BY <1>1, SMT DEF EmbedInv, EmbedTyped
<1> QED
  BY <1>1, <1>2, <1>4, <1>5 DEF EmbedInv, EmbedTyped, BuildAdvances, SyncAdvances, Embedding

THEOREM EmbedInvAlways == EmbedSpec => []EmbedInv
<1>1. ASSUME EmbedInv, StartBuild
      PROVE  EmbedInv'
  <2>1. /\ script = "idle" /\ script' = "compile" /\ todo' = Compiled
        /\ since' = revision /\ UNCHANGED <<revision, contract, dist, static>>
    BY <1>1 DEF StartBuild, Begin
  <2>2. todo' \in Seq(Names)
    <3>1. Compiled \in Seq(Required)
      BY RequiredListed
    <3> QED
      BY <3>1, <2>1, SMT DEF Names
  <2>3. EmbedTyped'
    <3>1. since' \in Nat /\ since' <= revision'
      BY <1>1, <2>1 DEF EmbedInv, EmbedTyped
    <3> QED
      BY <1>1, <2>1, <2>2, <3>1 DEF EmbedInv, EmbedTyped, Running
  <2>4. BuildAdvances' /\ SyncAdvances'
    <3>1. rebuilt'
      BY <1>1, <2>1, SMT DEF EmbedInv, EmbedTyped, rebuilt
    <3> QED
      BY <2>1, <3>1 DEF BuildAdvances, SyncAdvances, Embedding
  <2> QED
    BY <1>1, <2>1, <2>3, <2>4 DEF EmbedInv, StaticLoads
<1>2. ASSUME EmbedInv, StartSync
      PROVE  EmbedInv'
  <2>1. /\ script' = "check" /\ todo' = << >> /\ since' = 0
        /\ UNCHANGED <<revision, contract, dist, static>>
    BY <1>2 DEF StartSync, Begin
  <2> QED
    BY <1>2, <2>1, IdleKeeps, ListOfNothing
<1>3. ASSUME EmbedInv, UNCHANGED embedVars
      PROVE  EmbedInv'
  <2>1. EmbedTyped'
    BY <1>3 DEF EmbedInv, EmbedTyped, embedVars
  <2>2. BuildAdvances'
    <3>1. Output' = Output /\ \A n : Made(n) <=> Made(n)'
      BY <1>3, SameMade DEF embedVars, Output, Revisions
    <3> QED
      BY <1>3, <3>1 DEF EmbedInv, BuildAdvances, embedVars, rebuilt
  <2>3. SyncAdvances'
    BY <1>3 DEF EmbedInv, SyncAdvances, embedVars, UiAssets, ModuleSpecifiers
  <2>4. StaticLoads'
    BY <1>3 DEF EmbedInv, StaticLoads, embedVars
  <2> QED
    BY <2>1, <2>2, <2>3, <2>4 DEF EmbedInv
<1>4. EmbedInv /\ [EmbedNext]_embedVars => EmbedInv'
  BY <1>1, <1>2, <1>3, EditKeeps, CompileKeeps, CompilesKeeps, CopyKeeps, FlattenKeeps, CheckedKeeps,
     ClearKeeps, ClearedKeeps, PutKeeps, VerifyKeeps, EndsKeep, CutShortKeeps DEF EmbedNext
<1> QED
  BY <1>4, EmbedStarts, PTL DEF EmbedSpec

\* What a script embeds is what it found built, each file of it whole and recent when the
\* script built it, whatever was interrupted before, edited meanwhile or embedded by hand
\* in between: scripts/build-web.ts and scripts/web-assets.ts.
THEOREM EmbedWholeAlways == EmbedSpec => []EmbedWhole
<1>1. ASSUME EmbedInv
      PROVE  EmbedWhole
  <2>0. /\ revision \in Nat /\ Modules \subseteq Required
        /\ dist \in [DOMAIN dist -> Written(revision)]
        /\ static \in [DOMAIN static -> Written(revision)]
        /\ DOMAIN static \subseteq Names
    BY <1>1, RequiredListed DEF EmbedInv, EmbedTyped
  <2>1. ASSUME script = "build"
        PROVE  /\ DOMAIN static = Required /\ \A n \in Required : static[n] = dist[n]
               /\ \A n \in Required : n \in DOMAIN dist /\ dist[n] # 0
               /\ UiAssets(static) /\ ModuleSpecifiers(dist)
    BY <1>1, <2>1 DEF EmbedInv, SyncAdvances, UiAssets, Embedding
  <2>3. ASSUME UiAssets(static)
        PROVE  ModuleSpecifiers(static)
    BY <1>1, <2>0, <2>3 DEF EmbedInv, StaticLoads, UiAssets, ModuleSpecifiers
  <2>4. ASSUME UiAssets(static), Leftover \notin DOMAIN static
        PROVE  DOMAIN static = Required
    BY <2>0, <2>4 DEF UiAssets, Names
  <2>5. ASSUME NEW b \in Built
        PROVE  /\ b.scripted => DOMAIN b.files = Required /\ Starts(b)
               /\ Starts(b) => ModuleSpecifiers(b.files)
               /\ Starts(b) /\ Leftover \notin DOMAIN b.files => DOMAIN b.files = Required
    <3>1. b.files = static /\ b.scripted = (script = "build")
      BY DEF Built
    <3> QED
      BY <3>1, <2>1, <2>3, <2>4 DEF Starts
  <2>6. ASSUME script = "build"
        PROVE  static = Restrict(dist, Required)
    <3>1. static = [n \in Required |-> static[n]]
      BY <2>0, <2>1, <2>6
    <3> QED
      BY <3>1, <2>1, <2>6 DEF Restrict
  <2>7. ASSUME script = "build", rebuilt, NEW name \in Required
        PROVE  static[name] \in Revisions
    <3>1. Made(name)
      BY <1>1, <2>7 DEF EmbedInv, BuildAdvances, Embedding
    <3>2. dist[name] # 0 /\ (name \in Modules => dist[name] # Extensionless) /\ static[name] = dist[name]
      BY <2>1, <2>7 DEF ModuleSpecifiers
    <3> QED
      BY <3>1, <3>2 DEF Made, Output
  <2>8. ASSUME script = "build"
        PROVE  ControlsBite(static)
    <3> SUFFICES ASSUME NEW name \in Modules
                 PROVE  /\ ~SameHashes(static, With(static, name, revision + 1))
                        /\ ~UiAssets(Restrict(static, DOMAIN static \ {name}))
                        /\ ~ModuleSpecifiers(With(static, name, Extensionless))
      BY DEF ControlsBite
    <3>1. name \in Required /\ name \in DOMAIN static
      BY <2>0, <2>1, <2>8
    <3>2. static[name] # revision + 1
      BY <2>0, <3>1, WrittenValues
    <3>3. \A c : With(static, name, c)[name] = c
      BY DEF With
    <3>4. DOMAIN Restrict(static, DOMAIN static \ {name}) = DOMAIN static \ {name}
      BY DEF Restrict
    <3>5. ~SameHashes(static, With(static, name, revision + 1))
      BY <3>1, <3>2, <3>3 DEF SameHashes
    <3>6. ~UiAssets(Restrict(static, DOMAIN static \ {name}))
      BY <3>1, <3>4 DEF UiAssets
    <3>7. ~ModuleSpecifiers(With(static, name, Extensionless))
      BY <3>3 DEF ModuleSpecifiers
    <3> QED
      BY <3>5, <3>6, <3>7
  <2>9. ASSUME script = "build", rebuilt
        PROVE  Range(static) \subseteq Revisions
    <3>1. \A name \in DOMAIN static : static[name] \in Revisions
      BY <2>1, <2>7, <2>9
    <3> QED
      BY <3>1 DEF Range
  <2> QED
    BY <2>5, <2>6, <2>8, <2>9 DEF EmbedWhole
<1>2. EmbedInv => EmbedWhole
  BY <1>1
<1> QED
  BY <1>2, EmbedInvAlways, PTL

\* What a step has left to do puts a mark on the snapshot back.
TakenBack == stepNo <= Len(STEPS) /\ ~stopped
               /\ \E j \in opNo .. Len(STEPS[stepNo]) : STEPS[stepNo][j] = "unmark"

RouteTyped ==
  /\ stage \in {"opening", "running", "returned", "closed", "hung"}
  /\ stepNo \in 1 .. Len(STEPS) + 1 /\ opNo \in Nat \ {0}
  /\ failedHere \in BOOLEAN /\ stopped \in BOOLEAN /\ missed \in BOOLEAN
  /\ injected \subseteq Flagged \cup {"size", "warnings"}

\* The flags are true; a mark is taken back by what the step has left, or recorded;
\* and after the route nothing is left that is not recorded.
PutBackOrRecorded ==
  /\ injected \cap Flagged = flags
  /\ stage = "opening" => injected = {}
  /\ stage = "running" /\ "warnings" \in injected => missed \/ TakenBack
  /\ stage \in {"returned", "closed"} /\ injected # {} => missed

\* Steps come to their end in order, and the route stops at one that failed.
StepsInOrder ==
  /\ failedHere => missed
  /\ stopped => missed \/ stopAt # ""
  /\ ~stopped => ran = 1 .. stepNo - 1
  /\ stage = "opening" => ran = {}
  /\ stage = "returned" => stopped \/ stepNo > Len(STEPS)
  /\ stage = "closed" /\ ran # {} => running \cap {"server", "chrome"} = {}

PassEarned ==
  verdict = "pass" =>
    /\ stage = "closed" /\ running = {} /\ ~missed /\ stopAt = ""
    /\ stopped \/ stepNo > Len(STEPS)

FlowInv == RouteTyped /\ PutBackOrRecorded /\ StepsInOrder /\ PassEarned

(***************************************************************************)
(* The route.  First its steps: one that marks the snapshot has an         *)
(* operation left that puts it back.                                       *)
(***************************************************************************)
Ops == {"click", "evaluate", "settle", "check", "restore", "resize", "resetSize"}
         \cup DOMAIN Adds \cup DOMAIN Removes

PutsBack(s) ==
  /\ s \in Seq(Ops)
  /\ \A k \in DOMAIN s : s[k] = "mark" => \E j \in DOMAIN s : j > k /\ s[j] = "unmark"

LEMMA OpNames ==
  /\ Ops = {"click", "evaluate", "settle", "check", "restore", "resize", "resetSize",
            "pin", "inject", "pinInject", "cut", "mark", "unpin", "release", "reconnect", "unmark"}
  /\ DOMAIN Adds = {"pin", "inject", "pinInject", "cut", "mark", "resize"}
  /\ DOMAIN Removes = {"unpin", "release", "reconnect", "unmark", "resetSize"}
  BY DEF Ops, Adds, Removes

LEMMA PutsBackJoined ==
  ASSUME NEW s, NEW t, PutsBack(s), PutsBack(t)
  PROVE  PutsBack(s \o t)
<1>1. /\ s \in Seq(Ops) /\ t \in Seq(Ops) /\ s \o t \in Seq(Ops)
      /\ Len(s) \in Nat /\ Len(t) \in Nat /\ DOMAIN s = 1 .. Len(s) /\ DOMAIN t = 1 .. Len(t)
      /\ DOMAIN (s \o t) = 1 .. Len(s) + Len(t)
  BY DEF PutsBack
<1>2. \A k \in 1 .. Len(s) : (s \o t)[k] = s[k]
  BY <1>1, SMT
<1>3. \A k \in 1 .. Len(t) : (s \o t)[Len(s) + k] = t[k]
  BY <1>1, SMT
<1>4. ASSUME NEW k \in DOMAIN (s \o t), (s \o t)[k] = "mark"
      PROVE  \E j \in DOMAIN (s \o t) : j > k /\ (s \o t)[j] = "unmark"
  <2>1. CASE k <= Len(s)
    <3>1. k \in DOMAIN s /\ s[k] = "mark"
      BY <2>1, <1>1, <1>2, <1>4, SMT
    <3>2. PICK j \in DOMAIN s : j > k /\ s[j] = "unmark"
      BY <3>1 DEF PutsBack
    <3>3. j \in DOMAIN (s \o t) /\ j \in 1 .. Len(s)
      BY <1>1, SMT
    <3> QED
      BY <3>2, <3>3, <1>2
  <2>2. CASE k > Len(s)
    <3>1. k - Len(s) \in 1 .. Len(t) /\ Len(s) + (k - Len(s)) = k
      BY <2>2, <1>1, SMT
    <3>2. t[k - Len(s)] = "mark"
      BY <3>1, <1>3, <1>4
    <3>3. PICK j \in DOMAIN t : j > k - Len(s) /\ t[j] = "unmark"
      BY <3>1, <3>2, <1>1 DEF PutsBack
    <3>4. Len(s) + j \in DOMAIN (s \o t) /\ Len(s) + j > k /\ j \in 1 .. Len(t)
      BY <3>3, <1>1, SMT
    <3> QED
      BY <3>3, <3>4, <1>3
  <2> QED
    BY <2>1, <2>2, <1>1, SMT
<1> QED
  BY <1>1, <1>4 DEF PutsBack

LEMMA PiecesPutBack ==
  /\ PutsBack(SelectPeriod) /\ PutsBack(TypeSearch) /\ PutsBack(Unattended)
  /\ PutsBack(Refreshed) /\ PutsBack(Capture)
  /\ PutsBack(Read(1)) /\ PutsBack(Read(2)) /\ PutsBack(Read(3))
<1>1. PutsBack(SelectPeriod) /\ PutsBack(TypeSearch) /\ PutsBack(Refreshed) /\ PutsBack(Capture)
  BY OpNames DEF PutsBack, SelectPeriod, TypeSearch, Refreshed, Capture
<1>2. PutsBack(Unattended)
  BY OpNames, SMT DEF PutsBack, Unattended
<1>3. ASSUME NEW n \in Nat
      PROVE  PutsBack(Read(n))
  BY OpNames DEF PutsBack, Read
<1> QED
  BY <1>1, <1>2, <1>3

\* Each step is put together of such pieces, and of others without a mark.
LEMMA StepsPutBack ==
  /\ Len(STEPS) = 10 /\ DOMAIN STEPS = 1 .. Len(STEPS)
  /\ \A n \in 1 .. Len(STEPS) : PutsBack(STEPS[n])
<1>0. PutsBack(SkewClock)
  <2>1. PutsBack(<<"evaluate">>)
    BY OpNames DEF PutsBack
  <2> QED
    BY <2>1, PiecesPutBack, PutsBackJoined DEF SkewClock
<1>1. PutsBack(Summary)
  <2>1. /\ PutsBack(<<"click", "settle", "check">>)
        /\ PutsBack(<<"check">>)
    BY OpNames DEF PutsBack
  <2> QED
    BY <2>1, PiecesPutBack, PutsBackJoined DEF Summary
<1>2. PutsBack(Period)
  <2>1. /\ PutsBack(<<"evaluate">>)
        /\ PutsBack(<<"check", "settle", "check">>)
    BY OpNames DEF PutsBack
  <2> QED
    BY <2>1, PiecesPutBack, PutsBackJoined DEF Period
<1>3. PutsBack(ProviderAccounts)
  <2>1. /\ PutsBack(<<"click", "settle", "check">>)
        /\ PutsBack(<<"settle", "check">>)
    BY OpNames DEF PutsBack
  <2> QED
    BY <2>1, PiecesPutBack, PutsBackJoined DEF ProviderAccounts
<1>4. PutsBack(CalcDetail)
  <2>1. /\ PutsBack(<<"evaluate">>)
        /\ PutsBack(<<"settle", "check">>)
        /\ PutsBack(<<"check">>)
    BY OpNames DEF PutsBack
  <2> QED
    BY <2>1, PiecesPutBack, PutsBackJoined DEF CalcDetail
<1>5. PutsBack(AutomaticPricing)
  <2>1. PutsBack(<<"click">>)
    BY OpNames DEF PutsBack
  <2> QED
    BY <2>1, PiecesPutBack, PutsBackJoined DEF AutomaticPricing
<1>6. PutsBack(Sources)
  <2>1. PutsBack(<<"evaluate">>)
    BY OpNames DEF PutsBack
  <2> QED
    BY <2>1, PiecesPutBack, PutsBackJoined DEF Sources
<1>7. PutsBack(Refresh)
  <2>1. /\ PutsBack(<<"evaluate">>)
        /\ PutsBack(<<"check">>)
    BY OpNames DEF PutsBack
  <2> QED
    BY <2>1, PiecesPutBack, PutsBackJoined DEF Refresh
<1>8. PutsBack(Failure)
  <2>1. /\ PutsBack(<<"click", "settle">>)
        /\ PutsBack(<<"evaluate">>)
        /\ PutsBack(<<"pin">>)
        /\ PutsBack(<<"evaluate", "evaluate", "evaluate">>)
        /\ PutsBack(<<"check">>)
        /\ PutsBack(<<"inject", "evaluate", "settle", "check">>)
        /\ PutsBack(<<"evaluate", "evaluate", "settle", "check">>)
        /\ PutsBack(<<"release">>)
        /\ PutsBack(<<"settle", "check", "evaluate", "settle", "check">>)
        /\ PutsBack(<<"cut", "settle", "check">>)
        /\ PutsBack(<<"evaluate", "settle", "check">>)
        /\ PutsBack(<<"unpin", "reconnect", "settle", "check">>)
    BY OpNames DEF PutsBack
  <2> QED
    BY <2>1, <1>0, PiecesPutBack, PutsBackJoined DEF Failure
<1>9. PutsBack(Evidence)
  <2>1. /\ PutsBack(<<"evaluate", "click", "settle">>)
        /\ PutsBack(<<"resetSize">>)
        /\ PutsBack(<<"click", "settle", "evaluate">>)
        /\ PutsBack(<<"click", "evaluate">>)
        /\ PutsBack(<<"pinInject", "click", "settle", "evaluate", "settle">>)
        /\ PutsBack(<<"check", "restore", "settle", "check">>)
    BY OpNames DEF PutsBack
  <2> QED
    BY <2>1, PiecesPutBack, PutsBackJoined DEF Evidence
<1>10. PutsBack(DirectBasis)
  <2>1. /\ PutsBack(<<"click", "settle", "settle", "check">>)
        /\ PutsBack(<<"settle", "check", "evaluate">>)
        /\ PutsBack(<<"check">>)
        /\ PutsBack(<<"evaluate">>)
    BY OpNames DEF PutsBack
  <2> QED
    BY <2>1, PiecesPutBack, PutsBackJoined DEF DirectBasis
<1>11. Len(STEPS) = 10 /\ DOMAIN STEPS = 1 .. Len(STEPS)
  BY DEF STEPS
<1>12. ASSUME NEW n \in 1 .. Len(STEPS)
       PROVE  PutsBack(STEPS[n])
  <2>1. n \in 1 .. 10
    BY <1>11
  <2>2. STEPS[n] \in {Summary, Period, ProviderAccounts, CalcDetail, AutomaticPricing, Sources,
                      Refresh, Failure, Evidence, DirectBasis}
    BY <2>1, SMT DEF STEPS
  <2> QED
    BY <2>2, <1>1, <1>2, <1>3, <1>4, <1>5, <1>6, <1>7, <1>8, <1>9, <1>10
<1> QED
  BY <1>11, <1>12

LEMMA FlowStarts == FlowInit => FlowInv
<1> SUFFICES ASSUME FlowInit PROVE FlowInv
  OBVIOUS
<1>1. Len(STEPS) = 10
  BY StepsPutBack
<1>2. 1 \in 1 .. Len(STEPS) + 1 /\ 1 \in Nat \ {0} /\ 1 .. 1 - 1 = {}
  BY <1>1, SMT
<1>3. RouteTyped /\ StepsInOrder
  BY <1>2 DEF FlowInit, RouteTyped, StepsInOrder
<1> QED
  BY <1>3 DEF FlowInit, FlowInv, PutBackOrRecorded, PassEarned

\* The operation under way is one of the step's, and the step is of those known.
LEMMA OpKnown ==
  ASSUME FlowInv, InStep
  PROVE  /\ stage = "running" /\ ~stopped /\ stepNo \in 1 .. Len(STEPS)
         /\ PutsBack(STEPS[stepNo]) /\ opNo \in DOMAIN STEPS[stepNo]
         /\ DOMAIN STEPS[stepNo] = 1 .. Len(STEPS[stepNo]) /\ Len(STEPS[stepNo]) \in Nat
<1>1. /\ stage = "running" /\ ~stopped /\ stepNo <= Len(STEPS) /\ opNo <= Len(STEPS[stepNo])
      /\ stepNo \in 1 .. Len(STEPS) + 1 /\ opNo \in Nat \ {0} /\ Len(STEPS) = 10
  BY StepsPutBack DEF InStep, FlowInv, RouteTyped
<1>2. stepNo \in 1 .. Len(STEPS)
  BY <1>1, SMT
<1>3. PutsBack(STEPS[stepNo])
  BY <1>2, StepsPutBack
<1>4. DOMAIN STEPS[stepNo] = 1 .. Len(STEPS[stepNo]) /\ Len(STEPS[stepNo]) \in Nat
  BY <1>3 DEF PutsBack
<1>5. opNo \in DOMAIN STEPS[stepNo]
  BY <1>1, <1>4, SMT
<1> QED
  BY <1>1, <1>2, <1>3, <1>4, <1>5

\* An operation that is done leaves a mark only where the step has still to put it back.
LEMMA OperationKeeps ==
  ASSUME FlowInv, InStep, opNo' = opNo + 1,
         missed' \in BOOLEAN, missed => missed', failedHere' \in BOOLEAN, failedHere' => missed',
         injected' \subseteq Flagged \cup {"size", "warnings"}, injected' \cap Flagged = flags',
         "warnings" \in injected' => Op = "mark" \/ ("warnings" \in injected /\ Op # "unmark"),
         UNCHANGED <<stage, running, stopAt, stepNo, stopped, ran, verdict>>
  PROVE  FlowInv'
<1>1. /\ stage = "running" /\ ~stopped /\ stepNo \in 1 .. Len(STEPS)
      /\ PutsBack(STEPS[stepNo]) /\ opNo \in DOMAIN STEPS[stepNo]
      /\ DOMAIN STEPS[stepNo] = 1 .. Len(STEPS[stepNo]) /\ Len(STEPS[stepNo]) \in Nat
  BY OpKnown
<1>2. opNo' \in Nat \ {0}
  BY SMT DEF FlowInv, RouteTyped
<1>3. RouteTyped'
  BY <1>2 DEF FlowInv, RouteTyped
<1>4. ASSUME "warnings" \in injected'
      PROVE  missed' \/ TakenBack'
  <2>1. CASE Op = "mark"
    <3>1. PICK j \in DOMAIN STEPS[stepNo] : j > opNo /\ STEPS[stepNo][j] = "unmark"
      BY <1>1, <2>1 DEF PutsBack, Op
    <3>2. j \in opNo' .. Len(STEPS[stepNo])
      BY <1>1, <3>1, SMT
    <3> QED
      BY <1>1, <3>1, <3>2, SMT DEF TakenBack
  <2>2. CASE "warnings" \in injected /\ Op # "unmark"
    <3>1. missed \/ TakenBack
      BY <1>1, <2>2 DEF FlowInv, PutBackOrRecorded
    <3>2. ASSUME TakenBack
          PROVE  TakenBack'
      <4>1. PICK j \in opNo .. Len(STEPS[stepNo]) : STEPS[stepNo][j] = "unmark"
        BY <3>2 DEF TakenBack
      <4>2. j # opNo
        BY <2>2, <4>1 DEF Op
      <4>3. j \in opNo' .. Len(STEPS[stepNo])
        BY <1>1, <4>1, <4>2, SMT
      <4> QED
        BY <3>2, <4>1, <4>3 DEF TakenBack
    <3> QED
      BY <3>1, <3>2
  <2> QED
    BY <1>4, <2>1, <2>2
<1>5. PutBackOrRecorded'
  BY <1>1, <1>4 DEF PutBackOrRecorded
<1>6. StepsInOrder'
  BY <1>1 DEF FlowInv, StepsInOrder
<1>7. PassEarned'
  BY <1>1 DEF FlowInv, PassEarned
<1> QED
  BY <1>3, <1>5, <1>6, <1>7 DEF FlowInv

LEMMA Injections ==
  /\ \A o \in DOMAIN Adds : Adds[o] \subseteq Flagged \cup {"size", "warnings"}
  /\ \A o \in DOMAIN Adds : "warnings" \in Adds[o] => o = "mark"
  /\ "warnings" \in Removes["unmark"]
  BY DEF Adds, Removes, Flagged

LEMMA DoKeeps == FlowInv /\ Do => FlowInv'
<1> SUFFICES ASSUME FlowInv, Do PROVE FlowInv'
  OBVIOUS
<1>1. /\ InStep /\ opNo' = opNo + 1 /\ missed' = (missed \/ ~TRUE) /\ failedHere' = failedHere
      /\ UNCHANGED <<stage, running, stopAt, stepNo, stopped, ran, verdict>>
      /\ injected' = IF Op \in DOMAIN Adds THEN injected \cup Adds[Op]
                     ELSE IF Op \in DOMAIN Removes THEN injected \ Removes[Op] ELSE injected
      /\ flags' = IF Op \in DOMAIN Adds THEN flags \cup (Adds[Op] \cap Flagged)
                  ELSE IF Op \in DOMAIN Removes THEN flags \ Removes[Op] ELSE flags
  BY DEF Do, Advance
<1>2. /\ missed \in BOOLEAN /\ failedHere \in BOOLEAN /\ (failedHere => missed)
      /\ injected \subseteq Flagged \cup {"size", "warnings"} /\ injected \cap Flagged = flags
  BY DEF FlowInv, RouteTyped, StepsInOrder, PutBackOrRecorded
<1>3. missed' = missed
  BY <1>1, <1>2
<1>4. "unmark" \in DOMAIN Removes /\ "unmark" \notin DOMAIN Adds
  BY OpNames
<1>5. /\ injected' \subseteq Flagged \cup {"size", "warnings"}
      /\ injected' \cap Flagged = flags'
      /\ "warnings" \in injected' => Op = "mark" \/ ("warnings" \in injected /\ Op # "unmark")
  <2>1. CASE Op \in DOMAIN Adds
    <3>1. injected' = injected \cup Adds[Op] /\ flags' = flags \cup (Adds[Op] \cap Flagged)
      BY <1>1, <2>1
    <3> QED
      BY <1>2, <1>4, <2>1, <3>1, Injections
  <2>2. CASE Op \notin DOMAIN Adds /\ Op \in DOMAIN Removes
    <3>1. injected' = injected \ Removes[Op] /\ flags' = flags \ Removes[Op]
      BY <1>1, <2>2
    <3> QED
      BY <1>2, <3>1, Injections
  <2>3. CASE Op \notin DOMAIN Adds /\ Op \notin DOMAIN Removes
    <3>1. injected' = injected /\ flags' = flags
      BY <1>1, <2>3
    <3> QED
      BY <1>2, <1>4, <2>3, <3>1
  <2> QED
    BY <2>1, <2>2, <2>3
<1> QED
  BY <1>1, <1>2, <1>3, <1>5, OperationKeeps

LEMMA OthersKeep ==
  ASSUME FlowInv, NEW ok \in BOOLEAN, MissClick \/ Check(ok)
  PROVE  FlowInv'
<1>1. /\ InStep /\ opNo' = opNo + 1 /\ injected' = injected /\ flags' = flags /\ Op # "unmark"
      /\ UNCHANGED <<stage, running, stopAt, stepNo, stopped, ran, verdict>>
  BY DEF MissClick, Check, Advance
<1>2. /\ missed \in BOOLEAN /\ failedHere \in BOOLEAN /\ (failedHere => missed)
      /\ injected \subseteq Flagged \cup {"size", "warnings"} /\ injected \cap Flagged = flags
  BY DEF FlowInv, RouteTyped, StepsInOrder, PutBackOrRecorded
<1>3. missed' \in BOOLEAN /\ (missed => missed') /\ failedHere' \in BOOLEAN /\ (failedHere' => missed')
  <2>1. CASE MissClick
    BY <2>1, <1>2, Zenon DEF MissClick, Advance
  <2>2. CASE Check(ok)
    BY <2>2, <1>2, Zenon DEF Check, Advance
  <2> QED
    BY <2>1, <2>2
<1> QED
  BY <1>1, <1>2, <1>3, OperationKeeps

LEMMA ThrowKeeps == FlowInv /\ Throw => FlowInv'
<1> SUFFICES ASSUME FlowInv, Throw PROVE FlowInv'
  OBVIOUS
<1>1. /\ InStep /\ opNo' = Len(STEPS[stepNo]) + 1 /\ failedHere' = TRUE /\ missed' = TRUE
      /\ injected' \in {injected \cup {"warnings"}, injected, injected \ {"warnings"}}
      /\ UNCHANGED <<stage, running, stopAt, stepNo, stopped, flags, ran, verdict>>
  BY DEF Throw
<1>2. stage = "running" /\ Len(STEPS[stepNo]) \in Nat
  BY <1>1, OpKnown
<1>3. "warnings" \notin Flagged
  BY DEF Flagged
<1>4. RouteTyped'
  <2>1. opNo' \in Nat \ {0}
    BY <1>1, <1>2, SMT
  <2> QED
    BY <1>1, <2>1 DEF FlowInv, RouteTyped
<1>5. PutBackOrRecorded'
  BY <1>1, <1>2, <1>3 DEF FlowInv, PutBackOrRecorded
<1>6. StepsInOrder' /\ PassEarned'
  BY <1>1, <1>2 DEF FlowInv, StepsInOrder, PassEarned
<1> QED
  BY <1>4, <1>5, <1>6 DEF FlowInv

LEMMA NextStepKeeps == FlowInv /\ NextStep => FlowInv'
<1> SUFFICES ASSUME FlowInv, NextStep PROVE FlowInv'
  OBVIOUS
<1>1. /\ stage = "running" /\ stepNo <= Len(STEPS) /\ ~stopped /\ opNo > Len(STEPS[stepNo])
      /\ stopped' = (failedHere \/ stopAt = NAMES[stepNo])
      /\ ran' = IF failedHere THEN ran ELSE ran \cup {stepNo}
      /\ stepNo' = stepNo + 1 /\ opNo' = 1 /\ failedHere' = FALSE
      /\ UNCHANGED <<stage, running, stopAt, missed, flags, injected, verdict>>
  BY DEF NextStep, EndStep
<1>2. stepNo \in 1 .. Len(STEPS) + 1 /\ failedHere \in BOOLEAN /\ Len(STEPS) = 10
      /\ (failedHere => missed) /\ opNo \in Nat /\ ran = 1 .. stepNo - 1
  BY <1>1, StepsPutBack DEF FlowInv, RouteTyped, StepsInOrder
<1>3. stepNo \in 1 .. 10 /\ stepNo' \in 1 .. 11
  BY <1>1, <1>2, SMT
<1>4. NAMES[stepNo] # ""
  <2>1. NAMES[stepNo] \in {"01", "02", "03", "04", "05", "06", "07", "08", "09", "10"}
    BY <1>3, SMT DEF NAMES
  <2> QED
    BY <2>1
<1>5. stopped' \in BOOLEAN
  BY <1>1, Zenon
<1>6. RouteTyped'
  <2>1. stepNo' \in 1 .. Len(STEPS) + 1 /\ opNo' \in Nat \ {0}
    <3>1. stepNo' \in 1 .. 11 /\ Len(STEPS) = 10 /\ opNo' = 1
      BY <1>1, <1>2, <1>3
    <3> QED
      BY <3>1, SMT
  <2>2. failedHere' = FALSE /\ UNCHANGED <<stage, missed, injected>>
    BY <1>1
  <2> QED
    BY <1>5, <2>1, <2>2 DEF FlowInv, RouteTyped
<1>7. ~TakenBack
  <2>1. Len(STEPS[stepNo]) \in Nat
    BY <1>3, <1>2, StepsPutBack DEF PutsBack
  <2> QED
    BY <1>1, <1>2, <2>1, SMT DEF TakenBack
<1>8. PutBackOrRecorded'
  BY <1>1, <1>7 DEF FlowInv, PutBackOrRecorded
<1>9. stopped' => missed \/ stopAt # ""
  BY <1>1, <1>2, <1>4, Zenon
<1>10. ~stopped' => ran' = 1 .. stepNo' - 1
  <2>1. ~stopped' => ~failedHere
    BY <1>1, Zenon
  <2>2. (1 .. stepNo - 1) \cup {stepNo} = 1 .. stepNo' - 1
    BY <1>1, <1>3, SMT
  <2> QED
    BY <1>1, <1>2, <2>1, <2>2
<1>11. StepsInOrder'
  BY <1>1, <1>9, <1>10 DEF StepsInOrder
<1>12. PassEarned'
  BY <1>1 DEF FlowInv, PassEarned
<1> QED
  BY <1>6, <1>8, <1>11, <1>12 DEF FlowInv

\* restoreAll takes a flag back with what it stands for; all of it done and nothing
\* recorded, only a mark could be left.
LEMMA RestoreKeeps ==
  ASSUME FlowInv, NEW k \in 0 .. 4, RestoreAll(k)
  PROVE  /\ injected' \subseteq injected /\ injected' \cap Flagged = flags'
         /\ missed' \in BOOLEAN /\ (missed => missed')
         /\ ~missed' => injected' \subseteq {"warnings"}
<1>1. /\ injected' = injected \ Undoes(k) /\ flags' = flags \ Undoes(k)
      /\ missed' = (missed \/ k < 4)
  BY DEF RestoreAll
<1>2. /\ injected \subseteq Flagged \cup {"size", "warnings"} /\ injected \cap Flagged = flags
      /\ missed \in BOOLEAN
  BY DEF FlowInv, RouteTyped, PutBackOrRecorded
<1>3. missed' \in BOOLEAN /\ (missed => missed') /\ (~missed' => ~(k < 4))
  BY <1>1, <1>2, Zenon
<1>4. ~(k < 4) => k = 4
  BY SMT
<1>5. ASSUME k = 4
      PROVE  injected' \subseteq {"warnings"}
  <2>1. /\ "network" \in flags => "network" \in Undoes(k)
        /\ {"clock", "fetch"} \cap flags # {} => {"clock", "fetch"} \subseteq Undoes(k)
        /\ "size" \in Undoes(k)
    BY <1>5, SMT DEF Undoes
  <2>2. ASSUME NEW f \in Flagged
        PROVE  f \notin injected'
    <3>1. f \in injected => f \in flags
      BY <1>2
    <3>2. f \in {"clock", "fetch", "network"}
      BY DEF Flagged
    <3>3. f \in flags => f \in Undoes(k)
      BY <2>1, <3>2
    <3> QED
      BY <1>1, <3>1, <3>3
  <2> QED
    BY <2>1, <2>2, <1>1, <1>2
<1> QED
  BY <1>1, <1>2, <1>3, <1>4, <1>5

LEMMA RestoreInStepKeeps == FlowInv /\ RestoreInStep => FlowInv'
<1> SUFFICES ASSUME FlowInv, RestoreInStep PROVE FlowInv'
  OBVIOUS
<1>1. PICK k \in 0 .. 4 : RestoreAll(k)
  BY DEF RestoreInStep
<1>2. /\ InStep /\ Op = "restore" /\ opNo' = opNo + 1
      /\ UNCHANGED <<stage, running, stopAt, stepNo, failedHere, stopped, ran, verdict>>
  BY DEF RestoreInStep
<1>3. /\ injected' \subseteq injected /\ injected' \cap Flagged = flags'
      /\ missed' \in BOOLEAN /\ (missed => missed')
  BY <1>1, RestoreKeeps
<1>4. injected \subseteq Flagged \cup {"size", "warnings"} /\ failedHere \in BOOLEAN
      /\ (failedHere => missed)
  BY DEF FlowInv, RouteTyped, StepsInOrder
<1>5. failedHere' \in BOOLEAN /\ (failedHere' => missed')
  BY <1>2, <1>3, <1>4, Zenon
<1> QED
  BY <1>2, <1>3, <1>4, <1>5, OperationKeeps

LEMMA FinallyKeeps == FlowInv /\ Finally => FlowInv'
<1> SUFFICES ASSUME FlowInv, Finally PROVE FlowInv'
  OBVIOUS
<1>1. PICK k \in 0 .. 4 : RestoreAll(k)
  BY DEF Finally
<1>2. /\ stage = "running" /\ (stopped \/ stepNo > Len(STEPS)) /\ stage' = "returned"
      /\ UNCHANGED <<running, stopAt, stepNo, opNo, failedHere, stopped, ran, verdict>>
  BY DEF Finally
<1>3. /\ injected' \subseteq injected /\ injected' \cap Flagged = flags'
      /\ missed' \in BOOLEAN /\ (missed => missed')
      /\ ~missed' => injected' \subseteq {"warnings"}
  BY <1>1, RestoreKeeps
<1>4. ~TakenBack
  <2>1. stepNo \in Nat /\ Len(STEPS) = 10
    BY StepsPutBack, SMT DEF FlowInv, RouteTyped
  <2> QED
    BY <1>2, <2>1, SMT DEF TakenBack
<1>5. ~missed' => injected' = {}
  <2>1. "warnings" \in injected => missed
    BY <1>2, <1>4 DEF FlowInv, PutBackOrRecorded
  <2> QED
    BY <1>3, <2>1
<1>6. RouteTyped'
  BY <1>2, <1>3 DEF FlowInv, RouteTyped
<1>7. PutBackOrRecorded'
  BY <1>2, <1>3, <1>5 DEF PutBackOrRecorded
<1>8. StepsInOrder'
  <2>1. missed => missed'
    BY <1>3
  <2> QED
    BY <1>2, <2>1 DEF FlowInv, StepsInOrder
<1>9. PassEarned'
  BY <1>2 DEF FlowInv, PassEarned
<1> QED
  BY <1>6, <1>7, <1>8, <1>9 DEF FlowInv

LEMMA CloseKeeps ==
  ASSUME FlowInv, NEW problems \in BOOLEAN, Close(problems)
  PROVE  FlowInv'
<1>1. /\ stage = "returned" /\ stage' = "closed" /\ running' = {}
      /\ missed' = (missed \/ problems)
      /\ verdict' = IF missed \/ problems \/ stopAt # "" THEN "fail" ELSE "pass"
      /\ UNCHANGED <<stopAt, stepNo, opNo, failedHere, stopped, flags, injected, ran>>
  BY DEF Close, Verdict
<1>2. missed' \in BOOLEAN /\ (missed => missed')
      /\ (verdict' = "pass" => ~missed' /\ stopAt = "")
  <2>1. missed \in BOOLEAN
    BY DEF FlowInv, RouteTyped
  <2>2. missed' \in BOOLEAN /\ (missed => missed')
    BY <1>1, <2>1, Zenon
  <2>3. "fail" # "pass"
    OBVIOUS
  <2>4. verdict' = "pass" => ~(missed \/ problems \/ stopAt # "")
    BY <1>1, <2>3, Zenon
  <2> QED
    BY <1>1, <2>2, <2>4, Zenon
<1>3. RouteTyped'
  BY <1>1, <1>2 DEF FlowInv, RouteTyped
<1>4. PutBackOrRecorded'
  <2>1. /\ stage = "returned" /\ stage' = "closed" /\ (missed => missed')
        /\ injected' = injected /\ flags' = flags
    BY <1>1, <1>2
  <2> QED
    BY <2>1 DEF FlowInv, PutBackOrRecorded
<1>5. StepsInOrder' /\ PassEarned'
  <2>1. /\ stage = "returned" /\ stage' = "closed" /\ running' = {}
        /\ (missed => missed') /\ (verdict' = "pass" => ~missed' /\ stopAt = "")
        /\ UNCHANGED <<stopAt, stepNo, failedHere, stopped, ran>>
    BY <1>1, <1>2
  <2> QED
    BY <2>1 DEF FlowInv, StepsInOrder, PassEarned
<1> QED
  BY <1>3, <1>4, <1>5 DEF FlowInv

\* Start, Attach and Refuse before the route, CloseThrows and LoseBrowser after it.
LEMMA ProcessKeeps ==
  ASSUME FlowInv, Start \/ Attach \/ Refuse \/ CloseThrows \/ LoseBrowser
  PROVE  FlowInv'
<1>1. CASE Start
  BY <1>1 DEF Start, route, FlowInv, RouteTyped, PutBackOrRecorded, StepsInOrder, PassEarned, TakenBack
<1>2. CASE Attach
  BY <1>2 DEF Attach, route, FlowInv, RouteTyped, PutBackOrRecorded, StepsInOrder, PassEarned, TakenBack
<1>3. CASE Refuse
  BY <1>3 DEF Refuse, route, FlowInv, RouteTyped, PutBackOrRecorded, StepsInOrder, PassEarned, TakenBack
<1>4. CASE CloseThrows
  BY <1>4 DEF CloseThrows, route, FlowInv, RouteTyped, PutBackOrRecorded, StepsInOrder, PassEarned, TakenBack
<1>5. CASE LoseBrowser
  BY <1>5 DEF LoseBrowser, route, FlowInv, RouteTyped, PutBackOrRecorded, StepsInOrder, PassEarned, TakenBack
<1> QED
  BY <1>1, <1>2, <1>3, <1>4, <1>5

THEOREM FlowInvAlways == FlowSpec => []FlowInv
<1>1. ASSUME FlowInv, UNCHANGED flowVars
      PROVE  FlowInv'
  BY <1>1 DEF flowVars, FlowInv, RouteTyped, PutBackOrRecorded, StepsInOrder, PassEarned, TakenBack
<1>2. FlowInv /\ [FlowNext]_flowVars => FlowInv'
  BY <1>1, ProcessKeeps, DoKeeps, OthersKeep, ThrowKeeps, NextStepKeeps, RestoreInStepKeeps,
     FinallyKeeps, CloseKeeps DEF FlowNext
<1> QED
  BY <1>2, FlowStarts, PTL DEF FlowSpec

\* A pass of the route is the whole route, and what the page was put under and not put
\* back is a recorded failure: scripts/ui-flow.ts.
THEOREM PassIsWholeAlways == FlowSpec => []PassIsWhole
<1>1. ASSUME FlowInv
      PROVE  PassIsWhole
  <2>1. /\ DOMAIN STEPS = 1 .. 10 /\ Len(STEPS) = 10 /\ stepNo \in 1 .. 11
    BY <1>1, StepsPutBack DEF FlowInv, RouteTyped
  <2>2. ASSUME verdict = "pass"
        PROVE  ran = DOMAIN STEPS /\ ~missed /\ stopAt = "" /\ injected = {} /\ running = {}
    <3>1. stage = "closed" /\ running = {} /\ ~missed /\ stopAt = "" /\ (stopped \/ stepNo > Len(STEPS))
      BY <1>1, <2>2 DEF FlowInv, PassEarned
    <3>2. ~stopped /\ stepNo > Len(STEPS)
      BY <1>1, <3>1 DEF FlowInv, StepsInOrder
    <3>3. stepNo - 1 = 10
      BY <2>1, <3>2, SMT
    <3>4. ran = 1 .. stepNo - 1
      BY <1>1, <3>2 DEF FlowInv, StepsInOrder
    <3>5. injected = {}
      BY <1>1, <3>1 DEF FlowInv, PutBackOrRecorded
    <3> QED
      BY <2>1, <3>1, <3>3, <3>4, <3>5
  <2> QED
    BY <1>1, <2>2 DEF FlowInv, PutBackOrRecorded, StepsInOrder, PassIsWhole
<1>2. FlowInv => PassIsWhole
  BY <1>1
<1> QED
  BY <1>2, FlowInvAlways, PTL
=============================================================================

-------------------------- MODULE SchedulerProofs --------------------------
(***************************************************************************)
(* What the scheduler guarantees for every number of accounts, endpoints,  *)
(* credentials and concurrent collects, and every choice of waiting times. *)
(***************************************************************************)
EXTENDS Scheduler, TLAPS

-----------------------------------------------------------------------------
(* The waits.                                                              *)

LEMMA GrowthBounded ==
  ASSUME NEW n \in Nat
  PROVE  Growth(n) \in Nat /\ Growth(n) >= Poll /\ Growth(n) <= MaxBackoff
<1>1. CASE n \in 1 .. 4
  BY <1>1, PollAssumption, MaxBackoffAssumption DEF Growth, Smaller, Doublings
<1>2. CASE n \notin 1 .. 4
  BY <1>2, PollAssumption, MaxBackoffAssumption DEF Growth, Doublings
<1> QED BY <1>1, <1>2

LEMMA BackoffWaitType ==
  ASSUME NEW n \in Nat, NEW floor \in Nat
  PROVE  /\ BackoffWait(n, floor) \in Nat
         /\ BackoffWait(n, floor) <= MaxBackoff \/ BackoffWait(n, floor) = floor
BY GrowthBounded DEF BackoffWait, Larger

LEMMA MoreType ==
  ASSUME NEW n \in 0 .. MaxFailures
  PROVE  More(n) \in 0 .. MaxFailures /\ More(n) >= n
BY MaxFailuresAssumption DEF More, Smaller

LEMMA ElapseType ==
  /\ \A s \in Schedule : Elapse(s) \in Schedule
  /\ \A o \in Outcome \cup {NoOutcome} : Elapse(o) \in Outcome \cup {NoOutcome}
<1>1. \A s \in Schedule : Elapse(s) \in Schedule
  BY DEF Schedule, Elapse, Larger
<1>2. \A o \in Outcome : Elapse(o) \in Outcome
  BY DEF Outcome, Elapse, Larger
<1>3. Elapse(NoOutcome) = NoOutcome
  BY DEF NoOutcome, Elapse, Larger
<1> QED BY <1>1, <1>2, <1>3

LEMMA DueType == Due \in Schedule
BY MaxFailuresAssumption DEF Due, Schedule

LEMMA LandedType == Landed \in Flight
BY MaxFailuresAssumption DEF Landed, Flight

LEMMA KeyName == \A k \in Key : NameOf(k) \in Name
BY DEF Key, Name, NameOf

-----------------------------------------------------------------------------
(* Type correctness.                                                       *)

LEMMA InitTypeOK == Init => TypeOK
BY DueType, LandedType, BoundsAssumption DEF Init, TypeOK, Sort

LEMMA FlightUpdateType ==
  ASSUME NEW c \in Collector, NEW k \in Key, NEW r \in Flight, TypeOK
  PROVE  [flight EXCEPT ![c][k] = r] \in [Collector -> [Key -> Flight]]
BY DEF TypeOK

LEMMA LandsType ==
  ASSUME NEW c \in Collector, NEW k \in Key, NEW rows \in SUBSET Sort, TypeOK,
         Lands(c, k, rows)
  PROVE  flight' \in [Collector -> [Key -> Flight]]
<1>1. [[flight[c][k] EXCEPT !.at = "done"] EXCEPT !.rows = rows] \in Flight
  <2>1. flight[c][k] \in Flight
    BY DEF TypeOK
  <2> QED BY <2>1 DEF Flight
<1>2. flight' = [flight EXCEPT ![c][k] = [[flight[c][k] EXCEPT !.at = "done"] EXCEPT !.rows = rows]]
  BY DEF Lands, TypeOK
<1> QED BY <1>1, <1>2, FlightUpdateType

LEMMA FailureRowsType == \A k \in Key : FailureRows(k) \in SUBSET Sort
BY DEF FailureRows, Sort

LEMMA OutcomesType == TypeOK => Outcomes \in [Key -> Outcome \cup {NoOutcome}]
BY DEF TypeOK, Outcomes, Outcome, Schedule, Status

LEMMA CollectTypeOK ==
  ASSUME TypeOK, NEW c \in Collector, CollectStep(c)
  PROVE  TypeOK'
<1> USE DEF TypeOK, shared, world
<1>1. CASE BeginCollect(c)
  BY <1>1 DEF BeginCollect
<1>2. CASE Visit(c)
  <2>1. PICK k \in todo[c] :
          LET prior == restored[NameOf(k)]
              takes == prior # NoOutcome /\ outcome[k] = "none"
          IN  /\ todo' = [todo EXCEPT ![c] = @ \ {k}]
              /\ cur' = [cur EXCEPT ![c] = {k}]
              /\ restored' = [restored EXCEPT ![NameOf(k)] = NoOutcome]
              /\ outcome' = IF takes THEN [outcome EXCEPT ![k] = prior.status] ELSE outcome
              /\ cool' = IF takes /\ Seeds(prior)
                           THEN [cool EXCEPT ![k] = [left |-> prior.left,
                                                     failures |-> prior.failures]]
                           ELSE cool
    BY <1>2 DEF Visit
  <2>2. k \in Key /\ NameOf(k) \in Name
    BY KeyName
  <2> DEFINE prior == restored[NameOf(k)]
  <2>3. prior # NoOutcome => /\ prior.status \in Status
                             /\ [left |-> prior.left, failures |-> prior.failures] \in Schedule
    BY <2>2 DEF Outcome, Schedule
  <2>4. cool' \in [Key -> Schedule] /\ outcome' \in [Key -> Status \cup {"none"}]
    BY <2>1, <2>2, <2>3
  <2>5. todo' \in [Collector -> SUBSET Key] /\ cur' \in [Collector -> {{}} \cup {{x} : x \in Key}]
    BY <2>1, <2>2
  <2>6. restored' \in [Name -> Outcome \cup {NoOutcome}]
    BY <2>1, <2>2
  <2> QED BY <1>2, <2>4, <2>5, <2>6 DEF Visit
<1>3. CASE Refuse(c)
  BY <1>3 DEF Refuse
<1>4. CASE Begin(c)
  BY <1>4 DEF Begin
<1>5. CASE Acquire(c)
  <2>1. PICK k \in cur[c] : flight' = [flight EXCEPT ![c][k] = [Landed EXCEPT !.at = "started"]]
    BY <1>5 DEF Acquire
  <2>2. [Landed EXCEPT !.at = "started"] \in Flight
    BY LandedType DEF Flight, Landed
  <2>3. flight' \in [Collector -> [Key -> Flight]]
    BY <2>1, <2>2, FlightUpdateType
  <2> QED BY <1>5, <2>3 DEF Acquire
<1>6. CASE Return(c)
  BY <1>6 DEF Return
<1>7. CASE Persist(c)
  BY <1>7, OutcomesType DEF Persist
<1> QED BY <1>1, <1>2, <1>3, <1>4, <1>5, <1>6, <1>7 DEF CollectStep

LEMMA FlightTypeOK ==
  ASSUME TypeOK, NEW c \in Collector, NEW k \in Key, FlightStep(c, k)
  PROVE  TypeOK'
<1>1. CASE Decline(c, k)
  <2>1. [flight[c][k] EXCEPT !.at = "done"] \in Flight
    <3>1. flight[c][k] \in Flight
      BY DEF TypeOK
    <3> QED BY <3>1 DEF Flight
  <2>2. flight' \in [Collector -> [Key -> Flight]]
    BY <1>1, <2>1, FlightUpdateType DEF Decline, TypeOK
  <2> QED BY <1>1, <2>2 DEF Decline, TypeOK, shared, local, world
<1>2. CASE Send(c, k)
  <2>1. /\ [at |-> "sent", failures |-> cool[k].failures, rows |-> {}] \in Flight
        /\ Held(cool[k].failures) \in Schedule
    BY PollAssumption DEF TypeOK, Flight, Schedule, Held
  <2>2. flight' \in [Collector -> [Key -> Flight]]
    BY <1>2, <2>1, FlightUpdateType DEF Send
  <2> QED BY <1>2, <2>1, <2>2 DEF Send, TypeOK, local, world
<1>3. CASE Succeed(c, k)
  <2>1. Success(flight[c][k].failures) \in Schedule
    BY PollAssumption, MaxFailuresAssumption DEF Success, Schedule
  <2>2. flight' \in [Collector -> [Key -> Flight]]
    BY <1>3, LandsType DEF Succeed, Sort
  <2> QED BY <1>3, <2>1, <2>2 DEF Succeed, TypeOK, local, world, Status
<1>4. ASSUME NEW floor \in Nat, BackOff(c, k, floor)
      PROVE  TypeOK'
  <2>1. More(flight[c][k].failures) \in 0 .. MaxFailures
    BY MoreType DEF TypeOK, Flight
  <2>2. [left |-> BackoffWait(More(flight[c][k].failures), floor),
         failures |-> More(flight[c][k].failures)] \in Schedule
    <3>1. More(flight[c][k].failures) \in Nat
      BY <2>1, MaxFailuresAssumption
    <3>2. BackoffWait(More(flight[c][k].failures), floor) \in Nat
      BY <3>1, BackoffWaitType
    <3> QED BY <2>1, <3>2 DEF Schedule
  <2>3. flight' \in [Collector -> [Key -> Flight]]
    BY <1>4, LandsType, FailureRowsType DEF BackOff
  <2> QED BY <1>4, <2>2, <2>3 DEF BackOff, TypeOK, local, world, Status
<1>5. CASE Fail(c, k)
  BY <1>4, <1>5 DEF Fail
<1>6. CASE BeLimited(c, k)
  BY <1>4, <1>6, RetryAfterAssumption, PollAssumption DEF BeLimited, RetryAfterWait, Larger
<1>7. CASE BeRefused(c, k)
  BY <1>4, <1>7, AuthCooldownAssumption DEF BeRefused
<1>8. CASE BeUnusable(c, k)
  <2>1. flight' \in [Collector -> [Key -> Flight]]
    BY <1>8, LandsType, FailureRowsType DEF BeUnusable
  <2> QED BY <1>8, <2>1 DEF BeUnusable, TypeOK, local, world, Status
<1>9. CASE End(c, k)
  <2>1. flight' \in [Collector -> [Key -> Flight]]
    BY <1>9, LandedType, FlightUpdateType DEF End
  <2>2. flight[c][k].rows \in SUBSET Sort
    BY DEF TypeOK, Flight
  <2> QED BY <1>9, <2>1, <2>2 DEF End, TypeOK, local, world
<1> QED BY <1>1, <1>2, <1>3, <1>5, <1>6, <1>7, <1>8, <1>9 DEF FlightStep, Reply

LEMMA WorldTypeOK ==
  ASSUME TypeOK, Tick \/ (\E a \in Account : Replace(a)) \/ Restart
  PROVE  TypeOK'
<1>1. CASE Tick
  BY <1>1, ElapseType DEF Tick, TypeOK, local
<1>2. ASSUME NEW a \in Account, Replace(a)
      PROVE  TypeOK'
  <2>1. binding' \in [Account -> Cred \cup {NoCred}]
    BY <1>2 DEF Replace, TypeOK
  <2>2. replaced' \in 0 .. MaxReplaces
    BY <1>2, BoundsAssumption DEF Replace, TypeOK
  <2> QED BY <1>2, <2>1, <2>2 DEF Replace, TypeOK, shared, local
<1>3. CASE Restart
  <2>1. PICK last \in [Name -> Cred] :
          restored' = [n \in Name |-> saved[<<n[1], n[2], last[n]>>]]
    BY <1>3 DEF Restart
  <2>2. \A n \in Name : <<n[1], n[2], last[n]>> \in Key
    BY DEF Name, Key
  <2>3. restored' \in [Name -> Outcome \cup {NoOutcome}]
    BY <2>1, <2>2 DEF TypeOK
  <2> QED BY <1>3, <2>3, DueType, LandedType, BoundsAssumption DEF Restart, TypeOK, Sort
<1> QED BY <1>1, <1>2, <1>3

\* Every variable keeps its type, whatever the constants: statuses, waits and
\* failure counts stay in range however reads, restarts and replacements mix.
THEOREM TypeCorrect == Spec => []TypeOK
<1>1. TypeOK /\ [Next]_vars => TypeOK'
  <2> SUFFICES ASSUME TypeOK, [Next]_vars PROVE TypeOK'
    OBVIOUS
  <2>1. CASE UNCHANGED vars
    BY <2>1 DEF vars, TypeOK
  <2>2. CASE Next
    BY <2>2, CollectTypeOK, FlightTypeOK, WorldTypeOK DEF Next
  <2> QED BY <2>1, <2>2
<1> QED BY <1>1, InitTypeOK, PTL DEF Spec

-----------------------------------------------------------------------------
(* Single flight.                                                          *)

\* Steps that leave every claim on a key as it was.
SameClaims ==
  /\ inflight' = inflight
  /\ \A c \in Collector : Acquiring(c)' = Acquiring(c) /\ Flying(c)' = Flying(c)

LEMMA SameClaimsExact == InFlightExact /\ SameClaims => InFlightExact'
BY DEF InFlightExact, SameClaims

LEMMA QuietCollect ==
  ASSUME TypeOK, NEW c \in Collector,
         BeginCollect(c) \/ Visit(c) \/ Refuse(c) \/ Return(c) \/ Persist(c)
  PROVE  SameClaims
<1>1. /\ flight' = flight /\ inflight' = inflight
      /\ pc[c] # "acquire" /\ pc'[c] # "acquire"
      /\ \A d \in Collector \ {c} : pc'[d] = pc[d] /\ cur'[d] = cur[d]
  <2>1. CASE BeginCollect(c) BY <2>1 DEF BeginCollect, TypeOK, shared
  <2>2. CASE Visit(c)        BY <2>2 DEF Visit, TypeOK
  <2>3. CASE Refuse(c)       BY <2>3 DEF Refuse, TypeOK, shared
  <2>4. CASE Return(c)       BY <2>4 DEF Return, TypeOK, shared
  <2>5. CASE Persist(c)      BY <2>5 DEF Persist, TypeOK, shared
  <2> QED BY <2>1, <2>2, <2>3, <2>4, <2>5
<1>2. \A d \in Collector : Acquiring(d)' = Acquiring(d)
  BY <1>1 DEF Acquiring
<1>3. \A d \in Collector : Flying(d)' = Flying(d)
  BY <1>1 DEF Flying
<1> QED BY <1>1, <1>2, <1>3 DEF SameClaims

LEMMA QuietFlight ==
  ASSUME TypeOK, NEW c \in Collector, NEW k \in Key,
         Decline(c, k) \/ Send(c, k) \/ Reply(c, k)
  PROVE  /\ SameClaims
         /\ UNCHANGED <<pc, cur, restored>>
         /\ k \in Flying(c)
         /\ \A d \in Collector, x \in Key : <<d, x>> # <<c, k>> => flight'[d][x] = flight[d][x]
         /\ flight'[c][k].at \in {"sent", "done"}
<1>1. /\ UNCHANGED <<inflight, pc, cur, restored>>
      /\ flight[c][k].at \in {"started", "sent"}
      /\ \A d \in Collector, x \in Key : <<d, x>> # <<c, k>> => flight'[d][x] = flight[d][x]
      /\ flight'[c][k].at \in {"sent", "done"}
  <2>0. flight \in [Collector -> [Key -> Flight]] /\ flight[c][k] \in Flight
    BY DEF TypeOK
  <2> USE DEF local, world, shared
  <2>1. CASE Decline(c, k)    BY <2>0, <2>1 DEF Decline, Flight
  <2>2. CASE Send(c, k)       BY <2>0, <2>2 DEF Send
  <2>3. CASE Succeed(c, k)    BY <2>0, <2>3 DEF Succeed, Lands, Flight
  <2>4. ASSUME NEW floor, BackOff(c, k, floor)
        PROVE  <1>1!1 /\ <1>1!2 /\ <1>1!3 /\ <1>1!4
    BY <2>0, <2>4 DEF BackOff, Lands, Flight
  <2>5. CASE Fail(c, k)       BY <2>4, <2>5 DEF Fail
  <2>6. CASE BeLimited(c, k)  BY <2>4, <2>6 DEF BeLimited
  <2>7. CASE BeRefused(c, k)  BY <2>4, <2>7 DEF BeRefused
  <2>8. CASE BeUnusable(c, k) BY <2>0, <2>8 DEF BeUnusable, Lands, Flight
  <2> QED BY <2>1, <2>2, <2>3, <2>5, <2>6, <2>7, <2>8 DEF Reply
<1>2. \A d \in Collector, x \in Key : flight'[d][x].at # "idle" <=> flight[d][x].at # "idle"
  BY <1>1
<1>3. \A d \in Collector : Flying(d)' = Flying(d)
  BY <1>2 DEF Flying
<1>4. \A d \in Collector : Acquiring(d)' = Acquiring(d)
  BY <1>1 DEF Acquiring
<1>5. k \in Flying(c)
  BY <1>1 DEF Flying
<1> QED BY <1>1, <1>3, <1>4, <1>5 DEF SameClaims

LEMMA BeginExact ==
  ASSUME TypeOK, InFlightExact, NEW c \in Collector, Begin(c)
  PROVE  /\ InFlightExact'
         /\ \E k \in Key : /\ cur[c] = {k} /\ cool[k].left = 0
                          /\ Acquiring(c)' = {k}
         /\ \A d \in Collector \ {c} : Acquiring(d)' = Acquiring(d)
         /\ UNCHANGED <<flight, cur, restored, cool, outcome>>
<1>1. PICK k \in cur[c] : CanBegin(k) /\ inflight' = inflight \cup {k}
  BY DEF Begin
<1>2. k \in Key /\ cur[c] = {k}
  BY DEF TypeOK
<1>3. /\ Acquiring(c) = {} /\ Acquiring(c)' = {k}
      /\ \A d \in Collector \ {c} : Acquiring(d)' = Acquiring(d)
  BY <1>2 DEF Begin, Acquiring, TypeOK
<1>4. \A d \in Collector : Flying(d)' = Flying(d)
  BY DEF Begin, Flying
<1>5. \A d \in Collector : k \notin Acquiring(d) \cup Flying(d)
  BY <1>1, <1>2 DEF CanBegin, InFlightExact
<1>6. InFlightExact'
  BY <1>1, <1>2, <1>3, <1>4, <1>5 DEF InFlightExact
<1> QED BY <1>1, <1>2, <1>3, <1>6 DEF CanBegin, Begin

LEMMA AcquireExact ==
  ASSUME TypeOK, InFlightExact, NEW c \in Collector, Acquire(c)
  PROVE  /\ InFlightExact'
         /\ \E k \in Key : /\ cur[c] = {k} /\ Acquiring(c) = {k}
                          /\ flight' = [flight EXCEPT ![c][k] = [Landed EXCEPT !.at = "started"]]
                          /\ Flying(c)' = Flying(c) \cup {k}
         /\ Acquiring(c)' = {}
         /\ cur'[c] = {}
         /\ \A d \in Collector \ {c} : /\ Acquiring(d)' = Acquiring(d) /\ Flying(d)' = Flying(d)
                                      /\ cur'[d] = cur[d]
         /\ UNCHANGED <<inflight, restored, cool, outcome>>
<1>1. PICK k \in cur[c] : flight' = [flight EXCEPT ![c][k] = [Landed EXCEPT !.at = "started"]]
  BY DEF Acquire
<1>2. k \in Key /\ cur[c] = {k} /\ Acquiring(c) = {k}
  BY DEF TypeOK, Acquire, Acquiring
<1>3. /\ Acquiring(c)' = {} /\ cur'[c] = {}
      /\ \A d \in Collector \ {c} : Acquiring(d)' = Acquiring(d) /\ cur'[d] = cur[d]
  BY DEF Acquire, Acquiring, TypeOK
<1>4. /\ \A d \in Collector, x \in Key : <<d, x>> # <<c, k>> => flight'[d][x] = flight[d][x]
      /\ flight'[c][k].at = "started"
  BY <1>1, <1>2 DEF TypeOK, Landed
<1>5. Flying(c)' = Flying(c) \cup {k} /\ \A d \in Collector \ {c} : Flying(d)' = Flying(d)
  BY <1>2, <1>4 DEF Flying
<1>6. UNCHANGED <<inflight, restored, cool, outcome>>
  BY DEF Acquire, shared
<1>7. InFlightExact'
  BY <1>2, <1>3, <1>5, <1>6 DEF InFlightExact
<1> QED BY <1>1, <1>2, <1>3, <1>5, <1>6, <1>7

LEMMA EndExact ==
  ASSUME TypeOK, InFlightExact, NEW c \in Collector, NEW k \in Key, End(c, k)
  PROVE  /\ InFlightExact'
         /\ \A d \in Collector : Acquiring(d)' = Acquiring(d) /\ Flying(d)' \subseteq Flying(d)
         /\ \A d \in Collector, x \in Key : <<d, x>> # <<c, k>> => flight'[d][x] = flight[d][x]
         /\ flight'[c][k].at = "idle"
         /\ UNCHANGED <<cur, restored, cool, outcome>>
<1>1. /\ \A d \in Collector, x \in Key : <<d, x>> # <<c, k>> => flight'[d][x] = flight[d][x]
      /\ flight'[c][k].at = "idle" /\ flight[c][k].at = "done"
      /\ inflight' = inflight \ {k}
      /\ UNCHANGED <<pc, cur, restored, cool, outcome>>
  BY DEF End, TypeOK, Landed, local
<1>2. /\ k \in Flying(c) /\ Flying(c)' = Flying(c) \ {k}
      /\ \A d \in Collector \ {c} : Flying(d)' = Flying(d)
  BY <1>1 DEF Flying
<1>3. \A d \in Collector : Acquiring(d)' = Acquiring(d)
  BY <1>1 DEF Acquiring
<1>4. InFlightExact'
  BY <1>1, <1>2, <1>3 DEF InFlightExact
<1> QED BY <1>1, <1>2, <1>3, <1>4

LEMMA WorldExact ==
  ASSUME TypeOK, InFlightExact
  PROVE  /\ Tick => /\ SameClaims /\ UNCHANGED <<flight, cur>>
                    /\ cool' = [k \in Key |-> Elapse(cool[k])]
         /\ \A a \in Account : Replace(a) => SameClaims /\ UNCHANGED <<flight, cur, shared, saved>>
         /\ Restart => /\ InFlightExact'
                       /\ \A d \in Collector : Acquiring(d)' = {} /\ Flying(d)' = {} /\ cur'[d] = {}
                       /\ \A d \in Collector, k \in Key : flight'[d][k].at = "idle"
<1>1. ASSUME Tick PROVE SameClaims /\ UNCHANGED <<flight, cur>>
  BY <1>1 DEF Tick, SameClaims, Acquiring, Flying, local
<1>2. ASSUME NEW a \in Account, Replace(a)
      PROVE  SameClaims /\ UNCHANGED <<flight, cur, shared, saved>>
  BY <1>2 DEF Replace, SameClaims, Acquiring, Flying, local, shared
<1>3. ASSUME Restart
      PROVE  /\ InFlightExact'
             /\ \A d \in Collector : Acquiring(d)' = {} /\ Flying(d)' = {} /\ cur'[d] = {}
             /\ \A d \in Collector, k \in Key : flight'[d][k].at = "idle"
  <2>1. \A d \in Collector : Acquiring(d)' = {} /\ Flying(d)' = {} /\ cur'[d] = {}
    BY <1>3 DEF Restart, Acquiring, Flying, Landed
  <2>2. InFlightExact'
    BY <1>3, <2>1 DEF Restart, InFlightExact
  <2> QED BY <1>3, <2>1, <2>2 DEF Restart, Landed
<1> QED BY <1>1, <1>2, <1>3 DEF Tick

LEMMA InFlightExactStep == TypeOK /\ InFlightExact /\ [Next]_vars => InFlightExact'
<1> SUFFICES ASSUME TypeOK, InFlightExact, [Next]_vars PROVE InFlightExact'
  OBVIOUS
<1>1. ASSUME NEW c \in Collector, CollectStep(c) PROVE InFlightExact'
  BY <1>1, QuietCollect, SameClaimsExact, BeginExact, AcquireExact DEF CollectStep
<1>2. ASSUME NEW c \in Collector, NEW k \in Key, FlightStep(c, k) PROVE InFlightExact'
  BY <1>2, QuietFlight, SameClaimsExact, EndExact DEF FlightStep
<1>3. CASE Tick \/ (\E a \in Account : Replace(a)) \/ Restart
  BY <1>3, WorldExact, SameClaimsExact
<1>4. CASE UNCHANGED vars
  BY <1>4 DEF vars, InFlightExact, Acquiring, Flying
<1> QED BY <1>1, <1>2, <1>3, <1>4 DEF Next

\* No key is ever read twice at once, and none stays marked in flight after its
\* read ended, for any number of concurrent collects (tryBegin and end).
THEOREM SingleFlight == Spec => []InFlightExact
<1>1. Init => InFlightExact
  BY DEF Init, InFlightExact, Acquiring, Flying, Landed
<1> QED BY <1>1, InFlightExactStep, TypeCorrect, PTL DEF Spec

-----------------------------------------------------------------------------
(* Restored outcomes are used once.                                        *)

LEMMA VisitFacts ==
  ASSUME TypeOK, NEW c \in Collector, Visit(c)
  PROVE  \E k \in Key :
           /\ cur'[c] = {k}
           /\ \A d \in Collector \ {c} : cur'[d] = cur[d]
           /\ restored' = [restored EXCEPT ![NameOf(k)] = NoOutcome]
           /\ UNCHANGED <<flight, inflight, latest, lastGood>>
           /\ \A x \in Key \ {k} : cool'[x] = cool[x] /\ outcome'[x] = outcome[x]
           /\ \/ cool'[k] = cool[k] /\ outcome'[k] = outcome[k]
              \/ /\ restored[NameOf(k)] # NoOutcome
                 /\ outcome[k] = "none" /\ outcome'[k] \in Status
<1>1. PICK k \in todo[c] :
        LET prior == restored[NameOf(k)]
            takes == prior # NoOutcome /\ outcome[k] = "none"
        IN  /\ todo' = [todo EXCEPT ![c] = @ \ {k}]
            /\ cur' = [cur EXCEPT ![c] = {k}]
            /\ restored' = [restored EXCEPT ![NameOf(k)] = NoOutcome]
            /\ outcome' = IF takes THEN [outcome EXCEPT ![k] = prior.status] ELSE outcome
            /\ cool' = IF takes /\ Seeds(prior)
                         THEN [cool EXCEPT ![k] = [left |-> prior.left,
                                                   failures |-> prior.failures]]
                         ELSE cool
  BY DEF Visit
<1>2. k \in Key /\ NameOf(k) \in Name
  BY KeyName DEF TypeOK
<1>3. restored[NameOf(k)] # NoOutcome => restored[NameOf(k)].status \in Status
  BY <1>2 DEF TypeOK, Outcome
<1>4. UNCHANGED <<flight, inflight, latest, lastGood>>
  BY DEF Visit
<1>5. /\ cur'[c] = {k}
      /\ \A d \in Collector \ {c} : cur'[d] = cur[d]
      /\ \A x \in Key \ {k} : cool'[x] = cool[x] /\ outcome'[x] = outcome[x]
  BY <1>1, <1>2 DEF TypeOK
<1>6. \/ cool'[k] = cool[k] /\ outcome'[k] = outcome[k]
      \/ /\ restored[NameOf(k)] # NoOutcome
         /\ outcome[k] = "none" /\ outcome'[k] \in Status
  <2>1. CASE restored[NameOf(k)] # NoOutcome /\ outcome[k] = "none"
    <3>1. outcome'[k] = restored[NameOf(k)].status
      BY <1>1, <1>2, <2>1 DEF TypeOK
    <3> QED BY <1>3, <2>1, <3>1
  <2>2. CASE ~(restored[NameOf(k)] # NoOutcome /\ outcome[k] = "none")
    BY <1>1, <2>2
  <2> QED BY <2>1, <2>2
<1> QED BY <1>1, <1>2, <1>4, <1>5, <1>6

LEMMA QuietCollectFrame ==
  ASSUME TypeOK, NEW c \in Collector,
         BeginCollect(c) \/ Refuse(c) \/ Return(c) \/ Persist(c)
  PROVE  /\ UNCHANGED <<flight, cool, outcome, restored>>
         /\ \A d \in Collector : cur'[d] \subseteq cur[d]
<1>1. CASE BeginCollect(c) BY <1>1 DEF BeginCollect, shared
<1>2. CASE Refuse(c)       BY <1>2 DEF Refuse, shared, TypeOK
<1>3. CASE Return(c)       BY <1>3 DEF Return, shared
<1>4. CASE Persist(c)      BY <1>4 DEF Persist, shared
<1> QED BY <1>1, <1>2, <1>3, <1>4

LEMMA RestoredOnceStep ==
  TypeOK /\ InFlightExact /\ RestoredOnce /\ [Next]_vars => RestoredOnce'
<1> SUFFICES ASSUME TypeOK, InFlightExact, RestoredOnce, [Next]_vars PROVE RestoredOnce'
  OBVIOUS
<1>0. \A d \in Collector : cur[d] \subseteq Key /\ Flying(d) \subseteq Key
  BY DEF TypeOK, Flying
<1>1. ASSUME NEW c \in Collector, BeginCollect(c) \/ Refuse(c) \/ Return(c) \/ Persist(c)
      PROVE  RestoredOnce'
  BY <1>1, QuietCollect, QuietCollectFrame DEF RestoredOnce, SameClaims
<1>2. ASSUME NEW c \in Collector, Visit(c) PROVE RestoredOnce'
  <2>1. PICK k \in Key : /\ cur'[c] = {k}
                         /\ \A d \in Collector \ {c} : cur'[d] = cur[d]
                         /\ restored' = [restored EXCEPT ![NameOf(k)] = NoOutcome]
    BY <1>2, VisitFacts
  <2>2. \A x \in Key : restored[NameOf(x)] = NoOutcome => restored'[NameOf(x)] = NoOutcome
    BY <2>1, KeyName DEF TypeOK
  <2>3. restored'[NameOf(k)] = NoOutcome
    BY <2>1, KeyName DEF TypeOK
  <2>4. \A d \in Collector : Flying(d)' = Flying(d)
    BY <1>2, QuietCollect DEF SameClaims
  <2> QED BY <1>0, <2>1, <2>2, <2>3, <2>4 DEF RestoredOnce
<1>3. ASSUME NEW c \in Collector, Begin(c) PROVE RestoredOnce'
  BY <1>3, BeginExact DEF RestoredOnce, Flying
<1>4. ASSUME NEW c \in Collector, Acquire(c) PROVE RestoredOnce'
  BY <1>4, AcquireExact DEF RestoredOnce
<1>5. ASSUME NEW c \in Collector, NEW k \in Key, FlightStep(c, k) PROVE RestoredOnce'
  BY <1>5, QuietFlight, EndExact DEF FlightStep, RestoredOnce, SameClaims
<1>6. CASE Tick
  <2>1. \A k \in Key : restored[NameOf(k)] = NoOutcome => restored'[NameOf(k)] = NoOutcome
    BY <1>6, KeyName DEF Tick, Elapse, NoOutcome, Larger
  <2> QED BY <1>0, <1>6, <2>1, WorldExact DEF RestoredOnce, SameClaims
<1>7. CASE \E a \in Account : Replace(a)
  BY <1>7, WorldExact DEF RestoredOnce, SameClaims, shared
<1>8. CASE Restart
  BY <1>8, WorldExact DEF RestoredOnce
<1>9. CASE UNCHANGED vars
  BY <1>9 DEF vars, RestoredOnce, Flying
<1> QED BY <1>1, <1>2, <1>3, <1>4, <1>5, <1>6, <1>7, <1>8, <1>9 DEF Next, CollectStep

-----------------------------------------------------------------------------
(* A read that was let through is still due when its request is sent.      *)

\* A key that is claimed belongs to one collect, and to one place in it.
LEMMA ClaimedOnce ==
  ASSUME InFlightExact, NEW c \in Collector, NEW k \in Key, k \in Flying(c)
  PROVE  /\ \A d \in Collector : k \notin Acquiring(d)
         /\ \A d \in Collector \ {c} : flight[d][k].at = "idle"
BY DEF InFlightExact, Flying

LEMMA AcquiringInCur == \A c \in Collector : Acquiring(c) \subseteq cur[c]
BY DEF Acquiring

LEMMA SendFacts ==
  ASSUME TypeOK, NEW c \in Collector, NEW k \in Key, Send(c, k)
  PROVE  /\ flight'[c][k].at = "sent" /\ flight'[c][k].failures = cool[k].failures
         /\ cool' = [cool EXCEPT ![k] = [left |-> Poll, failures |-> cool[k].failures]]
         /\ outcome' = outcome
BY DEF Send, Held, TypeOK

\* What a reply may do to the schedule and the outcome of its key.
LEMMA ReplyFacts ==
  ASSUME TypeOK, NEW c \in Collector, NEW k \in Key, Reply(c, k)
  PROVE  /\ flight[c][k].at = "sent" /\ flight'[c][k].at = "done"
         /\ \A x \in Key \ {k} : cool'[x] = cool[x] /\ outcome'[x] = outcome[x]
         /\ outcome'[k] \in Status
         /\ \/ outcome'[k] = "ok" /\ cool'[k].left = Poll /\ cool'[k].failures = 0
            \/ cool'[k] = cool[k]
            \/ \E floor \in Nat :
                 /\ floor \in {0, AuthCooldown} \cup {RetryAfterWait(r) : r \in RetryAfter}
                 /\ cool'[k].left = BackoffWait(More(flight[c][k].failures), floor)
                 /\ cool'[k].failures = More(flight[c][k].failures)
<1>0. flight \in [Collector -> [Key -> Flight]] /\ flight[c][k] \in Flight
      /\ cool \in [Key -> Schedule] /\ outcome \in [Key -> Status \cup {"none"}]
  BY DEF TypeOK
<1>1. CASE Succeed(c, k)
  <2>1. cool' = [cool EXCEPT ![k] = Success(flight[c][k].failures)]
    BY <1>1 DEF Succeed
  <2>2. cool'[k].left = Poll /\ cool'[k].failures = 0 /\ \A x \in Key \ {k} : cool'[x] = cool[x]
    BY <1>0, <2>1 DEF Success
  <2>3. outcome'[k] = "ok" /\ \A x \in Key \ {k} : outcome'[x] = outcome[x]
    BY <1>0, <1>1 DEF Succeed
  <2>4. flight[c][k].at = "sent" /\ flight'[c][k].at = "done"
    BY <1>0, <1>1 DEF Succeed, Lands, Flight
  <2> QED BY <2>2, <2>3, <2>4 DEF Status
<1>2. ASSUME NEW floor \in Nat, BackOff(c, k, floor)
      PROVE  /\ flight[c][k].at = "sent" /\ flight'[c][k].at = "done"
             /\ \A x \in Key \ {k} : cool'[x] = cool[x] /\ outcome'[x] = outcome[x]
             /\ outcome'[k] \in Status
             /\ cool'[k].left = BackoffWait(More(flight[c][k].failures), floor)
             /\ cool'[k].failures = More(flight[c][k].failures)
  <2>1. flight[c][k].at = "sent" /\ flight'[c][k].at = "done"
    BY <1>0, <1>2 DEF BackOff, Lands, Flight
  <2>2. cool' = [cool EXCEPT ![k] =
                   [left |-> BackoffWait(More(flight[c][k].failures), floor),
                    failures |-> More(flight[c][k].failures)]]
        /\ outcome' = [outcome EXCEPT ![k] = "error"]
    BY <1>2 DEF BackOff
  <2> QED BY <1>0, <2>1, <2>2 DEF Status
<1>3. CASE Fail(c, k)
  BY <1>2, <1>3 DEF Fail
<1>4. CASE BeLimited(c, k)
  <2>1. PICK asked \in RetryAfter : BackOff(c, k, RetryAfterWait(asked))
    BY <1>4 DEF BeLimited
  <2>2. RetryAfterWait(asked) \in Nat
    BY RetryAfterAssumption, PollAssumption DEF RetryAfterWait, Larger
  <2> QED BY <1>2, <2>1, <2>2
<1>5. CASE BeRefused(c, k)
  BY <1>2, <1>5, AuthCooldownAssumption DEF BeRefused
<1>6. CASE BeUnusable(c, k)
  <2>1. flight[c][k].at = "sent" /\ flight'[c][k].at = "done"
    BY <1>0, <1>6 DEF BeUnusable, Lands, Flight
  <2>2. cool' = cool /\ outcome'[k] = "error" /\ \A x \in Key \ {k} : outcome'[x] = outcome[x]
    BY <1>0, <1>6 DEF BeUnusable
  <2> QED BY <2>1, <2>2 DEF Status
<1> QED BY <1>1, <1>3, <1>4, <1>5, <1>6 DEF Reply

LEMMA DueUntilSentStep ==
  TypeOK /\ InFlightExact /\ RestoredOnce /\ DueUntilSent /\ [Next]_vars => DueUntilSent'
<1> SUFFICES ASSUME TypeOK, InFlightExact, RestoredOnce, DueUntilSent, [Next]_vars
             PROVE  DueUntilSent'
  OBVIOUS
<1>1. ASSUME NEW c \in Collector, BeginCollect(c) \/ Refuse(c) \/ Return(c) \/ Persist(c)
      PROVE  DueUntilSent'
  BY <1>1, QuietCollect, QuietCollectFrame DEF DueUntilSent, SameClaims
<1>2. ASSUME NEW c \in Collector, Visit(c) PROVE DueUntilSent'
  <2>1. PICK k \in Key :
          /\ flight' = flight
          /\ \A x \in Key \ {k} : cool'[x] = cool[x]
          /\ cool'[k] = cool[k] \/ restored[NameOf(k)] # NoOutcome
    BY <1>2, VisitFacts
  <2>2. ASSUME NEW d \in Collector, NEW x \in Key,
               x \in Acquiring(d) \/ flight[d][x].at = "started"
        PROVE  cool'[x] = cool[x]
    <3>1. x \in cur[d] \cup Flying(d)
      BY <2>2, AcquiringInCur DEF Flying
    <3>2. restored[NameOf(x)] = NoOutcome
      BY <3>1 DEF RestoredOnce
    <3> QED BY <2>1, <3>2
  <2>3. \A d \in Collector : Acquiring(d)' = Acquiring(d)
    BY <1>2, QuietCollect DEF SameClaims
  <2> QED BY <2>1, <2>2, <2>3 DEF DueUntilSent
<1>3. ASSUME NEW c \in Collector, Begin(c) PROVE DueUntilSent'
  BY <1>3, BeginExact DEF DueUntilSent
<1>4. ASSUME NEW c \in Collector, Acquire(c) PROVE DueUntilSent'
  <2>1. PICK k \in Key : /\ Acquiring(c) = {k}
                         /\ flight' = [flight EXCEPT ![c][k] = [Landed EXCEPT !.at = "started"]]
    BY <1>4, AcquireExact
  <2>2. \A d \in Collector, x \in Key : <<d, x>> # <<c, k>> => flight'[d][x] = flight[d][x]
    BY <2>1 DEF TypeOK
  <2>3. cool[k].left = 0
    BY <2>1 DEF DueUntilSent
  <2> QED BY <1>4, <2>2, <2>3, AcquireExact DEF DueUntilSent
<1>5. ASSUME NEW c \in Collector, NEW k \in Key, Decline(c, k) PROVE DueUntilSent'
  <2>1. flight'[c][k].at = "done" /\ cool' = cool
    BY <1>5 DEF Decline, TypeOK, shared
  <2> QED BY <1>5, <2>1, QuietFlight DEF DueUntilSent, SameClaims
<1>6. ASSUME NEW c \in Collector, NEW k \in Key, Send(c, k) \/ Reply(c, k)
      PROVE  DueUntilSent'
  <2>1. \A x \in Key \ {k} : cool'[x] = cool[x]
    <3>1. CASE Send(c, k)
      BY <3>1, SendFacts DEF TypeOK
    <3>2. CASE Reply(c, k)
      BY <3>2, ReplyFacts
    <3> QED BY <1>6, <3>1, <3>2
  <2>2. /\ flight'[c][k].at # "started"
        /\ \A d \in Collector, x \in Key : <<d, x>> # <<c, k>> => flight'[d][x] = flight[d][x]
        /\ \A d \in Collector : Acquiring(d)' = Acquiring(d)
        /\ k \in Flying(c)
    BY <1>6, QuietFlight DEF SameClaims
  <2>3. \A d \in Collector : k \notin Acquiring(d) /\ (d # c => flight[d][k].at = "idle")
    BY <2>2, ClaimedOnce
  <2> QED BY <2>1, <2>2, <2>3 DEF DueUntilSent
<1>7. ASSUME NEW c \in Collector, NEW k \in Key, End(c, k) PROVE DueUntilSent'
  BY <1>7, EndExact DEF DueUntilSent
<1>8. CASE Tick
  <2>1. ASSUME NEW k \in Key, cool[k].left = 0 PROVE cool'[k].left = 0
    <3>1. cool[k] \in Schedule
      BY DEF TypeOK
    <3>2. cool'[k] = [cool[k] EXCEPT !.left = 0]
      BY <1>8, <2>1 DEF Tick, Elapse, Larger
    <3> QED BY <3>1, <3>2 DEF Schedule
  <2> QED BY <1>8, <2>1, WorldExact DEF DueUntilSent, SameClaims
<1>9. CASE \E a \in Account : Replace(a)
  BY <1>9, WorldExact DEF DueUntilSent, SameClaims, shared
<1>10. CASE Restart
  BY <1>10, WorldExact DEF DueUntilSent
<1>11. CASE UNCHANGED vars
  BY <1>11 DEF vars, DueUntilSent, Acquiring
<1> QED BY <1>1, <1>2, <1>3, <1>4, <1>5, <1>6, <1>7, <1>8, <1>9, <1>10, <1>11
        DEF Next, CollectStep, FlightStep

LEMMA ScheduleInv == Spec => [](InFlightExact /\ RestoredOnce /\ DueUntilSent)
<1>1. Init => RestoredOnce /\ DueUntilSent
  BY DEF Init, RestoredOnce, DueUntilSent, Acquiring, Flying, Landed
<1> QED BY <1>1, SingleFlight, RestoredOnceStep, DueUntilSentStep, TypeCorrect, PTL DEF Spec

\* Nothing is sent before its deadline, although Collect looks at the deadline
\* before it waits for a slot and other collects run in between.
THEOREM NoEarlyRequests == Spec => NoEarlyRequest
<1>1. DueUntilSent => \A c \in Collector, k \in Key : Sends(c, k) => cool[k].left = 0
  BY DEF DueUntilSent, Sends
<1> QED BY <1>1, ScheduleInv, PTL DEF NoEarlyRequest
-----------------------------------------------------------------------------
(* The count of failures is the one that the last read left.               *)

\* What a step of a collect, other than a visit, leaves alone.
LEMMA CollectFrame ==
  ASSUME TypeOK, NEW c \in Collector, CollectStep(c), ~Visit(c)
  PROVE  /\ UNCHANGED <<cool, outcome, latest, lastGood>>
         /\ inflight \subseteq inflight'
         /\ \A d \in Collector, k \in Key :
              \/ flight'[d][k] = flight[d][k]
              \/ flight'[d][k].at = "started" /\ flight'[d][k].rows = {}
<1>1. CASE BeginCollect(c) \/ Refuse(c) \/ Return(c) \/ Persist(c)
  BY <1>1 DEF BeginCollect, Refuse, Return, Persist, shared
<1>2. CASE Begin(c)
  BY <1>2 DEF Begin
<1>3. CASE Acquire(c)
  <2>1. PICK k \in cur[c] : flight' = [flight EXCEPT ![c][k] = [Landed EXCEPT !.at = "started"]]
    BY <1>3 DEF Acquire
  <2>2. \A d \in Collector, x \in Key :
          \/ flight'[d][x] = flight[d][x]
          \/ flight'[d][x].at = "started" /\ flight'[d][x].rows = {}
    BY <2>1 DEF TypeOK, Landed
  <2> QED BY <1>3, <2>2 DEF Acquire, shared
<1> QED BY <1>1, <1>2, <1>3 DEF CollectStep

LEMMA SendKeepsCount ==
  ASSUME TypeOK, NEW c \in Collector, NEW k \in Key, Send(c, k), NEW x \in Key
  PROVE  cool'[x].failures = cool[x].failures
<1>1. cool' = [cool EXCEPT ![k] = [left |-> Poll, failures |-> cool[k].failures]]
  BY SendFacts
<1>2. cool \in [Key -> Schedule]
  BY DEF TypeOK
<1> QED BY <1>1, <1>2

LEMMA CountHeldStep ==
  TypeOK /\ InFlightExact /\ RestoredOnce /\ CountHeld /\ [Next]_vars => CountHeld'
<1> SUFFICES ASSUME TypeOK, InFlightExact, RestoredOnce, CountHeld, [Next]_vars
             PROVE  CountHeld'
  OBVIOUS
<1>1. ASSUME NEW c \in Collector, CollectStep(c), ~Visit(c) PROVE CountHeld'
  BY <1>1, CollectFrame DEF CountHeld
<1>2. ASSUME NEW c \in Collector, Visit(c) PROVE CountHeld'
  <2>1. PICK k \in Key :
          /\ flight' = flight
          /\ \A x \in Key \ {k} : cool'[x] = cool[x] /\ outcome'[x] = outcome[x]
          /\ \/ cool'[k] = cool[k] /\ outcome'[k] = outcome[k]
             \/ restored[NameOf(k)] # NoOutcome /\ outcome'[k] \in Status
    BY <1>2, VisitFacts
  <2>2. \A d \in Collector, x \in Key :
          flight[d][x].at = "sent" => restored[NameOf(x)] = NoOutcome
    BY DEF RestoredOnce, Flying
  <2>3. "none" \notin Status
    BY DEF Status
  <2> QED BY <2>1, <2>2, <2>3 DEF CountHeld
<1>3. ASSUME NEW c \in Collector, NEW k \in Key, Decline(c, k) PROVE CountHeld'
  <2>1. flight'[c][k].at = "done" /\ UNCHANGED <<cool, outcome>>
    BY <1>3 DEF Decline, TypeOK, shared
  <2> QED BY <1>3, <2>1, QuietFlight DEF CountHeld
<1>4. ASSUME NEW c \in Collector, NEW k \in Key, Send(c, k) PROVE CountHeld'
  <2>1. /\ outcome' = outcome
        /\ flight'[c][k].failures = cool[k].failures
        /\ \A x \in Key : cool'[x].failures = cool[x].failures
    BY <1>4, SendKeepsCount, SendFacts
  <2>2. \A d \in Collector, x \in Key : <<d, x>> # <<c, k>> => flight'[d][x] = flight[d][x]
    BY <1>4, QuietFlight
  <2> QED BY <2>1, <2>2 DEF CountHeld
<1>5. ASSUME NEW c \in Collector, NEW k \in Key, Reply(c, k) PROVE CountHeld'
  <2>1. /\ \A x \in Key \ {k} : cool'[x] = cool[x] /\ outcome'[x] = outcome[x]
        /\ outcome'[k] # "none" /\ flight'[c][k].at = "done"
    BY <1>5, ReplyFacts DEF Status
  <2>2. /\ \A d \in Collector, x \in Key : <<d, x>> # <<c, k>> => flight'[d][x] = flight[d][x]
        /\ \A d \in Collector \ {c} : flight[d][k].at = "idle"
    BY <1>5, QuietFlight, ClaimedOnce
  <2> QED BY <2>1, <2>2 DEF CountHeld
<1>6. ASSUME NEW c \in Collector, NEW k \in Key, End(c, k) PROVE CountHeld'
  BY <1>6, EndExact DEF CountHeld
<1>7. CASE Tick
  <2>1. \A k \in Key : cool'[k].failures = cool[k].failures
    <3>1. \A k \in Key : cool[k] \in Schedule
      BY DEF TypeOK
    <3> QED BY <1>7, <3>1 DEF Tick, Elapse, Schedule
  <2>2. UNCHANGED <<flight, outcome>>
    BY <1>7 DEF Tick
  <2> QED BY <2>1, <2>2 DEF CountHeld
<1>8. CASE \E a \in Account : Replace(a)
  BY <1>8 DEF Replace, shared, CountHeld
<1>9. CASE Restart
  BY <1>9 DEF Restart, CountHeld, Due, Landed
<1>10. CASE UNCHANGED vars
  BY <1>10 DEF vars, CountHeld
<1> QED BY <1>1, <1>2, <1>3, <1>4, <1>5, <1>6, <1>7, <1>8, <1>9, <1>10
        DEF Next, FlightStep

\* A count goes down in a step only where a read of its key was answered well.
LEMMA CountKept ==
  ASSUME TypeOK, CountHeld, [Next]_vars, NEW k \in Key, cool'[k].failures < cool[k].failures
  PROVE  \/ restarts' # restarts
         \/ \E c \in Collector : Answered(c, k) /\ outcome'[k] = "ok"
<1>0. cool[k] \in Schedule /\ cool[k].failures \in 0 .. MaxFailures
  BY DEF TypeOK, Schedule
<1>1. ASSUME NEW c \in Collector, CollectStep(c), ~Visit(c) PROVE FALSE
  BY <1>0, <1>1, CollectFrame, MaxFailuresAssumption
<1>2. ASSUME NEW c \in Collector, Visit(c) PROVE FALSE
  <2>1. cool'[k].failures \in 0 .. MaxFailures
    BY <1>2, CollectTypeOK DEF CollectStep, TypeOK, Schedule
  <2>2. cool'[k] = cool[k] \/ outcome[k] = "none"
    BY <1>2, VisitFacts
  <2> QED BY <1>0, <2>1, <2>2, MaxFailuresAssumption DEF CountHeld
<1>3. ASSUME NEW c \in Collector, NEW x \in Key, Decline(c, x) \/ End(c, x) PROVE FALSE
  BY <1>0, <1>3, MaxFailuresAssumption DEF Decline, End, shared
<1>4. ASSUME NEW c \in Collector, NEW x \in Key, Send(c, x) PROVE FALSE
  <2>1. cool'[k].failures = cool[k].failures
    BY <1>4, SendKeepsCount
  <2> QED BY <1>0, <2>1, MaxFailuresAssumption
<1>5. ASSUME NEW c \in Collector, NEW x \in Key, Reply(c, x)
      PROVE  x = k /\ Answered(c, k) /\ outcome'[k] = "ok"
  <2>1. x = k
    BY <1>0, <1>5, ReplyFacts, MaxFailuresAssumption
  <2>2. Answered(c, k)
    BY <1>5, <2>1, ReplyFacts DEF Answered
  <2>3. cool'[k] # cool[k] /\ ~(cool'[k].failures >= cool[k].failures)
    <3>1. cool'[k].failures \in 0 .. MaxFailures
      BY <1>5, FlightTypeOK DEF FlightStep, TypeOK, Schedule
    <3> QED BY <1>0, <3>1, MaxFailuresAssumption
  <2>4. flight[c][k].failures = cool[k].failures
    BY <1>5, <2>1, ReplyFacts DEF CountHeld
  <2>5. More(cool[k].failures) >= cool[k].failures
    BY <1>0, MoreType
  <2> QED BY <1>5, <2>1, <2>2, <2>3, <2>4, <2>5, ReplyFacts
<1>6. CASE Tick
  <2>1. cool'[k].failures = cool[k].failures
    BY <1>0, <1>6 DEF Tick, Elapse, Schedule
  <2> QED BY <1>0, <2>1, MaxFailuresAssumption
<1>7. CASE \E a \in Account : Replace(a)
  BY <1>0, <1>7, MaxFailuresAssumption DEF Replace, shared
<1>8. CASE Restart
  BY <1>8, BoundsAssumption DEF Restart, TypeOK
<1>9. CASE UNCHANGED vars
  BY <1>0, <1>9, MaxFailuresAssumption DEF vars
<1> QED BY <1>1, <1>2, <1>3, <1>4, <1>5, <1>6, <1>7, <1>8, <1>9 DEF Next, FlightStep

LEMMA CountInv == Spec => []CountHeld
<1>1. Init => CountHeld
  BY DEF Init, CountHeld, Due, Landed
<1> QED BY <1>1, CountHeldStep, ScheduleInv, TypeCorrect, PTL DEF Spec

\* Only a read that succeeds, or the end of the process, lowers the count that
\* the back-off of a key grows with: no hold, no unusable body, no restored
\* outcome and no second collect does (Scheduler.fetch, applyRestored).
THEOREM FailuresForgotten == Spec => FailuresForgottenBySuccess
<1>1. TypeOK /\ CountHeld /\ [Next]_vars =>
        [\A k \in Key : cool'[k].failures < cool[k].failures =>
           \/ restarts' # restarts
           \/ \E c \in Collector : Answered(c, k) /\ outcome'[k] = "ok"]_vars
  BY CountKept
<1> QED BY <1>1, CountInv, TypeCorrect, PTL DEF Spec, FailuresForgottenBySuccess

-----------------------------------------------------------------------------
(* The rows of a read tell of its outcome.                                 *)

LEMMA NoRowsTell == \A k : RowsTell(k, {})
BY DEF RowsTell

\* A reply leaves rows that tell of the outcome it leaves.
LEMMA ReplyRowsTell ==
  ASSUME TypeOK, NEW c \in Collector, NEW k \in Key, Reply(c, k)
  PROVE  /\ RowsTell(k, flight[c][k].rows)'
         /\ \A x \in Key \ {k} : lastGood'[x] = lastGood[x]
         /\ UNCHANGED <<latest, inflight>>
<1> USE DEF TypeOK
<1>0. flight \in [Collector -> [Key -> Flight]] /\ flight[c][k] \in Flight
  OBVIOUS
<1>1. ASSUME NEW rows, Lands(c, k, rows) PROVE flight'[c][k].rows = rows
  BY <1>0, <1>1 DEF Lands, Flight
<1>2. CASE Succeed(c, k)
  <2>1. flight'[c][k].rows = {"fresh"}
    BY <1>1, <1>2 DEF Succeed
  <2> QED BY <1>2, <2>1 DEF Succeed, RowsTell
<1>3. ASSUME Lands(c, k, FailureRows(k)), outcome' = [outcome EXCEPT ![k] = "error"],
             UNCHANGED <<inflight, lastGood, latest>>
      PROVE  RowsTell(k, flight[c][k].rows)'
  <2>1. flight'[c][k].rows = FailureRows(k)
    BY <1>1, <1>3
  <2> QED BY <1>3, <2>1 DEF FailureRows, RowsTell
<1>4. CASE BeUnusable(c, k)
  BY <1>3, <1>4 DEF BeUnusable
<1>5. CASE Fail(c, k) \/ BeLimited(c, k) \/ BeRefused(c, k)
  BY <1>3, <1>5 DEF Fail, BeLimited, BeRefused, BackOff
<1> QED BY <1>2, <1>4, <1>5 DEF Reply

LEMMA RowsHeldStep ==
  TypeOK /\ InFlightExact /\ RestoredOnce /\ RowsHeld /\ [Next]_vars => RowsHeld'
<1> SUFFICES ASSUME TypeOK, InFlightExact, RestoredOnce, RowsHeld, [Next]_vars
             PROVE  RowsHeld'
  OBVIOUS
<1>1. ASSUME NEW c \in Collector, CollectStep(c), ~Visit(c) PROVE RowsHeld'
  BY <1>1, CollectFrame DEF RowsHeld, RowsTell
<1>2. ASSUME NEW c \in Collector, Visit(c) PROVE RowsHeld'
  <2>1. PICK k \in Key :
          /\ UNCHANGED <<flight, inflight, latest, lastGood>>
          /\ \A x \in Key \ {k} : outcome'[x] = outcome[x]
          /\ \/ outcome'[k] = outcome[k]
             \/ restored[NameOf(k)] # NoOutcome /\ outcome[k] = "none"
    BY <1>2, VisitFacts
  <2>2. ASSUME NEW d \in Collector, flight[d][k].at # "idle", flight[d][k].rows # {},
               outcome[k] = "none"
        PROVE  FALSE
    BY <2>2 DEF RowsHeld, RowsTell
  <2>3. ASSUME k \notin inflight, latest[k] # {}, outcome[k] = "none" PROVE FALSE
    BY <2>3 DEF RowsHeld, RowsTell
  <2> QED BY <2>1, <2>2, <2>3 DEF RowsHeld, RowsTell
<1>3. ASSUME NEW c \in Collector, NEW k \in Key, Decline(c, k) \/ Send(c, k) PROVE RowsHeld'
  <2>1. UNCHANGED <<inflight, outcome, latest, lastGood>>
    BY <1>3 DEF Decline, Send, shared
  <2>2. \/ flight'[c][k].rows = flight[c][k].rows /\ flight[c][k].at # "idle"
        \/ flight'[c][k].rows = {}
    <3>1. flight \in [Collector -> [Key -> Flight]] /\ flight[c][k] \in Flight
      BY DEF TypeOK
    <3> QED BY <1>3, <3>1 DEF Decline, Send, Flight
  <2>3. \A d \in Collector, x \in Key : <<d, x>> # <<c, k>> => flight'[d][x] = flight[d][x]
    BY <1>3, QuietFlight
  <2> QED BY <2>1, <2>2, <2>3 DEF RowsHeld, RowsTell
<1>4. ASSUME NEW c \in Collector, NEW k \in Key, Reply(c, k) PROVE RowsHeld'
  <2>1. /\ RowsTell(k, flight[c][k].rows)'
        /\ \A x \in Key \ {k} : outcome'[x] = outcome[x] /\ lastGood'[x] = lastGood[x]
        /\ UNCHANGED <<latest, inflight>>
    BY <1>4, ReplyFacts, ReplyRowsTell
  <2>2. /\ \A d \in Collector, x \in Key : <<d, x>> # <<c, k>> => flight'[d][x] = flight[d][x]
        /\ \A d \in Collector \ {c} : flight[d][k].at = "idle"
        /\ k \in inflight
    BY <1>4, QuietFlight, ClaimedOnce DEF InFlightExact
  <2> QED BY <2>1, <2>2 DEF RowsHeld, RowsTell
<1>5. ASSUME NEW c \in Collector, NEW k \in Key, End(c, k) PROVE RowsHeld'
  <2>1. /\ UNCHANGED <<outcome, lastGood>>
        /\ \A x \in Key \ {k} : latest'[x] = latest[x]
        /\ latest'[k] = flight[c][k].rows
        /\ inflight' = inflight \ {k}
        /\ flight[c][k].at = "done" /\ flight'[c][k].at = "idle"
        /\ \A d \in Collector, x \in Key : <<d, x>> # <<c, k>> => flight'[d][x] = flight[d][x]
    BY <1>5 DEF End, TypeOK, Landed
  <2> QED BY <2>1 DEF RowsHeld, RowsTell
<1>6. CASE Tick
  BY <1>6 DEF Tick, RowsHeld, RowsTell
<1>7. CASE \E a \in Account : Replace(a)
  BY <1>7 DEF Replace, shared, RowsHeld, RowsTell
<1>8. CASE Restart
  BY <1>8 DEF Restart, Landed, RowsHeld, RowsTell
<1>9. CASE UNCHANGED vars
  BY <1>9 DEF vars, RowsHeld, RowsTell
<1> QED BY <1>1, <1>2, <1>3, <1>4, <1>5, <1>6, <1>7, <1>8, <1>9 DEF Next, FlightStep

\* Whoever is handed the rows of the last read and whoever is shown its status
\* are told the same, whatever was restored, refused or read again in between
\* (Scheduler.fetch, cached, Outcomes).
THEOREM RowsMatchOutcomes == Spec => []RowsMatchOutcome
<1>1. Init => RowsHeld
  BY DEF Init, RowsHeld, RowsTell, Landed
<1>2. RowsHeld => RowsMatchOutcome
  BY DEF RowsHeld, RowsTell, RowsMatchOutcome
<1> QED BY <1>1, <1>2, RowsHeldStep, ScheduleInv, TypeCorrect, PTL DEF Spec

-----------------------------------------------------------------------------
(* A back-off outlives the process, if its credential is the only one.     *)

LEMMA OneNameOneKey ==
  ASSUME NEW d, Cred = {d}
  PROVE  /\ \A k, x \in Key : NameOf(k) = NameOf(x) => k = x
         /\ \A k \in Key : k = <<NameOf(k)[1], NameOf(k)[2], d>>
BY DEF Key, NameOf

LEMMA VisitKeepsBackoff ==
  ASSUME NEW d, Cred = {d}, TypeOK, RestoredOnce, BackoffKept, NEW c \in Collector, Visit(c)
  PROVE  BackoffKept'
<1>1. PICK k \in todo[c] :
        LET prior == restored[NameOf(k)]
            takes == prior # NoOutcome /\ outcome[k] = "none"
        IN  /\ restored' = [restored EXCEPT ![NameOf(k)] = NoOutcome]
            /\ outcome' = IF takes THEN [outcome EXCEPT ![k] = prior.status] ELSE outcome
            /\ cool' = IF takes /\ Seeds(prior)
                         THEN [cool EXCEPT ![k] = [left |-> prior.left,
                                                   failures |-> prior.failures]]
                         ELSE cool
  BY DEF Visit
<1>2. k \in Key /\ NameOf(k) \in Name
  BY KeyName DEF TypeOK
<1>3. flight' = flight /\ saved' = saved
  BY DEF Visit, world
<1>4. ASSUME NEW x \in Key, x # k
      PROVE  /\ restored'[NameOf(x)] = restored[NameOf(x)]
             /\ outcome'[x] = outcome[x] /\ cool'[x] = cool[x]
  <2>1. NameOf(x) # NameOf(k)
    BY <1>2, <1>4, OneNameOneKey
  <2>2. outcome'[x] = outcome[x] /\ cool'[x] = cool[x]
    BY <1>1, <1>2, <1>4 DEF TypeOK
  <2> QED BY <1>1, <1>2, <2>1, <2>2, KeyName DEF TypeOK
<1>5. \/ saved[k].failures = 0
      \/ outcome'[k] # "none" /\ saved[k].left <= cool'[k].left
  <2>1. CASE outcome[k] # "none"
    BY <1>1, <1>2, <2>1 DEF BackoffKept
  <2>2. CASE outcome[k] = "none" /\ restored[NameOf(k)] = saved[k] /\ saved[k].failures # 0
    <3>1. saved[k] # NoOutcome /\ saved[k] \in Outcome
      BY <1>2, <2>2 DEF TypeOK, NoOutcome
    <3>2. /\ saved[k].failures > 0 /\ saved[k].left <= saved[k].left
          /\ saved[k].status # "none"
      BY <2>2, <3>1, MaxFailuresAssumption DEF Outcome, Status
    <3>3. /\ outcome' = [outcome EXCEPT ![k] = saved[k].status]
          /\ cool' = [cool EXCEPT ![k] = [left |-> saved[k].left,
                                          failures |-> saved[k].failures]]
      BY <1>1, <2>2, <3>1, <3>2 DEF Seeds
    <3> QED BY <1>2, <3>2, <3>3 DEF TypeOK
  <2>3. \/ saved[k].failures = 0
        \/ outcome[k] # "none"
        \/ outcome[k] = "none" /\ restored[NameOf(k)] = saved[k]
    BY <1>2 DEF BackoffKept
  <2> QED BY <2>1, <2>2, <2>3
<1>6. ASSUME NEW e \in Collector, flight[e][k].at = "sent" PROVE cool'[k].left <= Poll
  <2>1. restored[NameOf(k)] = NoOutcome
    BY <1>2, <1>6 DEF RestoredOnce, Flying
  <2> QED BY <1>1, <1>2, <1>6, <2>1 DEF BackoffKept
<1> QED BY <1>3, <1>4, <1>5, <1>6 DEF BackoffKept

LEMMA ReplyKeepsBackoff ==
  ASSUME TypeOK, InFlightExact, RestoredOnce, BackoffKept,
         NEW c \in Collector, NEW k \in Key, Reply(c, k)
  PROVE  BackoffKept'
<1>1. /\ flight[c][k].at = "sent" /\ flight'[c][k].at = "done"
      /\ \A x \in Key \ {k} : cool'[x] = cool[x] /\ outcome'[x] = outcome[x]
      /\ outcome'[k] # "none"
  BY ReplyFacts DEF Status
<1>2. /\ UNCHANGED <<restored, saved>>
      /\ \A d \in Collector, x \in Key : <<d, x>> # <<c, k>> => flight'[d][x] = flight[d][x]
      /\ \A d \in Collector \ {c} : flight[d][k].at = "idle"
  <2>1. saved' = saved
    BY DEF Reply, Succeed, Fail, BeLimited, BeRefused, BackOff, BeUnusable, world
  <2> QED BY <2>1, QuietFlight, ClaimedOnce
<1>3. cool[k].left <= Poll /\ cool[k].left \in Nat
  BY <1>1 DEF BackoffKept, TypeOK, Schedule
<1>4. cool'[k].left >= cool[k].left
  <2>1. CASE cool'[k].left = Poll
    BY <1>3, <2>1, PollAssumption
  <2>2. CASE cool'[k] = cool[k]
    BY <1>3, <2>2
  <2>3. ASSUME NEW floor \in Nat,
               cool'[k].left = BackoffWait(More(flight[c][k].failures), floor)
        PROVE  cool'[k].left >= cool[k].left
    <3>1. More(flight[c][k].failures) \in Nat
      BY MoreType, MaxFailuresAssumption DEF TypeOK, Flight
    <3>2. /\ Growth(More(flight[c][k].failures)) \in Nat
          /\ Growth(More(flight[c][k].failures)) >= Poll
      BY <3>1, GrowthBounded
    <3>3. BackoffWait(More(flight[c][k].failures), floor) >= Poll
      BY <3>2, PollAssumption DEF BackoffWait, Larger
    <3>4. BackoffWait(More(flight[c][k].failures), floor) \in Nat
      BY <3>1, BackoffWaitType
    <3> QED BY <1>3, <2>3, <3>3, <3>4, PollAssumption
  <2> QED BY <2>1, <2>2, <2>3, ReplyFacts
<1>5. \/ saved'[k].failures = 0
      \/ outcome'[k] # "none" /\ saved'[k].left <= cool'[k].left
  <2>1. restored[NameOf(k)] = NoOutcome
    BY <1>1 DEF RestoredOnce, Flying
  <2>2. saved[k].failures = 0 \/ saved[k].left <= cool[k].left
    BY <2>1 DEF BackoffKept, NoOutcome
  <2>3. saved[k].left \in Nat
    BY DEF TypeOK, Outcome, NoOutcome
  <2>4. cool'[k].left \in Nat
    BY FlightTypeOK DEF FlightStep, TypeOK, Schedule
  <2> QED BY <1>1, <1>2, <1>3, <1>4, <2>2, <2>3, <2>4
<1> QED BY <1>1, <1>2, <1>5 DEF BackoffKept

LEMMA SendKeepsBackoff ==
  ASSUME TypeOK, InFlightExact, RestoredOnce, DueUntilSent, BackoffKept,
         NEW c \in Collector, NEW k \in Key, Send(c, k)
  PROVE  BackoffKept'
<1>1. /\ UNCHANGED <<restored, saved, outcome>>
      /\ flight[c][k].at = "started"
  BY DEF Send, world
<1>2. /\ cool' = [cool EXCEPT ![k] = [left |-> Poll, failures |-> cool[k].failures]]
      /\ cool \in [Key -> Schedule]
  BY SendFacts DEF TypeOK
<1>3. cool'[k].left = Poll /\ \A x \in Key \ {k} : cool'[x] = cool[x]
  BY <1>2
<1>4. \A d \in Collector, x \in Key : <<d, x>> # <<c, k>> => flight'[d][x] = flight[d][x]
  BY QuietFlight
<1>5. \/ saved[k].failures = 0
      \/ outcome[k] # "none" /\ saved[k].left <= Poll
  <2>1. cool[k].left = 0 /\ restored[NameOf(k)] = NoOutcome
    BY <1>1 DEF DueUntilSent, RestoredOnce, Flying
  <2>2. saved[k].left \in Nat
    BY DEF TypeOK, Outcome, NoOutcome
  <2>3. restored[NameOf(k)] = saved[k] => saved[k].failures = 0
    BY <2>1 DEF NoOutcome
  <2>4. \/ saved[k].failures = 0
        \/ outcome[k] # "none" /\ saved[k].left <= cool[k].left
        \/ outcome[k] = "none" /\ restored[NameOf(k)] = saved[k]
    BY DEF BackoffKept
  <2> QED BY <2>1, <2>2, <2>3, <2>4, PollAssumption
<1> QED BY <1>1, <1>3, <1>4, <1>5, PollAssumption DEF BackoffKept

LEMMA BackoffKeptStep ==
  ASSUME NEW d, Cred = {d}, TypeOK, InFlightExact, RestoredOnce, DueUntilSent, BackoffKept,
         [Next]_vars
  PROVE  BackoffKept'
<1>1. ASSUME NEW c \in Collector, CollectStep(c), ~Visit(c), ~Persist(c) PROVE BackoffKept'
  <2>1. UNCHANGED <<saved, restored>>
    BY <1>1 DEF CollectStep, BeginCollect, Refuse, Begin, Acquire, Return, shared, world
  <2> QED BY <1>1, <2>1, CollectFrame DEF BackoffKept
<1>2. ASSUME NEW c \in Collector, Persist(c) PROVE BackoffKept'
  <2>1. UNCHANGED <<outcome, cool, restored, flight>>
    BY <1>2 DEF Persist, shared
  <2>2. saved' = Outcomes \/ saved' = saved
    BY <1>2 DEF Persist
  <2>3. \A k \in Key : cool[k].left \in Nat
    BY DEF TypeOK, Schedule
  <2>4. ASSUME NEW k \in Key, saved' = Outcomes
        PROVE  \/ saved'[k].failures = 0
               \/ outcome[k] # "none" /\ saved'[k].left <= cool[k].left
    BY <2>3, <2>4 DEF Outcomes, NoOutcome
  <2> QED BY <2>1, <2>2, <2>4 DEF BackoffKept
<1>3. ASSUME NEW c \in Collector, NEW k \in Key, Decline(c, k) \/ End(c, k)
      PROVE  BackoffKept'
  <2>1. /\ UNCHANGED <<cool, outcome, saved, restored>>
        /\ flight'[c][k].at # "sent"
        /\ \A e \in Collector, x \in Key : <<e, x>> # <<c, k>> => flight'[e][x] = flight[e][x]
    <3>1. flight \in [Collector -> [Key -> Flight]] /\ flight[c][k] \in Flight
      BY DEF TypeOK
    <3>2. CASE Decline(c, k)
      BY <3>1, <3>2 DEF Decline, shared, world, Flight
    <3>3. CASE End(c, k)
      BY <3>1, <3>3 DEF End, world, Landed
    <3> QED BY <1>3, <3>2, <3>3
  <2> QED BY <2>1 DEF BackoffKept
<1>4. CASE Tick
  <2>1. \A k \in Key : /\ cool'[k] = Elapse(cool[k]) /\ saved'[k] = Elapse(saved[k])
                       /\ restored'[NameOf(k)] = Elapse(restored[NameOf(k)])
    BY <1>4, KeyName DEF Tick
  <2>2. UNCHANGED <<flight, outcome>>
    BY <1>4 DEF Tick
  <2>3. \A k \in Key : /\ Elapse(cool[k]).left = Larger(cool[k].left - 1, 0)
                       /\ Elapse(saved[k]).left = Larger(saved[k].left - 1, 0)
                       /\ Elapse(saved[k]).failures = saved[k].failures
                       /\ cool[k].left \in Nat /\ saved[k].left \in Nat
    BY DEF TypeOK, Elapse, Schedule, Outcome, NoOutcome
  <2> QED BY <2>1, <2>2, <2>3, PollAssumption DEF BackoffKept, Larger
<1>5. CASE \E a \in Account : Replace(a)
  BY <1>5 DEF Replace, shared, BackoffKept
<1>6. CASE Restart
  <2>1. PICK last \in [Name -> Cred] :
          restored' = [n \in Name |-> saved[<<n[1], n[2], last[n]>>]]
    BY <1>6 DEF Restart
  <2>2. \A k \in Key : restored'[NameOf(k)] = saved[k]
    BY <2>1, KeyName, OneNameOneKey
  <2> QED BY <1>6, <2>2 DEF Restart, BackoffKept, Landed
<1>7. CASE UNCHANGED vars
  BY <1>7 DEF vars, BackoffKept
<1> QED BY <1>1, <1>2, <1>3, <1>4, <1>5, <1>6, <1>7, VisitKeepsBackoff, ReplyKeepsBackoff,
           SendKeepsBackoff DEF Next, FlightStep

\* Where an account keeps its credential, a restart neither forgets a back-off
\* that was written down nor cuts it short, however reads, writes and restarts
\* mix (persistDirectOutcomes, Restore, applyRestored).  It is a second credential
\* of the same name that breaks this, as sched_rotated_restart shows.
THEOREM RestartsKeepBackoff ==
  (\E d : Cred = {d}) => (Spec => RestartKeepsBackoff)
<1> SUFFICES ASSUME NEW d, Cred = {d} PROVE Spec => RestartKeepsBackoff
  OBVIOUS
<1>1. Init => BackoffKept
  BY DEF Init, BackoffKept, NoOutcome, Landed
<1>2. TypeOK /\ InFlightExact /\ RestoredOnce /\ DueUntilSent /\ BackoffKept /\ [Next]_vars
        => BackoffKept'
  BY BackoffKeptStep
<1>3. TypeOK /\ RestoredOnce /\ DueUntilSent /\ BackoffKept =>
        [\A c \in Collector, k \in Key :
           Sends(c, k) => saved[k].failures = 0 \/ saved[k].left = 0]_vars
  <2> SUFFICES ASSUME TypeOK, RestoredOnce, DueUntilSent, BackoffKept,
                      NEW c \in Collector, NEW k \in Key, Sends(c, k)
               PROVE  saved[k].failures = 0 \/ saved[k].left = 0
    OBVIOUS
  <2>1. cool[k].left = 0 /\ restored[NameOf(k)] = NoOutcome
    BY DEF Sends, DueUntilSent, RestoredOnce, Flying
  <2>2. saved[k].left \in Nat
    BY DEF TypeOK, Outcome, NoOutcome
  <2> QED BY <2>1, <2>2 DEF BackoffKept, NoOutcome
<1> QED BY <1>1, <1>2, <1>3, ScheduleInv, TypeCorrect, PTL DEF Spec, RestartKeepsBackoff
=============================================================================

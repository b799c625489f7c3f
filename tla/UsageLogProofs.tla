--------------------------- MODULE UsageLogProofs ---------------------------
(***************************************************************************)
(* For every retention, skew and bound: UsageLog implements UsageLedger,   *)
(* and what the cursor and usageObservedThrough claim to have been read    *)
(* has been read.                                                          *)
(*                                                                         *)
(* In the refinement the step that needs an invariant is Retire with a     *)
(* clock set back: it deletes by a cutoff behind the floor, and that this  *)
(* deletes nothing follows only from CountedAboveFloor.                    *)
(*                                                                         *)
(* What was read rests on LogInv: a file holds consecutive ids, the files  *)
(* follow each other, later ids were logged later, and a cursor stands for *)
(* ids that are all counted, in whatever file it was saved.  It is         *)
(* inductive only while the cycle comes to the log within the minute by    *)
(* which a record may lie ahead of its clock, MaxLag <= Skew, which both   *)
(* theorems assume.                                                        *)
(***************************************************************************)
EXTENDS UsageLog, FiniteSetTheorems, TLAPS

IInv == TypeOK /\ IsFiniteSet(written)

LEMMA LargerOfIntegers ==
  ASSUME NEW a \in Int, NEW b \in Int
  PROVE  /\ Larger(a, b) \in {a, b}
         /\ Larger(a, b) >= a
         /\ Larger(a, b) >= b
BY DEF Larger

LEMMA BoundsAreNaturals ==
  /\ Retention \in Nat /\ Day \in Nat /\ Skew \in Nat /\ CallTime \in Nat
  /\ MaxLag \in Nat /\ HistoryResetAt \in Nat /\ MaxLines \in Nat
  /\ MaxClock \in Nat /\ MaxMishaps \in Nat /\ MaxReplays \in Nat
  /\ MaxFiles \in Nat /\ MaxFiles >= 1
BY BoundsAssumption

\* A complete line takes the next id, and is one more of finitely many.
LEMMA CompleteTyped ==
  ASSUME IInv, NewId <= MaxLines, NEW wellFormed \in BOOLEAN, Complete(wellFormed)
  PROVE  log' \in File /\ written' \subseteq Line /\ IsFiniteSet(written')
<1>1. NewId \in 1 .. MaxLines
  BY FS_CardinalityType, BoundsAreNaturals DEF IInv, NewId
<1>2. PICK at \in Time :
        LET line == [id |-> NewId, at |-> at, wellFormed |-> wellFormed, logged |-> clock]
        IN  /\ log' = [log EXCEPT !.lines = Append(@, line), !.tail = "none", !.begun = 0]
            /\ written' = written \cup {line}
  BY DEF Complete
<1> DEFINE line == [id |-> NewId, at |-> at, wellFormed |-> wellFormed, logged |-> clock]
<1>3. line \in Line
  BY <1>1 DEF IInv, TypeOK, Line
<1>4. log' = [log EXCEPT !.lines = Append(@, line), !.tail = "none", !.begun = 0]
  BY <1>2
<1>5. written' = written \cup {line}
  BY <1>2
<1> HIDE DEF line
<1>6. Append(log.lines, line) \in Seq(Line)
  BY <1>3 DEF IInv, TypeOK, File
<1>7. log' \in File
  <2>1. log \in File /\ 0 \in Time
    BY BoundsAreNaturals DEF IInv, TypeOK, Time
  <2> QED
    BY <1>4, <1>6, <2>1 DEF File
<1> QED
  BY <1>3, <1>5, <1>7, FS_AddElement DEF IInv, TypeOK

LEMMA InitTyped == Init => IInv
<1> SUFFICES ASSUME Init PROVE IInv
  OBVIOUS
<1> USE BoundsAreNaturals
<1>1. log \in File
  BY DEF Init, File, Time
<1>2. cycle \in Cycle /\ cursor \in Cursor
  BY DEF Init, Cycle, Idle, Cursor, NoCursor, Time, Unprinted
<1>3. {since, through, maintained} \subseteq Time \cup {Never} /\ IsFiniteSet(written)
  BY FS_EmptySet DEF Init
<1>4. excluded \in Time /\ clock \in Time /\ files \in 1 .. MaxFiles
  BY DEF Init, Time
<1>5. mishaps \in 0 .. MaxMishaps /\ replays \in 0 .. MaxReplays
  BY DEF Init
<1> QED
  BY <1>1, <1>2, <1>3, <1>4, <1>5 DEF Init, IInv, TypeOK

LEMMA FingerprintTyped == IInv => FileFingerprint \in Nat
<1> SUFFICES ASSUME IInv PROVE FileFingerprint \in Nat
  OBVIOUS
<1>1. NewId \in Nat
  BY FS_CardinalityType DEF IInv, NewId
<1>2. ASSUME log.lines # <<>> PROVE log.lines[1].id \in Nat
  <2>1. log.lines[1] \in Line
    BY <1>2 DEF IInv, TypeOK, File
  <2> QED
    BY <2>1 DEF Line
<1> QED
  BY <1>1, <1>2, BoundsAreNaturals DEF FileFingerprint, Unprinted, Torn

\* What the read of the log adds: calls of its lines, none below the floor.
LEMMA CountedByIngest ==
  ASSUME IInv, IngestJSONL
  PROVE  /\ usage \subseteq usage'
         /\ \A call \in usage' \ usage : call \in Call /\ call.at >= excluded
<1> DEFINE new(k) == {CallOf(log.lines[i]) :
                        i \in {j \in k + 1 .. Len(log.lines) : Counts(log.lines[j])}}
<1>1. usage' = usage \cup new(ResumeAt(FileFingerprint))
  BY DEF IngestJSONL
<1>2. ResumeAt(FileFingerprint) \in Nat
  BY DEF ResumeAt, IInv, TypeOK, Cursor
<1>3. ASSUME NEW k \in Nat, NEW i \in k + 1 .. Len(log.lines), Counts(log.lines[i])
      PROVE  CallOf(log.lines[i]) \in Call /\ CallOf(log.lines[i]).at >= excluded
  <2>1. log.lines[i] \in Line
    BY <1>3 DEF IInv, TypeOK, File
  <2>2. cycle.now - Retention \in Int /\ HistoryResetAt \in Int /\ excluded \in Int
    BY BoundsAreNaturals DEF IInv, TypeOK, Cycle, Time
  <2>3. Larger(cycle.now - Retention, HistoryResetAt) \in Int
    BY <2>2, LargerOfIntegers
  <2>4. Cutoff(cycle.now) >= excluded /\ Cutoff(cycle.now) \in Int
    BY <2>2, <2>3, LargerOfIntegers DEF Cutoff
  <2>5. log.lines[i].at >= Cutoff(cycle.now)
    BY <1>3 DEF Counts
  <2> QED
    BY <2>1, <2>2, <2>4, <2>5, BoundsAreNaturals DEF Line, Call, CallOf, Time
<1> QED
  BY <1>1, <1>2, <1>3

LEMMA IngestTyped == ASSUME IInv, IngestJSONL PROVE IInv'
<1> DEFINE offset == ResumeAt(FileFingerprint)
<1>1. usage' \subseteq Call
  BY CountedByIngest DEF IInv, TypeOK
<1>2. offset \in Nat
  BY DEF ResumeAt, IInv, TypeOK, Cursor
<1>3. Consumed(offset) \in Nat
  <2>1. Len(log.lines) \in Nat
    BY DEF IInv, TypeOK, File
  <2> QED
    BY <1>2, <2>1, LargerOfIntegers DEF Consumed
<1>4. cursor' = [ino |-> cycle.ino, offset |-> Consumed(offset), print |-> FileFingerprint]
  BY DEF IngestJSONL
<1>5. cursor' \in Cursor
  BY <1>3, <1>4, FingerprintTyped DEF IInv, TypeOK, Cursor, Cycle
<1>6. {since', through', maintained'} \subseteq Time \cup {Never}
  BY DEF IngestJSONL, IInv, TypeOK, Cycle
<1>7. cycle' \in Cycle
  BY DEF IngestJSONL, IInv, TypeOK, Cycle
<1> QED
  BY <1>1, <1>5, <1>6, <1>7 DEF IngestJSONL, outside, IInv, TypeOK

\* What maintenance deletes and where it puts the floor.
LEMMA RetireTyped ==
  ASSUME IInv, Retire(cycle.now - Retention),
         maintained' \in {maintained, cycle.now}, failed' \in {failed, FALSE}
  PROVE  IInv'
<1>1. cycle.now - Retention \in Int /\ cycle.now - Retention <= MaxClock /\ excluded \in Int
  BY BoundsAreNaturals DEF IInv, TypeOK, Cycle, Time
<1>2. excluded' \in Time
  BY <1>1, LargerOfIntegers, BoundsAreNaturals DEF Retire, Boundary, IInv, TypeOK, Time
<1>3. cycle' \in Cycle /\ usage' \subseteq Call
  BY BoundsAreNaturals DEF Retire, IInv, TypeOK, Cycle, Idle, Time
<1> QED
  BY <1>2, <1>3 DEF Retire, outside, IInv, TypeOK, Cycle

LEMMA StepTyped == ASSUME IInv, [Next]_vars PROVE IInv'
<1> USE BoundsAreNaturals
<1>1. CASE WriteLine
  BY <1>1, CompleteTyped DEF WriteLine, database, IInv, TypeOK
<1>2. CASE WriteGarbage
  <2>1. mishaps' \in 0 .. MaxMishaps
    BY <1>2 DEF WriteGarbage, Mishap, IInv, TypeOK
  <2> QED
    BY <1>2, <2>1, CompleteTyped DEF WriteGarbage, database, IInv, TypeOK
<1>3. CASE WritePart
  <2>1. log' \in File
    BY <1>3 DEF WritePart, IInv, TypeOK, File
  <2> QED
    BY <1>3, <2>1 DEF WritePart, database, IInv, TypeOK
<1>4. CASE Rotate
  <2>1. PICK kept \in 0 .. Len(log.lines) :
          log' = [log EXCEPT !.ino = files + 1,
                             !.lines = SubSeq(@, Len(@) - kept + 1, Len(@))]
    BY <1>4 DEF Rotate
  <2>2. SubSeq(log.lines, Len(log.lines) - kept + 1, Len(log.lines)) \in Seq(Line)
    BY DEF IInv, TypeOK, File
  <2>3. files' \in 1 .. MaxFiles /\ files + 1 \in 1 .. MaxFiles
    <3>1. files \in 1 .. MaxFiles
      BY DEF IInv, TypeOK
    <3>2. files < MaxFiles /\ files' = files + 1
      BY <1>4 DEF Rotate
    <3> QED
      BY <3>1, <3>2
  <2>4. log' \in File
    BY <2>1, <2>2, <2>3 DEF IInv, TypeOK, File
  <2>5. excused' \in BOOLEAN
    BY <1>4 DEF Rotate, Overlooked, IInv, TypeOK
  <2> QED
    BY <1>4, <2>3, <2>4, <2>5 DEF Rotate, database, IInv, TypeOK
<1>5. CASE TruncateInPlace
  <2>1. log' \in File
    <3>1. log \in File /\ log' = [log EXCEPT !.lines = <<>>]
      BY <1>5 DEF TruncateInPlace, IInv, TypeOK
    <3>2. <<>> \in Seq(Line)
      OBVIOUS
    <3>3. log' = [ino |-> log.ino, lines |-> <<>>, tail |-> log.tail, begun |-> log.begun]
      BY <3>1 DEF File
    <3> QED
      BY <3>1, <3>2, <3>3 DEF File
  <2>3. mishaps' \in 0 .. MaxMishaps
    BY <1>5 DEF TruncateInPlace, Mishap, IInv, TypeOK
  <2>2. excused' \in BOOLEAN
    BY <1>5 DEF TruncateInPlace, Overlooked, IInv, TypeOK
  <2> QED
    BY <1>5, <2>1, <2>2, <2>3 DEF TruncateInPlace, database, IInv, TypeOK
<1>6. CASE StartCycle
  <2>1. cycle' \in Cycle
    <3>1. clock \in Time
      BY DEF IInv, TypeOK
    <3>2. cycle' = [pc |-> "started", now |-> clock, ino |-> 0, lines |-> 0, long |-> FALSE]
      BY <1>6 DEF StartCycle, Idle
    <3> QED
      BY <3>1, <3>2 DEF Cycle
  <2> QED
    BY <1>6, <2>1 DEF StartCycle, outside, database, IInv, TypeOK
<1>7. CASE Stat
  <2>1. cycle' \in Cycle
    <3>1. log.ino \in 0 .. MaxFiles /\ Len(log.lines) \in Nat /\ LongEnough(log) \in BOOLEAN
      BY DEF LongEnough, IInv, TypeOK, File
    <3>2. cycle' = [cycle EXCEPT !.pc = "seen", !.ino = log.ino, !.lines = Len(log.lines),
                                 !.long = LongEnough(log)]
      BY <1>7 DEF Stat
    <3>3. cycle \in Cycle
      BY DEF IInv, TypeOK
    <3> QED
      BY <3>1, <3>2, <3>3 DEF Cycle
  <2> QED
    BY <1>7, <2>1 DEF Stat, outside, database, IInv, TypeOK
<1>8. CASE IngestJSONL
  BY <1>8, IngestTyped
<1>9. CASE Maintain
  BY <1>9, RetireTyped DEF Maintain
<1>17. CASE MaintainUnnoted
  BY <1>17, RetireTyped DEF MaintainUnnoted
<1>10. CASE MaintainFails
  BY <1>10 DEF MaintainFails, Idle, Cycle, Time, outside, IInv, TypeOK
<1>11. CASE SkipMaintenance
  BY <1>11 DEF SkipMaintenance, Idle, Cycle, Time, outside, database, IInv, TypeOK
<1>12. CASE Abandon
  BY <1>12 DEF Abandon, Idle, Cycle, Time, outside, database, IInv, TypeOK
<1>13. CASE ChangePrices
  BY <1>13 DEF ChangePrices, IInv, TypeOK
<1>14. CASE Tick
  BY <1>14 DEF Tick, Time, database, IInv, TypeOK
<1>15. CASE SetBack
  BY <1>15 DEF SetBack, Mishap, Time, database, IInv, TypeOK
<1>16. CASE UNCHANGED vars
  BY <1>16 DEF vars, IInv, TypeOK
<1> QED
  BY <1>1, <1>2, <1>3, <1>4, <1>5, <1>6, <1>7, <1>8, <1>9, <1>10, <1>11, <1>12, <1>13,
     <1>14, <1>15, <1>16, <1>17
  DEF Next, OpenCodex, CycleStep

LEMMA Typed == Spec => []IInv
BY InitTyped, StepTyped, PTL DEF Spec

-----------------------------------------------------------------------------
\* Every step but these two leaves the counted calls and the floor alone.
LEMMA OnlyIngestAndRetire ==
  ASSUME [Next]_vars, ~IngestJSONL, ~Retire(cycle.now - Retention)
  PROVE  UNCHANGED <<usage, excluded>>
BY DEF Next, OpenCodex, CycleStep, WriteLine, WriteGarbage, WritePart, Rotate,
       TruncateInPlace, StartCycle, Stat, Maintain, MaintainUnnoted, MaintainFails, SkipMaintenance, Abandon,
       ChangePrices, Tick, SetBack, vars, outside, database

LEMMA StepAboveFloor ==
  ASSUME IInv, CountedAboveFloor, [Next]_vars
  PROVE  CountedAboveFloor'
<1>1. CASE IngestJSONL
  BY <1>1, CountedByIngest DEF CountedAboveFloor, IngestJSONL
<1>2. CASE Retire(cycle.now - Retention)
  <2>1. cycle.now - Retention \in Int /\ excluded \in Int
    BY BoundsAreNaturals DEF IInv, TypeOK, Cycle, Time
  <2>2. excluded' \in {excluded, cycle.now - Retention}
    BY <1>2, <2>1, LargerOfIntegers DEF Retire, Boundary
  <2>3. \A call \in usage' : call.at >= excluded /\ ~(call.at < cycle.now - Retention)
    BY <1>2 DEF Retire, Expired, CountedAboveFloor
  <2>4. \A call \in usage' : call.at \in Int
    BY <1>2 DEF Retire, IInv, TypeOK, Call, Time
  <2> QED
    BY <2>1, <2>2, <2>3, <2>4 DEF CountedAboveFloor
<1>3. CASE ~IngestJSONL /\ ~Retire(cycle.now - Retention)
  BY <1>3, OnlyIngestAndRetire DEF CountedAboveFloor
<1> QED
  BY <1>1, <1>2, <1>3

\* No counted call is older than the boundary that retention declared excluded,
\* whatever is replayed and however the clock is set back.
THEOREM CountedAboveFloorAlways == Spec => []CountedAboveFloor
<1>1. Init => CountedAboveFloor
  BY DEF Init, CountedAboveFloor
<1> QED
  BY <1>1, Typed, StepAboveFloor, PTL DEF Spec

LEMMA StepSimulated ==
  ASSUME IInv, CountedAboveFloor, [Next]_vars
  PROVE  [Ledger!Next]_<<usage, excluded>>
<1>1. CASE IngestJSONL
  BY <1>1, CountedByIngest DEF IngestJSONL, Ledger!Next, Ledger!Count
<1>2. CASE Retire(cycle.now - Retention)
  <2> DEFINE cutoff == cycle.now - Retention
  <2>1. cutoff \in Int /\ cutoff <= MaxClock /\ excluded \in Nat
    BY BoundsAreNaturals DEF IInv, TypeOK, Cycle, Time
  <2>2. usage' = {call \in usage : ~(call.at < cutoff)} /\ excluded' = Larger(excluded, cutoff)
    BY <1>2 DEF Retire, Expired, Boundary
  <2>3. \A call \in usage : call.at \in Int
    BY DEF IInv, TypeOK, Call, Time
  <2> HIDE DEF cutoff
  <2>4. CASE cutoff > excluded
    <3>1. excluded' = cutoff /\ cutoff \in Time
      BY <2>1, <2>2, <2>4, BoundsAreNaturals DEF Larger, Time
    <3>2. usage' = {call \in usage : call.at >= excluded'}
      BY <2>1, <2>2, <2>3, <3>1
    <3> QED
      BY <2>4, <3>1, <3>2 DEF Ledger!Next, Ledger!Expire
  <2>5. CASE ~(cutoff > excluded)
    <3>1. excluded' = excluded
      BY <2>1, <2>2, <2>5 DEF Larger
    <3>2. usage' = usage
      BY <2>1, <2>2, <2>3, <2>5 DEF CountedAboveFloor
    <3> QED
      BY <3>1, <3>2
  <2> QED
    BY <2>4, <2>5
<1>3. CASE ~IngestJSONL /\ ~Retire(cycle.now - Retention)
  BY <1>3, OnlyIngestAndRetire
<1> QED
  BY <1>1, <1>2, <1>3

\* Ingest, replay and retention together keep the promise of the ledger: a call
\* is counted at most once, and an expired one never comes back.
THEOREM ImplementsLedgerAlways == Spec => ImplementsLedger
<1>1. Init => Ledger!Init
  BY DEF Init, Ledger!Init
<1> QED
  BY <1>1, Typed, CountedAboveFloorAlways, StepSimulated, PTL
  DEF Spec, ImplementsLedger, Ledger!Spec

\* Every variable of the log and of its ingest keeps its type, for every retention,
\* skew and bound.
THEOREM TypeCorrect == Spec => []TypeOK
BY Typed, PTL DEF IInv

-----------------------------------------------------------------------------
(* The claims of the cursor and of usageObservedThrough.                   *)

\* The oldest start of a call that is kept today.
Oldest == Larger(Larger(clock - Retention, HistoryResetAt), excluded)

LEMMA AppendFacts ==
  ASSUME IInv, IdsFollow, WriteLine \/ WriteGarbage
  PROVE  /\ UNCHANGED <<clock, cycle, database, files, excused>>
         /\ NewId' = NewId + 1 /\ NewId \in Nat
         /\ log'.ino = log.ino /\ log'.tail = "none"
         /\ \E line \in Line :
              /\ line.id = NewId /\ line.logged = clock /\ line.at <= clock
              /\ log'.lines = Append(log.lines, line)
              /\ written' = written \cup {line}
<1>1. PICK wellFormed \in BOOLEAN : Complete(wellFormed) /\ NewId <= MaxLines
  BY DEF WriteLine, WriteGarbage
<1>2. PICK at \in Time :
        LET line == [id |-> NewId, at |-> at, wellFormed |-> wellFormed, logged |-> clock]
        IN  /\ at \in (clock - CallTime) .. clock
            /\ log' = [log EXCEPT !.lines = Append(@, line), !.tail = "none", !.begun = 0]
            /\ written' = written \cup {line}
  BY <1>1 DEF Complete
<1> DEFINE line == [id |-> NewId, at |-> at, wellFormed |-> wellFormed, logged |-> clock]
<1>3. Cardinality(written) \in Nat /\ NewId \in Nat /\ NewId >= 1
  BY FS_CardinalityType DEF IInv, NewId
<1>4. line \in Line
  BY <1>1, <1>3, BoundsAreNaturals DEF IInv, TypeOK, Line
<1>5. line \notin written
  BY <1>3 DEF IdsFollow
<1>6. NewId' = NewId + 1
  <2>1. written' = written \cup {line}
    BY <1>2
  <2>2. Cardinality(written \cup {line}) = Cardinality(written) + 1
    BY <1>5, FS_AddElement DEF IInv
  <2> QED
    BY <1>3, <2>1, <2>2 DEF NewId
<1>7. log'.ino = log.ino /\ log'.tail = "none" /\ log'.lines = Append(log.lines, line)
  <2>1. log \in File
    BY DEF IInv, TypeOK
  <2> QED
    BY <1>2, <2>1 DEF File
<1>8. line.id = NewId /\ line.logged = clock /\ line.at <= clock
  BY <1>2 DEF IInv, TypeOK, Time
<1>9. UNCHANGED <<clock, cycle, database, files, excused>>
  BY DEF WriteLine, WriteGarbage
<1>10. written' = written \cup {line}
  BY <1>2
<1> QED
  BY <1>3, <1>4, <1>6, <1>7, <1>8, <1>9, <1>10

LEMMA LastOf ==
  ASSUME NEW S, NEW s \in Seq(S), NEW k \in 0 .. Len(s)
  PROVE  /\ Len(SubSeq(s, Len(s) - k + 1, Len(s))) = k
         /\ \A i \in 1 .. k : SubSeq(s, Len(s) - k + 1, Len(s))[i] = s[Len(s) - k + i]
<1>1. Len(s) \in Nat
  OBVIOUS
<1> QED
  BY <1>1

\* A new file starts with the last lines of the old one, or with none.
LEMMA CutFacts ==
  ASSUME IInv, FilesFollow, Rotate \/ TruncateInPlace
  PROVE  /\ UNCHANGED <<clock, written, cycle, database>>
         /\ Overlooked
         /\ log'.tail = "none"
         /\ \/ files' = files /\ log'.ino = log.ino
            \/ files' = files + 1 /\ log'.ino = files + 1
         /\ \E kept \in 0 .. Len(log.lines) :
              /\ Len(log'.lines) = kept
              /\ \A i \in 1 .. kept : log'.lines[i] = log.lines[Len(log.lines) - kept + i]
<1>1. log \in File /\ log.lines \in Seq(Line) /\ Len(log.lines) \in Nat
  BY DEF IInv, TypeOK, File
<1>2. UNCHANGED <<clock, written, cycle, database>> /\ Overlooked
  BY DEF Rotate, TruncateInPlace
<1>3. CASE TruncateInPlace
  <2>1. log'.lines = <<>> /\ log'.tail = "none" /\ log'.ino = log.ino /\ files' = files
    BY <1>1, <1>3 DEF TruncateInPlace, File
  <2>2. 0 \in 0 .. Len(log.lines) /\ Len(log'.lines) = 0
    BY <1>1, <2>1
  <2> QED
    BY <1>2, <2>1, <2>2
<1>4. CASE Rotate
  <2>1. PICK kept \in 0 .. Len(log.lines) :
          log' = [log EXCEPT !.ino = files + 1,
                             !.lines = SubSeq(@, Len(@) - kept + 1, Len(@))]
    BY <1>4 DEF Rotate
  <2>2. /\ log'.lines = SubSeq(log.lines, Len(log.lines) - kept + 1, Len(log.lines))
        /\ log'.tail = "none" /\ log'.ino = files + 1 /\ files' = files + 1
    BY <1>1, <1>4, <2>1 DEF Rotate, File
  <2>3. /\ Len(log'.lines) = kept
        /\ \A i \in 1 .. kept : log'.lines[i] = log.lines[Len(log.lines) - kept + i]
    <3>1. log'.lines = SubSeq(log.lines, Len(log.lines) - kept + 1, Len(log.lines))
      BY <2>2
    <3>2. /\ Len(SubSeq(log.lines, Len(log.lines) - kept + 1, Len(log.lines))) = kept
          /\ \A i \in 1 .. kept :
               SubSeq(log.lines, Len(log.lines) - kept + 1, Len(log.lines))[i]
                 = log.lines[Len(log.lines) - kept + i]
      BY <1>1, LastOf
    <3> QED
      BY <3>1, <3>2
  <2> QED
    BY <1>2, <2>2, <2>3
<1> QED
  BY <1>3, <1>4

\* The file and what was ever written in it change by OpenCodex only.
LEMMA OnlyOpenCodex ==
  ASSUME [Next]_vars, ~(WriteLine \/ WriteGarbage), ~WritePart, ~(Rotate \/ TruncateInPlace)
  PROVE  UNCHANGED <<log, written, files>>
BY DEF Next, OpenCodex, CycleStep, StartCycle, Stat, IngestJSONL, Retire, Maintain,
       MaintainUnnoted, MaintainFails, SkipMaintenance, Abandon, ChangePrices, Tick,
       SetBack, vars, outside

LEMMA IdsFollowStep ==
  ASSUME IInv, IdsFollow, FilesFollow, [Next]_vars
  PROVE  IdsFollow'
<1>0. log.lines \in Seq(Line)
  BY DEF IInv, TypeOK, File
<1>9. Len(log.lines) \in Nat /\ NewId \in Nat
  BY <1>0, FS_CardinalityType DEF IInv, NewId
<1>1. CASE WriteLine \/ WriteGarbage
  <2>1. /\ NewId' = NewId + 1 /\ log'.tail = "none"
    BY <1>1, AppendFacts
  <2>2. PICK line \in Line : /\ line.id = NewId
                            /\ log'.lines = Append(log.lines, line)
                            /\ written' = written \cup {line}
    BY <1>1, AppendFacts
  <2>3. \A old \in written : old.id < NewId /\ old.id \in Int
    BY DEF IdsFollow, IInv, TypeOK, Line
  <2>4. /\ \A a \in written' : a.id < NewId'
        /\ \A a, b \in written' : a.id = b.id => a = b
    BY <1>9, <2>1, <2>2, <2>3 DEF IdsFollow
  <2>5. ASSUME NEW i \in 1 .. Len(log'.lines)
        PROVE  log'.lines[i] \in written' /\ log'.lines[i].id = NewId' - Len(log'.lines) + i - 1
    <3>1. Len(log'.lines) = Len(log.lines) + 1
      BY <1>0, <2>2
    <3>2. CASE i = Len(log.lines) + 1
      <4>1. log'.lines[i] = line
        BY <1>0, <2>2, <3>2
      <4> QED
        BY <1>9, <2>1, <2>2, <3>1, <3>2, <4>1
    <3>3. CASE i \in 1 .. Len(log.lines)
      <4>1. log'.lines[i] = log.lines[i]
        BY <1>0, <2>2, <3>3
      <4>2. log.lines[i] \in written /\ log.lines[i].id = NewId - Len(log.lines) + i - 1
        BY <3>3 DEF IdsFollow
      <4>3. log.lines[i] \in written'
        BY <2>2, <4>2
      <4>4. NewId - Len(log.lines) + i - 1 = NewId' - Len(log'.lines) + i - 1
        BY <1>9, <2>1, <3>1, <3>3
      <4> QED
        BY <4>1, <4>2, <4>3, <4>4
    <3> QED
      BY <1>9, <2>5, <3>1, <3>2, <3>3
  <2> QED
    BY <2>1, <2>4, <2>5 DEF IdsFollow
<1>2. CASE WritePart
  <2>1. written' = written /\ log'.lines = log.lines /\ NewId' = NewId /\ NewId <= MaxLines
    BY <1>2 DEF WritePart, NewId, IInv, TypeOK, File
  <2> QED
    BY <2>1 DEF IdsFollow
<1>3. CASE Rotate \/ TruncateInPlace
  <2>1. written' = written /\ NewId' = NewId /\ log'.tail = "none"
    BY <1>3, CutFacts DEF NewId
  <2>2. PICK kept \in 0 .. Len(log.lines) :
          /\ Len(log'.lines) = kept
          /\ \A i \in 1 .. kept : log'.lines[i] = log.lines[Len(log.lines) - kept + i]
    BY <1>3, CutFacts
  <2>3. ASSUME NEW i \in 1 .. kept
        PROVE  log'.lines[i] \in written /\ log'.lines[i].id = NewId - kept + i - 1
    <3> DEFINE old == Len(log.lines) - kept + i
    <3>1. old \in 1 .. Len(log.lines)
      BY <1>9
    <3>2. log'.lines[i] = log.lines[old]
      BY <2>2
    <3>3. log.lines[old] \in written /\ log.lines[old].id = NewId - Len(log.lines) + old - 1
      BY <3>1 DEF IdsFollow
    <3>4. NewId - Len(log.lines) + old - 1 = NewId - kept + i - 1
      <4>1. PICK n \in Int, l \in Int : n = NewId /\ l = Len(log.lines)
        BY <1>9
      <4>2. kept \in Int /\ i \in Int
        BY <1>9
      <4>3. n - l + (l - kept + i) - 1 = n - kept + i - 1
        BY <4>2
      <4> QED
        BY <4>1, <4>3
    <3> QED
      BY <3>2, <3>3, <3>4
  <2> QED
    BY <2>1, <2>2, <2>3 DEF IdsFollow
<1>4. CASE ~(WriteLine \/ WriteGarbage) /\ ~WritePart /\ ~(Rotate \/ TruncateInPlace)
  BY <1>4, OnlyOpenCodex DEF IdsFollow, NewId
<1> QED
  BY <1>1, <1>2, <1>3, <1>4

\* A cycle ends, at whatever step, and leaves the log alone.
LEMMA CycleEnds ==
  ASSUME Maintain \/ MaintainUnnoted \/ MaintainFails \/ SkipMaintenance \/ Abandon
  PROVE  cycle' = Idle /\ UNCHANGED <<outside, cursor, replayDue, since, through>>
BY DEF Maintain, MaintainUnnoted, Retire, MaintainFails, SkipMaintenance, Abandon, database

\* What is excused once is excused for ever, and a clock set back is excused.
LEMMA ExcusedStays ==
  ASSUME IInv, [Next]_vars, ~excused'
  PROVE  ~excused /\ ~SetBack
<1>1. ~SetBack
  BY DEF SetBack
<1>2. CASE Rotate \/ TruncateInPlace
  <2>1. excused' = (excused \/ (cursor.offset > 0 /\ cursor.print = Unprinted))
    BY <1>2 DEF Rotate, TruncateInPlace, Overlooked
  <2>2. excused => excused' = TRUE
    BY <2>1, Zenon
  <2> QED
    BY <1>1, <2>2
<1>3. CASE WriteLine \/ WriteGarbage \/ WritePart
  <2>1. excused' = excused
    BY <1>3 DEF WriteLine, WriteGarbage, WritePart
  <2> QED
    BY <1>1, <2>1
<1>4. CASE CycleStep \/ MaintainUnnoted \/ Abandon
  <2>1. excused' = excused
    BY <1>4, CycleEnds DEF CycleStep, StartCycle, Stat, IngestJSONL, outside
  <2> QED
    BY <1>1, <2>1
<1>5. CASE ChangePrices \/ Tick \/ UNCHANGED vars
  BY <1>1, <1>5 DEF ChangePrices, Tick, vars
<1> QED
  BY <1>1, <1>2, <1>3, <1>4, <1>5 DEF Next, OpenCodex

\* Time passes by Tick, and jumps by SetBack.
LEMMA ClockSteps ==
  ASSUME [Next]_vars, ~Tick, ~SetBack
  PROVE  clock' = clock
<1>1. CASE OpenCodex
  BY <1>1 DEF OpenCodex, WriteLine, WriteGarbage, WritePart, Rotate, TruncateInPlace
<1>2. CASE CycleStep \/ MaintainUnnoted \/ Abandon
  BY <1>2, CycleEnds DEF CycleStep, StartCycle, Stat, IngestJSONL, outside
<1>3. CASE ChangePrices \/ UNCHANGED vars
  BY <1>3 DEF ChangePrices, vars
<1> QED
  BY <1>1, <1>2, <1>3 DEF Next

LEMMA FilesFollowStep ==
  ASSUME IInv, FilesFollow, [Next]_vars
  PROVE  FilesFollow'
<1>0. files \in Nat /\ cycle \in Cycle /\ log \in File
  BY DEF IInv, TypeOK
<1>1. CASE WriteLine \/ WriteGarbage \/ WritePart
  <2>1. log'.ino = log.ino /\ UNCHANGED <<files, cursor, cycle>>
    BY <1>0, <1>1 DEF WriteLine, WriteGarbage, WritePart, Complete, database, File
  <2> QED
    BY <2>1 DEF FilesFollow
<1>2. CASE Rotate \/ TruncateInPlace
  <2>1. /\ UNCHANGED <<cycle, cursor>>
        /\ \/ files' = files /\ log'.ino = log.ino
           \/ files' = files + 1 /\ log'.ino = files + 1
    BY <1>2, CutFacts DEF database
  <2>2. cursor.ino \in Nat /\ cycle.ino \in Nat
    BY DEF IInv, TypeOK, Cursor, Cycle
  <2> QED
    BY <1>0, <2>1, <2>2 DEF FilesFollow
<1>3. CASE Stat
  <2>1. /\ cycle'.ino = log.ino /\ cycle'.lines = Len(log.lines)
        /\ cycle'.long = LongEnough(log)
        /\ UNCHANGED <<log, files, cursor>>
    BY <1>0, <1>3 DEF Stat, Cycle, outside, database
  <2>2. ~LongEnough(log) => Len(log.lines) = 0
    BY DEF LongEnough
  <2> QED
    BY <1>0, <2>1, <2>2 DEF FilesFollow
<1>4. CASE IngestJSONL
  <2>1. /\ cycle'.ino = cycle.ino /\ cycle'.pc = "ingested" /\ cursor'.ino = cycle.ino
        /\ UNCHANGED <<log, files>>
    BY <1>0, <1>4 DEF IngestJSONL, Cycle, outside
  <2> QED
    BY <2>1 DEF FilesFollow
<1>5. CASE StartCycle \/ Maintain \/ MaintainUnnoted \/ MaintainFails \/ SkipMaintenance
            \/ Abandon
  <2>1. cycle'.ino = 0 /\ cycle'.pc # "seen" /\ UNCHANGED <<log, files, cursor>>
    <3>1. CASE StartCycle
      BY <3>1 DEF StartCycle, Idle, outside, database
    <3> QED
      BY <1>5, <3>1, CycleEnds DEF Idle, outside
  <2> QED
    BY <1>0, <2>1 DEF FilesFollow
<1>6. CASE ChangePrices \/ Tick \/ SetBack \/ UNCHANGED vars
  BY <1>6 DEF ChangePrices, Tick, SetBack, vars, database, FilesFollow
<1> QED
  BY <1>1, <1>2, <1>3, <1>4, <1>5, <1>6 DEF Next, OpenCodex, CycleStep

LEMMA TimesFollowStep ==
  ASSUME IInv, IdsFollow, FilesFollow, TimesFollow, [Next]_vars
  PROVE  TimesFollow'
<1> SUFFICES ASSUME ~excused'
             PROVE  /\ \A line \in written' : line.at <= line.logged /\ line.logged <= clock'
                    /\ through' <= clock'
                    /\ cycle'.pc # "idle" => cycle'.now <= clock'
                    /\ cycle'.pc \in {"started", "seen"} => clock' <= cycle'.now + MaxLag
  BY DEF TimesFollow
<1>0. /\ \A line \in written : line.at <= line.logged /\ line.logged <= clock
      /\ through <= clock
      /\ cycle.pc # "idle" => cycle.now <= clock
      /\ cycle.pc \in {"started", "seen"} => clock <= cycle.now + MaxLag
      /\ ~SetBack
  BY ExcusedStays DEF TimesFollow
<1>1. /\ clock \in Nat /\ cycle.now \in Nat /\ through \in Int /\ MaxLag \in Nat
      /\ cycle \in Cycle
      /\ \A line \in written : line.logged \in Nat
  BY BoundsAreNaturals DEF IInv, TypeOK, Time, Cycle, Never, Line
<1>2. CASE WriteLine \/ WriteGarbage
  <2>1. /\ UNCHANGED <<clock, cycle, through>>
        /\ \E line \in Line : /\ line.logged = clock /\ line.at <= clock
                             /\ written' = written \cup {line}
    BY <1>2, AppendFacts DEF database
  <2> QED
    BY <1>0, <1>1, <2>1
<1>3. CASE WritePart \/ Rotate \/ TruncateInPlace \/ ChangePrices \/ UNCHANGED vars
  <2>1. UNCHANGED <<clock, written, cycle, through>>
    BY <1>3 DEF WritePart, Rotate, TruncateInPlace, ChangePrices, vars, database
  <2> QED
    BY <1>0, <2>1
<1>4. CASE StartCycle
  <2>1. cycle'.now = clock /\ UNCHANGED <<clock, written, through>>
    BY <1>4 DEF StartCycle, Idle, outside, database
  <2> QED
    BY <1>0, <1>1, <2>1
<1>5. CASE Stat
  <2>1. /\ cycle'.now = cycle.now /\ cycle.pc = "started"
        /\ UNCHANGED <<clock, written, through>>
    BY <1>1, <1>5 DEF Stat, Cycle, outside, database
  <2> QED
    BY <1>0, <2>1
<1>6. CASE IngestJSONL
  <2>1. /\ cycle.pc = "seen" /\ cycle'.now = cycle.now /\ cycle'.pc = "ingested"
        /\ through' \in {through, cycle.now} /\ UNCHANGED <<clock, written>>
    BY <1>1, <1>6 DEF IngestJSONL, Cycle, outside
  <2> QED
    BY <1>0, <2>1
<1>7. CASE Maintain \/ MaintainUnnoted \/ MaintainFails \/ SkipMaintenance \/ Abandon
  <2>1. cycle'.pc = "idle" /\ UNCHANGED <<clock, written, through>>
    BY <1>7, CycleEnds DEF Idle, outside
  <2> QED
    BY <1>0, <2>1
<1>8. CASE Tick
  <2>1. /\ clock' = clock + 1 /\ UNCHANGED <<written, cycle, through>>
        /\ cycle.pc \in {"started", "seen"} => clock + 1 - cycle.now <= MaxLag
    BY <1>8 DEF Tick, database
  <2> QED
    BY <1>0, <1>1, <2>1
<1> QED
  BY <1>0, <1>2, <1>3, <1>4, <1>5, <1>6, <1>7, <1>8 DEF Next, OpenCodex, CycleStep

\* What is kept today was kept before, and nothing that is kept is deleted.
LEMMA OldestRises ==
  ASSUME IInv, FilesFollow, TimesFollow, [Next]_vars, ~excused'
  PROVE  Oldest \in Int /\ Oldest' \in Int /\ Oldest' >= Oldest
<1>0. /\ clock \in Nat /\ excluded \in Nat /\ Retention \in Nat /\ HistoryResetAt \in Nat
  BY BoundsAreNaturals DEF IInv, TypeOK, Time
<1>1. clock' \in Nat /\ excluded' \in Nat
  BY StepTyped DEF IInv, TypeOK, Time
<1>2. clock' >= clock
  <2>1. CASE Tick
    BY <1>0, <2>1 DEF Tick
  <2>2. CASE ~Tick
    BY <1>0, <2>2, ExcusedStays, ClockSteps
  <2> QED
    BY <2>1, <2>2
<1>3. excluded' >= excluded
  <2>1. CASE Retire(cycle.now - Retention)
    <3>1. cycle.now \in Nat
      BY DEF IInv, TypeOK, Cycle, Time
    <3> QED
      BY <1>0, <2>1, <3>1 DEF Retire, Boundary, Larger
  <2>2. CASE ~Retire(cycle.now - Retention)
    <3>1. excluded' = excluded
      BY <2>2, OnlyIngestAndRetire DEF IngestJSONL
    <3> QED
      BY <1>0, <3>1
  <2> QED
    BY <2>1, <2>2
<1> DEFINE span == Larger(clock - Retention, HistoryResetAt)
           span2 == Larger(clock' - Retention, HistoryResetAt)
<1>4. span \in Int /\ span2 \in Int /\ span2 >= span
  <2>1. PICK now \in Int, then \in Int, r \in Int, h \in Int :
          now = clock' /\ then = clock /\ r = Retention /\ h = HistoryResetAt
    BY <1>0, <1>1
  <2>2. /\ Larger(now - r, h) \in Int /\ Larger(then - r, h) \in Int
        /\ now >= then => Larger(now - r, h) >= Larger(then - r, h)
    BY DEF Larger
  <2> QED
    BY <1>2, <2>1, <2>2
<1>5. Oldest = Larger(span, excluded) /\ Oldest' = Larger(span2, excluded')
  BY DEF Oldest
<1> HIDE DEF span, span2
<1> QED
  BY <1>0, <1>1, <1>3, <1>4, <1>5 DEF Larger

LEMMA KeptIsCounted ==
  ASSUME IInv, FilesFollow, TimesFollow, [Next]_vars, ~excused'
  PROVE  \A line \in Line :
           line.at >= Oldest' /\ CallOf(line) \in usage => CallOf(line) \in usage'
<1> SUFFICES ASSUME NEW line \in Line, line.at >= Oldest', CallOf(line) \in usage
             PROVE  CallOf(line) \in usage'
  OBVIOUS
<1>1. CASE Retire(cycle.now - Retention)
  <2>1. /\ usage' = {call \in usage : ~(call.at < cycle.now - Retention)}
        /\ cycle.pc = "ingested" /\ UNCHANGED clock
    BY <1>1 DEF Retire, Expired, outside
  <2>2. clock >= cycle.now
    BY <2>1, ExcusedStays DEF TimesFollow
  <2>3. clock \in Nat /\ cycle.now \in Nat /\ Retention \in Nat /\ line.at \in Nat
    BY BoundsAreNaturals DEF IInv, TypeOK, Cycle, Time, Line
  <2>4. Oldest' >= clock - Retention /\ Oldest' \in Int
    <3>1. excluded' \in Nat /\ HistoryResetAt \in Nat
      BY StepTyped, BoundsAreNaturals DEF IInv, TypeOK, Time
    <3> QED
      BY <2>1, <2>3, <3>1 DEF Oldest, Larger
  <2>5. CallOf(line).at = line.at
    BY DEF CallOf
  <2> QED
    BY <2>1, <2>2, <2>3, <2>4, <2>5
<1>2. CASE IngestJSONL
  BY <1>2, CountedByIngest
<1>3. CASE ~IngestJSONL /\ ~Retire(cycle.now - Retention)
  BY <1>3, OnlyIngestAndRetire
<1> QED
  BY <1>1, <1>2, <1>3

-----------------------------------------------------------------------------
\* A line that is complete is told apart by its id: it is the one of the file if
\* its id is one of the file's.
LEMMA ByItsId ==
  ASSUME IInv, IdsFollow, NEW line \in written, line.id >= NewId - Len(log.lines)
  PROVE  line \in Lines
<1>1. /\ line.id \in Int /\ line.id < NewId
      /\ Len(log.lines) \in Nat /\ NewId \in Nat
  BY FS_CardinalityType DEF IInv, TypeOK, Line, File, IdsFollow, NewId
<1>2. PICK i \in 1 .. Len(log.lines) : NewId - Len(log.lines) + i - 1 = line.id
  <2>1. PICK id \in Int, n \in Int, l \in Int :
          id = line.id /\ n = NewId /\ l = Len(log.lines)
    BY <1>1
  <2>2. id - (n - l) + 1 \in 1 .. l
    BY <1>1, <2>1
  <2>3. n - l + (id - (n - l) + 1) - 1 = id
    BY <2>1
  <2> QED
    BY <2>1, <2>2, <2>3
<1>3. log.lines[i] \in written /\ log.lines[i].id = line.id
  BY <1>2 DEF IdsFollow
<1> QED
  BY <1>3 DEF IdsFollow, Lines

\* What the fingerprint of the file that is open says of it.
LEMMA PrintFacts ==
  ASSUME IInv, IdsFollow
  PROVE  LET print == FileFingerprint IN
         \/ print = Unprinted /\ ~cycle.long
         \/ /\ print \in 1 .. MaxLines /\ cycle.long
            /\ print + Len(log.lines) = NewId
         \/ print = Torn /\ Len(log.lines) = 0
<1>1. CASE ~cycle.long
  BY <1>1 DEF FileFingerprint
<1>2. CASE cycle.long /\ log.lines # <<>>
  <2>1. Len(log.lines) \in Nat /\ Len(log.lines) >= 1 /\ NewId \in Nat
    BY <1>2, FS_CardinalityType DEF IInv, TypeOK, File, NewId
  <2>2. /\ log.lines[1].id = NewId - Len(log.lines) + 1 - 1
        /\ log.lines[1] \in Line
    BY <2>1 DEF IdsFollow, IInv, TypeOK
  <2>3. PICK n \in Int, l \in Int : n = NewId /\ l = Len(log.lines)
    BY <2>1
  <2>4. (n - l + 1 - 1) + l = n
    OBVIOUS
  <2> QED
    BY <1>2, <2>2, <2>3, <2>4 DEF FileFingerprint, Line
<1>3. CASE cycle.long /\ log.lines = <<>>
  <2>1. NewId \in Nat /\ NewId >= 1
    BY FS_CardinalityType DEF IInv, NewId
  <2>2. Len(log.lines) = 0
    BY <1>3
  <2> QED
    BY <1>3, <2>1, <2>2 DEF FileFingerprint, IdsFollow
<1> QED
  BY <1>1, <1>2, <1>3

\* The lines in front of the place that the ingest resumes at are in the file it
\* opened, and counted.
LEMMA ResumeWithin ==
  ASSUME IInv, IdsFollow, FilesFollow, CursorHolds, ~excused, cycle.pc = "seen"
  PROVE  /\ ResumeAt(FileFingerprint) \in 0 .. Len(log.lines)
         /\ \A i \in 1 .. ResumeAt(FileFingerprint) :
              log.lines[i].wellFormed /\ log.lines[i].at >= Oldest
                => CallOf(log.lines[i]) \in usage
<1> DEFINE print == FileFingerprint
           offset == ResumeAt(print)
<1>0. /\ Len(log.lines) \in Nat /\ cursor.offset \in Nat /\ cycle.lines \in Nat
      /\ NewId \in Nat
  BY FS_CardinalityType DEF IInv, TypeOK, File, Cursor, Cycle, NewId
<1>1. CASE offset = 0
  BY <1>0, <1>1
<1>2. CASE offset # 0
  <2>1. /\ cursor.ino = cycle.ino /\ cursor.print \in {Unprinted, print}
        /\ offset = cursor.offset /\ cursor.offset <= cycle.lines /\ cursor.offset > 0
    BY <1>0, <1>2 DEF ResumeAt, SameFile
  <2>2. cycle.long
    BY <1>0, <2>1 DEF FilesFollow
  <2>3. CASE cursor.print = Unprinted
    <3>1. log.ino = cursor.ino
      BY <2>1, <2>3 DEF CursorHolds
    <3> QED
      BY <1>0, <2>1, <2>3, <3>1 DEF CursorHolds, Kept, Cutoff, Oldest
  <2>4. CASE cursor.print # Unprinted
    <3>1. cursor.print = print
      BY <2>1, <2>4
    <3>2. print # Torn
      BY <2>1, <3>1 DEF CursorHolds
    <3>3. print \in 1 .. MaxLines /\ print + Len(log.lines) = NewId
      BY <2>4, <3>1, <3>2, PrintFacts
    <3> HIDE DEF print, offset
    <3>4. print + cursor.offset <= NewId
      BY <3>1, <3>3 DEF CursorHolds
    <3>5. cursor.offset <= Len(log.lines)
      BY <1>0, <3>3, <3>4
    <3>6. ASSUME NEW i \in 1 .. cursor.offset,
                 log.lines[i].wellFormed, log.lines[i].at >= Oldest
          PROVE  CallOf(log.lines[i]) \in usage
      <4>1. log.lines[i] \in written /\ log.lines[i].id = NewId - Len(log.lines) + i - 1
        <5>1. i \in 1 .. Len(log.lines)
          BY <1>0, <3>5
        <5> QED
          BY <5>1 DEF IdsFollow
      <4>2. log.lines[i].id \in print .. print + cursor.offset - 1
        <5>1. PICK p \in Int, l \in Int, o \in Int :
                p = print /\ l = Len(log.lines) /\ o = cursor.offset
          BY <1>0, <3>3
        <5>2. (p + l) - l + i - 1 \in p .. p + o - 1
          BY <5>1
        <5> QED
          BY <3>3, <4>1, <5>1, <5>2
      <4> QED
        BY <3>1, <3>3, <3>6, <4>1, <4>2 DEF CursorHolds, Kept, Cutoff, Oldest
    <3> QED
      BY <1>0, <2>1, <3>5, <3>6 DEF offset, print
  <2> QED
    BY <2>3, <2>4
<1> QED
  BY <1>1, <1>2

\* After a read of the log, every line of it that is kept is counted, if the log is
\* reached soon enough after the time the read is made with.
LEMMA IngestReads ==
  ASSUME IInv, IdsFollow, FilesFollow, TimesFollow, CursorHolds, ~excused, IngestJSONL,
         MaxLag <= Skew
  PROVE  /\ \A line \in Lines :
              line.wellFormed /\ line.at >= Oldest => CallOf(line) \in usage'
         /\ cursor' = [ino |-> cycle.ino, offset |-> Len(log.lines), print |-> FileFingerprint]
         /\ through' = IF log.tail = "none" THEN cycle.now ELSE through
         /\ cycle.pc = "seen"
<1> DEFINE offset == ResumeAt(FileFingerprint)
<1>0. /\ cycle.pc = "seen" /\ Len(log.lines) \in Nat
      /\ offset \in 0 .. Len(log.lines)
      /\ \A i \in 1 .. offset :
           log.lines[i].wellFormed /\ log.lines[i].at >= Oldest
             => CallOf(log.lines[i]) \in usage
  BY ResumeWithin DEF IngestJSONL, IInv, TypeOK, File
<1>1. /\ usage' = usage \cup {CallOf(log.lines[i]) :
                               i \in {j \in offset + 1 .. Len(log.lines) :
                                        Counts(log.lines[j])}}
      /\ cursor' = [ino |-> cycle.ino, offset |-> Consumed(offset),
                    print |-> FileFingerprint]
      /\ through' = IF CompleteTail(offset) THEN cycle.now ELSE through
  BY DEF IngestJSONL
<1> HIDE DEF offset
<1>2. Consumed(offset) = Len(log.lines) /\ (CompleteTail(offset) <=> log.tail = "none")
  BY <1>0 DEF Consumed, CompleteTail, Larger
<1>3. \A line \in Line : line \in written /\ line.wellFormed /\ line.at >= Oldest => Counts(line)
  <2> SUFFICES ASSUME NEW line \in Line, line \in written, line.wellFormed, line.at >= Oldest
               PROVE  Counts(line)
    OBVIOUS
  <2>1. /\ clock \in Int /\ cycle.now \in Int /\ MaxLag \in Int /\ Skew \in Int
        /\ Retention \in Int /\ HistoryResetAt \in Int /\ excluded \in Int
        /\ line.at \in Int /\ line.logged \in Int
    BY BoundsAreNaturals DEF IInv, TypeOK, Time, Cycle, Line
  <2>2. /\ line.at <= line.logged /\ line.logged <= clock
        /\ cycle.now <= clock /\ clock <= cycle.now + MaxLag
    BY <1>0 DEF TimesFollow
  <2>3. line.at <= cycle.now + Skew
    BY <2>1, <2>2
  <2>4. line.at >= Cutoff(cycle.now)
    <3>1. PICK now \in Int, later \in Int, r \in Int, h \in Int, e \in Int :
            /\ now = cycle.now /\ later = clock /\ r = Retention /\ h = HistoryResetAt
            /\ e = excluded
      BY <2>1
    <3>2. line.at >= Larger(Larger(later - r, h), e)
      BY <3>1 DEF Oldest
    <3>3. later >= now
      BY <2>2, <3>1
    <3>4. line.at >= Larger(Larger(now - r, h), e)
      BY <2>1, <3>2, <3>3 DEF Larger
    <3> QED
      BY <3>1, <3>4 DEF Cutoff
  <2> QED
    BY <2>3, <2>4 DEF Counts
<1>4. ASSUME NEW i \in 1 .. Len(log.lines),
             log.lines[i].wellFormed, log.lines[i].at >= Oldest
      PROVE  CallOf(log.lines[i]) \in usage'
  <2>1. CASE i \in 1 .. offset
    BY <1>0, <1>1, <1>4, <2>1
  <2>2. CASE i \in offset + 1 .. Len(log.lines)
    <3>1. Counts(log.lines[i])
      BY <1>3, <1>4 DEF IdsFollow, IInv, TypeOK
    <3> QED
      BY <1>1, <2>2, <3>1
  <2> QED
    BY <1>0, <2>1, <2>2
<1> QED
  BY <1>0, <1>1, <1>2, <1>4 DEF Lines

LEMMA IngestHolds ==
  ASSUME IInv, IdsFollow, FilesFollow, TimesFollow, CursorHolds, [Next]_vars, IngestJSONL,
         MaxLag <= Skew, ~excused'
  PROVE  CursorHolds'
<1>0. ~excused
  BY ExcusedStays
<1>1. /\ \A line \in Lines :
           line.wellFormed /\ line.at >= Oldest => CallOf(line) \in usage'
      /\ cursor' = [ino |-> cycle.ino, offset |-> Len(log.lines), print |-> FileFingerprint]
  BY <1>0, IngestReads
<1>2. UNCHANGED <<log, written, clock, excluded>> /\ cycle'.pc = "ingested"
  BY DEF IngestJSONL, outside, IInv, TypeOK, Cycle
<1>3. Oldest' = Oldest /\ NewId' = NewId
  BY <1>2 DEF Oldest, NewId
<1>4. /\ cursor'.print = FileFingerprint /\ cursor'.offset = Len(log.lines)
      /\ Len(log.lines) \in Nat /\ NewId \in Nat
  BY <1>1, FS_CardinalityType DEF IInv, TypeOK, File, NewId
<1>5. ASSUME cursor'.print \in 1 .. MaxLines
      PROVE  /\ cursor'.print + cursor'.offset <= NewId
             /\ \A line \in written :
                  /\ line.id \in cursor'.print .. cursor'.print + cursor'.offset - 1
                  /\ line.wellFormed /\ line.at >= Oldest
                  => CallOf(line) \in usage'
  <2>1. /\ cursor'.print + Len(log.lines) = NewId
    BY <1>4, <1>5, PrintFacts, BoundsAreNaturals DEF Unprinted, Torn
  <2>2. ASSUME NEW line \in written, line.id >= cursor'.print
        PROVE  line \in Lines
    <3>1. PICK p \in Int, l \in Int, n \in Int :
            p = cursor'.print /\ l = Len(log.lines) /\ n = NewId
      BY <1>4, <1>5
    <3>2. p + l = n => p = n - l
      OBVIOUS
    <3>3. line.id >= NewId - Len(log.lines)
      BY <2>1, <2>2, <3>1, <3>2
    <3> QED
      BY <3>3, ByItsId
  <2>3. \A line \in written : line.id \in Int
    BY DEF IInv, TypeOK, Line
  <2> QED
    BY <1>1, <1>4, <1>5, <2>1, <2>2, <2>3
<1>6. cursor'.print = Torn => cursor'.offset = 0
  <2>1. Torn \notin 1 .. MaxLines /\ Torn # Unprinted
    BY BoundsAreNaturals DEF Unprinted, Torn
  <2> QED
    BY <1>4, <2>1, PrintFacts
<1>7. /\ cursor'.offset <= Len(log.lines)
      /\ \A i \in 1 .. cursor'.offset :
           log.lines[i].wellFormed /\ log.lines[i].at >= Oldest
             => CallOf(log.lines[i]) \in usage'
  BY <1>1, <1>4 DEF Lines
<1> QED
  BY <1>2, <1>3, <1>5, <1>6, <1>7 DEF CursorHolds, Kept, Cutoff, Oldest

\* A step that leaves the cursor and the lines in front of it alone.
LEMMA CursorKept ==
  ASSUME IInv, IdsFollow, FilesFollow, TimesFollow, CursorHolds, [Next]_vars, ~excused',
         cursor' = cursor, NewId' >= NewId, NewId' \in Nat,
         \A line \in written' : line \in written \/ line.id = NewId,
         cursor.print = Unprinted /\ cursor'.ino = log'.ino =>
           /\ cursor.offset <= Len(log'.lines)
           /\ \A i \in 1 .. cursor.offset : log.lines[i] = log'.lines[i]
           /\ cursor.offset > 0 => log'.ino = log.ino,
         cursor.print = Unprinted /\ cursor.offset > 0 /\ cycle'.pc = "seen"
           /\ cycle'.ino = cursor.ino => log'.ino = cursor.ino
  PROVE  CursorHolds'
<1>0. /\ ~excused
      /\ \A line \in Line :
           line.at >= Oldest' /\ CallOf(line) \in usage => CallOf(line) \in usage'
  BY ExcusedStays, KeptIsCounted
<1>1. /\ Oldest \in Int /\ Oldest' \in Int /\ Oldest' >= Oldest
      /\ \A line \in Line : line.at \in Int
  BY OldestRises, BoundsAreNaturals DEF Line, Time
<1>2. NewId \in Nat /\ cursor.offset \in Nat /\ cursor.print \in Nat
  BY FS_CardinalityType DEF IInv, TypeOK, Cursor, NewId
<1>3. ASSUME cursor.print \in 1 .. MaxLines
      PROVE  /\ cursor.print + cursor.offset <= NewId'
             /\ \A line \in written' :
                  /\ line.id \in cursor.print .. cursor.print + cursor.offset - 1
                  /\ line.wellFormed /\ line.at >= Oldest'
                  => CallOf(line) \in usage'
  <2>1. /\ cursor.print + cursor.offset <= NewId
        /\ \A line \in written :
             /\ line.id \in cursor.print .. cursor.print + cursor.offset - 1
             /\ line.wellFormed /\ line.at >= Oldest
             => CallOf(line) \in usage
    BY <1>0, <1>3 DEF CursorHolds, Kept, Cutoff, Oldest
  <2>2. NewId \notin cursor.print .. cursor.print + cursor.offset - 1
    BY <1>2, <2>1
  <2>3. written \subseteq Line
    BY DEF IInv, TypeOK
  <2>4. \A line \in Line : line.at >= Oldest' => line.at >= Oldest
    BY <1>1
  <2>5. cursor.print + cursor.offset <= NewId'
    BY <1>2, <2>1
  <2> QED
    BY <1>0, <2>1, <2>2, <2>3, <2>4, <2>5
<1>4. cursor.print = Torn => cursor.offset = 0
  BY <1>0 DEF CursorHolds
<1>5. ASSUME cursor.print = Unprinted, cursor.ino = log'.ino
      PROVE  /\ cursor.offset <= Len(log'.lines)
             /\ \A i \in 1 .. cursor.offset :
                  log'.lines[i].wellFormed /\ log'.lines[i].at >= Oldest'
                    => CallOf(log'.lines[i]) \in usage'
  <2>1. CASE cursor.offset = 0
    BY <1>5, <2>1
  <2>2. CASE cursor.offset > 0
    <3>1. /\ cursor.offset <= Len(log.lines)
          /\ \A i \in 1 .. cursor.offset :
               log.lines[i].wellFormed /\ log.lines[i].at >= Oldest
                 => CallOf(log.lines[i]) \in usage
      BY <1>0, <1>5, <2>2 DEF CursorHolds, Kept, Cutoff, Oldest
    <3>2. \A i \in 1 .. cursor.offset : log.lines[i] \in Line
      BY <1>2, <3>1 DEF IInv, TypeOK, File
    <3>3. \A line \in Line : line.at >= Oldest' => line.at >= Oldest
      BY <1>1
    <3>4. \A i \in 1 .. cursor.offset : log.lines[i] = log'.lines[i]
      BY <1>5
    <3> QED
      BY <1>0, <1>5, <3>1, <3>2, <3>3, <3>4
  <2> QED
    BY <1>2, <2>1, <2>2
<1> QED
  BY <1>3, <1>4, <1>5 DEF CursorHolds, Kept, Cutoff, Oldest

LEMMA CursorHoldsStep ==
  ASSUME IInv, IdsFollow, FilesFollow, TimesFollow, CursorHolds, [Next]_vars,
         MaxLag <= Skew
  PROVE  CursorHolds'
<1> SUFFICES ASSUME ~excused' PROVE CursorHolds'
  BY DEF CursorHolds
<1>0. /\ ~excused
      /\ log.lines \in Seq(Line) /\ Len(log.lines) \in Nat /\ NewId \in Nat
      /\ cursor.offset \in Nat
  BY ExcusedStays, FS_CardinalityType DEF IInv, TypeOK, File, Cursor, NewId
<1>1. /\ cursor.print = Unprinted /\ cursor.ino = log.ino => cursor.offset <= Len(log.lines)
      /\ cursor.print = Unprinted /\ cursor.offset > 0 /\ cycle.pc = "seen"
           /\ cycle.ino = cursor.ino => log.ino = cursor.ino
  BY <1>0 DEF CursorHolds
<1>2. CASE WriteLine \/ WriteGarbage
  <2>1. PICK line \in Line : /\ line.id = NewId
                            /\ log'.lines = Append(log.lines, line)
                            /\ written' = written \cup {line}
    BY <1>2, AppendFacts
  <2>2. /\ cursor' = cursor /\ cycle' = cycle /\ NewId' = NewId + 1 /\ log'.ino = log.ino
    BY <1>2, AppendFacts DEF database
  <2>3. /\ Len(log'.lines) = Len(log.lines) + 1
        /\ \A i \in 1 .. Len(log.lines) : log'.lines[i] = log.lines[i]
    BY <1>0, <2>1
  <2>4. NewId' >= NewId /\ NewId' \in Nat
    BY <1>0, <2>2
  <2> HIDE <1>2
  <2>5. cursor.print = Unprinted /\ cursor'.ino = log'.ino =>
          /\ cursor.offset <= Len(log'.lines)
          /\ \A i \in 1 .. cursor.offset : log.lines[i] = log'.lines[i]
    BY <1>0, <1>1, <2>2, <2>3
  <2> QED
    BY <1>1, <2>1, <2>2, <2>4, <2>5, CursorKept
<1>3. CASE WritePart
  <2>1. /\ UNCHANGED <<written, cursor, cycle>> /\ log'.lines = log.lines /\ log'.ino = log.ino
        /\ NewId' = NewId
    BY <1>3 DEF WritePart, NewId, database, IInv, TypeOK, File
  <2> QED
    BY <1>0, <1>1, <2>1, CursorKept
<1>4. CASE Rotate \/ TruncateInPlace
  <2>1. /\ UNCHANGED <<written, cursor, cycle>> /\ NewId' = NewId /\ Overlooked
        /\ Len(log'.lines) \in Nat
    BY <1>4, CutFacts DEF NewId, database
  <2>2. ~(cursor.offset > 0 /\ cursor.print = Unprinted)
    BY <2>1 DEF Overlooked
  <2> QED
    BY <1>0, <2>1, <2>2, CursorKept
<1>5. CASE Stat
  <2>1. /\ UNCHANGED <<written, cursor, log>> /\ cycle'.ino = log.ino /\ NewId' = NewId
    BY <1>5 DEF Stat, NewId, outside, database, IInv, TypeOK, Cycle
  <2> QED
    BY <1>0, <1>1, <2>1, CursorKept
<1>6. CASE IngestJSONL
  BY <1>6, IngestHolds
<1>7. CASE StartCycle \/ Maintain \/ MaintainUnnoted \/ MaintainFails \/ SkipMaintenance
            \/ Abandon
  <2>1. /\ UNCHANGED <<written, cursor, log>> /\ cycle'.pc # "seen" /\ NewId' = NewId
    <3>1. CASE StartCycle
      BY <3>1 DEF StartCycle, NewId, Idle, outside, database
    <3> QED
      BY <1>7, <3>1, CycleEnds DEF Idle, NewId, outside
  <2> QED
    BY <1>0, <1>1, <2>1, CursorKept
<1>8. CASE ChangePrices \/ Tick \/ SetBack \/ UNCHANGED vars
  <2>1. UNCHANGED <<written, cursor, log, cycle>> /\ NewId' = NewId
    BY <1>8 DEF ChangePrices, Tick, SetBack, vars, database, NewId
  <2> QED
    BY <1>0, <1>1, <2>1, CursorKept
<1> QED
  BY <1>2, <1>3, <1>4, <1>5, <1>6, <1>7, <1>8 DEF Next, OpenCodex, CycleStep

LEMMA ThroughIsReadStep ==
  ASSUME IInv, IdsFollow, FilesFollow, TimesFollow, CursorHolds, ThroughIsRead, [Next]_vars,
         MaxLag <= Skew
  PROVE  ThroughIsRead'
<1> SUFFICES ASSUME ~excused'
             PROVE  /\ log'.tail # "none" => through' <= log'.begun
                    /\ \A line \in Lines' :
                         line.wellFormed /\ line.at >= Oldest' /\ line.logged < through'
                           => CallOf(line) \in usage'
  BY DEF ThroughIsRead, Kept, Cutoff, Oldest
<1>0. /\ ~excused /\ ~SetBack
      /\ \A line \in Line :
           line.at >= Oldest' /\ CallOf(line) \in usage => CallOf(line) \in usage'
  BY ExcusedStays, KeptIsCounted
<1>1. /\ log.tail # "none" => through <= log.begun
      /\ \A line \in Lines :
           line.wellFormed /\ line.at >= Oldest /\ line.logged < through
             => CallOf(line) \in usage
      /\ through <= clock /\ clock \in Nat /\ through \in Int
  BY <1>0, BoundsAreNaturals
  DEF ThroughIsRead, Kept, Cutoff, Oldest, TimesFollow, IInv, TypeOK, Time, Never
<1>2. /\ Oldest \in Int /\ Oldest' \in Int /\ Oldest' >= Oldest
      /\ \A line \in Line : line.at \in Int /\ line.logged \in Int
      /\ Lines \subseteq Line /\ Len(log.lines) \in Nat /\ log.lines \in Seq(Line)
  <2>1. log.lines \in Seq(Line) /\ Len(log.lines) \in Nat
    BY DEF IInv, TypeOK, File
  <2>2. Lines \subseteq Line
    BY <2>1 DEF Lines
  <2> QED
    BY <1>0, <2>1, <2>2, OldestRises, BoundsAreNaturals DEF Line, Time
<1>3. ASSUME through' = through, Lines' \subseteq Lines
      PROVE  \A line \in Lines' :
               line.wellFormed /\ line.at >= Oldest' /\ line.logged < through'
                 => CallOf(line) \in usage'
  BY <1>0, <1>1, <1>2, <1>3
<1>4. CASE WriteLine \/ WriteGarbage
  <2>1. PICK line \in Line : /\ line.logged = clock
                            /\ log'.lines = Append(log.lines, line)
    BY <1>4, AppendFacts
  <2>2. through' = through /\ usage' = usage /\ log'.tail = "none"
    BY <1>4, AppendFacts DEF database
  <2>3. Lines' \subseteq Lines \cup {line}
    BY <1>2, <2>1 DEF Lines
  <2> QED
    BY <1>0, <1>1, <1>2, <2>1, <2>2, <2>3
<1>5. CASE WritePart
  <2>1. /\ log'.lines = log.lines /\ log'.begun = clock /\ through' = through
    BY <1>5 DEF WritePart, database, IInv, TypeOK, File
  <2>2. Lines' = Lines
    BY <2>1 DEF Lines
  <2> QED
    BY <1>1, <1>3, <2>1, <2>2
<1>6. CASE Rotate \/ TruncateInPlace
  <2>1. through' = through /\ log'.tail = "none"
    BY <1>6, CutFacts DEF database
  <2>2. PICK kept \in 0 .. Len(log.lines) :
          /\ Len(log'.lines) = kept
          /\ \A i \in 1 .. kept : log'.lines[i] = log.lines[Len(log.lines) - kept + i]
    BY <1>6, CutFacts
  <2>3. \A i \in 1 .. kept : Len(log.lines) - kept + i \in 1 .. Len(log.lines)
    BY <1>2
  <2>4. Lines' \subseteq Lines
    BY <2>2, <2>3 DEF Lines
  <2> QED
    BY <1>3, <2>1, <2>4
<1>7. CASE IngestJSONL
  <2>1. /\ \A line \in Lines :
             line.wellFormed /\ line.at >= Oldest => CallOf(line) \in usage'
        /\ through' = IF log.tail = "none" THEN cycle.now ELSE through
        /\ log' = log
    BY <1>0, <1>7, IngestReads DEF IngestJSONL, outside
  <2>2. Lines' = Lines
    BY <2>1 DEF Lines
  <2> QED
    BY <1>1, <1>2, <2>1, <2>2
<1>8. CASE StartCycle \/ Stat \/ Maintain \/ MaintainUnnoted \/ MaintainFails
            \/ SkipMaintenance \/ Abandon \/ ChangePrices \/ Tick \/ UNCHANGED vars
  <2>1. UNCHANGED <<log, through>>
    <3>1. CASE StartCycle \/ Stat \/ ChangePrices \/ Tick \/ UNCHANGED vars
      BY <3>1 DEF StartCycle, Stat, ChangePrices, Tick, vars, outside, database
    <3> QED
      BY <1>8, <3>1, CycleEnds DEF outside
  <2>2. Lines' = Lines
    BY <2>1 DEF Lines
  <2> QED
    BY <1>1, <1>3, <2>1, <2>2
<1> QED
  BY <1>0, <1>4, <1>5, <1>6, <1>7, <1>8 DEF Next, OpenCodex, CycleStep

LEMMA LogInvAlways == MaxLag <= Skew => (Spec => []LogInv)
<1> SUFFICES ASSUME MaxLag <= Skew PROVE Spec => []LogInv
  OBVIOUS
<1>1. Init => LogInv
  <2> SUFFICES ASSUME Init PROVE LogInv
    OBVIOUS
  <2>1. Cardinality(written) = 0 /\ NewId = 1
    BY FS_EmptySet DEF Init, NewId
  <2>2. Len(log.lines) = 0 /\ log.tail = "none" /\ log.ino = 1 /\ Lines = {}
    BY DEF Init, Lines
  <2>3. IdsFollow
    BY <2>2 DEF Init, IdsFollow
  <2>4. FilesFollow
    BY <2>2 DEF Init, FilesFollow, Idle, NoCursor
  <2>5. TimesFollow
    BY BoundsAreNaturals DEF Init, TimesFollow, Idle, Never
  <2>6. CursorHolds
    BY <2>2, BoundsAreNaturals DEF Init, CursorHolds, NoCursor, Idle, Unprinted, Torn
  <2>7. ThroughIsRead
    BY <2>2 DEF ThroughIsRead
  <2> QED
    BY <2>3, <2>4, <2>5, <2>6, <2>7 DEF LogInv
<1>2. IInv /\ LogInv /\ [Next]_vars => LogInv'
  BY IdsFollowStep, FilesFollowStep, TimesFollowStep, CursorHoldsStep, ThroughIsReadStep
  DEF LogInv
<1> QED
  BY <1>1, <1>2, Typed, PTL DEF Spec

\* usageObservedThrough claims nothing that was not read: as long as the cycle comes
\* to the log within the minute by which a record may lie ahead of its clock, every
\* kept record logged before that instant is counted, and a line half written by then
\* holds it back, however the file is rotated, truncated and replayed (IngestJSONL).
THEOREM ThroughIsReadAlways == MaxLag <= Skew => (Spec => []ThroughIsRead)
BY LogInvAlways, PTL DEF LogInv

\* The cursor never runs ahead of what is counted: whatever file the next read finds
\* at the path, the lines it would skip have been read from the same first line on
\* (IngestJSONL, sameFile, fileFingerprint).
THEOREM ConsumedIsCountedAlways == MaxLag <= Skew => (Spec => []ConsumedIsCounted)
<1> SUFFICES ASSUME MaxLag <= Skew PROVE Spec => []ConsumedIsCounted
  OBVIOUS
<1>1. ASSUME IInv, IdsFollow, CursorHolds PROVE ConsumedIsCounted
  <2> DEFINE print == IF ~LongEnough(log) THEN Unprinted
                      ELSE IF log.lines # <<>> THEN log.lines[1].id ELSE NewId
  <2> SUFFICES ASSUME ~excused, cursor.ino = log.ino, cursor.print \in {Unprinted, print},
                      cursor.offset <= Len(log.lines),
                      NEW i \in 1 .. cursor.offset, Kept(log.lines[i])
               PROVE  CallOf(log.lines[i]) \in usage
    BY DEF ConsumedIsCounted
  <2>0. /\ Len(log.lines) \in Nat /\ cursor.offset \in Nat /\ NewId \in Nat
        /\ i \in 1 .. Len(log.lines) /\ log.lines # <<>>
    BY <1>1, FS_CardinalityType DEF IInv, TypeOK, File, Cursor, NewId
  <2>1. CASE cursor.print = Unprinted
    BY <1>1, <2>1 DEF CursorHolds
  <2>2. CASE cursor.print # Unprinted
    <3>1. cursor.print = log.lines[1].id
      BY <2>0, <2>2 DEF LongEnough
    <3>2. /\ log.lines[1].id = NewId - Len(log.lines) + 1 - 1
          /\ log.lines[i].id = NewId - Len(log.lines) + i - 1
          /\ log.lines[1] \in Line /\ log.lines[i] \in written
      <4>1. 1 \in 1 .. Len(log.lines) /\ i \in 1 .. Len(log.lines)
        BY <2>0
      <4>2. /\ log.lines[1].id = NewId - Len(log.lines) + 1 - 1
            /\ log.lines[i].id = NewId - Len(log.lines) + i - 1
            /\ log.lines[1] \in written /\ log.lines[i] \in written
        BY <1>1, <4>1, Zenon DEF IdsFollow
      <4>3. written \subseteq Line
        BY <1>1 DEF IInv, TypeOK
      <4> QED
        BY <4>2, <4>3
    <3>3. log.lines[1].id \in 1 .. MaxLines
      BY <3>2 DEF Line
    <3>4. log.lines[i].id \in cursor.print .. cursor.print + cursor.offset - 1
      <4>1. PICK n \in Int, l \in Int, o \in Int :
              n = NewId /\ l = Len(log.lines) /\ o = cursor.offset
        BY <2>0
      <4>2. i \in 1 .. o
        BY <4>1
      <4>3. n - l + i - 1 \in n - l + 1 - 1 .. (n - l + 1 - 1) + o - 1
        <5>1. i \in Int /\ 1 <= i /\ i <= o
          BY <4>2
        <5>2. /\ n - l + 1 - 1 <= n - l + i - 1
              /\ n - l + i - 1 <= (n - l + 1 - 1) + o - 1
          BY <5>1
        <5> QED
          BY <5>1, <5>2
      <4> QED
        BY <3>1, <3>2, <4>1, <4>3
    <3> QED
      BY <1>1, <3>1, <3>2, <3>3, <3>4 DEF CursorHolds
  <2> QED
    BY <2>1, <2>2
<1> QED
  BY <1>1, LogInvAlways, Typed, PTL DEF LogInv
=============================================================================

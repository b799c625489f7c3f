------------------------------ MODULE UsageLog ------------------------------
(***************************************************************************)
(* The usage log and its ingest: IngestJSONL and Maintain of               *)
(* internal/store, called by the cycle of internal/runtime, while          *)
(* OpenCodex writes, rotates and truncates the file.                       *)
(*                                                                         *)
(* An offset counts complete lines.  Amounts are left to UsagePrices: of   *)
(* them, this module keeps that a price change may demand a replay.        *)
(***************************************************************************)
EXTENDS Integers, Sequences, FiniteSets

CONSTANTS
  Retention,       \* retentionDays, in time units
  Day,             \* maintenanceDay
  Skew,            \* how far ahead of the clock a record may be (60 s)
  CallTime,        \* a call is written at most this long after it started
  MaxLag,          \* the cycle reads the log at most this long after it began
  HistoryResetAt,  \* the operator's boundary, written by no code under src/
  MaxLines,        \* bound: lines ever written
  MaxClock,        \* bound: the clock
  MaxFiles,        \* bound: files the log has been
  Mishaps,         \* what may go wrong: "truncate", "garbage", "setback"
  MaxMishaps,      \* bound: mishaps in a behaviour
  MaxReplays       \* bound: price changes

ASSUME BoundsAssumption ==
  /\ {Retention, Day, Skew, CallTime, MaxLag, HistoryResetAt, MaxLines, MaxClock,
      MaxFiles, MaxMishaps, MaxReplays} \subseteq Nat
  /\ MaxFiles # 0

VARIABLES
  clock,
  log,         \* the file at the log's path
  written,     \* every line ever completed, to state properties with
  cycle,       \* where the cycle is, its time, and what Stat told it
  usage,       \* table usage: the calls counted
  cursor,      \* meta usageCursor
  replayDue,   \* conditionalPriceReplay, tariffRevision or catalogPriceRevision differ
  excluded,    \* meta usageExcludedBefore
  since,       \* meta usageObservedSince
  through,     \* meta usageObservedThrough
  maintained,  \* meta maintenanceAt
  failed,      \* meta maintenanceFailedAt is set
  files, mishaps, replays,
  excused      \* ghost: what the claims on the cursor do not cover has happened

vars == <<clock, log, written, cycle, usage, cursor, replayDue, excluded, since,
          through, maintained, failed, files, mishaps, replays, excused>>

outside  == <<clock, log, written, files, mishaps, replays, excused>>
database == <<usage, cursor, replayDue, excluded, since, through, maintained, failed>>

Larger(a, b) == IF a >= b THEN a ELSE b

Never == -1
Time  == 0 .. MaxClock

Line == [id : 1 .. MaxLines, at : Time, wellFormed : BOOLEAN, logged : Time]
File == [ino : 1 .. MaxFiles, lines : Seq(Line), tail : {"none", "short", "long"},
         begun : Time]
Call == [id : 1 .. MaxLines, at : Time]

CallOf(line) == [id |-> line.id, at |-> line.at]

\* A mishap of the outside world, within the bound.
Mishap(kind) == kind \in Mishaps /\ mishaps < MaxMishaps /\ mishaps' = mishaps + 1

\* Digests of the first 64 bytes: a line's id stands for its bytes.
Unprinted == 0
Torn      == MaxLines + 1

Cursor   == [ino : 0 .. MaxFiles, offset : Nat, print : Nat]
NoCursor == [ino |-> 0, offset |-> 0, print |-> Unprinted]

Cycle == [pc : {"idle", "started", "seen", "ingested"}, now : Time, ino : 0 .. MaxFiles,
          lines : Nat, long : BOOLEAN]
Idle  == [pc |-> "idle", now |-> 0, ino |-> 0, lines |-> 0, long |-> FALSE]

TypeOK ==
  /\ clock \in Time
  /\ log \in File
  /\ written \subseteq Line
  /\ cycle \in Cycle
  /\ usage \subseteq Call
  /\ cursor \in Cursor
  /\ replayDue \in BOOLEAN
  /\ excluded \in Time
  /\ {since, through, maintained} \subseteq Time \cup {Never}
  /\ failed \in BOOLEAN
  /\ files \in 1 .. MaxFiles
  /\ mishaps \in 0 .. MaxMishaps
  /\ replays \in 0 .. MaxReplays
  /\ excused \in BOOLEAN

Init ==
  /\ clock = 0
  /\ log = [ino |-> 1, lines |-> <<>>, tail |-> "none", begun |-> 0]
  /\ written = {}
  /\ cycle = Idle
  /\ usage = {}
  /\ cursor = NoCursor
  /\ replayDue = TRUE
  /\ excluded = 0
  /\ since = Never
  /\ through = Never
  /\ maintained = Never
  /\ failed = FALSE
  /\ files = 1
  /\ mishaps = 0
  /\ replays = 0
  /\ excused = FALSE

-----------------------------------------------------------------------------
(***************************************************************************)
(* OpenCodex.  A line is a call that has ended, stamped with its start; it *)
(* may reach the file in two pieces, the first shorter or longer than the  *)
(* 64 bytes of a fingerprint; no line is shorter.  A new file starts with  *)
(* the last lines of the old one, or with none, and never in mid-line.     *)
(***************************************************************************)
NewId == Cardinality(written) + 1

Complete(wellFormed) ==
  \E at \in Time :
    LET line == [id |-> NewId, at |-> at, wellFormed |-> wellFormed, logged |-> clock]
    IN  /\ at \in (clock - CallTime) .. clock
        /\ log' = [log EXCEPT !.lines = Append(@, line), !.tail = "none", !.begun = 0]
        /\ written' = written \cup {line}

WriteLine ==
  /\ NewId <= MaxLines
  /\ Complete(TRUE)
  /\ UNCHANGED <<clock, cycle, database, files, mishaps, replays, excused>>

WriteGarbage ==
  /\ NewId <= MaxLines
  /\ Mishap("garbage")
  /\ Complete(FALSE)
  /\ UNCHANGED <<clock, cycle, database, files, replays, excused>>

WritePart ==
  /\ NewId <= MaxLines
  /\ log.tail = "none"
  /\ \E tail \in {"short", "long"} : log' = [log EXCEPT !.tail = tail, !.begun = clock]
  /\ UNCHANGED <<clock, written, cycle, database, files, mishaps, replays, excused>>

\* The cursor cannot tell the change of file: it holds no fingerprint.
Overlooked == excused' = (excused \/ (cursor.offset > 0 /\ cursor.print = Unprinted))

Rotate ==
  /\ files < MaxFiles
  /\ files' = files + 1
  /\ log.tail = "none"
  /\ \E kept \in 0 .. Len(log.lines) :
       log' = [log EXCEPT !.ino = files + 1,
                          !.lines = SubSeq(@, Len(@) - kept + 1, Len(@))]
  /\ Overlooked
  /\ UNCHANGED <<clock, written, cycle, database, mishaps, replays>>

TruncateInPlace ==
  /\ Mishap("truncate")
  /\ log.tail = "none"
  /\ log' = [log EXCEPT !.lines = <<>>]
  /\ Overlooked
  /\ UNCHANGED <<clock, written, cycle, database, files, replays>>

-----------------------------------------------------------------------------
(***************************************************************************)
(* The cycle takes its time first, reads the providers, and comes to the   *)
(* log last; the file may change between Stat and Open.                    *)
(***************************************************************************)
StartCycle ==
  /\ cycle.pc = "idle"
  /\ cycle' = [Idle EXCEPT !.pc = "started", !.now = clock]
  /\ UNCHANGED <<outside, database>>

LongEnough(file) == file.lines # <<>> \/ file.tail = "long"

Stat ==
  /\ cycle.pc = "started"
  /\ cycle' = [cycle EXCEPT !.pc = "seen", !.ino = log.ino, !.lines = Len(log.lines),
                            !.long = LongEnough(log)]
  /\ UNCHANGED <<outside, database>>

\* fileFingerprint: of as many bytes as Stat saw, from the file that was opened.
FileFingerprint ==
  IF ~cycle.long THEN Unprinted
  ELSE IF log.lines # <<>> THEN log.lines[1].id
  ELSE IF log.tail = "long" THEN NewId
  ELSE Torn

SameFile_ByInode(print) == cursor.ino = cycle.ino

SameFile(print) == cursor.ino = cycle.ino /\ cursor.print \in {Unprinted, print}

ResumeAt(print) ==
  IF ~replayDue /\ SameFile(print) /\ cursor.offset <= cycle.lines THEN cursor.offset ELSE 0

Cutoff_OfToday(now) == Larger(now - Retention, HistoryResetAt)

Cutoff(now) == Larger(Larger(now - Retention, HistoryResetAt), excluded)

Counts(line) ==
  line.wellFormed /\ line.at <= cycle.now + Skew /\ line.at >= Cutoff(cycle.now)

Consumed_WithPartial(offset) ==
  Larger(offset, Len(log.lines)) + (IF log.tail = "none" THEN 0 ELSE 1)

\* A partial last line is left unread.
Consumed(offset) == Larger(offset, Len(log.lines))

CompleteTail_Assumed(offset) == TRUE

\* io.EOF with no bytes before it, also of a file now shorter than the offset.
CompleteTail(offset) == log.tail = "none" \/ offset > Len(log.lines)

IngestJSONL ==
  /\ cycle.pc = "seen"
  /\ LET print  == FileFingerprint
         offset == ResumeAt(print)
     IN  /\ usage' = usage \cup {CallOf(log.lines[i]) :
                                  i \in {j \in offset + 1 .. Len(log.lines) :
                                           Counts(log.lines[j])}}
         /\ cursor' = [ino |-> cycle.ino, offset |-> Consumed(offset), print |-> print]
         /\ through' = IF CompleteTail(offset) THEN cycle.now ELSE through
  /\ replayDue' = FALSE
  /\ since' = IF since = Never THEN cycle.now ELSE since
  /\ cycle' = [cycle EXCEPT !.pc = "ingested"]
  /\ UNCHANGED <<outside, excluded, maintained, failed>>

MaintenanceDue ==
  \/ failed
  \/ maintained = Never
  \/ cycle.now < maintained
  \/ cycle.now - maintained >= Day

Expired(cutoff) == {call \in usage : call.at < cutoff}

Boundary_Unconditional(cutoff) == cutoff

\* usageExcludedBefore never moves back.
Boundary(cutoff) == Larger(excluded, cutoff)

\* One transaction: the rows and the boundary.
Retire(cutoff) ==
  /\ cycle.pc = "ingested"
  /\ MaintenanceDue
  /\ usage' = usage \ Expired(cutoff)
  /\ excluded' = Boundary(cutoff)
  /\ cycle' = Idle
  /\ UNCHANGED <<outside, cursor, replayDue, since, through>>

Maintain ==
  /\ Retire(cycle.now - Retention)
  /\ maintained' = cycle.now
  /\ failed' = FALSE

\* The process ends before the two writes that follow, or between them.
MaintainUnnoted ==
  /\ Retire(cycle.now - Retention)
  /\ maintained' \in {maintained, cycle.now}
  /\ UNCHANGED failed

MaintainFails ==
  /\ cycle.pc = "ingested"
  /\ MaintenanceDue
  /\ failed' = TRUE
  /\ cycle' = Idle
  /\ UNCHANGED <<outside, usage, cursor, replayDue, excluded, since, through, maintained>>

SkipMaintenance ==
  /\ cycle.pc = "ingested"
  /\ ~MaintenanceDue
  /\ cycle' = Idle
  /\ UNCHANGED <<outside, database>>

\* The read or its transaction fails, or the process ends and starts again.
Abandon ==
  /\ cycle.pc # "idle"
  /\ cycle' = Idle
  /\ UNCHANGED <<outside, database>>

-----------------------------------------------------------------------------
\* A new tariff revision (with its binary) or new catalog rates.
ChangePrices ==
  /\ replays < MaxReplays
  /\ replays' = replays + 1
  /\ cycle.pc = "idle"
  /\ replayDue' = TRUE
  /\ UNCHANGED <<clock, log, written, cycle, usage, cursor, excluded, since, through,
                 maintained, failed, files, mishaps, excused>>

Tick ==
  /\ clock < MaxClock
  /\ cycle.pc \in {"started", "seen"} => clock + 1 - cycle.now <= MaxLag
  /\ clock' = clock + 1
  /\ UNCHANGED <<log, written, cycle, database, files, mishaps, replays, excused>>

SetBack ==
  /\ clock > 0
  /\ Mishap("setback")
  /\ clock' \in 0 .. clock - 1
  /\ excused' = TRUE
  /\ UNCHANGED <<log, written, cycle, database, files, replays>>

-----------------------------------------------------------------------------
OpenCodex == WriteLine \/ WriteGarbage \/ WritePart \/ Rotate \/ TruncateInPlace
CycleStep ==
  StartCycle \/ Stat \/ IngestJSONL \/ Maintain \/ MaintainFails \/ SkipMaintenance

Next ==
  OpenCodex \/ CycleStep \/ MaintainUnnoted \/ Abandon \/ ChangePrices \/ Tick \/ SetBack

Spec == Init /\ [][Next]_vars

(***************************************************************************)
(* The ticker starts cycles for ever; one may fail at any step, but not    *)
(* every one at the same step for ever.                                    *)
(***************************************************************************)
Fairness == WF_vars(CycleStep) /\ SF_vars(Stat) /\ SF_vars(IngestJSONL)

FairSpec == Spec /\ Fairness

-----------------------------------------------------------------------------
Lines == {log.lines[i] : i \in 1 .. Len(log.lines)}

\* What a line must be to belong to the history kept today.
Kept(line) == line.wellFormed /\ line.at >= Cutoff(clock)

\* Every record in front of the place the next read would resume at has been
\* counted: the file may have been truncated, trimmed or replaced by another of
\* the same inode, also between Stat and Open (IngestJSONL, sameFile).  Excused:
\* the clock was set back; or the file was truncated or replaced while the cursor
\* held an offset and no fingerprint, as Stat leaves it when it saw the file empty.
ConsumedIsCounted ==
  LET print  == IF ~LongEnough(log) THEN Unprinted
                ELSE IF log.lines # <<>> THEN log.lines[1].id ELSE NewId
      follows == /\ cursor.ino = log.ino
                 /\ cursor.print \in {Unprinted, print}
                 /\ cursor.offset <= Len(log.lines)
  IN  ~excused /\ follows =>
        \A i \in 1 .. cursor.offset : Kept(log.lines[i]) => CallOf(log.lines[i]) \in usage

\* What usageObservedThrough claims: the log was read up to that instant.  No
\* earlier record in it is uncounted, and one that was half written by then
\* holds the claim back.  (With the same exceptions.)
ThroughIsRead ==
  ~excused =>
    /\ log.tail # "none" => through <= log.begun
    /\ \A line \in Lines :
         Kept(line) /\ line.logged < through => CallOf(line) \in usage

(***************************************************************************)
(* What makes these two inductive.                                         *)
(***************************************************************************)
\* Ids tell lines apart, and follow each other in the file: a first line alone says
\* which lines are in front of an offset.
IdsFollow ==
  /\ \A line \in written : line.id < NewId
  /\ \A a, b \in written : a.id = b.id => a = b
  /\ \A i \in 1 .. Len(log.lines) :
       log.lines[i] \in written /\ log.lines[i].id = NewId - Len(log.lines) + i - 1
  /\ log.tail # "none" => NewId <= MaxLines

\* A file number is not used again; a file that is too short to be told by its first
\* bytes had no complete line.
FilesFollow ==
  /\ log.ino = files /\ cursor.ino <= files /\ cycle.ino <= files
  /\ cycle.pc = "seen" /\ ~cycle.long => cycle.lines = 0

TimesFollow ==
  ~excused =>
    /\ \A line \in written : line.at <= line.logged /\ line.logged <= clock
    /\ through <= clock
    /\ cycle.pc # "idle" => cycle.now <= clock
    /\ cycle.pc \in {"started", "seen"} => clock <= cycle.now + MaxLag

\* What the cursor claims: with a fingerprint, of the lines from that first one on,
\* whatever file they are in; without one, of the file it was taken from, as long as
\* nothing happened to it.
CursorHolds ==
  ~excused =>
    /\ cursor.print \in 1 .. MaxLines =>
         /\ cursor.print + cursor.offset <= NewId
         /\ \A line \in written :
              line.id \in cursor.print .. cursor.print + cursor.offset - 1 /\ Kept(line)
                => CallOf(line) \in usage
    /\ cursor.print = Torn => cursor.offset = 0
    /\ cursor.print = Unprinted /\ cursor.ino = log.ino =>
         /\ cursor.offset <= Len(log.lines)
         /\ \A i \in 1 .. cursor.offset :
              Kept(log.lines[i]) => CallOf(log.lines[i]) \in usage
    /\ cursor.print = Unprinted /\ cursor.offset > 0 /\ cycle.pc = "seen"
         /\ cycle.ino = cursor.ino => log.ino = cursor.ino

LogInv == IdsFollow /\ FilesFollow /\ TimesFollow /\ CursorHolds /\ ThroughIsRead

\* A call that expired does not come back: not from a replay or a rotated file,
\* and not when the clock jumps backward (usageExcludedBefore, Maintain).
Ledger == INSTANCE UsageLedger WITH counted <- usage, floor <- excluded
ImplementsLedger == Ledger!Spec

\* The part of it that makes it inductive.
CountedAboveFloor == \A call \in usage : call.at >= excluded

\* A record that stays in the log is counted in the end, however its line
\* reached the file, unless it expires first.
EventuallyCounted ==
  \A id \in 1 .. MaxLines :
    (\E line \in Lines : line.id = id /\ Kept(line))
      ~> \/ \E call \in usage : call.id = id
         \/ ~\E line \in Lines : line.id = id /\ Kept(line)

=============================================================================

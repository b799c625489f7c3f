----------------------------- MODULE Scheduler -----------------------------
(***************************************************************************)
(* The direct-read scheduler of internal/collect/scheduler.go, with the    *)
(* part of the collect cycle (internal/runtime) that calls it and keeps    *)
(* its outcomes over a restart.                                            *)
(*                                                                         *)
(* A flight key is <<account, endpoint, credential>>: FlightKey.Identity   *)
(* is a digest of everything the credential is made of.  Deadlines are     *)
(* kept as the time left until them, which Tick counts down, so that       *)
(* behaviours need no bound on the clock.                                  *)
(***************************************************************************)
EXTENDS Backoff, FiniteSets

CONSTANTS
  Account,       \* (provider, account) pairs
  Endpoint,      \* the adapters of their provider
  Cred,          \* credentials an account may be bound to
  NoCred,        \* an account with no single usable binding
  Unbuildable,   \* keys for which quotaRequest builds no request
  Collector,     \* concurrent callers of Collect
  Limit,         \* Scheduler.Limit: concurrent reads of one Collect
  RetryAfter,    \* values of the Retry-After header, 0 for none
  MaxFailures,   \* failure counts saturate here
  MaxReplaces,   \* bound: changes of a binding in a behaviour
  MaxRestarts    \* bound: process restarts in a behaviour

Name == Account \X Endpoint
Key  == Account \X Endpoint \X Cred

NameOf(k) == <<k[1], k[2]>>

ASSUME NoCredAssumption == NoCred \notin Cred
ASSUME UnbuildableAssumption == Unbuildable \subseteq Key
ASSUME LimitAssumption == Limit \in Nat \ {0}
ASSUME RetryAfterAssumption == RetryAfter \subseteq Nat

\* Counts past MaxFailures all wait MaxBackoff, so saturating loses nothing.
ASSUME MaxFailuresAssumption ==
  /\ MaxFailures \in Nat
  /\ Growth(MaxFailures) = MaxBackoff
ASSUME BoundsAssumption == MaxReplaces \in Nat /\ MaxRestarts \in Nat

VARIABLES
  binding,    \* the credential each account is bound to in the local files
  inflight,   \* Scheduler.inflight
  cool,       \* Scheduler.cool; an absent entry has nothing left and no failures
  outcome,    \* Scheduler.outcome: the status of the last read of a key
  lastGood,   \* whether Scheduler.lastGood holds windows for a key
  latest,     \* Scheduler.latest: the sorts of rows the last read returned
  restored,   \* Scheduler.restored: by name, as the saved list has no identity
  saved,      \* meta directOutcomesV1: the list written last, by key
  pc,         \* where each Collect is
  todo,       \* the keys its loops have still to visit
  cur,        \* the key it is visiting, {} between two visits
  flight,     \* its reading goroutines
  replaced,   \* bindings changed so far
  restarts    \* restarts so far

vars == <<binding, inflight, cool, outcome, lastGood, latest, restored, saved,
          pc, todo, cur, flight, replaced, restarts>>

shared    == <<inflight, cool, outcome, lastGood, latest, restored>>
local     == <<pc, todo, cur>>
world     == <<binding, saved, replaced, restarts>>

-----------------------------------------------------------------------------
\* "error" stands for the statuses other than "ok", which only the page tells apart.
Status == {"ok", "error"}
Sort   == {"fresh", "marker", "carried"}

Schedule == [left : Nat, failures : 0 .. MaxFailures]
Due      == [left |-> 0, failures |-> 0]

Outcome   == [status : Status, left : Nat, failures : 0 .. MaxFailures]
NoOutcome == [status |-> "none", left |-> 0, failures |-> 0]

Flight == [at : {"idle", "started", "sent", "done"}, failures : 0 .. MaxFailures,
           rows : SUBSET Sort]
Landed == [at |-> "idle", failures |-> 0, rows |-> {}]

TypeOK ==
  /\ binding \in [Account -> Cred \cup {NoCred}]
  /\ inflight \in SUBSET Key
  /\ cool \in [Key -> Schedule]
  /\ outcome \in [Key -> Status \cup {"none"}]
  /\ lastGood \in [Key -> BOOLEAN]
  /\ latest \in [Key -> SUBSET Sort]
  /\ restored \in [Name -> Outcome \cup {NoOutcome}]
  /\ saved \in [Key -> Outcome \cup {NoOutcome}]
  /\ pc \in [Collector -> {"idle", "loop", "begin", "acquire", "persist"}]
  /\ todo \in [Collector -> SUBSET Key]
  /\ cur \in [Collector -> {{}} \cup {{k} : k \in Key}]
  /\ flight \in [Collector -> [Key -> Flight]]
  /\ replaced \in 0 .. MaxReplaces
  /\ restarts \in 0 .. MaxRestarts

Flying(c)   == {k \in Key : flight[c][k].at # "idle"}
Acquiring(c) == IF pc[c] = "acquire" THEN cur[c] ELSE {}
Bound(k)    == binding[k[1]] = k[3]
More(n)     == Smaller(n + 1, MaxFailures)

CanBegin_IgnoringFlight(k)   == cool[k].left = 0
CanBegin_IgnoringCooldown(k) == k \notin inflight

\* tryBegin
CanBegin(k) == k \notin inflight /\ cool[k].left = 0

Init ==
  /\ binding \in [Account -> Cred \cup {NoCred}]
  /\ inflight = {}
  /\ cool = [k \in Key |-> Due]
  /\ outcome = [k \in Key |-> "none"]
  /\ lastGood = [k \in Key |-> FALSE]
  /\ latest = [k \in Key |-> {}]
  /\ pc = [c \in Collector |-> "idle"]
  /\ todo = [c \in Collector |-> {}]
  /\ cur = [c \in Collector |-> {}]
  /\ flight = [c \in Collector |-> [k \in Key |-> Landed]]
  /\ restored = [n \in Name |-> NoOutcome]
  /\ saved = [k \in Key |-> NoOutcome]
  /\ replaced = 0
  /\ restarts = 0

-----------------------------------------------------------------------------
(***************************************************************************)
(* Collect.  The bindings are the ones the cycle read just before; the     *)
(* accounts skipped (not enabled, not allowed, bound more than once) are   *)
(* those with NoCred.  Their order in the file is arbitrary.               *)
(***************************************************************************)
BeginCollect(c) ==
  /\ pc[c] = "idle"
  /\ pc' = [pc EXCEPT ![c] = "loop"]
  /\ todo' = [todo EXCEPT ![c] = {k \in Key : Bound(k)}]
  /\ UNCHANGED <<shared, world, cur, flight>>

Seeds_FromSecondFailure(prior) == prior.failures > 1

Seeds(prior) == prior.failures > 0

\* applyRestored: one saved outcome per name, used once, never over a newer one.
Visit(c) ==
  /\ pc[c] = "loop"
  /\ \E k \in todo[c] :
       LET prior == restored[NameOf(k)]
           takes == prior # NoOutcome /\ outcome[k] = "none"
       IN  /\ todo' = [todo EXCEPT ![c] = @ \ {k}]
           /\ cur' = [cur EXCEPT ![c] = {k}]
           /\ restored' = [restored EXCEPT ![NameOf(k)] = NoOutcome]
           /\ outcome' = IF takes THEN [outcome EXCEPT ![k] = prior.status] ELSE outcome
           /\ cool' = IF takes /\ Seeds(prior)
                        THEN [cool EXCEPT ![k] = [left |-> prior.left,
                                                  failures |-> prior.failures]]
                        ELSE cool
  /\ pc' = [pc EXCEPT ![c] = "begin"]
  /\ UNCHANGED <<inflight, lastGood, latest, world, flight>>

\* tryBegin fails: the rows of the last read are returned again, marked Cached.
Refuse(c) ==
  /\ pc[c] = "begin"
  /\ \E k \in cur[c] : ~CanBegin(k)
  /\ pc' = [pc EXCEPT ![c] = "loop"]
  /\ cur' = [cur EXCEPT ![c] = {}]
  /\ UNCHANGED <<shared, world, todo, flight>>

Begin(c) ==
  /\ pc[c] = "begin"
  /\ \E k \in cur[c] : CanBegin(k) /\ inflight' = inflight \cup {k}
  /\ pc' = [pc EXCEPT ![c] = "acquire"]
  /\ UNCHANGED <<cool, outcome, lastGood, latest, restored, world, todo, cur, flight>>

\* The semaphore is taken after the key is marked, by the loop itself.
Acquire(c) ==
  /\ pc[c] = "acquire"
  /\ Cardinality(Flying(c)) < Limit
  /\ \E k \in cur[c] :
       flight' = [flight EXCEPT ![c][k] = [Landed EXCEPT !.at = "started"]]
  /\ pc' = [pc EXCEPT ![c] = "loop"]
  /\ cur' = [cur EXCEPT ![c] = {}]
  /\ UNCHANGED <<shared, world, todo>>

Return(c) ==
  /\ pc[c] = "loop"
  /\ todo[c] = {}
  /\ Flying(c) = {}
  /\ pc' = [pc EXCEPT ![c] = "persist"]
  /\ UNCHANGED <<shared, world, todo, cur, flight>>

(***************************************************************************)
(* persistDirectOutcomes: Outcomes takes the deadline and the count of     *)
(* each key from cool.  An empty list is not written, and a write may      *)
(* fail, which costs the cycle its analysis and changes nothing here.      *)
(***************************************************************************)
Outcomes ==
  [k \in Key |-> IF outcome[k] = "none" THEN NoOutcome
                 ELSE [status |-> outcome[k], left |-> cool[k].left,
                       failures |-> cool[k].failures]]

Persist(c) ==
  /\ pc[c] = "persist"
  /\ pc' = [pc EXCEPT ![c] = "idle"]
  /\ \/ saved' = IF \E k \in Key : outcome[k] # "none" THEN Outcomes ELSE saved
     \/ UNCHANGED saved
  /\ UNCHANGED <<shared, binding, replaced, restarts, todo, cur, flight>>

-----------------------------------------------------------------------------
(***************************************************************************)
(* One read: the goroutine of Collect and fetch.                           *)
(***************************************************************************)
Decline(c, k) ==
  /\ flight[c][k].at = "started"
  /\ k \in Unbuildable
  /\ flight' = [flight EXCEPT ![c][k].at = "done"]
  /\ UNCHANGED <<shared, local, world>>

\* The key is held for the base interval while its request runs.
Held_ForgettingFailures(failures) == [left |-> Poll, failures |-> 0]

Held(failures) == [left |-> Poll, failures |-> failures]

Send(c, k) ==
  /\ flight[c][k].at = "started"
  /\ k \notin Unbuildable
  /\ flight' = [flight EXCEPT ![c][k] = [at |-> "sent", failures |-> cool[k].failures,
                                         rows |-> {}]]
  /\ cool' = [cool EXCEPT ![k] = Held(cool[k].failures)]
  /\ UNCHANGED <<inflight, outcome, lastGood, latest, restored, local, world>>

Lands(c, k, rows) == flight' = [flight EXCEPT ![c][k].at = "done", ![c][k].rows = rows]

FailureRows_Unmarked(k) == IF lastGood[k] THEN {"carried"} ELSE {"marker"}

\* failedOrLastGood: a marker, and the last good windows after it.
FailureRows(k) == {"marker"} \cup (IF lastGood[k] THEN {"carried"} ELSE {})

Success_OneStepBack(failures) == [left |-> Poll, failures |-> failures - 1]

Success(failures) == [left |-> Poll, failures |-> 0]

\* A success may still bring no window that is OK.
Succeed(c, k) ==
  /\ flight[c][k].at = "sent"
  /\ Lands(c, k, {"fresh"})
  /\ \E windows \in BOOLEAN : lastGood' = [lastGood EXCEPT ![k] = windows]
  /\ cool' = [cool EXCEPT ![k] = Success(flight[c][k].failures)]
  /\ outcome' = [outcome EXCEPT ![k] = "ok"]
  /\ UNCHANGED <<inflight, latest, restored, local, world>>

BackOff(c, k, floor) ==
  LET failures == More(flight[c][k].failures)
  IN  /\ flight[c][k].at = "sent"
      /\ Lands(c, k, FailureRows(k))
      /\ cool' = [cool EXCEPT ![k] = [left |-> BackoffWait(failures, floor),
                                      failures |-> failures]]
      /\ outcome' = [outcome EXCEPT ![k] = "error"]
      /\ UNCHANGED <<inflight, lastGood, latest, restored, local, world>>

\* A transport error (a cancelled context too), an echoed token, another status.
Fail(c, k) == BackOff(c, k, 0)

BeLimited(c, k) ==
  \E asked \in RetryAfter : BackOff(c, k, RetryAfterWait(asked))

BeRefused(c, k) == BackOff(c, k, AuthCooldown)

\* A body of another account, one that does not parse, or one with no or
\* invalid rows: recorded, and the hold of Send stands.
BeUnusable(c, k) ==
  /\ flight[c][k].at = "sent"
  /\ Lands(c, k, FailureRows(k))
  /\ outcome' = [outcome EXCEPT ![k] = "error"]
  /\ UNCHANGED <<inflight, cool, lastGood, latest, restored, local, world>>

Reply(c, k) ==
  Succeed(c, k) \/ Fail(c, k) \/ BeLimited(c, k) \/ BeRefused(c, k) \/ BeUnusable(c, k)

End_KeepingKey(c, k) ==
  /\ flight[c][k].at = "done"
  /\ latest' = [latest EXCEPT ![k] = flight[c][k].rows]
  /\ flight' = [flight EXCEPT ![c][k] = Landed]
  /\ UNCHANGED <<inflight, cool, outcome, lastGood, restored, local, world>>

\* The rows are published, then the key and the slot are released.
End(c, k) ==
  /\ flight[c][k].at = "done"
  /\ latest' = [latest EXCEPT ![k] = flight[c][k].rows]
  /\ inflight' = inflight \ {k}
  /\ flight' = [flight EXCEPT ![c][k] = Landed]
  /\ UNCHANGED <<cool, outcome, lastGood, restored, local, world>>

-----------------------------------------------------------------------------
Elapse(schedule) == [schedule EXCEPT !.left = Larger(@ - 1, 0)]

Tick ==
  /\ cool' = [k \in Key |-> Elapse(cool[k])]
  /\ restored' = [n \in Name |-> Elapse(restored[n])]
  /\ saved' = [k \in Key |-> Elapse(saved[k])]
  /\ UNCHANGED <<inflight, outcome, lastGood, latest, local, flight, binding,
                 replaced, restarts>>

\* The operator signs an account in or out, or replaces its credential.
Replace(a) ==
  /\ replaced < MaxReplaces
  /\ replaced' = replaced + 1
  /\ \E d \in (Cred \cup {NoCred}) \ {binding[a]} : binding' = [binding EXCEPT ![a] = d]
  /\ UNCHANGED <<shared, local, flight, saved, restarts>>

(***************************************************************************)
(* The process ends at any point and starts again.  Restore walks a list   *)
(* that Outcomes took from a map: of two entries of one name, either may   *)
(* be the last.                                                            *)
(***************************************************************************)
SavedFor(n) == {d \in Cred : saved[<<n[1], n[2], d>>] # NoOutcome}

Restart ==
  /\ restarts < MaxRestarts
  /\ restarts' = restarts + 1
  /\ inflight' = {}
  /\ cool' = [k \in Key |-> Due]
  /\ outcome' = [k \in Key |-> "none"]
  /\ lastGood' = [k \in Key |-> FALSE]
  /\ latest' = [k \in Key |-> {}]
  /\ pc' = [c \in Collector |-> "idle"]
  /\ todo' = [c \in Collector |-> {}]
  /\ cur' = [c \in Collector |-> {}]
  /\ flight' = [c \in Collector |-> [k \in Key |-> Landed]]
  /\ \E last \in [Name -> Cred] :
       /\ \A n \in Name : SavedFor(n) # {} => last[n] \in SavedFor(n)
       /\ restored' = [n \in Name |-> saved[<<n[1], n[2], last[n]>>]]
  /\ UNCHANGED <<binding, saved, replaced>>

-----------------------------------------------------------------------------
CollectStep(c) ==
  BeginCollect(c) \/ Visit(c) \/ Refuse(c) \/ Begin(c) \/ Acquire(c) \/ Return(c) \/ Persist(c)
FlightStep(c, k) == Decline(c, k) \/ Send(c, k) \/ Reply(c, k) \/ End(c, k)

Next ==
  \/ \E c \in Collector : CollectStep(c)
  \/ \E c \in Collector, k \in Key : FlightStep(c, k)
  \/ Tick
  \/ \E a \in Account : Replace(a)
  \/ Restart

Spec == Init /\ [][Next]_vars

(***************************************************************************)
(* The ticker calls the cycle for ever, goroutines run, a request ends     *)
(* within its timeout of 8 s, and time passes.  Nobody has to replace a    *)
(* credential or restart the process.                                      *)
(***************************************************************************)
Fairness ==
  /\ \A c \in Collector : WF_vars(CollectStep(c))
  /\ \A c \in Collector, k \in Key : WF_vars(FlightStep(c, k))
  /\ WF_vars(Tick)

FairSpec == Spec /\ Fairness

-----------------------------------------------------------------------------
(***************************************************************************)
(* Safety.                                                                 *)
(***************************************************************************)
\* A key is marked in flight exactly while one Collect is about to read it or
\* reads it, and it is never two: no credential is sent twice at once, and no
\* mark outlives its read and locks the key for ever (tryBegin, end).
InFlightExact ==
  /\ \A c \in Collector : Acquiring(c) \cap Flying(c) = {}
  /\ \A k \in Key :
       k \in inflight <=> \E c \in Collector : k \in Acquiring(c) \cup Flying(c)
  /\ \A c, d \in Collector :
       c # d => (Acquiring(c) \cup Flying(c)) \cap (Acquiring(d) \cup Flying(d)) = {}

\* Between reads, the rows another Collect is handed for a key and the status
\* shown for it tell the same story: fresh rows after a success only, windows
\* of an earlier success only behind a failure marker (latest, outcome, cached).
RowsMatchOutcome ==
  \A k \in Key \ inflight : latest[k] # {} =>
    /\ "fresh" \in latest[k] <=> outcome[k] = "ok"
    /\ "fresh" \notin latest[k] => "marker" \in latest[k]
    /\ "carried" \in latest[k] => lastGood[k]

Sends(c, k)  == flight[c][k].at = "started" /\ flight'[c][k].at = "sent"
Answered(c, k) == flight[c][k].at = "sent" /\ flight'[c][k].at = "done"

\* No request is sent before the deadline of its key, although tryBegin looks
\* at it before the slot is waited for and the request built.
NoEarlyRequest ==
  [][\A c \in Collector, k \in Key : Sends(c, k) => cool[k].left = 0]_vars

\* Only a success of the key, or the end of the process, lowers the count its
\* back-off grows with: neither the hold of a new read, nor an unusable body,
\* nor a restored outcome does.
FailuresForgottenBySuccess ==
  [][\A k \in Key : cool'[k].failures < cool[k].failures =>
        \/ restarts' # restarts
        \/ \E c \in Collector : Answered(c, k) /\ outcome'[k] = "ok"]_vars

\* A restart neither forgets a failing credential nor retries it at once: while
\* a back-off that was written down lasts, its key is not sent (Restore).
RestartKeepsBackoff ==
  [][\A c \in Collector, k \in Key :
       Sends(c, k) => saved[k].failures = 0 \/ saved[k].left = 0]_vars

(***************************************************************************)
(* What makes the above inductive.                                         *)
(***************************************************************************)
\* A saved outcome is used up before the key it is for is looked at, so that it
\* cannot replace the deadline of a read that has begun since (applyRestored).
RestoredOnce ==
  \A c \in Collector : \A k \in cur[c] \cup Flying(c) : restored[NameOf(k)] = NoOutcome

\* A key whose read was let through stays due until its request is sent.
DueUntilSent ==
  \A c \in Collector, k \in Key :
    k \in Acquiring(c) \/ flight[c][k].at = "started" => cool[k].left = 0

\* The count captured when a request was sent is still the key's when it ends,
\* and a key without an outcome has none.
CountHeld ==
  /\ \A c \in Collector, k \in Key :
       flight[c][k].at = "sent" => cool[k].failures = flight[c][k].failures
  /\ \A k \in Key : outcome[k] = "none" => cool[k].failures = 0

\* What a read leaves tells of its outcome from the moment it ends, before its rows
\* are published; and a key with rows has an outcome, which no restored one replaces.
RowsTell(k, rows) ==
  rows # {} =>
    /\ outcome[k] # "none"
    /\ "fresh" \in rows <=> outcome[k] = "ok"
    /\ "fresh" \notin rows => "marker" \in rows
    /\ "carried" \in rows => lastGood[k]

RowsHeld ==
  /\ \A k \in Key \ inflight : RowsTell(k, latest[k])
  /\ \A c \in Collector, k \in Key :
       flight[c][k].at # "idle" => RowsTell(k, flight[c][k].rows)

\* A back-off that was written down either waits to be restored, or is no longer
\* than the deadline in force; and a request in flight holds its key for a poll at
\* most.  Where an account never has a second credential, this holds throughout.
BackoffKept ==
  /\ \A k \in Key :
       \/ saved[k].failures = 0
       \/ outcome[k] # "none" /\ saved[k].left <= cool[k].left
       \/ outcome[k] = "none" /\ restored[NameOf(k)] = saved[k]
  /\ \A c \in Collector, k \in Key : flight[c][k].at = "sent" => cool[k].left <= Poll

SchedulerInv == InFlightExact /\ RestoredOnce /\ DueUntilSent /\ CountHeld /\ RowsHeld

(***************************************************************************)
(* Liveness.                                                               *)
(***************************************************************************)
\* An endpoint that stays bound to a credential is read again and again: no
\* back-off, queue for a slot or restart starves it.
EventuallyRead ==
  \A k \in Key \ Unbuildable :
    Bound(k) ~> (~Bound(k) \/ \E c \in Collector : flight[c][k].at = "sent")
=============================================================================

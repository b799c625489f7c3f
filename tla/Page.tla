-------------------------------- MODULE Page --------------------------------
(***************************************************************************)
(* How the page of web/src/ui/app.ts keeps its figures current: refresh,   *)
(* the one-second timer, and the events of the browser that start either.  *)
(*                                                                         *)
(* One unit of time is one call of the timer while the page is visible.    *)
(* A snapshot carries the age of the reading it shows; a server publishes  *)
(* readings that are new or about to expire, by age or by their reset.     *)
(***************************************************************************)
EXTENDS Integers, FiniteSets

CONSTANTS
  Refresh,      \* REFRESH_MS: from the end of a refresh to the next
  Timeout,      \* AbortSignal.timeout of a request
  Minute,       \* between two re-renderings that no answer asks for
  FreshFor,     \* how long a reading counts as current
  MaxVersion,   \* bound: snapshots the server publishes
  MaxRequests   \* bound: requests under way at once; the guard allows one

ASSUME PageAssumption ==
  /\ {Refresh, Timeout, Minute} \subseteq Nat \ {0}
  /\ {FreshFor, MaxVersion} \subseteq Nat
  /\ MaxRequests \in Nat \ {0}

VARIABLES
  server,     \* what GET /api/v1/snapshot answers with: version, age, warns
  up,         \* whether it answers, validly and in time
  visible,    \* ~document.hidden
  online,     \* navigator.onLine
  started,    \* whether the script ran to its end, and so made a first request
  requests,   \* fetches under way; busy is that there is one
  snapshot,   \* ctx.snapshot, a set of at most one
  shown,      \* what #content was drawn from: version and whether as current
  due,        \* time left to nextRefreshAt
  phase,      \* time into the minute
  crossed,    \* renderedMinute is an earlier minute
  ticked,     \* the timer has run since time last passed
  notice,     \* what #notice says
  silent      \* time since an answer was shown, or since the page could ask

pageVars == <<server, up, visible, online, started, requests, snapshot, shown,
              due, phase, crossed, ticked, notice, silent>>

Oldest    == FreshFor + Minute + 1
Loudest   == Refresh + Timeout + 1
Older(n, cap)  == IF n < cap THEN n + 1 ELSE cap
Sooner(n)      == IF n > 0 THEN n - 1 ELSE 0

busy == requests # {}

\* A malformed fragment makes decodeURIComponent throw at the end of the script:
\* the timer is set by then, the first refresh is never made.
PageInit ==
  /\ server = [version |-> 0, age |-> 0, warns |-> FALSE]
  /\ up = TRUE /\ visible = TRUE /\ online = TRUE
  /\ started \in BOOLEAN
  /\ requests = IF started THEN {[left |-> Timeout, answer |-> {}]} ELSE {}
  /\ snapshot = {} /\ shown = {}
  /\ due = Refresh /\ phase = 0 /\ crossed = TRUE /\ ticked = TRUE
  /\ notice = "hidden" /\ silent = 0

(***************************************************************************)
(* render: everything is drawn again from one snapshot at this instant.    *)
(***************************************************************************)
DrawnFrom(s) == [version |-> s.version, current |-> s.age <= FreshFor]

Render(from) ==
  IF from = {} THEN UNCHANGED <<shown, crossed>>
  ELSE /\ shown' = {DrawnFrom(s) : s \in from}
       /\ crossed' = FALSE

KeepDrawn == UNCHANGED <<shown, crossed>>

(***************************************************************************)
(* refresh, up to its fetch.                                               *)
(***************************************************************************)
MayAsk_Unguarded == Cardinality(requests) < MaxRequests
MayAsk == ~busy

Ask == requests' =
  IF MayAsk THEN requests \cup {[left |-> Timeout, answer |-> {}]} ELSE requests

(***************************************************************************)
(* The server.                                                             *)
(***************************************************************************)
Publish ==
  /\ server.version < MaxVersion
  /\ \E age \in {0, FreshFor}, warns \in BOOLEAN :
       server' = [version |-> server.version + 1, age |-> age, warns |-> warns]
  /\ UNCHANGED <<up, visible, online, started, requests, snapshot, shown, due,
                 phase, crossed, ticked, notice, silent>>

Reach ==
  /\ up' = ~up
  /\ UNCHANGED <<server, visible, online, started, requests, snapshot, shown, due,
                 phase, crossed, ticked, notice, silent>>

Answer(r) ==
  /\ up /\ r.answer = {}
  /\ requests' = (requests \ {r}) \cup {[r EXCEPT !.answer = {server}]}
  /\ UNCHANGED <<server, up, visible, online, started, snapshot, shown, due,
                 phase, crossed, ticked, notice, silent>>

(***************************************************************************)
(* refresh, from its answer on.                                            *)
(***************************************************************************)
NextRefresh == Refresh

Succeed(r) ==
  /\ r.answer # {}
  /\ requests' = requests \ {r}
  /\ snapshot' = r.answer
  /\ Render(r.answer)
  /\ notice' = IF \E s \in r.answer : s.warns THEN "warnings" ELSE "hidden"
  /\ due' = NextRefresh
  /\ silent' = 0
  /\ UNCHANGED <<server, up, visible, online, started, phase, ticked>>

FailureNotice_OnlyAtFirst ==
  IF snapshot # {} THEN notice ELSE "unloaded"
FailureNotice == IF snapshot # {} THEN "disconnected" ELSE "unloaded"

\* The request was refused, ran out of time before its body was read, or was
\* answered with a failure or with a body that validateSnapshot rejects.
Fail(r) ==
  /\ ~up
  /\ requests' = requests \ {r}
  /\ notice' = FailureNotice
  /\ Render(snapshot)
  /\ due' = NextRefresh
  /\ UNCHANGED <<server, up, visible, online, started, snapshot, phase, ticked, silent>>

(***************************************************************************)
(* The events of the browser.                                              *)
(***************************************************************************)
Hears == visible /\ online

\* The button, the window's focus, and pageshow of a page kept in memory.
Press ==
  /\ visible
  /\ Ask
  /\ UNCHANGED <<server, up, visible, online, started, snapshot, shown, due, phase,
                 crossed, ticked, notice, silent>>

Show ==
  /\ ~visible
  /\ visible' = TRUE
  /\ Ask
  /\ ticked' = FALSE
  /\ silent' = 0
  /\ UNCHANGED <<server, up, online, started, snapshot, shown, due, phase, crossed,
                 notice>>

Hide ==
  /\ visible
  /\ visible' = FALSE
  /\ UNCHANGED <<server, up, online, started, requests, snapshot, shown, due, phase,
                 crossed, ticked, notice, silent>>

GoOnline ==
  /\ ~online
  /\ online' = TRUE
  /\ Ask
  /\ silent' = 0
  /\ UNCHANGED <<server, up, visible, started, snapshot, shown, due, phase, crossed,
                 ticked, notice>>

GoOffline ==
  /\ online
  /\ online' = FALSE
  /\ Render(snapshot)
  /\ notice' = IF snapshot # {} THEN "offline" ELSE notice
  /\ UNCHANGED <<server, up, visible, started, requests, snapshot, due, phase,
                 ticked, silent>>

\* A search, a period or a selection draws the page again.
Redraw ==
  /\ visible /\ snapshot # {}
  /\ Render(snapshot)
  /\ UNCHANGED <<server, up, visible, online, started, requests, snapshot, due,
                 phase, ticked, notice, silent>>

(***************************************************************************)
(* The timer.                                                              *)
(***************************************************************************)
AsksUnattended_OnceLoaded == ~busy /\ visible /\ online /\ due = 0 /\ snapshot # {}
AsksUnattended == ~busy /\ visible /\ online /\ due = 0
RedrawsUnattended_OnlyOnAnswer == FALSE
RedrawsUnattended == snapshot # {} /\ visible /\ crossed

Timer ==
  /\ ~ticked
  /\ ticked' = TRUE
  /\ IF AsksUnattended THEN Ask ELSE UNCHANGED requests
  /\ IF RedrawsUnattended THEN Render(snapshot) ELSE KeepDrawn
  /\ UNCHANGED <<server, up, visible, online, started, snapshot, due, phase, notice,
                 silent>>

\* Time passes.  The browser runs the timer of a visible page at each unit, and
\* a request never outlives its limit; a server that is up answers within it.
Aged(s)   == [s EXCEPT !.age = Older(s.age, Oldest)]
Waited(r) == [left |-> r.left - 1, answer |-> {Aged(s) : s \in r.answer}]

Pass ==
  /\ visible => ticked
  /\ \A r \in requests : r.left > 0
  /\ server' = Aged(server)
  /\ requests' = {Waited(r) : r \in requests}
  /\ snapshot' = {Aged(s) : s \in snapshot}
  /\ due' = Sooner(due)
  /\ phase' = (phase + 1) % Minute
  /\ crossed' = (crossed \/ phase' = 0)
  /\ ticked' = FALSE
  /\ silent' = IF Hears THEN Older(silent, Loudest) ELSE 0
  /\ UNCHANGED <<up, visible, online, started, shown, notice>>

Settle  == \E r \in requests : Answer(r) \/ Succeed(r) \/ Fail(r)
PageNext ==
  \/ Publish \/ Reach \/ Settle
  \/ Press \/ Show \/ Hide \/ GoOnline \/ GoOffline \/ Redraw
  \/ Timer \/ Pass

(***************************************************************************)
(* The browser delivers answers and time; nobody has to touch the page.    *)
(***************************************************************************)
PageFairness == WF_pageVars(Settle) /\ WF_pageVars(Timer) /\ WF_pageVars(Pass)

PageSpec == PageInit /\ [][PageNext]_pageVars /\ PageFairness

\* On a visible page a reading is never shown as current a minute after it
\* expired, whether or not an answer arrives: the timer of app.ts alone draws
\* it again as expired, whatever the order of failures, hiding and waking.
ExpiredNotCurrent ==
  (visible /\ ticked) =>
    \A s \in snapshot : s.age >= FreshFor + Minute => \A d \in shown : ~d.current

\* The page never goes back to an earlier snapshot: however the button, the
\* timer and the browser's events overlap, an answer that was overtaken is not
\* drawn over a later one.
NeverBackwards ==
  [][\A d \in shown, e \in shown' : e.version >= d.version]_pageVars

\* While the page is visible and has a network, no more time than one wait and
\* one request passes without an answer before the page says that what it
\* shows is not current, or that nothing could be loaded.
SilenceIsTold ==
  silent = Loudest => notice \in {"disconnected", "offline", "unloaded"}

\* A page left alone catches up with the server once it is visible, has a
\* network and the server answers, even when its script was cut short.
EventuallyCurrent ==
  <>[](visible /\ online /\ up) => <>[](\E d \in shown : d.version = server.version)
=============================================================================

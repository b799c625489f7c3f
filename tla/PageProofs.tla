----------------------------- MODULE PageProofs -----------------------------
(***************************************************************************)
(* The web page, its three machines one after the other.                   *)
(*                                                                         *)
(* What the page shows, however long its waits are and however the button, *)
(* the timer and the browser's events overlap.  Where its focus is, for    *)
(* any list of providers and any way the window, the browser's own moves   *)
(* of the focus and the redraws interleave.  What its chart says and the   *)
(* height it keeps, for any bars and any order of the callbacks.           *)
(***************************************************************************)
EXTENDS Page, Drawer, Chart, FiniteSetTheorems, WellFoundedInduction, TLAPS

Snapshots == [version : Nat, age : Nat, warns : BOOLEAN]
Notices   == {"hidden", "warnings", "disconnected", "offline", "unloaded"}
Told      == {"disconnected", "offline", "unloaded"}

PageTyped ==
  /\ server \in Snapshots /\ snapshot \subseteq Snapshots
  /\ requests \subseteq [left : 0 .. Timeout, answer : SUBSET Snapshots]
  /\ shown \subseteq [version : Nat, current : BOOLEAN]
  /\ up \in BOOLEAN /\ visible \in BOOLEAN /\ online \in BOOLEAN /\ started \in BOOLEAN
  /\ crossed \in BOOLEAN /\ ticked \in BOOLEAN
  /\ due \in 0 .. Refresh /\ phase \in 0 .. Minute - 1 /\ silent \in 0 .. Loudest
  /\ notice \in Notices

\* The guard lets one request out at a time, and it has one answer.
OneAnswer ==
  /\ \A r, q \in requests : r = q
  /\ \A s, t \in snapshot : s = t
  /\ \A d, e \in shown : d = e
  /\ \A r \in requests : \A a, b \in r.answer : a = b

\* Shown, held, answered and published, in the order of their versions.
VersionsRise ==
  /\ shown # {} => snapshot # {}
  /\ \A s \in snapshot : /\ \A d \in shown : d.version <= s.version
                         /\ s.version <= server.version
  /\ \A r \in requests : \A a \in r.answer :
       /\ a.version <= server.version
       /\ \A s \in snapshot : s.version <= a.version

\* What is drawn as current has expired no longer ago than the minute that runs; a
\* timer that has come by has seen to the last one.
DrawnThisMinute ==
  /\ visible /\ ticked /\ snapshot # {} => ~crossed
  /\ ~crossed => \A s \in snapshot, d \in shown : d.current => s.age <= FreshFor + phase

\* Until the page tells of a silence, the silence is no longer than the wait so far, or
\* than the wait and the time of the request that is out.
SilenceMeasured ==
  notice \notin Told =>
    /\ requests = {} => /\ silent <= Refresh - due
                        /\ ticked /\ Hears => due > 0
    /\ \A r \in requests : silent <= Refresh + Timeout - r.left

PageInv == PageTyped /\ OneAnswer /\ VersionsRise /\ DrawnThisMinute /\ SilenceMeasured
-----------------------------------------------------------------------------
LEMMA BoundsArePositive ==
  /\ Refresh \in Nat /\ Refresh >= 1 /\ Timeout \in Nat /\ Timeout >= 1
  /\ Minute \in Nat /\ Minute >= 1 /\ FreshFor \in Nat
  /\ Loudest \in Nat /\ Loudest = Refresh + Timeout + 1
  /\ Oldest \in Nat /\ Oldest = FreshFor + Minute + 1
BY PageAssumption DEF Loudest, Oldest

LEMMA NextPhase ==
  ASSUME NEW m \in Nat \ {0}, NEW p \in 0 .. m - 1
  PROVE  (p + 1) % m = IF p + 1 = m THEN 0 ELSE p + 1
OBVIOUS

\* What ages keeps everything else.
LEMMA AgedFacts ==
  ASSUME NEW s \in Snapshots
  PROVE  /\ Aged(s) \in Snapshots /\ Aged(s).version = s.version
         /\ Aged(s).age <= s.age + 1
BY BoundsArePositive DEF Aged, Older, Snapshots

LEMMA RenderFacts ==
  ASSUME NEW from, Render(from)
  PROVE  \/ from = {} /\ shown' = shown /\ crossed' = crossed
         \/ from # {} /\ shown' = {DrawnFrom(s) : s \in from} /\ crossed' = FALSE
BY DEF Render

LEMMA DrawnFacts ==
  ASSUME NEW s \in Snapshots
  PROVE  /\ DrawnFrom(s) \in [version : Nat, current : BOOLEAN]
         /\ DrawnFrom(s).version = s.version
         /\ DrawnFrom(s).current => s.age <= FreshFor
<1>1. s.version \in Nat /\ (s.age <= FreshFor) \in BOOLEAN
  BY BoundsArePositive DEF Snapshots
<1> QED
  BY <1>1, Zenon DEF DrawnFrom

LEMMA RenderTyped ==
  ASSUME PageTyped, NEW from \in SUBSET Snapshots, Render(from)
  PROVE  shown' \subseteq [version : Nat, current : BOOLEAN] /\ crossed' \in BOOLEAN
<1>1. \A s \in from : DrawnFrom(s) \in [version : Nat, current : BOOLEAN]
  BY DrawnFacts
<1>2. shown' = shown \/ shown' \subseteq {DrawnFrom(s) : s \in from}
  BY RenderFacts, Zenon
<1>3. crossed' = crossed \/ crossed' = FALSE
  BY RenderFacts, Zenon
<1>4. crossed \in BOOLEAN /\ shown \subseteq [version : Nat, current : BOOLEAN]
  BY DEF PageTyped
<1>5. {DrawnFrom(s) : s \in from} \subseteq [version : Nat, current : BOOLEAN]
  BY <1>1, Zenon
<1>6. shown' \subseteq [version : Nat, current : BOOLEAN]
  BY <1>2, <1>4, <1>5, Zenon
<1> QED
  BY <1>3, <1>4, <1>6, Zenon

\* The request that the guard lets out.
LEMMA AskFacts ==
  ASSUME Ask
  PROVE  \/ requests # {} /\ requests' = requests
         \/ requests = {} /\ requests' = {[left |-> Timeout, answer |-> {}]}
BY DEF Ask, MayAsk, busy

-----------------------------------------------------------------------------
LEMMA TypedStep ==
  ASSUME PageTyped, [PageNext]_pageVars
  PROVE  PageTyped'
<1> USE BoundsArePositive
<1>1. CASE Publish
  BY <1>1 DEF Publish, PageTyped, Snapshots
<1>2. CASE Reach
  BY <1>2 DEF Reach, PageTyped
<1>3. CASE Settle
  <2>1. PICK r \in requests : Answer(r) \/ Succeed(r) \/ Fail(r)
    BY <1>3 DEF Settle
  <2>2. r \in [left : 0 .. Timeout, answer : SUBSET Snapshots]
    BY DEF PageTyped
  <2>3. CASE Answer(r)
    <3>1. [r EXCEPT !.answer = {server}] \in [left : 0 .. Timeout, answer : SUBSET Snapshots]
      BY <2>2 DEF PageTyped
    <3> QED
      BY <2>3, <3>1 DEF Answer, PageTyped
  <2>4. CASE Succeed(r)
    <3>1. r.answer \subseteq Snapshots /\ Render(r.answer)
      BY <2>2, <2>4 DEF Succeed
    <3>2. shown' \subseteq [version : Nat, current : BOOLEAN] /\ crossed' \in BOOLEAN
      BY <3>1, RenderTyped
    <3> QED
      BY <2>4, <3>1, <3>2 DEF Succeed, PageTyped, NextRefresh, Notices
  <2>5. CASE Fail(r)
    <3>1. shown' \subseteq [version : Nat, current : BOOLEAN] /\ crossed' \in BOOLEAN
      BY <2>5, RenderTyped DEF PageTyped, Fail
    <3> QED
      BY <2>5, <3>1 DEF Fail, PageTyped, NextRefresh, Notices, FailureNotice
  <2> QED
    BY <2>1, <2>3, <2>4, <2>5
<1>4. CASE Press
  BY <1>4, AskFacts DEF Press, PageTyped
<1>5. CASE Show
  <2>1. requests' \subseteq [left : 0 .. Timeout, answer : SUBSET Snapshots]
    BY <1>5, AskFacts DEF Show, PageTyped
  <2>2. /\ visible' = TRUE /\ ticked' = FALSE /\ silent' = 0
        /\ UNCHANGED <<server, up, online, started, snapshot, shown, due, phase, crossed, notice>>
    BY <1>5, Zenon DEF Show
  <2>3. silent' \in 0 .. Loudest
    BY <2>2
  <2> QED
    BY <2>1, <2>2, <2>3, Zenon DEF PageTyped
<1>6. CASE Hide
  BY <1>6 DEF Hide, PageTyped
<1>7. CASE GoOnline
  BY <1>7, AskFacts DEF GoOnline, PageTyped
<1>8. CASE GoOffline \/ Redraw
  <2>1. shown' \subseteq [version : Nat, current : BOOLEAN] /\ crossed' \in BOOLEAN
    BY <1>8, RenderTyped DEF PageTyped, GoOffline, Redraw
  <2> QED
    BY <1>8, <2>1 DEF GoOffline, Redraw, PageTyped, Notices
<1>9. CASE Timer
  <2>1. requests' \subseteq [left : 0 .. Timeout, answer : SUBSET Snapshots]
    BY <1>9, AskFacts DEF Timer, PageTyped
  <2>2. shown' \subseteq [version : Nat, current : BOOLEAN] /\ crossed' \in BOOLEAN
    BY <1>9, RenderTyped DEF PageTyped, Timer, KeepDrawn
  <2> QED
    BY <1>9, <2>1, <2>2 DEF Timer, PageTyped
<1>10. CASE Pass
  <2>1. \A r \in requests : Waited(r) \in [left : 0 .. Timeout, answer : SUBSET Snapshots]
    <3> SUFFICES ASSUME NEW r \in requests
                 PROVE  Waited(r) \in [left : 0 .. Timeout, answer : SUBSET Snapshots]
      OBVIOUS
    <3>1. r.left \in 1 .. Timeout /\ r.answer \subseteq Snapshots
      BY <1>10 DEF Pass, PageTyped
    <3>2. {Aged(s) : s \in r.answer} \subseteq Snapshots
      BY <3>1, AgedFacts
    <3> QED
      BY <3>1, <3>2 DEF Waited
  <2>2. server' \in Snapshots /\ snapshot' \subseteq Snapshots
    BY <1>10, AgedFacts DEF Pass, PageTyped
  <2>3. due' \in 0 .. Refresh /\ silent' \in 0 .. Loudest
    BY <1>10 DEF Pass, PageTyped, Sooner, Older
  <2>4. phase' \in 0 .. Minute - 1
    BY <1>10, NextPhase DEF Pass, PageTyped
  <2> QED
    BY <1>10, <2>1, <2>2, <2>3, <2>4 DEF Pass, PageTyped
<1>11. CASE UNCHANGED pageVars
  BY <1>11 DEF pageVars, PageTyped
<1> QED
  BY <1>1, <1>2, <1>3, <1>4, <1>5, <1>6, <1>7, <1>8, <1>9, <1>10, <1>11 DEF PageNext

\* What a step does to the four places a snapshot is in: it is published, answered, shown,
\* drawn again, or none of these.
LEMMA StepCases ==
  ASSUME PageTyped, OneAnswer, [PageNext]_pageVars
  PROVE  \/ /\ server'.version = server.version + 1 /\ UNCHANGED <<requests, snapshot, shown>>
         \/ \E r \in requests :
              /\ server' = server /\ snapshot' = snapshot /\ shown' = shown
              /\ requests' = {[r EXCEPT !.answer = {server}]}
         \/ \E r \in requests :
              /\ r.answer # {} /\ server' = server /\ requests' = {}
              /\ snapshot' = r.answer /\ shown' = {DrawnFrom(s) : s \in r.answer}
         \/ /\ server' = server /\ snapshot' = snapshot
            /\ requests' \in {requests, {}, {[left |-> Timeout, answer |-> {}]}}
            /\ \/ shown' = shown
               \/ snapshot # {} /\ shown' = {DrawnFrom(s) : s \in snapshot}
         \/ Pass
<1> DEFINE Stays == /\ server' = server /\ snapshot' = snapshot
                    /\ requests' \in {requests, {}, {[left |-> Timeout, answer |-> {}]}}
                    /\ \/ shown' = shown
                       \/ snapshot # {} /\ shown' = {DrawnFrom(s) : s \in snapshot}
<1>1. CASE Publish
  <2>1. UNCHANGED <<requests, snapshot, shown>>
    BY <1>1 DEF Publish
  <2>2. server'.version = server.version + 1
    BY <1>1 DEF Publish
  <2> QED
    BY <2>1, <2>2
<1>2. CASE Settle
  <2>1. PICK r \in requests : Answer(r) \/ Succeed(r) \/ Fail(r)
    BY <1>2 DEF Settle
  <2>2. requests \ {r} = {}
    BY DEF OneAnswer
  <2>3. CASE Answer(r)
    BY <2>2, <2>3 DEF Answer
  <2>4. CASE Succeed(r)
    BY <2>2, <2>4, RenderFacts DEF Succeed
  <2>5. CASE Fail(r)
    <3>1. Stays
      BY <2>2, <2>5, RenderFacts DEF Fail
    <3> QED
      BY <3>1
  <2> QED
    BY <2>1, <2>3, <2>4, <2>5
<1>3. CASE Press \/ Show \/ GoOnline
  <2>1. Stays
    BY <1>3, AskFacts DEF Press, Show, GoOnline
  <2> QED
    BY <2>1
<1>4. CASE GoOffline \/ Redraw
  <2>1. Stays
    BY <1>4, RenderFacts DEF GoOffline, Redraw
  <2> QED
    BY <2>1
<1>5. CASE Timer
  <2>1. requests' \in {requests, {}, {[left |-> Timeout, answer |-> {}]}}
    BY <1>5, AskFacts DEF Timer
  <2>2. \/ shown' = shown
        \/ snapshot # {} /\ shown' = {DrawnFrom(s) : s \in snapshot}
    <3>1. CASE RedrawsUnattended
      BY <1>5, <3>1, RenderFacts, Zenon DEF Timer
    <3>2. CASE ~RedrawsUnattended
      BY <1>5, <3>2, Zenon DEF Timer, KeepDrawn
    <3> QED
      BY <3>1, <3>2
  <2>3. server' = server /\ snapshot' = snapshot
    BY <1>5 DEF Timer
  <2> QED
    BY <2>1, <2>2, <2>3
<1>6. CASE Reach \/ Hide \/ UNCHANGED pageVars
  <2>1. Stays
    BY <1>6 DEF Reach, Hide, pageVars
  <2> QED
    BY <2>1
<1> QED
  BY <1>1, <1>2, <1>3, <1>4, <1>5, <1>6 DEF PageNext

LEMMA OneAnswerStep ==
  ASSUME PageTyped, OneAnswer, [PageNext]_pageVars
  PROVE  OneAnswer'
<1>1. ASSUME requests' = requests, snapshot' = snapshot, shown' = shown PROVE OneAnswer'
  BY <1>1 DEF OneAnswer
<1>2. ASSUME NEW r \in requests, snapshot' = snapshot, shown' = shown,
             requests' = {[r EXCEPT !.answer = {server}]}
      PROVE  OneAnswer'
  <2>1. \A q \in requests' : q.answer = {server}
    BY <1>2 DEF PageTyped
  <2> QED
    BY <1>2, <2>1 DEF OneAnswer
<1>3. ASSUME NEW r \in requests, requests' = {}, snapshot' = r.answer,
             shown' = {DrawnFrom(s) : s \in r.answer}
      PROVE  OneAnswer'
  BY <1>3 DEF OneAnswer
<1>4. ASSUME snapshot' = snapshot, requests' \in {requests, {}, {[left |-> Timeout, answer |-> {}]}},
             shown' = shown \/ shown' = {DrawnFrom(s) : s \in snapshot}
      PROVE  OneAnswer'
  BY <1>4 DEF OneAnswer
<1>5. CASE Pass
  <2>1. /\ requests' = {Waited(r) : r \in requests}
        /\ snapshot' = {Aged(s) : s \in snapshot} /\ shown' = shown
        /\ \A r \in requests : Waited(r).answer = {Aged(s) : s \in r.answer}
    BY <1>5 DEF Pass, Waited
  <2> QED
    BY <2>1 DEF OneAnswer
<1> QED
  BY <1>1, <1>2, <1>3, <1>4, <1>5, StepCases

LEMMA VersionsRiseStep ==
  ASSUME PageTyped, OneAnswer, VersionsRise, [PageNext]_pageVars
  PROVE  VersionsRise' /\ \A d \in shown, e \in shown' : e.version >= d.version
<1> DEFINE Rises == \A d \in shown, e \in shown' : e.version >= d.version
<1>0. /\ server.version \in Nat
      /\ \A d \in shown : d.version \in Nat
      /\ \A s \in snapshot : s \in Snapshots /\ s.version \in Nat
      /\ \A r \in requests : \A a \in r.answer : a \in Snapshots /\ a.version \in Nat
      /\ \A d, e \in shown : d.version = e.version
      /\ \A d, e \in shown : d.version >= e.version
  BY DEF PageTyped, Snapshots, OneAnswer
<1>1. ASSUME server'.version = server.version + 1, UNCHANGED <<requests, snapshot, shown>>
      PROVE  VersionsRise' /\ Rises
  BY <1>0, <1>1 DEF VersionsRise
<1>2. ASSUME NEW r \in requests, server' = server, snapshot' = snapshot, shown' = shown,
             requests' = {[r EXCEPT !.answer = {server}]}
      PROVE  VersionsRise' /\ Rises
  <2>1. \A q \in requests' : q.answer = {server}
    BY <1>2 DEF PageTyped
  <2> QED
    BY <1>0, <1>2, <2>1 DEF VersionsRise
<1>3. ASSUME NEW r \in requests, r.answer # {}, server' = server, requests' = {},
             snapshot' = r.answer, shown' = {DrawnFrom(s) : s \in r.answer}
      PROVE  VersionsRise' /\ Rises
  <2>1. \A e \in shown' : \E a \in r.answer : e.version = a.version
    BY <1>0, <1>3, DrawnFacts
  <2>2. \A a, b \in r.answer : a = b
    BY DEF OneAnswer
  <2>3. Rises
    BY <1>0, <2>1 DEF VersionsRise
  <2> QED
    BY <1>0, <1>3, <2>1, <2>2, <2>3 DEF VersionsRise
<1>4. ASSUME server' = server, snapshot' = snapshot,
             requests' \in {requests, {}, {[left |-> Timeout, answer |-> {}]}},
             shown' = shown \/ (snapshot # {} /\ shown' = {DrawnFrom(s) : s \in snapshot})
      PROVE  VersionsRise' /\ Rises
  <2>1. \A r \in requests' : r \in requests \/ r.answer = {}
    BY <1>4
  <2>2. CASE shown' = shown
    BY <1>0, <1>4, <2>1, <2>2 DEF VersionsRise
  <2>3. CASE snapshot # {} /\ shown' = {DrawnFrom(s) : s \in snapshot}
    <3>1. \A e \in shown' : \E s \in snapshot : e.version = s.version
      BY <1>0, <2>3, DrawnFacts
    <3>2. \A s, t \in snapshot : s = t
      BY DEF OneAnswer
    <3>3. Rises
      BY <1>0, <3>1 DEF VersionsRise
    <3> QED
      BY <1>0, <1>4, <2>1, <2>3, <3>1, <3>2, <3>3 DEF VersionsRise
  <2> QED
    BY <1>4, <2>2, <2>3
<1>5. CASE Pass
  <2>1. /\ requests' = {Waited(r) : r \in requests} /\ server' = Aged(server)
        /\ snapshot' = {Aged(s) : s \in snapshot} /\ shown' = shown
        /\ \A r \in requests : Waited(r).answer = {Aged(s) : s \in r.answer}
    BY <1>5 DEF Pass, Waited
  <2>2. server'.version = server.version
    BY <2>1, AgedFacts DEF PageTyped
  <2>3. \A t \in snapshot' : \E s \in snapshot : t.version = s.version
    BY <1>0, <2>1, AgedFacts
  <2>4. \A q \in requests' : \A b \in q.answer :
          \E r \in requests : \E a \in r.answer : b.version = a.version
    BY <1>0, <2>1, AgedFacts
  <2>5. shown' # {} => snapshot' # {}
    BY <2>1 DEF VersionsRise
  <2> QED
    BY <1>0, <2>1, <2>2, <2>3, <2>4, <2>5 DEF VersionsRise
<1> QED
  BY <1>1, <1>2, <1>3, <1>4, <1>5, StepCases

\* Whatever draws the page from the one snapshot it holds sees to the minute.
LEMMA DrawnAgain ==
  ASSUME PageTyped, NEW from \in SUBSET Snapshots, \A s, t \in from : s = t,
         Render(from), snapshot' = from, phase' = phase
  PROVE  DrawnThisMinute'
<1>1. CASE from = {}
  BY <1>1 DEF DrawnThisMinute
<1>2. CASE from # {}
  <2>1. ~crossed' /\ shown' = {DrawnFrom(s) : s \in from}
    BY <1>2, Zenon DEF Render
  <2>2. ASSUME NEW s \in snapshot', NEW d \in shown', d.current
        PROVE  s.age <= FreshFor + phase'
    <3>1. PICK t \in from : d = DrawnFrom(t)
      BY <2>1
    <3>2. s = t /\ s \in Snapshots
      BY <3>1
    <3>3. s.age <= FreshFor
      BY <2>2, <3>1, <3>2, DrawnFacts
    <3> QED
      BY <3>2, <3>3, BoundsArePositive DEF PageTyped, Snapshots
  <2> QED
    BY <2>1, <2>2 DEF DrawnThisMinute
<1> QED
  BY <1>1, <1>2

LEMMA DrawnStep ==
  ASSUME PageTyped, OneAnswer, DrawnThisMinute, [PageNext]_pageVars
  PROVE  DrawnThisMinute'
<1>1. ASSUME visible' = visible \/ visible' = FALSE \/ ticked' = FALSE,
             ticked' = ticked \/ ticked' = FALSE,
             snapshot' = snapshot, crossed' = crossed, shown' = shown, phase' = phase
      PROVE  DrawnThisMinute'
  <2>1. visible' /\ ticked' => visible /\ ticked
    BY <1>1, Zenon
  <2>2. visible' /\ ticked' /\ snapshot' # {} => ~crossed'
    BY <1>1, <2>1, Zenon DEF DrawnThisMinute
  <2>3. ~crossed' => \A s \in snapshot', d \in shown' : d.current => s.age <= FreshFor + phase'
    BY <1>1, Zenon DEF DrawnThisMinute
  <2> QED
    BY <2>2, <2>3, Zenon DEF DrawnThisMinute
<1>2. CASE Settle
  <2>1. PICK r \in requests : Answer(r) \/ Succeed(r) \/ Fail(r)
    BY <1>2 DEF Settle
  <2>2. CASE Answer(r)
    BY <1>1, <2>2 DEF Answer
  <2>3. CASE Succeed(r)
    BY <2>3, DrawnAgain DEF Succeed, PageTyped, OneAnswer
  <2>4. CASE Fail(r)
    BY <2>4, DrawnAgain DEF Fail, PageTyped, OneAnswer
  <2> QED
    BY <2>1, <2>2, <2>3, <2>4
<1>3. CASE GoOffline \/ Redraw
  BY <1>3, DrawnAgain DEF GoOffline, Redraw, PageTyped, OneAnswer
<1>4. CASE Timer
  <2>1. snapshot' = snapshot /\ phase' = phase /\ visible' = visible
    BY <1>4, Zenon DEF Timer
  <2>2. CASE RedrawsUnattended
    <3>1. Render(snapshot)
      BY <1>4, <2>2, Zenon DEF Timer
    <3> QED
      BY <2>1, <3>1, DrawnAgain DEF PageTyped, OneAnswer
  <2>3. CASE ~RedrawsUnattended
    <3>1. shown' = shown /\ crossed' = crossed
      BY <1>4, <2>3, Zenon DEF Timer, KeepDrawn
    <3> QED
      BY <2>1, <2>3, <3>1, Zenon DEF DrawnThisMinute, RedrawsUnattended
  <2> QED
    BY <2>2, <2>3
<1>5. CASE Pass
  <2>1. /\ snapshot' = {Aged(s) : s \in snapshot} /\ shown' = shown
        /\ ticked' = FALSE /\ (~crossed' => ~crossed /\ phase' # 0) /\ phase' = (phase + 1) % Minute
    BY <1>5, Zenon DEF Pass
  <2>2. ASSUME ~crossed', NEW t \in snapshot', NEW d \in shown', d.current
        PROVE  t.age <= FreshFor + phase'
    <3>1. PICK s \in snapshot : t = Aged(s)
      BY <2>1
    <3>2. s.age \in Nat /\ t.age \in Nat /\ t.age <= s.age + 1
      BY <3>1, AgedFacts DEF PageTyped, Snapshots
    <3>3. s.age <= FreshFor + phase
      BY <2>1, <2>2, <3>1, Zenon DEF DrawnThisMinute
    <3>4. phase' = phase + 1
      BY <2>1, <2>2, NextPhase, BoundsArePositive DEF PageTyped
    <3> QED
      BY <3>2, <3>3, <3>4, BoundsArePositive DEF PageTyped
  <2> QED
    BY <2>1, <2>2, Zenon DEF DrawnThisMinute
<1>6. CASE Publish \/ Reach \/ Press \/ Show \/ Hide \/ GoOnline \/ UNCHANGED pageVars
  BY <1>1, <1>6, Zenon DEF Publish, Reach, Press, Show, Hide, GoOnline, pageVars
<1> QED
  BY <1>2, <1>3, <1>4, <1>5, <1>6 DEF PageNext

LEMMA SilenceStep ==
  ASSUME PageTyped, OneAnswer, SilenceMeasured, [PageNext]_pageVars
  PROVE  SilenceMeasured'
<1> USE BoundsArePositive
<1> DEFINE Asked == {[left |-> Timeout, answer |-> {}]}
<1>0. /\ due \in 0 .. Refresh /\ silent \in 0 .. Loudest
      /\ \A r \in requests : r.left \in 0 .. Timeout
  BY DEF PageTyped
\* No request is made or answered, and nothing that could ask starts to.
<1>1. ASSUME requests' = requests, silent' = silent, due' = due,
             notice' \in Told \/ notice' = notice,
             ticked' /\ Hears' => ticked /\ Hears
      PROVE  SilenceMeasured'
  BY <1>1, Zenon DEF SilenceMeasured
\* Something asks.
<1>2. ASSUME Ask, due' = due, notice' = notice, silent' = silent \/ silent' = 0
      PROVE  SilenceMeasured'
  <2>1. CASE requests # {}
    <3>1. requests' = requests
      BY <1>2, <2>1, AskFacts
    <3> QED
      BY <1>0, <1>2, <2>1, <3>1 DEF SilenceMeasured
  <2>2. CASE requests = {}
    <3>1. requests' = Asked
      BY <1>2, <2>2, AskFacts
    <3>2. \A r \in requests' : r.left = Timeout
      BY <3>1
    <3>3. notice \notin Told => silent <= Refresh
      BY <1>0, <2>2 DEF SilenceMeasured
    <3>4. notice' \notin Told => \A r \in requests' : silent' <= Refresh + Timeout - r.left
      BY <1>0, <1>2, <3>2, <3>3
    <3>5. requests' # {}
      BY <3>1
    <3> QED
      BY <3>4, <3>5, Zenon DEF SilenceMeasured
  <2> QED
    BY <2>1, <2>2
<1>3. CASE Settle
  <2>1. PICK r \in requests : Answer(r) \/ Succeed(r) \/ Fail(r)
    BY <1>3 DEF Settle
  <2>2. CASE Answer(r)
    <3>1. requests' = {[r EXCEPT !.answer = {server}]}
      BY <2>2 DEF Answer, OneAnswer
    <3>2. \A q \in requests' : q.left = r.left
      BY <3>1 DEF PageTyped
    <3>3. silent' = silent /\ notice' = notice /\ requests' # {}
      BY <2>2, <3>1 DEF Answer
    <3> QED
      BY <3>2, <3>3 DEF SilenceMeasured
  <2>3. CASE Succeed(r)
    <3>1. requests' = {} /\ silent' = 0 /\ due' = Refresh
      BY <2>3 DEF Succeed, OneAnswer, NextRefresh
    <3>2. silent' <= Refresh - due' /\ due' > 0
      BY <3>1
    <3> QED
      BY <3>1, <3>2, Zenon DEF SilenceMeasured
  <2>4. CASE Fail(r)
    <3>1. notice' \in Told
      BY <2>4 DEF Fail, FailureNotice, Told
    <3> QED
      BY <3>1 DEF SilenceMeasured
  <2> QED
    BY <2>1, <2>2, <2>3, <2>4
<1>4. CASE Press \/ Show \/ GoOnline
  BY <1>2, <1>4, Zenon DEF Press, Show, GoOnline
<1>5. CASE Timer
  <2>1. /\ due' = due /\ notice' = notice /\ silent' = silent
        /\ UNCHANGED <<visible, online>>
    BY <1>5, Zenon DEF Timer
  <2>2. CASE AsksUnattended
    BY <1>2, <1>5, <2>1, <2>2, Zenon DEF Timer
  <2>3. CASE ~AsksUnattended
    <3>1. requests' = requests
      BY <1>5, <2>3, Zenon DEF Timer
    <3>2. requests = {} /\ Hears' => due # 0
      BY <2>1, <2>3, Zenon DEF AsksUnattended, busy, Hears
    <3>3. due # 0 => due > 0
      BY <1>0
    <3>4. ASSUME notice' \notin Told PROVE
            /\ requests' = {} => /\ silent' <= Refresh - due'
                                 /\ ticked' /\ Hears' => due' > 0
            /\ \A r \in requests' : silent' <= Refresh + Timeout - r.left
      BY <2>1, <3>1, <3>2, <3>3, <3>4, Zenon DEF SilenceMeasured
    <3> QED
      BY <3>4 DEF SilenceMeasured
  <2> QED
    BY <2>2, <2>3
<1>6. CASE Pass
  <2>1. /\ notice' = notice /\ ticked' = FALSE /\ requests' = {Waited(r) : r \in requests}
        /\ due' = Sooner(due) /\ (visible => ticked)
        /\ silent' = (IF Hears THEN Older(silent, Loudest) ELSE 0)
        /\ \A r \in requests : r.left > 0
    BY <1>6, Zenon DEF Pass
  <2>2. \A q \in requests' : \E r \in requests : q.left = r.left - 1
    BY <2>1 DEF Waited
  <2>3. silent' <= silent + 1 /\ silent' \in Nat /\ (~Hears => silent' = 0)
    BY <1>0, <2>1 DEF Older
  <2>4. ASSUME notice' \notin Told, requests' = {} PROVE silent' <= Refresh - due'
    <3>1. requests = {}
      BY <2>1, <2>4
    <3>2. silent <= Refresh - due /\ (Hears => due > 0)
      BY <2>1, <2>4, <3>1, Zenon DEF SilenceMeasured, Hears
    <3> QED
      BY <1>0, <2>1, <2>3, <3>2 DEF Sooner
  <2>5. ASSUME notice' \notin Told, NEW q \in requests'
        PROVE  silent' <= Refresh + Timeout - q.left
    <3>1. PICK r \in requests : q.left = r.left - 1
      BY <2>2
    <3>2. silent <= Refresh + Timeout - r.left
      BY <2>1, <2>5, <3>1 DEF SilenceMeasured
    <3> QED
      BY <1>0, <2>3, <3>1, <3>2
  <2> QED
    BY <2>1, <2>4, <2>5, Zenon DEF SilenceMeasured
<1>7. CASE GoOffline
  <2>1. online' = FALSE /\ requests' = requests /\ silent' = silent /\ due' = due
    BY <1>7, Zenon DEF GoOffline
  <2>2. notice' = "offline" \/ notice' = notice
    BY <1>7, Zenon DEF GoOffline
  <2> QED
    BY <1>1, <2>1, <2>2 DEF Hears, Told
<1>8. CASE Publish \/ Reach \/ Hide \/ Redraw \/ UNCHANGED pageVars
  <2>1. /\ requests' = requests /\ silent' = silent /\ due' = due
        /\ notice' = notice /\ ticked' = ticked
        /\ online' = online /\ (visible' = visible \/ visible' = FALSE)
    BY <1>8, Zenon DEF Publish, Reach, Hide, Redraw, pageVars
  <2>2. ticked' /\ Hears' => ticked /\ Hears
    BY <2>1, Zenon DEF Hears
  <2> QED
    BY <1>1, <2>1, <2>2, Zenon
<1> QED
  BY <1>3, <1>4, <1>5, <1>6, <1>7, <1>8 DEF PageNext

-----------------------------------------------------------------------------
LEMMA PageInitInv == PageInit => PageInv
<1> SUFFICES ASSUME PageInit PROVE PageInv
  OBVIOUS
<1>1. \A r \in requests : r = [left |-> Timeout, answer |-> {}]
  BY DEF PageInit
<1>2. PageTyped
  BY <1>1, BoundsArePositive DEF PageInit, PageTyped, Snapshots, Notices
<1>3. OneAnswer /\ VersionsRise /\ DrawnThisMinute
  BY <1>1 DEF PageInit, OneAnswer, VersionsRise, DrawnThisMinute
<1>4. SilenceMeasured
  BY <1>1, BoundsArePositive DEF PageInit, SilenceMeasured
<1> QED
  BY <1>2, <1>3, <1>4 DEF PageInv

LEMMA PageInvAlways == PageSpec => []PageInv
<1>1. PageInv /\ [PageNext]_pageVars => PageInv'
  BY TypedStep, OneAnswerStep, VersionsRiseStep, DrawnStep, SilenceStep DEF PageInv
<1> QED
  BY PageInitInv, <1>1, PTL DEF PageSpec

\* The page never goes back to an earlier snapshot (refresh, with its guard busy).
THEOREM NeverBackwardsAlways == PageSpec => NeverBackwards
<1>1. PageInv /\ [PageNext]_pageVars =>
        [\A d \in shown, e \in shown' : e.version >= d.version]_pageVars
  BY VersionsRiseStep DEF PageInv
<1> QED
  BY <1>1, PageInvAlways, PTL DEF PageSpec, NeverBackwards

\* No reading is shown as current a minute after it expired (the one-second timer and
\* renderedMinute).
THEOREM ExpiredNotCurrentAlways == PageSpec => []ExpiredNotCurrent
<1>1. ASSUME PageInv PROVE ExpiredNotCurrent
  <2> SUFFICES ASSUME visible, ticked, NEW s \in snapshot, s.age >= FreshFor + Minute,
                      NEW d \in shown, d.current
               PROVE  FALSE
    BY DEF ExpiredNotCurrent
  <2>1. s.age <= FreshFor + phase
    BY <1>1, Zenon DEF PageInv, DrawnThisMinute
  <2> QED
    BY <1>1, <2>1, BoundsArePositive DEF PageInv, PageTyped, Snapshots
<1> QED
  BY <1>1, PageInvAlways, PTL

\* No silence is longer than one wait and one request before the page tells of it (refresh,
\* its catch, the timer, and the events that start a refresh).
THEOREM SilenceIsToldAlways == PageSpec => []SilenceIsTold
<1>1. ASSUME PageInv PROVE SilenceIsTold
  <2> SUFFICES ASSUME silent = Loudest, notice \notin Told PROVE FALSE
    BY DEF SilenceIsTold, Told
  <2>1. \A r \in requests : silent <= Refresh + Timeout - r.left /\ r.left \in 0 .. Timeout
    BY <1>1 DEF PageInv, SilenceMeasured, PageTyped
  <2>2. requests = {} => silent <= Refresh - due
    BY <1>1 DEF PageInv, SilenceMeasured
  <2> QED
    BY <1>1, <2>1, <2>2, BoundsArePositive DEF PageInv, PageTyped
<1> QED
  BY <1>1, PageInvAlways, PTL

-----------------------------------------------------------------------------
(***************************************************************************)
(* The drawer.                                                             *)
(***************************************************************************)
Documents ==
  [open : BOOLEAN, side : BOOLEAN, back : BOOLEAN, order : Seq(Provider), page : Pages,
   busy : BOOLEAN]

DrawerTyped ==
  /\ narrow \in BOOLEAN /\ told \in BOOLEAN /\ held \in BOOLEAN
  /\ hashDue \in BOOLEAN /\ begun \in BOOLEAN
  /\ doc \in Documents /\ IsInjective(doc.order) /\ ranks \in Seq(Provider)
  /\ hash \in Pages \cup {Malformed}
  /\ focus[1] = "toggle" => focus = Toggle
  /\ focus[1] = "refresh" => focus = RefreshButton

\* setDrawer is the only writer of what is inert.
InertFollows ==
  /\ doc.back <=> doc.open
  /\ doc.side => ~doc.open
  /\ told = narrow => (doc.open => narrow) /\ (doc.side => narrow)
  /\ told = narrow /\ begun => (narrow /\ ~doc.open => doc.side)

\* The focus the reader placed is where the keyboard reaches; while a change of width is
\* not yet reported it may also be where MediaChange or FixUp will fetch it from, and it
\* may be on the refresh button that was just disabled.
HeldIsReached ==
  held =>
    \/ Focusable(focus, doc)
    \/ focus = RefreshButton /\ doc.busy /\ ~doc.back
    \/ told # narrow /\ ~narrow /\ focus = Toggle
    \/ told # narrow /\ ~narrow /\ doc.open /\ (focus = Body \/ focus[1] = "close")
    \/ told # narrow /\ narrow /\ ~doc.open /\ focus[1] \in InSidebar

DrawerInv == DrawerTyped /\ InertFollows /\ HeldIsReached /\ HashNamesPage

LEMMA ProvidersAreFinite == IsFiniteSet(Provider) /\ Listed \in Seq(Provider)
<1>1. Listed \in Seq(Provider) /\ Len(Listed) \in Nat /\ DOMAIN Listed = 1 .. Len(Listed)
  BY DrawerAssumption
<1>2. Listed \in Surjection(1 .. Len(Listed), Provider)
  BY <1>1 DEF Surjection, Provider, ToSet
<1>3. IsFiniteSet(1 .. Len(Listed))
  BY <1>1, FS_Interval
<1> QED
  BY <1>1, <1>2, <1>3, FS_Surjection

LEMMA PlaceIsANumber ==
  ASSUME ranks \in Seq(Provider), NEW p \in Provider
  PROVE  Place(p) \in Int
<1>1. CASE p \in ToSet(ranks)
  <2>1. \E i \in DOMAIN ranks : ranks[i] = p
    BY <1>1 DEF ToSet
  <2>2. Place(p) = CHOOSE i \in DOMAIN ranks : ranks[i] = p
    BY <1>1 DEF Place
  <2> QED
    BY <2>1, <2>2
<1>2. CASE p \notin ToSet(ranks)
  <2>1. \E i \in DOMAIN Listed : Listed[i] = p
    BY DEF ToSet, Provider
  <2>2. Place(p) = Len(ranks) + CHOOSE i \in DOMAIN Listed : Listed[i] = p
    BY <1>2 DEF Place
  <2> QED
    BY <2>1, <2>2, ProvidersAreFinite
<1> QED
  BY <1>1, <1>2

\* Sorting loses no provider and repeats none.
LEMMA SortedFacts ==
  ASSUME ranks \in Seq(Provider), NEW present \in SUBSET Provider, NEW s \in Sorted(present)
  PROVE  s \in Seq(Provider) /\ IsInjective(s)
<1>1. Cardinality(present) \in Nat
  BY ProvidersAreFinite, FS_Subset, FS_CardinalityType
<1>2. s \in Seq(Provider) /\ DOMAIN s = 1 .. Cardinality(present)
  BY <1>1 DEF Sorted
<1>3. ASSUME NEW i \in DOMAIN s, NEW j \in DOMAIN s, s[i] = s[j] PROVE i = j
  <2>1. Place(s[i]) \in Int /\ Place(s[j]) \in Int
    BY <1>2, PlaceIsANumber DEF Sorted
  <2>2. ~(i < j) /\ ~(j < i)
    BY <1>3, <2>1 DEF Sorted
  <2> QED
    BY <1>1, <1>2, <2>2
<1> QED
  BY <1>2, <1>3 DEF IsInjective

LEMMA SetDrawerFacts ==
  ASSUME NEW d \in Documents, NEW wanted \in BOOLEAN, narrow \in BOOLEAN
  PROVE  LET to == SetDrawer(d, wanted)
         IN  /\ to \in Documents /\ to.order = d.order /\ to.page = d.page /\ to.busy = d.busy
             /\ to.open = (wanted /\ narrow) /\ to.back = (wanted /\ narrow)
             /\ to.side = (narrow /\ ~(wanted /\ narrow))
<1> DEFINE open == wanted /\ narrow
           side == narrow /\ ~open
<1>1. open \in BOOLEAN /\ side \in BOOLEAN
  OBVIOUS
<1> HIDE DEF open, side
<1>2. SetDrawer(d, wanted) = [d EXCEPT !.open = open, !.side = side, !.back = open]
  BY Zenon DEF SetDrawer, open, side
<1>3. LET to == SetDrawer(d, wanted)
      IN  /\ to \in Documents /\ to.order = d.order /\ to.page = d.page /\ to.busy = d.busy
          /\ to.open = open /\ to.back = open /\ to.side = side
  BY <1>1, <1>2 DEF Documents
<1> QED
  BY <1>3, Zenon DEF open, side

\* What can have the focus, by its kind.
LEMMA FocusableFacts ==
  ASSUME NEW d, NEW el
  PROVE  /\ Focusable(Toggle, d) <=> narrow /\ ~d.back
         /\ Focusable(Close, d) <=> narrow /\ d.open /\ ~d.side
         /\ Focusable(Title, d) <=> ~d.back
         /\ \A p : Focusable(Nav(p), d) <=> p \in Entries(d) /\ (narrow => d.open) /\ ~d.side
         /\ el[1] \in InSidebar /\ Focusable(el, d) => ~d.side /\ (narrow => d.open)
         /\ el[1] \notin InSidebar /\ Focusable(el, d) => ~d.back
         /\ el[1] = "toggle" /\ Focusable(el, d) => narrow
         /\ ~Focusable(Body, d)
<1>1. /\ Toggle # Body /\ Close # Body /\ Title # Body /\ \A p : Nav(p) # Body
      /\ Toggle[1] = "toggle" /\ Close[1] = "close" /\ Title[1] = "title"
      /\ \A p : Nav(p)[1] = "nav" /\ Nav(p)[2] = p
  BY DEF Toggle, Close, Title, Nav, Body
<1>2. Focusable(Toggle, d) <=> narrow /\ ~d.back
  BY <1>1 DEF Focusable, Displayed, Inert, InSidebar
<1>3. Focusable(Close, d) <=> narrow /\ d.open /\ ~d.side
  BY <1>1 DEF Focusable, Displayed, Inert, InSidebar
<1>4. Focusable(Title, d) <=> ~d.back
  BY <1>1 DEF Focusable, Displayed, Inert, InSidebar
<1>5. \A p : Focusable(Nav(p), d) <=> p \in Entries(d) /\ (narrow => d.open) /\ ~d.side
  BY <1>1 DEF Focusable, Displayed, Inert, InSidebar
<1>6. /\ el[1] \in InSidebar /\ Focusable(el, d) => ~d.side /\ (narrow => d.open)
      /\ el[1] \notin InSidebar /\ Focusable(el, d) => ~d.back
      /\ el[1] = "toggle" /\ Focusable(el, d) => narrow
      /\ ~Focusable(Body, d)
  BY Zenon DEF Focusable, Displayed, Inert
<1> QED
  BY <1>2, <1>3, <1>4, <1>5, <1>6, Zenon

\* A change of places keeps every provider in the list, once.
LEMMA SwappedFacts ==
  ASSUME NEW s \in Seq(Provider), IsInjective(s), NEW i \in 1 .. Len(s), NEW j \in 1 .. Len(s)
  PROVE  LET t == Swapped(s, i, j)
         IN  /\ t \in Seq(Provider) /\ Len(t) = Len(s) /\ IsInjective(t) /\ ToSet(t) = ToSet(s)
             /\ t[i] = s[j] /\ t[j] = s[i]
<1> DEFINE t == Swapped(s, i, j)
<1>1. DOMAIN s = 1 .. Len(s) /\ Len(s) \in Nat /\ \A k \in 1 .. Len(s) : s[k] \in Provider
  OBVIOUS
<1>2. /\ t \in Seq(Provider) /\ Len(t) = Len(s) /\ DOMAIN t = 1 .. Len(s)
      /\ t[i] = s[j] /\ t[j] = s[i]
      /\ \A k \in 1 .. Len(s) : k \notin {i, j} => t[k] = s[k]
  BY <1>1 DEF Swapped
<1>3. IsInjective(t)
  BY <1>1, <1>2 DEF IsInjective
<1>4. ToSet(t) = ToSet(s)
  BY <1>1, <1>2 DEF ToSet
<1> QED
  BY <1>2, <1>3, <1>4

\* An order button leaves the focus on the row: of the two buttons one is enabled.
LEMMA MoveFacts ==
  ASSUME DrawerTyped, NEW way \in {"up", "down"}, NEW p \in Provider, Move(way, p)
  PROVE  /\ doc' \in Documents /\ IsInjective(doc'.order) /\ ToSet(doc'.order) = ToSet(doc.order)
         /\ doc'.open = doc.open /\ doc'.side = doc.side /\ doc'.back = doc.back
         /\ doc'.page = doc.page /\ ranks' \in Seq(Provider)
         /\ Focusable(focus', doc') /\ focus'[1] \in {"up", "down"}
<1> DEFINE i == CHOOSE k \in 1 .. Len(doc.order) : doc.order[k] = p
           j == IF way = "up" THEN i - 1 ELSE i + 1
           back == <<IF way = "up" THEN "down" ELSE "up", p>>
<1>1. Focusable(<<way, p>>, doc)
  BY DEF Move
<1>2. /\ p \in ToSet(doc.order) /\ (narrow => doc.open) /\ ~doc.side
      /\ p # IF way = "up" THEN Head(doc.order) ELSE Last(doc.order)
  BY <1>1 DEF Focusable, Displayed, Inert, InSidebar, Movable
<1>3. doc.order \in Seq(Provider) /\ IsInjective(doc.order)
  BY DEF DrawerTyped, Documents
<1>4. i \in 1 .. Len(doc.order) /\ doc.order[i] = p
  BY <1>2, <1>3 DEF ToSet
<1>5. j \in 1 .. Len(doc.order) /\ i # j
  <2> HIDE DEF i
  <2>1. Len(doc.order) \in Nat /\ i \in Int /\ 1 <= i /\ i <= Len(doc.order)
    BY <1>3, <1>4
  <2>2. CASE way = "up"
    <3>1. i # 1
      BY <1>2, <1>3, <1>4, <2>1, <2>2
    <3> QED
      BY <2>1, <2>2, <3>1
  <2>3. CASE way = "down"
    <3>1. i # Len(doc.order)
      BY <1>2, <1>3, <1>4, <2>1, <2>3 DEF Last
    <3> QED
      BY <2>1, <2>3, <3>1
  <2> QED
    BY <2>2, <2>3
<1> DEFINE t == Swapped(doc.order, i, j)
           d == [doc EXCEPT !.order = t]
<1>6. doc' = d /\ ranks' = d.order /\ focus' = Focused(<<way, p>>, d, Focused(back, d, Body))
  BY DEF Move
<1> HIDE DEF i, j
<1>7. /\ t \in Seq(Provider) /\ Len(t) = Len(doc.order) /\ IsInjective(t)
      /\ ToSet(t) = ToSet(doc.order) /\ t[j] = p
  BY <1>3, <1>4, <1>5, SwappedFacts
<1> HIDE DEF t
<1>8. /\ d \in Documents /\ d.order = t /\ d.page = doc.page
      /\ d.open = doc.open /\ d.side = doc.side /\ d.back = doc.back
  BY <1>7 DEF DrawerTyped, Documents
<1> HIDE DEF d
<1>9. Len(t) >= 2 /\ t[1] # t[Len(t)]
  BY <1>3, <1>4, <1>5, <1>7 DEF IsInjective
<1>10. \A w \in {"up", "down"} : Movable(w, p, d) => Focusable(<<w, p>>, d)
  <2>1. \A w \in {"up", "down"} : <<w, p>> # Body
    BY DEF Body
  <2> QED
    BY <1>2, <1>8, <2>1 DEF Focusable, Displayed, Inert, InSidebar
<1>11. Movable("up", p, d) \/ Movable("down", p, d)
  BY <1>2, <1>7, <1>8, <1>9 DEF Movable, Last
<1>12. Focusable(focus', d) /\ focus'[1] \in {"up", "down"}
  BY <1>6, <1>10, <1>11 DEF Focused
<1> QED
  BY <1>6, <1>7, <1>8, <1>12

LEMMA Refocuses ==
  ASSUME DrawerTyped, NEW d
  PROVE  \/ Refocused(d) = focus /\ (focus[1] \in Found \cup {"up", "down"} => Focusable(focus, d))
                                 /\ focus[1] # "plain"
         \/ Refocused(d) = Nav(d.page) /\ Focusable(Nav(d.page), d) /\ focus[1] \in Found
         \/ Refocused(d) = Title /\ Focusable(Title, d) /\ focus[1] \in Found
         \/ /\ Refocused(d) = Body
            /\ \/ focus[1] = "plain"
               \/ focus[1] \in {"up", "down"} /\ ~Focusable(focus, d)
               \/ focus[1] \in Found /\ ~Focusable(Title, d)
                  /\ ~(d.page \in Entries(d) /\ ~d.side /\ Focusable(Nav(d.page), d))
               \/ focus[1] \in Found /\ d.page \in Entries(d) /\ ~d.side /\ ~Focusable(Nav(d.page), d)
BY Zenon DEF Refocused, Focused, Fallback, FocusEntry, Found

-----------------------------------------------------------------------------
(***************************************************************************)
(* Every step of the drawer.                                               *)
(***************************************************************************)
LEMMA SameWidth ==
  ASSUME narrow' = narrow
  PROVE  Focusable(focus, doc)' <=> Focusable(focus', doc')
BY DEF Focusable, Displayed, Inert, Movable, Entries

\* Content that shows stays within reach of a background that is not inert.
LEMMA ContentStays ==
  ASSUME NEW d, NEW to, NEW el, Focusable(el, d), el[1] \notin InSidebar,
         to.order = d.order, to.page = d.page, to.busy = d.busy, ~to.back
  PROVE  Focusable(el, to)
BY DEF Focusable, Displayed, Inert, Entries, InSidebar

\* setDrawer leaves what is inert as the width has it.
LEMMA SetDrawerFollows ==
  ASSUME DrawerTyped, NEW d \in Documents, NEW wanted \in BOOLEAN,
         doc' = SetDrawer(d, wanted), narrow' = narrow
  PROVE  InertFollows'
<1>1. /\ doc'.open = (wanted /\ narrow) /\ doc'.back = (wanted /\ narrow)
      /\ doc'.side = (narrow /\ ~(wanted /\ narrow))
  BY SetDrawerFacts, Zenon DEF DrawerTyped
<1> QED
  BY <1>1, Zenon DEF InertFollows

LEMMA RenderFollows ==
  ASSUME DrawerTyped, InertFollows, NEW d \in Documents, RenderPage(d), IsInjective(d.order),
         d.open = doc.open, d.side = doc.side, d.back = doc.back,
         UNCHANGED <<narrow, told, begun>>
  PROVE  /\ doc' \in Documents /\ IsInjective(doc'.order)
         /\ InertFollows'
         /\ focus'[1] = "toggle" => focus' = Toggle
         /\ focus'[1] = "refresh" => focus' = RefreshButton
         /\ held' \in BOOLEAN
<1>1. doc' = d /\ focus' = Refocused(d) /\ held' = (held /\ ~Excused(d))
  BY DEF RenderPage
<1>2. focus' = focus \/ focus' = Nav(d.page) \/ focus' = Title \/ focus' = Body
  BY <1>1, Refocuses, Zenon
<1>3. /\ focus'[1] = "toggle" => focus' = Toggle
      /\ focus'[1] = "refresh" => focus' = RefreshButton
  BY <1>2 DEF DrawerTyped, Nav, Title, Body
<1>4. InertFollows'
  BY <1>1, Zenon DEF InertFollows
<1>5. held' \in BOOLEAN
  BY <1>1, Zenon
<1> QED
  BY <1>1, <1>3, <1>4, <1>5

\* A redraw keeps a held focus.
LEMMA RenderHolds ==
  ASSUME DrawerTyped, InertFollows, HeldIsReached, NEW d \in Documents, RenderPage(d),
         d.open = doc.open, d.side = doc.side, d.back = doc.back, d.busy => doc.busy,
         UNCHANGED <<narrow, told, begun>>
  PROVE  HeldIsReached'
<1> SUFFICES ASSUME held'
             PROVE  Focusable(focus', d) \/ (focus' = RefreshButton /\ d.busy /\ ~d.back)
  BY SameWidth, Zenon DEF HeldIsReached, RenderPage
<1>1. held /\ ~Excused(d) /\ focus' = Refocused(d)
  BY Zenon DEF RenderPage
<1>2. /\ told = narrow /\ begun
      /\ d.page \in Entries(d) \/ ~d.back
      /\ focus[1] # "plain"
      /\ focus[1] \in {"up", "down", "search", "period"} => Focusable(focus, d)
  BY <1>1 DEF Excused
<1>3. Focusable(focus, doc) \/ (focus = RefreshButton /\ doc.busy /\ ~doc.back)
  BY <1>1, <1>2, Zenon DEF HeldIsReached
<1>4. /\ d.back <=> d.open
      /\ narrow /\ ~d.open => d.side
      /\ d.side => ~d.open
  BY <1>2, Zenon DEF InertFollows
<1>5. ~d.back => Focusable(Title, d)
  BY FocusableFacts
<1>6. d.page \in Entries(d) /\ ~d.side => Focusable(Nav(d.page), d)
  BY <1>4, FocusableFacts, Zenon
<1>7. CASE focus[1] \in Found \cup {"up", "down"}
  BY <1>1, <1>2, <1>4, <1>5, <1>6, <1>7, Refocuses, Zenon
<1>8. CASE focus[1] \notin Found \cup {"up", "down"}
  <2>1. focus' = focus
    BY <1>1, <1>2, <1>8, Refocuses, Zenon
  <2>2. CASE focus[1] \in {"search", "period"}
    BY <1>2, <2>1, <2>2
  <2>3. CASE focus[1] \notin {"search", "period"} /\ Focusable(focus, doc)
    <3>1. focus # Body
      BY <2>3, FocusableFacts
    <3>2. Displayed(focus, doc) /\ ~Inert(focus, doc)
      BY <2>3 DEF Focusable
    <3>3. Displayed(focus, d) /\ ~Inert(focus, d)
      BY <1>8, <2>3, <3>2 DEF Displayed, Inert, Found
    <3> QED
      BY <2>1, <3>1, <3>3 DEF Focusable
  <2>4. CASE focus = RefreshButton /\ doc.busy /\ ~doc.back
    <3>1. Focusable(RefreshButton, d) \/ d.busy
      BY <2>4 DEF Focusable, Displayed, Inert, InSidebar, RefreshButton, Body
    <3> QED
      BY <2>1, <2>4, <3>1
  <2> QED
    BY <1>3, <2>2, <2>3, <2>4
<1> QED
  BY <1>7, <1>8

\* One step per action: the types, what is inert, where a held focus is, the fragment.
LEMMA DrawerStep ==
  ASSUME DrawerInv, [DrawerNext]_drawerVars
  PROVE  DrawerInv'
<1>0. /\ DrawerTyped /\ InertFollows /\ HeldIsReached /\ HashNamesPage
      /\ doc \in Documents /\ IsInjective(doc.order) /\ narrow \in BOOLEAN
  BY DEF DrawerInv, DrawerTyped
<1>1. CASE \E el \in Elements : Tab(el)
  <2>1. PICK el \in Elements : Tab(el)
    BY <1>1
  <2>2. /\ focus' = el /\ held' = (el # Body) /\ (el = Body \/ Focusable(el, doc))
        /\ UNCHANGED <<narrow, told, doc, ranks, hash, hashDue, begun>>
    BY <2>1 DEF Tab
  <2>3. (el[1] = "toggle" => el = Toggle) /\ (el[1] = "refresh" => el = RefreshButton)
    BY DEF Elements, Body, Toggle, Close, Title, Nav, RefreshButton
  <2>4. DrawerTyped'
    BY <1>0, <2>2, <2>3 DEF DrawerTyped
  <2>5. InertFollows' /\ HashNamesPage'
    BY <1>0, <2>2, Zenon DEF InertFollows, HashNamesPage
  <2>6. HeldIsReached'
    BY <2>2, SameWidth, Zenon DEF HeldIsReached
  <2> QED
    BY <2>4, <2>5, <2>6 DEF DrawerInv
<1>2. CASE PressToggle
  <2>1. /\ Focusable(Toggle, doc) /\ doc' = SetDrawer(doc, ~doc.open)
        /\ focus' = Toggled(doc, doc') /\ held' = (told = narrow)
        /\ UNCHANGED <<narrow, told, ranks, hash, hashDue, begun>>
    BY <1>2 DEF PressToggle
  <2>2. narrow /\ ~doc.open
    BY <1>0, <2>1, FocusableFacts, Zenon DEF InertFollows
  <2>3. doc.open \in BOOLEAN
    BY <1>0 DEF Documents
  <2>4. /\ doc' \in Documents /\ doc'.order = doc.order /\ doc'.page = doc.page
        /\ doc'.open = (~doc.open /\ narrow) /\ doc'.back = (~doc.open /\ narrow)
        /\ doc'.side = (narrow /\ ~(~doc.open /\ narrow))
    BY <1>0, <2>1, <2>3, SetDrawerFacts
  <2>5. doc'.open /\ ~doc'.side
    BY <2>2, <2>4, Zenon
  <2>6. Focusable(Close, doc')
    BY <2>2, <2>5, FocusableFacts
  <2>7. focus' = Close
    BY <2>1, <2>2, <2>5, <2>6, Zenon DEF Toggled, Focused
  <2>8. DrawerTyped'
    BY <1>0, <2>1, <2>4, <2>7 DEF DrawerTyped, Close
  <2>9. InertFollows' /\ HashNamesPage'
    BY <1>0, <2>1, <2>3, <2>4, SetDrawerFollows DEF HashNamesPage
  <2>10. HeldIsReached'
    BY <2>1, <2>6, <2>7, SameWidth, Zenon DEF HeldIsReached
  <2> QED
    BY <2>8, <2>9, <2>10 DEF DrawerInv
<1>3. CASE Dismiss
  <2>1. /\ doc.open /\ doc' = SetDrawer(doc, FALSE)
        /\ focus' = Toggled(doc, doc') /\ held' = (held /\ told = narrow)
        /\ UNCHANGED <<narrow, told, ranks, hash, hashDue, begun>>
    BY <1>3 DEF Dismiss
  <2>2. /\ doc' \in Documents /\ doc'.order = doc.order /\ doc'.page = doc.page
        /\ doc'.open = (FALSE /\ narrow) /\ doc'.back = (FALSE /\ narrow)
    BY <1>0, <2>1, SetDrawerFacts
  <2>3. ~doc'.open /\ ~doc'.back
    BY <2>2, Zenon
  <2>4. narrow => Focusable(Toggle, doc')
    BY <2>3, FocusableFacts
  <2>5. focus' \in {Toggle, focus} /\ (narrow => focus' = Toggle)
    BY <2>1, <2>3, <2>4, Zenon DEF Toggled, Focused
  <2>6. DrawerTyped'
    <3>1. /\ focus'[1] = "toggle" => focus' = Toggle
          /\ focus'[1] = "refresh" => focus' = RefreshButton
      BY <1>0, <2>5 DEF DrawerTyped, Toggle
    <3>2. held' \in BOOLEAN
      BY <2>1, Zenon
    <3> QED
      BY <1>0, <2>1, <2>2, <3>1, <3>2 DEF DrawerTyped
  <2>7. InertFollows' /\ HashNamesPage'
    BY <1>0, <2>1, <2>2, SetDrawerFollows DEF HashNamesPage
  <2>8. held' => narrow
    BY <1>0, <2>1, Zenon DEF InertFollows
  <2>9. HeldIsReached'
    BY <2>1, <2>4, <2>5, <2>8, SameWidth, Zenon DEF HeldIsReached
  <2> QED
    BY <2>6, <2>7, <2>9 DEF DrawerInv
<1>4. CASE \E id \in Pages : Select(id)
  <2>1. PICK id \in Pages : Select(id)
    BY <1>4
  <2> DEFINE d == [doc EXCEPT !.page = id]
             to == IF narrow THEN SetDrawer(d, FALSE) ELSE d
  <2>2. /\ doc' = to
        /\ focus' = IF narrow THEN Focused(Title, to, Refocused(d)) ELSE FocusEntry(to, Refocused(d))
        /\ held' = ((narrow \/ id \in Entries(d)) /\ begun /\ told = narrow)
        /\ hash' = id
        /\ UNCHANGED <<narrow, told, ranks, hashDue, begun>>
    BY <2>1 DEF Select, Reached
  <2>3. /\ d \in Documents /\ d.order = doc.order /\ d.page = id
        /\ d.open = doc.open /\ d.side = doc.side /\ d.back = doc.back
    BY <1>0 DEF Documents
  <2> HIDE DEF d
  <2>4. /\ to \in Documents /\ to.order = doc.order /\ to.page = id
        /\ narrow => ~to.open /\ ~to.back
    <3>1. CASE narrow
      <4>1. /\ SetDrawer(d, FALSE) \in Documents
            /\ SetDrawer(d, FALSE).order = doc.order /\ SetDrawer(d, FALSE).page = id
            /\ SetDrawer(d, FALSE).open = (FALSE /\ narrow)
            /\ SetDrawer(d, FALSE).back = (FALSE /\ narrow)
        BY <1>0, <2>3, SetDrawerFacts
      <4> QED
        BY <3>1, <4>1, Zenon
    <3>2. CASE ~narrow
      BY <2>3, <3>2, Zenon
    <3> QED
      BY <3>1, <3>2
  <2>5. InertFollows'
    <3>1. CASE narrow
      BY <1>0, <2>2, <2>3, <3>1, SetDrawerFollows
    <3>2. CASE ~narrow
      BY <1>0, <2>2, <2>3, <3>2, Zenon DEF InertFollows
    <3> QED
      BY <3>1, <3>2
  <2>6. Refocused(d) \in {focus, Nav(d.page), Title, Body}
    BY <1>0, Refocuses, Zenon
  <2>7. focus' \in {focus, Nav(id), Title, Body}
    BY <2>2, <2>3, <2>4, <2>6, Zenon DEF Focused, FocusEntry
  <2>8. DrawerTyped'
    <3>1. /\ focus'[1] = "toggle" => focus' = Toggle
          /\ focus'[1] = "refresh" => focus' = RefreshButton
      BY <1>0, <2>7 DEF DrawerTyped, Nav, Title, Body
    <3>2. held' \in BOOLEAN
      BY <2>2, Zenon
    <3> QED
      BY <1>0, <2>1, <2>2, <2>4, <3>1, <3>2 DEF DrawerTyped
  <2>9. HashNamesPage'
    BY <2>2, <2>4 DEF HashNamesPage
  <2>10. ASSUME held' PROVE Focusable(focus', doc')
    <3>1. CASE narrow
      <4>1. Focusable(Title, to)
        BY <2>4, <3>1, FocusableFacts
      <4> QED
        BY <2>2, <3>1, <4>1, Zenon DEF Focused
    <3>2. CASE ~narrow
      <4>1. id \in Entries(to) /\ to.side = doc.side
        BY <2>2, <2>3, <2>4, <2>10, <3>2 DEF Entries
      <4>2. ~doc.side
        BY <1>0, <2>2, <2>10, <3>2, Zenon DEF InertFollows
      <4>3. Focusable(Nav(id), to)
        BY <3>2, <4>1, <4>2, FocusableFacts
      <4> QED
        BY <2>2, <2>4, <3>2, <4>3, Zenon DEF Focused, FocusEntry
    <3> QED
      BY <3>1, <3>2
  <2>11. HeldIsReached'
    BY <2>2, <2>10, SameWidth, Zenon DEF HeldIsReached
  <2> QED
    BY <2>5, <2>8, <2>9, <2>11 DEF DrawerInv
<1>5. CASE \E way \in {"up", "down"}, p \in Provider : Move(way, p)
  <2>1. PICK way \in {"up", "down"}, p \in Provider : Move(way, p)
    BY <1>5
  <2>2. /\ doc' \in Documents /\ IsInjective(doc'.order) /\ ranks' \in Seq(Provider)
        /\ doc'.open = doc.open /\ doc'.side = doc.side /\ doc'.back = doc.back
        /\ doc'.page = doc.page
        /\ Focusable(focus', doc') /\ focus'[1] \in {"up", "down"}
    BY <1>0, <2>1, MoveFacts
  <2>3. held' = (told = narrow) /\ UNCHANGED <<narrow, told, hash, hashDue, begun>>
    BY <2>1 DEF Move
  <2>4. DrawerTyped'
    BY <1>0, <2>2, <2>3 DEF DrawerTyped
  <2>5. InertFollows'
    BY <1>0, <2>2, <2>3, Zenon DEF InertFollows
  <2>6. HashNamesPage'
    BY <1>0, <2>2, <2>3 DEF HashNamesPage
  <2>7. HeldIsReached'
    BY <2>2, <2>3, SameWidth, Zenon DEF HeldIsReached
  <2> QED
    BY <2>4, <2>5, <2>6, <2>7 DEF DrawerInv
<1>6. CASE \E h \in Pages \cup {Malformed} : Address(h)
  <2>1. PICK h \in Pages \cup {Malformed} : Address(h)
    BY <1>6
  <2>2. hash' = h /\ hashDue' = TRUE /\ UNCHANGED <<narrow, told, doc, ranks, focus, held, begun>>
    BY <2>1 DEF Address
  <2>3. DrawerTyped'
    BY <1>0, <2>2 DEF DrawerTyped
  <2>4. InertFollows' /\ HashNamesPage'
    BY <1>0, <2>2, Zenon DEF InertFollows, HashNamesPage
  <2>5. HeldIsReached'
    BY <1>0, <2>2, SameWidth, Zenon DEF HeldIsReached
  <2> QED
    BY <2>3, <2>4, <2>5 DEF DrawerInv
<1>7. CASE HashChange
  <2>1. /\ hashDue' = FALSE /\ hashDue
        /\ UNCHANGED <<narrow, told, ranks, hash, begun>>
    BY <1>7 DEF HashChange
  <2>2. CASE begun /\ hash \notin {Malformed, doc.page}
    <3> DEFINE d == [doc EXCEPT !.page = hash]
    <3>1. RenderPage(d)
      BY <1>7, <2>2 DEF HashChange
    <3>2. /\ d \in Documents /\ d.order = doc.order /\ d.page = hash /\ d.busy = doc.busy
          /\ d.open = doc.open /\ d.side = doc.side /\ d.back = doc.back
      BY <1>0, <2>2 DEF Documents, DrawerTyped
    <3> HIDE DEF d
    <3>3. /\ doc' \in Documents /\ IsInjective(doc'.order) /\ InertFollows'
          /\ focus'[1] = "toggle" => focus' = Toggle
          /\ focus'[1] = "refresh" => focus' = RefreshButton
          /\ held' \in BOOLEAN
      BY <1>0, <2>1, <3>1, <3>2, RenderFollows
    <3>4. DrawerTyped'
      BY <1>0, <2>1, <3>3 DEF DrawerTyped
    <3>5. HeldIsReached'
      BY <1>0, <2>1, <3>1, <3>2, RenderHolds
    <3>6. HashNamesPage'
      BY <2>1, <3>1, <3>2 DEF HashNamesPage, RenderPage
    <3> QED
      BY <3>3, <3>4, <3>5, <3>6 DEF DrawerInv
  <2>3. CASE ~(begun /\ hash \notin {Malformed, doc.page})
    <3>1. UNCHANGED <<doc, focus, held>>
      BY <1>7, <2>3, Zenon DEF HashChange
    <3>2. DrawerTyped'
      BY <1>0, <2>1, <3>1 DEF DrawerTyped
    <3>3. InertFollows' /\ HeldIsReached'
      BY <1>0, <2>1, <3>1, SameWidth, Zenon DEF InertFollows, HeldIsReached
    <3>4. HashNamesPage'
      BY <2>1, <2>3, <3>1 DEF HashNamesPage
    <3> QED
      BY <3>2, <3>3, <3>4 DEF DrawerInv
  <2> QED
    BY <2>2, <2>3
<1>8. CASE \E present \in SUBSET Provider : Refreshed(present)
  <2>1. PICK present \in SUBSET Provider : Refreshed(present)
    BY <1>8
  <2>2. PICK order \in Sorted(present) :
          doc.busy /\ RenderPage([doc EXCEPT !.order = order, !.busy = FALSE])
    BY <2>1 DEF Refreshed
  <2>3. UNCHANGED <<narrow, told, ranks, hash, hashDue, begun>>
    BY <2>1 DEF Refreshed
  <2>4. order \in Seq(Provider) /\ IsInjective(order)
    BY <1>0, SortedFacts DEF DrawerTyped
  <2> DEFINE d == [doc EXCEPT !.order = order, !.busy = FALSE]
  <2>5. /\ d \in Documents /\ d.order = order /\ d.page = doc.page /\ ~d.busy
        /\ d.open = doc.open /\ d.side = doc.side /\ d.back = doc.back
    BY <1>0, <2>4 DEF Documents
  <2>6. RenderPage(d)
    BY <2>2
  <2> HIDE DEF d
  <2>7. /\ doc' \in Documents /\ IsInjective(doc'.order) /\ InertFollows'
        /\ focus'[1] = "toggle" => focus' = Toggle
        /\ focus'[1] = "refresh" => focus' = RefreshButton
        /\ held' \in BOOLEAN
    BY <1>0, <2>3, <2>4, <2>5, <2>6, RenderFollows
  <2>8. DrawerTyped'
    BY <1>0, <2>3, <2>7 DEF DrawerTyped
  <2>9. HeldIsReached'
    BY <1>0, <2>3, <2>5, <2>6, RenderHolds
  <2>10. HashNamesPage'
    BY <1>0, <2>3, <2>5, <2>6 DEF HashNamesPage, RenderPage
  <2> QED
    BY <2>7, <2>8, <2>9, <2>10 DEF DrawerInv
<1>9. CASE Resize
  <2>1. /\ told = narrow /\ narrow' = ~narrow
        /\ UNCHANGED <<told, doc, ranks, focus, held, hash, hashDue, begun>>
    BY <1>9 DEF Resize
  <2>2. told' # narrow' /\ narrow' \in BOOLEAN
    BY <1>0, <2>1
  <2>3. DrawerTyped'
    BY <1>0, <2>1, <2>2 DEF DrawerTyped
  <2>4. InertFollows' /\ HashNamesPage'
    BY <1>0, <2>1, <2>2, Zenon DEF InertFollows, HashNamesPage
  <2>5. /\ doc.open => narrow
        /\ doc.back <=> doc.open
        /\ held => Focusable(focus, doc) \/ (focus = RefreshButton /\ doc.busy /\ ~doc.back)
    BY <1>0, <2>1, Zenon DEF InertFollows, HeldIsReached
  <2>6. HeldIsReached'
    <3> SUFFICES ASSUME held, ~(focus = RefreshButton /\ doc.busy /\ ~doc.back) PROVE
          \/ Focusable(focus, doc)'
          \/ ~narrow' /\ focus = Toggle
          \/ ~narrow' /\ doc.open /\ focus[1] = "close"
          \/ narrow' /\ ~doc.open /\ focus[1] \in InSidebar
      BY <2>1, <2>2, Zenon DEF HeldIsReached
    <3>1. focus # Body /\ Displayed(focus, doc) /\ ~Inert(focus, doc)
      BY <2>5 DEF Focusable
    <3>2. CASE focus[1] = "toggle"
      <4>1. focus = Toggle /\ narrow
        BY <1>0, <3>1, <3>2, Zenon DEF DrawerTyped, Displayed
      <4> QED
        BY <2>1, <4>1
    <3>3. CASE focus[1] \in InSidebar
      <4>1. CASE narrow
        <5>1. doc.open
          BY <3>1, <3>3, <4>1 DEF Displayed
        <5>2. CASE focus[1] = "close"
          BY <2>1, <4>1, <5>1, <5>2
        <5>3. CASE focus[1] # "close"
          <6>1. Displayed(focus, doc)' /\ ~Inert(focus, doc)'
            BY <2>1, <3>1, <3>3, <4>1, <5>3 DEF Displayed, Inert, InSidebar, Entries, Movable
          <6> QED
            BY <2>1, <3>1, <6>1 DEF Focusable
        <5> QED
          BY <5>2, <5>3
      <4>2. CASE ~narrow
        BY <2>1, <2>5, <3>3, <4>2
      <4> QED
        BY <4>1, <4>2
    <3>4. CASE focus[1] \notin InSidebar \cup {"toggle"}
      <4>1. Displayed(focus, doc)' /\ ~Inert(focus, doc)'
        BY <2>1, <3>1, <3>4 DEF Displayed, Inert, InSidebar, Entries
      <4> QED
        BY <2>1, <3>1, <4>1 DEF Focusable
    <3> QED
      BY <3>2, <3>3, <3>4
  <2> QED
    BY <2>3, <2>4, <2>6 DEF DrawerInv
<1>10. CASE FixUp
  <2>1. /\ focus # Body /\ ~Focusable(focus, doc)
        /\ held' = (held /\ begun /\ doc.page \in Entries(doc) /\ ~Retired(focus))
        /\ UNCHANGED <<narrow, told, ranks, hash, hashDue, begun>>
    BY <1>10 DEF FixUp, Settled
  <2>2. CASE focus = Toggle /\ ~narrow
    <3>1. doc' = SetDrawer(doc, FALSE) /\ focus' = FocusEntry(doc', Body)
      BY <1>10, <2>2 DEF FixUp
    <3>2. /\ doc' \in Documents /\ doc'.order = doc.order /\ doc'.page = doc.page
          /\ doc'.open = (FALSE /\ narrow) /\ doc'.back = (FALSE /\ narrow)
          /\ doc'.side = (narrow /\ ~(FALSE /\ narrow))
      BY <1>0, <3>1, SetDrawerFacts
    <3>3. held' => Focusable(Nav(doc'.page), doc')
      <4>1. held' => doc'.page \in Entries(doc')
        BY <2>1, <3>2 DEF Entries
      <4>2. ~doc'.side
        BY <2>2, <3>2, Zenon
      <4> QED
        BY <2>2, <4>1, <4>2, FocusableFacts
    <3>4. focus' \in {Nav(doc'.page), Body} /\ (held' => focus' = Nav(doc'.page))
      BY <3>1, <3>3, Zenon DEF FocusEntry, Focused
    <3>5. DrawerTyped'
      <4>1. /\ focus'[1] = "toggle" => focus' = Toggle
            /\ focus'[1] = "refresh" => focus' = RefreshButton
        BY <3>4 DEF Nav, Body
      <4>2. held' \in BOOLEAN
        BY <2>1, Zenon
      <4> QED
        BY <1>0, <2>1, <3>2, <4>1, <4>2 DEF DrawerTyped
    <3>6. InertFollows' /\ HashNamesPage'
      BY <1>0, <2>1, <3>1, <3>2, SetDrawerFollows DEF HashNamesPage
    <3>7. HeldIsReached'
      BY <2>1, <3>3, <3>4, SameWidth, Zenon DEF HeldIsReached
    <3> QED
      BY <3>5, <3>6, <3>7 DEF DrawerInv
  <2>3. CASE ~(focus = Toggle /\ ~narrow)
    <3>1. /\ doc' = doc
          /\ focus' = IF focus[1] \in InSidebar /\ narrow /\ ~doc.open
                      THEN Focused(Toggle, doc, Body) ELSE Body
      BY <1>10, <2>3, Zenon DEF FixUp
    <3>2. focus' \in {Toggle, Body}
      BY <3>1, Zenon DEF Focused
    <3>3. DrawerTyped'
      <4>1. /\ focus'[1] = "toggle" => focus' = Toggle
            /\ focus'[1] = "refresh" => focus' = RefreshButton
        BY <3>2 DEF Toggle, Body
      <4>2. held' \in BOOLEAN
        BY <2>1, Zenon
      <4> QED
        BY <1>0, <2>1, <3>1, <4>1, <4>2 DEF DrawerTyped
    <3>4. InertFollows' /\ HashNamesPage'
      BY <1>0, <2>1, <3>1, Zenon DEF InertFollows, HashNamesPage
    <3>5. narrow /\ ~doc.open => Focusable(Toggle, doc)
      BY <1>0, FocusableFacts, Zenon DEF InertFollows
    <3>6. held' => \/ Focusable(focus', doc)
                   \/ told # narrow /\ ~narrow /\ doc.open /\ focus' = Body
      BY <1>0, <2>1, <2>3, <3>1, <3>5, Zenon DEF HeldIsReached, Focused, Retired
    <3>7. HeldIsReached'
      BY <2>1, <3>1, <3>6, SameWidth, Zenon DEF HeldIsReached
    <3> QED
      BY <3>3, <3>4, <3>7 DEF DrawerInv
  <2> QED
    BY <2>2, <2>3
<1>11. CASE MediaChange
  <2> DEFINE inDrawer == focus[1] \in InSidebar
  <2>1. /\ told # narrow /\ told' = narrow /\ doc' = SetDrawer(doc, FALSE)
        /\ focus' = IF narrow /\ inDrawer THEN Focused(Toggle, doc', focus)
                    ELSE IF ~narrow /\ (doc.open \/ inDrawer \/ focus = Toggle)
                    THEN FocusEntry(doc', focus)
                    ELSE focus
        /\ held' = (held /\ doc.page \in Entries(doc))
        /\ UNCHANGED <<narrow, ranks, hash, hashDue, begun>>
    BY <1>11 DEF MediaChange
  <2>2. /\ doc' \in Documents /\ doc'.order = doc.order /\ doc'.page = doc.page
        /\ doc'.open = (FALSE /\ narrow) /\ doc'.back = (FALSE /\ narrow)
        /\ doc'.side = (narrow /\ ~(FALSE /\ narrow)) /\ doc'.busy = doc.busy
    BY <1>0, <2>1, SetDrawerFacts
  <2>3. ~doc'.open /\ ~doc'.back /\ (doc'.side <=> narrow)
    BY <2>2, Zenon
  <2>4. narrow => Focusable(Toggle, doc')
    BY <2>3, FocusableFacts
  <2>5. ~narrow /\ held' => Focusable(Nav(doc'.page), doc')
    <3>1. held' => doc'.page \in Entries(doc')
      BY <2>1, <2>2 DEF Entries
    <3> QED
      BY <2>3, <3>1, FocusableFacts
  <2>6. focus' \in {Toggle, Nav(doc'.page), focus}
    BY <2>1, Zenon DEF Focused, FocusEntry
  <2>7. DrawerTyped'
    <3>1. /\ focus'[1] = "toggle" => focus' = Toggle
          /\ focus'[1] = "refresh" => focus' = RefreshButton
      BY <1>0, <2>6 DEF DrawerTyped, Nav, Toggle
    <3>2. held' \in BOOLEAN
      BY <2>1, Zenon
    <3> QED
      BY <1>0, <2>1, <2>2, <3>1, <3>2 DEF DrawerTyped
  <2>8. InertFollows'
    BY <1>0, <2>1, SetDrawerFollows
  <2>9. HashNamesPage'
    BY <1>0, <2>1, <2>2 DEF HashNamesPage
  <2>10. ASSUME held'
         PROVE  Focusable(focus', doc') \/ (focus' = RefreshButton /\ doc'.busy /\ ~doc'.back)
    <3>1. CASE narrow /\ inDrawer
      BY <2>1, <2>4, <3>1, Zenon DEF Focused
    <3>2. CASE ~narrow /\ (doc.open \/ inDrawer \/ focus = Toggle)
      BY <2>1, <2>5, <2>10, <3>2, Zenon DEF Focused, FocusEntry
    <3>3. CASE ~(narrow /\ inDrawer) /\ ~(~narrow /\ (doc.open \/ inDrawer \/ focus = Toggle))
      <4>1. held /\ focus' = focus
        BY <2>1, <2>10, <3>3, Zenon
      <4>2. \/ focus = RefreshButton /\ doc.busy
            \/ Focusable(focus, doc) /\ focus[1] \notin InSidebar
        BY <1>0, <3>3, <4>1, Zenon DEF HeldIsReached
      <4> QED
        BY <2>2, <2>3, <4>1, <4>2, ContentStays
    <3> QED
      BY <3>1, <3>2, <3>3
  <2>11. HeldIsReached'
    BY <2>1, <2>10, SameWidth, Zenon DEF HeldIsReached
  <2> QED
    BY <2>7, <2>8, <2>9, <2>11 DEF DrawerInv
<1>12. CASE RefreshStarts
  <2>1. /\ doc' = [doc EXCEPT !.busy = TRUE] /\ doc.busy = FALSE
        /\ UNCHANGED <<narrow, told, ranks, focus, held, hash, hashDue, begun>>
    BY <1>0, <1>12 DEF RefreshStarts, Documents
  <2>2. /\ doc' \in Documents /\ doc'.order = doc.order /\ doc'.page = doc.page /\ doc'.busy
        /\ doc'.open = doc.open /\ doc'.side = doc.side /\ doc'.back = doc.back
    BY <1>0, <2>1 DEF Documents
  <2>3. DrawerTyped'
    BY <1>0, <2>1, <2>2 DEF DrawerTyped
  <2>4. InertFollows' /\ HashNamesPage'
    BY <1>0, <2>1, <2>2, Zenon DEF InertFollows, HashNamesPage
  <2>5. Focusable(focus, doc) => Focusable(focus, doc') \/ (focus = RefreshButton /\ ~doc.back)
    <3>1. focus[1] # "refresh" => (Focusable(focus, doc) <=> Focusable(focus, doc'))
      BY <2>2 DEF Focusable, Displayed, Inert, Entries, Movable
    <3>2. focus[1] = "refresh" => focus = RefreshButton
      BY <1>0 DEF DrawerTyped
    <3>3. Focusable(RefreshButton, doc) => ~doc.back
      BY DEF Focusable, Inert, InSidebar, RefreshButton
    <3> QED
      BY <3>1, <3>2, <3>3
  <2>6. HeldIsReached'
    BY <1>0, <2>1, <2>2, <2>5, SameWidth, Zenon DEF HeldIsReached
  <2> QED
    BY <2>3, <2>4, <2>6 DEF DrawerInv
<1>13. CASE DrawAgain
  <2>1. RenderPage(doc) /\ UNCHANGED <<narrow, told, ranks, hash, hashDue, begun>>
    BY <1>13 DEF DrawAgain
  <2>2. /\ doc' \in Documents /\ IsInjective(doc'.order) /\ InertFollows'
        /\ focus'[1] = "toggle" => focus' = Toggle
        /\ focus'[1] = "refresh" => focus' = RefreshButton
        /\ held' \in BOOLEAN
    BY <1>0, <2>1, RenderFollows
  <2>3. DrawerTyped'
    BY <1>0, <2>1, <2>2 DEF DrawerTyped
  <2>4. HeldIsReached'
    BY <1>0, <2>1, RenderHolds
  <2>5. HashNamesPage'
    BY <1>0, <2>1 DEF HashNamesPage, RenderPage
  <2> QED
    BY <2>2, <2>3, <2>4, <2>5 DEF DrawerInv
<1>14. CASE UNCHANGED drawerVars
  <2>1. UNCHANGED <<narrow, told, doc, ranks, focus, held, hash, hashDue, begun>>
    BY <1>14 DEF drawerVars
  <2>2. DrawerTyped'
    BY <1>0, <2>1 DEF DrawerTyped
  <2>3. InertFollows' /\ HashNamesPage' /\ HeldIsReached'
    BY <1>0, <2>1, SameWidth, Zenon DEF InertFollows, HashNamesPage, HeldIsReached
  <2> QED
    BY <2>2, <2>3 DEF DrawerInv
<1> QED
  BY <1>1, <1>2, <1>3, <1>4, <1>5, <1>6, <1>7, <1>8, <1>9, <1>10, <1>11, <1>12,
     <1>13, <1>14 DEF DrawerNext

LEMMA DrawerInitInv == DrawerInit => DrawerInv
<1> SUFFICES ASSUME DrawerInit PROVE DrawerInv
  OBVIOUS
<1>1. /\ narrow \in BOOLEAN /\ told = narrow /\ hash \in Pages \cup {Malformed}
      /\ begun = (hash # Malformed) /\ ranks = << >>
      /\ doc = [open |-> FALSE, side |-> narrow /\ begun, back |-> FALSE, order |-> Listed,
                page |-> IF begun THEN hash ELSE Overview, busy |-> FALSE]
      /\ focus = Body /\ held = FALSE /\ hashDue = FALSE
  BY DEF DrawerInit
<1>2. begun \in BOOLEAN /\ (narrow /\ begun) \in BOOLEAN
  BY <1>1, Zenon
<1>3. (IF begun THEN hash ELSE Overview) \in Pages
  BY <1>1 DEF Pages
<1>4. doc \in Documents /\ doc.order = Listed
  BY <1>1, <1>2, <1>3, ProvidersAreFinite DEF Documents
<1>5. ~doc.open /\ ~doc.back /\ doc.side = (narrow /\ begun) /\ doc.page = IF begun THEN hash ELSE Overview
  BY <1>1
<1>6. DrawerTyped
  <2>1. IsInjective(doc.order) /\ ranks \in Seq(Provider)
    BY <1>1, <1>4, DrawerAssumption
  <2>2. focus[1] \notin {"toggle", "refresh"}
    BY <1>1 DEF Body
  <2>3. told \in BOOLEAN /\ held \in BOOLEAN /\ hashDue \in BOOLEAN
    BY <1>1, Zenon
  <2> QED
    BY <1>1, <1>2, <1>4, <2>1, <2>2, <2>3, Zenon DEF DrawerTyped
<1>7. InertFollows
  BY <1>1, <1>5, Zenon DEF InertFollows
<1>8. HeldIsReached
  BY <1>1, Zenon DEF HeldIsReached
<1>9. HashNamesPage
  BY <1>1, <1>5, Zenon DEF HashNamesPage
<1> QED
  BY <1>6, <1>7, <1>8, <1>9 DEF DrawerInv

LEMMA DrawerInvAlways == DrawerSpec => []DrawerInv
BY DrawerInitInv, DrawerStep, PTL DEF DrawerSpec

\* Nothing that shows is out of reach once the browser is at rest (setDrawer and the
\* callback of the media query).
THEOREM FocusReachableAlways == DrawerSpec => []FocusReachable
<1>1. ASSUME DrawerInv PROVE FocusReachable
  <2> SUFFICES ASSUME AtRest PROVE
        /\ doc.back = doc.open
        /\ doc.open => narrow
        /\ doc.side => narrow /\ ~doc.open
        /\ doc.open /\ held => focus[1] \in InSidebar
    BY DEF FocusReachable
  <2>1. /\ doc.back <=> doc.open
        /\ doc.open => narrow
        /\ doc.side => narrow /\ ~doc.open
    BY <1>1, Zenon DEF DrawerInv, InertFollows, AtRest
  <2>2. doc.back \in BOOLEAN /\ doc.open \in BOOLEAN
    BY <1>1 DEF DrawerInv, DrawerTyped, Documents
  <2>3. doc.open /\ held => focus[1] \in InSidebar
    BY <1>1, <2>1, FocusableFacts, Zenon DEF DrawerInv, HeldIsReached, AtRest
  <2> QED
    BY <2>1, <2>2, <2>3
<1> QED
  BY <1>1, DrawerInvAlways, PTL

\* Neither a redraw nor a change of width drops the focus the reader placed (render, the
\* blur handlers and the callback of the media query), unless it is what the page says it
\* drops: content without a key, a control it hides, the button a refresh disables.
THEOREM FocusKeptAlways == DrawerSpec => []FocusKept
<1>1. ASSUME DrawerInv PROVE FocusKept
  <2>1. Body # RefreshButton
    BY DEF Body, RefreshButton
  <2> QED
    BY <1>1, <2>1, FocusableFacts, Zenon DEF DrawerInv, HeldIsReached, AtRest, FocusKept
<1> QED
  BY <1>1, DrawerInvAlways, PTL

\* The fragment names the page that shows (select, and the hashchange event).
THEOREM HashNamesPageAlways == DrawerSpec => []HashNamesPage
<1>1. DrawerInv => HashNamesPage
  BY DEF DrawerInv
<1> QED
  BY <1>1, DrawerInvAlways, PTL

(***************************************************************************)
(* The chart.                                                              *)
(***************************************************************************)
LEMMA BaseIsASequence ==
  ASSUME ChartAssumption, NEW s \in Series
  PROVE  /\ Len(Base(s)) \in Nat /\ Len(Base(s)) > 0
         /\ DOMAIN s = 1 .. Len(s) /\ Len(s) \in Nat
<1> DEFINE T == {p \in DOMAIN s : Len(s[p]) > 0}
<1>1. /\ Len(s) \in Nat /\ DOMAIN s = 1 .. Len(s)
      /\ \A p \in DOMAIN s : Len(s[p]) \in Nat
      /\ \E p \in DOMAIN s : Len(s[p]) > 0
  BY DEF ChartAssumption
<1>2. T # {} /\ T \subseteq Nat
  BY <1>1, SMT
<1> DEFINE Below == {ss \in Nat \X Nat : ss[1] < ss[2]}
<1>0. IsWellFoundedOn(Below, Nat)
  BY NatLessThanWellFounded, Zenon DEF OpToRel
<1>3. PICK x \in T : \A y \in T : ~(<<y, x>> \in Below)
  <2> HIDE DEF T, Below
  <2> QED
    BY <1>2, <1>0, WFMin
<1>4. \A y \in T : ~(y < x)
  <2> SUFFICES ASSUME NEW y \in T, y < x
               PROVE  FALSE
    OBVIOUS
  <2>1. x \in Nat /\ y \in Nat
    BY <1>2
  <2>2. <<y, x>> \in Below
    BY <2>1, SMT
  <2> QED
    BY <2>2, <1>3
<1>5. x \in DOMAIN s /\ Len(s[x]) > 0
  OBVIOUS
<1>6. \A q \in 1 .. x - 1 : Len(s[q]) = 0
  <2> SUFFICES ASSUME NEW q \in 1 .. x - 1
               PROVE  Len(s[q]) = 0
    OBVIOUS
  <2>1. q \in DOMAIN s /\ q < x
    BY <1>1, <1>5, SMT
  <2>2. Len(s[q]) \in Nat /\ ~(Len(s[q]) > 0)
    BY <2>1, <1>1, <1>4
  <2> QED
    BY <2>2, SMT
<1> DEFINE First(p) == Len(s[p]) > 0 /\ \A q \in 1 .. p - 1 : Len(s[q]) = 0
           c == CHOOSE p \in DOMAIN s : First(p)
<1>7. First(x)
  BY <1>5, <1>6
<1>8. c \in DOMAIN s /\ First(c)
  <2> HIDE DEF First
  <2> QED
    BY <1>5, <1>7
<1>9. Base(s) = s[c]
  BY DEF Base
<1> QED
  BY <1>1, <1>8, <1>9, SMT

\* A detail has a line more than it has rows, the hint none.
LEMMA LinesCounted ==
  ASSUME ChartAssumption, NEW s \in Series, NEW i
  PROVE  /\ Lines(s, i) \in Nat
         /\ i # 0 => Lines(s, i) >= 1
<1>1. Len(s) \in Nat /\ DOMAIN s = 1 .. Len(s)
  BY BaseIsASequence
<1>2. IsFiniteSet(DOMAIN s)
  BY <1>1, FS_Interval, SMT
<1>3. Rows(s, i) \subseteq DOMAIN s
  BY DEF Rows, Present
<1>4. Cardinality(Rows(s, i)) \in Nat
  BY <1>2, <1>3, FS_Subset, FS_CardinalityType
<1> QED
  BY <1>4, SMT DEF Lines

LEMMA NeedsAreHeights ==
  ASSUME ChartAssumption, NEW s \in Series, NEW w \in 1 .. Wide, NEW f \in BOOLEAN
  PROVE  /\ \A i : Need(s, i, w, f) \in Int
         /\ \A i : Need(s, 0, w, f) <= Need(s, i, w, f)
<1>1. Wide \in Nat
  BY DEF ChartAssumption
<1>2. PICK k \in Nat : k = 1 + Wide - w /\ k >= 1
  BY <1>1, SMT
<1>3. PICK e \in Nat : e = IF f THEN 1 ELSE 0
  OBVIOUS
<1>4. \A i : Need(s, i, w, f) = Lines(s, i) * k + e
  BY <1>2, <1>3 DEF Need
<1>5. \A n \in Nat : n * k \in Nat
  BY <1>2, SMT
<1>6. Lines(s, 0) = 0
  BY DEF Lines
<1>7. \A i : Lines(s, i) \in Nat
  BY LinesCounted
<1>8. \A i : Lines(s, i) * k \in Nat
  BY <1>5, <1>7
<1>9. Lines(s, 0) * k = 0
  BY <1>6, <1>2, SMT
<1>10. \A m \in Nat : m + e \in Int /\ 0 + e <= m + e
  BY <1>3, SMT
<1> QED
  BY <1>4, <1>8, <1>9, <1>10

ChartTyped ==
  /\ series \in Series
  /\ active \in {0} \cup Bars(series) /\ cursor \in Bars(series)
  /\ width \in 1 .. Wide /\ styled \in BOOLEAN
  /\ measured \in 0 .. Wide

\* Whoever widens or narrows the strip has it measured again.
Remeasured == measured # width => callbacks \cap {"observer", "frame"} # {}

\* Once the fonts are told of, the height fits every detail in them at the width measured.
FontsMeasured ==
  "fonts" \notin callbacks =>
    /\ styled /\ measured # 0
    /\ \A i \in {0} \cup Bars(series) : Need(series, i, measured, TRUE) <= height

ChartInv == ChartTyped /\ tip = active /\ Remeasured /\ FontsMeasured

LEMMA HintIsNoBar ==
  ASSUME ChartAssumption, NEW s \in Series
  PROVE  /\ Len(Base(s)) \in Bars(s) /\ 1 \in Bars(s)
         /\ Bars(s) \subseteq Int /\ 0 \notin Bars(s)
<1>1. Len(Base(s)) \in Nat /\ Len(Base(s)) > 0
  BY BaseIsASequence
<1>2. PICK n \in Nat : n = Len(Base(s)) /\ n > 0
  BY <1>1
<1>3. n \in 1 .. n /\ 1 \in 1 .. n /\ 1 .. n \subseteq Int /\ 0 \notin 1 .. n
  BY <1>2, SMT
<1> QED
  BY <1>2, <1>3 DEF Bars

LEMMA ChartStarts ==
  ASSUME ChartAssumption, ChartInit
  PROVE  ChartInv
<1>1. 0 \in 0 .. Wide
  BY SMT DEF ChartAssumption
<1>2. Len(Base(series)) \in Bars(series)
  BY HintIsNoBar DEF ChartInit
<1>3. ChartTyped
  BY <1>1, <1>2 DEF ChartTyped, ChartInit
<1> QED
  BY <1>3 DEF ChartInv, ChartInit, Remeasured, FontsMeasured

\* Measuring leaves the strip at what it said, with the height that the largest detail
\* needs; with the width known it changes nothing.
LEMMA ReserveFits ==
  ASSUME ChartAssumption, ChartInv, NEW known, Reserve(known)
  PROVE  /\ active' = active /\ tip' = tip
         /\ \/ width = known /\ UNCHANGED <<measured, height>>
            \/ /\ measured' = width /\ width # known
               /\ \A i \in {0} \cup Bars(series) : Need(series, i, width, styled) <= height'
<1>1. CASE width = known
  BY <1>1 DEF Reserve
<1>2. CASE width # known
  <2> DEFINE needs == {Need(series, i, width, styled) : i \in {tip} \cup Bars(series)}
  <2>1. measured' = width /\ PutBack /\ height' \in {h \in needs : \A n \in needs : n <= h}
    BY <1>2, Zenon DEF Reserve
  <2>2. active' = active /\ tip' = tip
    BY <2>1 DEF PutBack, ShowBar, HideBar, ChartInv
  <2>3. series \in Series /\ width \in 1 .. Wide /\ styled \in BOOLEAN
    BY DEF ChartInv, ChartTyped
  <2>4. /\ \A i : Need(series, i, width, styled) \in Int
        /\ \A i : Need(series, 0, width, styled) <= Need(series, i, width, styled)
    BY <2>3, NeedsAreHeights
  <2>5. /\ height' \in Int
        /\ \A i \in Bars(series) : Need(series, i, width, styled) <= height'
    BY <2>1, <2>4, Zenon
  <2>6. 1 \in Bars(series)
    BY <2>3, HintIsNoBar
  <2>7. \A a, b, c \in Int : a <= b /\ b <= c => a <= c
    BY SMT
  <2>8. Need(series, 0, width, styled) <= height'
    BY <2>4, <2>5, <2>6, <2>7, Zenon
  <2> QED
    BY <1>2, <2>1, <2>2, <2>5, <2>8
<1> QED
  BY <1>1, <1>2

\* Frame, Observer and Fonts: a callback that has come measures, unless the width is known.
LEMMA CallbackKeeps ==
  ASSUME ChartAssumption, ChartInv, NEW known, Reserve(known), NEW c \in {"frame", "observer", "fonts"},
         c \in callbacks, callbacks' = callbacks \ {c},
         c = "fonts" => styled /\ known = 0,
         c # "fonts" => known = measured,
         UNCHANGED <<series, cursor, focused, width, styled>>
  PROVE  ChartInv'
<1>1. /\ active' = active /\ tip' = tip
      /\ \/ width = known /\ UNCHANGED <<measured, height>>
         \/ /\ measured' = width /\ width # known
            /\ \A i \in {0} \cup Bars(series) : Need(series, i, width, styled) <= height'
  BY ReserveFits
<1>2. width \in 1 .. Wide /\ Wide \in Nat /\ series' = series /\ width' = width /\ styled' = styled
      /\ cursor' = cursor /\ styled \in BOOLEAN /\ measured \in 0 .. Wide
  BY DEF ChartInv, ChartTyped, ChartAssumption
<1>3. width # 0 /\ width \in 0 .. Wide
  BY <1>2, SMT
<1>4. ChartTyped'
  <2>1. measured' \in 0 .. Wide
    BY <1>1, <1>2, <1>3
  <2> QED
    BY <2>1, <1>1, <1>2 DEF ChartInv, ChartTyped, Bars
<1>5. measured' = width
  BY <1>1, <1>3
<1>6. Remeasured'
  BY <1>5, <1>2 DEF Remeasured
<1>7. FontsMeasured'
  <2> SUFFICES ASSUME "fonts" \notin callbacks'
               PROVE  /\ styled' /\ measured' # 0
                      /\ \A i \in {0} \cup Bars(series)' : Need(series', i, measured', TRUE) <= height'
    BY DEF FontsMeasured, Bars, Need, Lines, Rows, Present
  <2>1. CASE c = "fonts"
    <3>1. styled = TRUE /\ width # known
      BY <2>1, <1>2, <1>3
    <3> QED
      BY <3>1, <1>1, <1>2, <1>3, <1>5 DEF Bars
  <2>2. CASE c # "fonts"
    <3>1. /\ styled /\ measured # 0
          /\ \A i \in {0} \cup Bars(series) : Need(series, i, measured, TRUE) <= height
      BY <2>2 DEF ChartInv, FontsMeasured
    <3>2. styled = TRUE
      BY <3>1, <1>2
    <3>3. CASE measured = width
      BY <3>1, <3>2, <3>3, <1>1, <1>2, <1>3, <1>5, <2>2 DEF Bars
    <3>4. CASE measured # width
      BY <3>2, <3>4, <1>1, <1>2, <1>3, <1>5, <2>2 DEF Bars
    <3> QED
      BY <3>3, <3>4
  <2> QED
    BY <2>1, <2>2
<1> QED
  BY <1>1, <1>4, <1>6, <1>7 DEF ChartInv

\* Pointer and keyboard: what is marked and what the strip says change together.
LEMMA ShowKeeps ==
  ASSUME ChartAssumption, ChartInv,
         active' \in {0} \cup Bars(series), tip' = active', cursor' \in Bars(series),
         UNCHANGED <<series, width, styled, measured, height, callbacks>>
  PROVE  ChartInv'
<1>1. ChartTyped'
  BY DEF ChartInv, ChartTyped, Bars
<1>2. Remeasured'
  BY DEF ChartInv, Remeasured
<1>3. FontsMeasured'
  BY DEF ChartInv, FontsMeasured, Bars, Need, Lines, Rows, Present
<1> QED
  BY <1>1, <1>2, <1>3 DEF ChartInv

LEMMA ChartKept ==
  ASSUME ChartAssumption, ChartInv, [ChartNext]_chartVars
  PROVE  ChartInv'
<1>0. series \in Series /\ cursor \in Bars(series) /\ active \in {0} \cup Bars(series)
      /\ tip = active
  BY DEF ChartInv, ChartTyped
<1>1. ASSUME NEW i \in Bars(series), Point(i)
      PROVE  ChartInv'
  BY <1>0, <1>1, ShowKeeps DEF Point, ShowBar
<1>2. CASE Leave
  BY <1>0, <1>2, ShowKeeps DEF Leave, HideBar
<1>3. CASE FocusChart
  BY <1>0, <1>3, ShowKeeps DEF FocusChart, ShowBar
<1>4. CASE BlurChart
  BY <1>0, <1>4, ShowKeeps DEF BlurChart, HideBar
<1>5. ASSUME NEW step, Arrow(step)
      PROVE  ChartInv'
  <2>1. cursor' \in Bars(series)
    BY <1>0, <1>5, Zenon DEF Arrow
  <2> QED
    BY <1>5, <2>1, ShowKeeps DEF Arrow, ShowBar
<1>6. CASE Frame
  BY <1>6, CallbackKeeps DEF Frame
<1>7. CASE Observer
  BY <1>7, CallbackKeeps DEF Observer
<1>8. CASE Fonts
  BY <1>8, CallbackKeeps DEF Fonts
<1>9. CASE FontsArrive
  <2>1. ChartTyped'
    BY <1>9 DEF FontsArrive, ChartInv, ChartTyped, Bars
  <2>2. Remeasured'
    BY <1>9 DEF FontsArrive, ChartInv, Remeasured
  <2>3. FontsMeasured'
    BY <1>9 DEF FontsArrive, ChartInv, FontsMeasured
  <2> QED
    BY <1>9, <2>1, <2>2, <2>3 DEF FontsArrive, ChartInv
<1>10. ASSUME NEW w \in 1 .. Wide, ResizeStrip(w)
       PROVE  ChartInv'
  <2>1. ChartTyped'
    BY <1>10 DEF ResizeStrip, ChartInv, ChartTyped, Bars
  <2>2. Remeasured'
    BY <1>10 DEF ResizeStrip, Remeasured
  <2>3. FontsMeasured'
    BY <1>10 DEF ResizeStrip, ChartInv, FontsMeasured, Bars, Need, Lines, Rows, Present
  <2> QED
    BY <1>10, <2>1, <2>2, <2>3 DEF ResizeStrip, ChartInv
<1>11. ASSUME NEW s \in Series, Replace(s)
       PROVE  ChartInv'
  <2>1. Len(Base(s)) \in Bars(s)
    BY HintIsNoBar
  <2>2. 0 \in 0 .. Wide
    BY SMT DEF ChartAssumption
  <2>3. ChartTyped'
    BY <1>11, <2>1, <2>2 DEF Replace, ChartInv, ChartTyped, Bars
  <2>4. Remeasured' /\ FontsMeasured'
    BY <1>11 DEF Replace, Remeasured, FontsMeasured
  <2> QED
    BY <1>11, <2>3, <2>4 DEF Replace, ChartInv
<1>12. CASE UNCHANGED chartVars
  BY <1>0, <1>12, ShowKeeps DEF chartVars
<1> QED
  BY <1>1, <1>2, <1>3, <1>4, <1>5, <1>6, <1>7, <1>8, <1>9, <1>10, <1>11, <1>12 DEF ChartNext

THEOREM ChartInvAlways == ChartSpec => []ChartInv
<1>1. ChartInit => ChartInv
  BY ChartAssumption, ChartStarts
<1>2. ChartInv /\ [ChartNext]_chartVars => ChartInv'
  BY ChartAssumption, ChartKept
<1> QED
  BY <1>1, <1>2, PTL DEF ChartSpec

\* The strip tells of the bar that is marked, and once no callback is due every detail
\* fits the height reserved, for every series and every width: views.ts, show and reserve.
THEOREM TipMatchesAlways == ChartSpec => []TipMatches
<1>1. ASSUME ChartInv
      PROVE  TipMatches
  <2>1. ASSUME callbacks = {}, NEW i \in {0} \cup Bars(series)
        PROVE  Need(series, i, width, styled) <= height
    <3>1. measured = width
      BY <1>1, <2>1 DEF ChartInv, Remeasured
    <3>2. styled /\ Need(series, i, measured, TRUE) <= height
      BY <1>1, <2>1 DEF ChartInv, FontsMeasured
    <3>3. styled = TRUE
      BY <1>1, <3>2 DEF ChartInv, ChartTyped
    <3> QED
      BY <3>1, <3>2, <3>3
  <2> QED
    BY <1>1, <2>1 DEF ChartInv, TipMatches
<1>2. ChartInv => TipMatches
  BY <1>1
<1> QED
  BY <1>2, ChartInvAlways, PTL
=============================================================================

------------------------------ MODULE Identity ------------------------------
(***************************************************************************)
(* Whose reading is it?  Identity epochs divide the readings of an account *)
(* by the credential behind it (runtime/identity.go, store/identity.go);   *)
(* readings are booked on them (runtime.go, local_observations.go), shown   *)
(* under them and analysed by them (analytics.go, analytics_failure.go).   *)
(* The credentials, OpenCodex's own quota cache and the providers change   *)
(* between any two steps of a cycle, the store may refuse any write, and   *)
(* the process may be restarted at any point.                              *)
(***************************************************************************)
EXTENDS Integers, FiniteSets

CONSTANTS
  Local,         \* accounts read from OpenCodex's quota cache
  Direct,        \* accounts read from their provider
  Endpoints,     \* what a direct account is read from, one window each
  CacheWindow,   \* the window of an account that is read from the cache
  Credentials,   \* tokens
  Refs,          \* a provider's ids of the accounts behind the tokens
  Ref,           \* the one of a token, where it carries one
  None,
  FreshFor,      \* 15 minutes
  Retention,     \* QUOTA_RETENTION_DAYS
  MaxClock, MaxTurns, MaxMishaps, MaxRestarts     \* bounds of the instances

Accounts == Local \cup Direct
Windows  == Endpoints \cup {CacheWindow}
WindowsOf(a) == IF a \in Local THEN {CacheWindow} ELSE Endpoints

ASSUME Parts == Local \cap Direct = {} /\ CacheWindow \notin Endpoints /\ None \notin Credentials
ASSUME Spans == {FreshFor, Retention, MaxClock, MaxTurns, MaxMishaps, MaxRestarts} \subseteq Nat
ASSUME Retained == FreshFor < Retention
ASSUME RefType == Ref \in [Credentials -> Refs \cup {None}] /\ None \notin Refs /\ Refs \cap Credentials = {}

\* The comparison of identity.go: the account's id where the token carries one, else the token.
Key(c) == IF Ref[c] = None THEN c ELSE Ref[c]
Keys   == {Key(c) : c \in Credentials}

NoEpoch == 0
Open    == -1
Never   == -1
Nobody  == [key |-> None, epoch |-> NoEpoch]
Unread  == [epoch |-> NoEpoch, at |-> Never]
Empty   == [at |-> Never, by |-> None, turn |-> 0]
Blank   == [at |-> Never, by |-> None, epoch |-> NoEpoch, rests |-> {}]

Times == Nat \cup {Never}
Cached == [at : Times, by : Credentials \cup {None}, turn : Nat]
Readings == [account : Direct, window : Endpoints, by : Credentials, at : Nat]
Rows == [account : Accounts, epoch : Nat, ref : Refs \cup {None}, key : Keys, from : Nat, to : Nat \cup {Open}]
Observations == [account : Accounts, window : Windows, at : Nat, epoch : Nat, by : Credentials, missed : BOOLEAN]

VARIABLES
  clock, restarts, mishaps,
  bound,        \* the credential of an account, in OpenCodex's files
  turns, turn,  \* ghost: the replacements, and which of them put it there
  young,        \* ghost: replaced so lately that OpenCodex cannot have read a quota since
  cached,       \* OpenCodex's last reading of an account, in its quota cache
  epochRows,    \* table identity_epochs
  seq,          \* meta identityEpochSequence
  obs,          \* table quota_observations
  twice,        \* ghost: cached readings that were booked again
  identities,   \* rt.identities
  base,         \* rt.localObservations
  good,         \* the scheduler's last good rows, by credential
  noticed,      \* ghost: the turns of an account that bindingEpochs has seen
  step, now, seen, held, fresh, todo, epochs, tag, failed,   \* the cycle under way
  published     \* rt.published: what is shown of a window, and what its analysis rests on

world  == <<bound, turns, turn, young, cached>>
tables == <<epochRows, seq, obs, twice>>
memory == <<identities, base, good, noticed>>
cycle  == <<step, now, seen, held, fresh, todo, epochs, tag, failed>>
vars   == <<clock, restarts, mishaps, world, tables, memory, cycle, published>>

-----------------------------------------------------------------------------
(* Start of the process. *)

\* What a process starts from.
NoIdentities == [a \in Accounts |-> Nobody]
NoBaselines  == [a \in Local |-> Unread]
BootSnapshot == [a \in Accounts |-> [w \in WindowsOf(a) |-> Blank]]
NoBindings   == [a \in Accounts |-> [by |-> None, turn |-> 0]]
NoCaches     == [a \in Local |-> Empty]
NoEpochs     == [a \in Accounts |-> NoEpoch]
NoTags       == [a \in Local |-> NoEpoch]

Init ==
  /\ clock = 0 /\ restarts = 0 /\ mishaps = 0
  /\ bound \in [Accounts -> Credentials \cup {None}]
  /\ turns = 0 /\ turn = [a \in Accounts |-> 0]
  /\ young = Accounts
  /\ cached = NoCaches
  /\ epochRows = {} /\ seq = 0 /\ obs = {} /\ twice = {}
  /\ noticed = [a \in Accounts |-> {}]
  /\ identities = NoIdentities /\ base = NoBaselines /\ good = {} /\ published = BootSnapshot
  /\ step = "idle" /\ now = 0 /\ failed = FALSE
  /\ seen = NoBindings /\ held = NoCaches /\ fresh = {} /\ todo = {} /\ epochs = NoEpochs /\ tag = NoTags

-----------------------------------------------------------------------------
(* The world. *)

Tick ==
  /\ clock < MaxClock
  /\ clock' = clock + 1
  /\ young' = {}
  /\ UNCHANGED <<restarts, mishaps, bound, turns, turn, cached, tables, memory, cycle, published>>

\* A login, a logout or a refreshed token.
Replace(a, c) ==
  /\ turns < MaxTurns
  /\ turns' = turns + 1
  /\ c # bound[a]
  /\ bound' = [bound EXCEPT ![a] = c]
  /\ turn' = [turn EXCEPT ![a] = turns']
  /\ young' = young \cup {a}
  /\ UNCHANGED <<clock, restarts, mishaps, cached, tables, memory, cycle, published>>

\* OpenCodex reads the quota of an account; its reply is later than the login.
Refresh(a) ==
  /\ bound[a] # None
  /\ a \notin young /\ clock > cached[a].at
  /\ cached' = [cached EXCEPT ![a] = [at |-> clock, by |-> bound[a], turn |-> turn[a]]]
  /\ UNCHANGED <<clock, restarts, mishaps, bound, turns, turn, young, tables, memory, cycle, published>>

-----------------------------------------------------------------------------
(* The cycle: LoadLocal reads the credential files first and the caches after. *)

Goto(s) == step' = s

\* What a cycle found out is local to it.
EndCycle ==
  /\ Goto("idle") /\ now' = 0 /\ failed' = FALSE
  /\ seen' = NoBindings /\ held' = NoCaches /\ fresh' = {} /\ todo' = {} /\ epochs' = NoEpochs /\ tag' = NoTags

Mishap == mishaps < MaxMishaps /\ mishaps' = mishaps + 1

ReadCredentials ==
  /\ step = "idle" /\ Goto("caches")
  /\ now' = clock
  /\ seen' = [a \in Accounts |-> [by |-> bound[a], turn |-> turn[a]]]
  /\ failed' = FALSE
  /\ UNCHANGED <<clock, restarts, mishaps, world, tables, memory, held, fresh, todo, epochs, tag, published>>

ReadCaches ==
  /\ step = "caches" /\ Goto("collect")
  /\ held' = cached
  /\ UNCHANGED <<clock, restarts, mishaps, world, tables, memory, now, seen, fresh, todo, epochs, tag,
                 failed, published>>

Bindings == {a \in Accounts : seen[a].by # None}

\* What the scheduler may read: it waits between two reads with a credential.
Due == {p \in (Bindings \cap Direct) \X Endpoints :
          \A g \in good : <<g.account, g.window, g.by>> = <<p[1], p[2], seen[p[1]].by>> => g.at < clock}

\* It delivers what a read returned just now, or else the last good rows of the credential.
Collect ==
  /\ step = "collect" /\ Goto("bind")
  /\ \E read \in SUBSET Due :
       LET row(p) == [account |-> p[1], window |-> p[2], by |-> seen[p[1]].by, at |-> clock] IN
       /\ fresh' = {row(p) : p \in read}
       /\ good' = {g \in good : \A r \in fresh' : <<g.account, g.window, g.by>> # <<r.account, r.window, r.by>>}
                    \cup fresh'
  /\ todo' = Bindings
  /\ epochs' = NoEpochs
  /\ UNCHANGED <<clock, restarts, mishaps, world, tables, identities, base, noticed, now, seen, held,
                 tag, failed, published>>

-----------------------------------------------------------------------------
(* bindingEpochs: one account after the other. *)

Known(a) == identities[a].key = Key(seen[a].by)

\* Mistaken: an epoch that has ended is taken up again.
Verified_AlsoEnded(a) == {r \in epochRows : r.account = a /\ r.ref = Ref[seen[a].by] /\ r.ref # None}

\* The open epoch of a, where the account behind the credential is provably the same.
Verified(a) ==
  {r \in epochRows : r.account = a /\ r.to = Open /\ r.ref = Ref[seen[a].by] /\ r.ref # None}

Bind(a, e) ==
  /\ identities' = [identities EXCEPT ![a] = [key |-> Key(seen[a].by), epoch |-> e]]
  /\ epochs' = [epochs EXCEPT ![a] = e]

\* Mistaken: the last epoch is left open.
Closed_Not(a) == epochRows

Closed(a) == {IF r.account = a /\ r.to = Open THEN [r EXCEPT !.to = now] ELSE r : r \in epochRows}

\* Mistaken: the next number is counted from the rows that are left.
OpenEpoch_CountingRows(a) ==
  /\ seq' = Cardinality(epochRows) + 1
  /\ epochRows' = Closed(a) \cup {[account |-> a, epoch |-> seq', ref |-> Ref[seen[a].by],
                                  key |-> Key(seen[a].by), from |-> now, to |-> Open]}
  /\ Bind(a, seq')

OpenEpoch(a) ==
  /\ seq' = seq + 1
  /\ epochRows' = Closed(a) \cup {[account |-> a, epoch |-> seq + 1, ref |-> Ref[seen[a].by],
                                  key |-> Key(seen[a].by), from |-> now, to |-> Open]}
  /\ Bind(a, seq + 1)

EpochForIdentity(a) ==
  \/ \E r \in Verified(a) : Bind(a, r.epoch) /\ UNCHANGED <<epochRows, seq>>
  \/ Verified(a) = {} /\ OpenEpoch(a)

bindingEpochs(a) ==
  /\ step = "bind" /\ a \in todo
  /\ todo' = todo \ {a}
  /\ noticed' = [noticed EXCEPT ![a] = @ \cup {seen[a].turn}]
  /\ \/ Known(a) /\ Bind(a, identities[a].epoch) /\ UNCHANGED <<epochRows, seq>>
     \/ ~Known(a) /\ EpochForIdentity(a)
  /\ UNCHANGED <<clock, restarts, mishaps, world, obs, twice, base, good, step, now, seen, held, fresh, tag,
                 failed, published>>

\* One refused write: no account has an epoch in this cycle.
BindFails ==
  /\ step = "bind" /\ Goto("direct")
  /\ \E a \in todo : ~Known(a)
  /\ Mishap
  /\ epochs' = NoEpochs
  /\ failed' = TRUE
  /\ todo' = {}
  /\ UNCHANGED <<clock, restarts, world, tables, memory, now, seen, held, fresh, tag, published>>

\* Accounts without a credential are forgotten.
BindDone ==
  /\ step = "bind" /\ todo = {} /\ Goto("direct")
  /\ identities' = [a \in Accounts |-> IF epochs[a] = NoEpoch THEN Nobody ELSE identities[a]]
  /\ UNCHANGED <<clock, restarts, mishaps, world, tables, base, good, noticed, now, seen, held, fresh, todo,
                 epochs, tag, failed, published>>

-----------------------------------------------------------------------------
(* Booking. *)

\* A reading of a turn that came and went without any cycle noticing it.
Missed(a, t) == t < seen[a].turn /\ t \notin noticed[a]

Booked(r) == [account |-> r.account, window |-> r.window, at |-> r.at, epoch |-> epochs[r.account],
              by |-> r.by, missed |-> FALSE]

PersistDirect ==
  /\ step = "direct" /\ Goto("local")
  /\ \E written \in SUBSET fresh :
       /\ obs' = obs \cup {Booked(r) : r \in written}
       /\ IF written = fresh THEN UNCHANGED <<mishaps, failed>> ELSE Mishap /\ failed' = TRUE
  /\ UNCHANGED <<clock, restarts, world, epochRows, seq, twice, memory, now, seen, held, fresh, todo, epochs, tag,
                 published>>

\* Mistaken: an account that was never read is not passed over.
Eligible_NeverRead(a) ==
  /\ epochs[a] # NoEpoch
  /\ held[a].at <= now /\ now - held[a].at <= FreshFor

Eligible(a) ==
  /\ epochs[a] # NoEpoch
  /\ held[a].at # Never
  /\ held[a].at <= now /\ now - held[a].at <= FreshFor

\* Mistaken: a baseline is taken once, not once per epoch.
FirstUnder_OfProcess(a) == base[a] = Unread

FirstUnder(a) == base[a].epoch # epochs[a]
\* Mistaken: the same reading counts as a new one.
Newer_OrSame(a) == ~FirstUnder(a) /\ held[a].at >= base[a].at

Newer(a) == ~FirstUnder(a) /\ held[a].at > base[a].at
Again(a) == ~FirstUnder(a) /\ held[a].at = base[a].at

LocalRow(a) == [account |-> a, window |-> CacheWindow, at |-> held[a].at, epoch |-> epochs[a], by |-> held[a].by,
                missed |-> Missed(a, held[a].turn)]

\* Under "done" are the accounts the loop got to whose reading is not stale, paused or
\* past its reset; a refused write ends the loop.
persistLocalObservations ==
  /\ step = "local" /\ Goto("publish")
  /\ \E done \in SUBSET {a \in Local : Eligible(a)} :
       LET rows == {LocalRow(a) : a \in {b \in done : Newer(b)}} IN
       /\ obs' = obs \cup rows
       /\ twice' = twice \cup (rows \cap obs)
       /\ base' = [a \in Local |-> IF a \in done /\ (FirstUnder(a) \/ Newer(a))
                                   THEN [epoch |-> epochs[a], at |-> held[a].at] ELSE base[a]]
       /\ tag' = [a \in Local |-> IF a \in done /\ (Newer(a) \/ (Again(a) /\ base[a].at > 0))
                                  THEN epochs[a] ELSE NoEpoch]
       /\ \/ UNCHANGED <<mishaps, failed>>
          \/ (\E a \in Local \ done : Eligible(a) /\ Newer(a)) /\ Mishap /\ failed' = TRUE
  /\ UNCHANGED <<clock, restarts, world, epochRows, seq, identities, good, noticed, now, seen, held, fresh, todo,
                 epochs, published>>

-----------------------------------------------------------------------------
(* Publication. *)

Live(a) == {g \in good : g.account = a /\ g.by = seen[a].by}
UpdatedAt(a) == CHOOSE t \in {g.at : g \in Live(a)} : \A g \in Live(a) : g.at <= t

\* What is shown of a window, and the epoch applyReadingEpochs gives it: only the rows read
\* last stand for the time the account is said to have been updated at.
Shown(a, w) ==
  IF a \in Local
  THEN [at |-> held[a].at, by |-> held[a].by, epoch |-> tag[a]]
  ELSE IF \E g \in Live(a) : g.window = w
       THEN LET g == CHOOSE h \in Live(a) : h.window = w IN
            [at |-> g.at, by |-> g.by, epoch |-> IF g.at = UpdatedAt(a) THEN epochs[a] ELSE NoEpoch]
       ELSE [at |-> Never, by |-> None, epoch |-> NoEpoch]

\* Mistaken: the readings of every epoch of the account.
Points_OfAnyEpoch(a, w) == {o \in obs : o.account = a /\ o.window = w}

\* windowPoints: the readings of this window under the epoch it is shown with.
Points(a, w) == {o \in obs : o.account = a /\ o.window = w /\ o.epoch = Shown(a, w).epoch}

Window(a, w, rests) == [at |-> Shown(a, w).at, by |-> Shown(a, w).by, epoch |-> Shown(a, w).epoch,
                        rests |-> rests]

Owners(readings) == {Key(o.by) : o \in {p \in readings : ~p.missed}}

Maintain ==
  /\ step = "publish"
  /\ LET cutoff == now - Retention IN
     /\ obs' = {o \in obs : o.at >= cutoff}
     /\ epochRows' = {r \in epochRows : r.to = Open \/ r.to >= cutoff}
  /\ UNCHANGED <<clock, restarts, mishaps, world, seq, twice, memory, cycle, published>>

Publish ==
  /\ step = "publish" /\ EndCycle
  /\ ~failed
  /\ published' = [a \in Accounts |-> [w \in WindowsOf(a) |->
                     Window(a, w, IF Shown(a, w).at = Never THEN {} ELSE Owners(Points(a, w)))]]
  /\ UNCHANGED <<clock, restarts, mishaps, world, tables, memory>>

\* retainAnalysis: one window whose epoch differs takes the analysis of the whole account.
SameIdentity(a) ==
  LET both == {w \in WindowsOf(a) : published[a][w].at # Never /\ Shown(a, w).at # Never} IN
  /\ \A w \in both : published[a][w].epoch = Shown(a, w).epoch
  /\ both = {} => \A w \in WindowsOf(a) : published[a][w].epoch = NoEpoch

PublishRetained ==
  /\ step = "publish" /\ EndCycle
  /\ IF failed THEN UNCHANGED mishaps ELSE Mishap
  /\ published' = [a \in Accounts |-> [w \in WindowsOf(a) |->
                     Window(a, w, IF SameIdentity(a) /\ Shown(a, w).at # Never
                                  THEN published[a][w].rests ELSE {})]]
  /\ UNCHANGED <<clock, restarts, world, tables, memory>>

Restart ==
  /\ restarts < MaxRestarts
  /\ restarts' = restarts + 1
  /\ identities' = NoIdentities /\ base' = NoBaselines /\ good' = {} /\ published' = BootSnapshot
  /\ EndCycle
  /\ UNCHANGED <<clock, mishaps, world, tables, noticed>>

-----------------------------------------------------------------------------
Next ==
  \/ Tick \/ Restart
  \/ \E a \in Accounts, c \in Credentials \cup {None} : Replace(a, c)
  \/ \E a \in Local : Refresh(a)
  \/ ReadCredentials \/ ReadCaches \/ Collect
  \/ \E a \in Accounts : bindingEpochs(a)
  \/ BindFails \/ BindDone
  \/ PersistDirect \/ persistLocalObservations
  \/ Maintain \/ Publish \/ PublishRetained

Spec == Init /\ [][Next]_vars

-----------------------------------------------------------------------------
(* Properties. *)

\* Every variable has its type.
TypeOK ==
  /\ clock \in Nat /\ restarts \in Nat /\ mishaps \in Nat /\ seq \in Nat
  /\ bound \in [Accounts -> Credentials \cup {None}]
  /\ turns \in Nat /\ turn \in [Accounts -> Nat] /\ young \subseteq Accounts
  /\ cached \in [Local -> Cached] /\ held \in [Local -> Cached]
  /\ epochRows \subseteq Rows
  /\ obs \subseteq Observations /\ twice \subseteq Observations
  /\ identities \in [Accounts -> [key : Keys \cup {None}, epoch : Nat]]
  /\ base \in [Local -> {Unread} \cup [epoch : Nat \ {NoEpoch}, at : Nat]]
  /\ good \subseteq Readings /\ fresh \subseteq Readings
  /\ noticed \in [Accounts -> SUBSET Nat]
  /\ step \in {"idle", "caches", "collect", "bind", "direct", "local", "publish"}
  /\ now \in Nat
  /\ seen \in [Accounts -> [by : Credentials \cup {None}, turn : Nat]]
  /\ todo \subseteq Accounts
  /\ epochs \in [Accounts -> Nat] /\ tag \in [Local -> Nat]
  /\ failed \in BOOLEAN
  /\ DOMAIN published = Accounts

\* A reading that is booked on an epoch was read with the credential the epoch stands for,
\* whatever was replaced, refused or restarted in between; the epoch is kept as long as the
\* reading.  (Nothing in the files tells of a login that is undone before any cycle sees it.)
OwnReadings ==
  \A o \in obs : o.epoch # NoEpoch =>
    \E r \in epochRows :
      /\ r.epoch = o.epoch
      /\ r.account = o.account
      /\ ~o.missed => r.key = Key(o.by)

\* A reading was read while its epoch was open: after the credential was first seen and
\* before another one was.
WithinEpoch ==
  \A o \in obs, r \in epochRows : r.epoch = o.epoch => r.from <= o.at /\ (r.to = Open \/ o.at <= r.to)

\* An account has one open epoch at most, and the process holds no other one.
OneOpenEpoch ==
  /\ \A r, s \in epochRows : r.account = s.account /\ r.to = Open /\ s.to = Open => r = s
  /\ \A a \in Accounts : identities[a].key # None =>
       \E r \in epochRows : /\ r.account = a /\ r.to = Open
                             /\ r.epoch = identities[a].epoch /\ r.key = identities[a].key

\* The number of an epoch is never given again, also when retention has removed the rows
\* that bore it: no other epoch, and no booked, remembered or published
\* reading, has the number of one that is opened.
NumbersAreFresh ==
  [][\A r \in epochRows' \ epochRows : r.to = Open =>
        /\ \A s \in epochRows : s.epoch # r.epoch
        /\ \A o \in obs : o.epoch # r.epoch
        /\ \A a \in Local : base[a].epoch # r.epoch
        /\ \A a \in Accounts : /\ identities[a].epoch # r.epoch
                              /\ \A w \in WindowsOf(a) : published[a][w].epoch # r.epoch]_vars

\* A reading of OpenCodex's cache is booked once, also when the process forgot that it was.
BookedOnce == twice = {}

\* The analysis shown of a window with an identity, this cycle's or the last one that could be
\* made, rests only on readings of that identity.
AnalysisIsOwn ==
  \A a \in Accounts : \A w \in WindowsOf(a) : \A r \in epochRows :
    r.epoch = published[a][w].epoch => published[a][w].rests \subseteq {r.key}

\* "A failed lookup does not erase DB-derived analysis": a window that shows a reading booked on
\* the present epoch is shown, and so analysed, under that epoch.
FailedLookupKeepsAnalysis ==
  [][Publish => \A o \in obs : /\ o.account \in Direct /\ o.epoch # NoEpoch
                               /\ o.epoch = epochs[o.account]
                               /\ o.at = published'[o.account][o.window].at
                               => published'[o.account][o.window].epoch = o.epoch]_vars
=============================================================================

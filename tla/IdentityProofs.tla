--------------------------- MODULE IdentityProofs ---------------------------
(***************************************************************************)
(* Proofs about Identity.  A reading may be booked only because it is      *)
(* newer than the baseline of its epoch, so the argument is about time:    *)
(* every reading of a credential that was noticed before the epoch was     *)
(* opened was in the cache when the baseline was taken (Baselines).  The   *)
(* rest says which credential a turn stands for (Turns), what the cycle    *)
(* under way has found out (Cycles), and that numbers only grow (Numbers). *)
(***************************************************************************)
EXTENDS Identity, TLAPS

CachesRead == step \notin {"idle", "caches"}

\* What TypeOK leaves open of the snapshot.
Snapshots ==
  /\ \A a \in Accounts : DOMAIN published[a] = WindowsOf(a)
  /\ \A a \in Accounts : \A w \in WindowsOf(a) :
       /\ published[a][w].epoch \in 0..seq
       /\ published[a][w].at = Never => published[a][w].rests = {}

Numbers ==
  /\ \A r \in epochRows : r.epoch \in 1..seq
  /\ \A r, s \in epochRows : r.epoch = s.epoch => r = s
  /\ \A r \in epochRows : r.ref # None => r.key = r.ref
  /\ \A o \in obs : o.epoch \in 0..seq
  /\ \A a \in Local : base[a].epoch \in 0..seq
  /\ \A a \in Accounts : identities[a].epoch \in 0..seq /\ epochs[a] \in 0..seq
  /\ \A a \in Local : tag[a] \in {NoEpoch, epochs[a]}

Past ==
  /\ \A r \in epochRows : r.from <= clock
  /\ \A o \in obs : o.at <= clock
  /\ \A a \in Local : cached[a].at <= clock
  /\ step # "idle" => /\ now <= clock
                      /\ \A r \in epochRows : r.from <= now
  /\ step \in {"caches", "collect", "bind"} => \A o \in obs : o.at <= now

Cycles ==
  /\ step \in {"idle", "caches"} => held = NoCaches
  /\ step \in {"idle", "caches", "collect"} => epochs = NoEpochs /\ fresh = {}
  /\ step # "bind" => todo = {}
  /\ step # "publish" => tag = NoTags
  /\ \A a \in todo : seen[a].by # None /\ epochs[a] = NoEpoch
  /\ \A a \in Accounts : epochs[a] # NoEpoch =>
       /\ seen[a].by # None
       /\ seen[a].turn \in noticed[a]
       /\ identities[a] = [key |-> Key(seen[a].by), epoch |-> epochs[a]]
  /\ \A f \in fresh : /\ f.by = seen[f.account].by
                      /\ now <= f.at /\ f.at <= clock

Turns ==
  /\ \A a \in Accounts : /\ turn[a] <= turns
                         /\ \A n \in noticed[a] : n <= turn[a]
                         /\ turn[a] \in noticed[a] /\ bound[a] # None =>
                              \A r \in epochRows : r.account = a /\ r.to = Open => r.key = Key(bound[a])
  /\ step # "idle" => \A a \in Accounts :
       /\ seen[a].turn <= turn[a]
       /\ seen[a].turn = turn[a] => seen[a].by = bound[a]
       /\ \A n \in noticed[a] : n <= seen[a].turn
       /\ seen[a].turn < turn[a] /\ a \notin young => now < clock

\* The credential behind a reading of the cache.
ReadBy(a, x) ==
  /\ x.turn <= turn[a]
  /\ x.at # Never => /\ x.by # None
                     /\ x.turn = turn[a] => x.by = bound[a]
  /\ step # "idle" /\ x.at # Never =>
       /\ x.turn = seen[a].turn => x.by = seen[a].by
       /\ x.turn > seen[a].turn => x.at > now

Caches ==
  /\ \A a \in Local : ReadBy(a, cached[a]) /\ ReadBy(a, held[a])
  /\ CachesRead => \A a \in Local :
       /\ held[a].at <= cached[a].at
       /\ held[a].at < cached[a].at => cached[a].turn >= seen[a].turn /\ cached[a].at >= now

\* A reading newer than the baseline of an open epoch is of that epoch, unless it is of a
\* turn that no cycle has noticed.
Baselines ==
  \A a \in Local, r \in epochRows :
    r.account = a /\ r.to = Open /\ r.epoch = base[a].epoch =>
      \A x \in {cached[a], held[a]} : x.at > base[a].at =>
        /\ r.from <= x.at
        /\ x.turn \in noticed[a] => r.key = Key(x.by)

\* No reading of the cache is booked beyond the baseline, the cache or what was read of it.
BookedBehind ==
  \A o \in obs : o.window = CacheWindow =>
    /\ o.account \in Local
    /\ o.at <= cached[o.account].at
    /\ CachesRead => o.at <= held[o.account].at
    /\ base[o.account].epoch # NoEpoch => o.at <= base[o.account].at

IInv ==
  /\ TypeOK /\ Snapshots /\ Numbers /\ Past /\ Cycles /\ Turns /\ Caches /\ Baselines
  /\ BookedBehind /\ BookedOnce /\ OneOpenEpoch /\ WithinEpoch /\ OwnReadings /\ AnalysisIsOwn

-----------------------------------------------------------------------------
\* A key is told from the absence of one, and an account's id from a token.
LEMMA KeyFacts ==
  /\ None \notin Keys
  /\ \A c \in Credentials : /\ Key(c) \in Keys
                            /\ Ref[c] \in Refs \cup {None}
                            /\ Ref[c] # None => Key(c) = Ref[c]
BY Parts, RefType DEF Key, Keys

\* The row that OpenEpoch opens.
Opened(a) == [account |-> a, epoch |-> seq + 1, ref |-> Ref[seen[a].by],
              key |-> Key(seen[a].by), from |-> now, to |-> Open]

Same(r, s) == r.account = s.account /\ r.epoch = s.epoch /\ r.ref = s.ref /\ r.key = s.key /\ r.from = s.from

\* OpenEpoch adds its row and ends the open ones of the account; nothing else changes.
LEMMA OpenedRows ==
  ASSUME TypeOK, NEW a \in Accounts, seen[a].by # None, OpenEpoch(a)
  PROVE  /\ Opened(a) \in epochRows' /\ Opened(a) \in Rows
         /\ epochRows' \subseteq Rows
         /\ \A r \in epochRows' :
              \/ r = Opened(a)
              \/ r \in epochRows /\ (r.account # a \/ r.to # Open)
              \/ r.to = now /\ \E s \in epochRows : s.account = a /\ s.to = Open /\ Same(r, s)
         /\ \A s \in epochRows : \E r \in epochRows' :
              /\ Same(r, s)
              /\ s.account # a \/ s.to # Open => r = s
<1>1. Opened(a) \in Rows
  BY KeyFacts DEF Opened, TypeOK, Rows, Open
<1>2. /\ epochRows' = Closed(a) \cup {Opened(a)}
      /\ epochRows \subseteq Rows /\ now \in Nat
  BY DEF OpenEpoch, Opened, TypeOK
<1>3. ASSUME NEW s \in epochRows, s.account = a, s.to = Open
      PROVE  /\ [s EXCEPT !.to = now] \in Rows
             /\ [s EXCEPT !.to = now].to = now
             /\ Same([s EXCEPT !.to = now], s)
  BY <1>2, <1>3 DEF Rows, Same
<1>4. \A r \in Closed(a) :
        \/ r \in epochRows /\ (r.account # a \/ r.to # Open)
        \/ \E s \in epochRows : s.account = a /\ s.to = Open /\ r = [s EXCEPT !.to = now]
  BY DEF Closed
<1>5. ASSUME NEW s \in epochRows
      PROVE  /\ s.account = a /\ s.to = Open => [s EXCEPT !.to = now] \in Closed(a)
             /\ s.account # a \/ s.to # Open => s \in Closed(a)
  BY DEF Closed
<1>6. \A s \in epochRows : Same(s, s)
  BY DEF Same
<1>7. \A r \in epochRows' :
        \/ r = Opened(a)
        \/ r \in epochRows /\ (r.account # a \/ r.to # Open)
        \/ r.to = now /\ \E s \in epochRows : s.account = a /\ s.to = Open /\ Same(r, s)
  BY <1>2, <1>3, <1>4
<1>8. epochRows' \subseteq Rows
  BY <1>1, <1>2, <1>3, <1>4
<1>9. \A s \in epochRows : \E r \in epochRows' :
        Same(r, s) /\ (s.account # a \/ s.to # Open => r = s)
  BY <1>2, <1>3, <1>5, <1>6
<1> QED
  BY <1>1, <1>2, <1>7, <1>8, <1>9

\* The three ways in which bindingEpochs finds the epoch of an account.
LEMMA BindingCases ==
  ASSUME TypeOK, Cycles, NEW a \in Accounts, bindingEpochs(a)
  PROVE  /\ step = "bind" /\ a \in todo /\ seen[a].by \in Credentials /\ epochs[a] = NoEpoch
         /\ \/ /\ Known(a) /\ identities[a].key = Key(seen[a].by)
               /\ Bind(a, identities[a].epoch) /\ UNCHANGED <<epochRows, seq>>
            \/ /\ UNCHANGED <<epochRows, seq>>
               /\ \E r \in epochRows : /\ r.account = a /\ r.to = Open /\ Bind(a, r.epoch)
                                       /\ r.ref = Ref[seen[a].by] /\ r.ref # None
            \/ OpenEpoch(a) /\ seq' = seq + 1 /\ Bind(a, seq + 1)
<1>1. step = "bind" /\ a \in todo /\ seen[a].by \in Credentials /\ epochs[a] = NoEpoch
  BY DEF bindingEpochs, Cycles, TypeOK
<1>2. CASE Known(a)
  BY <1>1, <1>2 DEF bindingEpochs, Known
<1>3. CASE ~Known(a)
  <2>1. EpochForIdentity(a)
    BY <1>3 DEF bindingEpochs
  <2>2. CASE \E r \in Verified(a) : Bind(a, r.epoch) /\ UNCHANGED <<epochRows, seq>>
    BY <1>1, <2>2 DEF Verified
  <2>3. CASE OpenEpoch(a)
    BY <1>1, <2>3 DEF OpenEpoch
  <2> QED
    BY <2>1, <2>2, <2>3 DEF EpochForIdentity
<1> QED
  BY <1>1, <1>2, <1>3

-----------------------------------------------------------------------------
\* What bindingEpochs remembers and finds.
LEMMA BindType ==
  ASSUME TypeOK, NEW a \in Accounts, seen[a].by \in Credentials, NEW e \in Nat, Bind(a, e)
  PROVE  /\ identities' \in [Accounts -> [key : Keys \cup {None}, epoch : Nat]]
         /\ epochs' \in [Accounts -> Nat]
         /\ identities'[a] = [key |-> Key(seen[a].by), epoch |-> e] /\ epochs'[a] = e
         /\ identities'[a].key = Key(seen[a].by) /\ identities'[a].epoch = e
         /\ \A b \in Accounts \ {a} : identities'[b] = identities[b] /\ epochs'[b] = epochs[b]
BY KeyFacts DEF Bind, TypeOK

LEMMA BindSome ==
  ASSUME TypeOK, Cycles, NEW a \in Accounts, bindingEpochs(a)
  PROVE  \E e \in Nat : Bind(a, e)
<1>1. identities[a].epoch \in Nat /\ seq + 1 \in Nat /\ \A r \in epochRows : r.epoch \in Nat
  BY DEF TypeOK, Rows
<1> QED
  BY <1>1, BindingCases

\* What persistLocalObservations writes is an observation of an account with an epoch.
LEMMA LocalRows ==
  ASSUME TypeOK, Caches, NEW a \in Local, Eligible(a)
  PROVE  /\ LocalRow(a) \in Observations
         /\ held[a].at \in Nat /\ held[a].by \in Credentials
         /\ epochs[a] \in Nat \ {NoEpoch}
<1>1. /\ held[a] \in Cached /\ epochs[a] \in Nat /\ a \in Accounts
      /\ held[a].at # Never /\ epochs[a] # NoEpoch
  BY DEF Eligible, TypeOK, Accounts
<1>2. held[a].at \in Nat /\ held[a].by \in Credentials
  BY <1>1 DEF Caches, ReadBy, Cached, Times
<1>3. Missed(a, held[a].turn) \in BOOLEAN
  BY DEF Missed
<1> QED
  BY <1>1, <1>2, <1>3 DEF LocalRow, Observations, Windows

\* What Collect returns and remembers are readings of the accounts that have a credential.
LEMMA CollectType ==
  ASSUME TypeOK, Collect
  PROVE  /\ good' \subseteq Readings /\ fresh' \subseteq Readings
         /\ \A f \in fresh' : f.by = seen[f.account].by /\ f.at = clock
<1> DEFINE row(p) == [account |-> p[1], window |-> p[2], by |-> seen[p[1]].by, at |-> clock]
<1>1. PICK read \in SUBSET Due :
        /\ fresh' = {row(p) : p \in read}
        /\ good' \subseteq good \cup fresh'
  BY DEF Collect
<1>2. \A p \in Due : /\ row(p) \in Readings
                     /\ row(p).by = seen[row(p).account].by /\ row(p).at = clock
  BY DEF Due, Bindings, TypeOK, Readings, Accounts
<1> QED
  BY <1>1, <1>2 DEF TypeOK

LEMMA TypeStep ==
  ASSUME TypeOK, Cycles, Caches, Snapshots, [Next]_vars
  PROVE  TypeOK'
<1> USE DEF world, tables, memory, cycle
<1>1. CASE Tick
  BY <1>1 DEF Tick, TypeOK
<1>2. ASSUME NEW a \in Accounts, NEW c \in Credentials \cup {None}, Replace(a, c)
      PROVE  TypeOK'
  BY <1>2 DEF Replace, TypeOK
<1>3. ASSUME NEW a \in Local, Refresh(a)
      PROVE  TypeOK'
  <2>1. [at |-> clock, by |-> bound[a], turn |-> turn[a]] \in Cached
    BY DEF TypeOK, Cached, Times, Accounts
  <2> QED
    BY <1>3, <2>1 DEF Refresh, TypeOK
<1>4. CASE ReadCredentials
  <2>1. \A a \in Accounts : [by |-> bound[a], turn |-> turn[a]] \in [by : Credentials \cup {None}, turn : Nat]
    BY DEF TypeOK
  <2> QED
    BY <1>4, <2>1 DEF ReadCredentials, Goto, TypeOK
<1>5. CASE ReadCaches
  BY <1>5 DEF ReadCaches, Goto, TypeOK
<1>6. CASE Collect
  <2>1. todo' \subseteq Accounts /\ epochs' \in [Accounts -> Nat] /\ step' = "bind"
    BY <1>6 DEF Collect, Goto, Bindings, NoEpochs, NoEpoch
  <2> QED
    BY <1>6, <2>1, CollectType DEF Collect, TypeOK
<1>7. ASSUME NEW a \in Accounts, bindingEpochs(a)
      PROVE  TypeOK'
  <2>1. seen[a].by \in Credentials /\ identities[a].epoch \in Nat /\ seq + 1 \in Nat
    BY <1>7, BindingCases DEF TypeOK
  <2>2. /\ epochRows' \subseteq Rows /\ seq' \in Nat
        /\ \E e \in Nat : Bind(a, e)
    <3>1. CASE UNCHANGED <<epochRows, seq>> /\ Bind(a, identities[a].epoch)
      BY <2>1, <3>1 DEF TypeOK
    <3>2. CASE UNCHANGED <<epochRows, seq>> /\ \E r \in epochRows : Bind(a, r.epoch)
      <4>1. \A r \in epochRows : r.epoch \in Nat
        BY DEF TypeOK, Rows
      <4> QED
        BY <3>2, <4>1 DEF TypeOK
    <3>3. CASE OpenEpoch(a) /\ seq' = seq + 1 /\ Bind(a, seq + 1)
      BY <2>1, <3>3, OpenedRows, KeyFacts, Parts
    <3> QED
      BY <1>7, <3>1, <3>2, <3>3, BindingCases
  <2>3. /\ identities' \in [Accounts -> [key : Keys \cup {None}, epoch : Nat]]
        /\ epochs' \in [Accounts -> Nat]
    BY <2>1, <2>2, BindType
  <2>4. todo' \subseteq Accounts /\ noticed' \in [Accounts -> SUBSET Nat]
    BY <1>7 DEF bindingEpochs, TypeOK
  <2> QED
    BY <1>7, <2>2, <2>3, <2>4 DEF bindingEpochs, TypeOK
<1>8. CASE BindFails
  BY <1>8 DEF BindFails, Goto, Mishap, TypeOK, NoEpochs, NoEpoch
<1>9. CASE BindDone
  BY <1>9 DEF BindDone, Goto, TypeOK, Nobody, NoEpoch
<1>10. CASE PersistDirect
  <2>1. \A f \in fresh : Booked(f) \in Observations
    BY DEF Booked, Observations, Readings, TypeOK, Accounts, Windows
  <2>2. obs' \subseteq Observations
    BY <1>10, <2>1 DEF PersistDirect, TypeOK
  <2>3. mishaps' \in Nat
    BY <1>10 DEF PersistDirect, Mishap, TypeOK
  <2>4. failed' \in BOOLEAN
    BY <1>10, Zenon DEF PersistDirect, TypeOK
  <2> QED
    BY <1>10, <2>2, <2>3, <2>4 DEF PersistDirect, Goto, TypeOK
<1>11. CASE persistLocalObservations
  <2>1. PICK done \in SUBSET {a \in Local : Eligible(a)} :
          /\ obs' = obs \cup {LocalRow(a) : a \in {b \in done : Newer(b)}}
          /\ twice' = twice \cup ({LocalRow(a) : a \in {b \in done : Newer(b)}} \cap obs)
          /\ base' = [a \in Local |-> IF a \in done /\ (FirstUnder(a) \/ Newer(a))
                                      THEN [epoch |-> epochs[a], at |-> held[a].at] ELSE base[a]]
          /\ tag' = [a \in Local |-> IF a \in done /\ (Newer(a) \/ (Again(a) /\ base[a].at > 0))
                                     THEN epochs[a] ELSE NoEpoch]
          /\ \/ UNCHANGED <<mishaps, failed>>
             \/ Mishap /\ failed' = TRUE
    BY <1>11 DEF persistLocalObservations
  <2>2. obs' \subseteq Observations /\ twice' \subseteq Observations
    BY <2>1, LocalRows DEF TypeOK
  <2>3. base' \in [Local -> {Unread} \cup [epoch : Nat \ {NoEpoch}, at : Nat]]
    BY <2>1, LocalRows DEF TypeOK
  <2>4. tag' \in [Local -> Nat]
    BY <2>1, LocalRows DEF TypeOK, NoEpoch
  <2>5. mishaps' \in Nat
    BY <2>1 DEF Mishap, TypeOK
  <2>6. failed' \in BOOLEAN
    BY <2>1, Zenon DEF TypeOK
  <2> QED
    BY <1>11, <2>1, <2>2, <2>3, <2>4, <2>5, <2>6 DEF persistLocalObservations, Goto, TypeOK
<1>12. CASE Maintain
  BY <1>12 DEF Maintain, TypeOK
<1>13. ASSUME EndCycle
       PROVE  /\ step' = "idle" /\ now' \in Nat /\ failed' \in BOOLEAN
              /\ seen' \in [Accounts -> [by : Credentials \cup {None}, turn : Nat]]
              /\ held' \in [Local -> Cached]
              /\ fresh' \subseteq Readings /\ todo' \subseteq Accounts
              /\ epochs' \in [Accounts -> Nat] /\ tag' \in [Local -> Nat]
  BY <1>13 DEF EndCycle, Goto, NoBindings, NoCaches, NoEpochs, NoTags, NoEpoch, Empty, Cached, Times
<1>14. CASE Publish
  BY <1>13, <1>14 DEF Publish, TypeOK
<1>15. CASE PublishRetained
  BY <1>13, <1>15 DEF PublishRetained, Mishap, TypeOK
<1>16. CASE Restart
  BY <1>13, <1>16 DEF Restart, TypeOK, NoIdentities, NoBaselines, BootSnapshot, Nobody, NoEpoch
<1>17. CASE UNCHANGED vars
  BY <1>17 DEF vars, TypeOK
<1> QED
  BY <1>1, <1>2, <1>3, <1>4, <1>5, <1>6, <1>7, <1>8, <1>9, <1>10, <1>11, <1>12, <1>14, <1>15, <1>16, <1>17 DEF Next

-----------------------------------------------------------------------------
\* What EndCycle leaves of the cycle.
LEMMA Ended ==
  ASSUME EndCycle
  PROVE  /\ step' = "idle" /\ held' = NoCaches /\ fresh' = {} /\ todo' = {}
         /\ epochs' = NoEpochs /\ tag' = NoTags /\ seen' = NoBindings
         /\ \A a \in Accounts : epochs'[a] = NoEpoch
         /\ \A a \in Local : tag'[a] = NoEpoch
BY DEF EndCycle, Goto, NoEpochs, NoTags

\* The number of what is shown is one that was given.
LEMMA ShownEpoch ==
  ASSUME TypeOK, Numbers, NEW a \in Accounts, NEW w \in WindowsOf(a)
  PROVE  Shown(a, w).epoch \in 0..seq
<1>1. CASE a \in Local
  BY <1>1 DEF Shown, Numbers, NoEpoch, TypeOK
<1>2. CASE a \notin Local
  BY <1>2 DEF Shown, Numbers, NoEpoch, TypeOK
<1> QED
  BY <1>1, <1>2

\* Numbers grow: what exists has a number that was given, and the next one is free.
LEMMA NumbersStep ==
  ASSUME TypeOK, TypeOK', Numbers, Snapshots, Cycles, Caches, OneOpenEpoch, [Next]_vars
  PROVE  Numbers' /\ Snapshots'
<1> USE DEF world, tables, memory, cycle
<1>0. seq \in Nat
  BY DEF TypeOK
<1>1. CASE UNCHANGED <<epochRows, seq, obs, base, identities, epochs, tag, published>>
  BY <1>1 DEF Numbers, Snapshots
<1>2. CASE Collect
  BY <1>0, <1>2 DEF Collect, Goto, Numbers, Snapshots, NoEpochs, NoEpoch, Cycles, NoTags
<1>3. ASSUME NEW a \in Accounts, bindingEpochs(a)
      PROVE  Numbers' /\ Snapshots'
  <2>1. /\ step = "bind" /\ tag' = tag /\ obs' = obs /\ base' = base /\ published' = published
        /\ \A b \in Local : tag[b] = NoEpoch
    BY <1>3 DEF bindingEpochs, Cycles, NoTags
  <2>2. /\ seq' \in Nat /\ seq <= seq'
        /\ \A r \in epochRows' : r.epoch \in 1..seq'
        /\ \A r, s \in epochRows' : r.epoch = s.epoch => r = s
        /\ \A r \in epochRows' : r.ref # None => r.key = r.ref
        /\ \E e \in 0..seq' : Bind(a, e)
    <3>1. CASE UNCHANGED <<epochRows, seq>> /\ Bind(a, identities[a].epoch)
      BY <1>0, <3>1 DEF Numbers
    <3>2. CASE UNCHANGED <<epochRows, seq>> /\ \E r \in epochRows : Bind(a, r.epoch)
      BY <1>0, <3>2 DEF Numbers
    <3>3. CASE OpenEpoch(a) /\ seq' = seq + 1 /\ Bind(a, seq + 1)
      <4>1. seen[a].by \in Credentials
        BY <1>3, BindingCases
      <4>2. /\ Opened(a).epoch = seq + 1
            /\ Opened(a).ref # None => Opened(a).key = Opened(a).ref
        BY <4>1, KeyFacts DEF Opened
      <4>3. \A r \in epochRows' :
              r = Opened(a) \/ \E s \in epochRows : Same(r, s) /\ (r = s \/ (r.to = now /\ s.to = Open))
        BY <3>3, <4>1, OpenedRows, KeyFacts, Parts DEF Same
      <4>4. \A s \in epochRows : s.epoch \in 1..seq /\ (s.ref # None => s.key = s.ref)
        BY DEF Numbers
      <4>5. \A r \in epochRows' : r.epoch \in 1..seq' /\ (r.ref # None => r.key = r.ref)
        BY <1>0, <3>3, <4>2, <4>3, <4>4 DEF Same
      <4>6. \A r \in epochRows' : r \in Rows
        BY DEF TypeOK
      <4>7. ASSUME NEW r \in epochRows', NEW s \in epochRows', r.epoch = s.epoch
            PROVE  r = s
        <5>1. CASE r = Opened(a) \/ s = Opened(a)
          BY <1>0, <4>2, <4>3, <4>4, <4>7, <5>1 DEF Same
        <5>2. CASE r # Opened(a) /\ s # Opened(a)
          <6>1. PICK p \in epochRows : Same(r, p) /\ (r = p \/ (r.to = now /\ p.to = Open))
            BY <4>3, <5>2
          <6>2. PICK q \in epochRows : Same(s, q) /\ (s = q \/ (s.to = now /\ q.to = Open))
            BY <4>3, <5>2
          <6>3. p = q
            BY <4>7, <6>1, <6>2 DEF Same, Numbers
          <6>4. \A x \in epochRows' : x.to # Open \/ x = Opened(a) \/ x.account # a \/ x.to # now
            BY DEF Open, TypeOK
          <6>5. r.to = s.to
            <7>1. r = Opened(a) \/ (r \in epochRows /\ (r.account # a \/ r.to # Open)) \/
                    (r.to = now /\ r.account = a)
              BY <3>3, <4>1, OpenedRows, KeyFacts, Parts DEF Same
            <7>2. s = Opened(a) \/ (s \in epochRows /\ (s.account # a \/ s.to # Open)) \/
                    (s.to = now /\ s.account = a)
              BY <3>3, <4>1, OpenedRows, KeyFacts, Parts DEF Same
            <7>3. now # Open
              BY DEF TypeOK, Open
            <7> QED
              BY <5>2, <6>1, <6>2, <6>3, <7>1, <7>2, <7>3 DEF Same, Numbers
          <6> QED
            BY <4>6, <6>1, <6>2, <6>3, <6>5 DEF Same, Rows
        <5> QED
          BY <5>1, <5>2
      <4> QED
        BY <1>0, <3>3, <4>5, <4>7
    <3> QED
      BY <1>3, <3>1, <3>2, <3>3, BindingCases
  <2>3. /\ \A b \in Accounts : identities'[b].epoch \in 0..seq' /\ epochs'[b] \in 0..seq'
    <3>1. PICK e \in 0..seq' : Bind(a, e)
      BY <2>2
    <3>2. seen[a].by \in Credentials /\ e \in Nat
      BY <1>3, <2>2, BindingCases
    <3>3. /\ identities'[a].epoch = e /\ epochs'[a] = e
          /\ \A b \in Accounts \ {a} : identities'[b] = identities[b] /\ epochs'[b] = epochs[b]
      BY <3>1, <3>2, BindType
    <3>4. \A n \in 0..seq : n \in 0..seq'
      BY <1>0, <2>2
    <3>5. \A b \in Accounts : identities[b].epoch \in 0..seq /\ epochs[b] \in 0..seq
      BY DEF Numbers
    <3> QED
      BY <3>1, <3>3, <3>4, <3>5
  <2> QED
    BY <1>0, <2>1, <2>2, <2>3 DEF Numbers, Snapshots
<1>4. CASE BindFails
  BY <1>0, <1>4 DEF BindFails, Goto, Numbers, Snapshots, NoEpochs, NoEpoch, Cycles, NoTags
<1>5. CASE BindDone
  BY <1>0, <1>5 DEF BindDone, Goto, Numbers, Snapshots, Nobody, NoEpoch
<1>6. CASE PersistDirect
  <2>1. \A f \in fresh : Booked(f).epoch \in 0..seq
    BY DEF Booked, Numbers, TypeOK, Readings, Accounts
  <2> QED
    BY <1>6, <2>1 DEF PersistDirect, Numbers, Snapshots
<1>7. CASE persistLocalObservations
  <2>1. /\ UNCHANGED <<epochRows, seq, identities, epochs, published>>
        /\ \A o \in obs' : o \in obs \/ \E a \in Local : o = LocalRow(a)
        /\ \A a \in Local : base'[a] = base[a] \/ base'[a] = [epoch |-> epochs[a], at |-> held[a].at]
        /\ \A a \in Local : tag'[a] \in {NoEpoch, epochs[a]}
    BY <1>7 DEF persistLocalObservations
  <2>2. \A a \in Local : LocalRow(a).epoch \in 0..seq /\ epochs[a] \in 0..seq
    BY DEF LocalRow, Numbers, Accounts
  <2>3. \A o \in obs' : o.epoch \in 0..seq
    BY <2>1, <2>2 DEF Numbers
  <2>4. \A a \in Local : base'[a].epoch \in 0..seq
    <3>1. ASSUME NEW a \in Local
          PROVE  base'[a].epoch = base[a].epoch \/ base'[a].epoch = epochs[a]
      <4>1. CASE base'[a] = base[a]
        BY <4>1
      <4>2. CASE base'[a] = [epoch |-> epochs[a], at |-> held[a].at]
        BY <4>2
      <4> QED
        BY <2>1, <4>1, <4>2
    <3> QED
      BY <2>2, <3>1 DEF Numbers
  <2>5. Snapshots'
    BY <2>1 DEF Snapshots
  <2> QED
    BY <2>1, <2>3, <2>4, <2>5 DEF Numbers
<1>8. CASE Maintain
  BY <1>8 DEF Maintain, Numbers, Snapshots
<1>9. ASSUME EndCycle, UNCHANGED <<epochRows, seq, obs, twice, identities, base, good, noticed>>
      PROVE  Numbers'
  BY <1>0, <1>9, Ended DEF Numbers, NoEpoch
<1>10. CASE Publish
  <2>1. \A a \in Accounts : /\ published'[a] = [w \in WindowsOf(a) |->
                                 Window(a, w, IF Shown(a, w).at = Never THEN {} ELSE Owners(Points(a, w)))]
    BY <1>10 DEF Publish
  <2>2. ASSUME NEW a \in Accounts, NEW w \in WindowsOf(a)
        PROVE  /\ published'[a][w].epoch = Shown(a, w).epoch
               /\ published'[a][w].at = Never => published'[a][w].rests = {}
    <3>1. published'[a][w] = Window(a, w, IF Shown(a, w).at = Never THEN {} ELSE Owners(Points(a, w)))
      BY <2>1
    <3> QED
      BY <3>1 DEF Window
  <2>3. seq' = seq /\ Numbers'
    BY <1>9, <1>10 DEF Publish
  <2>4. \A a \in Accounts : DOMAIN published'[a] = WindowsOf(a)
    BY <2>1
  <2>5. \A a \in Accounts : \A w \in WindowsOf(a) : published'[a][w].epoch \in 0..seq
    BY <2>2, ShownEpoch
  <2> QED
    BY <2>2, <2>3, <2>4, <2>5 DEF Snapshots
<1>11. CASE PublishRetained
  <2>1. \A a \in Accounts : published'[a] = [w \in WindowsOf(a) |->
                     Window(a, w, IF SameIdentity(a) /\ Shown(a, w).at # Never
                                  THEN published[a][w].rests ELSE {})]
    BY <1>11 DEF PublishRetained
  <2>2. ASSUME NEW a \in Accounts, NEW w \in WindowsOf(a)
        PROVE  /\ published'[a][w].epoch = Shown(a, w).epoch
               /\ published'[a][w].at = Never => published'[a][w].rests = {}
    <3>1. published'[a][w] = Window(a, w, IF SameIdentity(a) /\ Shown(a, w).at # Never
                                         THEN published[a][w].rests ELSE {})
      BY <2>1
    <3> QED
      BY <3>1 DEF Window
  <2>3. seq' = seq /\ Numbers'
    BY <1>9, <1>11 DEF PublishRetained
  <2>4. \A a \in Accounts : DOMAIN published'[a] = WindowsOf(a)
    BY <2>1
  <2>5. \A a \in Accounts : \A w \in WindowsOf(a) : published'[a][w].epoch \in 0..seq
    BY <2>2, ShownEpoch
  <2> QED
    BY <2>2, <2>3, <2>4, <2>5 DEF Snapshots
<1>12. CASE Restart
  <2>1. \A a \in Accounts : /\ published'[a] = [w \in WindowsOf(a) |-> Blank]
                            /\ identities'[a].epoch = NoEpoch
    BY <1>12 DEF Restart, BootSnapshot, NoIdentities, Nobody
  <2>2. \A a \in Local : base'[a].epoch = NoEpoch
    BY <1>12 DEF Restart, NoBaselines, Unread
  <2>3. Numbers'
    <3>1. /\ UNCHANGED <<epochRows, seq, obs>>
          /\ \A a \in Accounts : epochs'[a] = NoEpoch
          /\ \A a \in Local : tag'[a] = NoEpoch
      BY <1>12, Ended DEF Restart
    <3>2. NoEpoch \in 0..seq
      BY <1>0 DEF NoEpoch
    <3> QED
      BY <2>1, <2>2, <3>1, <3>2 DEF Numbers
  <2>4. \A a \in Accounts : DOMAIN published'[a] = WindowsOf(a)
    BY <2>1
  <2>5. \A a \in Accounts : \A w \in WindowsOf(a) : published'[a][w] = Blank
    BY <2>1
  <2>6. Snapshots'
    BY <1>0, <1>12, <2>4, <2>5 DEF Restart, Snapshots, Blank, NoEpoch
  <2> QED
    BY <2>3, <2>6
<1> QED
  <2>1. ASSUME NEW a \in Accounts, NEW c \in Credentials \cup {None}, Replace(a, c)
        PROVE  UNCHANGED <<epochRows, seq, obs, base, identities, epochs, tag, published>>
    BY <2>1 DEF Replace
  <2>2. ASSUME NEW a \in Local, Refresh(a)
        PROVE  UNCHANGED <<epochRows, seq, obs, base, identities, epochs, tag, published>>
    BY <2>2 DEF Refresh
  <2>3. CASE Tick \/ ReadCredentials \/ ReadCaches \/ UNCHANGED vars
    BY <1>1, <2>3 DEF Tick, ReadCredentials, ReadCaches, vars
  <2> QED
    BY <1>1, <1>2, <1>3, <1>4, <1>5, <1>6, <1>7, <1>8, <1>10, <1>11, <1>12, <2>1, <2>2, <2>3 DEF Next

-----------------------------------------------------------------------------
\* Everything is of the past: a cycle writes what was read, and opened, before it.
LEMMA TimesStep ==
  ASSUME TypeOK, TypeOK', Past, Cycles, Caches, [Next]_vars
  PROVE  Past'
<1> USE DEF world, tables, memory, cycle, Goto
<1>0. clock \in Nat /\ now \in Nat
  BY DEF TypeOK
<1>1. CASE Tick
  <2>1. /\ clock' = clock + 1
        /\ UNCHANGED <<epochRows, obs, cached, step, now>>
        /\ \A r \in epochRows : r.from \in Nat
        /\ \A o \in obs : o.at \in Nat \cup {Never}
        /\ \A a \in Local : cached[a].at \in Nat \cup {Never}
    BY <1>1 DEF Tick, TypeOK, Rows, Observations, Times, Cached
  <2> QED
    BY <1>0, <2>1 DEF Past, Never
<1>2. ASSUME NEW a \in Local, Refresh(a)
      PROVE  Past'
  <2>1. \A b \in Local : cached'[b].at = cached[b].at \/ cached'[b].at = clock
    BY <1>2 DEF Refresh, TypeOK
  <2> QED
    BY <1>0, <1>2, <2>1 DEF Refresh, Past
<1>3. CASE ReadCredentials
  BY <1>0, <1>3 DEF ReadCredentials, Past
<1>4. CASE ReadCaches \/ Collect \/ BindFails \/ BindDone
  BY <1>4 DEF ReadCaches, Collect, BindFails, BindDone, Past
<1>5. ASSUME NEW a \in Accounts, bindingEpochs(a)
      PROVE  Past'
  <2>1. UNCHANGED <<clock, obs, cached, step, now>> /\ step = "bind"
    BY <1>5 DEF bindingEpochs
  <2>2. \A r \in epochRows' : r.from <= now
    <3>1. CASE UNCHANGED epochRows
      BY <2>1, <3>1 DEF Past
    <3>2. CASE OpenEpoch(a)
      <4>1. Opened(a).from = now /\ seen[a].by # None
        BY <1>5, BindingCases, Parts DEF Opened
      <4>2. \A r \in epochRows' : r = Opened(a) \/ r \in epochRows \/ \E s \in epochRows : Same(r, s)
        BY <3>2, <4>1, OpenedRows
      <4> QED
        BY <1>0, <2>1, <4>1, <4>2 DEF Past, Same
    <3> QED
      BY <1>5, <3>1, <3>2, BindingCases
  <2>3. \A r \in epochRows' : r.from \in Nat
    BY DEF TypeOK, Rows
  <2> QED
    BY <1>0, <2>1, <2>2, <2>3 DEF Past
<1>6. CASE PersistDirect
  <2>1. step = "direct" /\ step' = "local" /\ UNCHANGED <<clock, now, epochRows, cached>>
    BY <1>6 DEF PersistDirect
  <2>2. \A o \in obs' : o \in obs \/ \E f \in fresh : o = Booked(f)
    BY <1>6 DEF PersistDirect
  <2>3. \A f \in fresh : Booked(f).at <= clock
    BY DEF Booked, Cycles
  <2> QED
    BY <2>1, <2>2, <2>3 DEF Past
<1>7. CASE persistLocalObservations
  <2>1. step = "local" /\ step' = "publish" /\ UNCHANGED <<clock, now, epochRows, cached>>
    BY <1>7 DEF persistLocalObservations
  <2>2. \A o \in obs' : o \in obs \/ \E a \in Local : Eligible(a) /\ o = LocalRow(a)
    BY <1>7 DEF persistLocalObservations
  <2>3. \A a \in Local : Eligible(a) => LocalRow(a).at = held[a].at /\ held[a].at \in Nat /\ held[a].at <= now
    BY LocalRows DEF LocalRow, Eligible
  <2>4. \A o \in obs' : o.at <= clock
    BY <1>0, <2>1, <2>2, <2>3 DEF Past
  <2> QED
    BY <2>1, <2>4 DEF Past
<1>8. CASE Maintain
  BY <1>8 DEF Maintain, Past
<1>9. CASE Publish \/ PublishRetained \/ Restart
  <2>1. step' = "idle" /\ UNCHANGED <<clock, epochRows, obs, cached>>
    BY <1>9 DEF Publish, PublishRetained, Restart, EndCycle
  <2> QED
    BY <2>1 DEF Past
<1>10. ASSUME NEW a \in Accounts, NEW c \in Credentials \cup {None}, Replace(a, c)
       PROVE  Past'
  BY <1>10 DEF Replace, Past
<1>11. CASE UNCHANGED vars
  BY <1>11 DEF vars, Past
<1> QED
  BY <1>1, <1>2, <1>3, <1>4, <1>5, <1>6, <1>7, <1>8, <1>9, <1>10, <1>11 DEF Next

\* What the cycle has found out stays true until it ends.
LEMMA CyclesStep ==
  ASSUME TypeOK, Numbers, Past, Cycles, [Next]_vars
  PROVE  Cycles'
<1> USE DEF world, tables, memory, cycle, Goto
<1>1. CASE Tick
  <2>1. \A f \in fresh : f.at \in Nat
    BY DEF TypeOK, Readings
  <2> QED
    BY <1>1, <2>1 DEF Tick, Cycles, TypeOK
<1>2. CASE ReadCredentials
  BY <1>2 DEF ReadCredentials, Cycles, NoEpochs, NoEpoch
<1>3. CASE ReadCaches
  BY <1>3 DEF ReadCaches, Cycles
<1>4. CASE Collect
  <2>1. /\ step = "collect" /\ step' = "bind" /\ UNCHANGED <<now, clock, seen, identities, noticed, tag, held>>
        /\ todo' = Bindings /\ epochs' = NoEpochs
    BY <1>4 DEF Collect
  <2>2. \A f \in fresh' : f.by = seen[f.account].by /\ f.at = clock
    BY <1>4, CollectType
  <2>3. now <= clock /\ clock \in Nat
    BY <2>1 DEF Past, TypeOK
  <2> QED
    BY <2>1, <2>2, <2>3 DEF Cycles, Bindings, NoEpochs
<1>5. ASSUME NEW a \in Accounts, bindingEpochs(a)
      PROVE  Cycles'
  <2>1. /\ step = "bind" /\ UNCHANGED <<step, now, clock, seen, tag, held, fresh>>
        /\ todo' = todo \ {a} /\ seen[a].by \in Credentials
        /\ noticed' = [noticed EXCEPT ![a] = @ \cup {seen[a].turn}]
    BY <1>5, BindingCases DEF bindingEpochs
  <2>2. \E e \in Nat : Bind(a, e)
    BY <1>5, BindSome
  <2>3. /\ epochs'[a] = identities'[a].epoch
        /\ identities'[a] = [key |-> Key(seen[a].by), epoch |-> epochs'[a]]
        /\ \A b \in Accounts \ {a} : identities'[b] = identities[b] /\ epochs'[b] = epochs[b]
    BY <2>1, <2>2, BindType
  <2>4. seen[a].turn \in noticed'[a] /\ \A b \in Accounts : noticed[b] \subseteq noticed'[b]
    BY <2>1 DEF TypeOK
  <2>5. seen[a].by # None
    BY <2>1, Parts
  <2>6. \A b \in Accounts : epochs'[b] # NoEpoch =>
          /\ seen[b].by # None
          /\ seen[b].turn \in noticed'[b]
          /\ identities'[b] = [key |-> Key(seen[b].by), epoch |-> epochs'[b]]
    BY <2>3, <2>4, <2>5 DEF Cycles
  <2>7. \A b \in todo' : seen[b].by # None /\ epochs'[b] = NoEpoch
    BY <2>1, <2>3 DEF Cycles, TypeOK
  <2> QED
    BY <2>1, <2>6, <2>7 DEF Cycles
<1>6. CASE BindFails
  BY <1>6 DEF BindFails, Cycles, NoEpochs, NoEpoch
<1>7. CASE BindDone
  <2>1. /\ step = "bind" /\ step' = "direct" /\ todo = {}
        /\ UNCHANGED <<now, clock, seen, tag, held, fresh, todo, epochs, noticed>>
        /\ \A a \in Accounts : epochs[a] # NoEpoch => identities'[a] = identities[a]
    BY <1>7 DEF BindDone
  <2> QED
    BY <2>1 DEF Cycles
<1>8. CASE PersistDirect
  BY <1>8 DEF PersistDirect, Cycles
<1>9. CASE persistLocalObservations
  BY <1>9 DEF persistLocalObservations, Cycles
<1>10. CASE Maintain
  BY <1>10 DEF Maintain, Cycles
<1>11. CASE Publish \/ PublishRetained \/ Restart
  <2>1. EndCycle
    BY <1>11 DEF Publish, PublishRetained, Restart
  <2> QED
    BY <2>1, Ended DEF Cycles
<1>12. ASSUME NEW a \in Accounts, NEW c \in Credentials \cup {None}, Replace(a, c)
       PROVE  Cycles'
  BY <1>12 DEF Replace, Cycles
<1>13. ASSUME NEW a \in Local, Refresh(a)
       PROVE  Cycles'
  BY <1>13 DEF Refresh, Cycles
<1>14. CASE UNCHANGED vars
  BY <1>14 DEF vars, Cycles
<1> QED
  BY <1>1, <1>2, <1>3, <1>4, <1>5, <1>6, <1>7, <1>8, <1>9, <1>10, <1>11, <1>12, <1>13, <1>14 DEF Next

-----------------------------------------------------------------------------
\* A credential that the cycle saw and that is no longer the account's was replaced since.
LEMMA TurnsStep ==
  ASSUME TypeOK, Numbers, Past, Cycles, Turns, OneOpenEpoch, OneOpenEpoch', [Next]_vars
  PROVE  Turns'
<1> USE DEF world, tables, memory, cycle, Goto
<1>0. clock \in Nat /\ now \in Nat /\ turns \in Nat /\ turn \in [Accounts -> Nat]
  BY DEF TypeOK
<1>1. CASE Tick
  <2>1. step # "idle" => now < clock'
    BY <1>0, <1>1 DEF Tick, Past
  <2> QED
    BY <1>1, <2>1 DEF Tick, Turns
<1>2. ASSUME NEW a \in Accounts, NEW c \in Credentials \cup {None}, Replace(a, c)
      PROVE  Turns'
  <2>1. /\ turns' = turns + 1 /\ turn' = [turn EXCEPT ![a] = turns + 1]
        /\ bound' = [bound EXCEPT ![a] = c] /\ young' = young \cup {a}
        /\ UNCHANGED <<clock, noticed, epochRows, step, now, seen>>
    BY <1>2 DEF Replace
  <2>2. \A b \in Accounts : /\ turn[b] <= turns
                            /\ \A n \in noticed[b] : n \in Nat /\ n <= turn[b]
                            /\ step # "idle" => seen[b].turn \in Nat /\ seen[b].turn <= turn[b]
    BY DEF Turns, TypeOK
  <2>3. turn'[a] = turns + 1 /\ a \in young' /\ turn'[a] \notin noticed[a]
    BY <1>0, <2>1, <2>2
  <2>4. \A b \in Accounts \ {a} : turn'[b] = turn[b] /\ bound'[b] = bound[b] /\ (b \in young' <=> b \in young)
    BY <2>1 DEF TypeOK
  <2>5. ASSUME NEW b \in Accounts
        PROVE  /\ turn'[b] <= turns'
               /\ \A n \in noticed'[b] : n <= turn'[b]
               /\ turn'[b] \in noticed'[b] /\ bound'[b] # None =>
                    \A r \in epochRows' : r.account = b /\ r.to = Open => r.key = Key(bound'[b])
    <3>1. CASE b = a
      BY <1>0, <2>1, <2>2, <2>3, <3>1
    <3>2. CASE b # a
      BY <1>0, <2>1, <2>2, <2>4, <3>2 DEF Turns
    <3> QED
      BY <3>1, <3>2
  <2>6. ASSUME NEW b \in Accounts, step' # "idle"
        PROVE  /\ seen'[b].turn <= turn'[b]
               /\ seen'[b].turn = turn'[b] => seen'[b].by = bound'[b]
               /\ \A n \in noticed'[b] : n <= seen'[b].turn
               /\ seen'[b].turn < turn'[b] /\ b \notin young' => now' < clock'
    <3>1. CASE b = a
      BY <1>0, <2>1, <2>2, <2>3, <2>6, <3>1 DEF Turns
    <3>2. CASE b # a
      BY <1>0, <2>1, <2>2, <2>4, <2>6, <3>2 DEF Turns
    <3> QED
      BY <3>1, <3>2
  <2> QED
    BY <2>5, <2>6 DEF Turns
<1>3. CASE ReadCredentials
  <2>1. /\ \A a \in Accounts : seen'[a].turn = turn[a] /\ seen'[a].by = bound[a]
        /\ UNCHANGED <<clock, turns, turn, bound, young, noticed, epochRows>>
    BY <1>3 DEF ReadCredentials
  <2> QED
    BY <1>0, <2>1 DEF Turns
<1>4. ASSUME NEW a \in Accounts, bindingEpochs(a)
      PROVE  Turns'
  <2>1. /\ step = "bind" /\ UNCHANGED <<clock, turns, turn, bound, young, step, now, seen>>
        /\ noticed' = [noticed EXCEPT ![a] = @ \cup {seen[a].turn}]
        /\ seen[a].by \in Credentials
    BY <1>4, BindingCases DEF bindingEpochs
  <2>2. \A b \in Accounts : /\ b # a => noticed'[b] = noticed[b]
                            /\ b = a => noticed'[b] = noticed[b] \cup {seen[a].turn}
    BY <2>1 DEF TypeOK
  <2>3. \A b \in Accounts : \A n \in noticed'[b] : n <= seen[b].turn /\ seen[b].turn <= turn[b]
    <3>1. \A b \in Accounts : seen[b].turn \in Nat
      BY DEF TypeOK
    <3> QED
      BY <2>1, <2>2, <3>1 DEF Turns
  <2>4. \A b \in Accounts : \A n \in noticed'[b] : n <= turn[b]
    <3>1. \A b \in Accounts : seen[b].turn \in Nat /\ noticed[b] \subseteq Nat
      BY DEF TypeOK
    <3> QED
      BY <1>0, <2>1, <2>2, <2>3, <3>1
  <2>5. \A r \in epochRows' : r.account = a /\ r.to = Open => r.key = Key(seen[a].by)
    <3>1. identities'[a].key = Key(seen[a].by)
      BY <1>4, <2>1, BindSome, BindType
    <3>2. Key(seen[a].by) # None
      BY <2>1, KeyFacts
    <3> QED
      BY <3>1, <3>2 DEF OneOpenEpoch
  <2>6. ASSUME NEW b \in Accounts, turn[b] \in noticed'[b], bound[b] # None,
               NEW r \in epochRows', r.account = b, r.to = Open
        PROVE  r.key = Key(bound[b])
    <3>1. CASE b = a
      <4>1. turn[a] <= seen[a].turn /\ seen[a].turn <= turn[a] /\ seen[a].turn \in Nat
        BY <2>3, <2>6, <3>1 DEF TypeOK
      <4>2. seen[a].by = bound[a]
        BY <1>0, <2>1, <4>1 DEF Turns
      <4> QED
        BY <2>5, <2>6, <3>1, <4>2
    <3>2. CASE b # a
      <4>1. r \in epochRows
        <5>1. CASE UNCHANGED epochRows
          BY <5>1
        <5>2. CASE OpenEpoch(a)
          <6>1. seen[a].by # None /\ Opened(a).account = a
            BY <2>1, Parts DEF Opened
          <6> QED
            BY <2>6, <3>2, <5>2, <6>1, OpenedRows DEF Same
        <5> QED
          BY <1>4, <5>1, <5>2, BindingCases
      <4> QED
        BY <2>2, <2>6, <3>2, <4>1 DEF Turns
    <3> QED
      BY <3>1, <3>2
  <2> QED
    BY <2>1, <2>3, <2>4, <2>6 DEF Turns
<1>5. CASE Maintain
  BY <1>5 DEF Maintain, Turns
<1>6. CASE Publish \/ PublishRetained \/ Restart
  <2>1. step' = "idle" /\ UNCHANGED <<turns, turn, bound, young, noticed, epochRows>>
    BY <1>6 DEF Publish, PublishRetained, Restart, EndCycle
  <2> QED
    BY <2>1 DEF Turns
<1>7. CASE ReadCaches \/ Collect \/ BindFails \/ BindDone
  BY <1>7 DEF ReadCaches, Collect, BindFails, BindDone, Turns
<1>8. CASE PersistDirect \/ persistLocalObservations
  BY <1>8 DEF PersistDirect, persistLocalObservations, Turns
<1>9. ASSUME NEW a \in Local, Refresh(a)
      PROVE  Turns'
  BY <1>9 DEF Refresh, Turns
<1>10. CASE UNCHANGED vars
  BY <1>10 DEF vars, Turns
<1> QED
  BY <1>1, <1>2, <1>3, <1>4, <1>5, <1>6, <1>7, <1>8, <1>9, <1>10 DEF Next

-----------------------------------------------------------------------------
\* The open epoch of an account stands for the credential that the cycle saw.
LEMMA OpenStep ==
  ASSUME TypeOK, TypeOK', Numbers, Numbers', Cycles, OneOpenEpoch, [Next]_vars
  PROVE  OneOpenEpoch'
<1> USE DEF world, tables, memory, cycle
<1>1. CASE UNCHANGED <<epochRows, identities>>
  BY <1>1 DEF OneOpenEpoch
<1>2. ASSUME NEW a \in Accounts, bindingEpochs(a)
      PROVE  OneOpenEpoch'
  <2>1. /\ seen[a].by \in Credentials /\ seen[a].by # None
        /\ Key(seen[a].by) # None
    BY <1>2, BindingCases, KeyFacts, Parts
  <2>2. \A b \in Accounts \ {a} : identities'[b] = identities[b]
    BY <1>2, <2>1, BindSome, BindType
  <2>3. CASE UNCHANGED epochRows
    <3>1. \E r \in epochRows : /\ r.account = a /\ r.to = Open
                               /\ r.epoch = identities'[a].epoch /\ r.key = identities'[a].key
      <4>1. CASE identities[a].key = Key(seen[a].by) /\ Bind(a, identities[a].epoch)
        <5>1. identities[a].epoch \in Nat
          BY DEF TypeOK
        <5>2. identities'[a].key = Key(seen[a].by) /\ identities'[a].epoch = identities[a].epoch
          BY <2>1, <4>1, <5>1, BindType
        <5> QED
          BY <2>1, <4>1, <5>2 DEF OneOpenEpoch
      <4>2. ASSUME NEW r \in epochRows, r.account = a, r.to = Open, Bind(a, r.epoch),
                   r.ref = Ref[seen[a].by], r.ref # None
            PROVE  r.epoch = identities'[a].epoch /\ r.key = identities'[a].key
        <5>1. r.epoch \in Nat /\ r.key = Key(seen[a].by)
          BY <2>1, <4>2, KeyFacts DEF TypeOK, Rows, Numbers
        <5> QED
          BY <2>1, <4>2, <5>1, BindType
      <4>3. CASE OpenEpoch(a)
        <5>1. Opened(a) \in epochRows /\ Opened(a).epoch = seq + 1 /\ seq \in Nat
          BY <2>1, <2>3, <4>3, OpenedRows DEF Opened, TypeOK
        <5> QED
          BY <5>1 DEF Numbers
      <4> QED
        BY <1>2, <4>1, <4>2, <4>3, BindingCases
    <3> QED
      BY <2>2, <2>3, <3>1 DEF OneOpenEpoch
  <2>4. CASE OpenEpoch(a) /\ Bind(a, seq + 1)
    <3>1. /\ Opened(a).account = a /\ Opened(a).epoch = seq + 1 /\ Opened(a).to = Open
          /\ Opened(a).key = Key(seen[a].by)
          /\ seq + 1 \in Nat /\ now # Open
      BY DEF Opened, TypeOK, Open
    <3>2. identities'[a].key = Key(seen[a].by) /\ identities'[a].epoch = seq + 1
      BY <2>1, <2>4, <3>1, BindType
    <3>3. \A r \in epochRows' : r.to = Open => r = Opened(a) \/ (r \in epochRows /\ r.account # a)
      BY <2>1, <2>4, <3>1, OpenedRows
    <3>4. \A r, s \in epochRows' : r.account = s.account /\ r.to = Open /\ s.to = Open => r = s
      BY <3>1, <3>3 DEF OneOpenEpoch
    <3>5. ASSUME NEW b \in Accounts, identities'[b].key # None
          PROVE  \E r \in epochRows' : /\ r.account = b /\ r.to = Open
                                       /\ r.epoch = identities'[b].epoch /\ r.key = identities'[b].key
      <4>1. CASE b = a
        <5>1. Opened(a) \in epochRows'
          BY <2>1, <2>4, OpenedRows
        <5> QED
          BY <3>1, <3>2, <4>1, <5>1
      <4>2. CASE b # a
        <5>1. PICK r \in epochRows : /\ r.account = b /\ r.to = Open
                                     /\ r.epoch = identities[b].epoch /\ r.key = identities[b].key
          BY <2>2, <3>5, <4>2 DEF OneOpenEpoch
        <5>2. r \in epochRows'
          BY <2>1, <2>4, <4>2, <5>1, OpenedRows
        <5> QED
          BY <2>2, <4>2, <5>1, <5>2
      <4> QED
        BY <4>1, <4>2
    <3> QED
      BY <3>4, <3>5 DEF OneOpenEpoch
  <2> QED
    BY <1>2, <2>3, <2>4, BindingCases
<1>3. CASE BindDone
  <2>1. /\ epochRows' = epochRows
        /\ \A a \in Accounts : identities'[a].key # None => identities'[a] = identities[a]
    BY <1>3 DEF BindDone, Nobody
  <2> QED
    BY <2>1 DEF OneOpenEpoch
<1>4. CASE Maintain
  BY <1>4 DEF Maintain, OneOpenEpoch
<1>5. CASE Restart
  <2>1. epochRows' = epochRows /\ \A a \in Accounts : identities'[a].key = None
    BY <1>5 DEF Restart, NoIdentities, Nobody
  <2> QED
    BY <2>1 DEF OneOpenEpoch
<1> QED
  <2>1. ASSUME NEW a \in Accounts, NEW c \in Credentials \cup {None}, Replace(a, c)
        PROVE  UNCHANGED <<epochRows, identities>>
    BY <2>1 DEF Replace
  <2>2. ASSUME NEW a \in Local, Refresh(a)
        PROVE  UNCHANGED <<epochRows, identities>>
    BY <2>2 DEF Refresh
  <2>3. CASE Tick \/ ReadCredentials \/ ReadCaches \/ Collect \/ BindFails \/ PersistDirect
    BY <1>1, <2>3 DEF Tick, ReadCredentials, ReadCaches, Collect, BindFails, PersistDirect
  <2>4. CASE persistLocalObservations \/ Publish \/ PublishRetained \/ UNCHANGED vars
    BY <1>1, <2>4 DEF persistLocalObservations, Publish, PublishRetained, vars
  <2> QED
    BY <1>1, <1>2, <1>3, <1>4, <1>5, <2>1, <2>2, <2>3, <2>4 DEF Next

-----------------------------------------------------------------------------
\* A reading of the cache is of the credential of its turn, and later than what the cycle saw
\* if it is of a later one.
LEMMA CachesStep ==
  ASSUME TypeOK, Past, Cycles, Turns, Caches, [Next]_vars
  PROVE  Caches'
<1> USE DEF world, tables, memory, cycle, Goto
<1>0. /\ clock \in Nat /\ now \in Nat /\ turns \in Nat
      /\ \A a \in Local : /\ a \in Accounts /\ turn[a] \in Nat /\ seen[a].turn \in Nat
                          /\ cached[a].turn \in Nat /\ held[a].turn \in Nat
                          /\ cached[a].at \in Nat \cup {-1} /\ held[a].at \in Nat \cup {-1}
  BY DEF TypeOK, Accounts, Cached, Times, Never
<1>1. \A a \in Local : ReadBy(a, Empty)
  BY <1>0 DEF ReadBy, Empty, Never
<1>2. CASE Tick
  BY <1>2 DEF Tick, Caches, ReadBy, CachesRead
<1>3. ASSUME NEW a \in Accounts, NEW c \in Credentials \cup {None}, Replace(a, c)
      PROVE  Caches'
  <2>1. /\ turn' = [turn EXCEPT ![a] = turns + 1] /\ bound' = [bound EXCEPT ![a] = c]
        /\ UNCHANGED <<clock, cached, step, now, seen, held>>
    BY <1>3 DEF Replace
  <2>2. ASSUME NEW b \in Local, NEW x \in Cached, ReadBy(b, x)
        PROVE  ReadBy(b, x)'
    <3>1. x.turn \in Nat /\ x.turn <= turn[b] /\ turn[b] <= turns
      BY <1>0, <2>2 DEF ReadBy, Turns, Cached
    <3>2. CASE b = a
      <4>1. turn'[b] = turns + 1
        BY <1>0, <2>1, <3>2 DEF TypeOK
      <4> QED
        BY <1>0, <2>1, <2>2, <3>1, <4>1 DEF ReadBy
    <3>3. CASE b # a
      <4>1. turn'[b] = turn[b] /\ bound'[b] = bound[b]
        BY <1>0, <2>1, <3>3 DEF TypeOK
      <4> QED
        BY <2>1, <2>2, <4>1 DEF ReadBy
    <3> QED
      BY <3>2, <3>3
  <2>3. \A b \in Local : cached[b] \in Cached /\ held[b] \in Cached
    BY DEF TypeOK
  <2>4. \A b \in Local : ReadBy(b, cached[b])' /\ ReadBy(b, held[b])'
    BY <2>1, <2>2, <2>3 DEF Caches
  <2> QED
    BY <2>1, <2>4 DEF Caches, CachesRead
<1>4. ASSUME NEW a \in Local, Refresh(a)
      PROVE  Caches'
  <2>1. /\ cached' = [cached EXCEPT ![a] = [at |-> clock, by |-> bound[a], turn |-> turn[a]]]
        /\ bound[a] # None /\ a \notin young /\ clock > cached[a].at
        /\ UNCHANGED <<clock, turn, bound, step, now, seen, held>>
    BY <1>4 DEF Refresh
  <2>2. cached'[a].at = clock /\ cached'[a].by = bound[a] /\ cached'[a].turn = turn[a]
    BY <2>1 DEF TypeOK
  <2>3. \A b \in Local \ {a} : cached'[b] = cached[b]
    BY <2>1 DEF TypeOK
  <2>4. step # "idle" => /\ seen[a].turn <= turn[a] /\ now <= clock
                         /\ seen[a].turn = turn[a] => seen[a].by = bound[a]
                         /\ seen[a].turn < turn[a] => now < clock
    BY <1>0, <2>1 DEF Turns, Past
  <2>5. ReadBy(a, cached[a])'
    BY <1>0, <2>1, <2>2, <2>4 DEF ReadBy
  <2>6. \A b \in Local : ReadBy(b, held[b])' /\ (b # a => ReadBy(b, cached[b])')
    BY <2>1, <2>3 DEF Caches, ReadBy
  <2>7. CachesRead => /\ held[a].at <= cached'[a].at
                      /\ cached'[a].turn >= seen[a].turn /\ cached'[a].at >= now
    BY <1>0, <2>1, <2>2, <2>4 DEF Caches, CachesRead
  <2> QED
    BY <2>1, <2>3, <2>5, <2>6, <2>7 DEF Caches, CachesRead
<1>5. CASE ReadCredentials
  <2>1. /\ step = "idle" /\ step' = "caches"
        /\ UNCHANGED <<clock, turn, bound, cached, held>>
        /\ \A a \in Local : seen'[a].turn = turn[a] /\ seen'[a].by = bound[a]
    BY <1>5 DEF ReadCredentials, Accounts
  <2>2. \A a \in Local : ReadBy(a, cached[a])' /\ ReadBy(a, held[a])'
    BY <1>0, <2>1 DEF Caches, ReadBy
  <2> QED
    BY <2>1, <2>2 DEF Caches, CachesRead
<1>6. CASE ReadCaches
  <2>1. /\ step = "caches" /\ held' = cached
        /\ UNCHANGED <<clock, turn, bound, cached, now, seen>> /\ step' = "collect"
    BY <1>6 DEF ReadCaches
  <2> QED
    BY <1>0, <2>1 DEF Caches, ReadBy, CachesRead
<1>7. CASE Collect \/ BindFails \/ BindDone \/ PersistDirect \/ persistLocalObservations \/ Maintain
  <2>1. /\ CachesRead /\ CachesRead' /\ step # "idle"
        /\ UNCHANGED <<clock, turn, bound, cached, now, seen, held>>
    BY <1>7 DEF Collect, BindFails, BindDone, PersistDirect, persistLocalObservations, Maintain, CachesRead
  <2> QED
    BY <2>1 DEF Caches, ReadBy
<1>8. ASSUME NEW a \in Accounts, bindingEpochs(a)
      PROVE  Caches'
  <2>1. /\ step = "bind" /\ UNCHANGED <<clock, turn, bound, cached, step, now, seen, held>>
    BY <1>8 DEF bindingEpochs
  <2> QED
    BY <2>1 DEF Caches, ReadBy, CachesRead
<1>9. CASE Publish \/ PublishRetained \/ Restart
  <2>1. EndCycle /\ UNCHANGED <<clock, turn, bound, cached>>
    BY <1>9 DEF Publish, PublishRetained, Restart
  <2>2. step' = "idle" /\ \A a \in Local : held'[a] = Empty
    BY <2>1, Ended DEF NoCaches
  <2>3. \A a \in Local : ReadBy(a, cached[a])' /\ ReadBy(a, held[a])'
    BY <1>1, <2>1, <2>2 DEF Caches, ReadBy
  <2> QED
    BY <2>2, <2>3 DEF Caches, CachesRead
<1>10. CASE UNCHANGED vars
  BY <1>10 DEF vars, Caches, ReadBy, CachesRead
<1> QED
  BY <1>2, <1>3, <1>4, <1>5, <1>6, <1>7, <1>8, <1>9, <1>10 DEF Next

-----------------------------------------------------------------------------
\* What persistLocalObservations does to one account.
LEMMA Persisted ==
  ASSUME TypeOK, persistLocalObservations, NEW a \in Local
  PROVE  \/ base'[a] = base[a] /\ \A o \in obs' : o.account = a => o \in obs
         \/ /\ Eligible(a)
            /\ base'[a].epoch = epochs[a] /\ base'[a].at = held[a].at
            /\ FirstUnder(a) \/ Newer(a)
            /\ \A o \in obs' : o.account = a => o \in obs \/ (o = LocalRow(a) /\ Newer(a))
<1>1. PICK done \in SUBSET {b \in Local : Eligible(b)} :
        /\ obs' = obs \cup {LocalRow(b) : b \in {c \in done : Newer(c)}}
        /\ base' = [b \in Local |-> IF b \in done /\ (FirstUnder(b) \/ Newer(b))
                                    THEN [epoch |-> epochs[b], at |-> held[b].at] ELSE base[b]]
  BY DEF persistLocalObservations
<1>2. \A o \in obs' : o \in obs \/ \E b \in done : Newer(b) /\ o = LocalRow(b) /\ o.account = b
  BY <1>1 DEF LocalRow
<1>3. CASE a \in done /\ (FirstUnder(a) \/ Newer(a))
  <2>1. base'[a] = [epoch |-> epochs[a], at |-> held[a].at]
    BY <1>1, <1>3
  <2> QED
    BY <1>2, <1>3, <2>1
<1>4. CASE ~(a \in done /\ (FirstUnder(a) \/ Newer(a)))
  BY <1>1, <1>2, <1>4
<1> QED
  BY <1>3, <1>4

\* An account with an epoch in this cycle has that epoch open, for the credential it was seen with.
LEMMA EpochIsOpen ==
  ASSUME TypeOK, Numbers, Cycles, OneOpenEpoch, NEW a \in Accounts, epochs[a] # NoEpoch,
         NEW r \in epochRows, r.epoch = epochs[a]
  PROVE  r.account = a /\ r.to = Open /\ r.key = Key(seen[a].by)
<1>1. /\ seen[a].by \in Credentials
      /\ identities[a] = [key |-> Key(seen[a].by), epoch |-> epochs[a]]
  BY DEF Cycles, TypeOK
<1>2. identities[a].key = Key(seen[a].by) /\ identities[a].epoch = epochs[a]
  BY <1>1
<1>3. Key(seen[a].by) # None
  BY <1>1, KeyFacts
<1> QED
  BY <1>2, <1>3 DEF OneOpenEpoch, Numbers

\* What the cache holds beyond the baseline of an open epoch was read while it was open.
LEMMA BaselinesStep ==
  ASSUME TypeOK, TypeOK', Numbers, Past, Cycles, Turns, Turns', Caches, OneOpenEpoch, OneOpenEpoch',
         Baselines, [Next]_vars
  PROVE  Baselines'
<1> USE DEF world, tables, memory, cycle, Goto
<1>0. /\ clock \in Nat /\ now \in Nat /\ seq \in Nat
      /\ \A a \in Local : /\ a \in Accounts /\ base[a].at \in Nat \cup {-1}
                          /\ cached[a].at \in Nat \cup {-1} /\ held[a].at \in Nat \cup {-1}
                          /\ turn[a] \in Nat /\ seen[a].turn \in Nat
                          /\ cached[a].turn \in Nat /\ held[a].turn \in Nat
  <2>1. \A a \in Local : base[a].at \in Nat \cup {-1}
    BY DEF TypeOK, Unread, Never
  <2> QED
    BY <2>1 DEF TypeOK, Accounts, Cached, Times, Never
<1>1. CASE UNCHANGED <<base, cached, held, noticed>> /\ epochRows' \subseteq epochRows
  BY <1>1 DEF Baselines
<1>2. ASSUME NEW a \in Local, Refresh(a)
      PROVE  Baselines'
  <2>1. /\ cached' = [cached EXCEPT ![a] = [at |-> clock, by |-> bound[a], turn |-> turn[a]]]
        /\ bound[a] # None
        /\ UNCHANGED <<base, held, noticed, epochRows>>
    BY <1>2 DEF Refresh
  <2>2. cached'[a].at = clock /\ cached'[a].by = bound[a] /\ cached'[a].turn = turn[a]
    BY <2>1 DEF TypeOK
  <2>3. \A b \in Local \ {a} : cached'[b] = cached[b]
    BY <2>1 DEF TypeOK
  <2>4. \A r \in epochRows : r.account = a /\ r.to = Open =>
          /\ r.from <= cached'[a].at
          /\ cached'[a].turn \in noticed[a] => r.key = Key(cached'[a].by)
    BY <1>0, <2>1, <2>2 DEF Turns, Past
  <2> QED
    BY <2>1, <2>3, <2>4 DEF Baselines
<1>3. CASE ReadCaches
  BY <1>3 DEF ReadCaches, Baselines
<1>4. ASSUME NEW a \in Accounts, bindingEpochs(a)
      PROVE  Baselines'
  <2>1. /\ step = "bind" /\ UNCHANGED <<base, cached, held, step, seen>>
        /\ noticed' = [noticed EXCEPT ![a] = @ \cup {seen[a].turn}]
        /\ seen[a].by \in Credentials /\ seen[a].by # None
    BY <1>4, BindingCases, Parts DEF bindingEpochs
  <2>2. ASSUME NEW b \in Local, NEW r \in epochRows', r.account = b, r.to = Open, r.epoch = base[b].epoch
        PROVE  r \in epochRows
    <3>1. CASE UNCHANGED epochRows
      BY <3>1
    <3>2. CASE OpenEpoch(a)
      <4>1. Opened(a).epoch = seq + 1 /\ Opened(a).account = a
        BY DEF Opened
      <4>2. r # Opened(a)
        BY <1>0, <2>2, <4>1 DEF Numbers
      <4>3. now # Open
        BY <1>0 DEF Open
      <4> QED
        BY <2>1, <2>2, <3>2, <4>2, <4>3, OpenedRows
    <3> QED
      BY <1>4, <3>1, <3>2, BindingCases
  <2>3. identities'[a].key = Key(seen[a].by) /\ Key(seen[a].by) # None
    <3>1. PICK e \in Nat : Bind(a, e)
      BY <1>4, BindSome
    <3>2. identities'[a].key = Key(seen[a].by)
      BY <2>1, <3>1, BindType
    <3> QED
      BY <2>1, <3>2, KeyFacts
  <2>4. \A r \in epochRows' : r.account = a /\ r.to = Open => r.key = Key(seen[a].by)
    BY <2>3 DEF OneOpenEpoch
  <2>5. ASSUME NEW b \in Local, NEW r \in epochRows', r.account = b, r.to = Open, r.epoch = base[b].epoch,
               NEW x \in {cached[b], held[b]}, x.at > base[b].at
        PROVE  r.from <= x.at /\ (x.turn \in noticed'[b] => r.key = Key(x.by))
    <3>1. r.from <= x.at /\ (x.turn \in noticed[b] => r.key = Key(x.by))
      BY <2>2, <2>5 DEF Baselines
    <3>2. ASSUME x.turn \in noticed'[b], x.turn \notin noticed[b]
          PROVE  r.key = Key(x.by)
      <4>1. b = a /\ x.turn = seen[a].turn
        BY <1>0, <2>1, <3>2 DEF TypeOK
      <4>2. x.at # Never
        BY <1>0, <2>5 DEF Never
      <4>3. ReadBy(b, x)
        BY <2>5 DEF Caches
      <4>4. x.by = seen[a].by
        BY <2>1, <4>1, <4>2, <4>3 DEF ReadBy
      <4> QED
        BY <2>4, <2>5, <4>1, <4>4
    <3> QED
      BY <3>1, <3>2
  <2> QED
    BY <2>1, <2>5 DEF Baselines
<1>5. CASE persistLocalObservations
  <2>1. step = "local" /\ UNCHANGED <<cached, held, noticed, epochRows, seen>>
    BY <1>5 DEF persistLocalObservations
  <2>2. ASSUME NEW a \in Local, NEW r \in epochRows, r.account = a, r.to = Open, r.epoch = base'[a].epoch,
               NEW x \in {cached[a], held[a]}, x.at > base'[a].at
        PROVE  r.from <= x.at /\ (x.turn \in noticed[a] => r.key = Key(x.by))
    <3>1. CASE base'[a] = base[a]
      BY <2>2, <3>1 DEF Baselines
    <3>2. CASE Eligible(a) /\ base'[a].epoch = epochs[a] /\ base'[a].at = held[a].at
      <4>1. epochs[a] # NoEpoch /\ r.key = Key(seen[a].by)
        BY <1>0, <2>2, <3>2, EpochIsOpen DEF Eligible
      <4>2. x = cached[a] /\ held[a].at < cached[a].at
        BY <1>0, <2>2, <3>2
      <4>3. cached[a].turn >= seen[a].turn /\ cached[a].at >= now
        BY <2>1, <4>2 DEF Caches, CachesRead
      <4>4. r.from <= now /\ r.from \in Nat
        BY <2>1 DEF Past, TypeOK, Rows
      <4>5. x.turn \in noticed[a] => x.turn = seen[a].turn
        BY <1>0, <2>1, <4>2, <4>3 DEF Turns
      <4>6. x.turn = seen[a].turn => x.by = seen[a].by
        BY <1>0, <2>1, <4>2, <4>3 DEF Caches, ReadBy, Never
      <4> QED
        BY <1>0, <4>1, <4>2, <4>3, <4>4, <4>5, <4>6
    <3> QED
      BY <1>5, <3>1, <3>2, Persisted
  <2> QED
    BY <2>1, <2>2 DEF Baselines
<1>6. CASE Publish \/ PublishRetained
  <2>1. /\ UNCHANGED <<base, cached, noticed, epochRows>>
        /\ \A a \in Local : held'[a].at = Never
    BY <1>6, Ended DEF Publish, PublishRetained, NoCaches, Empty
  <2>2. \A a \in Local : ~(Never > base[a].at)
    BY <1>0 DEF Never
  <2> QED
    BY <2>1, <2>2 DEF Baselines
<1>7. CASE Restart
  <2>1. epochRows' = epochRows /\ \A a \in Local : base'[a].epoch = 0
    BY <1>7 DEF Restart, NoBaselines, Unread, NoEpoch
  <2>2. \A r \in epochRows : r.epoch # 0
    BY DEF Numbers
  <2> QED
    BY <2>1, <2>2 DEF Baselines
<1> QED
  <2>1. ASSUME NEW a \in Accounts, NEW c \in Credentials \cup {None}, Replace(a, c)
        PROVE  UNCHANGED <<base, cached, held, noticed, epochRows>>
    BY <2>1 DEF Replace
  <2>2. CASE Tick \/ ReadCredentials \/ Collect \/ BindFails \/ BindDone \/ PersistDirect
    BY <1>1, <2>2 DEF Tick, ReadCredentials, Collect, BindFails, BindDone, PersistDirect
  <2>3. CASE Maintain \/ UNCHANGED vars
    BY <1>1, <2>3 DEF Maintain, vars
  <2> QED
    BY <1>1, <1>2, <1>3, <1>4, <1>5, <1>6, <1>7, <2>1, <2>2, <2>3 DEF Next

-----------------------------------------------------------------------------
\* A reading is booked only if it is newer than all that were.
LEMMA BookedStep ==
  ASSUME TypeOK, TypeOK', Numbers, Past, Caches, BookedBehind, BookedOnce, [Next]_vars
  PROVE  BookedBehind' /\ BookedOnce'
<1> USE DEF world, tables, memory, cycle, Goto
<1>0. /\ clock \in Nat
      /\ \A a \in Local : /\ a \in Accounts /\ base[a].at \in Nat \cup {-1}
                          /\ cached[a].at \in Nat \cup {-1} /\ held[a].at \in Nat \cup {-1}
      /\ \A o \in obs : o.at \in Nat \cup {-1}
  <2>1. \A a \in Local : base[a].at \in Nat \cup {-1}
    BY DEF TypeOK, Unread, Never
  <2> QED
    BY <2>1 DEF TypeOK, Accounts, Cached, Observations, Times, Never
<1>1. CASE UNCHANGED <<twice, base, cached, held>> /\ obs' \subseteq obs /\ (CachesRead' => CachesRead)
  BY <1>1 DEF BookedBehind, BookedOnce
<1>2. ASSUME NEW a \in Local, Refresh(a)
      PROVE  BookedBehind' /\ BookedOnce'
  <2>1. /\ UNCHANGED <<twice, base, held, obs, step>>
        /\ \A b \in Local : cached'[b].at = cached[b].at \/ (cached'[b].at = clock /\ clock > cached[b].at)
    BY <1>2 DEF Refresh, TypeOK
  <2> QED
    BY <1>0, <2>1 DEF BookedBehind, BookedOnce, CachesRead
<1>3. CASE ReadCaches
  BY <1>3 DEF ReadCaches, BookedBehind, BookedOnce
<1>4. CASE PersistDirect
  <2>1. /\ UNCHANGED <<twice, base, cached, held>> /\ CachesRead
        /\ \A o \in obs' : o \in obs \/ \E f \in fresh : o = Booked(f)
    BY <1>4 DEF PersistDirect, CachesRead
  <2>2. \A f \in fresh : Booked(f).window # CacheWindow
    BY Parts DEF Booked, TypeOK, Readings
  <2> QED
    BY <2>1, <2>2 DEF BookedBehind, BookedOnce
<1>5. CASE persistLocalObservations
  <2>1. /\ step = "local" /\ step' = "publish" /\ CachesRead
        /\ UNCHANGED <<cached, held>>
        /\ \A o \in obs' : o \in obs \/ \E a \in Local : o = LocalRow(a)
    BY <1>5 DEF persistLocalObservations, CachesRead
  <2>2. \A a \in Local : LocalRow(a).account = a /\ LocalRow(a).at = held[a].at
    BY DEF LocalRow
  <2>3. ASSUME NEW o \in obs', o.window = CacheWindow
        PROVE  /\ o.account \in Local
               /\ o.at <= held[o.account].at /\ held[o.account].at <= cached[o.account].at
               /\ base'[o.account].epoch # NoEpoch => o.at <= base'[o.account].at
    <3>1. o.account \in Local
      BY <2>1, <2>2, <2>3 DEF BookedBehind
    <3>2. o.at <= held[o.account].at /\ held[o.account].at <= cached[o.account].at
      BY <1>0, <2>1, <2>2, <2>3, <3>1 DEF BookedBehind, Caches
    <3>3. CASE base'[o.account] = base[o.account] /\ o \in obs
      BY <2>3, <3>1, <3>2, <3>3 DEF BookedBehind
    <3>4. CASE base'[o.account].at = held[o.account].at
      BY <3>1, <3>2, <3>4
    <3> QED
      BY <1>5, <3>1, <3>2, <3>3, <3>4, Persisted
  <2>4. BookedBehind'
    <3>1. \A o \in obs' : o.at \in Nat \cup {-1}
      BY DEF TypeOK, Observations, Times, Never
    <3>2. \A o \in obs' : o.window = CacheWindow => o.at <= cached[o.account].at
      BY <1>0, <2>3, <3>1
    <3> QED
      BY <2>1, <2>3, <3>2 DEF BookedBehind
  <2>5. \A a \in Local : Eligible(a) /\ Newer(a) => LocalRow(a) \notin obs
    <3>1. ASSUME NEW a \in Local, Eligible(a), Newer(a), LocalRow(a) \in obs
          PROVE  FALSE
      <4>1. base[a].epoch # NoEpoch /\ held[a].at > base[a].at
        BY <3>1 DEF Eligible, Newer, FirstUnder
      <4>2. LocalRow(a).window = CacheWindow
        BY DEF LocalRow
      <4>3. held[a].at <= base[a].at
        BY <2>2, <3>1, <4>1, <4>2 DEF BookedBehind
      <4> QED
        BY <1>0, <4>1, <4>3
    <3> QED
      BY <3>1
  <2>6. twice' = {}
    <3>1. PICK done \in SUBSET {a \in Local : Eligible(a)} :
            twice' = twice \cup ({LocalRow(a) : a \in {b \in done : Newer(b)}} \cap obs)
      BY <1>5 DEF persistLocalObservations
    <3> QED
      BY <2>5, <3>1 DEF BookedOnce
  <2> QED
    BY <2>4, <2>6 DEF BookedOnce
<1>6. CASE Publish \/ PublishRetained
  <2>1. UNCHANGED <<twice, base, cached, obs>> /\ ~CachesRead'
    BY <1>6, Ended DEF Publish, PublishRetained, CachesRead
  <2> QED
    BY <2>1 DEF BookedBehind, BookedOnce
<1>7. CASE Restart
  <2>1. UNCHANGED <<twice, cached, obs>> /\ ~CachesRead' /\ \A a \in Local : base'[a].epoch = NoEpoch
    BY <1>7, Ended DEF Restart, NoBaselines, Unread, CachesRead
  <2> QED
    BY <2>1 DEF BookedBehind, BookedOnce
<1> QED
  <2>1. ASSUME NEW a \in Accounts, NEW c \in Credentials \cup {None}, Replace(a, c)
        PROVE  UNCHANGED <<twice, base, cached, held, obs, step>>
    BY <2>1 DEF Replace
  <2>2. ASSUME NEW a \in Accounts, bindingEpochs(a)
        PROVE  UNCHANGED <<twice, base, cached, held, obs, step>>
    BY <2>2 DEF bindingEpochs
  <2>3. CASE UNCHANGED <<twice, base, cached, held, obs, step>>
    BY <1>1, <2>3 DEF CachesRead
  <2>4. CASE Tick \/ UNCHANGED vars
    BY <2>3, <2>4 DEF Tick, vars
  <2>5. CASE ReadCredentials
    BY <1>1, <2>5 DEF ReadCredentials, CachesRead
  <2>6. CASE Collect \/ BindFails \/ BindDone \/ Maintain
    BY <1>1, <2>6 DEF Collect, BindFails, BindDone, Maintain, CachesRead
  <2> QED
    BY <1>2, <1>3, <1>4, <1>5, <1>6, <1>7, <2>1, <2>2, <2>3, <2>4, <2>5, <2>6 DEF Next

-----------------------------------------------------------------------------
\* What a cycle books is within the open epoch of the account, and of its credential.
LEMMA BookedIsOwn ==
  ASSUME TypeOK, Numbers, Past, Cycles, Turns, Caches, OneOpenEpoch, Baselines,
         PersistDirect \/ persistLocalObservations,
         NEW o \in obs', o \notin obs, o.epoch # NoEpoch
  PROVE  /\ \E r \in epochRows : r.epoch = o.epoch /\ r.account = o.account /\ (~o.missed => r.key = Key(o.by))
         /\ \A r \in epochRows : r.epoch = o.epoch => r.from <= o.at /\ r.to = Open
<1> USE DEF Goto
<1>0. /\ now \in Nat /\ clock \in Nat
      /\ \A r \in epochRows : r.from \in Nat
      /\ step # "idle" /\ CachesRead
  BY DEF TypeOK, Rows, PersistDirect, persistLocalObservations, CachesRead
<1>1. \A r \in epochRows : r.from <= now
  BY <1>0 DEF Past
<1>2. ASSUME NEW a \in Accounts, epochs[a] # NoEpoch
      PROVE  \E r \in epochRows : r.epoch = epochs[a] /\ r.account = a /\ r.to = Open /\ r.key = Key(seen[a].by)
  <2>1. /\ seen[a].by \in Credentials
        /\ identities[a] = [key |-> Key(seen[a].by), epoch |-> epochs[a]]
    BY <1>2 DEF Cycles, TypeOK
  <2>2. identities[a].key = Key(seen[a].by) /\ identities[a].epoch = epochs[a]
    BY <2>1
  <2>3. Key(seen[a].by) # None
    BY <2>1, KeyFacts
  <2> QED
    BY <2>2, <2>3 DEF OneOpenEpoch
<1>3. CASE PersistDirect
  <2>1. PICK f \in fresh : o = Booked(f)
    BY <1>3 DEF PersistDirect
  <2>2. /\ o.account = f.account /\ o.epoch = epochs[f.account] /\ o.by = f.by /\ o.at = f.at
        /\ f.account \in Accounts /\ f.at \in Nat
    BY <2>1 DEF Booked, TypeOK, Readings, Accounts
  <2>3. f.by = seen[f.account].by /\ now <= f.at
    BY DEF Cycles
  <2>4. PICK r \in epochRows : /\ r.epoch = o.epoch /\ r.account = f.account /\ r.to = Open
                               /\ r.key = Key(f.by)
    BY <1>2, <2>2, <2>3
  <2>5. \A s \in epochRows : s.epoch = o.epoch => s = r
    BY <2>4 DEF Numbers
  <2>6. r.from <= o.at
    BY <1>0, <1>1, <2>2, <2>3
  <2> QED
    BY <2>2, <2>4, <2>5, <2>6
<1>4. CASE persistLocalObservations
  <2>1. PICK a \in Local : o = LocalRow(a) /\ Eligible(a) /\ Newer(a)
    BY <1>4 DEF persistLocalObservations
  <2>2. /\ o.account = a /\ o.epoch = epochs[a] /\ o.by = held[a].by /\ o.at = held[a].at
        /\ o.missed = Missed(a, held[a].turn)
        /\ a \in Accounts /\ held[a].turn \in Nat /\ seen[a].turn \in Nat
    BY <2>1 DEF LocalRow, TypeOK, Accounts, Cached
  <2>3. PICK r \in epochRows : /\ r.epoch = o.epoch /\ r.account = a /\ r.to = Open
                               /\ r.key = Key(seen[a].by)
    BY <1>2, <2>1, <2>2 DEF Eligible
  <2>4. \A s \in epochRows : s.epoch = o.epoch => s = r
    BY <2>3 DEF Numbers
  <2>5. r.from <= held[a].at /\ (held[a].turn \in noticed[a] => r.key = Key(held[a].by))
    BY <2>1, <2>2, <2>3 DEF Baselines, Newer, FirstUnder
  <2>6. held[a].turn <= seen[a].turn
    <3>1. held[a].at \in Nat /\ held[a].at <= now
      BY <2>1, LocalRows DEF Eligible
    <3> QED
      BY <1>0, <2>1, <2>2, <3>1 DEF Caches, ReadBy, Eligible
  <2>7. held[a].turn = seen[a].turn => held[a].by = seen[a].by
    BY <1>0, <2>1 DEF Caches, ReadBy, Eligible
  <2>8. ASSUME ~o.missed
        PROVE  r.key = Key(o.by)
    <3>1. ~Missed(a, held[a].turn)
      BY <2>2, <2>8, Zenon
    <3>2. held[a].turn = seen[a].turn \/ held[a].turn \in noticed[a]
      BY <2>2, <2>6, <3>1 DEF Missed
    <3> QED
      BY <2>2, <2>3, <2>5, <2>7, <3>2
  <2> QED
    BY <2>2, <2>3, <2>4, <2>5, <2>8
<1> QED
  BY <1>3, <1>4

\* What a step other than Maintain leaves of the rows: each is still there, at most ended at now.
LEMMA RowsStay ==
  ASSUME TypeOK, TypeOK', Cycles, [Next]_vars, ~Maintain
  PROVE  /\ \A s \in epochRows : \E r \in epochRows' : Same(r, s)
         /\ \A r \in epochRows' : \/ r \in epochRows
                                  \/ r.epoch = seq + 1
                                  \/ /\ step = "bind" /\ r.to = now
                                     /\ \E s \in epochRows : Same(r, s)
<1> USE DEF world, tables, memory, cycle
<1>1. CASE UNCHANGED epochRows
  BY <1>1 DEF Same
<1>2. ASSUME NEW a \in Accounts, bindingEpochs(a), OpenEpoch(a)
      PROVE  /\ \A s \in epochRows : \E r \in epochRows' : Same(r, s)
             /\ \A r \in epochRows' : \/ r \in epochRows
                                      \/ r.epoch = seq + 1
                                      \/ /\ step = "bind" /\ r.to = now
                                         /\ \E s \in epochRows : Same(r, s)
  <2>1. seen[a].by # None /\ step = "bind" /\ Opened(a).epoch = seq + 1
    BY <1>2, BindingCases, Parts DEF Opened
  <2> QED
    BY <1>2, <2>1, OpenedRows
<1>3. ASSUME NEW a \in Accounts, bindingEpochs(a), ~OpenEpoch(a)
      PROVE  UNCHANGED epochRows
  BY <1>3, BindingCases
<1> QED
  <2>1. ASSUME NEW a \in Accounts, NEW c \in Credentials \cup {None}, Replace(a, c)
        PROVE  UNCHANGED epochRows
    BY <2>1 DEF Replace
  <2>2. ASSUME NEW a \in Local, Refresh(a)
        PROVE  UNCHANGED epochRows
    BY <2>2 DEF Refresh
  <2>3. CASE Tick \/ Restart \/ ReadCredentials \/ ReadCaches \/ Collect \/ BindFails \/ BindDone
    BY <1>1, <2>3 DEF Tick, Restart, ReadCredentials, ReadCaches, Collect, BindFails, BindDone
  <2>4. CASE PersistDirect \/ persistLocalObservations \/ Publish \/ PublishRetained \/ UNCHANGED vars
    BY <1>1, <2>4 DEF PersistDirect, persistLocalObservations, Publish, PublishRetained, vars
  <2> QED
    BY <1>1, <1>2, <1>3, <2>1, <2>2, <2>3, <2>4 DEF Next

\* Only the two persisting steps add observations.
LEMMA ObservationsStay ==
  ASSUME [Next]_vars, ~PersistDirect, ~persistLocalObservations
  PROVE  obs' \subseteq obs
<1> USE DEF world, tables, memory, cycle
<1>1. ASSUME NEW a \in Accounts, NEW c \in Credentials \cup {None}, Replace(a, c)
      PROVE  obs' = obs
  BY <1>1 DEF Replace
<1>2. ASSUME NEW a \in Local, Refresh(a)
      PROVE  obs' = obs
  BY <1>2 DEF Refresh
<1>3. ASSUME NEW a \in Accounts, bindingEpochs(a)
      PROVE  obs' = obs
  BY <1>3 DEF bindingEpochs
<1>4. CASE Tick \/ Restart \/ ReadCredentials \/ ReadCaches \/ Collect \/ BindFails \/ BindDone
  BY <1>4 DEF Tick, Restart, ReadCredentials, ReadCaches, Collect, BindFails, BindDone
<1>5. CASE Maintain \/ Publish \/ PublishRetained \/ UNCHANGED vars
  BY <1>5 DEF Maintain, Publish, PublishRetained, vars
<1> QED
  BY <1>1, <1>2, <1>3, <1>4, <1>5 DEF Next

LEMMA WithinStep ==
  ASSUME TypeOK, TypeOK', Numbers, Numbers', Past, Cycles, Turns, Caches, OneOpenEpoch, Baselines,
         WithinEpoch, [Next]_vars
  PROVE  WithinEpoch'
<1>1. SUFFICES ASSUME NEW o \in obs', NEW r \in epochRows', r.epoch = o.epoch
               PROVE  r.from <= o.at /\ (r.to = Open \/ o.at <= r.to)
  BY DEF WithinEpoch
<1>2. CASE Maintain
  BY <1>1, <1>2 DEF Maintain, WithinEpoch
<1>3. CASE PersistDirect \/ persistLocalObservations
  <2>1. epochRows' = epochRows
    BY <1>3 DEF PersistDirect, persistLocalObservations
  <2>2. o.epoch # NoEpoch
    BY <1>1 DEF Numbers, NoEpoch
  <2> QED
    BY <1>1, <1>3, <2>1, <2>2, BookedIsOwn DEF WithinEpoch
<1>4. CASE ~Maintain /\ ~PersistDirect /\ ~persistLocalObservations
  <2>1. o \in obs
    BY <1>4, ObservationsStay
  <2>2. CASE r \in epochRows
    BY <1>1, <2>1, <2>2 DEF WithinEpoch
  <2>3. r.epoch # seq + 1
    BY <1>1, <2>1 DEF Numbers, TypeOK
  <2>4. ASSUME step = "bind", r.to = now, NEW s \in epochRows, Same(r, s)
        PROVE  r.from <= o.at /\ o.at <= r.to
    BY <1>1, <2>1, <2>4 DEF WithinEpoch, Same, Past
  <2> QED
    BY <1>4, <2>2, <2>3, <2>4, RowsStay
<1> QED
  BY <1>2, <1>3, <1>4

LEMMA OwnStep ==
  ASSUME TypeOK, TypeOK', Numbers, Past, Cycles, Turns, Caches, OneOpenEpoch, Baselines,
         WithinEpoch, OwnReadings, [Next]_vars
  PROVE  OwnReadings'
<1>1. SUFFICES ASSUME NEW o \in obs', o.epoch # NoEpoch
               PROVE  \E r \in epochRows' : /\ r.epoch = o.epoch /\ r.account = o.account
                                            /\ ~o.missed => r.key = Key(o.by)
  BY DEF OwnReadings
<1>2. CASE Maintain
  <2>1. /\ o \in obs /\ o.at >= now - Retention
        /\ epochRows' = {r \in epochRows : r.to = Open \/ r.to >= now - Retention}
    BY <1>2 DEF Maintain
  <2>2. PICK r \in epochRows : /\ r.epoch = o.epoch /\ r.account = o.account
                               /\ ~o.missed => r.key = Key(o.by)
    BY <1>1, <2>1 DEF OwnReadings
  <2>3. r.to = Open \/ o.at <= r.to
    BY <2>1, <2>2 DEF WithinEpoch
  <2>4. /\ r.to \in Nat \cup {-1} /\ o.at \in Nat \cup {-1}
        /\ now \in Nat /\ Retention \in Nat
    BY <2>1, Spans DEF TypeOK, Rows, Observations, Times, Never, Open
  <2>5. r \in epochRows'
    BY <2>1, <2>3, <2>4
  <2> QED
    BY <2>2, <2>5
<1>3. CASE PersistDirect \/ persistLocalObservations
  <2>1. epochRows' = epochRows
    BY <1>3 DEF PersistDirect, persistLocalObservations
  <2>2. CASE o \in obs
    BY <1>1, <2>1, <2>2 DEF OwnReadings
  <2>3. CASE o \notin obs
    BY <1>1, <1>3, <2>1, <2>3, BookedIsOwn
  <2> QED
    BY <2>2, <2>3
<1>4. CASE ~Maintain /\ ~PersistDirect /\ ~persistLocalObservations
  <2>1. o \in obs
    BY <1>4, ObservationsStay
  <2>2. PICK s \in epochRows : /\ s.epoch = o.epoch /\ s.account = o.account
                               /\ ~o.missed => s.key = Key(o.by)
    BY <1>1, <2>1 DEF OwnReadings
  <2>3. PICK r \in epochRows' : Same(r, s)
    BY <1>4, RowsStay
  <2> QED
    BY <2>2, <2>3 DEF Same
<1> QED
  BY <1>2, <1>3, <1>4

\* What is analysed under an epoch is of the credential of that epoch.
LEMMA AnalysisStep ==
  ASSUME TypeOK, TypeOK', Numbers, Numbers', Snapshots, Cycles, OwnReadings, AnalysisIsOwn, [Next]_vars
  PROVE  AnalysisIsOwn'
<1> USE DEF world, tables, memory, cycle
<1>1. ASSUME published' = published
      PROVE  AnalysisIsOwn'
  <2>1. SUFFICES ASSUME NEW a \in Accounts, NEW w \in WindowsOf(a), NEW r \in epochRows',
                        r.epoch = published[a][w].epoch
                 PROVE  published[a][w].rests \subseteq {r.key}
    BY <1>1 DEF AnalysisIsOwn
  <2>2. CASE Maintain
    BY <2>1, <2>2 DEF Maintain, AnalysisIsOwn
  <2>3. CASE ~Maintain
    <3>1. published[a][w].epoch \in 0..seq /\ seq \in Nat
      BY DEF Snapshots, TypeOK
    <3>2. r.epoch # seq + 1
      BY <2>1, <3>1
    <3>3. PICK s \in epochRows : r = s \/ Same(r, s)
      BY <2>3, <3>2, RowsStay
    <3>4. s.epoch = r.epoch /\ s.key = r.key
      BY <3>3 DEF Same
    <3> QED
      BY <2>1, <3>4 DEF AnalysisIsOwn
  <2> QED
    BY <2>2, <2>3
<1>2. CASE Publish
  <2>1. /\ epochRows' = epochRows
        /\ \A a \in Accounts : published'[a] = [w \in WindowsOf(a) |->
                     Window(a, w, IF Shown(a, w).at = Never THEN {} ELSE Owners(Points(a, w)))]
    BY <1>2 DEF Publish
  <2>2. ASSUME NEW a \in Accounts, NEW w \in WindowsOf(a), NEW r \in epochRows,
               r.epoch = published'[a][w].epoch
        PROVE  published'[a][w].rests \subseteq {r.key}
    <3>1. published'[a][w] = Window(a, w, IF Shown(a, w).at = Never THEN {} ELSE Owners(Points(a, w)))
      BY <2>1
    <3>2. /\ r.epoch = Shown(a, w).epoch
          /\ published'[a][w].rests \subseteq Owners(Points(a, w))
      BY <2>2, <3>1 DEF Window
    <3>3. ASSUME NEW o \in obs, o.epoch = r.epoch, ~o.missed
          PROVE  Key(o.by) = r.key
      <4>1. o.epoch # NoEpoch
        BY <3>3 DEF Numbers, NoEpoch
      <4> QED
        BY <3>3, <4>1 DEF OwnReadings, Numbers
    <3>4. Owners(Points(a, w)) \subseteq {r.key}
      BY <3>2, <3>3 DEF Owners, Points
    <3> QED
      BY <3>2, <3>4
  <2> QED
    BY <2>1, <2>2 DEF AnalysisIsOwn
<1>3. CASE PublishRetained
  <2>1. /\ epochRows' = epochRows
        /\ \A a \in Accounts : published'[a] = [w \in WindowsOf(a) |->
                     Window(a, w, IF SameIdentity(a) /\ Shown(a, w).at # Never
                                  THEN published[a][w].rests ELSE {})]
    BY <1>3 DEF PublishRetained
  <2>2. ASSUME NEW a \in Accounts, NEW w \in WindowsOf(a), NEW r \in epochRows,
               r.epoch = published'[a][w].epoch
        PROVE  published'[a][w].rests \subseteq {r.key}
    <3>1. published'[a][w] = Window(a, w, IF SameIdentity(a) /\ Shown(a, w).at # Never
                                         THEN published[a][w].rests ELSE {})
      BY <2>1
    <3>2. r.epoch = Shown(a, w).epoch
      BY <2>2, <3>1 DEF Window
    <3>3. CASE SameIdentity(a) /\ Shown(a, w).at # Never /\ published[a][w].at # Never
      <4>1. published[a][w].epoch = r.epoch
        BY <3>2, <3>3 DEF SameIdentity
      <4>2. published'[a][w].rests = published[a][w].rests
        BY <3>1, <3>3 DEF Window
      <4> QED
        BY <4>1, <4>2 DEF AnalysisIsOwn
    <3>4. CASE published[a][w].at = Never
      <4>1. published[a][w].rests = {}
        BY <3>4 DEF Snapshots
      <4> QED
        BY <3>1, <4>1 DEF Window
    <3>5. CASE ~(SameIdentity(a) /\ Shown(a, w).at # Never)
      BY <3>1, <3>5 DEF Window
    <3> QED
      BY <3>3, <3>4, <3>5
  <2> QED
    BY <2>1, <2>2 DEF AnalysisIsOwn
<1>4. CASE Restart
  <2>1. /\ epochRows' = epochRows
        /\ \A a \in Accounts : published'[a] = [w \in WindowsOf(a) |-> Blank]
    BY <1>4 DEF Restart, BootSnapshot
  <2>2. ASSUME NEW a \in Accounts, NEW w \in WindowsOf(a)
        PROVE  published'[a][w].rests = {}
    <3>1. published'[a][w] = Blank
      BY <2>1
    <3> QED
      BY <3>1 DEF Blank
  <2> QED
    BY <2>2 DEF AnalysisIsOwn
<1> QED
  <2>1. ASSUME NEW a \in Accounts, NEW c \in Credentials \cup {None}, Replace(a, c)
        PROVE  published' = published
    BY <2>1 DEF Replace
  <2>2. ASSUME NEW a \in Local, Refresh(a)
        PROVE  published' = published
    BY <2>2 DEF Refresh
  <2>3. ASSUME NEW a \in Accounts, bindingEpochs(a)
        PROVE  published' = published
    BY <2>3 DEF bindingEpochs
  <2>4. CASE Tick \/ ReadCredentials \/ ReadCaches \/ Collect \/ BindFails \/ BindDone
    BY <1>1, <2>4 DEF Tick, ReadCredentials, ReadCaches, Collect, BindFails, BindDone
  <2>5. CASE PersistDirect \/ persistLocalObservations \/ Maintain \/ UNCHANGED vars
    BY <1>1, <2>5 DEF PersistDirect, persistLocalObservations, Maintain, vars
  <2> QED
    BY <1>1, <1>2, <1>3, <1>4, <2>1, <2>2, <2>3, <2>4, <2>5 DEF Next

-----------------------------------------------------------------------------
LEMMA InitIInv == Init => IInv
<1> SUFFICES ASSUME Init PROVE IInv
  OBVIOUS
<1> USE DEF Init
<1>1. TypeOK
  <2>1. /\ cached \in [Local -> Cached] /\ held \in [Local -> Cached]
        /\ base \in [Local -> {Unread} \cup [epoch : Nat \ {NoEpoch}, at : Nat]]
        /\ identities \in [Accounts -> [key : Keys \cup {None}, epoch : Nat]]
        /\ seen \in [Accounts -> [by : Credentials \cup {None}, turn : Nat]]
        /\ epochs \in [Accounts -> Nat] /\ tag \in [Local -> Nat]
    BY DEF NoCaches, Empty, Cached, Times, NoBaselines, NoIdentities, Nobody, NoBindings, NoEpochs, NoTags, NoEpoch
  <2> QED
    BY <2>1 DEF TypeOK, BootSnapshot
<1>2. Snapshots
  <2>1. \A a \in Accounts : published[a] = [w \in WindowsOf(a) |-> Blank]
    BY DEF BootSnapshot
  <2>2. \A a \in Accounts : DOMAIN published[a] = WindowsOf(a)
    BY <2>1
  <2>3. \A a \in Accounts : \A w \in WindowsOf(a) : published[a][w] = Blank
    BY <2>1
  <2> QED
    BY <2>2, <2>3 DEF Snapshots, Blank, NoEpoch
<1>3. Numbers
  BY DEF Numbers, NoBaselines, NoIdentities, Unread, Nobody, NoEpochs, NoTags, NoEpoch
<1>4. Past
  BY DEF Past, NoCaches, Empty, Never
<1>5. Cycles
  BY DEF Cycles, NoEpochs
<1>6. Turns
  BY DEF Turns
<1>7. Caches
  BY DEF Caches, ReadBy, NoCaches, Empty, CachesRead, Accounts
<1>8. AnalysisIsOwn
  BY DEF AnalysisIsOwn
<1>9. OneOpenEpoch
  BY DEF OneOpenEpoch, NoIdentities, Nobody
<1>10. Baselines /\ BookedBehind /\ BookedOnce /\ WithinEpoch /\ OwnReadings
  BY DEF Baselines, BookedBehind, BookedOnce, WithinEpoch, OwnReadings
<1> QED
  BY <1>1, <1>2, <1>3, <1>4, <1>5, <1>6, <1>7, <1>8, <1>9, <1>10 DEF IInv

LEMMA NextIInv == IInv /\ [Next]_vars => IInv'
<1> SUFFICES ASSUME IInv, [Next]_vars PROVE IInv'
  OBVIOUS
<1>0. /\ TypeOK /\ Snapshots /\ Numbers /\ Past /\ Cycles /\ Turns /\ Caches /\ Baselines
      /\ BookedBehind /\ BookedOnce /\ OneOpenEpoch /\ WithinEpoch /\ OwnReadings /\ AnalysisIsOwn
  BY DEF IInv
<1>1. TypeOK'
  BY <1>0, TypeStep
<1>2. Numbers' /\ Snapshots'
  BY <1>0, <1>1, NumbersStep
<1>3. Past'
  BY <1>0, <1>1, TimesStep
<1>4. Cycles'
  BY <1>0, CyclesStep
<1>5. OneOpenEpoch'
  BY <1>0, <1>1, <1>2, OpenStep
<1>6. Turns'
  BY <1>0, <1>5, TurnsStep
<1>7. Caches'
  BY <1>0, CachesStep
<1>8. Baselines'
  BY <1>0, <1>1, <1>5, <1>6, BaselinesStep
<1>9. BookedBehind' /\ BookedOnce'
  BY <1>0, <1>1, BookedStep
<1>10. WithinEpoch'
  BY <1>0, <1>1, <1>2, WithinStep
<1>11. OwnReadings'
  BY <1>0, <1>1, OwnStep
<1>12. AnalysisIsOwn'
  BY <1>0, <1>1, <1>2, AnalysisStep
<1> QED
  BY <1>1, <1>2, <1>3, <1>4, <1>5, <1>6, <1>7, <1>8, <1>9, <1>10, <1>11, <1>12 DEF IInv

\* The inductive invariant holds in every reachable state (store/identity.go, runtime.go).
THEOREM InvariantHolds == Spec => []IInv
BY InitIInv, NextIInv, PTL DEF Spec

\* Every table, cache and variable of the cycle keeps its type (runtime.go, store/identity.go).
THEOREM TypeCorrect == Spec => []TypeOK
<1>1. IInv => TypeOK
  BY DEF IInv
<1> QED
  BY <1>1, InvariantHolds, PTL

\* An account has one open epoch at most, and it is the one the process holds
\* (store/identity.go EpochForIdentity, runtime/identity.go bindingEpochs).
THEOREM OneOpenEpochAlways == Spec => []OneOpenEpoch
<1>1. IInv => OneOpenEpoch
  BY DEF IInv
<1> QED
  BY <1>1, InvariantHolds, PTL

\* A reading that is booked on an epoch was read with the credential that the epoch stands for
\* (runtime.go persistDirect, local_observations.go persistLocalObservations).
THEOREM OwnReadingsAlways == Spec => []OwnReadings
<1>1. IInv => OwnReadings
  BY DEF IInv
<1> QED
  BY <1>1, InvariantHolds, PTL

\* It was read while the epoch was open (store/identity.go closes the last one at the start of
\* the cycle that opens the next).
THEOREM WithinEpochAlways == Spec => []WithinEpoch
<1>1. IInv => WithinEpoch
  BY DEF IInv
<1> QED
  BY <1>1, InvariantHolds, PTL

\* A reading of OpenCodex's cache is booked once (local_observations.go, the comparison with
\* the last one).
THEOREM BookedOnceAlways == Spec => []BookedOnce
<1>1. IInv => BookedOnce
  BY DEF IInv
<1> QED
  BY <1>1, InvariantHolds, PTL

\* The analysis that is shown under an epoch rests on readings of that epoch
\* (analytics.go windowPoints, analytics_failure.go retainAnalysis).
THEOREM AnalysisIsOwnAlways == Spec => []AnalysisIsOwn
<1>1. IInv => AnalysisIsOwn
  BY DEF IInv
<1> QED
  BY <1>1, InvariantHolds, PTL

\* The number of an epoch is never given again (store/identity.go, identityEpochSequence).
THEOREM NumbersAreFreshAlways == Spec => NumbersAreFresh
<1> DEFINE Fresh == \A r \in epochRows' \ epochRows : r.to = Open =>
        /\ \A s \in epochRows : s.epoch # r.epoch
        /\ \A o \in obs : o.epoch # r.epoch
        /\ \A a \in Local : base[a].epoch # r.epoch
        /\ \A a \in Accounts : /\ identities[a].epoch # r.epoch
                              /\ \A w \in WindowsOf(a) : published[a][w].epoch # r.epoch
<1>1. ASSUME IInv, IInv', [Next]_vars
      PROVE  [Fresh]_vars
  <2>1. /\ TypeOK /\ TypeOK' /\ Numbers /\ Snapshots /\ Cycles
    BY <1>1 DEF IInv
  <2>2. ASSUME NEW r \in epochRows', r \notin epochRows, r.to = Open
        PROVE  r.epoch = seq + 1
    <3>1. CASE Maintain
      BY <2>2, <3>1 DEF Maintain
    <3>2. CASE ~Maintain
      <4>1. now # Open
        BY <2>1 DEF TypeOK, Open
      <4> QED
        BY <1>1, <2>1, <2>2, <3>2, <4>1, RowsStay
    <3> QED
      BY <3>1, <3>2
  <2>3. seq \in Nat
    BY <2>1 DEF TypeOK
  <2> QED
    BY <2>1, <2>2, <2>3 DEF Numbers, Snapshots
<1> QED
  BY <1>1, InvariantHolds, PTL DEF Spec, NumbersAreFresh
=============================================================================

-------------------------- MODULE UsageCacheProofs --------------------------
(***************************************************************************)
(* The copies of UsageCache are coherent and every read is current, for    *)
(* any ids, contents, references and limit.                                *)
(***************************************************************************)
EXTENDS UsageCache, TLAPS

Typed ==
  /\ usage \subseteq Row
  /\ reference \in Reference
  /\ observations \subseteq Observation
  /\ usageCache \in UsageCopy
  /\ obsCache \in ObsCopy

IInv == Typed /\ CacheCoherent

\* What markUsageDirty leaves of a copy: the same one, with more marks.
LEMMA MarkedTyped ==
  ASSUME Typed, NEW touched \in SUBSET Id
  PROVE  Marked(touched) \in UsageCopy
BY DEF Marked, Typed, UsageCopy

LEMMA MarkedCopy ==
  ASSUME Typed, NEW touched \in SUBSET Id, Marked(touched).valid
  PROVE  /\ usageCache.valid
         /\ Marked(touched).rows = usageCache.rows
         /\ Marked(touched).max = usageCache.max
         /\ Marked(touched).dirty = usageCache.dirty \cup touched
<1>1. CASE touched = {} \/ ~usageCache.valid
  BY <1>1 DEF Marked
<1>2. CASE ~(touched = {} \/ ~usageCache.valid)
  BY <1>2 DEF Marked, Typed, UsageCopy
<1> QED
  BY <1>1, <1>2

\* Every write to usage but retention: rows stay, with their rowid; contents
\* change only where touched; what is new lies above all the rest.
LEMMA WriteKeepsCoherence ==
  ASSUME IInv, Typed', NEW touched \in SUBSET Id,
         usageCache' = Marked(touched),
         UNCHANGED <<reference, observations, obsCache>>,
         UniqueIds(usage'),
         \A row \in usage : \E r \in usage' : r.id = row.id /\ r.rid = row.rid,
         \A r \in usage' :
            \/ r \in usage
            \/ r.id \in touched /\ \E row \in usage : row.id = r.id /\ row.rid = r.rid
            \/ \A row \in usage : row.rid < r.rid
  PROVE  CacheCoherent'
<1>1. ObservationsCoherent'
  BY DEF IInv, CacheCoherent, ObservationsCoherent, Taken
<1>2. ASSUME usageCache'.valid PROVE UsageCoherent'
  <2>1. /\ usageCache.valid /\ usageCache'.rows = usageCache.rows
        /\ usageCache'.max = usageCache.max
        /\ usageCache'.dirty = usageCache.dirty \cup touched
    BY <1>2, MarkedCopy DEF IInv
  <2>2. UsageCoherent
    BY DEF IInv, CacheCoherent
  <2>3. \A copied \in usageCache'.rows :
          \E row \in usage' : row.id = copied.id /\ row.rid <= usageCache'.max
    BY <2>1, <2>2 DEF UsageCoherent
  <2>4. ASSUME NEW r \in usage', r.rid <= usageCache'.max
        PROVE  /\ r.id \in Ids(usageCache'.rows)
               /\ r.id \in usageCache'.dirty \/ Shown(r)' \in usageCache'.rows
    <3>1. Shown(r)' = Shown(r)
      BY DEF Shown
    <3>2. CASE r \in usage
      BY <2>1, <2>2, <2>4, <3>1, <3>2 DEF UsageCoherent
    <3>3. CASE r.id \in touched /\ \E row \in usage : row.id = r.id /\ row.rid = r.rid
      BY <2>1, <2>2, <2>4, <3>3 DEF UsageCoherent
    <3>4. CASE \A row \in usage : row.rid < r.rid
      <4>1. r.rid \in Int /\ r.rid >= 1 /\ usageCache.max \in Int
        BY DEF IInv, Typed, Row, UsageCopy
      <4>2. r.rid > usageCache.max
        BY <2>1, <2>2, <3>4, <4>1 DEF UsageCoherent, Taken
      <4> QED
        BY <2>1, <2>4, <4>1, <4>2
    <3> QED
      BY <3>2, <3>3, <3>4
  <2>5. UniqueIds(usageCache'.rows)
    BY <2>1, <2>2 DEF UsageCoherent
  <2>6. Taken(usageCache'.max, usage')
    BY <2>1, <2>2 DEF UsageCoherent, Taken
  <2> QED
    BY <2>3, <2>4, <2>5, <2>6 DEF UsageCoherent, Ids
<1> QED
  BY <1>1, <1>2 DEF CacheCoherent, UsageCoherent

LEMMA StartsCoherent == Init => IInv
BY CacheAssumption DEF Init, IInv, Typed, UsageCopy, ObsCopy, CacheCoherent, UniqueIds,
   UsageCoherent, ObservationsCoherent

\* What Touch does to one row.
LEMMA TouchedRows ==
  ASSUME Typed, NEW touched \in SUBSET Id, NEW change \in [touched -> Content]
  PROVE  /\ Touch(touched, change) \subseteq Row
         /\ \A row \in usage : \E r \in Touch(touched, change) :
               r.id = row.id /\ r.rid = row.rid
         /\ \A r \in Touch(touched, change) : \E row \in usage :
               r.id = row.id /\ r.rid = row.rid /\ (r = row \/ r.id \in touched)
         /\ UniqueIds(usage) => UniqueIds(Touch(touched, change))
<1> DEFINE T(row) == [row EXCEPT !.content = IF row.id \in touched THEN change[row.id] ELSE @]
<1>1. Touch(touched, change) = {T(row) : row \in usage}
  BY DEF Touch
<1>2. ASSUME NEW row \in usage
      PROVE  /\ T(row) \in Row /\ T(row).id = row.id /\ T(row).rid = row.rid
             /\ T(row) = row \/ row.id \in touched
  <2>1. row \in Row
    BY DEF Typed
  <2> QED
    BY <2>1 DEF Row
<1> HIDE DEF T
<1> QED
  BY <1>1, <1>2 DEF UniqueIds

LEMMA IngestCoherent == ASSUME IInv, IngestJSONL PROVE IInv'
<1> DEFINE Ingested(touched, change) ==
      /\ \/ usage' = Touch(touched, change)
         \/ \E id \in Id \ Ids(usage), rid \in 1 .. MaxRow, content \in Content :
              /\ IsNextRid(rid, usage)
              /\ usage' = Touch(touched, change)
                            \cup {[id |-> id, rid |-> rid, content |-> content]}
      /\ usageCache' = Marked(touched)
<1>0. PICK touched \in SUBSET Ids(usage) :
        \E change \in [touched -> Content] : Ingested(touched, change)
  BY DEF IngestJSONL
<1>1. PICK change \in [touched -> Content] : Ingested(touched, change)
  BY <1>0
<1>2. touched \in SUBSET Id
  BY DEF Ids, IInv, Typed, Row
<1>7. usageCache' = Marked(touched)
  BY <1>1
<1>3. usageCache' \in UsageCopy
  BY <1>2, <1>7, MarkedTyped DEF IInv
<1>4. UniqueIds(usage)
  BY DEF IInv, CacheCoherent
<1>5. CASE usage' = Touch(touched, change)
  <2>1. Typed'
    BY <1>2, <1>3, <1>5, TouchedRows DEF IngestJSONL, IInv, Typed
  <2>2. UniqueIds(usage')
    BY <1>2, <1>4, <1>5, TouchedRows DEF IInv
  <2>3. \A row \in usage : \E r \in usage' : r.id = row.id /\ r.rid = row.rid
    BY <1>2, <1>5, TouchedRows DEF IInv
  <2>4. \A r \in usage' :
          \/ r \in usage
          \/ r.id \in touched /\ \E row \in usage : row.id = r.id /\ row.rid = r.rid
    BY <1>2, <1>5, TouchedRows DEF IInv
  <2> QED
    BY <1>2, <1>7, <2>1, <2>2, <2>3, <2>4, WriteKeepsCoherence DEF IngestJSONL, IInv
<1>6. ASSUME NEW id \in Id \ Ids(usage), NEW rid \in 1 .. MaxRow, NEW content \in Content,
             IsNextRid(rid, usage),
             usage' = Touch(touched, change) \cup {[id |-> id, rid |-> rid, content |-> content]}
      PROVE  IInv'
  <2> DEFINE new == [id |-> id, rid |-> rid, content |-> content]
  <2>1. new \in Row /\ new.id = id /\ \A row \in usage : row.rid < new.rid /\ row.id # new.id
    BY <1>6 DEF Row, Ids, IsNextRid
  <2>2. usage' = Touch(touched, change) \cup {new}
    BY <1>6
  <2> HIDE DEF new
  <2>3. Typed'
    BY <1>2, <1>3, <2>1, <2>2, TouchedRows DEF IngestJSONL, IInv, Typed
  <2>4. UniqueIds(usage')
    BY <1>2, <1>4, <2>1, <2>2, TouchedRows DEF UniqueIds, IInv
  <2>5. \A row \in usage : \E r \in usage' : r.id = row.id /\ r.rid = row.rid
    BY <1>2, <2>2, TouchedRows DEF IInv
  <2>6. \A r \in usage' :
          \/ r \in usage
          \/ r.id \in touched /\ \E row \in usage : row.id = r.id /\ row.rid = r.rid
          \/ \A row \in usage : row.rid < r.rid
    BY <1>2, <2>1, <2>2, TouchedRows DEF IInv
  <2> QED
    BY <1>2, <1>7, <2>3, <2>4, <2>5, <2>6, WriteKeepsCoherence DEF IngestJSONL, IInv
<1> QED
  BY <1>1, <1>5, <1>6

LEMMA IngestFailsCoherent == ASSUME IInv, IngestFails PROVE IInv'
<1>1. PICK touched \in SUBSET Ids(usage) : usageCache' = Marked(touched)
  BY DEF IngestFails
<1>2. touched \in SUBSET Id
  BY DEF Ids, IInv, Typed, Row
<1>3. Typed'
  BY <1>1, <1>2, MarkedTyped DEF IngestFails, IInv, Typed
<1> QED
  BY <1>1, <1>2, <1>3, WriteKeepsCoherence DEF IngestFails, IInv, CacheCoherent

LEMMA InsertUsageCoherent == ASSUME IInv, InsertUsage PROVE IInv'
<1>1. PICK id \in Id, content \in Content :
        /\ \/ id \in Ids(usage) /\ usage' = Touch({id}, [i \in {id} |-> content])
           \/ \E rid \in 1 .. MaxRow :
                /\ id \notin Ids(usage)
                /\ IsNextRid(rid, usage)
                /\ usage' = usage \cup {[id |-> id, rid |-> rid, content |-> content]}
        /\ usageCache' = Marked({id})
  BY DEF InsertUsage
<1> DEFINE change == [i \in {id} |-> content]
<1>2. {id} \in SUBSET Id /\ change \in [{id} -> Content]
  OBVIOUS
<1> HIDE DEF change
<1>3. usageCache' \in UsageCopy
  BY <1>1, <1>2, MarkedTyped DEF IInv
<1>4. UniqueIds(usage)
  BY DEF IInv, CacheCoherent
<1>5. CASE usage' = Touch({id}, change)
  <2>1. Typed'
    BY <1>2, <1>3, <1>5, TouchedRows DEF InsertUsage, IInv, Typed
  <2>2. UniqueIds(usage')
    BY <1>2, <1>4, <1>5, TouchedRows DEF IInv
  <2>3. \A row \in usage : \E r \in usage' : r.id = row.id /\ r.rid = row.rid
    BY <1>2, <1>5, TouchedRows DEF IInv
  <2>4. \A r \in usage' :
          \/ r \in usage
          \/ r.id \in {id} /\ \E row \in usage : row.id = r.id /\ row.rid = r.rid
    BY <1>2, <1>5, TouchedRows DEF IInv
  <2> QED
    BY <1>1, <1>2, <2>1, <2>2, <2>3, <2>4, WriteKeepsCoherence DEF InsertUsage, IInv
<1>6. ASSUME NEW rid \in 1 .. MaxRow, id \notin Ids(usage), IsNextRid(rid, usage),
             usage' = usage \cup {[id |-> id, rid |-> rid, content |-> content]}
      PROVE  IInv'
  <2> DEFINE new == [id |-> id, rid |-> rid, content |-> content]
  <2>1. new \in Row /\ \A row \in usage : row.rid < new.rid /\ row.id # new.id
    BY <1>6 DEF Row, Ids, IsNextRid
  <2>2. usage' = usage \cup {new}
    BY <1>6
  <2> HIDE DEF new
  <2>3. Typed'
    BY <1>3, <2>1, <2>2 DEF InsertUsage, IInv, Typed
  <2>4. UniqueIds(usage')
    BY <1>4, <2>1, <2>2 DEF UniqueIds
  <2> QED
    BY <1>1, <1>2, <2>1, <2>2, <2>3, <2>4, WriteKeepsCoherence DEF InsertUsage, IInv
<1> QED
  BY <1>1, <1>5, <1>6 DEF change

-----------------------------------------------------------------------------
\* A reload hands out the view, and an incremental read arrives at the same rows.
LEMMA RefreshedIsView ==
  ASSUME IInv, usageCache.valid
  PROVE  Refreshed = View(usage)
<1> DEFINE fresh == View(Added \cup Refetched)
<1>1. /\ UsageCoherent /\ UniqueIds(usage)
  BY DEF IInv, CacheCoherent
<1>2. \A row \in usage : Shown(row).id = row.id
  BY DEF Shown
<1>3. Added \subseteq usage /\ Refetched \subseteq usage
  BY DEF Added, Refetched, After
<1>4. ASSUME NEW row \in usage, row \notin Added, row \notin Refetched
      PROVE  Shown(row) \in usageCache.rows /\ row.id \notin Ids(fresh)
  <2>1. row.rid <= usageCache.max
    BY <1>4 DEF Added, After, IInv, Typed, Row, UsageCopy
  <2>2. row.id \in Ids(usageCache.rows)
    BY <1>1, <2>1 DEF UsageCoherent
  <2>3. Shown(row) \in usageCache.rows
    BY <1>1, <1>4, <2>1, <2>2 DEF UsageCoherent, Refetched
  <2>4. row.id \notin Ids(fresh)
    BY <1>1, <1>2, <1>3, <1>4 DEF UniqueIds, Ids, View
  <2> QED
    BY <2>3, <2>4
<1>5. ASSUME NEW copied \in usageCache.rows, copied.id \notin Ids(fresh)
      PROVE  copied \in View(usage)
  <2>1. PICK row \in usage : row.id = copied.id /\ row.rid <= usageCache.max
    BY <1>1 DEF UsageCoherent
  <2>2. row \notin Added /\ row \notin Refetched
    BY <1>2, <1>5, <2>1 DEF Ids, View
  <2>3. Shown(row) \in usageCache.rows
    BY <1>4, <2>2
  <2>4. Shown(row) = copied
    BY <1>1, <1>2, <2>1, <2>3 DEF UsageCoherent, UniqueIds
  <2> QED
    BY <2>4 DEF View
<1>6. fresh \subseteq View(usage)
  BY <1>3 DEF View
<1>7. Refreshed \subseteq View(usage)
  BY <1>5, <1>6 DEF Refreshed
<1>8. ASSUME NEW row \in usage PROVE Shown(row) \in Refreshed
  <2>1. CASE row \in Added \cup Refetched
    BY <2>1 DEF Refreshed, View
  <2>2. CASE row \notin Added /\ row \notin Refetched
    BY <1>2, <1>4, <2>2 DEF Refreshed
  <2> QED
    BY <2>1, <2>2
<1> QED
  BY <1>7, <1>8 DEF View

LEMMA RefetchedObservations ==
  ASSUME IInv, obsCache.valid
  PROVE  obsCache.rows \cup After(obsCache.max, observations) = observations
<1>1. \A row \in observations : row.rid \in Int
  BY DEF IInv, Typed, Observation
<1>2. obsCache.max \in Int
  BY DEF IInv, Typed, ObsCopy
<1> QED
  BY <1>1, <1>2 DEF After, IInv, CacheCoherent, ObservationsCoherent

LEMMA ReadIsView ==
  ASSUME IInv
  PROVE  /\ ListUsage => usageCache'.rows = View(usage)
         /\ ListObservations => obsCache'.rows = observations
<1>1. ReloadUsage => usageCache'.rows = View(usage)
  BY DEF ReloadUsage
<1>2. RefreshUsage => usageCache'.rows = View(usage)
  BY RefreshedIsView DEF RefreshUsage
<1>3. ReloadObservations => obsCache'.rows = observations
  BY DEF ReloadObservations
<1>4. RefreshObservations => obsCache'.rows = observations
  BY RefetchedObservations DEF RefreshObservations
<1> QED
  BY <1>1, <1>2, <1>3, <1>4 DEF ListUsage, ListObservations

\* A copy of the whole view with the highest rowid is coherent.
LEMMA WholeCopyCoherent ==
  ASSUME IInv, NEW max \in 0 .. MaxRow,
         \A row \in usage : row.rid <= max, Taken(max, usage),
         usageCache' = [valid |-> TRUE, rows |-> View(usage), max |-> max, dirty |-> {}],
         UNCHANGED <<usage, reference, observations, obsCache>>
  PROVE  IInv'
<1>1. \A row \in usage : Shown(row).id = row.id /\ Shown(row) \in Valued
  BY DEF Shown, IInv, Typed, Row, Valued
<1>2. Typed'
  BY <1>1 DEF View, IInv, Typed, UsageCopy
<1>3. UniqueIds(View(usage))
  BY <1>1 DEF View, UniqueIds, IInv, CacheCoherent
<1>4. \A row \in usage : Shown(row)' = Shown(row)
  BY DEF Shown
<1>5. UsageCoherent'
  BY <1>1, <1>3, <1>4 DEF UsageCoherent, View, Ids
<1> QED
  BY <1>2, <1>5 DEF IInv, CacheCoherent, ObservationsCoherent, Taken

LEMMA ListUsageCoherent == ASSUME IInv, ListUsage PROVE IInv'
<1>1. CASE ReloadUsage
  <2>1. PICK max \in 0 .. MaxRow :
          /\ IsHighest(max, 0, usage)
          /\ usageCache' = [valid |-> TRUE, rows |-> View(usage), max |-> max, dirty |-> {}]
    BY <1>1 DEF ReloadUsage
  <2> QED
    BY <1>1, <2>1, WholeCopyCoherent DEF ReloadUsage, IsHighest, Taken
<1>2. CASE RefreshUsage
  <2>1. PICK max \in 0 .. MaxRow :
          /\ IsHighest(max, usageCache.max, Added)
          /\ usageCache' = [valid |-> TRUE, rows |-> Refreshed, max |-> max, dirty |-> {}]
    BY <1>2 DEF RefreshUsage
  <2>2. \A row \in usage : row.rid <= max
    BY <2>1 DEF IsHighest, Added, After, IInv, Typed, Row, UsageCopy
  <2>3. Taken(max, usage)
    BY <1>2, <2>1
    DEF RefreshUsage, IsHighest, Added, After, Taken, IInv, CacheCoherent, UsageCoherent
  <2> QED
    BY <1>2, <2>1, <2>2, <2>3, RefreshedIsView, WholeCopyCoherent DEF RefreshUsage
<1> QED
  BY <1>1, <1>2 DEF ListUsage

LEMMA WholeObservationsCoherent ==
  ASSUME IInv, NEW max \in 0 .. MaxRow,
         \A row \in observations : row.rid <= max, Taken(max, observations),
         obsCache' = [valid |-> TRUE, rows |-> observations, max |-> max],
         UNCHANGED <<usage, reference, observations, usageCache>>
  PROVE  IInv'
<1>1. Typed'
  BY DEF IInv, Typed, ObsCopy
<1>2. ObservationsCoherent'
  BY DEF ObservationsCoherent, Taken
<1>3. \A row \in usage : Shown(row)' = Shown(row)
  BY DEF Shown
<1>4. UsageCoherent'
  BY <1>3 DEF UsageCoherent, IInv, CacheCoherent, Taken
<1> QED
  BY <1>1, <1>2, <1>4 DEF IInv, CacheCoherent

LEMMA ListObservationsCoherent == ASSUME IInv, ListObservations PROVE IInv'
<1>1. CASE ReloadObservations
  <2>1. PICK max \in 0 .. MaxRow :
          /\ IsHighest(max, 0, observations)
          /\ obsCache' = [valid |-> TRUE, rows |-> observations, max |-> max]
    BY <1>1 DEF ReloadObservations
  <2> QED
    BY <1>1, <2>1, WholeObservationsCoherent DEF ReloadObservations, IsHighest, Taken
<1>2. CASE RefreshObservations
  <2>1. PICK max \in 0 .. MaxRow :
          /\ IsHighest(max, obsCache.max, After(obsCache.max, observations))
          /\ obsCache' = [valid |-> TRUE,
                          rows |-> obsCache.rows \cup After(obsCache.max, observations),
                          max |-> max]
    BY <1>2 DEF RefreshObservations
  <2>2. \A row \in observations : row.rid <= max
    BY <2>1 DEF IsHighest, After, IInv, Typed, Observation, ObsCopy
  <2>3. Taken(max, observations)
    BY <1>2, <2>1
    DEF RefreshObservations, IsHighest, After, Taken, IInv, CacheCoherent,
        ObservationsCoherent
  <2> QED
    BY <1>2, <2>1, <2>2, <2>3, RefetchedObservations, WholeObservationsCoherent
    DEF RefreshObservations
<1> QED
  BY <1>1, <1>2 DEF ListObservations

-----------------------------------------------------------------------------
\* Where the copies are given up, only the tables matter.
LEMMA GivenUpCoherent ==
  ASSUME IInv, usage' \subseteq usage, observations' \subseteq observations,
         reference' \in Reference,
         usageCache' = [usageCache EXCEPT !.valid = FALSE],
         \/ obsCache' = [obsCache EXCEPT !.valid = FALSE]
         \/ UNCHANGED <<observations, obsCache>>
  PROVE  IInv'
<1>1. Typed' /\ ~usageCache'.valid
  BY DEF IInv, Typed, UsageCopy, ObsCopy
<1>2. ObservationsCoherent'
  BY DEF ObservationsCoherent, IInv, CacheCoherent, Typed, ObsCopy, Taken
<1>3. UniqueIds(usage')
  BY DEF UniqueIds, IInv, CacheCoherent
<1> QED
  BY <1>1, <1>2, <1>3 DEF IInv, CacheCoherent, UsageCoherent

LEMMA InsertObservationCoherent == ASSUME IInv, InsertObservation PROVE IInv'
<1>1. PICK rid \in 1 .. MaxRow, content \in Content :
        /\ IsNextRid(rid, observations)
        /\ observations' = observations \cup {[rid |-> rid, content |-> content]}
  BY DEF InsertObservation
<1> DEFINE new == [rid |-> rid, content |-> content]
<1>2. new \in Observation /\ new.rid = rid
  BY DEF Observation
<1>3. \A row \in observations : row.rid < rid
  BY <1>1 DEF IsNextRid
<1>4. Typed'
  BY <1>1, <1>2 DEF InsertObservation, IInv, Typed
<1>5. ASSUME obsCache.valid PROVE ~(rid <= obsCache.max)
  <2>1. rid \in Int /\ rid >= 1 /\ obsCache.max \in Int
    BY DEF IInv, Typed, ObsCopy
  <2> QED
    BY <1>3, <1>5, <2>1 DEF IInv, CacheCoherent, ObservationsCoherent, Taken
<1> HIDE DEF new
<1>6. observations' = observations \cup {new}
  BY <1>1 DEF new
<1>7. ObservationsCoherent'
  BY <1>2, <1>5, <1>6
  DEF InsertObservation, IInv, CacheCoherent, ObservationsCoherent, Taken
<1>8. \A row \in usage : Shown(row)' = Shown(row)
  BY DEF Shown, InsertObservation
<1>9. UsageCoherent' /\ UniqueIds(usage')
  BY <1>8 DEF UsageCoherent, IInv, CacheCoherent, Taken, InsertObservation
<1> QED
  BY <1>4, <1>7, <1>9 DEF IInv, CacheCoherent

LEMMA ListFailsCoherent == ASSUME IInv, ListFails PROVE IInv'
<1>1. CASE usageCache' = [usageCache EXCEPT !.valid = FALSE] /\ UNCHANGED obsCache
  BY <1>1, GivenUpCoherent DEF ListFails, IInv, Typed
<1>2. CASE obsCache' = [obsCache EXCEPT !.valid = FALSE] /\ UNCHANGED usageCache
  <2>1. Typed' /\ ~obsCache'.valid
    BY <1>2 DEF ListFails, IInv, Typed, ObsCopy
  <2>2. \A row \in usage : Shown(row)' = Shown(row)
    BY DEF Shown, ListFails
  <2>3. UsageCoherent' /\ UniqueIds(usage')
    BY <1>2, <2>2 DEF UsageCoherent, IInv, CacheCoherent, Taken, ListFails
  <2> QED
    BY <2>1, <2>3 DEF IInv, CacheCoherent, ObservationsCoherent
<1> QED
  BY <1>1, <1>2 DEF ListFails

LEMMA StepCoherent == ASSUME IInv, [Next]_vars PROVE IInv'
<1>1. CASE Maintain
  BY <1>1, GivenUpCoherent DEF Maintain, Invalidated, IInv, Typed
<1>2. CASE SetMeta
  BY <1>2, GivenUpCoherent DEF SetMeta, Invalidated
<1>3. CASE UNCHANGED vars
  <2>1. \A row \in usage : Shown(row)' = Shown(row)
    BY <1>3 DEF Shown, vars
  <2> QED
    BY <1>3, <2>1
    DEF vars, IInv, Typed, CacheCoherent, UsageCoherent, ObservationsCoherent, Taken
<1> QED
  BY <1>1, <1>2, <1>3, IngestCoherent, IngestFailsCoherent, InsertUsageCoherent,
     InsertObservationCoherent, ListUsageCoherent, ListObservationsCoherent,
     ListFailsCoherent
  DEF Next

\* Rowids that come back, marks over the limit, failed transactions and new
\* references never leave a copy that the next read would not put right.
THEOREM CacheCoherentAlways == Spec => []CacheCoherent
<1>1. IInv => CacheCoherent
  BY DEF IInv
<1> QED
  BY <1>1, StartsCoherent, StepCoherent, PTL DEF Spec

\* Every read returns the rows of the database at that moment.
THEOREM ReadsAreCurrentAlways == Spec => ReadsAreCurrent
<1>1. Spec => []IInv
  BY StartsCoherent, StepCoherent, PTL DEF Spec
<1> QED
  BY <1>1, ReadIsView, PTL DEF Spec, ReadsAreCurrent
=============================================================================

----------------------------- MODULE UsageCache -----------------------------
(***************************************************************************)
(* The read cache of internal/store/cache.go over the tables usage and     *)
(* quota_observations.  The cycle reads every row of both, so History      *)
(* keeps copies: new rows are found by rowid, touched ones by id, and all  *)
(* else it cannot track starts the copy over.                              *)
(*                                                                         *)
(* One caller at a time: writers and readers run in the cycle, under its   *)
(* lock.  SQLite gives a new row the highest rowid plus one, so retention  *)
(* makes rowids come back.                                                 *)
(***************************************************************************)
EXTENDS Integers, FiniteSets

CONSTANTS
  Id,            \* ids of usage rows
  Content,       \* what a row may hold
  Reference,     \* values of cursorCacheReference and claudeCacheAssumption
  RefetchLimit,  \* cacheRefetchLimit
  MaxRow         \* bound: rowids and sequence numbers

ASSUME CacheAssumption == RefetchLimit \in Nat /\ MaxRow \in Nat

VARIABLES
  usage,         \* table usage
  reference,     \* the meta values the view usage_valued depends on
  observations,  \* table quota_observations
  usageCache,    \* History.usage
  obsCache       \* History.obs

vars == <<usage, reference, observations, usageCache, obsCache>>

Row         == [id : Id, rid : 1 .. MaxRow, content : Content]
Observation == [rid : 1 .. MaxRow, content : Content]
Valued      == [id : Id, content : Content, reference : Reference]

UsageCopy == [valid : BOOLEAN, rows : SUBSET Valued, max : 0 .. MaxRow, dirty : SUBSET Id]
ObsCopy   == [valid : BOOLEAN, rows : SUBSET Observation, max : 0 .. MaxRow]

Ids(rows) == {row.id : row \in rows}

\* A row as the view usage_valued shows it.
Shown(row) == [id |-> row.id, content |-> row.content, reference |-> reference]
View(rows) == {Shown(row) : row \in rows}

IsNextRid(rid, rows) ==
  /\ \A row \in rows : row.rid < rid
  /\ rid = 1 \/ \E row \in rows : row.rid = rid - 1

\* The highest rowid among rows, or base.
IsHighest(max, base, rows) ==
  /\ max >= base /\ \A row \in rows : row.rid <= max
  /\ max = base \/ \E row \in rows : row.rid = max

After(max, rows) == {row \in rows : row.rid > max}

Init ==
  /\ usage = {}
  /\ reference \in Reference
  /\ observations = {}
  /\ usageCache = [valid |-> FALSE, rows |-> {}, max |-> 0, dirty |-> {}]
  /\ obsCache = [valid |-> FALSE, rows |-> {}, max |-> 0]

-----------------------------------------------------------------------------
(***************************************************************************)
(* Writers.                                                                *)
(***************************************************************************)
Marked_UpToLimit(touched) ==
  IF Cardinality(usageCache.dirty) + Cardinality(touched) > RefetchLimit THEN usageCache
  ELSE [usageCache EXCEPT !.dirty = @ \cup touched]

\* markUsageDirty
Marked(touched) ==
  IF touched = {} \/ ~usageCache.valid THEN usageCache
  ELSE IF Cardinality(usageCache.dirty) + Cardinality(touched) > RefetchLimit
       THEN [usageCache EXCEPT !.valid = FALSE]
       ELSE [usageCache EXCEPT !.dirty = @ \cup touched]

Touch(touched, change) ==
  {[row EXCEPT !.content = IF row.id \in touched THEN change[row.id] ELSE @] : row \in usage}

\* A transaction that meets rows it has already, marks them, changed or not, and
\* may create one.  (One that creates more is, for the copy, as many of them with
\* no read in between.)
IngestJSONL ==
  /\ \E touched \in SUBSET Ids(usage) : \E change \in [touched -> Content] :
       /\ \/ usage' = Touch(touched, change)
          \/ \E id \in Id \ Ids(usage), rid \in 1 .. MaxRow, content \in Content :
               /\ IsNextRid(rid, usage)
               /\ usage' = Touch(touched, change)
                             \cup {[id |-> id, rid |-> rid, content |-> content]}
       /\ usageCache' = Marked(touched)
  /\ UNCHANGED <<reference, observations, obsCache>>

\* Rolled back, after some rows were met.
IngestFails ==
  /\ \E touched \in SUBSET Ids(usage) : usageCache' = Marked(touched)
  /\ UNCHANGED <<usage, reference, observations, obsCache>>

\* InsertUsage also marks a row that it creates.
InsertUsage ==
  /\ \E id \in Id, content \in Content :
       /\ \/ id \in Ids(usage) /\ usage' = Touch({id}, [i \in {id} |-> content])
          \/ \E rid \in 1 .. MaxRow :
               /\ id \notin Ids(usage)
               /\ IsNextRid(rid, usage)
               /\ usage' = usage \cup {[id |-> id, rid |-> rid, content |-> content]}
       /\ usageCache' = Marked({id})
  /\ UNCHANGED <<reference, observations, obsCache>>

InsertObservation ==
  /\ \E rid \in 1 .. MaxRow, content \in Content :
       /\ IsNextRid(rid, observations)
       /\ observations' = observations \cup {[rid |-> rid, content |-> content]}
  /\ UNCHANGED <<usage, reference, usageCache, obsCache>>

Invalidated_Not(copy) == copy

Invalidated(copy) == [copy EXCEPT !.valid = FALSE]

\* Transact: retention deletes rows of any age order, and the copies start over,
\* also when it failed.
Maintain ==
  /\ usage' \in SUBSET usage
  /\ observations' \in SUBSET observations
  /\ usageCache' = Invalidated(usageCache)
  /\ obsCache' = Invalidated(obsCache)
  /\ UNCHANGED reference

SetMeta ==
  /\ reference' \in Reference
  /\ usageCache' = Invalidated(usageCache)
  /\ UNCHANGED <<usage, observations, obsCache>>

-----------------------------------------------------------------------------
(***************************************************************************)
(* Readers.  A copy older than cacheMaxAge is started over too, so that    *)
(* Reload may happen to a valid one.                                       *)
(***************************************************************************)
ReloadUsage ==
  /\ \E max \in 0 .. MaxRow :
       /\ IsHighest(max, 0, usage)
       /\ usageCache' = [valid |-> TRUE, rows |-> View(usage), max |-> max, dirty |-> {}]
  /\ UNCHANGED <<usage, reference, observations, obsCache>>

Added     == After(usageCache.max, usage)
Refetched == {row \in usage : row.id \in usageCache.dirty \cap Ids(usageCache.rows)}

\* The rows copied before, with the fresh ones in their place.
Refreshed ==
  LET fresh == View(Added \cup Refetched)
  IN  {row \in usageCache.rows : row.id \notin Ids(fresh)} \cup fresh

RefreshUsage ==
  /\ usageCache.valid
  /\ \E max \in 0 .. MaxRow :
       /\ IsHighest(max, usageCache.max, Added)
       /\ usageCache' = [valid |-> TRUE, rows |-> Refreshed, max |-> max, dirty |-> {}]
  /\ UNCHANGED <<usage, reference, observations, obsCache>>

ReloadObservations ==
  /\ \E max \in 0 .. MaxRow :
       /\ IsHighest(max, 0, observations)
       /\ obsCache' = [valid |-> TRUE, rows |-> observations, max |-> max]
  /\ UNCHANGED <<usage, reference, observations, usageCache>>

RefreshObservations ==
  /\ obsCache.valid
  /\ LET added == After(obsCache.max, observations)
     IN  \E max \in 0 .. MaxRow :
           /\ IsHighest(max, obsCache.max, added)
           /\ obsCache' = [valid |-> TRUE, rows |-> obsCache.rows \cup added, max |-> max]
  /\ UNCHANGED <<usage, reference, observations, usageCache>>

\* A query fails: the copy is given up.
ListFails ==
  /\ \/ usageCache' = [usageCache EXCEPT !.valid = FALSE] /\ UNCHANGED obsCache
     \/ obsCache' = [obsCache EXCEPT !.valid = FALSE] /\ UNCHANGED usageCache
  /\ UNCHANGED <<usage, reference, observations>>

-----------------------------------------------------------------------------
ListUsage        == ReloadUsage \/ RefreshUsage
ListObservations == ReloadObservations \/ RefreshObservations

Next ==
  \/ IngestJSONL \/ IngestFails \/ InsertUsage \/ InsertObservation \/ Maintain \/ SetMeta
  \/ ListUsage \/ ListObservations \/ ListFails

Spec == Init /\ [][Next]_vars

-----------------------------------------------------------------------------
UniqueIds(rows) == \A r, s \in rows : r.id = s.id => r = s

\* The highest rowid read is still taken, so that no new row can lie below it.
Taken(max, rows) == max = 0 \/ \E row \in rows : row.rid = max

\* A valid copy lacks only what the next read will find: rows above its rowid
\* and marked ids.  It holds no row that is gone, although rowids come back.
UsageCoherent ==
  usageCache.valid =>
    /\ Taken(usageCache.max, usage)
    /\ UniqueIds(usageCache.rows)
    /\ \A copied \in usageCache.rows :
         \E row \in usage : row.id = copied.id /\ row.rid <= usageCache.max
    /\ \A row \in usage :
         row.rid <= usageCache.max =>
           /\ row.id \in Ids(usageCache.rows)
           /\ row.id \in usageCache.dirty \/ Shown(row) \in usageCache.rows

ObservationsCoherent ==
  obsCache.valid =>
    /\ Taken(obsCache.max, observations)
    /\ obsCache.rows = {row \in observations : row.rid <= obsCache.max}

CacheCoherent == UniqueIds(usage) /\ UsageCoherent /\ ObservationsCoherent

\* Every read hands out exactly the rows of the database at that moment, with
\* their amounts under the reference that holds then.
ReadsAreCurrent ==
  [][/\ ListUsage => usageCache'.rows = View(usage)
     /\ ListObservations => obsCache'.rows = observations]_vars
=============================================================================

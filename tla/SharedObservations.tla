------------------------- MODULE SharedObservations -------------------------
(***************************************************************************)
(* The store of shared market observations: a segment is a Parquet file    *)
(* named by its content and replaced atomically, its manifest a JSON file  *)
(* written in place, and the catalog of both lives in memory.  Threads     *)
(* publish at once, and the process may die between any two steps.         *)
(***************************************************************************)
EXTENDS Naturals, ServerThreads

CONSTANTS
  Publishers,   \* threads
  Shelves,      \* (provider, dataset_type): a directory
  Batches,      \* the sets of observations that are published together
  Uneven,       \* those whose rows do not have the same keys
  MaxRestarts,  \* bound
  Torn, Altered

VARIABLES
  segments,   \* segments[m]: what reading the file of m, a manifest, gives
  manifests,  \* manifests[m]: is its file "absent", "torn" or "whole"
  known,      \* the catalog: the manifests, one for a segment hash
  objects,    \* the catalog: observations by id
  stage, work, \* what each publisher does, and for which manifest
  answered,   \* history: the manifests publish_segment has returned
  restarts

disk == <<segments, manifests>>
catalog == <<known, objects>>
observations == <<disk, catalog, stage, work, answered, restarts>>

\* A manifest: segment_id is the hash of shelf and rows, segment_hash of the rows.
Manifest(shelf, rows) == [shelf |-> shelf, rows |-> rows]
Manifests == {Manifest(shelf, rows) : shelf \in Shelves, rows \in Batches}

\* Parquet gives every row the columns of the table: rows with the same keys come
\* back as they were written, others do not (table_io.write_rows, read_rows).
Stored(rows) == IF rows \in Uneven THEN Altered ELSE rows

\* read_segment succeeds: the rows read have the hash of the manifest.
ReadsBack(m) == segments[m] = m.rows

ObservationsInit ==
  /\ segments = [m \in Manifests |-> None]
  /\ manifests = [m \in Manifests |-> "absent"]
  /\ known = {} /\ objects = {}
  /\ stage = [p \in Publishers |-> "idle"]
  /\ work = [p \in Publishers |-> None]
  /\ answered = {} /\ restarts = 0

ByHash(rows) == {m \in known : m.rows = rows}

ToStage(p, label) == stage' = [stage EXCEPT ![p] = label]

Conclude(p, m) ==
  /\ ToStage(p, "idle")
  /\ work' = [work EXCEPT ![p] = None]
  /\ answered' = answered \cup {m}

\* The rows known under any shelf are answered with that manifest.
PublishSegment(p, shelf, rows) ==
  /\ stage[p] = "idle"
  /\ IF ByHash(rows) # {}
     THEN Conclude(p, CHOOSE m \in ByHash(rows) : TRUE)
     ELSE /\ ToStage(p, "segment")
          /\ work' = [work EXCEPT ![p] = Manifest(shelf, rows)]
          /\ UNCHANGED answered
  /\ UNCHANGED <<disk, catalog, restarts>>

\* Variant: The rows are written to the segment's own path.
WriteInPlace(p) ==
  /\ stage[p] = "segment"
  /\ segments' = [segments EXCEPT ![work[p]] = Torn]
  /\ ToStage(p, "replace")
  /\ UNCHANGED <<manifests, catalog, work, answered, restarts>>

\* A temporary file of the publisher's own.
WriteTemporary(p) ==
  /\ stage[p] = "segment"
  /\ ToStage(p, "replace")
  /\ UNCHANGED <<disk, catalog, work, answered, restarts>>

ReplaceSegment(p) ==
  /\ stage[p] = "replace"
  /\ segments' = [segments EXCEPT ![work[p]] = Stored(work[p].rows)]
  /\ ToStage(p, "manifest")
  /\ UNCHANGED <<manifests, catalog, work, answered, restarts>>

\* The manifest is truncated, also one that was whole.
OpenManifest(p) ==
  /\ stage[p] = "manifest"
  /\ manifests' = [manifests EXCEPT ![work[p]] = "torn"]
  /\ ToStage(p, "writing")
  /\ UNCHANGED <<segments, catalog, work, answered, restarts>>

CloseManifest(p) ==
  /\ stage[p] = "writing"
  /\ manifests' = [manifests EXCEPT ![work[p]] = "whole"]
  /\ ToStage(p, "catalog")
  /\ UNCHANGED <<segments, catalog, work, answered, restarts>>

\* Rows that another thread has catalogued meanwhile are left to it.
CheckCatalog(p) ==
  /\ stage[p] = "catalog"
  /\ IF ByHash(work[p].rows) # {}
     THEN Conclude(p, work[p])
     ELSE ToStage(p, "insert") /\ UNCHANGED <<work, answered>>
  /\ UNCHANGED <<disk, catalog, restarts>>

\* Of two threads that were both past the check, the later takes the hash.
Catalog(p) ==
  /\ stage[p] = "insert"
  /\ known' = (known \ ByHash(work[p].rows)) \cup {work[p]}
  /\ ToStage(p, "objects")
  /\ UNCHANGED <<disk, objects, work, answered, restarts>>

CatalogObjects(p) ==
  /\ stage[p] = "objects"
  /\ objects' = objects \cup work[p].rows
  /\ Conclude(p, work[p])
  /\ UNCHANGED <<disk, known, restarts>>

\* The process dies; the files stay as they are, a temporary one is never looked at.
Restart ==
  /\ restarts < MaxRestarts
  /\ restarts' = restarts + 1
  /\ known' = {} /\ objects' = {}
  /\ stage' = [p \in Publishers |-> "idle"]
  /\ work' = [p \in Publishers |-> None]
  /\ UNCHANGED <<segments, manifests, answered>>

Publish(p) ==
  \/ WriteTemporary(p) \/ ReplaceSegment(p)
  \/ OpenManifest(p) \/ CloseManifest(p)
  \/ CheckCatalog(p) \/ Catalog(p) \/ CatalogObjects(p)

ObservationsNext ==
  \/ \E p \in Publishers :
       \/ \E shelf \in Shelves, rows \in Batches : PublishSegment(p, shelf, rows)
       \/ Publish(p)
  \/ Restart

ObservationsSpec == ObservationsInit /\ [][ObservationsNext]_observations

-----------------------------------------------------------------------------
(* Properties *)

NobodyPublishes == \A p \in Publishers : stage[p] = "idle"

\* Every manifest that was ever returned or catalogued has its file, whole, with what
\* was written for its hash, through republication by other threads, process deaths and
\* restarts ("atomically publish one immutable segment").  read_segment succeeds on it
\* unless its rows differed in their keys: those are answered all the same, and the
\* mismatch is noticed only when they are read.
SegmentsReadBack ==
  \A m \in answered \cup known :
    segments[m] = Stored(m.rows) /\ (m.rows \notin Uneven => ReadsBack(m))

\* A segment on disk is never changed, not even for a moment.
SegmentsAreImmutable ==
  [][\A m \in Manifests : segments[m] # None => segments'[m] = segments[m]]_observations

\* When nobody publishes, the catalog is consistent: one manifest per content, its file
\* whole, and the objects are the rows of the manifests; a torn manifest on disk is one
\* that a dead process left and the next publication of its rows repairs.
CatalogIsExact ==
  NobodyPublishes =>
    /\ objects = UNION {m.rows : m \in known}
    /\ \A m, n \in known : m.rows = n.rows => m = n
    /\ \A m \in known : manifests[m] = "whole"
    /\ \A m \in Manifests : manifests[m] = "torn" => restarts > 0 /\ segments[m] = Stored(m.rows)

\* The store: what was answered can be read, and the catalog says what there is.
StoreIsSound == SegmentsReadBack /\ CatalogIsExact
=============================================================================

--------------------------- MODULE QuoteLakeProofs ---------------------------
(***************************************************************************)
(* Theorems about QuoteLake, for every value of its constants.             *)
(*                                                                         *)
(* TypeOK, Provenance and BronzeKeepsRows hold of every run.  The          *)
(* properties that relate Bronze to Silver need files that no two workers  *)
(* write at once: one worker, or a file of its own for each listing.  What *)
(* a run plans from Silver is exact, and failed requests are made good, as *)
(* long as no process dies between the rewrite of Bronze and of Silver.    *)
(***************************************************************************)
EXTENDS QuoteLake, TLAPS

\* What a worker holds at each program counter: nothing when it is idle, a
\* listing once it has taken one, a file from the read to the write.
WorkerHolds ==
  \A w \in Workers :
    /\ pc[w] = "idle" => pending[w] = {} /\ buffer[w] = {}
    /\ pc[w] # "idle" => phase = "bronze" /\ item[w] \in Listings
    /\ pc[w] \in {"merged", "writing", "clashing"} => file[w] \in BronzeFiles

IInv == TypeOK /\ WorkerHolds

\* The file of a row is a Bronze file (bronze_quote_file).
LEMMA RowHasFile ==
  \A r \in Rows : /\ FileOfRow(r) \in BronzeFiles
                  /\ FileOf[r[1]] \in PathIds
                  /\ r[1] \in Listings /\ r[2] \in Days
BY DEF Rows, FileOfRow, BronzeFiles, PathIds, Years

\* No run and no worker when the lake is new.
LEMMA InitIInv == Init => IInv
BY ConstantsAssumption DEF Init, IInv, TypeOK, WorkerHolds, Days, Datasets

\* A run that ends leaves its locals empty.
LEMMA EndIInv ==
  ASSUME IInv, RunEnds, \A w \in Workers : pc[w] = "idle",
         UNCHANGED <<today, published, lakeVars, workerVars, crashes, owed>>,
         report' \subseteq Rows
  PROVE  IInv'
BY ConstantsAssumption
   DEF IInv, TypeOK, WorkerHolds, RunEnds, lakeVars, workerVars, Datasets, Days

\* Between files and after the last one a worker keeps the rest of its rows.
LEMMA AfterFileIInv ==
  ASSUME IInv, NEW w \in Workers, AfterFile(w),
         pc[w] \in {"writing", "clashing"},
         UNCHANGED <<today, published, silver, tornSilver, phase, planVars,
                     dataset, remaining, queue, errors, silverTodo, report,
                     crashes, owed>>,
         bronze' \in [Datasets -> SUBSET Rows],
         torn' \subseteq Datasets \X BronzeFiles
  PROVE  IInv'
<1>1. TypeOK'
  BY DEF IInv, TypeOK, AfterFile, Leaves, planVars
<1>2. WorkerHolds'
  BY DEF IInv, TypeOK, WorkerHolds, AfterFile, Leaves, planVars
<1> QED BY <1>1, <1>2 DEF IInv

LEMMA StepIInv == IInv /\ [Next]_vars => IInv'
<1> SUFFICES ASSUME IInv, [Next]_vars PROVE IInv'
  OBVIOUS
<1> USE ConstantsAssumption
<1>1. CASE NextDay
  BY <1>1 DEF NextDay, IInv, TypeOK, WorkerHolds, lakeVars, workerVars, planVars, Days
<1>2. ASSUME NEW ds \in Datasets, NEW r \in Market[ds], Release(ds, r)
      PROVE  IInv'
  BY <1>2 DEF Release, IInv, TypeOK, WorkerHolds, lakeVars, workerVars, planVars
<1>3. ASSUME NEW r \in Requests, StartRun(r)
      PROVE  IInv'
  <2>1. EndDay(r) \in Nat
    BY DEF EndDay, IInv, TypeOK, Request, Days
  <2>2. Planned(r) \subseteq Listings
    BY DEF Planned, Request
  <2>3. [l \in Listings |-> Window(r, l)] \in [Listings -> SUBSET Days]
    BY DEF Window
  <2>4. (IF r.raw THEN Companions ELSE {}) \subseteq Companions
    OBVIOUS
  <2>5. {n \in published["quotes"] : \E k \in Known(n[1]) : k <= n[2]} \subseteq Rows
    BY DEF IInv, TypeOK, Datasets
  <2>6. TypeOK'
    BY <1>3, <2>1, <2>2, <2>3, <2>4, <2>5
       DEF StartRun, IInv, TypeOK, lakeVars, workerVars, Datasets
  <2>7. WorkerHolds'
    BY <1>3 DEF StartRun, IInv, WorkerHolds, workerVars
  <2> QED BY <2>6, <2>7 DEF IInv
<1>4. ASSUME NEW w \in Workers, NEW l \in Listings, LoaderReturns(w, l)
      PROVE  IInv'
  <2>1. Served(l) \subseteq Rows
    BY DEF Served, IInv, TypeOK
  <2>2. TypeOK'
    BY <1>4, <2>1 DEF LoaderReturns, IInv, TypeOK, lakeVars, planVars
  <2>3. WorkerHolds'
    BY <1>4 DEF LoaderReturns, IInv, TypeOK, WorkerHolds
  <2> QED BY <2>2, <2>3 DEF IInv
<1>5. ASSUME NEW w \in Workers, NEW l \in Listings, LoaderFails(w, l)
      PROVE  IInv'
  <2>1. Served(l) \subseteq Rows
    BY DEF Served, IInv, TypeOK
  <2>2. TypeOK'
    BY <1>5, <2>1 DEF LoaderFails, IInv, TypeOK, lakeVars, workerVars, planVars
  <2>3. WorkerHolds'
    BY <1>5 DEF LoaderFails, IInv, WorkerHolds, workerVars
  <2> QED BY <2>2, <2>3 DEF IInv
<1>6. ASSUME NEW w \in Workers, ReadFile(w)
      PROVE  IInv'
  <2>1. PICK r \in pending[w] :
          /\ file' = [file EXCEPT ![w] = FileOfRow(r)]
          /\ buffer' = [buffer EXCEPT ![w] = InFile(bronze[dataset], FileOfRow(r))]
          /\ met' \subseteq met \cup {FileOfRow(r)}
    BY <1>6 DEF ReadFile
  <2>2. FileOfRow(r) \in BronzeFiles
    BY RowHasFile DEF IInv, TypeOK
  <2>3. InFile(bronze[dataset], FileOfRow(r)) \subseteq Rows
    BY DEF InFile, IInv, TypeOK
  <2>4. TypeOK'
    BY <1>6, <2>1, <2>2, <2>3 DEF ReadFile, IInv, TypeOK, lakeVars, planVars
  <2>5. WorkerHolds'
    BY <1>6, <2>1, <2>2 DEF ReadFile, IInv, TypeOK, WorkerHolds
  <2> QED BY <2>4, <2>5 DEF IInv
<1>7. ASSUME NEW w \in Workers, ReadFails(w)
      PROVE  IInv'
  <2>1. TypeOK'
    BY <1>7 DEF ReadFails, NoWorker, Leaves, IInv, TypeOK, WorkerHolds, lakeVars, planVars
  <2>2. WorkerHolds'
    BY <1>7 DEF ReadFails, NoWorker, IInv, TypeOK, WorkerHolds
  <2> QED BY <2>1, <2>2 DEF IInv
<1>8. ASSUME NEW w \in Workers, OpenFile(w)
      PROVE  IInv'
  <2>1. TypeOK'
    BY <1>8 DEF OpenFile, IInv, TypeOK, lakeVars, planVars
  <2>2. WorkerHolds'
    BY <1>8 DEF OpenFile, WritersOf, IInv, TypeOK, WorkerHolds
  <2> QED BY <2>1, <2>2 DEF IInv
<1>9. ASSUME NEW w \in Workers, CloseFile(w)
      PROVE  IInv'
  <2>1. bronze' \in [Datasets -> SUBSET Rows]
    BY <1>9 DEF CloseFile, InFile, IInv, TypeOK
  <2>2. torn' \subseteq Datasets \X BronzeFiles
    BY <1>9 DEF CloseFile, IInv, TypeOK
  <2> QED BY <1>9, <2>1, <2>2, AfterFileIInv DEF CloseFile
<1>10. ASSUME NEW w \in Workers, CloseClashedFile(w)
       PROVE  IInv'
  <2>1. bronze' \in [Datasets -> SUBSET Rows]
    BY <1>10 DEF CloseClashedFile, InFile, IInv, TypeOK
  <2>2. torn' \subseteq Datasets \X BronzeFiles
    BY <1>10 DEF CloseClashedFile, IInv, TypeOK, WorkerHolds
  <2> QED BY <1>10, <2>1, <2>2, AfterFileIInv DEF CloseClashedFile
<1>11. CASE NextDataset
  BY <1>11 DEF NextDataset, BatchDone, IInv, TypeOK, WorkerHolds, lakeVars,
               workerVars, planVars, Datasets
<1>12. CASE BuildSilver
  <2>1. {FileOf[r[1]] : r \in bronze["quotes"]} \subseteq PathIds
    <3>1. "quotes" \in Datasets BY DEF Datasets
    <3>2. bronze["quotes"] \subseteq Rows BY <3>1 DEF IInv, TypeOK
    <3>3. \A r \in Rows : FileOf[r[1]] \in PathIds BY RowHasFile
    <3> QED BY <3>2, <3>3
  <2>2. /\ phase' = "silver" /\ silverTodo' \subseteq PathIds
        /\ UNCHANGED <<today, published, lakeVars, planVars, dataset, remaining, queue,
                       workerVars, errors, report, crashes, owed>>
    BY <1>12, <2>1 DEF BuildSilver
  <2>3. \A w \in Workers : pc[w] = "idle"
    BY <1>12 DEF BuildSilver, BatchDone
  <2>4. TypeOK'
    BY <2>2 DEF IInv, TypeOK, lakeVars, workerVars, planVars
  <2>5. WorkerHolds'
    BY <2>2, <2>3 DEF IInv, WorkerHolds, lakeVars, workerVars, planVars
  <2> QED BY <2>4, <2>5 DEF IInv
<1>13. CASE Abort
  <2>1. \A w \in Workers : pc[w] = "idle"
    BY <1>13 DEF Abort, BatchDone, IInv, WorkerHolds
  <2> QED BY <1>13, <2>1, EndIInv DEF Abort, IInv, TypeOK
<1>14. ASSUME NEW p \in PathIds, WriteSilver(p)
       PROVE  IInv'
  <2>1. silver' \subseteq Rows
    BY <1>14 DEF WriteSilver, IInv, TypeOK, Datasets
  <2> QED
    BY <1>14, <2>1 DEF WriteSilver, IInv, TypeOK, WorkerHolds, workerVars, planVars
<1>15. CASE FinishRun
  <2>1. \A w \in Workers : pc[w] = "idle"
    BY <1>15 DEF FinishRun, IInv, WorkerHolds
  <2>2. report' \subseteq Rows
    BY <1>15 DEF FinishRun
  <2> QED BY <1>15, <2>1, <2>2, EndIInv DEF FinishRun
<1>16. CASE Crash
  <2> DEFINE open == {file[w] : w \in {v \in Workers : pc[v] \in {"writing", "clashing"}}}
  <2>1. open \subseteq BronzeFiles
    BY DEF IInv, WorkerHolds
  <2>2. torn' \subseteq Datasets \X BronzeFiles
    BY <1>16, <2>1 DEF Crash, IInv, TypeOK
  <2>3. bronze' \in [Datasets -> SUBSET Rows]
    BY <1>16 DEF Crash, IInv, TypeOK
  <2>4. silver' \subseteq Rows /\ tornSilver' \subseteq PathIds
    BY <1>16 DEF Crash, IInv, TypeOK
  <2>5. crashes' \in 0..MaxCrashes
    BY <1>16 DEF Crash, IInv, TypeOK
  <2>6. TypeOK'
    BY <1>16, <2>2, <2>3, <2>4, <2>5 DEF Crash, RunEnds, IInv, TypeOK, Datasets
  <2>7. WorkerHolds'
    BY <1>16 DEF Crash, WorkerHolds
  <2> QED BY <2>6, <2>7 DEF IInv
<1>17. CASE UNCHANGED vars
  BY <1>17 DEF IInv, TypeOK, WorkerHolds, vars, lakeVars, workerVars, planVars
<1> QED
  BY <1>1, <1>2, <1>3, <1>4, <1>5, <1>6, <1>7, <1>8, <1>9, <1>10, <1>11, <1>12,
     <1>13, <1>14, <1>15, <1>16, <1>17
     DEF Next, World, RunStep, Worker

\* Every variable keeps its type, whatever the workers, the provider and the
\* crashes do.
THEOREM TypeCorrect == Spec => []TypeOK
<1>1. IInv => TypeOK BY DEF IInv
<1> QED BY InitIInv, StepIInv, <1>1, PTL DEF Spec

-----------------------------------------------------------------------------
(* Nothing is invented *)

LEMMA ProvenanceStep == IInv /\ Provenance /\ [Next]_vars => Provenance'
<1> SUFFICES ASSUME IInv, Provenance, [Next]_vars PROVE Provenance'
  OBVIOUS
<1> USE ConstantsAssumption
<1>1. CASE NextDay
  BY <1>1 DEF NextDay, Provenance, lakeVars, workerVars
<1>2. ASSUME NEW ds \in Datasets, NEW r \in Market[ds], Release(ds, r)
      PROVE  Provenance'
  <2>1. \A e \in Datasets : published[e] \subseteq published'[e]
    BY <1>2 DEF Release, IInv, TypeOK
  <2> QED
    BY <1>2, <2>1 DEF Release, Provenance, IInv, TypeOK, Datasets, lakeVars, workerVars
<1>3. ASSUME NEW r \in Requests, StartRun(r)
      PROVE  Provenance'
  BY <1>3 DEF StartRun, IInv, WorkerHolds, TypeOK, Provenance, lakeVars, workerVars
<1>4. ASSUME NEW w \in Workers, NEW l \in Listings, LoaderReturns(w, l)
      PROVE  Provenance'
  BY <1>4 DEF LoaderReturns, Served, IInv, TypeOK, Provenance, lakeVars
<1>5. ASSUME NEW w \in Workers, NEW l \in Listings, LoaderFails(w, l)
      PROVE  Provenance'
  BY <1>5 DEF LoaderFails, Provenance, lakeVars, workerVars
<1>6. ASSUME NEW w \in Workers, ReadFile(w)
      PROVE  Provenance'
  BY <1>6 DEF ReadFile, InFile, IInv, TypeOK, Provenance, lakeVars
<1>7. ASSUME NEW w \in Workers, ReadFails(w)
      PROVE  Provenance'
  BY <1>7 DEF ReadFails, NoWorker, IInv, TypeOK, Provenance, lakeVars
<1>8. ASSUME NEW w \in Workers, OpenFile(w)
      PROVE  Provenance'
  BY <1>8 DEF OpenFile, Provenance, lakeVars
<1>9. ASSUME NEW w \in Workers, CloseFile(w)
      PROVE  Provenance'
  <2>1. \A ds \in Datasets : bronze'[ds] \subseteq published[ds]
    BY <1>9 DEF CloseFile, InFile, IInv, TypeOK, Provenance
  <2>2. \A v \in Workers : buffer'[v] \cup pending'[v] \subseteq published[dataset]
    BY <1>9 DEF CloseFile, AfterFile, IInv, TypeOK, Provenance
  <2> QED BY <1>9, <2>1, <2>2 DEF CloseFile, Provenance
<1>10. ASSUME NEW w \in Workers, CloseClashedFile(w)
       PROVE  Provenance'
  <2>1. \A ds \in Datasets : bronze'[ds] \subseteq published[ds]
    BY <1>10 DEF CloseClashedFile, InFile, IInv, TypeOK, Provenance
  <2>2. \A v \in Workers : buffer'[v] \cup pending'[v] \subseteq published[dataset]
    BY <1>10 DEF CloseClashedFile, AfterFile, IInv, TypeOK, Provenance
  <2> QED BY <1>10, <2>1, <2>2 DEF CloseClashedFile, Provenance
<1>11. CASE NextDataset
  BY <1>11 DEF NextDataset, BatchDone, IInv, WorkerHolds, Provenance, lakeVars, workerVars
<1>12. CASE BuildSilver
  BY <1>12 DEF BuildSilver, Provenance, lakeVars, workerVars
<1>13. CASE Abort
  BY <1>13 DEF Abort, BatchDone, RunEnds, IInv, WorkerHolds, Provenance, lakeVars, workerVars
<1>14. ASSUME NEW p \in PathIds, WriteSilver(p)
       PROVE  Provenance'
  BY <1>14 DEF WriteSilver, Provenance, Datasets, workerVars
<1>15. CASE FinishRun
  BY <1>15 DEF FinishRun, RunEnds, IInv, WorkerHolds, Provenance, lakeVars, workerVars
<1>16. CASE Crash
  BY <1>16 DEF Crash, RunEnds, IInv, TypeOK, Provenance
<1>17. CASE UNCHANGED vars
  BY <1>17 DEF Provenance, vars, lakeVars, workerVars
<1> QED
  BY <1>1, <1>2, <1>3, <1>4, <1>5, <1>6, <1>7, <1>8, <1>9, <1>10, <1>11, <1>12,
     <1>13, <1>14, <1>15, <1>16, <1>17
     DEF Next, World, RunStep, Worker

\* Bronze, Silver and the workers only ever hold released rows, for any number
\* of workers, shared files and crashes included.
THEOREM ProvenanceCorrect == Spec => []Provenance
<1>1. Init => Provenance
  BY DEF Init, Provenance
<1> QED BY <1>1, InitIInv, StepIInv, ProvenanceStep, PTL DEF Spec

-----------------------------------------------------------------------------
(* The lake implements the archive, as long as no process dies *)

\* A step of the lake is a release, an accumulation or a stutter of the archive.
LEMMA ArchiveStep ==
  ASSUME MaxCrashes = 0, IInv, Provenance, [Next]_vars
  PROVE  [Archive!Next]_(Archive!vars)
<1> USE ConstantsAssumption DEF Archive!Next, Archive!vars
<1>1. ASSUME NEW ds \in Datasets, NEW r \in Market[ds], Release(ds, r)
      PROVE  [Archive!Next]_(Archive!vars)
  <2>1. CASE ds = "quotes"
    BY <1>1, <2>1 DEF Release, Archive!Release, IInv, TypeOK, lakeVars
  <2>2. CASE ds # "quotes"
    BY <1>1, <2>2 DEF Release, IInv, TypeOK, lakeVars
  <2> QED BY <2>1, <2>2
<1>2. ASSUME NEW p \in PathIds, WriteSilver(p)
      PROVE  [Archive!Next]_(Archive!vars)
  BY <1>2 DEF WriteSilver, Archive!Accumulate, Provenance, Datasets
<1>3. ~Crash
  BY DEF Crash, IInv, TypeOK
<1>4. ASSUME NEW r \in Requests, StartRun(r)
      PROVE  UNCHANGED Archive!vars
  BY <1>4 DEF StartRun, lakeVars
<1>5. ASSUME NEW w \in Workers, Worker(w)
      PROVE  UNCHANGED Archive!vars
  BY <1>5 DEF Worker, LoaderReturns, LoaderFails, ReadFile, ReadFails, OpenFile,
              CloseFile, CloseClashedFile, lakeVars
<1>6. ASSUME NextDay \/ NextDataset \/ BuildSilver \/ Abort \/ FinishRun
      PROVE  UNCHANGED Archive!vars
  BY <1>6 DEF NextDay, NextDataset, BuildSilver, Abort, FinishRun, lakeVars
<1>7. CASE UNCHANGED vars
  BY <1>7 DEF vars, lakeVars
<1> QED BY <1>1, <1>2, <1>3, <1>4, <1>5, <1>6, <1>7 DEF Next, World, RunStep

\* Silver is a faithful archive: it accumulates released rows and loses none,
\* however the workers interleave.
THEOREM ArchiveRefinement ==
  ASSUME MaxCrashes = 0
  PROVE  Spec => ArchiveSpec
<1>1. Init => Archive!Init
  BY DEF Init, Archive!Init, Datasets
<1>2. Init => Provenance
  BY DEF Init, Provenance
<1>3. IInv /\ Provenance /\ [Next]_vars => [Archive!Next]_(Archive!vars)
  BY ArchiveStep
<1> QED
  BY <1>1, <1>2, <1>3, InitIInv, StepIInv, ProvenanceStep, PTL
     DEF Spec, ArchiveSpec, Archive!Spec

-----------------------------------------------------------------------------
(* One writer: lakes in which no two workers write one Bronze file at once *)

\* Each listing has a file of its own, or there is one worker.
OneWriter ==
  \/ \A l, m \in Listings : FileOf[l] = FileOf[m] => l = m
  \/ \A v, w \in Workers : v = w

\* No two workers have one listing in hand.
ItemsDiffer ==
  \A v, w \in Workers :
    v # w /\ pc[v] # "idle" /\ pc[w] # "idle" => item[v] # item[w]

\* A worker is alone with its listing and with the file it merges: what it read
\* is still what the file holds.
WorkerAlone ==
  \A w \in Workers : pc[w] # "idle" =>
    /\ pc[w] # "clashing"
    /\ item[w] \notin queue
    /\ \A r \in pending[w] : r[1] = item[w]
    /\ pc[w] \in {"merged", "writing"} =>
         /\ file[w][1] = FileOf[item[w]]
         /\ <<dataset, file[w]>> \notin torn
         /\ buffer[w] = InFile(bronze[dataset], file[w])

AloneInv == IInv /\ ItemsDiffer /\ WorkerAlone

\* Two workers that have a file in hand have different files.
LEMMA FilesDiffer ==
  ASSUME OneWriter, AloneInv, NEW v \in Workers, NEW w \in Workers, v # w,
         pc[v] \in {"merged", "writing"}, pc[w] \in {"merged", "writing"}
  PROVE  file[v] # file[w]
<1>1. item[v] \in Listings /\ item[w] \in Listings
  BY DEF AloneInv, IInv, WorkerHolds
<1>2. \A l, m \in Listings : FileOf[l] = FileOf[m] => l = m
  BY DEF OneWriter
<1>3. item[v] # item[w] /\ file[v][1] = FileOf[item[v]] /\ file[w][1] = FileOf[item[w]]
  BY DEF AloneInv, ItemsDiffer, WorkerAlone
<1> QED BY <1>1, <1>2, <1>3

\* The write of a file keeps the rows of Bronze and adds the worker's.
LEMMA CloseKeepsRows ==
  ASSUME AloneInv, NEW w \in Workers, CloseFile(w)
  PROVE  /\ \A ds \in Datasets : bronze[ds] \subseteq bronze'[ds]
         /\ \A r \in pending[w] : r \in pending'[w] \/ r \in bronze'[dataset]
         /\ \A v \in Workers : v # w => pending'[v] = pending[v]
         /\ <<dataset, file[w]>> \notin torn /\ torn' = torn
<1>1. InFile(bronze[dataset], file[w]) = buffer[w] /\ <<dataset, file[w]>> \notin torn
  BY DEF CloseFile, AloneInv, WorkerAlone
<1>2. torn' = torn
  BY <1>1 DEF CloseFile
<1>3. bronze' = [bronze EXCEPT ![dataset] =
         (@ \ InFile(@, file[w])) \cup buffer[w] \cup InFile(pending[w], file[w])]
  BY DEF CloseFile
<1>4. bronze'[dataset] =
        (bronze[dataset] \ InFile(bronze[dataset], file[w])) \cup buffer[w]
          \cup InFile(pending[w], file[w])
  BY <1>3 DEF AloneInv, IInv, TypeOK
<1>5. \A ds \in Datasets : bronze[ds] \subseteq bronze'[ds]
  BY <1>1, <1>3, <1>4 DEF AloneInv, IInv, TypeOK
<1>6. \A r \in pending[w] : r \in pending'[w] \/ r \in bronze'[dataset]
  BY <1>4 DEF CloseFile, AfterFile, InFile, AloneInv, IInv, TypeOK
<1>7. \A v \in Workers : v # w => pending'[v] = pending[v]
  BY DEF CloseFile, AfterFile, AloneInv, IInv, TypeOK
<1> QED BY <1>1, <1>2, <1>5, <1>6, <1>7

LEMMA AloneStep == OneWriter /\ AloneInv /\ [Next]_vars => AloneInv'
<1> SUFFICES ASSUME OneWriter, AloneInv, [Next]_vars PROVE AloneInv'
  OBVIOUS
<1>a. IInv'
  BY StepIInv DEF AloneInv
<1> SUFFICES ItemsDiffer' /\ WorkerAlone'
  BY <1>a DEF AloneInv
<1> USE DEF AloneInv
<1>1. CASE NextDay
  BY <1>1 DEF NextDay, ItemsDiffer, WorkerAlone, lakeVars, workerVars
<1>2. ASSUME NEW ds \in Datasets, NEW r \in Market[ds], Release(ds, r)
      PROVE  ItemsDiffer' /\ WorkerAlone'
  BY <1>2 DEF Release, ItemsDiffer, WorkerAlone, lakeVars, workerVars
<1>3. ASSUME NEW r \in Requests, StartRun(r)
      PROVE  ItemsDiffer' /\ WorkerAlone'
  BY <1>3 DEF StartRun, IInv, WorkerHolds, ItemsDiffer, WorkerAlone, workerVars
<1>4. ASSUME NEW w \in Workers, NEW l \in Listings, LoaderReturns(w, l)
      PROVE  ItemsDiffer' /\ WorkerAlone'
  <2>1. \A r \in Served(l) : r[1] = l
    BY DEF Served
  <2>2. CASE Served(l) = {}
    BY <1>4, <2>2 DEF LoaderReturns, IInv, TypeOK, ItemsDiffer, WorkerAlone, lakeVars
  <2>3. CASE Served(l) # {}
    <3>1. /\ pc'[w] = "loaded" /\ item'[w] = l /\ pending'[w] = Served(l)
          /\ file' = file /\ buffer' = buffer
      BY <1>4, <2>3 DEF LoaderReturns, IInv, TypeOK
    <3>2. \A v \in Workers : v # w =>
            pc'[v] = pc[v] /\ item'[v] = item[v] /\ pending'[v] = pending[v]
      BY <1>4 DEF LoaderReturns, IInv, TypeOK
    <3>3. l \in queue /\ queue' = queue \ {l} /\ UNCHANGED <<torn, bronze, dataset>>
      BY <1>4 DEF LoaderReturns, lakeVars
    <3>4. ItemsDiffer'
      <4>1. \A v \in Workers : v # w /\ pc[v] # "idle" => item[v] # l
        BY <3>3 DEF WorkerAlone
      <4> QED BY <3>1, <3>2, <4>1 DEF ItemsDiffer
    <3>5. WorkerAlone'
      <4>1. ASSUME NEW v \in Workers, v # w, pc[v] # "idle"
            PROVE  /\ pc'[v] # "clashing" /\ item'[v] \notin queue'
                   /\ \A r \in pending'[v] : r[1] = item'[v]
                   /\ pc'[v] \in {"merged", "writing"} =>
                        /\ file'[v][1] = FileOf[item'[v]]
                        /\ <<dataset', file'[v]>> \notin torn'
                        /\ buffer'[v] = InFile(bronze'[dataset'], file'[v])
        BY <2>1, <3>1, <3>2, <3>3, <4>1 DEF WorkerAlone
      <4>2. pc'[w] # "idle" =>
             /\ pc'[w] = "loaded" /\ item'[w] \notin queue'
             /\ \A r \in pending'[w] : r[1] = item'[w]
        BY <2>1, <3>1, <3>2, <3>3 DEF WorkerAlone
      <4> QED BY <2>1, <3>1, <3>2, <3>3, <4>1, <4>2 DEF WorkerAlone
    <3> QED BY <3>4, <3>5
  <2> QED BY <2>2, <2>3
<1>5. ASSUME NEW w \in Workers, NEW l \in Listings, LoaderFails(w, l)
      PROVE  ItemsDiffer' /\ WorkerAlone'
  BY <1>5 DEF LoaderFails, ItemsDiffer, WorkerAlone, lakeVars, workerVars
<1>6. ASSUME NEW w \in Workers, ReadFile(w)
      PROVE  ItemsDiffer' /\ WorkerAlone'
  <2>1. PICK r \in pending[w] :
          /\ ~Unreadable(FileOfRow(r))
          /\ file' = [file EXCEPT ![w] = FileOfRow(r)]
          /\ buffer' = [buffer EXCEPT ![w] = InFile(bronze[dataset], FileOfRow(r))]
    BY <1>6 DEF ReadFile
  <2>2. FileOfRow(r)[1] = FileOf[item[w]] /\ <<dataset, FileOfRow(r)>> \notin torn
    BY <1>6, <2>1 DEF ReadFile, ItemsDiffer, WorkerAlone, FileOfRow, Unreadable
  <2> QED BY <1>6, <2>1, <2>2 DEF ReadFile, IInv, TypeOK, ItemsDiffer, WorkerAlone, lakeVars
<1>7. ASSUME NEW w \in Workers, ReadFails(w)
      PROVE  ItemsDiffer' /\ WorkerAlone'
  BY <1>7 DEF ReadFails, NoWorker, IInv, TypeOK, ItemsDiffer, WorkerAlone, lakeVars
<1>8. ASSUME NEW w \in Workers, OpenFile(w)
      PROVE  ItemsDiffer' /\ WorkerAlone'
  <2>1. WritersOf(file[w]) = {}
    BY <1>8, FilesDiffer DEF OpenFile, WritersOf, ItemsDiffer, WorkerAlone
  <2>2. pc' = [v \in Workers |-> IF v = w THEN "writing" ELSE pc[v]]
    BY <1>8, <2>1 DEF OpenFile
  <2> QED BY <1>8, <2>2 DEF OpenFile, IInv, TypeOK, ItemsDiffer, WorkerAlone, lakeVars
<1>9. ASSUME NEW w \in Workers, CloseFile(w)
      PROVE  ItemsDiffer' /\ WorkerAlone'
  <2>1. torn' = torn
    BY <1>9, CloseKeepsRows
  <2>2. \A v \in Workers : pc[v] \in {"merged", "writing"} /\ v # w =>
          InFile(bronze'[dataset], file[v]) = InFile(bronze[dataset], file[v])
    <3> SUFFICES ASSUME NEW v \in Workers, v # w, pc[v] \in {"merged", "writing"}
                 PROVE  InFile(bronze'[dataset], file[v]) = InFile(bronze[dataset], file[v])
      OBVIOUS
    <3>1. file[v] # file[w]
      BY <1>9, FilesDiffer DEF CloseFile, ItemsDiffer, WorkerAlone
    <3>2. buffer[w] = InFile(bronze[dataset], file[w])
      BY <1>9 DEF CloseFile, ItemsDiffer, WorkerAlone
    <3>3. bronze'[dataset] = bronze[dataset] \cup InFile(pending[w], file[w])
      BY <1>9, <3>2 DEF CloseFile, InFile, IInv, TypeOK
    <3> QED BY <3>1, <3>3 DEF InFile
  <2>3. \A v \in Workers : v # w =>
          pc'[v] = pc[v] /\ item'[v] = item[v] /\ file'[v] = file[v] /\ buffer'[v] = buffer[v]
            /\ pending'[v] = pending[v]
    BY <1>9 DEF CloseFile, AfterFile, IInv, TypeOK
  <2>4. /\ pc'[w] \in {"idle", "loaded"} /\ pending'[w] \subseteq pending[w]
        /\ pc'[w] # "idle" => item'[w] = item[w]
    BY <1>9 DEF CloseFile, AfterFile, IInv, TypeOK
  <2>5. queue' = queue /\ dataset' = dataset
    BY <1>9 DEF CloseFile
  <2>6. pc[w] # "idle"
    BY <1>9 DEF CloseFile
  <2>7. ItemsDiffer'
    BY <2>3, <2>4, <2>6 DEF ItemsDiffer
  <2>8. WorkerAlone'
    <3>1. ASSUME NEW v \in Workers, v # w, pc[v] # "idle"
          PROVE  /\ pc'[v] # "clashing" /\ item'[v] \notin queue'
                 /\ \A r \in pending'[v] : r[1] = item'[v]
                 /\ pc'[v] \in {"merged", "writing"} =>
                      /\ file'[v][1] = FileOf[item'[v]]
                      /\ <<dataset', file'[v]>> \notin torn'
                      /\ buffer'[v] = InFile(bronze'[dataset'], file'[v])
      BY <2>1, <2>2, <2>3, <2>4, <2>5, <2>6, <3>1 DEF WorkerAlone
    <3>2. pc'[w] # "idle" =>
           /\ pc'[w] = "loaded" /\ item'[w] \notin queue'
           /\ \A r \in pending'[w] : r[1] = item'[w]
      BY <2>1, <2>2, <2>3, <2>4, <2>5, <2>6 DEF WorkerAlone
    <3> QED BY <2>1, <2>2, <2>3, <2>4, <2>5, <2>6, <3>1, <3>2 DEF WorkerAlone
  <2> QED BY <2>7, <2>8
<1>10. ASSUME NEW w \in Workers, CloseClashedFile(w)
       PROVE  ItemsDiffer' /\ WorkerAlone'
  BY <1>10 DEF CloseClashedFile, ItemsDiffer, WorkerAlone
<1>11. CASE NextDataset
  BY <1>11 DEF NextDataset, BatchDone, ItemsDiffer, WorkerAlone, workerVars
<1>12. CASE BuildSilver
  BY <1>12 DEF BuildSilver, ItemsDiffer, WorkerAlone, lakeVars, workerVars
<1>13. CASE Abort
  BY <1>13 DEF Abort, BatchDone, IInv, WorkerHolds, ItemsDiffer, WorkerAlone, workerVars
<1>14. ASSUME NEW p \in PathIds, WriteSilver(p)
       PROVE  ItemsDiffer' /\ WorkerAlone'
  BY <1>14 DEF WriteSilver, ItemsDiffer, WorkerAlone, workerVars
<1>15. CASE FinishRun
  BY <1>15 DEF FinishRun, IInv, WorkerHolds, ItemsDiffer, WorkerAlone, workerVars
<1>16. CASE Crash
  BY <1>16 DEF Crash, ItemsDiffer, WorkerAlone
<1>17. CASE UNCHANGED vars
  BY <1>17 DEF ItemsDiffer, WorkerAlone, vars, lakeVars, workerVars
<1> QED
  BY <1>1, <1>2, <1>3, <1>4, <1>5, <1>6, <1>7, <1>8, <1>9, <1>10, <1>11, <1>12,
     <1>13, <1>14, <1>15, <1>16, <1>17
     DEF Next, World, RunStep, Worker

LEMMA InitAlone == Init => AloneInv
BY InitIInv DEF Init, AloneInv, ItemsDiffer, WorkerAlone

-----------------------------------------------------------------------------
(* Rows are kept *)

\* Only a crash takes rows out of Bronze; it marks the files it takes them from.
LEMMA BronzeGrows ==
  ASSUME OneWriter, AloneInv, [Next]_vars
  PROVE  \/ \A ds \in Datasets : bronze[ds] \subseteq bronze'[ds] /\ torn' = torn
         \/ Crash
<1>1. ASSUME NEW w \in Workers, Worker(w)
      PROVE  \A ds \in Datasets : bronze[ds] \subseteq bronze'[ds] /\ torn' = torn
  <2>1. CASE CloseFile(w)
    BY <2>1, CloseKeepsRows
  <2>2. ~CloseClashedFile(w)
    BY DEF CloseClashedFile, AloneInv, WorkerAlone
  <2> QED
    BY <1>1, <2>1, <2>2 DEF Worker, LoaderReturns, LoaderFails, ReadFile, ReadFails,
                            OpenFile, lakeVars
<1>2. CASE \E r \in Requests : StartRun(r)
  BY <1>2 DEF StartRun, lakeVars
<1>3. CASE World \/ NextDataset \/ BuildSilver \/ Abort \/ FinishRun
           \/ \E p \in PathIds : WriteSilver(p)
  BY <1>3 DEF World, NextDay, Release, NextDataset, BuildSilver, Abort, FinishRun,
              WriteSilver, lakeVars
<1>4. CASE UNCHANGED vars
  BY <1>4 DEF vars, lakeVars
<1> QED BY <1>1, <1>2, <1>3, <1>4 DEF Next, RunStep

-----------------------------------------------------------------------------
(* A merge keeps what the file had, for files shared by workers too *)

\* A file that two workers have is in met.  What a worker read of a file that
\* nobody else had since is still all the file holds.
FreshInv ==
  \A w \in Workers :
    /\ pc[w] \in {"idle", "loaded"} => file[w] = None /\ buffer[w] = {}
    /\ \A r \in buffer[w] : FileOfRow(r) = file[w]
    /\ \A v \in Workers :
         v # w /\ file[v] = file[w] /\ file[w] # None => file[w] \in met
    /\ file[w] # None /\ file[w] \notin met =>
         InFile(bronze[dataset], file[w]) \subseteq buffer[w]

LEMMA InitFresh == Init => FreshInv
BY DEF Init, FreshInv

\* What a file that nobody else has read holds is what the worker read.
LEMMA ReadFresh ==
  ASSUME IInv, FreshInv, NEW w \in Workers, ReadFile(w)
  PROVE  FreshInv'
<1>1. PICK f \in {FileOfRow(r) : r \in pending[w]} :
        /\ file' = [file EXCEPT ![w] = f]
        /\ buffer' = [buffer EXCEPT ![w] = InFile(bronze[dataset], f)]
        /\ met' = IF \E v \in Workers : file[v] = f
                  THEN met \cup {f} ELSE met
  BY DEF ReadFile
<1>2. met \subseteq met'
  BY <1>1
<1>3. pc' = [pc EXCEPT ![w] = "merged"] /\ bronze' = bronze /\ dataset' = dataset
  BY DEF ReadFile, lakeVars
<1>4. file'[w] = f /\ buffer'[w] = InFile(bronze[dataset], f)
  BY <1>1 DEF IInv, TypeOK
<1>5. \A v \in Workers : v # w =>
        file'[v] = file[v] /\ buffer'[v] = buffer[v] /\ pc'[v] = pc[v]
  BY <1>1, <1>3 DEF IInv, TypeOK
<1>6. file[w] = None
  BY DEF ReadFile, FreshInv
<1> SUFFICES ASSUME NEW u \in Workers
    PROVE /\ pc'[u] \in {"idle", "loaded"} => file'[u] = None /\ buffer'[u] = {}
          /\ \A x \in buffer'[u] : FileOfRow(x) = file'[u]
          /\ \A v \in Workers :
               v # u /\ file'[v] = file'[u] /\ file'[u] # None => file'[u] \in met'
          /\ file'[u] # None /\ file'[u] \notin met' =>
               InFile(bronze[dataset], file'[u]) \subseteq buffer'[u]
  BY <1>3 DEF FreshInv, FileOfRow, InFile
<1>7. CASE u = w
  <2>1. pc'[w] = "merged"
    BY <1>3 DEF IInv, TypeOK
  <2>2. \A x \in buffer'[w] : FileOfRow(x) = file'[w]
    BY <1>4 DEF InFile
  <2>3. \A v \in Workers : v # w /\ file'[v] = file'[w] => file'[w] \in met'
    BY <1>1, <1>4, <1>5
  <2> QED BY <1>4, <1>7, <2>1, <2>2, <2>3
<1>8. CASE u # w
  <2>1. \A v \in Workers :
          v # u /\ file'[v] = file'[u] /\ file'[u] # None => file'[u] \in met'
    <3> SUFFICES ASSUME NEW v \in Workers, v # u, file'[v] = file'[u], file'[u] # None
                 PROVE  file'[u] \in met'
      OBVIOUS
    <3>1. CASE v = w
      BY <1>1, <1>4, <1>5, <1>8, <3>1
    <3>2. CASE v # w
      BY <1>2, <1>5, <1>8, <3>2 DEF FreshInv
    <3> QED BY <3>1, <3>2
  <2> QED BY <1>2, <1>5, <1>8, <2>1 DEF FreshInv
<1> QED BY <1>7, <1>8

\* A worker that puts its file away changes Bronze in that file at most.
LEMMA LeaveFresh ==
  ASSUME IInv, FreshInv, NEW w \in Workers, file[w] # None, Leaves(w),
         pc'[w] \in {"idle", "loaded"},
         \A v \in Workers : v # w => pc'[v] = pc[v],
         file' = [file EXCEPT ![w] = None], buffer' = [buffer EXCEPT ![w] = {}],
         dataset' = dataset,
         \A f \in BronzeFiles :
           f # file[w] => InFile(bronze'[dataset], f) = InFile(bronze[dataset], f)
  PROVE  FreshInv'
<1>1. file'[w] = None /\ buffer'[w] = {}
  BY DEF IInv, TypeOK
<1>2. \A v \in Workers : v # w => file'[v] = file[v] /\ buffer'[v] = buffer[v]
  BY DEF IInv, TypeOK
<1> SUFFICES ASSUME NEW u \in Workers
    PROVE /\ pc'[u] \in {"idle", "loaded"} => file'[u] = None /\ buffer'[u] = {}
          /\ \A x \in buffer'[u] : FileOfRow(x) = file'[u]
          /\ \A v \in Workers :
               v # u /\ file'[v] = file'[u] /\ file'[u] # None => file'[u] \in met'
          /\ file'[u] # None /\ file'[u] \notin met' =>
               InFile(bronze'[dataset], file'[u]) \subseteq buffer'[u]
  BY DEF FreshInv, FileOfRow, InFile
<1>3. CASE u = w
  BY <1>1, <1>3
<1>4. CASE u # w
  <2>1. \A v \in Workers :
          v # u /\ file'[v] = file'[u] /\ file'[u] # None => file'[u] \in met'
    BY <1>1, <1>2, <1>4 DEF FreshInv, Leaves
  <2>2. ASSUME file[u] # None, file[u] \notin met'
        PROVE  InFile(bronze'[dataset], file[u]) \subseteq buffer[u]
    <3>1. file[u] \notin met
      BY <1>4, <2>2 DEF Leaves
    <3>2. file[u] # file[w]
      BY <1>4, <2>2, <3>1 DEF FreshInv
    <3>3. file[u] \in BronzeFiles
      BY <2>2 DEF IInv, TypeOK
    <3> QED BY <2>2, <3>1, <3>2, <3>3 DEF FreshInv
  <2> QED BY <1>2, <1>4, <2>1, <2>2 DEF FreshInv
<1> QED BY <1>3, <1>4

LEMMA FreshStep == IInv /\ FreshInv /\ [Next]_vars => FreshInv'
<1> SUFFICES ASSUME IInv, FreshInv, [Next]_vars PROVE FreshInv'
  OBVIOUS
<1> USE ConstantsAssumption
<1>1. ASSUME UNCHANGED <<bronze, dataset, pc, file, buffer, met>>
      PROVE  FreshInv'
  BY <1>1 DEF FreshInv, FileOfRow, InFile
<1>2. ASSUME \A w \in Workers : pc'[w] = "idle" /\ file'[w] = None /\ buffer'[w] = {}
      PROVE  FreshInv'
  BY <1>2 DEF FreshInv
<1>3. ASSUME NEW w \in Workers, NEW l \in Listings, LoaderReturns(w, l)
      PROVE  FreshInv'
  BY <1>3 DEF LoaderReturns, FreshInv, FileOfRow, InFile, IInv, TypeOK, lakeVars
<1>4. ASSUME NEW w \in Workers, NEW l \in Listings, LoaderFails(w, l)
      PROVE  FreshInv'
  BY <1>1, <1>4 DEF LoaderFails, lakeVars, workerVars
<1>5. ASSUME NEW w \in Workers, ReadFile(w)
      PROVE  FreshInv'
  BY <1>5, ReadFresh
<1>6. ASSUME NEW w \in Workers, ReadFails(w)
      PROVE  FreshInv'
  <2>1. /\ file[w] = None /\ buffer[w] = {}
        /\ file' = file /\ buffer' = buffer
        /\ \A v \in Workers : v # w => pc'[v] = pc[v]
    BY <1>6 DEF ReadFails, NoWorker, FreshInv, IInv, TypeOK
  <2>2. \A v \in Workers : file[v] # None => (file[v] \in met <=> file[v] \in met')
    BY <1>6, <2>1 DEF ReadFails, NoWorker, Leaves
  <2> QED
    BY <1>6, <2>1, <2>2 DEF ReadFails, FreshInv, FileOfRow, InFile, lakeVars
<1>7. ASSUME NEW w \in Workers, OpenFile(w)
      PROVE  FreshInv'
  BY <1>7 DEF OpenFile, WritersOf, FreshInv, FileOfRow, InFile, IInv, TypeOK, lakeVars
<1>8. ASSUME NEW w \in Workers, CloseFile(w)
      PROVE  FreshInv'
  <2>1. file[w] # None
    BY <1>8 DEF CloseFile, IInv, WorkerHolds
  <2>2. bronze'[dataset] =
          (bronze[dataset] \ InFile(bronze[dataset], file[w])) \cup buffer[w]
            \cup InFile(pending[w], file[w])
    BY <1>8 DEF CloseFile, IInv, TypeOK
  <2>3. \A r \in buffer[w] : FileOfRow(r) = file[w]
    BY DEF FreshInv
  <2>4. \A f \in BronzeFiles :
          f # file[w] => InFile(bronze'[dataset], f) = InFile(bronze[dataset], f)
    BY <2>2, <2>3 DEF InFile
  <2> QED
    BY <1>8, <2>1, <2>4, LeaveFresh DEF CloseFile, AfterFile, IInv, TypeOK
<1>9. ASSUME NEW w \in Workers, CloseClashedFile(w)
      PROVE  FreshInv'
  <2>1. file[w] # None
    BY <1>9 DEF CloseClashedFile, IInv, WorkerHolds
  <2>2. bronze'[dataset] = bronze[dataset] \ InFile(bronze[dataset], file[w])
    BY <1>9 DEF CloseClashedFile, IInv, TypeOK
  <2>3. \A f \in BronzeFiles :
          f # file[w] => InFile(bronze'[dataset], f) = InFile(bronze[dataset], f)
    BY <2>2 DEF InFile
  <2> QED
    BY <1>9, <2>1, <2>3, LeaveFresh DEF CloseClashedFile, AfterFile, IInv, TypeOK
<1>10. CASE NextDataset
  BY <1>2, <1>10 DEF NextDataset, BatchDone, FreshInv, workerVars
<1>11. CASE Crash
  BY <1>2, <1>11 DEF Crash
<1>12. ASSUME NEW r \in Requests, StartRun(r)
       PROVE  FreshInv'
  <2>1. \A w \in Workers : pc[w] = "idle"
    BY <1>12 DEF StartRun, IInv, WorkerHolds
  <2> QED BY <1>2, <1>12, <2>1 DEF StartRun, FreshInv, workerVars
<1>13. CASE Abort \/ FinishRun
  <2>1. \A w \in Workers : pc[w] = "idle"
    BY <1>13 DEF Abort, FinishRun, BatchDone, IInv, WorkerHolds
  <2> QED BY <1>2, <1>13, <2>1 DEF Abort, FinishRun, FreshInv, workerVars
<1>14. ASSUME NEW ds \in Datasets, NEW r \in Market[ds], Release(ds, r)
       PROVE  FreshInv'
  BY <1>1, <1>14 DEF Release, lakeVars, workerVars
<1>15. ASSUME NEW p \in PathIds, WriteSilver(p)
       PROVE  FreshInv'
  BY <1>1, <1>15 DEF WriteSilver, workerVars
<1>16. CASE NextDay \/ BuildSilver
  BY <1>1, <1>16 DEF NextDay, BuildSilver, lakeVars, workerVars
<1>17. CASE UNCHANGED vars
  BY <1>1, <1>17 DEF vars, lakeVars, workerVars
<1> QED
  BY <1>3, <1>4, <1>5, <1>6, <1>7, <1>8, <1>9, <1>10, <1>11, <1>12, <1>13, <1>14,
     <1>15, <1>16, <1>17 DEF Next, World, RunStep, Worker

\* A step of Bronze: a row is kept, or its file was met or is torn.
LEMMA KeptStep ==
  ASSUME IInv, FreshInv, [Next]_vars, NEW ds \in Datasets, NEW r \in bronze[ds]
  PROVE  \/ r \in bronze'[ds]
         \/ ds = dataset /\ FileOfRow(r) \in met
         \/ <<ds, FileOfRow(r)>> \in torn'
<1>1. ASSUME NEW w \in Workers, CloseFile(w)
      PROVE  r \in bronze'[ds] \/ (ds = dataset /\ FileOfRow(r) \in met)
  <2>1. file[w] # None
    BY <1>1, ConstantsAssumption DEF CloseFile, IInv, WorkerHolds
  <2>2. ds # dataset => bronze'[ds] = bronze[ds]
    BY <1>1 DEF CloseFile, IInv, TypeOK
  <2>3. bronze'[dataset] =
          (bronze[dataset] \ InFile(bronze[dataset], file[w])) \cup buffer[w]
            \cup InFile(pending[w], file[w])
    BY <1>1 DEF CloseFile, IInv, TypeOK
  <2>4. CASE ds = dataset /\ FileOfRow(r) = file[w]
    BY <2>1, <2>3, <2>4 DEF FreshInv, InFile
  <2>5. CASE ds = dataset /\ FileOfRow(r) # file[w]
    BY <2>3, <2>5 DEF InFile
  <2> QED BY <2>2, <2>4, <2>5
<1>2. ASSUME NEW w \in Workers, CloseClashedFile(w)
      PROVE  r \in bronze'[ds] \/ <<ds, FileOfRow(r)>> \in torn'
  <2>1. ds # dataset => bronze'[ds] = bronze[ds]
    BY <1>2 DEF CloseClashedFile, IInv, TypeOK
  <2>2. bronze'[dataset] = bronze[dataset] \ InFile(bronze[dataset], file[w])
    BY <1>2 DEF CloseClashedFile, IInv, TypeOK
  <2>3. <<dataset, file[w]>> \in torn'
    BY <1>2 DEF CloseClashedFile
  <2> QED BY <2>1, <2>2, <2>3 DEF InFile
<1>3. ASSUME Crash
      PROVE  r \in bronze'[ds] \/ <<ds, FileOfRow(r)>> \in torn'
  <2> DEFINE open == {file[w] : w \in {v \in Workers : pc[v] \in {"writing", "clashing"}}}
  <2>1. ds # dataset => bronze'[ds] = bronze[ds]
    BY <1>3 DEF Crash, IInv, TypeOK
  <2>2. bronze'[dataset] = {x \in bronze[dataset] : FileOfRow(x) \notin open}
    BY <1>3 DEF Crash, IInv, TypeOK
  <2>3. torn' = torn \cup ({dataset} \X open)
    BY <1>3 DEF Crash
  <2> HIDE DEF open
  <2> QED BY <2>1, <2>2, <2>3
<1>4. ASSUME bronze' = bronze
      PROVE  r \in bronze'[ds]
  BY <1>4
<1>5. ASSUME NEW w \in Workers, Worker(w), ~CloseFile(w), ~CloseClashedFile(w)
      PROVE  bronze' = bronze
  BY <1>5 DEF Worker, LoaderReturns, LoaderFails, ReadFile, ReadFails, OpenFile, lakeVars
<1>6. CASE \E q \in Requests : StartRun(q)
  BY <1>4, <1>6 DEF StartRun, lakeVars
<1>7. CASE World \/ NextDataset \/ BuildSilver \/ Abort \/ FinishRun
           \/ \E p \in PathIds : WriteSilver(p)
  BY <1>4, <1>7 DEF World, NextDay, Release, NextDataset, BuildSilver, Abort, FinishRun,
                    WriteSilver, lakeVars
<1>8. CASE UNCHANGED vars
  BY <1>4, <1>8 DEF vars, lakeVars
<1> QED BY <1>1, <1>2, <1>3, <1>4, <1>5, <1>6, <1>7, <1>8 DEF Next, RunStep

\* No error, retry, abort or later run takes a row out of Bronze: it is lost only from a
\* file that two workers had at once or whose rewrite was torn.  It holds of every lake,
\* with shared files, any number of workers and any number of process deaths.
THEOREM BronzeKeepsRowsCorrect == Spec => BronzeKeepsRows
<1> DEFINE Kept == \A ds \in Datasets : \A r \in bronze[ds] :
                     \/ r \in bronze'[ds]
                     \/ ds = dataset /\ FileOfRow(r) \in met
                     \/ <<ds, FileOfRow(r)>> \in torn'
<1>1. IInv /\ FreshInv /\ [Next]_vars => Kept
  BY KeptStep
<1>2. IInv /\ FreshInv /\ [Next]_vars => [Kept]_vars
  BY <1>1
<1>3. BronzeKeepsRows <=> [][Kept]_vars
  BY DEF BronzeKeepsRows
<1> HIDE DEF Kept
<1> QED BY <1>2, <1>3, InitIInv, StepIInv, InitFresh, FreshStep, PTL DEF Spec

\* Silver holds nothing that Bronze lost except what a crash tore, for any
\* number of crashes.
THEOREM SilverFromBronzeCorrect ==
  ASSUME OneWriter
  PROVE  Spec => []SilverFromBronze
<1>1. Init => SilverFromBronze
  BY DEF Init, SilverFromBronze
<1>2. AloneInv /\ SilverFromBronze /\ [Next]_vars => SilverFromBronze'
  <2> SUFFICES ASSUME AloneInv, SilverFromBronze, [Next]_vars,
                      NEW r \in silver'
               PROVE  r \in bronze'["quotes"] \/ <<"quotes", FileOfRow(r)>> \in torn'
    BY DEF SilverFromBronze
  <2>1. CASE Crash
    <3> DEFINE open == {file[w] : w \in {v \in Workers : pc[v] \in {"writing", "clashing"}}}
    <3>1. r \in silver
      BY <2>1 DEF Crash
    <3>2. \/ bronze'["quotes"] = bronze["quotes"]
          \/ /\ dataset = "quotes"
             /\ bronze'["quotes"] = {x \in bronze["quotes"] : FileOfRow(x) \notin open}
      BY <2>1 DEF Crash, AloneInv, IInv, TypeOK, Datasets
    <3>3. torn' = torn \cup ({dataset} \X open)
      BY <2>1 DEF Crash
    <3> QED BY <3>1, <3>2, <3>3 DEF SilverFromBronze
  <2>2. CASE r \in silver /\ ~Crash
    BY <2>2, BronzeGrows DEF SilverFromBronze, Datasets
  <2>3. CASE r \notin silver /\ ~Crash
    <3>1. PICK p \in PathIds : WriteSilver(p)
      BY <2>3 DEF Next, World, NextDay, Release, StartRun, RunStep, Worker, LoaderReturns,
         LoaderFails, ReadFile, ReadFails, OpenFile, CloseFile, CloseClashedFile,
         NextDataset, BuildSilver, Abort, FinishRun, vars, lakeVars
    <3> QED BY <2>3, <3>1 DEF WriteSilver
  <2> QED BY <2>1, <2>2, <2>3
<1>3. OneWriter
  OBVIOUS
<1> QED BY <1>1, <1>2, <1>3, InitAlone, AloneStep, PTL DEF Spec

-----------------------------------------------------------------------------
(* A clean run closes the gaps it saw *)

Wanted(r) == r[1] \in request.sel /\ r[2] \in TradingDays /\ r[2] <= asOf

\* The listing of r waits for a worker, and its window reaches r.
Queued(r) ==
  phase = "bronze" /\ dataset = "quotes" /\ r[1] \in queue /\ r[2] \in window[r[1]]

\* A worker has r in hand.
InHand(r) == dataset = "quotes" /\ \E w \in Workers : r \in pending[w]

\* r is in Bronze, and Silver will be rebuilt from it.
Landed(r) ==
  r \in bronze["quotes"] /\ (phase = "silver" => FileOf[r[1]] \in silverTodo)

\* Where a row the gap plan is to fetch can be while the run goes on.
RunCovers ==
  phase # "idle" /\ request.gap =>
    \A r \in need :
      /\ r \in published["quotes"]
      /\ Wanted(r) => \/ r \in silver \/ <<"quotes", r[1]>> \in errors
                     \/ Queued(r) \/ InHand(r) \/ Landed(r)

LEMMA CoversStep ==
  ASSUME OneWriter, AloneInv, RunCovers, [Next]_vars
  PROVE  RunCovers'
<1> USE DEF AloneInv
<1>1. CASE NextDay
  BY <1>1 DEF NextDay, RunCovers, Wanted, Queued, InHand, Landed, lakeVars,
              workerVars, planVars
<1>2. ASSUME NEW ds \in Datasets, NEW r \in Market[ds], Release(ds, r)
      PROVE  RunCovers'
  <2>1. published["quotes"] \subseteq published'["quotes"]
    BY <1>2 DEF Release, IInv, TypeOK, Datasets
  <2> QED
    BY <1>2, <2>1 DEF Release, RunCovers, Wanted, Queued, InHand, Landed, lakeVars,
                      workerVars, planVars
<1>3. ASSUME NEW r \in Requests, StartRun(r)
      PROVE  RunCovers'
  <2> SUFFICES ASSUME r.gap, NEW n \in need', Wanted(n)', n \notin silver
               PROVE  n \in published'["quotes"] /\ Queued(n)'
    BY <1>3 DEF StartRun, RunCovers, lakeVars
  <2>1. /\ n \in published["quotes"] /\ n \in Rows
        /\ \E k \in Known(n[1]) : k <= n[2]
    BY <1>3 DEF StartRun, IInv, TypeOK, Datasets
  <2>2. n = <<n[1], n[2]>> /\ n[1] \in Listings /\ n[2] \in Days
    BY <2>1 DEF Rows
  <2>3. n[1] \in r.sel /\ n[2] \in TradingDays /\ n[2] <= EndDay(r)
    BY <1>3 DEF StartRun, Wanted
  <2>4. n[2] \in Missing(n[1], EndDay(r))
    BY <2>1, <2>2, <2>3 DEF Missing, Known
  <2>5. n[1] \in Planned(r)
    BY <2>3, <2>4 DEF Planned
  <2>6. n[2] \in Window(r, n[1])
    BY <2>2, <2>3, <2>4 DEF Window, Days
  <2> QED BY <1>3, <2>1, <2>2, <2>5, <2>6 DEF StartRun, Queued
<1>4. ASSUME NEW w \in Workers, NEW l \in Listings, LoaderReturns(w, l)
      PROVE  RunCovers'
  <2> SUFFICES ASSUME request.gap, NEW r \in need, Wanted(r)
               PROVE  r \in published["quotes"]
                      /\ (\/ r \in silver \/ <<"quotes", r[1]>> \in errors
                          \/ Queued(r)' \/ InHand(r)' \/ Landed(r))
    BY <1>4 DEF LoaderReturns, RunCovers, Wanted, Landed, lakeVars, planVars
  <2>1. /\ r \in published["quotes"]
        /\ \/ r \in silver \/ <<"quotes", r[1]>> \in errors
           \/ Queued(r) \/ InHand(r) \/ Landed(r)
    BY <1>4 DEF LoaderReturns, RunCovers
  <2>2. CASE InHand(r)
    <3>1. \A v \in Workers : pending[v] # {} => v # w
      BY <1>4 DEF LoaderReturns, IInv, WorkerHolds
    <3>2. \A v \in Workers : v # w => pending'[v] = pending[v]
      BY <1>4 DEF LoaderReturns, IInv, TypeOK
    <3> QED BY <1>4, <2>1, <2>2, <3>1, <3>2 DEF InHand, LoaderReturns
  <2>3. CASE Queued(r) /\ r[1] = l
    <3>1. r \in Served(l)
      BY <2>1, <2>3 DEF Queued, Served
    <3>2. r \in pending'[w]
      BY <1>4, <3>1 DEF LoaderReturns, IInv, TypeOK
    <3> QED BY <1>4, <2>1, <2>3, <3>2 DEF LoaderReturns, InHand, Queued
  <2>4. CASE Queued(r) /\ r[1] # l
    BY <1>4, <2>1, <2>4 DEF LoaderReturns, Queued, planVars
  <2> QED BY <2>1, <2>2, <2>3, <2>4
<1>5. ASSUME NEW w \in Workers, NEW l \in Listings, LoaderFails(w, l)
      PROVE  RunCovers'
  BY <1>5 DEF LoaderFails, RunCovers, Wanted, Queued, InHand, Landed, lakeVars,
              workerVars, planVars
<1>6. ASSUME NEW w \in Workers, ReadFile(w)
      PROVE  RunCovers'
  BY <1>6 DEF ReadFile, RunCovers, Wanted, Queued, InHand, Landed, lakeVars, planVars
<1>7. ASSUME NEW w \in Workers, ReadFails(w)
      PROVE  RunCovers'
  <2> SUFFICES ASSUME request.gap, NEW r \in need, Wanted(r)
               PROVE  r \in published["quotes"]
                      /\ (\/ r \in silver \/ <<"quotes", r[1]>> \in errors'
                          \/ Queued(r) \/ InHand(r)' \/ Landed(r))
    BY <1>7 DEF ReadFails, RunCovers, Wanted, Queued, Landed, lakeVars, planVars
  <2>1. /\ phase = "bronze"
        /\ \A v \in Workers : v # w => pending'[v] = pending[v]
    BY <1>7 DEF ReadFails, NoWorker, IInv, TypeOK, WorkerHolds
  <2>2. \A x \in pending[w] : x[1] = item[w]
    BY <1>7 DEF ReadFails, WorkerAlone
  <2>3. CASE InHand(r) /\ r \in pending[w]
    BY <1>7, <2>1, <2>2, <2>3 DEF ReadFails, InHand, RunCovers
  <2>4. CASE InHand(r) /\ r \notin pending[w]
    BY <1>7, <2>1, <2>4 DEF ReadFails, InHand, RunCovers
  <2> QED BY <1>7, <2>1, <2>3, <2>4 DEF ReadFails, RunCovers
<1>8. ASSUME NEW w \in Workers, OpenFile(w)
      PROVE  RunCovers'
  BY <1>8 DEF OpenFile, RunCovers, Wanted, Queued, InHand, Landed, lakeVars, planVars
<1>9. ASSUME NEW w \in Workers, CloseFile(w)
      PROVE  RunCovers'
  <2> SUFFICES ASSUME request.gap, NEW r \in need, Wanted(r)
               PROVE  r \in published["quotes"]
                      /\ (\/ r \in silver \/ <<"quotes", r[1]>> \in errors
                          \/ Queued(r) \/ InHand(r)' \/ Landed(r)')
    BY <1>9 DEF CloseFile, RunCovers, Wanted, Queued, planVars
  <2>1. phase = "bronze" /\ phase' = "bronze" /\ dataset' = dataset
    BY <1>9 DEF CloseFile, IInv, WorkerHolds
  <2>2. r \in published["quotes"]
    BY <2>1 DEF RunCovers
  <2>3. CASE InHand(r)
    <3>1. PICK v \in Workers : r \in pending[v]
      BY <2>3 DEF InHand
    <3>2. r \in pending'[v] \/ r \in bronze'[dataset]
      BY <1>9, <3>1, CloseKeepsRows
    <3> QED BY <2>1, <2>2, <2>3, <3>2 DEF InHand, Landed
  <2>4. CASE Landed(r)
    <3>1. bronze["quotes"] \subseteq bronze'["quotes"]
      BY <1>9, CloseKeepsRows DEF Datasets
    <3> QED BY <2>1, <2>2, <2>4, <3>1 DEF Landed
  <2> QED BY <2>1, <2>2, <2>3, <2>4 DEF RunCovers
<1>10. ASSUME NEW w \in Workers, CloseClashedFile(w)
       PROVE  RunCovers'
  BY <1>10 DEF CloseClashedFile, WorkerAlone
<1>11. CASE NextDataset
  <2>1. queue = {} /\ \A w \in Workers : pending[w] = {}
    BY <1>11 DEF NextDataset, BatchDone, IInv, WorkerHolds
  <2> QED
    BY <1>11, <2>1 DEF NextDataset, RunCovers, Wanted, Queued, InHand, Landed,
                       lakeVars, workerVars, planVars
<1>12. CASE BuildSilver
  <2>1. queue = {} /\ \A w \in Workers : pending[w] = {}
    BY <1>12 DEF BuildSilver, BatchDone, IInv, WorkerHolds
  <2>2. phase = "bronze"
    BY <1>12 DEF BuildSilver, BatchDone
  <2>3. \A r \in bronze["quotes"] : FileOf[r[1]] \in silverTodo'
    BY <1>12 DEF BuildSilver
  <2> QED
    BY <1>12, <2>1, <2>2, <2>3 DEF BuildSilver, RunCovers, Wanted, Queued, InHand,
                              Landed, lakeVars, workerVars, planVars
<1>13. CASE Abort
  BY <1>13 DEF Abort, RunEnds, RunCovers
<1>14. ASSUME NEW p \in PathIds, WriteSilver(p)
       PROVE  RunCovers'
  BY <1>14 DEF WriteSilver, RunCovers, Wanted, Queued, InHand, Landed, workerVars,
               planVars
<1>15. CASE FinishRun
  BY <1>15 DEF FinishRun, RunEnds, RunCovers
<1>16. CASE Crash
  BY <1>16 DEF Crash, RunEnds, RunCovers
<1>17. CASE UNCHANGED vars
  BY <1>17 DEF RunCovers, Wanted, Queued, InHand, Landed, vars, lakeVars, workerVars,
               planVars
<1> QED
  BY <1>1, <1>2, <1>3, <1>4, <1>5, <1>6, <1>7, <1>8, <1>9, <1>10, <1>11, <1>12,
     <1>13, <1>14, <1>15, <1>16, <1>17
     DEF Next, World, RunStep, Worker

\* A gap-aware run that ends without an error row has every quote that was out
\* when it planned and that its plan was to close, crashes before it or not.
THEOREM CleanRunClosesGapsCorrect ==
  ASSUME OneWriter
  PROVE  Spec => []CleanRunClosesGaps
<1>1. Init => RunCovers
  BY DEF Init, RunCovers
<1>2. AloneInv /\ RunCovers /\ [Next]_vars => RunCovers'
  BY CoversStep
<1>3. AloneInv /\ RunCovers => CleanRunClosesGaps
  <2> SUFFICES ASSUME AloneInv, RunCovers, CleanFinish, NEW r \in need, Wanted(r)
               PROVE  r \in silver
    BY DEF CleanRunClosesGaps, Wanted
  <2>1. \A w \in Workers : pending[w] = {}
    BY DEF CleanFinish, AboutToFinish, AloneInv, IInv, WorkerHolds
  <2> QED
    BY <2>1 DEF RunCovers, CleanFinish, AboutToFinish, Queued, InHand, Landed
<1>4. OneWriter
  OBVIOUS
<1> QED BY <1>1, <1>2, <1>3, <1>4, InitAlone, AloneStep, PTL DEF Spec

-----------------------------------------------------------------------------
(* What Silver lacks, in a lake in which no process dies *)

\* No file is torn.  Bronze rows that Silver lacks are of listings the run at
\* work has planned, and fetched by now; Silver will be rebuilt from them.
SilverFollows ==
  /\ torn = {} /\ tornSilver = {}
  /\ silver \subseteq bronze["quotes"]
  /\ \A w \in Workers : pc[w] # "idle" => item[w] \in plan
  /\ \A r \in bronze["quotes"] \ silver :
       /\ phase # "idle" /\ r[1] \in plan
       /\ phase = "bronze" /\ dataset = "quotes" => r[1] \notin queue
       /\ phase = "silver" => FileOf[r[1]] \in silverTodo

\* A listing that was left out of a gap-aware plan has no gap.
PlanIsSound ==
  phase # "idle" =>
    /\ plan \subseteq request.sel
    /\ request.gap => \A l \in request.sel \ plan : Missing(l, asOf) = {}

FollowInv == AloneInv /\ SilverFollows /\ PlanIsSound

\* Nothing is torn and nobody clashes: a run is never aborted and no read fails.
LEMMA NothingBreaks ==
  ASSUME OneWriter, MaxCrashes = 0, AloneInv, SilverFollows
  PROVE  /\ ~Crash /\ ~Abort
         /\ \A w \in Workers : ~CloseClashedFile(w) /\ ~ReadFails(w)
<1>1. ~Crash
  BY DEF Crash, AloneInv, IInv, TypeOK
<1>2. ~Abort
  BY DEF Abort, SilverFollows
<1>3. ASSUME NEW w \in Workers
      PROVE  ~CloseClashedFile(w)
  BY DEF CloseClashedFile, AloneInv, WorkerAlone
<1>4. ASSUME NEW w \in Workers, ReadFails(w)
      PROVE  FALSE
  <2>1. PICK r \in pending[w] : Unreadable(FileOfRow(r))
    BY <1>4 DEF ReadFails
  <2>2. PICK v \in Workers : pc[v] \in {"writing", "clashing"} /\ file[v] = FileOfRow(r)
    BY <2>1 DEF Unreadable, WritersOf, SilverFollows
  <2>3. pc[w] = "loaded" /\ v # w /\ pc[v] = "writing"
    BY <1>4, <2>2 DEF ReadFails, AloneInv, WorkerAlone
  <2>4. FileOf[item[v]] = FileOf[item[w]]
    <3>1. r[1] = item[w] /\ file[v][1] = FileOf[item[v]]
      BY <2>3 DEF AloneInv, WorkerAlone
    <3> QED BY <2>2, <3>1 DEF FileOfRow
  <2>5. item[v] \in Listings /\ item[w] \in Listings /\ item[v] # item[w]
    BY <2>3 DEF AloneInv, ItemsDiffer, IInv, WorkerHolds
  <2> QED BY <2>3, <2>4, <2>5 DEF OneWriter
<1> QED BY <1>1, <1>2, <1>3, <1>4

\* The rows a write adds to Bronze are the worker's.
LEMMA CloseAddsPending ==
  ASSUME AloneInv, NEW w \in Workers, CloseFile(w)
  PROVE  /\ bronze'[dataset] \subseteq bronze[dataset] \cup pending[w]
         /\ \A ds \in Datasets : ds # dataset => bronze'[ds] = bronze[ds]
         /\ \A v \in Workers : pending'[v] \subseteq pending[v]
         /\ \A v \in Workers : pc'[v] # "idle" => pc[v] # "idle" /\ item'[v] = item[v]
<1>1. buffer[w] \subseteq bronze[dataset]
  BY DEF CloseFile, AloneInv, WorkerAlone, InFile
<1>2. bronze'[dataset] \subseteq bronze[dataset] \cup pending[w]
  BY <1>1 DEF CloseFile, InFile, AloneInv, IInv, TypeOK
<1>3. \A ds \in Datasets : ds # dataset => bronze'[ds] = bronze[ds]
  BY DEF CloseFile, AloneInv, IInv, TypeOK
<1>4. \A v \in Workers : pending'[v] \subseteq pending[v]
  BY DEF CloseFile, AfterFile, AloneInv, IInv, TypeOK
<1>5. \A v \in Workers : pc'[v] # "idle" => pc[v] # "idle" /\ item'[v] = item[v]
  BY DEF CloseFile, AfterFile, AloneInv, IInv, TypeOK
<1> QED BY <1>2, <1>3, <1>4, <1>5

LEMMA FollowStep ==
  ASSUME OneWriter, MaxCrashes = 0, FollowInv, [Next]_vars
  PROVE  FollowInv'
<1>a. AloneInv'
  BY AloneStep DEF FollowInv
<1> SUFFICES SilverFollows' /\ PlanIsSound'
  BY <1>a DEF FollowInv
<1> USE DEF FollowInv
<1>1. CASE NextDay
  BY <1>1 DEF NextDay, SilverFollows, PlanIsSound, Missing, Known, lakeVars, workerVars,
              planVars
<1>2. ASSUME NEW ds \in Datasets, NEW r \in Market[ds], Release(ds, r)
      PROVE  SilverFollows' /\ PlanIsSound'
  BY <1>2 DEF Release, SilverFollows, PlanIsSound, Missing, Known, lakeVars, workerVars,
              planVars
<1>3. ASSUME NEW q \in Requests, StartRun(q)
      PROVE  SilverFollows' /\ PlanIsSound'
  <2>1. SilverFollows'
    BY <1>3 DEF StartRun, SilverFollows, AloneInv, IInv, WorkerHolds, lakeVars, workerVars
  <2>2. PlanIsSound'
    BY <1>3 DEF StartRun, PlanIsSound, Planned, Missing, Known, lakeVars
  <2> QED BY <2>1, <2>2
<1>4. ASSUME NEW w \in Workers, NEW l \in Listings, LoaderReturns(w, l)
      PROVE  SilverFollows' /\ PlanIsSound'
  <2>1. \A v \in Workers : pc'[v] # "idle" => item'[v] \in plan
    BY <1>4 DEF LoaderReturns, SilverFollows, AloneInv, IInv, TypeOK
  <2> QED
    BY <1>4, <2>1 DEF LoaderReturns, SilverFollows, PlanIsSound, Missing, Known, lakeVars,
                      planVars
<1>5. ASSUME NEW w \in Workers, NEW l \in Listings, LoaderFails(w, l)
      PROVE  SilverFollows' /\ PlanIsSound'
  BY <1>5 DEF LoaderFails, SilverFollows, PlanIsSound, Missing, Known, lakeVars, workerVars,
              planVars
<1>6. ASSUME NEW w \in Workers, ReadFile(w) \/ OpenFile(w)
      PROVE  SilverFollows' /\ PlanIsSound'
  <2>1. \A v \in Workers : pc'[v] # "idle" => pc[v] # "idle"
    BY <1>6 DEF ReadFile, OpenFile, WritersOf, AloneInv, IInv, TypeOK
  <2>2. UNCHANGED <<item, phase, dataset, queue, silverTodo, lakeVars, planVars>>
    BY <1>6 DEF ReadFile, OpenFile
  <2> QED
    BY <2>1, <2>2 DEF SilverFollows, PlanIsSound, Missing, Known, lakeVars, planVars
<1>7. ASSUME NEW w \in Workers, CloseFile(w)
      PROVE  SilverFollows' /\ PlanIsSound'
  <2>1. /\ phase = "bronze" /\ item[w] \in plan /\ item[w] \notin queue
        /\ \A r \in pending[w] : r[1] = item[w]
    BY <1>7 DEF CloseFile, SilverFollows, AloneInv, WorkerAlone, IInv, WorkerHolds
  <2>2. UNCHANGED <<silver, tornSilver, phase, plan, dataset, queue, silverTodo>> /\ torn' = {}
    BY <1>7 DEF CloseFile, planVars, SilverFollows
  <2>3. silver' \subseteq bronze'["quotes"]
    BY <1>7, <2>2, CloseKeepsRows DEF SilverFollows, Datasets
  <2>4. \A v \in Workers : pc'[v] # "idle" => item'[v] \in plan'
    BY <1>7, <2>2, CloseAddsPending DEF SilverFollows
  <2>5. ASSUME NEW r \in bronze'["quotes"] \ silver'
        PROVE  r[1] \in plan /\ (dataset = "quotes" => r[1] \notin queue)
    <3>1. CASE r \in bronze["quotes"]
      BY <2>1, <2>2, <2>5, <3>1 DEF SilverFollows
    <3>2. CASE r \notin bronze["quotes"]
      BY <1>7, <2>1, <2>5, <3>2, CloseAddsPending DEF Datasets
    <3> QED BY <3>1, <3>2
  <2>6. SilverFollows'
    BY <2>1, <2>2, <2>3, <2>4, <2>5 DEF SilverFollows
  <2>7. PlanIsSound'
    BY <1>7 DEF CloseFile, PlanIsSound, Missing, Known, planVars
  <2> QED BY <2>6, <2>7
<1>8. CASE NextDataset
  <2>1. dataset' # "quotes" /\ phase = "bronze"
    BY <1>8, ConstantsAssumption DEF NextDataset, BatchDone, AloneInv, IInv, TypeOK
  <2> QED
    BY <1>8, <2>1 DEF NextDataset, SilverFollows, PlanIsSound, Missing, Known, lakeVars,
                      workerVars, planVars
<1>9. CASE BuildSilver
  <2>1. /\ phase = "bronze" /\ phase' = "silver"
        /\ silverTodo' = {FileOf[r[1]] : r \in bronze["quotes"]}
        /\ UNCHANGED <<lakeVars, planVars, pc, item>>
    BY <1>9 DEF BuildSilver, BatchDone, workerVars
  <2> QED
    BY <2>1 DEF SilverFollows, PlanIsSound, Missing, Known, lakeVars, planVars
<1>10. ASSUME NEW p \in PathIds, WriteSilver(p)
       PROVE  SilverFollows' /\ PlanIsSound'
  <2>1. /\ phase = "silver" /\ silverTodo' = silverTodo \ {p}
        /\ silver' = silver \cup {r \in bronze["quotes"] : FileOf[r[1]] = p}
        /\ UNCHANGED <<bronze, torn, tornSilver, phase, dataset, queue, pc, item, planVars>>
    BY <1>10 DEF WriteSilver, workerVars
  <2>2. SilverFollows'
    BY <2>1 DEF SilverFollows, planVars
  <2>3. ASSUME NEW l \in request.sel \ plan
        PROVE  Known(l)' = Known(l)
    <3>1. \A d \in Days : <<l, d>> \in bronze["quotes"] => <<l, d>> \in silver
      BY <2>3 DEF SilverFollows
    <3> QED BY <2>1, <3>1 DEF Known
  <2>4. PlanIsSound'
    BY <2>1, <2>3 DEF PlanIsSound, Missing, planVars
  <2> QED BY <2>2, <2>4
<1>11. CASE FinishRun
  <2>1. \A w \in Workers : pc[w] = "idle"
    BY <1>11 DEF FinishRun, AloneInv, IInv, WorkerHolds
  <2> QED
    BY <1>11, <2>1 DEF FinishRun, RunEnds, SilverFollows, PlanIsSound, lakeVars, workerVars
<1>12. CASE UNCHANGED vars
  BY <1>12 DEF SilverFollows, PlanIsSound, Missing, Known, vars, lakeVars, workerVars, planVars
<1> QED
  BY <1>1, <1>2, <1>3, <1>4, <1>5, <1>6, <1>7, <1>8, <1>9, <1>10, <1>11, <1>12, NothingBreaks
     DEF Next, World, RunStep, Worker

LEMMA InitFollow == Init => FollowInv
BY InitAlone DEF Init, FollowInv, SilverFollows, PlanIsSound, Datasets

\* The gap report of a gap-aware run lists every gap of the selection, though it
\* is written for the listings of the plan only.
THEOREM ReportIsExactCorrect ==
  ASSUME OneWriter, MaxCrashes = 0
  PROVE  Spec => ReportIsExact
<1>1. FollowInv /\ [Next]_vars =>
        [FinishRun /\ request.gap =>
           report' = {r \in Rows : /\ r[1] \in request.sel
                                    /\ r[2] \in Missing(r[1], asOf)}]_vars
  <2> SUFFICES ASSUME FollowInv, FinishRun, request.gap
               PROVE  report' = {r \in Rows : /\ r[1] \in request.sel
                                              /\ r[2] \in Missing(r[1], asOf)}
    OBVIOUS
  <2>1. report' = {r \in Rows : r[1] \in plan /\ r[2] \in Missing(r[1], asOf)}
    BY DEF FinishRun
  <2>2. \A l \in request.sel \ plan : Missing(l, asOf) = {}
    BY DEF FinishRun, FollowInv, PlanIsSound
  <2>3. plan \subseteq request.sel
    BY DEF FinishRun, FollowInv, PlanIsSound
  <2> QED BY <2>1, <2>2, <2>3
<1>2. FollowInv /\ [Next]_vars => FollowInv'
  BY FollowStep
<1> QED BY <1>1, <1>2, InitFollow, PTL DEF Spec, ReportIsExact

-----------------------------------------------------------------------------
(* Failed requests are made good *)

\* Runs as cron starts them: gap-aware, over all of the history.
CronRuns == \A q \in Requests : q.gap /\ q.start = 0

\* The provider has quotes for days the calendar accepts.
QuotedOnTradingDays == \A r \in Market["quotes"] : r[2] \in TradingDays

\* The window of a listing that waits reaches from its first gap to the end, or
\* over all days if nothing is known of it.
WindowsReach ==
  phase = "bronze" /\ dataset = "quotes" =>
    \A l \in queue : \A d \in Days :
      d \in window[l] <=>
        d <= asOf /\ (Known(l) = {} \/ \E m \in Missing(l, asOf) : m <= d)

\* Bronze has a row of the listing that is not after r: gap planning sees r.
SeenBefore(r) == \E j \in bronze["quotes"] : j[1] = r[1] /\ j[2] <= r[2]

\* Bronze has no row of the listing, and no worker brings one after r.
Unseen(r) ==
  /\ \A k \in bronze["quotes"] : k[1] # r[1]
  /\ dataset = "quotes" =>
       \A w \in Workers : \A k \in pending[w] : k[1] = r[1] => k[2] <= r[2]

\* A row that a failed request would have returned is never behind the first
\* date that is known of its listing.
OwedInReach ==
  \A r \in owed["quotes"] :
    r \in bronze["quotes"] \/ InHand(r) \/ SeenBefore(r) \/ Unseen(r)

\* Where such a row can be while a run that covers it goes on.
ResumeCovers ==
  phase # "idle" =>
    \A r \in owed["quotes"] :
      r[1] \in request.sel /\ r[2] <= asOf =>
        \/ r \in bronze["quotes"] \/ <<"quotes", r[1]>> \in errors
        \/ Queued(r) \/ InHand(r)

\* What a request would have returned had been released.
Released ==
  /\ published["quotes"] \subseteq Market["quotes"]
  /\ owed["quotes"] \subseteq published["quotes"]

LEMMA ReleasedStep ==
  ASSUME IInv, Released, [Next]_vars
  PROVE  Released'
<1>1. ASSUME NEW ds \in Datasets, NEW r \in Market[ds], Release(ds, r)
      PROVE  Released'
  BY <1>1 DEF Release, Released, IInv, TypeOK, Datasets
<1>2. ASSUME NEW w \in Workers, NEW l \in Listings, LoaderFails(w, l)
      PROVE  Released'
  BY <1>2 DEF LoaderFails, Served, Released, IInv, TypeOK, Datasets
<1>3. CASE UNCHANGED <<published, owed>>
  BY <1>3 DEF Released
<1> QED
  BY <1>1, <1>2, <1>3 DEF Next, World, NextDay, StartRun, RunStep, Worker, LoaderReturns,
     ReadFile, ReadFails, OpenFile, CloseFile, CloseClashedFile, NextDataset, BuildSilver,
     Abort, WriteSilver, FinishRun, Crash, vars

LEMMA WindowsStep ==
  ASSUME CronRuns, AloneInv, WindowsReach, [Next]_vars
  PROVE  WindowsReach'
<1>1. ASSUME NEW q \in Requests, StartRun(q)
      PROVE  WindowsReach'
  <2> SUFFICES ASSUME NEW l \in Planned(q), NEW d \in Days
               PROVE  d \in Window(q, l) <=>
                        /\ d <= EndDay(q)
                        /\ Known(l) = {} \/ \E m \in Missing(l, EndDay(q)) : m <= d
    <3>1. /\ queue' = Planned(q) /\ asOf' = EndDay(q) /\ silver' = silver
          /\ window' = [l \in Listings |-> Window(q, l)]
      BY <1>1 DEF StartRun, lakeVars
    <3>2. Planned(q) \subseteq Listings
      BY ConstantsAssumption DEF Planned, Request
    <3> SUFFICES ASSUME NEW l \in Planned(q), NEW d \in Days
                 PROVE  d \in window'[l] <=>
                          /\ d <= asOf'
                          /\ Known(l)' = {} \/ \E m \in Missing(l, asOf)' : m <= d
      BY <3>1 DEF WindowsReach
    <3>3. window'[l] = Window(q, l) /\ asOf' = EndDay(q)
      BY <3>1, <3>2
    <3>4. Known(l)' = Known(l) /\ Missing(l, asOf)' = Missing(l, EndDay(q))
      BY <3>1, <3>2 DEF Known, Missing
    <3> QED BY <3>3, <3>4
  <2>1. q.gap /\ q.start = 0
    BY DEF CronRuns
  <2>2. CASE Known(l) = {}
    <3>1. Missing(l, EndDay(q)) = {}
      BY <2>2 DEF Missing
    <3> QED BY <2>1, <2>2, <3>1 DEF Window, Days
  <2>3. CASE Known(l) # {}
    <3>1. Missing(l, EndDay(q)) # {}
      BY <2>1, <2>3 DEF Planned
    <3> QED BY <2>1, <2>3, <3>1 DEF Window
  <2> QED BY <2>2, <2>3
<1>2. CASE UNCHANGED <<phase, dataset, asOf, silver, window>> /\ queue' \subseteq queue
  <2>1. \A l \in Listings : Known(l)' = Known(l)
    BY <1>2 DEF Known
  <2>2. \A l \in Listings : Missing(l, asOf)' = Missing(l, asOf)
    BY <1>2, <2>1 DEF Missing
  <2>3. queue \subseteq Listings
    BY DEF AloneInv, IInv, TypeOK
  <2> QED BY <1>2, <2>1, <2>2, <2>3 DEF WindowsReach
<1>3. CASE NextDataset
  BY <1>3, ConstantsAssumption DEF NextDataset, WindowsReach, AloneInv, IInv, TypeOK
<1>4. CASE phase' # "bronze"
  BY <1>4 DEF WindowsReach
<1> QED
  BY <1>1, <1>2, <1>3, <1>4 DEF Next, World, NextDay, Release, RunStep, Worker,
     LoaderReturns, LoaderFails, ReadFile, ReadFails, OpenFile, CloseFile, CloseClashedFile,
     BuildSilver, Abort, WriteSilver, FinishRun, Crash, RunEnds, vars, lakeVars, planVars

ResumeInv == FollowInv /\ WindowsReach /\ OwedInReach /\ ResumeCovers /\ Released

\* A step that changes neither Bronze nor what the workers hold moves no row that
\* is owed, whatever it does to plans and requests.
LEMMA OwedKept ==
  ASSUME ResumeInv,
         UNCHANGED <<bronze, owed, pending>>,
         dataset' = dataset \/ \A w \in Workers : pending[w] = {}
  PROVE  OwedInReach'
BY DEF ResumeInv, OwedInReach, InHand, SeenBefore, Unseen

LEMMA OwedStep ==
  ASSUME OneWriter, MaxCrashes = 0, ResumeInv, [Next]_vars
  PROVE  OwedInReach'
<1> USE DEF ResumeInv, FollowInv, AloneInv
<1>1. ASSUME NEW q \in Requests, StartRun(q)
      PROVE  OwedInReach'
  <2>1. \A w \in Workers : pending[w] = {}
    BY <1>1 DEF StartRun, IInv, WorkerHolds
  <2> QED BY <1>1, <2>1, OwedKept DEF StartRun, lakeVars, workerVars
<1>2. ASSUME NEW w \in Workers, NEW l \in Listings, LoaderReturns(w, l)
      PROVE  OwedInReach'
  <2>1. /\ UNCHANGED <<bronze, owed, dataset>>
        /\ pending[w] = {} /\ pending'[w] = Served(l)
        /\ \A v \in Workers : v # w => pending'[v] = pending[v]
    BY <1>2 DEF LoaderReturns, lakeVars, IInv, TypeOK, WorkerHolds
  <2> SUFFICES ASSUME NEW r \in owed["quotes"], Unseen(r), ~InHand(r)',
                      dataset = "quotes", r[1] = l
               PROVE  \A k \in Served(l) : k[2] <= r[2]
    <3>1. \A r \in owed["quotes"] : InHand(r) => InHand(r)'
      BY <2>1 DEF InHand
    <3>2. \A r \in owed["quotes"] : SeenBefore(r) => SeenBefore(r)'
      BY <2>1 DEF SeenBefore
    <3>3. ASSUME NEW r \in owed["quotes"], Unseen(r), ~InHand(r)'
          PROVE  Unseen(r)'
      <4>1. CASE dataset = "quotes" /\ r[1] = l
        BY <2>1, <3>3, <4>1 DEF Unseen
      <4>2. CASE dataset = "quotes" /\ r[1] # l
        <5>1. \A k \in pending'[w] : k[1] = l
          BY <2>1 DEF Served
        <5> QED BY <2>1, <3>3, <4>2, <5>1 DEF Unseen
      <4>3. CASE dataset # "quotes"
        BY <2>1, <3>3, <4>3 DEF Unseen
      <4> QED BY <4>1, <4>2, <4>3
    <3> QED BY <2>1, <3>1, <3>2, <3>3 DEF OwedInReach
  <2>2. r \in published["quotes"] /\ r \in Rows
    BY DEF Released, IInv, TypeOK, Datasets
  <2>3. r \notin Served(l)
    BY <2>1 DEF InHand
  <2>4. r[2] \notin window[l]
    BY <2>2, <2>3 DEF Served
  <2>5. Known(l) = {}
    BY DEF Unseen, SilverFollows, Known
  <2>6. phase = "bronze" /\ l \in queue
    BY <1>2 DEF LoaderReturns
  <2>7. \A d \in Days : d \in window[l] <=> d <= asOf
    BY <2>5, <2>6 DEF WindowsReach
  <2>8. r[2] \in Days
    BY <2>2 DEF Rows
  <2>9. \A k \in Served(l) : k[2] \in Days /\ k[2] <= asOf
    <3>1. window[l] \subseteq Days
      BY DEF IInv, TypeOK
    <3> QED BY <2>7, <3>1 DEF Served
  <2>10. asOf \in Nat
    BY DEF IInv, TypeOK
  <2> QED BY <2>4, <2>7, <2>8, <2>9, <2>10, ConstantsAssumption DEF Days
<1>3. ASSUME NEW w \in Workers, NEW l \in Listings, LoaderFails(w, l)
      PROVE  OwedInReach'
  <2>1. UNCHANGED <<bronze, pending, dataset, silver>>
    BY <1>3 DEF LoaderFails, lakeVars, workerVars
  <2> SUFFICES ASSUME dataset = "quotes", NEW r \in Served(l)
               PROVE  SeenBefore(r) \/ Unseen(r)
    <3>1. owed'["quotes"] = IF dataset = "quotes" THEN owed["quotes"] \cup Served(l)
                                                ELSE owed["quotes"]
      BY <1>3 DEF LoaderFails, IInv, TypeOK, Datasets
    <3> QED BY <2>1, <3>1 DEF OwedInReach, InHand, SeenBefore, Unseen
  <2>2. phase = "bronze" /\ l \in queue /\ r[1] = l /\ r[2] \in window[l]
    BY <1>3 DEF LoaderFails, Served
  <2>3. CASE \A k \in bronze["quotes"] : k[1] # l
    <3>1. \A v \in Workers : \A k \in pending[v] : k[1] # l
      <4> SUFFICES ASSUME NEW v \in Workers, NEW k \in pending[v]
                   PROVE  k[1] # l
        OBVIOUS
      <4>1. pc[v] # "idle"
        BY DEF IInv, WorkerHolds
      <4> QED BY <2>2, <4>1 DEF WorkerAlone
    <3> QED BY <2>2, <2>3, <3>1 DEF Unseen
  <2>4. ASSUME NEW k \in bronze["quotes"], k[1] = l
        PROVE  SeenBefore(r)
    <3>1. k \in silver /\ k \in Rows
      BY <2>2, <2>4 DEF SilverFollows, IInv, TypeOK
    <3>2. k[2] \in Known(l)
      BY <2>4, <3>1 DEF Known, Rows
    <3>3. r[2] \in Days
      BY <2>2 DEF IInv, TypeOK
    <3>4. PICK m \in Missing(l, asOf) : m <= r[2]
      BY <2>2, <3>2, <3>3 DEF WindowsReach
    <3>5. PICK j \in Known(l) : j <= m
      BY <3>4 DEF Missing
    <3>6. <<l, j>> \in bronze["quotes"] /\ j <= r[2]
      BY <3>3, <3>4, <3>5, ConstantsAssumption DEF Known, Missing, Days, SilverFollows
    <3> QED BY <2>2, <3>6 DEF SeenBefore
  <2> QED BY <2>3, <2>4
<1>4. ASSUME NEW w \in Workers, CloseFile(w)
      PROVE  OwedInReach'
  <2>1. UNCHANGED <<dataset, owed>>
    BY <1>4 DEF CloseFile
  <2>2. bronze["quotes"] \subseteq bronze'["quotes"]
    BY <1>4, CloseKeepsRows DEF Datasets
  <2>3. \A r \in owed["quotes"] : SeenBefore(r) => SeenBefore(r)'
    BY <2>2 DEF SeenBefore
  <2>4. ASSUME NEW r \in owed["quotes"], InHand(r)
        PROVE  InHand(r)' \/ r \in bronze'["quotes"]
    BY <1>4, <2>1, <2>4, CloseKeepsRows DEF InHand
  <2>5. ASSUME NEW r \in owed["quotes"], Unseen(r)
        PROVE  SeenBefore(r)' \/ Unseen(r)'
    <3>1. \A v \in Workers : pending'[v] \subseteq pending[v]
      BY <1>4, CloseAddsPending
    <3>2. CASE \A k \in bronze'["quotes"] : k[1] # r[1]
      BY <2>1, <2>5, <3>1, <3>2 DEF Unseen
    <3>3. ASSUME NEW k \in bronze'["quotes"], k[1] = r[1]
          PROVE  SeenBefore(r)'
      <4>1. dataset = "quotes" /\ k \in pending[w]
        BY <1>4, <2>5, <3>3, CloseAddsPending DEF Unseen, Datasets
      <4>2. k[2] <= r[2]
        BY <2>5, <3>3, <4>1 DEF Unseen
      <4> QED BY <3>3, <4>2 DEF SeenBefore
    <3> QED BY <3>2, <3>3
  <2> QED BY <2>1, <2>2, <2>3, <2>4, <2>5 DEF OwedInReach
<1>5. CASE NextDataset
  <2>1. \A w \in Workers : pending[w] = {}
    BY <1>5 DEF NextDataset, BatchDone, IInv, WorkerHolds
  <2> QED BY <1>5, <2>1, OwedKept DEF NextDataset, lakeVars, workerVars
<1>6. CASE FinishRun
  <2>1. \A w \in Workers : pending[w] = {}
    BY <1>6 DEF FinishRun, IInv, WorkerHolds
  <2> QED BY <1>6, <2>1, OwedKept DEF FinishRun, lakeVars, workerVars
<1>7. CASE UNCHANGED <<bronze, owed, pending, dataset>>
  BY <1>7, OwedKept
<1> QED
  BY <1>1, <1>2, <1>3, <1>4, <1>5, <1>6, <1>7, NothingBreaks
     DEF Next, World, NextDay, Release, RunStep, Worker, ReadFile, OpenFile, BuildSilver,
         WriteSilver, vars, lakeVars, workerVars

LEMMA ResumeCoversStep ==
  ASSUME OneWriter, MaxCrashes = 0, CronRuns, QuotedOnTradingDays, ResumeInv, [Next]_vars
  PROVE  ResumeCovers'
<1> USE DEF ResumeInv, FollowInv, AloneInv
<1>1. ASSUME NEW q \in Requests, StartRun(q)
      PROVE  ResumeCovers'
  <2>1. /\ phase = "idle" /\ phase' = "bronze" /\ request' = q /\ asOf' = EndDay(q)
        /\ queue' = Planned(q) /\ dataset' = "quotes"
        /\ window' = [l \in Listings |-> Window(q, l)]
        /\ UNCHANGED <<bronze, silver, owed, pending>>
    BY <1>1 DEF StartRun, lakeVars, workerVars
  <2> SUFFICES ASSUME NEW r \in owed["quotes"], r[1] \in q.sel, r[2] <= EndDay(q),
                      r \notin bronze["quotes"]
               PROVE  r[1] \in Planned(q) /\ r[2] \in Window(q, r[1])
    <3>1. q.sel \subseteq Listings
      BY ConstantsAssumption DEF Request
    <3> QED BY <2>1, <3>1 DEF ResumeCovers, Queued
  <2>2. r \in Rows /\ r[1] \in Listings /\ r[2] \in Days /\ r[2] \in TradingDays
    BY RowHasFile DEF Released, QuotedOnTradingDays, IInv, TypeOK, Datasets
  <2>3. q.gap /\ q.start = 0
    BY DEF CronRuns
  <2>4. bronze["quotes"] = silver
    BY <2>1 DEF SilverFollows
  <2>5. \A w \in Workers : pending[w] = {}
    BY <2>1 DEF IInv, WorkerHolds
  <2>6. CASE SeenBefore(r)
    <3>1. PICK j \in silver : j[1] = r[1] /\ j[2] <= r[2]
      BY <2>4, <2>6 DEF SeenBefore
    <3>2. j[2] \in Known(r[1])
      BY <3>1 DEF Known, Rows, IInv, TypeOK
    <3>3. r[2] \notin Known(r[1])
      BY <2>2, <2>4 DEF Known, Rows
    <3>4. r[2] \in Missing(r[1], EndDay(q))
      BY <2>2, <3>1, <3>2, <3>3 DEF Missing
    <3> QED BY <2>2, <2>3, <3>4, ConstantsAssumption DEF Planned, Window, Days
  <2>7. CASE Unseen(r)
    <3>1. Known(r[1]) = {}
      BY <2>4, <2>7 DEF Unseen, Known
    <3>2. Missing(r[1], EndDay(q)) = {}
      BY <3>1 DEF Missing
    <3> QED BY <2>2, <2>3, <3>1, <3>2, ConstantsAssumption DEF Planned, Window, Days
  <2> QED BY <2>5, <2>6, <2>7 DEF OwedInReach, InHand
<1>2. ASSUME NEW w \in Workers, NEW l \in Listings, LoaderReturns(w, l)
      PROVE  ResumeCovers'
  <2>1. /\ UNCHANGED <<bronze, owed, dataset, errors, phase, planVars>>
        /\ queue' = queue \ {l}
        /\ pending[w] = {} /\ pending'[w] = Served(l)
        /\ \A v \in Workers : v # w => pending'[v] = pending[v]
    BY <1>2 DEF LoaderReturns, lakeVars, IInv, TypeOK, WorkerHolds
  <2>2. \A r \in owed["quotes"] : InHand(r) => InHand(r)'
    BY <2>1 DEF InHand
  <2>3. ASSUME NEW r \in owed["quotes"], Queued(r)
        PROVE  Queued(r)' \/ InHand(r)'
    <3>1. r \in published["quotes"]
      BY DEF Released
    <3>2. r[1] = l => r \in Served(l)
      BY <2>3, <3>1 DEF Queued, Served
    <3> QED BY <2>1, <2>3, <3>2 DEF Queued, InHand, planVars
  <2> QED BY <2>1, <2>2, <2>3 DEF ResumeCovers, planVars
<1>3. ASSUME NEW w \in Workers, NEW l \in Listings, LoaderFails(w, l)
      PROVE  ResumeCovers'
  <2>1. /\ UNCHANGED <<bronze, dataset, pending, phase, planVars>>
        /\ queue' = queue \ {l} /\ errors' = errors \cup {<<dataset, l>>}
    BY <1>3 DEF LoaderFails, lakeVars, workerVars
  <2>2. \A r \in owed'["quotes"] :
          r \in owed["quotes"] \/ (dataset = "quotes" /\ r[1] = l)
    BY <1>3 DEF LoaderFails, Served, IInv, TypeOK, Datasets
  <2> QED BY <2>1, <2>2 DEF ResumeCovers, Queued, InHand, planVars
<1>4. ASSUME NEW w \in Workers, CloseFile(w)
      PROVE  ResumeCovers'
  <2>1. UNCHANGED <<dataset, owed, errors, phase, queue, planVars>>
    BY <1>4 DEF CloseFile
  <2>2. bronze["quotes"] \subseteq bronze'["quotes"]
    BY <1>4, CloseKeepsRows DEF Datasets
  <2>3. \A r \in owed["quotes"] : InHand(r) => InHand(r)' \/ r \in bronze'["quotes"]
    BY <1>4, <2>1, CloseKeepsRows DEF InHand
  <2> QED BY <2>1, <2>2, <2>3 DEF ResumeCovers, Queued, planVars
<1>5. CASE NextDataset \/ BuildSilver
  <2>1. phase = "bronze" /\ queue = {} /\ \A w \in Workers : pending[w] = {}
    BY <1>5 DEF NextDataset, BuildSilver, BatchDone, IInv, WorkerHolds
  <2>2. UNCHANGED <<bronze, owed, errors, planVars>>
    BY <1>5 DEF NextDataset, BuildSilver, lakeVars
  <2> QED BY <2>1, <2>2 DEF ResumeCovers, Queued, InHand, planVars
<1>6. CASE FinishRun
  BY <1>6 DEF FinishRun, RunEnds, ResumeCovers
<1>7. CASE UNCHANGED <<bronze, owed, pending, dataset, errors, phase, queue, planVars>>
  BY <1>7 DEF ResumeCovers, Queued, InHand, planVars
<1> QED
  BY <1>1, <1>2, <1>3, <1>4, <1>5, <1>6, <1>7, NothingBreaks
     DEF Next, World, NextDay, Release, RunStep, Worker, ReadFile, OpenFile,
         WriteSilver, vars, lakeVars, workerVars

\* Under cron's requests, quotes that a failed request would have returned are in
\* Bronze when a clean run over their listing and days ends.
THEOREM FailedQuotesAreResumedCorrect ==
  ASSUME OneWriter, MaxCrashes = 0, CronRuns, QuotedOnTradingDays
  PROVE  Spec => []FailedQuotesAreResumed
<1>1. Init => ResumeInv
  BY InitFollow, ConstantsAssumption
     DEF Init, ResumeInv, WindowsReach, OwedInReach, ResumeCovers, Released, Datasets
<1>2. ResumeInv /\ [Next]_vars => ResumeInv'
  BY FollowStep, WindowsStep, OwedStep, ResumeCoversStep, ReleasedStep
     DEF ResumeInv, FollowInv, AloneInv
<1>3. ResumeInv => FailedQuotesAreResumed
  <2> SUFFICES ASSUME ResumeInv, CleanFinish, NEW r \in owed["quotes"],
                      r[1] \in request.sel, r[2] <= asOf
               PROVE  r \in bronze["quotes"]
    BY DEF FailedQuotesAreResumed, Resumed
  <2>1. \A w \in Workers : pending[w] = {}
    BY DEF CleanFinish, AboutToFinish, ResumeInv, FollowInv, AloneInv, IInv, WorkerHolds
  <2> QED
    BY <2>1 DEF CleanFinish, AboutToFinish, ResumeInv, ResumeCovers, Queued, InHand
<1> QED BY <1>1, <1>2, <1>3, PTL DEF Spec

=============================================================================

------------------------------ MODULE QuoteLake ------------------------------
(***************************************************************************)
(* The fetch-all-quotes workflow over the local lake: a run plans from     *)
(* Silver, a pool of worker threads reads, merges and rewrites Bronze      *)
(* files dataset by dataset, Silver is rebuilt from all of Bronze, and a   *)
(* gap report is written.  The provider releases rows as days pass; a      *)
(* request can fail; the process can die between any two steps.            *)
(*                                                                         *)
(* A row is <<listing, day>>.  A Bronze file holds one year of all the     *)
(* listings that share an (exchange, ISIN) pair, a Silver file all years.  *)
(***************************************************************************)
EXTENDS Integers, FiniteSets

CONSTANTS
  Listings,     \* (isin, exchange, code) triples
  FileOf,       \* FileOf[l]: the (exchange, isin) part of a listing's path
  MaxDay,       \* bound: days are 1..MaxDay
  YearOf,       \* YearOf[d]: the partition a day is filed under
  TradingDays,  \* the days _is_trading_day accepts
  Market,       \* Market[ds]: the rows the provider will ever release
  Companions,   \* datasets fetched beside quotes: dividends, splits
  Workers,      \* the threads of the executor
  Requests,     \* the argument combinations the workflow is called with
  MaxCrashes,   \* bound on process deaths
  None

Days == 1..MaxDay
Datasets == {"quotes"} \cup Companions
Rows == Listings \X Days
PathIds == {FileOf[l] : l \in Listings}
Years == {YearOf[d] : d \in Days}
BronzeFiles == PathIds \X Years

Request == [sel : SUBSET Listings, start : 0..MaxDay, end : 0..MaxDay,
            gap : BOOLEAN, raw : BOOLEAN]

ASSUME ConstantsAssumption ==
  /\ MaxDay \in Nat /\ MaxCrashes \in Nat
  /\ FileOf = [l \in Listings |-> FileOf[l]]
  /\ YearOf = [d \in Days |-> YearOf[d]]
  /\ TradingDays \subseteq Days
  /\ "quotes" \notin Companions
  /\ Market \in [Datasets -> SUBSET Rows]
  /\ Requests \subseteq Request
  /\ None \notin Listings /\ None \notin BronzeFiles /\ None \notin Requests

VARIABLES
  today,       \* the date a run resolves its end date to
  published,   \* published[ds]: rows the provider answers with by now
  bronze,      \* bronze[ds]: rows in the readable Bronze files
  torn,        \* <<ds, file>>: Bronze files left half written
  silver,      \* rows in the readable Silver files
  tornSilver,  \* Silver files left half written
  phase,       \* of the run holding the module lock, "idle" when there is none
  request,     \* the arguments of that run
  asOf,        \* its resolved end date
  plan,        \* the listings it will request
  window,      \* window[l]: the days the plan row of l asks for
  dataset,     \* the dataset being fetched
  remaining,   \* companion datasets still to fetch
  queue,       \* plan rows no worker has taken yet
  pc, item, pending, file, buffer,  \* per worker, see the worker actions
  met,         \* history: files that another worker took while one had them
  errors,      \* <<ds, l>>: the error rows of this run
  silverTodo,  \* Silver files still to rewrite
  report,      \* the quote_gaps manifest, as the set of missing rows
  crashes,
  need, owed   \* history: rows out when the run planned, not before the first
               \* date known then; rows a failed request would have returned

lakeVars == <<bronze, torn, silver, tornSilver>>
workerVars == <<pc, item, pending, file, buffer, met>>
planVars == <<request, asOf, plan, window, need>>
vars == <<today, published, lakeVars, phase, planVars, dataset, remaining,
          queue, workerVars, errors, silverTodo, report, crashes, owed>>

-----------------------------------------------------------------------------
(* Gap planning *)

Known(l) == {d \in Days : <<l, d>> \in silver}

\* Trading days from the first known date to the end date without a quote:
\* the historical gaps and the tail together.
Missing(l, end) ==
  {d \in TradingDays : /\ d <= end
                       /\ d \notin Known(l)
                       /\ \E k \in Known(l) : k <= d}

\* The run resolves its end date once, when it starts.
EndDay(r) == IF r.end = 0 THEN today ELSE r.end

\* Variant: whatever is known at all is taken to be complete.
PlannedIfUnknown(r) == IF r.gap THEN {l \in r.sel : Known(l) = {}} ELSE r.sel

\* A listing with no gap is left out of a gap-aware plan, unless nothing at all
\* is known of it: then its whole history is requested.
Planned(r) ==
  IF r.gap THEN {l \in r.sel : Known(l) = {} \/ Missing(l, EndDay(r)) # {}}
           ELSE r.sel

\* Variant: the window starts at the last missing day.
WindowFromLast(r, l) ==
  {d \in Days : /\ d <= EndDay(r)
                /\ IF r.gap /\ Missing(l, EndDay(r)) # {}
                   THEN \A m \in Missing(l, EndDay(r)) : m <= d
                   ELSE r.start <= d}

\* One window per listing, from the first gap to the end date.
Window(r, l) ==
  {d \in Days : /\ d <= EndDay(r)
                /\ IF r.gap /\ Missing(l, EndDay(r)) # {}
                   THEN \E m \in Missing(l, EndDay(r)) : m <= d
                   ELSE r.start <= d}

FileOfRow(r) == <<FileOf[r[1]], YearOf[r[2]]>>
InFile(S, f) == {r \in S : FileOfRow(r) = f}

\* Variant: days the provider has nothing for yet are filled in.
ServedFilled(l) == {l} \X window[l]

\* What the provider answers now to the request of l for the current dataset.
Served(l) == {r \in published[dataset] : r[1] = l /\ r[2] \in window[l]}

\* The run's local variables go when the workflow returns, raises or dies.
RunEnds ==
  /\ phase' = "idle"
  /\ request' = None /\ asOf' = 0
  /\ plan' = {} /\ queue' = {} /\ remaining' = {} /\ dataset' = "quotes"
  /\ window' = [l \in Listings |-> {}]
  /\ errors' = {} /\ silverTodo' = {} /\ need' = {}

\* Files that no worker has any more were not met.
Leaves(w) == met' = {f \in met : \E v \in Workers \ {w} : file[v] = f}

NoWorker(w) ==
  /\ Leaves(w)
  /\ pc' = [pc EXCEPT ![w] = "idle"]
  /\ item' = [item EXCEPT ![w] = None]
  /\ pending' = [pending EXCEPT ![w] = {}]
  /\ file' = [file EXCEPT ![w] = None]
  /\ buffer' = [buffer EXCEPT ![w] = {}]

-----------------------------------------------------------------------------
(* The world outside: days pass, the provider releases rows, late or not *)

NextDay ==
  /\ today < MaxDay
  /\ today' = today + 1
  /\ UNCHANGED <<published, lakeVars, phase, planVars, dataset, remaining,
                 queue, workerVars, errors, silverTodo, report, crashes, owed>>

Release(ds, r) ==
  /\ r \in Market[ds] \ published[ds]
  /\ r[2] <= today
  /\ published' = [published EXCEPT ![ds] = @ \cup {r}]
  /\ UNCHANGED <<today, lakeVars, phase, planVars, dataset, remaining,
                 queue, workerVars, errors, silverTodo, report, crashes, owed>>

-----------------------------------------------------------------------------
(* The run *)

\* Take the module lock and plan.  A gap-aware plan reads every Silver file, so
\* a torn one ends the run before anything is written.
StartRun(r) ==
  /\ phase = "idle"
  /\ r.gap => tornSilver = {}
  /\ phase' = "bronze"
  /\ request' = r /\ asOf' = EndDay(r)
  /\ plan' = Planned(r)
  /\ window' = [l \in Listings |-> Window(r, l)]
  /\ queue' = Planned(r)
  /\ dataset' = "quotes"
  /\ remaining' = IF r.raw THEN Companions ELSE {}
  /\ errors' = {}
  /\ need' = {n \in published["quotes"] : \E k \in Known(n[1]) : k <= n[2]}
  /\ UNCHANGED <<today, published, lakeVars, workerVars, silverTodo, report,
                 crashes, owed>>

\* load_one: the loader answers, and its rows are grouped into year files.
LoaderReturns(w, l) ==
  /\ phase = "bronze" /\ pc[w] = "idle" /\ l \in queue
  /\ queue' = queue \ {l}
  /\ pc' = [pc EXCEPT ![w] = IF Served(l) = {} THEN "idle" ELSE "loaded"]
  /\ item' = [item EXCEPT ![w] = IF Served(l) = {} THEN None ELSE l]
  /\ pending' = [pending EXCEPT ![w] = Served(l)]
  /\ UNCHANGED <<today, published, lakeVars, phase, planVars, dataset,
                 remaining, file, buffer, met, errors, silverTodo, report, crashes,
                 owed>>

\* load_one: the request fails after its retries, or a row has no date; the
\* failure becomes an error row and the batch goes on.
LoaderFails(w, l) ==
  /\ phase = "bronze" /\ pc[w] = "idle" /\ l \in queue
  /\ queue' = queue \ {l}
  /\ errors' = errors \cup {<<dataset, l>>}
  /\ owed' = [owed EXCEPT ![dataset] = @ \cup Served(l)]
  /\ UNCHANGED <<today, published, lakeVars, phase, planVars, dataset,
                 remaining, workerVars, silverTodo, report, crashes>>

WritersOf(f) == {v \in Workers : pc[v] \in {"writing", "clashing"} /\ file[v] = f}

\* A file that is torn, or that another thread has truncated, cannot be read.
Unreadable(f) == <<dataset, f>> \in torn \/ WritersOf(f) # {}

ReadFile(w) ==
  /\ pc[w] = "loaded"
  /\ \E f \in {FileOfRow(r) : r \in pending[w]} :
       /\ ~Unreadable(f)
       /\ file' = [file EXCEPT ![w] = f]
       /\ buffer' = [buffer EXCEPT ![w] = InFile(bronze[dataset], f)]
       /\ met' = IF \E v \in Workers : file[v] = f THEN met \cup {f} ELSE met
  /\ pc' = [pc EXCEPT ![w] = "merged"]
  /\ UNCHANGED <<today, published, lakeVars, phase, planVars, dataset,
                 remaining, queue, item, pending, errors, silverTodo, report,
                 crashes, owed>>

\* The exception of the read becomes an error row; the years not yet written
\* are dropped with it.
ReadFails(w) ==
  /\ pc[w] = "loaded"
  /\ \E r \in pending[w] : Unreadable(FileOfRow(r))
  /\ errors' = errors \cup {<<dataset, item[w]>>}
  /\ NoWorker(w)
  /\ UNCHANGED <<today, published, lakeVars, phase, planVars, dataset,
                 remaining, queue, silverTodo, report, crashes, owed>>

\* write_rows truncates the file in place.  Two threads that have it open at
\* once write over each other.
OpenFile(w) ==
  /\ pc[w] = "merged"
  /\ pc' = [v \in Workers |->
              IF v = w THEN IF WritersOf(file[w]) = {} THEN "writing" ELSE "clashing"
              ELSE IF v \in WritersOf(file[w]) THEN "clashing" ELSE pc[v]]
  /\ UNCHANGED <<today, published, lakeVars, phase, planVars, dataset,
                 remaining, queue, item, pending, file, buffer, met, errors,
                 silverTodo, report, crashes, owed>>

\* The next year of the item, or the end of the item.
AfterFile(w) ==
  LET rest == {r \in pending[w] : FileOfRow(r) # file[w]} IN
  /\ Leaves(w)
  /\ pending' = [pending EXCEPT ![w] = rest]
  /\ pc' = [pc EXCEPT ![w] = IF rest = {} THEN "idle" ELSE "loaded"]
  /\ item' = [item EXCEPT ![w] = IF rest = {} THEN None ELSE @]
  /\ file' = [file EXCEPT ![w] = None]
  /\ buffer' = [buffer EXCEPT ![w] = {}]

\* Variant: the new rows replace the file.
CloseFileUnmerged(w) ==
  /\ pc[w] \in {"writing", "clashing"}
  /\ bronze' = [bronze EXCEPT ![dataset] =
                  (@ \ InFile(@, file[w])) \cup InFile(pending[w], file[w])]
  /\ torn' = torn \ {<<dataset, file[w]>>}
  /\ AfterFile(w)
  /\ UNCHANGED <<today, published, silver, tornSilver, phase, planVars,
                 dataset, remaining, queue, errors, silverTodo, report,
                 crashes, owed>>

\* merge_rows: the file becomes what was read plus the new rows.
CloseFile(w) ==
  /\ pc[w] \in {"writing", "clashing"}
  /\ bronze' = [bronze EXCEPT ![dataset] =
                  (@ \ InFile(@, file[w])) \cup buffer[w] \cup InFile(pending[w], file[w])]
  /\ torn' = torn \ {<<dataset, file[w]>>}
  /\ AfterFile(w)
  /\ UNCHANGED <<today, published, silver, tornSilver, phase, planVars,
                 dataset, remaining, queue, errors, silverTodo, report,
                 crashes, owed>>

CloseClashedFile(w) ==
  /\ pc[w] = "clashing"
  /\ bronze' = [bronze EXCEPT ![dataset] = @ \ InFile(@, file[w])]
  /\ torn' = torn \cup {<<dataset, file[w]>>}
  /\ AfterFile(w)
  /\ UNCHANGED <<today, published, silver, tornSilver, phase, planVars,
                 dataset, remaining, queue, errors, silverTodo, report,
                 crashes, owed>>

BatchDone == phase = "bronze" /\ queue = {} /\ \A w \in Workers : pc[w] = "idle"

\* Variant: the companion datasets are requested for the whole selection.
NextDatasetOfAll ==
  /\ BatchDone
  /\ \E ds \in remaining : dataset' = ds /\ remaining' = remaining \ {ds}
  /\ queue' = request.sel
  /\ UNCHANGED <<today, published, lakeVars, phase, planVars, workerVars,
                 errors, silverTodo, report, crashes, owed>>

\* The companion datasets are requested with the plan made for quotes.
NextDataset ==
  /\ BatchDone
  /\ \E ds \in remaining : dataset' = ds /\ remaining' = remaining \ {ds}
  /\ queue' = plan
  /\ UNCHANGED <<today, published, lakeVars, phase, planVars, workerVars,
                 errors, silverTodo, report, crashes, owed>>

\* build_silver_quotes reads all of Bronze before it writes.
BuildSilver ==
  /\ BatchDone /\ remaining = {}
  /\ \A f \in BronzeFiles : <<"quotes", f>> \notin torn
  /\ phase' = "silver"
  /\ silverTodo' = {FileOf[r[1]] : r \in bronze["quotes"]}
  /\ UNCHANGED <<today, published, lakeVars, planVars, dataset, remaining,
                 queue, workerVars, errors, report, crashes, owed>>

\* A torn Bronze or Silver file raises out of the workflow.
Abort ==
  /\ \/ BatchDone /\ remaining = {} /\ \E f \in BronzeFiles : <<"quotes", f>> \in torn
     \/ phase = "silver" /\ tornSilver # {}
  /\ RunEnds
  /\ UNCHANGED <<today, published, lakeVars, workerVars, report, crashes, owed>>

\* Variant: a written listing stays on the list.
WriteSilverAgain(p) ==
  /\ phase = "silver" /\ p \in silverTodo /\ p \notin tornSilver
  /\ silver' = silver \cup {r \in bronze["quotes"] : FileOf[r[1]] = p}
  /\ UNCHANGED <<today, published, bronze, torn, tornSilver, phase, planVars,
                 dataset, remaining, queue, workerVars, errors, silverTodo,
                 report, crashes, owed>>

\* _write_silver_listing: merge the file's Bronze rows into it.
WriteSilver(p) ==
  /\ phase = "silver" /\ p \in silverTodo /\ p \notin tornSilver
  /\ silver' = silver \cup {r \in bronze["quotes"] : FileOf[r[1]] = p}
  /\ silverTodo' = silverTodo \ {p}
  /\ UNCHANGED <<today, published, bronze, torn, tornSilver, phase, planVars,
                 dataset, remaining, queue, workerVars, errors, report,
                 crashes, owed>>

\* Variant: the report resolves its end date anew.
FinishRunLate ==
  /\ phase = "silver" /\ silverTodo = {} /\ tornSilver = {}
  /\ report' = {r \in Rows : r[1] \in plan /\ r[2] \in Missing(r[1], today)}
  /\ RunEnds
  /\ UNCHANGED <<today, published, lakeVars, workerVars, crashes, owed>>

\* write_bronze_manifests: the gap report covers the plan's listings only.
FinishRun ==
  /\ phase = "silver" /\ silverTodo = {} /\ tornSilver = {}
  /\ report' = {r \in Rows : r[1] \in plan /\ r[2] \in Missing(r[1], asOf)}
  /\ RunEnds
  /\ UNCHANGED <<today, published, lakeVars, workerVars, crashes, owed>>

\* The process dies.  A file it had truncated stays half written; the lock goes
\* with the process.
Crash ==
  /\ phase # "idle" /\ crashes < MaxCrashes
  /\ crashes' = crashes + 1
  /\ \E T \in SUBSET silverTodo :
       /\ Cardinality(T) <= Cardinality(Workers)
       /\ tornSilver' = tornSilver \cup T
       /\ silver' = {r \in silver : FileOf[r[1]] \notin T}
  /\ LET open == {file[w] : w \in {v \in Workers : pc[v] \in {"writing", "clashing"}}} IN
       /\ torn' = torn \cup ({dataset} \X open)
       /\ bronze' = [bronze EXCEPT ![dataset] = {r \in @ : FileOfRow(r) \notin open}]
  /\ RunEnds
  /\ pc' = [w \in Workers |-> "idle"]
  /\ item' = [w \in Workers |-> None]
  /\ pending' = [w \in Workers |-> {}]
  /\ file' = [w \in Workers |-> None]
  /\ buffer' = [w \in Workers |-> {}]
  /\ met' = {}
  /\ UNCHANGED <<today, published, report, owed>>

-----------------------------------------------------------------------------

Init ==
  /\ today = 1
  /\ published = [ds \in Datasets |-> {}]
  /\ bronze = [ds \in Datasets |-> {}]
  /\ torn = {} /\ silver = {} /\ tornSilver = {}
  /\ phase = "idle"
  /\ request = None /\ asOf = 0
  /\ plan = {} /\ need = {}
  /\ window = [l \in Listings |-> {}]
  /\ dataset = "quotes" /\ remaining = {} /\ queue = {}
  /\ pc = [w \in Workers |-> "idle"]
  /\ item = [w \in Workers |-> None]
  /\ pending = [w \in Workers |-> {}]
  /\ file = [w \in Workers |-> None]
  /\ buffer = [w \in Workers |-> {}]
  /\ met = {}
  /\ errors = {} /\ silverTodo = {} /\ report = {}
  /\ crashes = 0
  /\ owed = [ds \in Datasets |-> {}]

World == NextDay \/ \E ds \in Datasets : \E r \in Market[ds] : Release(ds, r)

Worker(w) ==
  \/ \E l \in Listings : LoaderReturns(w, l) \/ LoaderFails(w, l)
  \/ ReadFile(w) \/ ReadFails(w)
  \/ OpenFile(w) \/ CloseFile(w) \/ CloseClashedFile(w)

RunStep ==
  \/ \E w \in Workers : Worker(w)
  \/ NextDataset \/ BuildSilver \/ Abort \/ FinishRun
  \/ \E p \in PathIds : WriteSilver(p)

Next ==
  \/ World
  \/ \E r \in Requests : StartRun(r)
  \/ RunStep
  \/ Crash

Spec == Init /\ [][Next]_vars

\* cron starts a run every day and a started run goes on; a provider that is
\* asked again and again for a listing answers in the end.
Fairness ==
  /\ WF_vars(\E r \in Requests : StartRun(r))
  /\ WF_vars(RunStep)
  /\ \A ds \in Datasets, l \in Listings :
       SF_vars(dataset = ds /\ \E w \in Workers : LoaderReturns(w, l))

FairSpec == Spec /\ Fairness

-----------------------------------------------------------------------------
(* Properties *)

\* Every variable keeps its type; workers hold rows, a file and a buffer as
\* load_one's local variables do.
TypeOK ==
  /\ today \in Days \cup {1}
  /\ published \in [Datasets -> SUBSET Rows]
  /\ bronze \in [Datasets -> SUBSET Rows]
  /\ torn \subseteq Datasets \X BronzeFiles
  /\ silver \subseteq Rows /\ tornSilver \subseteq PathIds
  /\ phase \in {"idle", "bronze", "silver"}
  /\ request \in Requests \cup {None} /\ asOf \in Nat
  /\ plan \subseteq Listings /\ queue \subseteq plan
  /\ window \in [Listings -> SUBSET Days]
  /\ dataset \in Datasets /\ remaining \subseteq Companions
  /\ pc \in [Workers -> {"idle", "loaded", "merged", "writing", "clashing"}]
  /\ item \in [Workers -> Listings \cup {None}]
  /\ pending \in [Workers -> SUBSET Rows]
  /\ file \in [Workers -> BronzeFiles \cup {None}]
  /\ buffer \in [Workers -> SUBSET Rows] /\ met \subseteq BronzeFiles
  /\ errors \subseteq Datasets \X Listings
  /\ silverTodo \subseteq PathIds
  /\ report \subseteq Rows
  /\ crashes \in 0..MaxCrashes
  /\ need \subseteq Rows /\ owed \in [Datasets -> SUBSET Rows]

\* No stage invents market data: whatever Bronze, Silver and the workers hold
\* is a row the provider released, at every point of a run and after any crash
\* (load_one, merge_rows, build_silver_quote_rows).
Provenance ==
  /\ \A ds \in Datasets : bronze[ds] \subseteq published[ds]
  /\ silver \subseteq published["quotes"]
  /\ \A w \in Workers : buffer[w] \cup pending[w] \subseteq published[dataset]

\* A Bronze file loses a row only if two workers had it at once or a rewrite of it
\* was torn: a merge keeps what the file had (load_one's read, merge, write), and
\* no error, retry, abort or later run drops it.
BronzeKeepsRows ==
  [][\A ds \in Datasets : \A r \in bronze[ds] :
       \/ r \in bronze'[ds]
       \/ ds = dataset /\ FileOfRow(r) \in met
       \/ <<ds, FileOfRow(r)>> \in torn']_vars

\* README.md:466 says the Bronze run "is safe for unattended cron execution": no merge of
\* one worker undoes another's, and no file is left torn.
MergesAreSafe == [][\A ds \in Datasets : bronze[ds] \subseteq bronze'[ds]]_vars

\* Silver can be rebuilt from Bronze: it holds no row that Bronze lost, except
\* rows of a Bronze file a crash tore (build_silver_quotes merges into the
\* Silver file, so a row lost in Bronze would survive only there).
SilverFromBronze ==
  \A r \in silver : r \in bronze["quotes"] \/ <<"quotes", FileOfRow(r)>> \in torn

AboutToFinish == phase = "silver" /\ silverTodo = {} /\ tornSilver = {}
CleanFinish == AboutToFinish /\ errors = {} /\ request.gap

\* A gap-aware run that ends without an error row has closed every gap it
\* could: each quote the provider had out when the run planned, on a trading day
\* between the first date then known and the end date, is in Silver.
CleanRunClosesGaps ==
  CleanFinish =>
    \A r \in need :
      /\ r[1] \in request.sel
      /\ r[2] \in TradingDays /\ r[2] <= asOf
      => r \in silver

\* Rows that a failed request would have returned are in Bronze when a later
\* run over the same listing, to the same end, finishes without an error.
Resumed(ds) ==
  CleanFinish /\ request.start = 0 /\ (ds # "quotes" => request.raw) =>
    \A r \in owed[ds] :
      r[1] \in request.sel /\ r[2] <= asOf => r \in bronze[ds]

\* A quote request that failed is made good by the next clean run: gap planning
\* sees the hole in Silver (build_gap_bronze_plan).
FailedQuotesAreResumed == Resumed("quotes")

\* README.md:466 says cron runs "resume safely after partial failures"; the
\* claim for the companion datasets, dividends and splits.
FailedCompanionsAreResumed == \A ds \in Companions : Resumed(ds)

\* The gap report of a gap-aware run, written for the plan's listings only,
\* still lists every gap Silver has among the selected listings: a listing left
\* out of the plan has none (write_bronze_manifests is given the reduced plan).
\* It is stated for runs that no process death precedes: a run that died before
\* Silver leaves Bronze rows that the next one brings in without planning them.
ReportIsExact ==
  [][FinishRun /\ request.gap =>
       report' = {r \in Rows : /\ r[1] \in request.sel
                                /\ r[2] \in Missing(r[1], asOf)}]_vars

\* No process death has left a file half written.
Untorn == torn = {} /\ tornSilver = {}

\* Every quote released on a trading day after the first known date of its
\* listing reaches Silver, though requests fail now and then and a process dies
\* in between: runs are repeated and planned from what Silver lacks.  A torn file
\* ends that.
QuotesArrive ==
  \A r \in Market["quotes"] :
    [](/\ r \in published["quotes"] /\ r[2] \in TradingDays
       /\ \E k \in Known(r[1]) : k <= r[2]
       => <>(r \in silver \/ ~Untorn))

\* Runs go on finishing, though requests fail and a process dies, unless the death
\* tears a file.
RunsKeepFinishing == []<><<FinishRun>>_vars \/ <>~Untorn

\* README.md:466 says the Bronze run "is safe for unattended cron execution": runs go
\* on finishing, whatever a process death leaves behind.  It is false of the code:
\* a torn file ends every later run.
RunsSurviveDeaths == []<><<FinishRun>>_vars

\* Silver as an archive that only ever gains rows the provider released.
Archive == INSTANCE QuoteArchive WITH
  Feed <- Market["quotes"], released <- published["quotes"], archive <- silver
ArchiveSpec == Archive!Spec

=============================================================================

---------------------------- MODULE HostedProjects ----------------------------
(***************************************************************************)
(* Projects, selections, analyses, downloads and accounts of the hosted    *)
(* API.  The request handlers run on a thread pool over one HostedApiState *)
(* without a lock.  Inserts go into shared dictionaries in place; a        *)
(* deletion builds a filtered copy of a dictionary and then assigns it, so *)
(* an insert that falls between the two is lost and a removal undone; if   *)
(* it falls into the iteration, Python raises.  Each access to a           *)
(* dictionary is a step.                                                   *)
(*                                                                         *)
(* Public ids are hashes of what they name: a project id of its user and   *)
(* name, a selection id of its record, an analysis id of its user and      *)
(* selection (settings are one value here), a download run id of its user  *)
(* and what was asked for.  Entitlements and credentials appear as the API *)
(* uses them, with one step for each call; UserEntitlements and            *)
(* CredentialVault have the steps of these calls.                          *)
(***************************************************************************)
EXTENDS Naturals, FiniteSets

CONSTANTS
  Users, Names, Listings,
  Symbols,        \* the observations run_download grants
  MemberSets,     \* the member lists a selection is created with
  SymbolSets,     \* the symbol lists of run_download
  Discontinued,   \* REMOVED_PROJECT_NAMES
  Keys,           \* idempotency keys
  Clients,        \* threads of the server
  ServedBy,       \* ServedBy[c]: the users whose requests c handles
  MaxRequests,    \* bound
  None

Projects == Users \X Names
Selections == [user : Users, project : Projects, members : MemberSets]
Analyses == [user : Users, sel : Selections, project : Projects]
Downloads == [user : Users, members : SymbolSets]
Ops == {"project", "filter", "select", "load", "analyse", "drop", "leave", "list",
        "download", "setKey", "dropKey"}
Deletions == {"drop", "leave", "list"}
Request == [op : Ops, user : Users, project : Projects,
            sel : {None} \cup Selections \cup Downloads, key : {None} \cup Keys]

\* What the payloads name: a project is created for its user, a selection with the
\* user's id for the project named, a download of symbols for its user; ids in the
\* other requests may be anybody's.
Requests ==
  {r \in Request :
     /\ r.op \notin {"select", "load", "analyse", "drop"} => r.project[1] = r.user
     /\ CASE r.op \in {"filter", "select"} ->
               r.sel \in Selections /\ r.sel.user = r.user /\ r.sel.project = r.project
          [] r.op = "analyse" -> r.sel \in Selections
          [] r.op = "download" -> r.sel \in Downloads /\ r.sel.user = r.user
          [] OTHER -> r.sel = None
     /\ r.op \in {"select", "drop", "leave", "list", "dropKey"} => r.key = None}

\* What a reference is filed under: the operation's name has the project's name or
\* id in it for projects and loads.
Refs == [user : Users, op : Ops, about : {None} \cup Projects, key : Keys]

ASSUME ProjectsAssumption ==
  /\ MemberSets \subseteq SUBSET Listings
  /\ SymbolSets \subseteq SUBSET Symbols
  /\ Discontinued \subseteq Names
  /\ ServedBy \in [Clients -> SUBSET Users]
  /\ MaxRequests \in Nat
  /\ None \notin Keys
  /\ \A s \in Selections \cup Downloads : s # None
  /\ \A p \in Projects : p # None
  /\ \A r \in Requests : r # None

VARIABLES
  projects, selections, analyses,   \* projects_by_id and so on, their rows
  refs,       \* idempotency_refs
  downloads,  \* downloads_by_id: the selections loaded, and what was downloaded
  grants,     \* grants[u]: what is granted to u
  credentials, \* the users with an active credential
  deleted,    \* users whose entitlements were deleted
  begun,      \* number of requests so far
  pc, req,
  found,      \* the selection a load works on, or the download
  doomed,     \* the projects whose rows the request removes
  copy,       \* the filtered copy of a dictionary that is being built
  view,       \* what became of the dictionary it is built from
  overlap,    \* history: a deletion ran beside another request
  returned    \* history: returned[u], the listings whose quotes u's loads got

tables == <<projects, selections, analyses>>
account == <<grants, deleted, credentials>>
locals == <<req, found, doomed, copy>>
history == <<overlap, returned, begun>>
vars == <<tables, refs, downloads, account, pc, locals, view, history>>

Init ==
  /\ projects = {} /\ selections = {} /\ analyses = {}
  /\ refs = {} /\ downloads = {}
  /\ grants = [u \in Users |-> {}] /\ deleted = {} /\ credentials = {}
  /\ begun = 0
  /\ pc = [c \in Clients |-> "idle"]
  /\ req = [c \in Clients |-> None]
  /\ found = [c \in Clients |-> None]
  /\ doomed = [c \in Clients |-> {}]
  /\ copy = [c \in Clients |-> {}]
  /\ view = [c \in Clients |-> "same"]
  /\ overlap = FALSE
  /\ returned = [u \in Users |-> {}]

Goto(c, label) == pc' = [pc EXCEPT ![c] = label]

\* A response or an HTTP error.
Return(c) ==
  /\ Goto(c, "idle")
  /\ req' = [req EXCEPT ![c] = None]
  /\ found' = [found EXCEPT ![c] = None]
  /\ doomed' = [doomed EXCEPT ![c] = {}]
  /\ copy' = [copy EXCEPT ![c] = {}]

Continue(c, label) == Goto(c, label) /\ UNCHANGED locals

\* The copies others are building from a dictionary, when it changes size ...
Resized(label) ==
  view' = [d \in Clients |->
             IF pc[d] = label /\ view[d] = "same" THEN "resized" ELSE view[d]]

\* ... and when c assigns another dictionary in its place.
Replaced(c, label) ==
  view' = [d \in Clients |->
             IF d = c THEN "same"
             ELSE IF pc[d] = label /\ view[d] = "same" THEN "replaced" ELSE view[d]]

AnotherAt(c, labels) == \E d \in Clients \ {c} : pc[d] \in labels

-----------------------------------------------------------------------------
(* Requests *)

\* The dictionaries are looked at in this order by the handlers.
FirstStep(op) ==
  CASE op \in {"project", "filter", "download", "setKey"} -> "lookup"
    [] op \in {"select", "load", "drop"} -> "check"
    [] op = "analyse" -> "selected"
    [] op = "leave" -> "forget"
    [] op = "list" -> "list"
    [] op = "dropKey" -> "removeKey"

\* current_user and csrf_user have let the request pass.
Begin(c, r) ==
  /\ pc[c] = "idle" /\ begun < MaxRequests
  /\ r.user \in ServedBy[c]
  /\ begun' = begun + 1
  /\ Goto(c, FirstStep(r.op))
  /\ req' = [req EXCEPT ![c] = r]
  /\ overlap' = \/ overlap
                \/ \E d \in Clients : /\ pc[d] # "idle"
                                      /\ {r.op, req[d].op} \cap Deletions # {}
  /\ UNCHANGED <<tables, refs, downloads, account, found, doomed, copy, view, returned>>

\* Variant: the project need only exist.
CheckExists(c) ==
  /\ pc[c] = "check"
  /\ IF req[c].project \notin projects THEN Return(c)
     ELSE Continue(c, CASE req[c].op = "select"  -> "insertSelection"
                        [] req[c].op = "load"    -> "find"
                        [] req[c].op = "analyse" -> "lookup"
                        [] req[c].op = "drop"    -> "pop")
  /\ UNCHANGED <<tables, refs, downloads, account, view, history>>

\* _require_user_row on the project: it must be there and be the user's.
Check(c) ==
  /\ pc[c] = "check"
  /\ IF req[c].project \notin projects \/ req[c].project[1] # req[c].user THEN Return(c)
     ELSE Continue(c, CASE req[c].op = "select"  -> "insertSelection"
                        [] req[c].op = "load"    -> "find"
                        [] req[c].op = "analyse" -> "lookup"
                        [] req[c].op = "drop"    -> "pop")
  /\ UNCHANGED <<tables, refs, downloads, account, view, history>>

\* _require_user_row on the selection of an analysis.
CheckSelection(c) ==
  /\ pc[c] = "selected"
  /\ IF req[c].sel \in selections /\ req[c].sel.user = req[c].user
     THEN Continue(c, "check") ELSE Return(c)
  /\ UNCHANGED <<tables, refs, downloads, account, view, history>>

Ref(r) == [user |-> r.user, op |-> r.op, key |-> r.key,
           about |-> IF r.op \in {"project", "filter", "load"} THEN r.project ELSE None]

\* A request with a key that was used before answers with the row of that time
\* and changes nothing (and fails, if the row has gone).
Lookup(c) ==
  /\ pc[c] = "lookup"
  /\ IF Ref(req[c]) \in refs THEN Return(c)
     ELSE /\ Goto(c, CASE req[c].op \in {"project", "filter"} -> "insertProject"
                       [] req[c].op = "load"     -> "unwrap"
                       [] req[c].op = "analyse"  -> "insertAnalysis"
                       [] req[c].op = "download" -> "record"
                       [] req[c].op = "setKey"   -> "putKey")
          /\ found' = IF req[c].op = "download" THEN [found EXCEPT ![c] = req[c].sel]
                                                 ELSE found
          /\ UNCHANGED <<req, doomed, copy>>
  /\ UNCHANGED <<tables, refs, downloads, account, view, history>>

Remember(c) ==
  /\ pc[c] = "remember"
  /\ refs' = IF req[c].key = None THEN refs ELSE refs \cup {Ref(req[c])}
  /\ Return(c)
  /\ UNCHANGED <<tables, downloads, account, view, history>>

-----------------------------------------------------------------------------
(* Inserts *)

InsertProject(c) ==
  /\ pc[c] = "insertProject"
  /\ projects' = projects \cup {req[c].project}
  /\ IF req[c].project \in projects THEN UNCHANGED view ELSE Resized("putProjects")
  /\ Continue(c, IF req[c].op = "filter" THEN "insertSelection" ELSE "remember")
  /\ UNCHANGED <<selections, analyses, refs, downloads, account, history>>

\* A filter's selection is written to the lake before its project is remembered,
\* which can fail.
InsertSelection(c) ==
  /\ pc[c] = "insertSelection"
  /\ selections' = selections \cup {req[c].sel}
  /\ IF req[c].sel \in selections THEN UNCHANGED view ELSE Resized("putSelections")
  /\ Return(c) \/ (req[c].op = "filter" /\ Continue(c, "remember"))
  /\ UNCHANGED <<projects, analyses, refs, downloads, account, history>>

\* The project is not part of an analysis id: the same selection analysed for
\* another project takes the row over.
InsertAnalysis(c) ==
  LET same == {x \in analyses : x.user = req[c].user /\ x.sel = req[c].sel} IN
  /\ pc[c] = "insertAnalysis"
  /\ analyses' = (analyses \ same) \cup
       {[user |-> req[c].user, sel |-> req[c].sel, project |-> req[c].project]}
  /\ IF same = {} THEN Resized("putAnalyses") ELSE UNCHANGED view
  /\ Continue(c, "remember")
  /\ UNCHANGED <<projects, selections, refs, downloads, account, history>>

-----------------------------------------------------------------------------
(* load_selected_isins *)

\* Variant: a project without a selection goes on without one.
FindOrNone(c) ==
  /\ pc[c] = "find"
  /\ LET own == {s \in selections : s.project = req[c].project /\ s.user = req[c].user} IN
       \E s \in own \cup {None} : /\ s = None => own = {}
                                  /\ found' = [found EXCEPT ![c] = s]
                                  /\ Goto(c, "lookup") /\ UNCHANGED <<req, doomed, copy>>
  /\ UNCHANGED <<tables, refs, downloads, account, view, history>>

\* _selection_for_project: the first one inserted; which it is, is left open.
\* An insert may fall into its iteration.
Find(c) ==
  /\ pc[c] = "find"
  /\ LET own == {s \in selections : s.project = req[c].project /\ s.user = req[c].user} IN
       \/ (own = {} \/ AnotherAt(c, {"insertSelection"})) /\ Return(c)
       \/ \E s \in own : /\ found' = [found EXCEPT ![c] = s]
                         /\ Goto(c, "lookup") /\ UNCHANGED <<req, doomed, copy>>
  /\ UNCHANGED <<tables, refs, downloads, account, view, history>>

\* unwrap_for_provider_call answers with the key of an active credential; without
\* one the request ends with 422.
Unwrap(c) ==
  /\ pc[c] = "unwrap"
  /\ IF req[c].user \in credentials THEN Continue(c, "fetch") ELSE Return(c)
  /\ UNCHANGED <<tables, refs, downloads, account, view, history>>

\* run_fetch_all_quotes_workflow raises ...
FetchRaises(c) ==
  /\ pc[c] = "fetch"
  /\ Return(c)
  /\ UNCHANGED <<tables, refs, downloads, account, view, history>>

\* ... or returns, having got the quotes of some of the members; how many failed
\* is in its summary.
Fetch(c) ==
  /\ pc[c] = "fetch"
  /\ \E G \in SUBSET found[c].members :
       returned' = [returned EXCEPT ![req[c].user] = @ \cup G]
  /\ Continue(c, "record")
  /\ UNCHANGED <<tables, refs, downloads, account, view, overlap, begun>>

\* load_selected_isins after the fetch, run_download at once.
RecordLoad(c) ==
  /\ pc[c] = "record"
  /\ downloads' = downloads \cup {found[c]}
  /\ Continue(c, "publish")
  /\ UNCHANGED <<tables, refs, account, view, history>>

\* publish_user_data_snapshot is given all members or symbols asked for, and raises
\* for a deleted user.
Publish(c) ==
  /\ pc[c] = "publish"
  /\ IF req[c].user \in deleted
     THEN Return(c) /\ UNCHANGED grants
     ELSE /\ grants' = [grants EXCEPT ![req[c].user] = @ \cup found[c].members]
          /\ Continue(c, "remember")
  /\ UNCHANGED <<tables, refs, downloads, deleted, credentials, view, history>>

-----------------------------------------------------------------------------
(* The provider credential: one step for each call of the vault *)

SetKey(c) ==
  /\ pc[c] = "putKey"
  /\ credentials' = credentials \cup {req[c].user}
  /\ Continue(c, "remember")
  /\ UNCHANGED <<tables, refs, downloads, grants, deleted, view, history>>

DropKey(c) ==
  /\ pc[c] = "removeKey"
  /\ credentials' = credentials \ {req[c].user}
  /\ Return(c)
  /\ UNCHANGED <<tables, refs, downloads, grants, deleted, view, history>>

-----------------------------------------------------------------------------
(* Deletions *)

\* Variant: the rows of the project are left.
PopAlone(c) ==
  /\ pc[c] = "pop"
  /\ projects' = projects \ {req[c].project}
  /\ Return(c)
  /\ UNCHANGED <<selections, analyses, refs, downloads, account, view, history>>

\* delete_project.
PopProject(c) ==
  /\ pc[c] = "pop"
  /\ projects' = projects \ {req[c].project}
  /\ IF req[c].project \in projects THEN Resized("putProjects") ELSE UNCHANGED view
  /\ doomed' = [doomed EXCEPT ![c] = {req[c].project}]
  /\ Goto(c, "copySelections")
  /\ UNCHANGED <<selections, analyses, refs, downloads, account, req, found, copy, history>>

\* delete_account begins with delete_user_entitlements.  Credentials, downloads and
\* references stay.
ForgetGrants(c) ==
  /\ pc[c] = "forget"
  /\ deleted' = deleted \cup {req[c].user}
  /\ grants' = [grants EXCEPT ![req[c].user] = {}]
  /\ doomed' = [doomed EXCEPT ![c] = {req[c].user} \X Names]
  /\ Goto(c, "copyProjects")
  /\ UNCHANGED <<tables, refs, downloads, credentials, req, found, copy, view, history>>

\* _remove_discontinued_projects, before projects are listed.
ListProjects(c) ==
  /\ pc[c] = "list"
  /\ LET old == {p \in projects : p[1] = req[c].user /\ p[2] \in Discontinued} IN
       \/ (old = {} \/ AnotherAt(c, {"insertProject", "pop"})) /\ Return(c)
       \/ /\ old # {}
          /\ doomed' = [doomed EXCEPT ![c] = old]
          /\ Goto(c, "copyProjects") /\ UNCHANGED <<req, found, copy>>
  /\ UNCHANGED <<tables, refs, downloads, account, view, history>>

\* Variant: an account deletion empties the tables.
GoneWithAccount(c, owner, project) ==
  req[c].op = "leave" \/ (owner = req[c].user /\ project \in doomed[c])

\* The rows that are not copied.
Gone(c, owner, project) ==
  owner = req[c].user /\ (req[c].op = "leave" \/ project \in doomed[c])

\* One dictionary's comprehension: what it keeps, and what it is then put into.
Copy(c) ==
  /\ \/ /\ pc[c] = "copyProjects" /\ Goto(c, "putProjects")
        /\ copy' = [copy EXCEPT ![c] = {p \in projects : ~Gone(c, p[1], p)}]
     \/ /\ pc[c] = "copySelections" /\ Goto(c, "putSelections")
        /\ copy' = [copy EXCEPT ![c] = {s \in selections : ~Gone(c, s.user, s.project)}]
     \/ /\ pc[c] = "copyAnalyses" /\ Goto(c, "putAnalyses")
        /\ copy' = [copy EXCEPT ![c] = {x \in analyses : ~Gone(c, x.user, x.project)}]
  /\ view' = [view EXCEPT ![c] = "same"]
  /\ UNCHANGED <<tables, refs, downloads, account, req, found, doomed, history>>

\* The dictionary changed size while it was iterated over; the request fails.
CopyRaises(c) ==
  /\ pc[c] \in {"putProjects", "putSelections", "putAnalyses"}
  /\ view[c] = "resized"
  /\ Return(c)
  /\ UNCHANGED <<tables, refs, downloads, account, view, history>>

PutProjects(c) ==
  /\ pc[c] = "putProjects"
  /\ projects' = copy[c]
  /\ Replaced(c, "putProjects")
  /\ Continue(c, "copySelections")
  /\ UNCHANGED <<selections, analyses, refs, downloads, account, history>>

PutSelections(c) ==
  /\ pc[c] = "putSelections"
  /\ selections' = copy[c]
  /\ Replaced(c, "putSelections")
  /\ Continue(c, "copyAnalyses")
  /\ UNCHANGED <<projects, analyses, refs, downloads, account, history>>

PutAnalyses(c) ==
  /\ pc[c] = "putAnalyses"
  /\ analyses' = copy[c]
  /\ Replaced(c, "putAnalyses")
  /\ Return(c)
  /\ UNCHANGED <<projects, selections, refs, downloads, account, history>>

-----------------------------------------------------------------------------

Handler(c) ==
  \/ \E r \in Requests : Begin(c, r)
  \/ Check(c) \/ CheckSelection(c) \/ Lookup(c) \/ Remember(c)
  \/ InsertProject(c) \/ InsertSelection(c) \/ InsertAnalysis(c)
  \/ Find(c) \/ Unwrap(c) \/ FetchRaises(c) \/ Fetch(c) \/ RecordLoad(c) \/ Publish(c)
  \/ SetKey(c) \/ DropKey(c)
  \/ PopProject(c) \/ ForgetGrants(c) \/ ListProjects(c)
  \/ Copy(c) \/ CopyRaises(c) \/ PutProjects(c) \/ PutSelections(c) \/ PutAnalyses(c)

Next == \E c \in Clients : Handler(c)

Spec == Init /\ [][Next]_vars

-----------------------------------------------------------------------------
(* Properties *)

Labels == {"idle", "lookup", "check", "selected", "remember", "insertProject",
           "insertSelection", "insertAnalysis", "find", "unwrap", "fetch", "record",
           "publish", "putKey", "removeKey", "pop", "forget", "list", "copyProjects",
           "putProjects", "copySelections", "putSelections", "copyAnalyses", "putAnalyses"}

\* Every variable keeps its type.
TypeOK ==
  /\ projects \subseteq Projects
  /\ selections \subseteq Selections
  /\ analyses \subseteq Analyses
  /\ refs \subseteq Refs
  /\ downloads \subseteq Selections \cup Downloads
  /\ grants \in [Users -> SUBSET (Listings \cup Symbols)]
  /\ deleted \subseteq Users /\ credentials \subseteq Users
  /\ pc \in [Clients -> Labels]
  /\ req \in [Clients -> {None} \cup Requests]
  /\ found \in [Clients -> {None} \cup Selections \cup Downloads]
  /\ \A c \in Clients :
       /\ pc[c] # "idle" => req[c] # None
       /\ pc[c] \in {"unwrap", "fetch", "record", "publish"} => found[c] # None
  /\ doomed \in [Clients -> SUBSET Projects]
  /\ \A c \in Clients :
       /\ pc[c] = "putProjects" => copy[c] \subseteq Projects
       /\ pc[c] = "putSelections" => copy[c] \subseteq Selections
       /\ pc[c] = "putAnalyses" => copy[c] \subseteq Analyses
  /\ view \in [Clients -> {"same", "resized", "replaced"}]
  /\ overlap \in BOOLEAN /\ begun \in 0..MaxRequests
  /\ returned \in [Users -> SUBSET Listings]

\* No user gets at another's rows, whatever copies are lost or brought back: a
\* selection and an analysis belong to the owner of the project they are filed
\* under, and grants come from the user's own loads and downloads
\* (_require_user_row).
RowsStayWithOwner ==
  /\ \A s \in selections \cup (downloads \ Downloads) : s.user = s.project[1]
  /\ \A x \in analyses : x.user = x.project[1] /\ x.user = x.sel.user
  /\ \A u \in Users :
       grants[u] \subseteq UNION {s.members : s \in {d \in downloads : d.user = u}}

Deleting(c) == pc[c] # "idle" /\ req[c].op \in Deletions

\* As long as no deletion ran beside another request, every selection and
\* analysis has its project (delete_project, delete_account,
\* _remove_discontinued_projects each clean three tables).
NoOrphans ==
  ~overlap /\ (\A c \in Clients : ~Deleting(c)) =>
    /\ \A s \in selections : s.project \in projects
    /\ \A x \in analyses : x.project \in projects

NoRowOf(u) ==
  /\ \A p \in projects : p[1] # u
  /\ \A s \in selections : s.user # u
  /\ \A a \in analyses : a.user # u

\* c's request is the account deletion of u, and ends with this step.
Leaves(c, u) ==
  /\ req[c] # None /\ req[c].op = "leave" /\ req[c].user = u
  /\ pc'[c] = "idle"

\* An account deletion that ran alone leaves no project, selection, analysis or grant
\* of the user.  The rows of downloads_by_id, the references and the credential stay
\* (delete_account).
AccountIsEmptied ==
  [][\A c \in Clients, u \in Users :
       Leaves(c, u) /\ ~overlap => NoRowOf(u)' /\ grants'[u] = {}]_vars

\* docs/hosted_security_architecture.md:257 says "Account deletion removes credentials
\* and user grants": a deletion that ran alone leaves no credential to call the provider
\* with.  It is false of the code: delete_account never touches the vault.
CredentialGoesWithAccount ==
  [][\A c \in Clients, u \in Users : Leaves(c, u) /\ ~overlap => u \notin credentials']_vars

LosesRow(u) ==
  \/ \E p \in projects \ projects' : p[1] = u
  \/ \E s \in selections \ selections' : s.user = u
  \/ \E a \in analyses : a.user = u /\ \A b \in analyses' : b.user # u \/ b.sel # a.sel

\* As long as no deletion ran beside another request, a user loses rows to that
\* user's own deletions only: the copies that delete_project, delete_account and
\* _remove_discontinued_projects assign keep every other user's rows.
OnlyOwnerRemoves ==
  [][\A u \in Users :
       LosesRow(u) /\ ~overlap => \E c \in Clients : Deleting(c) /\ req[c].user = u]_vars

\* BACKLOG.md:264 says "a partial or failed run cannot grant unreturned data".
GrantsWereReturned ==
  \A u \in Users : grants[u] \cap Listings \subseteq returned[u]

\* A deletion that runs alone removes every project, selection, analysis and grant it
\* is asked to remove, and nothing of anybody else.
DeletionsAreExact == AccountIsEmptied /\ OnlyOwnerRemoves
=============================================================================

------------------------- MODULE HostedProjectsProofs -------------------------
(***************************************************************************)
(* For any users, projects, selections and number of threads: types are    *)
(* kept, and rows and grants stay with the user who owns them, whatever    *)
(* inserts are lost and removals undone between the threads.  A deletion   *)
(* that no request runs beside leaves no orphan, and removes all of what   *)
(* it is asked to and nothing else.                                        *)
(***************************************************************************)
EXTENDS HostedProjects, TLAPS

\* The labels at which a request of each kind can be.
Route(op) ==
  CASE op = "project" -> {"lookup", "insertProject", "remember"}
    [] op = "filter"  -> {"lookup", "insertProject", "insertSelection", "remember"}
    [] op = "select"  -> {"check", "insertSelection"}
    [] op = "load"    -> {"check", "find", "lookup", "unwrap", "fetch", "record",
                          "publish", "remember"}
    [] op = "analyse" -> {"selected", "check", "lookup", "insertAnalysis", "remember"}
    [] op = "drop"    -> {"check", "pop", "copySelections", "putSelections",
                          "copyAnalyses", "putAnalyses"}
    [] op = "download" -> {"lookup", "record", "publish", "remember"}
    [] op = "setKey"  -> {"lookup", "putKey", "remember"}
    [] op = "dropKey" -> {"removeKey"}
    [] OTHER          -> {"forget", "list", "copyProjects", "putProjects", "copySelections",
                          "putSelections", "copyAnalyses", "putAnalyses"}

OwnRow(row) == row \in Downloads \/ row.user = row.project[1]
OwnAnalysis(a) == a.user = a.project[1] /\ a.user = a.sel.user

\* What a handler at its label has been asked and has found out.
Knows(c) ==
  pc[c] # "idle" =>
    /\ req[c] \in Requests /\ pc[c] \in Route(req[c].op)
    /\ req[c].op = "leave" => pc[c] # "list"
    /\ req[c].op = "list" => pc[c] # "forget"
    /\ req[c].op \in {"filter", "select"} =>
         /\ req[c].sel \in Selections
         /\ req[c].sel.user = req[c].user /\ req[c].sel.project = req[c].project
    /\ req[c].op = "analyse" => req[c].sel \in Selections
    /\ req[c].op = "download" => req[c].sel \in Downloads /\ req[c].sel.user = req[c].user
    /\ pc[c] \in {"lookup", "insertProject", "insertSelection", "insertAnalysis", "find"} =>
         req[c].project[1] = req[c].user
    /\ req[c].op = "analyse" /\ pc[c] # "selected" => req[c].sel.user = req[c].user
    /\ pc[c] \in {"unwrap", "fetch"} \/ (pc[c] = "lookup" /\ req[c].op = "load")
         => found[c] \in Selections
    /\ pc[c] \in {"record", "publish"} => found[c] # None

\* What it has in hand is its user's, and what it is to assign is in order.
Carries(c) ==
  /\ found[c] # None =>
       pc[c] # "idle" /\ OwnRow(found[c]) /\ found[c].user = req[c].user
  /\ pc[c] = "publish" => found[c] \in downloads
  /\ pc[c] = "putSelections" => \A s \in copy[c] : s.user = s.project[1]
  /\ pc[c] = "putAnalyses" => \A a \in copy[c] : OwnAnalysis(a)

Tables ==
  /\ projects \subseteq Projects
  /\ selections \subseteq Selections
  /\ analyses \subseteq Analyses
  /\ refs \subseteq Refs
  /\ downloads \subseteq Selections \cup Downloads
  /\ grants \in [Users -> SUBSET (Listings \cup Symbols)]
  /\ deleted \subseteq Users /\ credentials \subseteq Users
  /\ overlap \in BOOLEAN /\ begun \in 0..MaxRequests
  /\ returned \in [Users -> SUBSET Listings]

Locals ==
  /\ pc \in [Clients -> Labels]
  /\ req \in [Clients -> {None} \cup Requests]
  /\ found \in [Clients -> {None} \cup Selections \cup Downloads]
  /\ doomed \in [Clients -> SUBSET Projects]
  /\ copy \in [Clients -> (SUBSET Projects) \cup (SUBSET Selections) \cup (SUBSET Analyses)]
  /\ view \in [Clients -> {"same", "resized", "replaced"}]
  /\ \A c \in Clients :
       /\ pc[c] = "putProjects" => copy[c] \subseteq Projects
       /\ pc[c] = "putSelections" => copy[c] \subseteq Selections
       /\ pc[c] = "putAnalyses" => copy[c] \subseteq Analyses

IInv == Tables /\ Locals /\ (\A c \in Clients : Knows(c))

LEMMA InitIInv == Init => IInv
<1> SUFFICES ASSUME Init PROVE IInv
  OBVIOUS
<1>1. Tables
  <2>1. 0 \in 0..MaxRequests BY ProjectsAssumption
  <2> QED BY <2>1 DEF Init, Tables
<1>2. Locals
  BY DEF Init, Locals, Labels
<1>3. \A c \in Clients : Knows(c)
  BY DEF Init, Knows
<1> QED BY <1>1, <1>2, <1>3 DEF IInv

LEMMA StepIInv == IInv /\ [Next]_vars => IInv'
<1> SUFFICES ASSUME IInv, [Next]_vars PROVE IInv'
  OBVIOUS
<1> USE ProjectsAssumption DEF tables, account, locals, history, Goto, Continue
<1>1. ASSUME NEW c \in Clients, NEW r \in Requests, Begin(c, r) PROVE IInv'
  <2>1. Tables' BY <1>1 DEF Begin, IInv, Tables
  <2>2. FirstStep(r.op) \in Labels /\ FirstStep(r.op) \in Route(r.op)
    BY DEF FirstStep, Labels, Route, Requests, Request, Ops
  <2>3. Locals'
    <3>1. FirstStep(r.op) \notin {"putProjects", "putSelections", "putAnalyses"}
      BY DEF FirstStep, Requests, Request, Ops
    <3> QED BY <1>1, <2>2, <3>1 DEF Begin, IInv, Locals
  <2>4. \A d \in Clients : Knows(d)'
    BY <1>1, <2>2 DEF Begin, IInv, Locals, Knows, FirstStep, Requests, Request, Ops, Route
  <2> QED BY <2>1, <2>3, <2>4 DEF IInv
<1>2. ASSUME NEW c \in Clients, Check(c) PROVE IInv'
  <2>1. Tables' BY <1>2 DEF Check, IInv, Tables
  <2>3. Locals'
    <3>1. CASE Return(c) /\ UNCHANGED view
      BY <3>1 DEF Return, IInv, Locals, Labels
    <3>2. CASE UNCHANGED <<locals, view>>
               /\ \E l \in {"insertSelection", "find", "lookup", "pop"} : Goto(c, l)
      BY <3>2 DEF IInv, Locals, Labels
    <3>3. req[c].op \in {"select", "load", "analyse", "drop"}
      BY <1>2 DEF Check, IInv, Knows, Route, Requests, Request, Ops
    <3> QED BY <1>2, <3>1, <3>2, <3>3 DEF Check
  <2>4. \A d \in Clients : Knows(d)'
    BY <1>2 DEF Check, Return, IInv, Locals, Knows, Route, Requests, Request, Ops
  <2> QED BY <2>1, <2>3, <2>4 DEF IInv
<1>3. ASSUME NEW c \in Clients, CheckSelection(c) PROVE IInv'
  <2>1. Tables' BY <1>3 DEF CheckSelection, IInv, Tables
  <2>3. Locals' BY <1>3 DEF CheckSelection, Return, IInv, Locals, Labels
  <2>4. \A d \in Clients : Knows(d)'
    BY <1>3 DEF CheckSelection, Return, IInv, Locals, Knows, Route, Requests, Request, Ops
  <2> QED BY <2>1, <2>3, <2>4 DEF IInv
<1>4. ASSUME NEW c \in Clients, Lookup(c) PROVE IInv'
  <2>1. Tables' BY <1>4 DEF Lookup, IInv, Tables
  <2>2. req[c].op \in {"project", "filter", "load", "analyse", "download", "setKey"}
    BY <1>4 DEF Lookup, IInv, Knows, Route, Requests, Request, Ops
  <2>3. \/ Return(c)
        \/ /\ \E l \in {"insertProject", "unwrap", "insertAnalysis", "record", "putKey"} :
                pc' = [pc EXCEPT ![c] = l]
           /\ found' = [found EXCEPT ![c] = found'[c]]
           /\ found'[c] \in {None} \cup Selections \cup Downloads
           /\ UNCHANGED <<req, doomed, copy>>
    BY <1>4, <2>2 DEF Lookup, IInv, Locals, Knows
  <2>4. Locals'
    <3>1. CASE Return(c)
      BY <1>4, <3>1 DEF Lookup, Return, IInv, Locals, Labels
    <3>2. CASE ~Return(c)
      BY <1>4, <2>3, <3>2 DEF Lookup, IInv, Locals, Labels
    <3> QED BY <3>1, <3>2
  <2>5. \A d \in Clients : Knows(d)'
    BY <1>4, <2>2, ProjectsAssumption
       DEF Lookup, Return, IInv, Locals, Knows, Route, Requests, Request, Ops
  <2> QED BY <2>1, <2>4, <2>5 DEF IInv
<1>5. ASSUME NEW c \in Clients, Remember(c) PROVE IInv'
  <2>1. req[c].key # None => Ref(req[c]) \in Refs
    BY <1>5 DEF Remember, IInv, Knows, Ref, Refs, Requests, Request
  <2>2. Tables' BY <1>5, <2>1 DEF Remember, IInv, Tables
  <2>3. Locals' BY <1>5 DEF Remember, Return, IInv, Locals, Labels
  <2>4. \A d \in Clients : Knows(d)'
    BY <1>5 DEF Remember, Return, IInv, Locals, Knows
  <2> QED BY <2>2, <2>3, <2>4 DEF IInv
<1>6. ASSUME NEW c \in Clients, InsertProject(c) PROVE IInv'
  <2>1. Tables' BY <1>6 DEF InsertProject, IInv, Tables, Knows, Requests, Request
  <2>3. Locals' BY <1>6 DEF InsertProject, Resized, IInv, Locals, Labels
  <2>4. \A d \in Clients : Knows(d)'
    BY <1>6 DEF InsertProject, IInv, Locals, Knows, Route, Requests, Request, Ops
  <2> QED BY <2>1, <2>3, <2>4 DEF IInv
<1>7. ASSUME NEW c \in Clients, InsertSelection(c) PROVE IInv'
  <2>1. req[c].sel \in Selections
    BY <1>7 DEF InsertSelection, IInv, Knows, Route, Requests, Request, Ops
  <2>2. Tables' BY <1>7, <2>1 DEF InsertSelection, IInv, Tables
  <2>3. Locals' BY <1>7 DEF InsertSelection, Return, Resized, IInv, Locals, Labels
  <2>4. \A d \in Clients : Knows(d)'
    BY <1>7 DEF InsertSelection, Return, IInv, Locals, Knows, Route, Requests, Request, Ops
  <2> QED BY <2>2, <2>3, <2>4 DEF IInv
<1>8. ASSUME NEW c \in Clients, InsertAnalysis(c) PROVE IInv'
  <2>1. [user |-> req[c].user, sel |-> req[c].sel, project |-> req[c].project] \in Analyses
    BY <1>8 DEF InsertAnalysis, IInv, Knows, Route, Requests, Request, Ops, Analyses
  <2>2. Tables' BY <1>8, <2>1 DEF InsertAnalysis, IInv, Tables
  <2>3. Locals' BY <1>8 DEF InsertAnalysis, Resized, IInv, Locals, Labels
  <2>4. \A d \in Clients : Knows(d)'
    BY <1>8 DEF InsertAnalysis, IInv, Locals, Knows, Route, Requests, Request, Ops
  <2> QED BY <2>2, <2>3, <2>4 DEF IInv
<1>9. ASSUME NEW c \in Clients, Find(c) PROVE IInv'
  <2>1. Tables' BY <1>9 DEF Find, IInv, Tables
  <2>3. Locals' BY <1>9 DEF Find, Return, IInv, Tables, Locals, Labels
  <2>4. \A d \in Clients : Knows(d)'
    BY <1>9 DEF Find, Return, IInv, Tables, Locals, Knows, Route, Requests, Request, Ops
  <2> QED BY <2>1, <2>3, <2>4 DEF IInv
<1>10. ASSUME NEW c \in Clients, Unwrap(c) \/ FetchRaises(c) \/ CopyRaises(c) PROVE IInv'
  <2>1. Tables' BY <1>10 DEF Unwrap, FetchRaises, CopyRaises, IInv, Tables
  <2>3. Locals' BY <1>10 DEF Unwrap, FetchRaises, CopyRaises, Return, IInv, Locals, Labels
  <2>4. \A d \in Clients : Knows(d)'
    BY <1>10 DEF Unwrap, FetchRaises, CopyRaises, Return, IInv, Locals, Knows, Route, Requests,
       Request, Ops
  <2> QED BY <2>1, <2>3, <2>4 DEF IInv
<1>11. ASSUME NEW c \in Clients, Fetch(c) PROVE IInv'
  <2>1. found[c] \in Selections /\ req[c].user \in Users
    BY <1>11 DEF Fetch, IInv, Locals, Knows, Requests, Request
  <2>2. Tables' BY <1>11, <2>1 DEF Fetch, IInv, Tables, Selections
  <2>3. Locals' BY <1>11 DEF Fetch, IInv, Locals, Labels
  <2>4. \A d \in Clients : Knows(d)'
    BY <1>11 DEF Fetch, IInv, Locals, Knows, Route, Requests, Request, Ops
  <2> QED BY <2>2, <2>3, <2>4 DEF IInv
<1>12. ASSUME NEW c \in Clients, RecordLoad(c) PROVE IInv'
  <2>1. found[c] \in Selections \cup Downloads
    BY <1>12 DEF RecordLoad, IInv, Locals, Knows
  <2>2. Tables' BY <1>12, <2>1 DEF RecordLoad, IInv, Tables
  <2>3. Locals' BY <1>12 DEF RecordLoad, IInv, Locals, Labels
  <2>4. \A d \in Clients : Knows(d)'
    BY <1>12 DEF RecordLoad, IInv, Locals, Knows, Route, Requests, Request, Ops
  <2> QED BY <2>2, <2>3, <2>4 DEF IInv
<1>13. ASSUME NEW c \in Clients, Publish(c) PROVE IInv'
  <2>1. found[c].members \subseteq Listings \cup Symbols /\ req[c].user \in Users
    BY <1>13 DEF Publish, IInv, Locals, Knows, Requests, Request, Selections, Downloads
  <2>2. Tables' BY <1>13, <2>1 DEF Publish, IInv, Tables
  <2>3. Locals' BY <1>13 DEF Publish, Return, IInv, Locals, Labels
  <2>4. \A d \in Clients : Knows(d)'
    BY <1>13 DEF Publish, Return, IInv, Locals, Knows, Route, Requests, Request, Ops
  <2> QED BY <2>2, <2>3, <2>4 DEF IInv
<1>14. ASSUME NEW c \in Clients, PopProject(c) PROVE IInv'
  <2>1. req[c].project \in Projects
    BY <1>14 DEF PopProject, IInv, Knows, Requests, Request
  <2>2. Tables' BY <1>14 DEF PopProject, IInv, Tables
  <2>3. Locals' BY <1>14, <2>1 DEF PopProject, Resized, IInv, Locals, Labels
  <2>4. \A d \in Clients : Knows(d)'
    BY <1>14 DEF PopProject, IInv, Locals, Knows, Route, Requests, Request, Ops
  <2> QED BY <2>2, <2>3, <2>4 DEF IInv
<1>15. ASSUME NEW c \in Clients, ForgetGrants(c) PROVE IInv'
  <2>1. req[c].user \in Users
    BY <1>15 DEF ForgetGrants, IInv, Knows, Requests, Request
  <2>2. Tables' BY <1>15, <2>1 DEF ForgetGrants, IInv, Tables
  <2>3. {req[c].user} \X Names \subseteq Projects BY <2>1 DEF Projects
  <2>4. Locals' BY <1>15, <2>3 DEF ForgetGrants, IInv, Locals, Labels
  <2>5. \A d \in Clients : Knows(d)'
    BY <1>15 DEF ForgetGrants, IInv, Locals, Knows, Route, Requests, Request, Ops
  <2> QED BY <2>2, <2>4, <2>5 DEF IInv
<1>16. ASSUME NEW c \in Clients, ListProjects(c) PROVE IInv'
  <2>1. Tables' BY <1>16 DEF ListProjects, IInv, Tables
  <2>3. Locals' BY <1>16 DEF ListProjects, Return, IInv, Tables, Locals, Labels
  <2>4. \A d \in Clients : Knows(d)'
    BY <1>16 DEF ListProjects, Return, IInv, Locals, Knows, Route, Requests, Request, Ops
  <2> QED BY <2>1, <2>3, <2>4 DEF IInv
<1>17. ASSUME NEW c \in Clients, Copy(c) PROVE IInv'
  <2>1. Tables' BY <1>17 DEF Copy, IInv, Tables
  <2>3. Locals'
    <3>1. \/ pc' = [pc EXCEPT ![c] = "putProjects"] /\ copy'[c] \subseteq Projects
          \/ pc' = [pc EXCEPT ![c] = "putSelections"] /\ copy'[c] \subseteq Selections
          \/ pc' = [pc EXCEPT ![c] = "putAnalyses"] /\ copy'[c] \subseteq Analyses
      BY <1>17 DEF Copy, IInv, Tables, Locals
    <3>2. copy' = [copy EXCEPT ![c] = copy'[c]] /\ view' = [view EXCEPT ![c] = "same"]
          /\ UNCHANGED <<req, found, doomed>>
      BY <1>17 DEF Copy, IInv, Locals
    <3> QED BY <3>1, <3>2 DEF IInv, Locals, Labels
  <2>4. \A d \in Clients : Knows(d)'
    BY <1>17 DEF Copy, IInv, Locals, Knows, Route, Requests, Request, Ops
  <2> QED BY <2>1, <2>3, <2>4 DEF IInv
<1>18. ASSUME NEW c \in Clients, PutProjects(c) \/ PutSelections(c) \/ PutAnalyses(c) PROVE IInv'
  <2>1. Tables' BY <1>18 DEF PutProjects, PutSelections, PutAnalyses, IInv, Tables, Locals
  <2>3. Locals'
    BY <1>18 DEF PutProjects, PutSelections, PutAnalyses, Replaced, Return, IInv, Locals, Labels
  <2>4. \A d \in Clients : Knows(d)'
    BY <1>18 DEF PutProjects, PutSelections, PutAnalyses, Return, IInv, Locals, Knows, Route,
                 Requests, Request, Ops
  <2> QED BY <2>1, <2>3, <2>4 DEF IInv
<1>19. ASSUME NEW c \in Clients, SetKey(c) \/ DropKey(c) PROVE IInv'
  <2>1. req[c].user \in Users
    BY <1>19 DEF SetKey, DropKey, IInv, Knows, Requests, Request
  <2>2. Tables' BY <1>19, <2>1 DEF SetKey, DropKey, IInv, Tables
  <2>3. Locals' BY <1>19 DEF SetKey, DropKey, Return, IInv, Locals, Labels
  <2>4. \A d \in Clients : Knows(d)'
    BY <1>19 DEF SetKey, DropKey, Return, IInv, Locals, Knows, Route, Requests, Request, Ops
  <2> QED BY <2>2, <2>3, <2>4 DEF IInv
<1>20. CASE UNCHANGED vars
  BY <1>20 DEF vars, IInv, Tables, Locals, Knows
<1> QED
  BY <1>1, <1>2, <1>3, <1>4, <1>5, <1>6, <1>7, <1>8, <1>9, <1>10, <1>11, <1>12, <1>13, <1>14,
     <1>15, <1>16, <1>17, <1>18, <1>19, <1>20
     DEF Next, Handler

\* Types are kept by any interleaving of requests.
THEOREM TypeCorrect == Spec => []TypeOK
<1>1. IInv => TypeOK
  BY ProjectsAssumption DEF IInv, Tables, Locals, Knows, TypeOK
<1> QED BY InitIInv, StepIInv, <1>1, PTL DEF Spec

-----------------------------------------------------------------------------
(* Rows stay with their owner *)

OwnInv == IInv /\ RowsStayWithOwner /\ \A c \in Clients : Carries(c)

LEMMA InitOwn == Init => OwnInv
BY InitIInv DEF Init, OwnInv, RowsStayWithOwner, Carries

\* The other handlers' locals are theirs, and downloads are never removed.
LEMMA OthersCarry ==
  ASSUME OwnInv, NEW c \in Clients, downloads \subseteq downloads',
         \A d \in Clients \ {c} : /\ pc'[d] = pc[d] /\ req'[d] = req[d]
                                  /\ found'[d] = found[d] /\ copy'[d] = copy[d]
  PROVE  \A d \in Clients \ {c} : Carries(d)'
BY DEF OwnInv, Carries

\* A request that ends, or goes on to a label where nothing new is carried.
LEMMA MoveCarries ==
  ASSUME OwnInv, NEW c \in Clients, downloads \subseteq downloads',
         \/ Return(c)
         \/ /\ pc[c] # "idle" /\ UNCHANGED locals
            /\ \E l \in Labels \ {"idle", "publish", "putSelections", "putAnalyses"} : Goto(c, l)
  PROVE  \A d \in Clients : Carries(d)'
<1> USE DEF locals, Goto
<1>1. \A d \in Clients \ {c} : /\ pc'[d] = pc[d] /\ req'[d] = req[d]
                               /\ found'[d] = found[d] /\ copy'[d] = copy[d]
  BY DEF Return, OwnInv, IInv, Locals
<1>2. Carries(c)'
  BY DEF Return, OwnInv, IInv, Locals, Carries
<1> QED BY <1>1, <1>2, OthersCarry

LEMMA ReturnCarries ==
  ASSUME OwnInv, NEW c \in Clients, downloads' = downloads, Return(c)
  PROVE  \A d \in Clients : Carries(d)'
BY MoveCarries

LEMMA StepOwn == OwnInv /\ [Next]_vars => OwnInv'
<1> SUFFICES ASSUME OwnInv, [Next]_vars
             PROVE  RowsStayWithOwner' /\ \A d \in Clients : Carries(d)'
  BY StepIInv DEF OwnInv
<1> USE ProjectsAssumption DEF tables, account, locals, history, Goto, Continue
<1>0. IInv /\ RowsStayWithOwner /\ \A c \in Clients : Carries(c) /\ Knows(c)
  BY DEF OwnInv, IInv
<1>1. ASSUME NEW c \in Clients, NEW r \in Requests, Begin(c, r)
      PROVE  RowsStayWithOwner' /\ \A d \in Clients : Carries(d)'
  <2>1. RowsStayWithOwner' BY <1>0, <1>1 DEF Begin, RowsStayWithOwner
  <2>2. FirstStep(r.op) \notin {"publish", "putSelections", "putAnalyses"}
    BY DEF FirstStep, Requests, Request, Ops
  <2>3. found[c] = None BY <1>0, <1>1 DEF Begin, Carries
  <2>4. \A d \in Clients : Carries(d)'
    BY <1>0, <1>1, <2>2, <2>3 DEF Begin, Carries, IInv, Locals
  <2> QED BY <2>1, <2>4
<1>2. ASSUME NEW c \in Clients,
             Check(c) \/ CheckSelection(c) \/ Remember(c) \/ Unwrap(c) \/ FetchRaises(c)
               \/ CopyRaises(c) \/ Fetch(c) \/ SetKey(c) \/ DropKey(c)
      PROVE  RowsStayWithOwner' /\ \A d \in Clients : Carries(d)'
  <2>1. UNCHANGED <<projects, selections, analyses, downloads, grants>>
    BY <1>2 DEF Check, CheckSelection, Remember, Unwrap, FetchRaises, CopyRaises, Fetch,
                SetKey, DropKey
  <2>2. pc[c] = "check" => req[c].op \in {"select", "load", "analyse", "drop"}
    BY <1>0 DEF Knows, Route, Requests, Request, Ops
  <2>3. \/ Return(c)
        \/ /\ pc[c] # "idle" /\ UNCHANGED locals
           /\ \E l \in Labels \ {"idle", "publish", "putSelections", "putAnalyses"} : Goto(c, l)
    BY <1>2, <2>2 DEF Check, CheckSelection, Remember, Unwrap, FetchRaises, CopyRaises, Fetch,
                      SetKey, DropKey, Labels
  <2>4. \A d \in Clients : Carries(d)'
    BY <2>1, <2>3, MoveCarries
  <2> QED BY <1>0, <2>1, <2>4 DEF RowsStayWithOwner
<1>3. ASSUME NEW c \in Clients, InsertProject(c)
      PROVE  RowsStayWithOwner' /\ \A d \in Clients : Carries(d)'
  <2>1. \A d \in Clients : Carries(d)'
    BY <1>3, MoveCarries DEF InsertProject, Labels
  <2> QED BY <1>0, <1>3, <2>1 DEF InsertProject, RowsStayWithOwner
<1>4. ASSUME NEW c \in Clients, InsertSelection(c)
      PROVE  RowsStayWithOwner' /\ \A d \in Clients : Carries(d)'
  <2>1. \A d \in Clients : Carries(d)'
    BY <1>4, MoveCarries DEF InsertSelection, Labels
  <2>2. req[c].sel.user = req[c].sel.project[1]
    BY <1>0, <1>4 DEF InsertSelection, Knows, Route, Requests, Request, Ops
  <2> QED BY <1>0, <1>4, <2>1, <2>2 DEF InsertSelection, RowsStayWithOwner
<1>5. ASSUME NEW c \in Clients, InsertAnalysis(c)
      PROVE  RowsStayWithOwner' /\ \A d \in Clients : Carries(d)'
  <2>1. \A d \in Clients : Carries(d)'
    BY <1>5, MoveCarries DEF InsertAnalysis, Labels
  <2>2. req[c].user = req[c].project[1] /\ req[c].user = req[c].sel.user
    BY <1>0, <1>5 DEF InsertAnalysis, Knows, Route, Requests, Request, Ops
  <2> DEFINE new == [user |-> req[c].user, sel |-> req[c].sel, project |-> req[c].project]
  <2>3. OwnAnalysis(new) BY <2>2 DEF OwnAnalysis
  <2> HIDE DEF new
  <2>4. UNCHANGED <<selections, downloads, grants>> /\ analyses' \subseteq analyses \cup {new}
    BY <1>5 DEF InsertAnalysis, new
  <2> QED BY <1>0, <2>1, <2>3, <2>4 DEF RowsStayWithOwner, OwnAnalysis
<1>6. ASSUME NEW c \in Clients, Find(c)
      PROVE  RowsStayWithOwner' /\ \A d \in Clients : Carries(d)'
  <2>1. RowsStayWithOwner' BY <1>0, <1>6 DEF Find, RowsStayWithOwner
  <2>2. CASE Return(c)
    <3>1. downloads' = downloads BY <1>6 DEF Find
    <3> QED BY <2>1, <2>2, <3>1, ReturnCarries
  <2>3. ASSUME NEW s \in selections, s.user = req[c].user,
               found' = [found EXCEPT ![c] = s], Goto(c, "lookup"),
               UNCHANGED <<req, copy, downloads>>
        PROVE  \A d \in Clients : Carries(d)'
    <3>1. s.user = s.project[1] BY <1>0 DEF RowsStayWithOwner
    <3> QED BY <1>0, <2>3, <3>1 DEF Carries, OwnRow, IInv, Locals
  <2> QED BY <1>6, <2>1, <2>2, <2>3 DEF Find
<1>7. ASSUME NEW c \in Clients, RecordLoad(c)
      PROVE  RowsStayWithOwner' /\ \A d \in Clients : Carries(d)'
  <2>1. found[c] # None /\ OwnRow(found[c])
    BY <1>0, <1>7 DEF RecordLoad, Knows, Carries
  <2>2. RowsStayWithOwner'
    BY <1>0, <1>7, <2>1 DEF RecordLoad, RowsStayWithOwner, OwnRow
  <2>3. \A d \in Clients : Carries(d)'
    BY <1>0, <1>7 DEF RecordLoad, Carries, IInv, Locals
  <2> QED BY <2>2, <2>3
<1>8. ASSUME NEW c \in Clients, Publish(c)
      PROVE  RowsStayWithOwner' /\ \A d \in Clients : Carries(d)'
  <2>1. found[c] \in downloads /\ found[c].user = req[c].user
    BY <1>0, <1>8 DEF Publish, Knows, Carries
  <2>2. RowsStayWithOwner'
    BY <1>0, <1>8, <2>1 DEF Publish, RowsStayWithOwner, IInv, Tables
  <2>3. \A d \in Clients : Carries(d)'
    BY <1>8, MoveCarries DEF Publish, Labels
  <2> QED BY <2>2, <2>3
<1>9. ASSUME NEW c \in Clients, PopProject(c) \/ ForgetGrants(c) \/ ListProjects(c)
      PROVE  RowsStayWithOwner' /\ \A d \in Clients : Carries(d)'
  <2>1. /\ UNCHANGED <<selections, analyses, downloads>>
        /\ \A u \in Users : grants'[u] \subseteq grants[u]
    BY <1>0, <1>9 DEF PopProject, ForgetGrants, ListProjects, IInv, Tables
  <2>2. RowsStayWithOwner' BY <1>0, <2>1 DEF RowsStayWithOwner
  <2>3. CASE Return(c)
    <3>1. downloads' = downloads BY <2>1
    <3> QED BY <2>2, <2>3, <3>1, ReturnCarries
  <2>4. CASE UNCHANGED <<req, found, copy>> /\ pc[c] # "idle"
             /\ \E l \in {"copyProjects", "copySelections"} : Goto(c, l)
    <3>1. \A d \in Clients \ {c} : Carries(d)'
      BY <1>0, <2>1, <2>4, OthersCarry DEF IInv, Locals
    <3>2. Carries(c)'
      BY <1>0, <2>1, <2>4 DEF Carries, IInv, Locals
    <3> QED BY <2>2, <3>1, <3>2
  <2>5. pc[c] # "idle" BY <1>9 DEF PopProject, ForgetGrants, ListProjects
  <2> QED BY <1>9, <2>2, <2>3, <2>4, <2>5 DEF PopProject, ForgetGrants, ListProjects
<1>10. ASSUME NEW c \in Clients, Copy(c)
       PROVE  RowsStayWithOwner' /\ \A d \in Clients : Carries(d)'
  <2>1. RowsStayWithOwner' BY <1>0, <1>10 DEF Copy, RowsStayWithOwner
  <2>2. \A d \in Clients \ {c} : Carries(d)'
    BY <1>0, <1>10, OthersCarry DEF Copy, IInv, Locals
  <2>3. Carries(c)'
    BY <1>0, <1>10 DEF Copy, RowsStayWithOwner, Carries, OwnRow, OwnAnalysis, IInv, Locals
  <2> QED BY <2>1, <2>2, <2>3
<1>11. ASSUME NEW c \in Clients, PutProjects(c) \/ PutSelections(c) \/ PutAnalyses(c)
       PROVE  RowsStayWithOwner' /\ \A d \in Clients : Carries(d)'
  <2>1. RowsStayWithOwner'
    BY <1>0, <1>11 DEF PutProjects, PutSelections, PutAnalyses, RowsStayWithOwner, Carries,
                       OwnRow, OwnAnalysis
  <2>2. \A d \in Clients : Carries(d)'
    BY <1>11, MoveCarries DEF PutProjects, PutSelections, PutAnalyses, Labels
  <2> QED BY <2>1, <2>2
<1>12. ASSUME NEW c \in Clients, Lookup(c)
       PROVE  RowsStayWithOwner' /\ \A d \in Clients : Carries(d)'
  <2>1. RowsStayWithOwner' BY <1>0, <1>12 DEF Lookup, RowsStayWithOwner
  <2>2. downloads' = downloads /\ pc[c] = "lookup" BY <1>12 DEF Lookup
  <2>3. CASE Return(c)
    BY <2>1, <2>2, <2>3, ReturnCarries
  <2>4. CASE ~Return(c)
    <3>1. req[c].op \in {"project", "filter", "load", "analyse", "download", "setKey"}
      BY <1>0, <2>2 DEF Knows, Route, Requests, Request, Ops
    <3>2. /\ \E l \in {"insertProject", "unwrap", "insertAnalysis", "record", "putKey"} :
               pc' = [pc EXCEPT ![c] = l]
          /\ UNCHANGED <<req, copy>>
          /\ found' = [found EXCEPT ![c] = found'[c]]
          /\ found'[c] = IF req[c].op = "download" THEN req[c].sel ELSE found[c]
      BY <1>0, <1>12, <2>4, <3>1 DEF Lookup, IInv, Locals
    <3>3. req[c].op = "download" => OwnRow(req[c].sel) /\ req[c].sel.user = req[c].user
      BY <1>0, <2>2 DEF Knows, OwnRow
    <3>4. \A d \in Clients \ {c} : Carries(d)'
      BY <1>0, <2>2, <3>2, OthersCarry DEF IInv, Locals
    <3>5. Carries(c)'
      BY <1>0, <2>2, <3>2, <3>3 DEF Carries, IInv, Locals
    <3> QED BY <2>1, <3>4, <3>5
  <2> QED BY <2>3, <2>4
<1>13. CASE UNCHANGED vars
  BY <1>0, <1>13 DEF vars, RowsStayWithOwner, Carries
<1> QED
  BY <1>1, <1>2, <1>3, <1>4, <1>5, <1>6, <1>7, <1>8, <1>9, <1>10, <1>11, <1>12, <1>13
     DEF Next, Handler

\* Whatever the threads' steps do to each other, every row is its project's
\* owner's and every grant comes from a load or a download of its user.
THEOREM RowsStayWithOwnerCorrect == Spec => []RowsStayWithOwner
<1>1. OwnInv => RowsStayWithOwner BY DEF OwnInv
<1> QED BY InitOwn, StepOwn, <1>1, PTL DEF Spec

-----------------------------------------------------------------------------
(* Deletions that nothing runs beside *)

\* A deletion has the tables to itself.
DeletesAlone ==
  \A c \in Clients : Deleting(c) => \A d \in Clients \ {c} : pc[d] = "idle"

\* A row that is about to be filed has its project, and a project that is about
\* to be taken out is the user's.
FiledUnder(c) ==
  /\ pc[c] \in {"insertSelection", "insertAnalysis"}
       \/ (pc[c] = "lookup" /\ req[c].op = "analyse") => req[c].project \in projects
  /\ pc[c] = "pop" => req[c].project[1] = req[c].user
  /\ pc[c] = "idle" => req[c] = None

\* What a deletion is to assign is the table as it is, less the rows that go.
CopyIsTrue(c) ==
  /\ pc[c] = "putProjects" => copy[c] = {p \in projects : ~Gone(c, p[1], p)}
  /\ pc[c] = "putSelections" => copy[c] = {s \in selections : ~Gone(c, s.user, s.project)}
  /\ pc[c] = "putAnalyses" => copy[c] = {x \in analyses : ~Gone(c, x.user, x.project)}
  /\ pc[c] \in {"putProjects", "putSelections", "putAnalyses"} => view[c] = "same"

\* How far an account deletion has got.
EmptiedSoFar(c) ==
  pc[c] # "idle" /\ req[c].op = "leave" =>
    /\ pc[c] # "forget" => grants[req[c].user] = {}
    /\ pc[c] \in {"copySelections", "putSelections", "copyAnalyses", "putAnalyses"} =>
         \A p \in projects : p[1] # req[c].user
    /\ pc[c] \in {"copyAnalyses", "putAnalyses"} =>
         \A s \in selections : s.user # req[c].user

\* A deletion at one of these labels is still to remove the row.
ToGo(owner, project, labels) ==
  \E c \in Clients : Deleting(c) /\ pc[c] \in labels /\ Gone(c, owner, project)

\* A row without its project is one that the deletion at work is still to remove.
Rooted ==
  /\ \A s \in selections :
       s.project \in projects \/ ToGo(s.user, s.project, {"copySelections", "putSelections"})
  /\ \A x \in analyses :
       \/ x.project \in projects
       \/ ToGo(x.user, x.project,
               {"copySelections", "putSelections", "copyAnalyses", "putAnalyses"})

LoneInv ==
  ~overlap =>
    /\ DeletesAlone /\ Rooted
    /\ \A c \in Clients : FiledUnder(c) /\ CopyIsTrue(c) /\ EmptiedSoFar(c)

LEMMA InitLone == Init => LoneInv
<1> SUFFICES ASSUME Init PROVE LoneInv
  OBVIOUS
<1>1. \A c \in Clients : pc[c] = "idle" /\ req[c] = None
  BY DEF Init
<1>2. selections = {} /\ analyses = {}
  BY DEF Init
<1> QED
  BY <1>1, <1>2 DEF LoneInv, DeletesAlone, Deleting, Rooted, FiledUnder, CopyIsTrue, EmptiedSoFar

\* Who is at which label.
LEMMA DeletionLabels ==
  ASSUME OwnInv, NEW c \in Clients
  PROVE  /\ pc[c] \in {"pop", "forget", "list", "copyProjects", "putProjects", "copySelections",
                       "putSelections", "copyAnalyses", "putAnalyses"} => Deleting(c)
         /\ pc[c] \in {"lookup", "selected", "remember", "insertProject", "insertSelection",
                       "insertAnalysis", "find", "unwrap", "fetch", "record", "publish",
                       "putKey", "removeKey"} => ~Deleting(c)
         /\ pc[c] = "check" /\ Deleting(c) => req[c].op = "drop"
         /\ Deleting(c) /\ req[c].op # "leave" => pc[c] # "forget"
BY DEF OwnInv, IInv, Knows, Route, Deleting, Deletions, Requests, Request, Ops

\* A request that deletes nothing is beside no deletion: it may add rows that
\* have their project, and take none away.
LEMMA OrdinaryStep ==
  ASSUME OwnInv, OwnInv', LoneInv, ~overlap, NEW c \in Clients, pc[c] # "idle", ~Deleting(c),
         \A d \in Clients \ {c} : pc'[d] = pc[d] /\ req'[d] = req[d],
         pc'[c] # "idle" => req'[c] = req[c],
         FiledUnder(c)',
         projects \subseteq projects',
         \A s \in selections' : s \in selections \/ s.project \in projects',
         \A x \in analyses' : x \in analyses \/ x.project \in projects'
  PROVE  LoneInv'
<1>1. \A d \in Clients : ~Deleting(d)
  BY DEF LoneInv, DeletesAlone
<1>2. \A d \in Clients : ~Deleting(d)'
  BY <1>1 DEF Deleting
<1>3. Rooted'
  <2>1. \A s \in selections : s.project \in projects
    BY <1>1 DEF LoneInv, Rooted, ToGo
  <2>2. \A x \in analyses : x.project \in projects
    BY <1>1 DEF LoneInv, Rooted, ToGo
  <2> QED BY <2>1, <2>2 DEF Rooted
<1>4. \A d \in Clients : FiledUnder(d)'
  <2>1. \A d \in Clients \ {c} : FiledUnder(d)
    BY DEF LoneInv
  <2> QED BY <2>1 DEF FiledUnder
<1>5. \A d \in Clients : pc'[d] \notin {"putProjects", "putSelections", "putAnalyses"}
  BY <1>2 DEF OwnInv, IInv, Knows, Route, Deleting, Deletions, Requests, Request, Ops
<1>6. \A d \in Clients : CopyIsTrue(d)'
  BY <1>5 DEF CopyIsTrue
<1>7. \A d \in Clients : EmptiedSoFar(d)'
  BY <1>2 DEF EmptiedSoFar, Deleting, Deletions
<1> QED BY <1>2, <1>3, <1>4, <1>6, <1>7 DEF LoneInv, DeletesAlone

\* What holds of a deletion while the other threads are idle.
LEMMA AloneNow ==
  ASSUME OwnInv, LoneInv, ~overlap, NEW c \in Clients, Deleting(c)
  PROVE  /\ \A d \in Clients \ {c} : pc[d] = "idle" /\ req[d] = None
         /\ FiledUnder(c) /\ CopyIsTrue(c) /\ EmptiedSoFar(c)
         /\ \A s \in selections :
              \/ s.project \in projects
              \/ /\ pc[c] \in {"copySelections", "putSelections"}
                 /\ Gone(c, s.user, s.project)
         /\ \A x \in analyses :
              \/ x.project \in projects
              \/ /\ pc[c] \in {"copySelections", "putSelections", "copyAnalyses", "putAnalyses"}
                 /\ Gone(c, x.user, x.project)
<1>1. \A d \in Clients \ {c} : pc[d] = "idle" /\ req[d] = None
  BY DEF LoneInv, DeletesAlone, FiledUnder
<1>2. \A d \in Clients : Deleting(d) => d = c
  BY <1>1 DEF Deleting
<1> QED BY <1>1, <1>2 DEF LoneInv, Rooted, ToGo

\* A deletion's step: the others stay idle.
LEMMA DeletionStep ==
  ASSUME OwnInv, LoneInv, ~overlap, NEW c \in Clients, Deleting(c),
         \A d \in Clients \ {c} : pc'[d] = pc[d] /\ req'[d] = req[d],
         pc'[c] # "idle" => req'[c] = req[c],
         FiledUnder(c)', CopyIsTrue(c)', EmptiedSoFar(c)',
         \A s \in selections' :
           \/ s.project \in projects'
           \/ pc'[c] \in {"copySelections", "putSelections"} /\ Gone(c, s.user, s.project)',
         \A x \in analyses' :
           \/ x.project \in projects'
           \/ /\ pc'[c] \in {"copySelections", "putSelections", "copyAnalyses", "putAnalyses"}
              /\ Gone(c, x.user, x.project)'
  PROVE  LoneInv'
<1>1. \A d \in Clients \ {c} : pc'[d] = "idle" /\ req'[d] = None
  BY AloneNow
<1>2. pc'[c] # "idle" => Deleting(c)'
  BY DEF Deleting
<1>3. DeletesAlone'
  BY <1>1 DEF DeletesAlone, Deleting
<1>4. Rooted'
  BY <1>2 DEF Rooted, ToGo
<1>5. \A d \in Clients \ {c} : (FiledUnder(d) /\ CopyIsTrue(d) /\ EmptiedSoFar(d))'
  BY <1>1 DEF FiledUnder, CopyIsTrue, EmptiedSoFar
<1> QED BY <1>3, <1>4, <1>5 DEF LoneInv

LEMMA LoneStep == OwnInv /\ LoneInv /\ [Next]_vars => LoneInv'
<1> SUFFICES ASSUME OwnInv, LoneInv, [Next]_vars, ~overlap' PROVE LoneInv'
  BY DEF LoneInv
<1>0. OwnInv' /\ IInv /\ (\A c \in Clients : Knows(c)) /\ RowsStayWithOwner
  BY StepOwn DEF OwnInv, IInv
<1> USE DEF tables, account, locals, history, Goto, Continue
<1>1. ASSUME NEW c \in Clients, NEW r \in Requests, Begin(c, r)
      PROVE  LoneInv'
  <2>1. ~overlap /\ pc[c] = "idle"
        /\ \A d \in Clients : pc[d] # "idle" => {r.op, req[d].op} \cap Deletions = {}
    BY <1>1 DEF Begin
  <2>2. /\ UNCHANGED <<projects, selections, analyses, grants>>
        /\ pc'[c] = FirstStep(r.op) /\ req'[c] = r
        /\ \A d \in Clients \ {c} : pc'[d] = pc[d] /\ req'[d] = req[d]
    BY <1>0, <1>1 DEF Begin, IInv, Locals
  <2>3. \A d \in Clients : ~Deleting(d)
    BY <2>1 DEF Deleting
  <2>4. DeletesAlone'
    BY <2>1, <2>2, <2>3 DEF DeletesAlone, Deleting
  <2>5. Rooted'
    BY <2>1, <2>2, <2>3 DEF LoneInv, Rooted, ToGo
  <2>6. \A d \in Clients \ {c} : pc[d] \notin {"putProjects", "putSelections", "putAnalyses"}
    BY <2>3, DeletionLabels
  <2>7. \A d \in Clients \ {c} : (FiledUnder(d) /\ CopyIsTrue(d) /\ EmptiedSoFar(d))'
    BY <2>1, <2>2, <2>3, <2>6
       DEF LoneInv, FiledUnder, CopyIsTrue, EmptiedSoFar, Deleting, Deletions
  <2>8. r.op \in Ops
    BY DEF Requests, Request
  <2>9. (FiledUnder(c) /\ CopyIsTrue(c) /\ EmptiedSoFar(c))'
    BY <2>2, <2>8 DEF FirstStep, Ops, FiledUnder, CopyIsTrue, EmptiedSoFar
  <2> QED BY <2>4, <2>5, <2>7, <2>9 DEF LoneInv
<1>2. ASSUME NEW c \in Clients, Check(c) \/ CheckSelection(c) \/ Lookup(c) \/ Remember(c)
               \/ Find(c) \/ Unwrap(c) \/ FetchRaises(c) \/ Fetch(c) \/ RecordLoad(c)
               \/ Publish(c) \/ SetKey(c) \/ DropKey(c),
             ~Deleting(c)
      PROVE  LoneInv'
  <2>1. /\ pc[c] # "idle" /\ ~overlap
        /\ UNCHANGED <<projects, selections, analyses>>
    BY <1>2 DEF Check, CheckSelection, Lookup, Remember, Find, Unwrap, FetchRaises, Fetch,
                RecordLoad, Publish, SetKey, DropKey
  <2>2. \A d \in Clients \ {c} : pc'[d] = pc[d] /\ req'[d] = req[d]
    BY <1>0, <1>2 DEF Check, CheckSelection, Lookup, Remember, Find, Unwrap, FetchRaises, Fetch,
                      RecordLoad, Publish, SetKey, DropKey, Return, IInv, Locals
  <2>3. CASE Return(c)
    <3>1. pc'[c] = "idle" /\ req'[c] = None
      BY <1>0, <2>3 DEF Return, IInv, Locals
    <3>2. FiledUnder(c)'
      BY <3>1 DEF FiledUnder
    <3> QED BY <1>0, <1>2, <2>1, <2>2, <3>1, <3>2, OrdinaryStep
  <2>4. ASSUME req' = req,
               \/ pc'[c] \in {"check", "find", "insertProject", "unwrap", "fetch", "record",
                             "publish", "putKey", "remember"}
               \/ pc'[c] = "lookup" /\ req[c].op = "load"
               \/ /\ pc'[c] \in {"insertSelection", "insertAnalysis", "lookup"}
                  /\ req[c].project \in projects
        PROVE  LoneInv'
    <3>1. FiledUnder(c)'
      BY <2>1, <2>4 DEF FiledUnder
    <3> QED BY <1>0, <1>2, <2>1, <2>2, <2>4, <3>1, OrdinaryStep
  <2>5. CASE Check(c) /\ ~Return(c)
    <3>1. req[c].op \in {"select", "load", "analyse"}
      BY <1>0, <1>2, <2>5 DEF Check, Knows, Route, Requests, Request, Ops, Deleting, Deletions
    <3> QED BY <1>0, <2>4, <2>5, <3>1 DEF Check, IInv, Locals
  <2>6. CASE Lookup(c) /\ ~Return(c)
    <3>1. req[c].op \in {"project", "filter", "load", "analyse", "download", "setKey"}
      BY <1>0, <2>6 DEF Lookup, Knows, Route, Requests, Request, Ops
    <3>2. req[c].op = "analyse" => req[c].project \in projects
      BY <2>1, <2>6 DEF Lookup, LoneInv, FiledUnder
    <3> QED BY <1>0, <2>4, <2>6, <3>1, <3>2 DEF Lookup, IInv, Locals
  <2>7. CASE Find(c) /\ ~Return(c)
    <3>1. req[c].op = "load"
      BY <1>0, <2>7 DEF Find, Knows, Route, Requests, Request, Ops
    <3> QED BY <1>0, <2>4, <2>7, <3>1 DEF Find, IInv, Locals
  <2>8. CASE (CheckSelection(c) \/ Remember(c) \/ Unwrap(c) \/ FetchRaises(c) \/ Fetch(c)
               \/ RecordLoad(c) \/ Publish(c) \/ SetKey(c) \/ DropKey(c)) /\ ~Return(c)
    BY <1>0, <2>4, <2>8 DEF CheckSelection, Remember, Unwrap, FetchRaises, Fetch, RecordLoad,
                            Publish, SetKey, DropKey, IInv, Locals
  <2> QED BY <1>2, <2>3, <2>5, <2>6, <2>7, <2>8
<1>3. ASSUME NEW c \in Clients, InsertProject(c) \/ InsertSelection(c) \/ InsertAnalysis(c)
      PROVE  LoneInv'
  <2>1. pc[c] # "idle" /\ ~overlap /\ ~Deleting(c)
    BY <1>0, <1>3, DeletionLabels DEF InsertProject, InsertSelection, InsertAnalysis
  <2>2. \A d \in Clients \ {c} : pc'[d] = pc[d] /\ req'[d] = req[d]
    BY <1>0, <1>3 DEF InsertProject, InsertSelection, InsertAnalysis, Return, IInv, Locals
  <2>3. projects \subseteq projects'
    BY <1>3 DEF InsertProject, InsertSelection, InsertAnalysis
  <2>4. /\ pc'[c] # "idle" => req'[c] = req[c]
        /\ FiledUnder(c)'
    <3>1. CASE InsertProject(c)
      <4>1. pc'[c] \in {"insertSelection", "remember"} /\ req' = req
            /\ req[c].project \in projects'
        BY <1>0, <3>1 DEF InsertProject, IInv, Locals
      <4> QED BY <4>1 DEF FiledUnder
    <3>2. CASE InsertSelection(c) \/ InsertAnalysis(c)
      <4>1. \/ pc'[c] = "remember" /\ req' = req
            \/ pc'[c] = "idle" /\ req'[c] = None
        BY <1>0, <3>2 DEF InsertSelection, InsertAnalysis, Return, IInv, Locals
      <4> QED BY <4>1 DEF FiledUnder
    <3> QED BY <1>3, <3>1, <3>2
  <2>5. pc[c] \in {"insertSelection", "insertAnalysis"} => req[c].project \in projects
    BY <2>1 DEF LoneInv, FiledUnder
  <2>6. \A s \in selections' : s \in selections \/ s.project \in projects'
    <3>1. pc[c] = "insertSelection" => req[c].sel.project = req[c].project
      BY <1>0 DEF Knows, Route, Requests, Request, Ops
    <3> QED BY <1>3, <2>3, <2>5, <3>1 DEF InsertProject, InsertSelection, InsertAnalysis
  <2>7. \A x \in analyses' : x \in analyses \/ x.project \in projects'
    BY <1>3, <2>3, <2>5 DEF InsertProject, InsertSelection, InsertAnalysis
  <2> QED BY <1>0, <2>1, <2>2, <2>3, <2>4, <2>6, <2>7, OrdinaryStep
<1>4. ASSUME NEW c \in Clients, Deleting(c),
             \/ Check(c) \/ PopProject(c) \/ ForgetGrants(c) \/ ListProjects(c) \/ Copy(c)
             \/ CopyRaises(c) \/ PutProjects(c) \/ PutSelections(c) \/ PutAnalyses(c)
      PROVE  LoneInv'
  <2>1. ~overlap
    BY <1>4 DEF Check, PopProject, ForgetGrants, ListProjects, Copy, CopyRaises, PutProjects,
                PutSelections, PutAnalyses
  <2>2. \A d \in Clients \ {c} : pc'[d] = pc[d] /\ req'[d] = req[d]
    BY <1>0, <1>4 DEF Check, PopProject, ForgetGrants, ListProjects, Copy, CopyRaises,
       PutProjects, PutSelections, PutAnalyses, Return, IInv, Locals
  <2>3. /\ FiledUnder(c) /\ CopyIsTrue(c) /\ EmptiedSoFar(c)
        /\ \A s \in selections :
             \/ s.project \in projects
             \/ /\ pc[c] \in {"copySelections", "putSelections"}
                /\ Gone(c, s.user, s.project)
        /\ \A x \in analyses :
             \/ x.project \in projects
             \/ /\ pc[c] \in {"copySelections", "putSelections", "copyAnalyses", "putAnalyses"}
                /\ Gone(c, x.user, x.project)
    BY <1>0, <1>4, <2>1, AloneNow
  <2>4. ASSUME UNCHANGED <<projects, selections, analyses>>,
               pc[c] \in {"check", "forget", "list", "copyProjects"},
               \/ Return(c)
               \/ /\ req' = req
                  /\ \/ pc'[c] = "pop" /\ req[c].project[1] = req[c].user
                     \/ /\ pc'[c] = "copyProjects"
                        /\ req[c].op = "leave" => grants'[req[c].user] = {}
        PROVE  LoneInv'
    <3>1. \A s \in selections' : s.project \in projects'
      BY <2>3, <2>4
    <3>2. \A x \in analyses' : x.project \in projects'
      BY <2>3, <2>4
    <3>3. /\ pc'[c] # "idle" => req'[c] = req[c]
          /\ pc'[c] = "idle" => req'[c] = None
      BY <1>0, <2>4 DEF Return, IInv, Locals
    <3>4. pc'[c] \in {"idle", "pop", "copyProjects"}
      BY <1>0, <2>4 DEF Return, IInv, Locals
    <3>5. FiledUnder(c)'
      BY <1>0, <2>4, <3>3, <3>4 DEF FiledUnder, Return, IInv, Locals
    <3>6. CopyIsTrue(c)'
      BY <3>4 DEF CopyIsTrue
    <3>7. EmptiedSoFar(c)'
      <4>1. CASE pc'[c] = "idle"
        BY <4>1 DEF EmptiedSoFar
      <4>2. CASE pc'[c] # "idle"
        <5>1. pc'[c] = "pop" => req[c].op = "drop"
          BY <1>0, <3>3, <4>2 DEF OwnInv, IInv, Knows, Route, Requests, Request, Ops
        <5> QED BY <1>0, <2>4, <3>3, <3>4, <4>2, <5>1 DEF EmptiedSoFar, Return, IInv, Locals
      <4> QED BY <4>1, <4>2
    <3> QED BY <1>0, <1>4, <2>1, <2>2, <3>1, <3>2, <3>3, <3>5, <3>6, <3>7, DeletionStep
  <2>5. CASE Check(c)
    <3>1. req[c].op = "drop"
      BY <1>4, <2>5, DeletionLabels DEF Check
    <3> QED BY <1>0, <2>4, <2>5, <3>1 DEF Check, IInv, Locals
  <2>6. CASE ForgetGrants(c)
    <3>1. grants'[req[c].user] = {}
      BY <1>0, <2>6 DEF ForgetGrants, IInv, Tables, Knows, Requests, Request
    <3> QED BY <1>0, <2>4, <2>6, <3>1 DEF ForgetGrants, IInv, Locals
  <2>7. CASE ListProjects(c)
    <3>1. req[c].op # "leave"
      BY <1>0, <2>7 DEF ListProjects, Knows
    <3> QED BY <1>0, <2>4, <2>7, <3>1 DEF ListProjects, IInv, Locals
  <2>8. ~CopyRaises(c)
    BY <2>3 DEF CopyRaises, CopyIsTrue
  <2>9. CASE PopProject(c)
    <3>1. /\ pc[c] = "pop" /\ pc'[c] = "copySelections" /\ req' = req
          /\ projects' = projects \ {req[c].project} /\ doomed'[c] = {req[c].project}
          /\ UNCHANGED <<selections, analyses>>
      BY <1>0, <2>9 DEF PopProject, IInv, Locals
    <3>2. req[c].project[1] = req[c].user /\ req[c].op = "drop"
      BY <1>0, <1>4, <2>3, <3>1 DEF FiledUnder, Knows, Route, Requests, Request, Ops
    <3>3. \A s \in selections' : s.project \in projects' \/ Gone(c, s.user, s.project)'
      BY <1>0, <2>3, <3>1, <3>2 DEF RowsStayWithOwner, Gone
    <3>4. \A x \in analyses' : x.project \in projects' \/ Gone(c, x.user, x.project)'
      BY <1>0, <2>3, <3>1, <3>2 DEF RowsStayWithOwner, Gone
    <3>5. (FiledUnder(c) /\ CopyIsTrue(c) /\ EmptiedSoFar(c))'
      BY <3>1, <3>2 DEF FiledUnder, CopyIsTrue, EmptiedSoFar
    <3> QED BY <1>0, <1>4, <2>1, <2>2, <3>1, <3>3, <3>4, <3>5, DeletionStep
  <2>10. CASE Copy(c)
    <3>1. UNCHANGED <<projects, selections, analyses, grants, req, doomed>> /\ view'[c] = "same"
      BY <1>0, <2>10 DEF Copy, IInv, Locals
    <3>2. \/ /\ pc[c] = "copyProjects" /\ pc'[c] = "putProjects"
             /\ copy'[c] = {p \in projects : ~Gone(c, p[1], p)}
          \/ /\ pc[c] = "copySelections" /\ pc'[c] = "putSelections"
             /\ copy'[c] = {s \in selections : ~Gone(c, s.user, s.project)}
          \/ /\ pc[c] = "copyAnalyses" /\ pc'[c] = "putAnalyses"
             /\ copy'[c] = {x \in analyses : ~Gone(c, x.user, x.project)}
      BY <1>0, <2>10 DEF Copy, IInv, Locals
    <3>3. \A o, p : Gone(c, o, p)' = Gone(c, o, p)
      BY <3>1 DEF Gone
    <3>4. FiledUnder(c)' /\ EmptiedSoFar(c)'
      BY <2>3, <3>1, <3>2 DEF FiledUnder, EmptiedSoFar
    <3>5. CopyIsTrue(c)'
      BY <3>1, <3>2, <3>3 DEF CopyIsTrue
    <3>6. \A s \in selections' :
            \/ s.project \in projects'
            \/ pc'[c] \in {"copySelections", "putSelections"} /\ Gone(c, s.user, s.project)'
      BY <2>3, <3>1, <3>2, <3>3
    <3>7. \A x \in analyses' :
            \/ x.project \in projects'
            \/ /\ pc'[c] \in {"copySelections", "putSelections", "copyAnalyses", "putAnalyses"}
               /\ Gone(c, x.user, x.project)'
      BY <2>3, <3>1, <3>2, <3>3
    <3> QED BY <1>0, <1>4, <2>1, <2>2, <3>1, <3>4, <3>5, <3>6, <3>7, DeletionStep
  <2>11. CASE PutProjects(c)
    <3>1. /\ pc[c] = "putProjects" /\ pc'[c] = "copySelections"
          /\ projects' = {p \in projects : ~Gone(c, p[1], p)}
          /\ UNCHANGED <<selections, analyses, grants, req, doomed>>
      BY <1>0, <2>3, <2>11 DEF PutProjects, CopyIsTrue, IInv, Locals
    <3>2. \A o, p : Gone(c, o, p)' = Gone(c, o, p)
      BY <3>1 DEF Gone
    <3>3. \A s \in selections' : s.project \in projects' \/ Gone(c, s.user, s.project)'
      BY <1>0, <2>3, <3>1, <3>2 DEF RowsStayWithOwner
    <3>4. \A x \in analyses' : x.project \in projects' \/ Gone(c, x.user, x.project)'
      BY <1>0, <2>3, <3>1, <3>2 DEF RowsStayWithOwner
    <3>5. FiledUnder(c)' /\ CopyIsTrue(c)'
      BY <3>1 DEF FiledUnder, CopyIsTrue
    <3>6. EmptiedSoFar(c)'
      BY <2>3, <3>1 DEF EmptiedSoFar, Gone
    <3> QED BY <1>0, <1>4, <2>1, <2>2, <3>1, <3>3, <3>4, <3>5, <3>6, DeletionStep
  <2>12. CASE PutSelections(c)
    <3>1. /\ pc[c] = "putSelections" /\ pc'[c] = "copyAnalyses"
          /\ selections' = {s \in selections : ~Gone(c, s.user, s.project)}
          /\ UNCHANGED <<projects, analyses, grants, req, doomed>>
      BY <1>0, <2>3, <2>12 DEF PutSelections, CopyIsTrue, IInv, Locals
    <3>2. \A o, p : Gone(c, o, p)' = Gone(c, o, p)
      BY <3>1 DEF Gone
    <3>3. \A s \in selections' : s.project \in projects'
      BY <2>3, <3>1
    <3>4. \A x \in analyses' : x.project \in projects' \/ Gone(c, x.user, x.project)'
      BY <2>3, <3>1, <3>2
    <3>5. FiledUnder(c)' /\ CopyIsTrue(c)'
      BY <3>1 DEF FiledUnder, CopyIsTrue
    <3>6. EmptiedSoFar(c)'
      BY <2>3, <3>1 DEF EmptiedSoFar, Gone
    <3> QED BY <1>0, <1>4, <2>1, <2>2, <3>1, <3>3, <3>4, <3>5, <3>6, DeletionStep
  <2>13. CASE PutAnalyses(c)
    <3>1. /\ pc[c] = "putAnalyses" /\ pc'[c] = "idle" /\ req'[c] = None
          /\ analyses' = {x \in analyses : ~Gone(c, x.user, x.project)}
          /\ UNCHANGED <<projects, selections>>
      BY <1>0, <2>3, <2>13 DEF PutAnalyses, Return, CopyIsTrue, IInv, Locals
    <3>2. \A s \in selections' : s.project \in projects'
      BY <2>3, <3>1
    <3>3. \A x \in analyses' : x.project \in projects'
      BY <2>3, <3>1
    <3>4. (FiledUnder(c) /\ CopyIsTrue(c) /\ EmptiedSoFar(c))'
      BY <3>1 DEF FiledUnder, CopyIsTrue, EmptiedSoFar
    <3> QED BY <1>0, <1>4, <2>1, <2>2, <3>1, <3>2, <3>3, <3>4, DeletionStep
  <2> QED BY <1>4, <2>5, <2>6, <2>7, <2>8, <2>9, <2>10, <2>11, <2>12, <2>13
<1>5. CASE UNCHANGED vars
  BY <1>5 DEF vars, LoneInv, DeletesAlone, Deleting, Rooted, ToGo, Gone, FiledUnder, CopyIsTrue,
              EmptiedSoFar
<1>6. \A c \in Clients :
        /\ Lookup(c) \/ CheckSelection(c) \/ Remember(c) \/ Find(c) \/ Unwrap(c)
             \/ FetchRaises(c) \/ Fetch(c) \/ RecordLoad(c) \/ Publish(c)
             \/ SetKey(c) \/ DropKey(c) => ~Deleting(c)
        /\ PopProject(c) \/ ForgetGrants(c) \/ ListProjects(c) \/ Copy(c) \/ CopyRaises(c)
             \/ PutProjects(c) \/ PutSelections(c) \/ PutAnalyses(c) => Deleting(c)
  BY DeletionLabels DEF Lookup, CheckSelection, Remember, Find, Unwrap, FetchRaises, Fetch,
     RecordLoad, Publish, SetKey, DropKey, PopProject, ForgetGrants, ListProjects, Copy,
     CopyRaises, PutProjects, PutSelections, PutAnalyses
<1> QED BY <1>1, <1>2, <1>3, <1>4, <1>5, <1>6 DEF Next, Handler

\* As long as no deletion ran beside another request, every selection and analysis
\* has its project.
THEOREM NoOrphansCorrect == Spec => []NoOrphans
<1>1. LoneInv => NoOrphans
  <2> SUFFICES ASSUME LoneInv, ~overlap, \A c \in Clients : ~Deleting(c)
               PROVE  /\ \A s \in selections : s.project \in projects
                      /\ \A x \in analyses : x.project \in projects
    BY DEF NoOrphans
  <2> QED BY DEF LoneInv, Rooted, ToGo
<1> QED BY InitOwn, InitLone, StepOwn, LoneStep, <1>1, PTL DEF Spec

\* An account deletion that ends after running alone has emptied the account.
LEMMA LeavesNothing ==
  ASSUME OwnInv, LoneInv, [Next]_vars, NEW c \in Clients, NEW u \in Users,
         Leaves(c, u), ~overlap
  PROVE  NoRowOf(u)' /\ grants'[u] = {}
<1>0. /\ IInv /\ Knows(c)
      /\ req[c] # None /\ pc'[c] = "idle" /\ req[c].op = "leave" /\ req[c].user = u
  BY DEF OwnInv, IInv, Leaves
<1> USE DEF tables, account, locals, history, Goto, Continue
<1>1. pc[c] # "idle" /\ Deleting(c)
  BY <1>0 DEF LoneInv, FiledUnder, Deleting, Deletions
<1>2. /\ \A d \in Clients \ {c} : pc[d] = "idle"
      /\ CopyIsTrue(c) /\ EmptiedSoFar(c)
  BY <1>1, AloneNow
<1>3. pc[c] \in {"forget", "copyProjects", "putProjects", "copySelections", "putSelections",
                "copyAnalyses", "putAnalyses"}
  BY <1>0, <1>1 DEF Knows, Route
<1>4. \A d \in Clients : Handler(d) => d = c
  <2> SUFFICES ASSUME NEW d \in Clients, d # c, Handler(d) PROVE FALSE
    OBVIOUS
  <2>1. pc[d] = "idle"
    BY <1>2
  <2>2. PICK r \in Requests : Begin(d, r)
    BY <2>1 DEF Handler, Check, CheckSelection, Lookup, Remember, InsertProject,
       InsertSelection, InsertAnalysis, Find, Unwrap, FetchRaises, Fetch, RecordLoad, Publish,
       SetKey, DropKey, PopProject, ForgetGrants, ListProjects, Copy, CopyRaises, PutProjects,
       PutSelections, PutAnalyses
  <2> QED BY <1>0, <1>1, <2>2 DEF Begin, IInv, Locals
<1>5. Handler(c)
  BY <1>0, <1>1, <1>4 DEF Next, vars
<1>6. PutAnalyses(c)
  <2>1. pc'[c] = "idle" => ~ForgetGrants(c) /\ ~Copy(c) /\ ~PutProjects(c) /\ ~PutSelections(c)
    BY <1>0 DEF ForgetGrants, Copy, PutProjects, PutSelections, IInv, Locals
  <2>2. ~CopyRaises(c)
    BY <1>2 DEF CopyRaises, CopyIsTrue
  <2> QED
    BY <1>0, <1>3, <1>5, <2>1, <2>2 DEF Handler, Begin, Check, CheckSelection, Lookup, Remember,
       InsertProject, InsertSelection, InsertAnalysis, Find, Unwrap, FetchRaises, Fetch,
       RecordLoad, Publish, SetKey, DropKey, PopProject, ListProjects
<1>7. /\ UNCHANGED <<projects, selections, grants>>
      /\ analyses' = {x \in analyses : ~Gone(c, x.user, x.project)}
  BY <1>2, <1>6 DEF PutAnalyses, CopyIsTrue
<1>8. pc[c] = "putAnalyses"
  BY <1>6 DEF PutAnalyses
<1> QED BY <1>0, <1>2, <1>7, <1>8 DEF NoRowOf, EmptiedSoFar, Gone

\* Rows go with the deletions of their owner only.
LEMMA LosesToOwner ==
  ASSUME OwnInv, LoneInv, [Next]_vars, NEW u \in Users, LosesRow(u), ~overlap
  PROVE  \E c \in Clients : Deleting(c) /\ req[c].user = u
<1> USE DEF tables, account, locals, history, Goto, Continue
<1>1. PICK c \in Clients :
        \/ PopProject(c) \/ PutProjects(c) \/ PutSelections(c) \/ PutAnalyses(c)
        \/ InsertAnalysis(c)
  BY DEF Next, Handler, vars, LosesRow, Begin, Check, CheckSelection, Lookup, Remember,
     InsertProject, InsertSelection, Find, Unwrap, FetchRaises, Fetch, RecordLoad, Publish,
     SetKey, DropKey, ForgetGrants, ListProjects, Copy, CopyRaises
<1>2. CASE InsertAnalysis(c)
  <2>1. UNCHANGED <<projects, selections>>
    BY <1>2 DEF InsertAnalysis
  <2>2. PICK a \in analyses : a.user = u /\ \A b \in analyses' : b.user # u \/ b.sel # a.sel
    BY <2>1 DEF LosesRow
  <2> DEFINE new == [user |-> req[c].user, sel |-> req[c].sel, project |-> req[c].project]
  <2>3. new \in analyses' /\ new.user = req[c].user /\ new.sel = req[c].sel
    BY <1>2 DEF InsertAnalysis
  <2>4. a.user = req[c].user /\ a.sel = req[c].sel
    BY <1>2, <2>2 DEF InsertAnalysis
  <2> QED BY <2>2, <2>3, <2>4
<1>3. CASE PopProject(c) \/ PutProjects(c) \/ PutSelections(c) \/ PutAnalyses(c)
  <2>1. Deleting(c)
    BY <1>3, DeletionLabels DEF PopProject, PutProjects, PutSelections, PutAnalyses
  <2>2. FiledUnder(c) /\ CopyIsTrue(c)
    BY <2>1, AloneNow
  <2>3. CASE PopProject(c)
    BY <2>1, <2>2, <2>3 DEF PopProject, LosesRow, FiledUnder
  <2>4. CASE PutProjects(c)
    BY <2>1, <2>2, <2>4 DEF PutProjects, LosesRow, CopyIsTrue, Gone
  <2>5. CASE PutSelections(c)
    BY <2>1, <2>2, <2>5 DEF PutSelections, LosesRow, CopyIsTrue, Gone
  <2>6. CASE PutAnalyses(c)
    BY <2>1, <2>2, <2>6 DEF PutAnalyses, LosesRow, CopyIsTrue, Gone
  <2> QED BY <1>3, <2>3, <2>4, <2>5, <2>6
<1> QED BY <1>1, <1>2, <1>3

\* A deletion that runs alone removes every project, selection, analysis and grant of
\* its account, or of its project, and nothing of another's.
THEOREM DeletionsAreExactCorrect == Spec => DeletionsAreExact
<1>1. OwnInv /\ LoneInv /\ [Next]_vars =>
        [\A c \in Clients, u \in Users :
           Leaves(c, u) /\ ~overlap => NoRowOf(u)' /\ grants'[u] = {}]_vars
  BY LeavesNothing
<1>2. OwnInv /\ LoneInv /\ [Next]_vars =>
        [\A u \in Users :
           LosesRow(u) /\ ~overlap => \E c \in Clients : Deleting(c) /\ req[c].user = u]_vars
  BY LosesToOwner
<1> QED
  BY <1>1, <1>2, InitOwn, InitLone, StepOwn, LoneStep, PTL
     DEF Spec, DeletionsAreExact, AccountIsEmptied, OnlyOwnerRemoves

=============================================================================

------------------------------ MODULE WebWatch ------------------------------
(***************************************************************************)
(* The watcher that rebuilds the local Web service when the digest of the  *)
(* files it watches is another than the one it saw last.  The files may    *)
(* change at any time, and change back.  The watcher and Docker read them  *)
(* one by one, so what they read while the files change may be anything;   *)
(* a file that the watcher has listed and that is gone ends it.  A failed  *)
(* build is reported and is not repeated until the digest changes again.   *)
(***************************************************************************)
EXTENDS Naturals

CONSTANTS
  Versions,  \* the contents of the watched files, and so their digests
  MaxEdits   \* bound of the changes

ASSUME WatchAssumption == Versions # {} /\ MaxEdits \in Nat

VARIABLES
  content,   \* the version of the watched files
  edits,     \* how often they changed
  snapshot,  \* the version the watcher saw last
  watching,  \* asleep, in which part of a build, or ended
  image,     \* the version the last build was made of
  failed,    \* did the last build fail?
  strayed    \* history: did the last build read another version than the watcher?

watch == <<content, edits, snapshot, watching, image, failed, strayed>>

\* The watcher starts on the version it finds, and does not build it.
WatchInit ==
  /\ content \in Versions /\ snapshot = content /\ image = content
  /\ edits = 0 /\ watching = "asleep" /\ failed = FALSE /\ strayed = FALSE

\* The files change, to a new version or to an earlier one.
Edited == edits < MaxEdits /\ edits' = edits + 1 /\ content' \in Versions \ {content}

Edit == Edited /\ UNCHANGED <<snapshot, watching, image, failed, strayed>>

\* What is read of the files: their content, or anything if they change meanwhile.
Read(seen) ==
  \/ seen = content /\ UNCHANGED <<content, edits>>
  \/ Edited

Poll(seen) ==
  /\ watching = "asleep" /\ Read(seen)
  /\ seen # snapshot
  /\ snapshot' = seen /\ watching' = "reading"
  /\ UNCHANGED <<image, failed, strayed>>

\* A file is listed and gone when it is read: the exception ends the loop.
PollRaises ==
  /\ watching = "asleep" /\ Edited
  /\ watching' = "ended"
  /\ UNCHANGED <<snapshot, image, failed, strayed>>

\* Docker reads the files.
ReadFiles(seen) ==
  /\ watching = "reading" /\ Read(seen)
  /\ watching' = "building" /\ image' = seen /\ failed' = FALSE
  /\ strayed' = (seen # snapshot)
  /\ UNCHANGED snapshot

\* Variant: The watcher looks at the files again when the build ends.
EndWithSnapshot(ok) ==
  /\ watching = "building" /\ watching' = "asleep" /\ failed' = ~ok
  /\ snapshot' = content
  /\ UNCHANGED <<content, edits, image, strayed>>

EndBuild(ok) ==
  /\ watching = "building" /\ watching' = "asleep" /\ failed' = ~ok
  /\ UNCHANGED <<content, edits, snapshot, image, strayed>>

Watch ==
  \/ \E seen \in Versions : Poll(seen) \/ ReadFiles(seen)
  \/ \E ok \in BOOLEAN : EndBuild(ok)

WatchNext == Edit \/ PollRaises \/ Watch

\* As long as no exception ends it, the loop of the watcher goes on, and builds end.
WatchFairness == WF_watch(Watch)

------------------------------------------------------------------------------
\* The watcher keeps its shape.
WatchTypeOK ==
  /\ content \in Versions /\ snapshot \in Versions /\ image \in Versions
  /\ edits \in 0 .. MaxEdits
  /\ watching \in {"asleep", "reading", "building", "ended"}
  /\ failed \in BOOLEAN /\ strayed \in BOOLEAN

\* The digest is the one of the last poll, while the last build read another version.
Returned == strayed /\ content = snapshot

\* A version of the files that stays is built, unless its build fails or an exception
\* ended the watcher, and with one exception more: files that are changed while a build
\* reads them and are then changed back have the digest the watcher knows, and are not
\* built again.  An edit made while a build runs is not lost otherwise.
EditsAreBuilt ==
  content # image ~> content = image \/ failed \/ watching = "ended" \/ Returned
=============================================================================

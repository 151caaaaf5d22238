---------------------------- MODULE QuoteArchive ----------------------------
(***************************************************************************)
(* What the quote lake promises its readers: an archive that holds only    *)
(* rows the provider released and never loses one.                         *)
(***************************************************************************)
CONSTANT Feed          \* the rows the provider will ever release

VARIABLES released, archive
vars == <<released, archive>>

Init == released = {} /\ archive = {}

Release(r) ==
  /\ r \in Feed \ released
  /\ released' = released \cup {r}
  /\ UNCHANGED archive

\* Any released rows may be accumulated at once, and nothing is dropped.
Accumulate ==
  /\ archive' \subseteq released
  /\ archive \subseteq archive'
  /\ UNCHANGED released

Next == Accumulate \/ \E r \in Feed : Release(r)

Spec == Init /\ [][Next]_vars
=============================================================================

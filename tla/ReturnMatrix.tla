---------------------------- MODULE ReturnMatrix ----------------------------
(***************************************************************************)
(* The rows of a date in a return matrix: one per listing, in the order of *)
(* the matrix.  Weights are of ISINs, and two listings may have one ISIN.  *)
(***************************************************************************)
EXTENDS Integers, Sequences, FiniteSets, FiniteSetsExt, Functions

CONSTANTS
  Isins,
  Matrices  \* for each row of a date, the ISIN of its listing

ASSUME MatrixAssumption ==
  /\ IsFiniteSet(Isins)
  /\ \A m \in Matrices : m \in Seq(Isins) /\ Range(m) = Isins

RowsOfIsin(m, i) == {r \in DOMAIN m : m[r] = i}

LastRow(m, i) == Max(RowsOfIsin(m, i))

OneListingEach(m) == \A q, r \in DOMAIN m : m[q] = m[r] => q = r
=============================================================================

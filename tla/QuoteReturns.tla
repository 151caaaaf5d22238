---------------------------- MODULE QuoteReturns ----------------------------
(* Returns as the data they are computed from: the quote days of a listing. *)
EXTENDS Naturals, FiniteSetsExt

\* The first quote gives no return.
ReturnDays(Q) == {d \in Q : \E e \in Q : e < d}

\* A return is made from a day's quote and the one before it.
StartOf(Q, d) == Max({e \in Q : e < d})

\* The observations of a pair: the common return days, with what either return is from.
Common(P, Q) == {<<d, StartOf(P, d), StartOf(Q, d)>> : d \in ReturnDays(P) \cap ReturnDays(Q)}
=============================================================================

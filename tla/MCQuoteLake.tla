---------------------------- MODULE MCQuoteLake ----------------------------
(* Small instances of QuoteLake. *)
EXTENDS QuoteLake

CONSTANTS a, b

MCListings == {a, b}
OwnFiles == [l \in MCListings |-> l]         \* every listing its own file
SharedFile == [l \in MCListings |-> "isin"]  \* one ISIN quoted under two codes
OneYear == [d \in Days |-> 1]
YearEvens == [d \in Days |-> d \div 2]
AllQuotes == [ds \in Datasets |->
                IF ds = "quotes" THEN MCListings \X Days ELSE {<<a, 1>>}]
FewQuotes == [ds \in Datasets |->
                IF ds = "quotes" THEN {<<a, 1>>, <<a, 2>>, <<b, 1>>} ELSE {}]
MixedQuotes == [ds \in Datasets |->
                  IF ds = "quotes" THEN ({a} \X Days) \cup {<<b, 1>>} ELSE {<<a, 1>>}]
LongQuotes == [ds \in Datasets |-> IF ds = "quotes" THEN {a} \X Days ELSE {}]
AllDays == Days
NotDayTwo == Days \ {2}

Default(S) == [sel |-> S, start |-> 0, end |-> 0, gap |-> TRUE, raw |-> TRUE]
Daily == {Default(MCListings)}
DailyA == {Default({a})}
Varied == {Default(MCListings), Default({b}),
           [Default(MCListings) EXCEPT !.gap = FALSE, !.start = 2],
           [Default(MCListings) EXCEPT !.end = 1, !.raw = FALSE]}
=============================================================================

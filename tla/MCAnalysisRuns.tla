--------------------------- MODULE MCAnalysisRuns ---------------------------
(* Small instances of AnalysisRuns: quotes may lag behind, two selections    *)
(* have one size, and two share an evaluation.                               *)
EXTENDS AnalysisRuns

MCListings == 1 .. 2
MCSelections == {{1, 2}, {1}, {2}}
MCEvaluations == {"one", "two", "production"}
MCEvaluationOf == [S \in MCSelections |-> IF S = {2} THEN "two" ELSE "one"]

\* Listing 2 is new: its first quote gives no return.
MCFirstDate == [l \in MCListings |-> l]
MCGrowths == {MCListings, {1}, {2}}

MCBoth == {{1, 2}}
MCEvaluationOfBoth == [S \in MCBoth |-> "one"]
MCFirstOfBoth == [l \in MCListings |-> 1]
MCOneByOne == {{1}, {2}}
=============================================================================

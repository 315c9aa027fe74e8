----------------------------- MODULE MCTableRows ----------------------------
(* Small instances of TableRows. *)
EXTENDS TableRows

\* Contents of one column set only.
PlainCells == {"x", "y"}

\* A row whose later column is at its default (0) or not (1).
GrownCells == {"x0", "x1"}
FirstCells == {"x0"}

OneCell == {"x"}

\* Nobody's enrolment changes; the third writer is removed; the second is
\* removed, and effective again after a fold that no longer counts the removal.
Steady == [d \in Device |-> 0]
ThirdLeaves == [d \in Device |-> IF d = 3 THEN 1 ELSE 0]
SecondReturns == [d \in Device |-> IF d = 2 THEN 2 ELSE 0]

MayBeMalformed == {Unreadable}
=============================================================================

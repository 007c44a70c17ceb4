----------------------------- MODULE IgpoStepMC -----------------------------
(***************************************************************************)
(* The rows of data TLC tries.                                             *)
(***************************************************************************)
EXTENDS IgpoStep

(* No penalty, and one that differs between tokens and is zero on some, so *)
(* that the rewarded tokens have gaps.                                     *)
PenaltyRows == {[k \in Positions |-> 0], [k \in Positions |-> k % 3]}

(* Log-probs that rise, fall or are missing first or in the middle.        *)
RowsOfLogProbs ==
    {<<10, 0, 30>>, <<Missing, 0, 10>>, <<0, Missing, 10>>}

=============================================================================

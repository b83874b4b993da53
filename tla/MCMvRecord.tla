------------------------------- MODULE MCMvRecord -------------------------------
(***************************************************************************)
(* Positions on both sides of zero, where the division truncates in        *)
(* different directions, and references up to three frames away.           *)
(***************************************************************************)
EXTENDS MvRecord

MCPositions == -7 .. 7
MCSources == {-3, -2, -1, 1}

================================================================================

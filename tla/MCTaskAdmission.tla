--------------------------- MODULE MCTaskAdmission ---------------------------
(* TaskAdmission for a few requests, interchangeable.                      *)
EXTENDS TaskAdmission, TLC

RequestSymmetry == Permutations(Request)

=============================================================================

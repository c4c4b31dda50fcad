------------------------------ MODULE MCChain ------------------------------
(* A chain of two steps and two more ids: tasks of their own, or copies of *)
(* dead letters, two of the same one among them.                           *)
EXTENDS Chain, TLC

CONSTANTS s1, s2

MCSteps == <<s1, s2>>

Symmetry == Permutations(Job \ FlowJob) \cup Permutations(Operator)

=============================================================================

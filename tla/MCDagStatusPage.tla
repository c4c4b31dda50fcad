-------------------------- MODULE MCDagStatusPage --------------------------
(* DagStatusPage on a chain and on a fan-in.                               *)
EXTENDS DagStatusPage, TLC

CONSTANTS a, b, c

FanIn == a :> <<>> @@ b :> <<>> @@ c :> <<a, b>>
Chain == a :> <<>> @@ b :> <<a>>

MCRequests == {FanIn, Chain}

=============================================================================

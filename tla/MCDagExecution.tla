-------------------------- MODULE MCDagExecution --------------------------
(* DagExecution on graphs with two dependencies that race, one named twice *)
(* and two levels, and on requests of each invalid kind.                   *)
EXTENDS DagExecution, TLC

CONSTANTS a, b, c

Graph(ids, deps) == [n \in ids |-> IF n \in DOMAIN deps THEN deps[n] ELSE <<>>]

Triangle == Graph({a, b, c}, b :> <<a>> @@ c :> <<a, b>>)
FanIn    == Graph({a, b, c}, c :> <<a, b, a>>)
Repeated == Graph({a, b}, b :> <<a, a>>)
Cycle    == Graph({a, b, c}, b :> <<c>> @@ c :> <<b, a>>)
Dangling == Graph({a, b}, b :> <<a, c>>)
SelfLoop == Graph({a, b}, b :> <<b>>)

MCRequests == {Triangle, FanIn, Cycle, Dangling, SelfLoop, NoDag}
MCSmall == {Triangle, Repeated, Cycle}

WorkerSymmetry == Permutations(Worker)

=============================================================================

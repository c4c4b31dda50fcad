----------------------------- MODULE MCDagEditor -----------------------------
(* Every request of up to three nodes with dependsOn lists of up to two    *)
(* ids, every drawing of up to four nodes, and the diamond.                *)
EXTENDS DagDrawing

CONSTANTS N1, N2, N3, N4

MCIdNumber == <<N1, N2, N3, N4>>
MCSampleIds == <<N1, N2, N3, N4>>

UpTo(k, S) == UNION {[1..j -> S] : j \in 0..k}

MCApiRequests ==
  UpTo(3, [id : {N1, N2, N3}, dependsOn : UpTo(2, {N1, N2, N3})])

=============================================================================

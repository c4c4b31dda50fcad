----------------------------- MODULE DagDrawing -----------------------------
(***************************************************************************)
(* How the pages show a DAG that was accepted: buildGraph of DagGraph.tsx  *)
(* places each node by its layer and its row in the layer and draws an     *)
(* arrow for each entry of dependsOn.  Together with DagEditor and         *)
(* TopologicalSort it is the way of a graph from the editor's canvas       *)
(* through the API and back to the screen.                                 *)
(***************************************************************************)
EXTENDS DagEditor, SequencesExt

-----------------------------------------------------------------------------
(* buildGraph.  A column is one unit wide, a row two units high.           *)

Tallest == Max({1} \cup {Cardinality(layers[k]) : k \in DOMAIN layers})

Place(col, row) ==
  [x |-> col - 1, y |-> (Tallest - Cardinality(layers[col])) + 2 * (row - 1)]

(* The order of ids in a layer is any.                                     *)
Boxes ==
  UNION {LET rows == SetToSeq(layers[col])
         IN {[id |-> rows[r], at |-> Place(col, r)] : r \in DOMAIN rows} :
           col \in DOMAIN layers}

(* An arrow for each place in the dependsOn lists: its source and target,  *)
(* which are also its id.                                                  *)
Places ==
  UNION {{<<k, i>> : i \in DOMAIN nodes[k].dependsOn} : k \in DOMAIN nodes}

Arrows == [p \in Places |-> <<nodes[p[1]].dependsOn[p[2]], nodes[p[1]].id>>]

-----------------------------------------------------------------------------
(* Correctness.                                                            *)

(* Whatever the API accepts can be read off the screen: each node is there *)
(* once, no two nodes lie on each other, none lies above the top edge, and *)
(* every arrow leads to the right.                                         *)
Readable ==
  /\ \A b, c \in Boxes : (b.id = c.id) <=> (b.at = c.at)
  /\ \A b \in Boxes : b.at.y >= 0
  /\ \A p \in Places : \E b, c \in Boxes :
       b.id = Arrows[p][1] /\ c.id = Arrows[p][2] /\ b.at.x < c.at.x

(* A graph from the editor moreover comes back as it was drawn, through    *)
(* buildDagPayload, the layering and buildGraph: the same nodes and edges, *)
(* and no edge twice (the arrows' ids are React keys).                     *)
DrawnBack ==
  pc = "accepted" =>
    /\ Readable
    /\ sender = "page" => /\ {b.id : b \in Boxes} = Drawn
                          /\ {Arrows[p] : p \in Places} = Edges
                          /\ \A p, q \in Places : Arrows[p] = Arrows[q] => p = q

=============================================================================

------------------------------- MODULE MCMesh -------------------------------
(***************************************************************************)
(* Small meshes for TLC: the pagers are numbered, a line station is 1 and  *)
(* the highest number is the tugger.                                       *)
(***************************************************************************)
EXTENDS Mesh

LastNode == CHOOSE n \in Nodes : \A m \in Nodes : m <= n

\* Everyone hears everyone; a row.
AllLinks    == [n \in Nodes |-> Nodes \ {n}]
RowLinks    == [n \in Nodes |-> {m \in Nodes : m \in {n - 1, n + 1}}]

RowRoles   == [n \in Nodes |-> IF n = 1 THEN "line"
                               ELSE IF n = LastNode THEN "tugger" ELSE "collector"]
OneZone    == [n \in Nodes |-> 1]
FirstMakes == [n \in Nodes |-> IF n = 1 THEN Ids ELSE {}]
=============================================================================

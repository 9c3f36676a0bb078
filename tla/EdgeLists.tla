------------------------------ MODULE EdgeLists ------------------------------
(***************************************************************************)
(* p02-1, graphs.h: what the graph library promises.  A graph is a list of *)
(* edge ends for each vertex, in the order in which they were added, and   *)
(* an edge may be there more than once.  Vertices count from 0.            *)
(***************************************************************************)
EXTENDS Integers, Sequences

VARIABLE rows

\* upload_graph before the matrix is read: no edges.
Init == rows \in Seq({<<>>})

VerticesOf(lists) == 0 .. Len(lists) - 1

add_vertex == rows' = Append(rows, <<>>)

add_edge(from, to) == rows' = [rows EXCEPT ![from + 1] = Append(@, to)]

\* What is left of the first n ends of a row without those that are `end'.
Kept(row, end, n) ==
  LET kept[k \in 0 .. Len(row)] ==
        IF k = 0 THEN <<>>
        ELSE IF row[k] = end THEN kept[k - 1] ELSE Append(kept[k - 1], row[k])
  IN  kept[n]

\* The ends have new numbers when a vertex is gone.
Moved(row, vertex) == [k \in DOMAIN row |-> IF row[k] > vertex THEN row[k] - 1 ELSE row[k]]

\* All edges from the one to the other are removed.
remove_edge(from, to) ==
  rows' = [rows EXCEPT ![from + 1] = Kept(@, to, Len(@))]

\* The edges of the vertex go with it, and later vertices move up by one.
remove_vertex(vertex) ==
  LET others == [k \in 1 .. Len(rows) - 1 |-> rows[IF k <= vertex THEN k ELSE k + 1]]
  IN  rows' = [k \in DOMAIN others |-> Moved(Kept(others[k], vertex, Len(others[k])), vertex)]

Next ==
  \/ add_vertex
  \/ \E from, to \in VerticesOf(rows) : add_edge(from, to) \/ remove_edge(from, to)
  \/ \E vertex \in VerticesOf(rows) : remove_vertex(vertex)

Spec == Init /\ [][Next]_rows
=============================================================================

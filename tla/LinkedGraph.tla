----------------------------- MODULE LinkedGraph -----------------------------
(***************************************************************************)
(* p02-1, graphs.c: the graph library, one step for each turn of a loop.   *)
(* A row of the graph is a linked list of cells in the heap.  malloc takes *)
(* any cell that is free; what a freed cell holds is left out, as nobody   *)
(* may look at it.                                                         *)
(*                                                                         *)
(* A call is a step that sets `pc' to the loop it runs; the next call is   *)
(* made when the loops are over.  print_graph and print_graphviz change    *)
(* nothing and are left out; calls whose asserts fail are not made.        *)
(***************************************************************************)
EXTENDS Integers, Sequences, FiniteSets, SequencesExt, FiniteSetsExt

CONSTANTS
  MaxVertices,  \* a bound: vertices of the graph
  Cells,        \* a bound: the cells of the heap
  NULL

ASSUME BoundsAssumption ==
  MaxVertices \in Nat /\ IsFiniteSet(Cells) /\ NULL \notin Cells

VARIABLES
  vertices,   \* the array: vertex -> its first cell
  heap,       \* cell -> [number, next]
  live,       \* the cells that are allocated
  pc,         \* the loop that runs, or "idle"
  arg,        \* the arguments of the call
  i, cur, prev,
  before      \* history: the rows when the call began

vars == <<vertices, heap, live, pc, arg, i, cur, prev, before>>

NoArg == [from |-> 0, to |-> 0]
Blank == [number |-> 0, next |-> NULL]

vernum == Cardinality(DOMAIN vertices)

\* The cells of a list; more of them than there are, if it has a cycle.
ChainIn(mem, first) ==
  LET at[k \in 0 .. Cardinality(Cells)] ==
        IF k = 0 THEN first ELSE IF at[k - 1] = NULL THEN NULL ELSE mem[at[k - 1]].next
  IN  [k \in 1 .. Cardinality({n \in 0 .. Cardinality(Cells) : at[n] # NULL}) |-> at[k - 1]]

Chain(first) == ChainIn(heap, first)

Row(vertex) == LET cells == Chain(vertices[vertex]) IN [k \in DOMAIN cells |-> heap[cells[k]].number]
Rows == [k \in 1 .. vernum |-> Row(k - 1)]

\* upload_graph, which goes on with add_edge for each 1 of the matrix.
Init ==
  /\ \E n \in 0 .. MaxVertices : vertices = [v \in 0 .. n - 1 |-> NULL]
  /\ heap = [c \in Cells |-> Blank]
  /\ live = {}
  /\ pc = "idle"
  /\ arg = NoArg
  /\ i = 0 /\ cur = NULL /\ prev = NULL
  /\ before = <<>>

-----------------------------------------------------------------------------
\* Bound: a free cell is left.
Free == Cells \ live

malloc(cell, number, linked) ==
  /\ heap' = [linked EXCEPT ![cell] = [number |-> number, next |-> NULL]]
  /\ live' = live \cup {cell}

free(cell) == heap' = [heap EXCEPT ![cell] = Blank] /\ live' = live \ {cell}

Idle ==
  /\ pc' = "idle" /\ arg' = NoArg /\ before' = <<>>
  /\ i' = 0 /\ cur' = NULL /\ prev' = NULL

\* The next loop starts at the list of vertex v, if there is such a vertex.
StartRow(loop, v, array) ==
  IF v \in DOMAIN array
  THEN /\ pc' = loop /\ i' = v /\ cur' = array[v] /\ prev' = array[v]
       /\ UNCHANGED <<arg, before>>
  ELSE Idle

Call(loop, from, to) ==
  /\ pc = "idle"
  /\ pc' = loop
  /\ arg' = [from |-> from, to |-> to]
  /\ i' = from
  /\ cur' = vertices[from] /\ prev' = vertices[from]
  /\ before' = Rows

\* Bound: MaxVertices.
add_vertex ==
  /\ pc = "idle"
  /\ vernum < MaxVertices
  /\ vertices' = [v \in 0 .. vernum |-> IF v = vernum THEN NULL ELSE vertices[v]]
  /\ UNCHANGED <<heap, live, pc, arg, i, cur, prev, before>>

add_edge(from, to) ==
  /\ Free # {}
  /\ IF vertices[from] = NULL
     THEN /\ pc = "idle"
          /\ \E new \in Free :
               /\ malloc(new, to, heap)
               /\ vertices' = [vertices EXCEPT ![from] = new]
          /\ UNCHANGED <<pc, arg, i, cur, prev, before>>
     ELSE Call("append", from, to) /\ UNCHANGED <<vertices, heap, live>>

AppendStep ==
  /\ pc = "append"
  /\ IF heap[cur].next # NULL
     THEN /\ cur' = heap[cur].next
          /\ UNCHANGED <<vertices, heap, live, pc, arg, i, prev, before>>
     ELSE /\ \E new \in Free : malloc(new, arg.to, [heap EXCEPT ![cur].next = new])
          /\ Idle
          /\ UNCHANGED vertices

remove_edge(from, to) == Call("remove_edge", from, to) /\ UNCHANGED <<vertices, heap, live>>

remove_vertex(vertex) == Call("free_row", vertex, vertex) /\ UNCHANGED <<vertices, heap, live>>

\* The list of the vertex is freed; then the array moves up.
FreeRow ==
  /\ pc = "free_row"
  /\ IF prev # NULL
     THEN /\ prev' = heap[prev].next
          /\ free(prev)
          /\ UNCHANGED <<vertices, pc, arg, i, cur, before>>
     ELSE /\ vertices' = [v \in 0 .. vernum - 2 |-> vertices[IF v < arg.to THEN v ELSE v + 1]]
          /\ StartRow("remove_vertex", 0, vertices')
          /\ UNCHANGED <<heap, live>>

-----------------------------------------------------------------------------
(* The loop over a list that remove_edge and remove_vertex share.          *)

Scanning == pc \in {"remove_edge", "remove_vertex"}

\* Mutant: the array still points to the cell that was freed.
UnlinkFirstBare ==
  /\ Scanning /\ cur # NULL /\ heap[cur].number = arg.to /\ prev = cur
  /\ cur' = heap[cur].next
  /\ prev' = cur'
  /\ free(cur)
  /\ UNCHANGED <<vertices, pc, arg, i, before>>

UnlinkFirst ==
  /\ Scanning /\ cur # NULL /\ heap[cur].number = arg.to /\ prev = cur
  /\ cur' = heap[cur].next
  /\ prev' = cur'
  /\ free(cur)
  /\ vertices' = [vertices EXCEPT ![i] = cur']
  /\ UNCHANGED <<pc, arg, i, before>>

UnlinkLater ==
  /\ Scanning /\ cur # NULL /\ heap[cur].number = arg.to /\ prev # cur
  /\ heap' = [heap EXCEPT ![prev].next = heap[cur].next, ![cur] = Blank]
  /\ live' = live \ {cur}
  /\ cur' = heap'[prev].next
  /\ UNCHANGED <<vertices, pc, arg, i, prev, before>>

\* Mutant: the numbers of later vertices are not changed.
KeepNumber ==
  /\ Scanning /\ cur # NULL /\ heap[cur].number # arg.to
  /\ prev' = cur
  /\ cur' = heap[cur].next
  /\ UNCHANGED <<vertices, heap, live, pc, arg, i, before>>

Keep ==
  /\ Scanning /\ cur # NULL /\ heap[cur].number # arg.to
  /\ heap' = IF pc = "remove_vertex" /\ heap[cur].number > arg.to
             THEN [heap EXCEPT ![cur].number = @ - 1] ELSE heap
  /\ prev' = cur
  /\ cur' = heap[cur].next
  /\ UNCHANGED <<vertices, live, pc, arg, i, before>>

RowEnds ==
  /\ Scanning /\ cur = NULL
  /\ IF pc = "remove_edge" THEN Idle ELSE StartRow("remove_vertex", i + 1, vertices)
  /\ UNCHANGED <<vertices, heap, live>>

-----------------------------------------------------------------------------
\* delete_graph: all lists are freed, then the array.
delete_graph ==
  /\ pc = "idle"
  /\ vernum > 0
  /\ Call("delete", 0, 0)
  /\ UNCHANGED <<vertices, heap, live>>

DeleteStep ==
  /\ pc = "delete"
  /\ CASE prev # NULL ->
            /\ prev' = heap[prev].next
            /\ free(prev)
            /\ UNCHANGED <<vertices, pc, arg, i, cur, before>>
       [] prev = NULL /\ i + 1 < vernum ->
            StartRow("delete", i + 1, vertices) /\ UNCHANGED <<vertices, heap, live>>
       [] OTHER ->
            /\ pc' = "deleted"
            /\ vertices' = <<>>
            /\ cur' = NULL
            /\ UNCHANGED <<heap, live, arg, i, prev, before>>

Next ==
  \/ add_vertex
  \/ \E from, to \in DOMAIN vertices : add_edge(from, to) \/ remove_edge(from, to)
  \/ \E vertex \in DOMAIN vertices : remove_vertex(vertex)
  \/ AppendStep \/ FreeRow \/ UnlinkFirst \/ UnlinkLater \/ Keep \/ RowEnds
  \/ delete_graph \/ DeleteStep

Spec == Init /\ [][Next]_vars

-----------------------------------------------------------------------------
(* The two functions that only read a graph, here as lists.                *)

\* Mutant: from and to are not exchanged.
revert_row_copy(lists, row, from) ==
  LET turn[k \in 0 .. Len(row)] ==
        IF k = 0 THEN lists ELSE [turn[k - 1] EXCEPT ![from + 1] = Append(@, row[k])]
  IN  turn[Len(row)]

\* The loop over one list.
revert_row(lists, row, from) ==
  LET turn[k \in 0 .. Len(row)] ==
        IF k = 0 THEN lists ELSE [turn[k - 1] EXCEPT ![row[k] + 1] = Append(@, from)]
  IN  turn[Len(row)]

revert_graph(rows) ==
  LET turn[k \in 0 .. Len(rows)] ==
        IF k = 0 THEN [v \in DOMAIN rows |-> <<>>] ELSE revert_row(turn[k - 1], rows[k], k - 1)
  IN  turn[Len(rows)]

\* sum, after the loop has added these.
Total(terms) ==
  LET sum[k \in 0 .. Len(terms)] == IF k = 0 THEN 0 ELSE sum[k - 1] + terms[k]
  IN  sum[Len(terms)]

\* A call gets the vertex it starts from, and the set of those that are
\* marked in the array control.
way_count(rows, from, to) ==
  LET V == 0 .. Len(rows) - 1
      count[call \in V \X SUBSET V] ==
        LET v == call[1]
            ncontrol == call[2] \cup {v}
        IN  IF v = to THEN 1
            ELSE Total([k \in DOMAIN rows[v + 1] |->
                          IF rows[v + 1][k] \in ncontrol THEN 0 ELSE count[<<rows[v + 1][k], ncontrol>>]])
  IN  count[<<from, {}>>]

-----------------------------------------------------------------------------
(* Properties.                                                             *)

\* The cells a loop still has in its hands: those of the list that is being
\* freed or deleted.
InHand == IF pc \in {"free_row", "delete"} THEN Range(Chain(prev)) ELSE {}

\* The lists that are kept whole while the loop runs.
Whole == {v \in DOMAIN vertices :
            ~(pc = "free_row" /\ v = arg.to) /\ ~(pc = "delete" /\ v <= i)}

\* In the middle of any loop: no pointer that will be followed leads to a
\* freed cell, no list has a cycle, no two lists share a cell, and no cell is
\* forgotten: each allocated one is in a list or about to be freed.
HeapSound ==
  /\ {cur, prev} \subseteq {NULL} \cup Cells
  /\ \A v \in Whole : IsInjective(Chain(vertices[v]))
  /\ \A v, w \in Whole : v # w => Range(Chain(vertices[v])) \cap Range(Chain(vertices[w])) = {}
  /\ live = InHand \cup UNION {Range(Chain(vertices[v])) : v \in Whole}
  /\ Scanning \/ pc = "append" => {cur, prev} \subseteq {NULL} \cup Range(Chain(vertices[i]))
  /\ pc = "deleted" => live = {}

\* Whole calls do to the lists what graphs.h says, whatever was linked and
\* unlinked before: several edges of one kind at the start, in the middle and
\* at the end of a list are all removed, and numbers follow their vertices.
Abstract == INSTANCE EdgeLists WITH rows <- IF pc = "idle" THEN Rows ELSE before
ImplementsEdgeLists == Abstract!Init /\ [][Abstract!Next]_(IF pc = "idle" THEN Rows ELSE before)

\* A way is a sequence of edges, and an edge is a vertex with a place in its
\* row.  The ways counted here go from the one vertex to the other, and come
\* to no vertex twice.
SimpleWays(rows, from, to) ==
  LET Edges == UNION {{v} \X DOMAIN rows[v + 1] : v \in 0 .. Len(rows) - 1}
      Stop(way, k) == IF k <= Len(way) THEN way[k][1] ELSE to
  IN  Cardinality(
        {way \in UNION {[1 .. n -> Edges] : n \in 0 .. Len(rows) - 1} :
           /\ Stop(way, 1) = from
           /\ \A k \in 1 .. Len(way) : rows[way[k][1] + 1][way[k][2]] = Stop(way, k + 1)
           /\ \A j, k \in 1 .. Len(way) + 1 : Stop(way, j) = Stop(way, k) => j = k})

\* way_count, which shares no marks between its calls, counts the ways that
\* visit no vertex twice, and a reverted graph has the same ways backwards.
Ways ==
  pc = "idle" =>
    \A from, to \in DOMAIN vertices :
      /\ way_count(Rows, from, to) = SimpleWays(Rows, from, to)
      /\ way_count(revert_graph(Rows), to, from) = SimpleWays(Rows, from, to)
=============================================================================

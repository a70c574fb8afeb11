------------------------------- MODULE Graphviz -------------------------------
(***************************************************************************)
(* DumpNodeGraphviz (leaf_page.h, inner_page.h) and GenerateDot: the tree   *)
(* as a graph, one node per page with its keys and an edge per child slot.  *)
(***************************************************************************)
EXTENDS BTreeMap

Node(pid) ==
  [page |-> pid, keys |-> {e[1] : e \in Live(heap[pid])}, children |-> Children(pid)]

\* The children an internal page goes on to, in the order of their slots.
ChildSeq(pid) ==
  IF IsLeaf(pid) THEN <<>> ELSE [i \in 1..heap[pid].size |-> heap[pid].pids[i - 1]]

\* The whole text of DumpGraphviz.
Drawing == {Node(pid) : pid \in Reachable({root})}

\* GenerateDot: the file holds the text, or could not be opened.
Written(file, text) == {file, text}

=============================================================================

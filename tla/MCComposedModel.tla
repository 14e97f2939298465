--------------------------- MODULE MCComposedModel ---------------------------
(***************************************************************************)
(* Instances of ComposedModel: compositions with an input and a path of    *)
(* any shape, and every graph over two items with every list of            *)
(* priorities up to renaming.                                              *)
(***************************************************************************)
EXTENDS ComposedModel

MCWeight == [n \in Nodes |-> [j \in Items |-> [i \in Items |-> ((n + 2 * j + i) % 3) + 1]]]

MCCurve == [n \in Nodes |-> [j \in Items |-> ((n + j) % 2) + 1]]

MCValues == {[i \in Items |-> i % 2], [i \in Items |-> 1 - (i % 3)]}

\* Node n provides item n; the item without a node is an input
OwnGraphs == [consumes: {c \in [Nodes -> SUBSET Items] : \A n \in Nodes : n \notin c[n]},
              provides: {[n \in Nodes |-> {n}]},
              priority: {PriorityOf(<<>>)}, extra: {{}, {2}}]

\* What node n consumes and provides
Kind(g, n) == SumSet(g.consumes[n]) + 4 * SumSet(g.provides[n])

\* Any node consumes and provides either of two items.  Lists of priorities that differ by
\* a permutation of the nodes give the same behaviours, likewise the outbound items, and
\* likewise nodes of one priority.
SharedGraphs ==
  {g \in [consumes: [Nodes -> SUBSET {1, 2}], provides: [Nodes -> (SUBSET {1, 2}) \ {{}}],
          priority: {PriorityOf(<<>>), PriorityOf(<<1, 2>>), PriorityOf(<<1, 2, 3>>)},
          extra: {{}, {1}, {1, 2}}] :
     \A m, n \in Nodes : m < n /\ g.priority[m] = g.priority[n] => Kind(g, m) <= Kind(g, n)}

ComposeGraphs == OwnGraphs \cup SharedGraphs

=============================================================================

------------------------- MODULE DependencyResolver -------------------------
(***************************************************************************)
(* The evaluation order of a set of models that consume and provide items: *)
(* build_graph, then the depth-first resolve.  A std::set of nodes is      *)
(* ordered by address, so wherever the code walks one the order is free.   *)
(* Providers must be unique and consumers need not be, the defaults of the *)
(* class and what ComposedModel asks for.                                  *)
(***************************************************************************)
EXTENDS Naturals, Sequences, FiniteSets

CONSTANTS
  Nodes,
  Items,
  Outside,   \* nullptr, the parent of the additional outbound items
  Graphs     \* the graphs to resolve

\* Nodes with the items they consume and provide, their priority (zero where
\* none is set), and the additional outbound items
GraphType == [consumes: [Nodes -> SUBSET Items], provides: [Nodes -> SUBSET Items],
              priority: [Nodes -> Nat], extra: SUBSET Items]

ASSUME ResolverAssumption ==
  /\ IsFiniteSet(Nodes)
  /\ Outside \notin Nodes
  /\ Graphs \subseteq GraphType

VARIABLES
  graph,
  phase,       \* "build", "visit", "resolved", or the exception thrown:
               \* "ambiguous", "unprovided", "cyclic", "missing"
  ends,        \* _end_nodes that the loop of resolve() has not come to
  stack,       \* the calls of resolve(node), each with the providers to come
  status,      \* _status: 0 not visited, 1 visiting, 2 visited
  resolution   \* _resolution

vars == <<graph, phase, ends, stack, status, resolution>>

-----------------------------------------------------------------------------
(* The adjacency *)

\* A model named k-th of m in the option "priority" has priority m - k
PriorityOf(order) ==
  [n \in Nodes |-> IF \E k \in DOMAIN order : order[k] = n
                   THEN Len(order) - CHOOSE k \in DOMAIN order : order[k] = n
                   ELSE 0]

Priority(n) == IF n = Outside THEN 0 ELSE graph.priority[n]

\* A provider must not have a lower priority than its consumer
MayFeed(p, c) == p # c /\ Priority(c) <= Priority(p)

\* What a node consumes; the additional outbound items are consumed outside
Consumed(c) == IF c = Outside THEN graph.extra ELSE graph.consumes[c]

Providers(c, i) == {p \in Nodes : i \in graph.provides[p] /\ MayFeed(p, c)}

Consumers(p, i) == {c \in Nodes : i \in graph.consumes[c] /\ MayFeed(p, c)}

\* _node_provider_graph
NodeProviders(c) == UNION {Providers(c, i) : i \in Consumed(c)}

\* _in_items and _out_items
InItems == {ci \in Nodes \X Items : ci[2] \in Consumed(ci[1]) /\ Providers(ci[1], ci[2]) = {}}

OutItems == {pi \in Nodes \X Items :
               /\ pi[2] \in graph.provides[pi[1]]
               /\ \/ Consumers(pi[1], pi[2]) = {}
                  \/ pi[2] \in graph.extra /\ pi[1] \in Providers(Outside, pi[2])}

\* _end_nodes
EndNodes == {n \in Nodes : \A i \in graph.provides[n] : Consumers(n, i) = {}}
              \cup NodeProviders(Outside)

\* The items with more than one provider
Ambiguous == {ci \in (Nodes \cup {Outside}) \X Items :
                ci[2] \in Consumed(ci[1]) /\ Cardinality(Providers(ci[1], ci[2])) > 1}

Unprovided == {i \in graph.extra : Providers(Outside, i) = {}}

-----------------------------------------------------------------------------
(* Actions *)

Init ==
  /\ graph \in Graphs
  /\ phase = "build"
  /\ ends = {}
  /\ stack = <<>>
  /\ status = [n \in Nodes |-> 0]
  /\ resolution = <<>>

Throw(exception) ==
  /\ phase' = exception
  /\ UNCHANGED <<graph, ends, stack, status, resolution>>

BuildThrow ==
  /\ phase = "build"
  /\ \/ Ambiguous # {} /\ Throw("ambiguous")
     \/ Ambiguous = {} /\ Unprovided # {} /\ Throw("unprovided")

Build ==
  /\ phase = "build"
  /\ Ambiguous = {} /\ Unprovided = {}
  /\ phase' = "visit"
  /\ ends' = EndNodes
  /\ UNCHANGED <<graph, stack, status, resolution>>

\* resolve(n)
Call(n) ==
  /\ status' = [status EXCEPT ![n] = 1]
  /\ UNCHANGED <<graph, phase, resolution>>

\* Mutation of Frame: keeps one provider of a node only.
FrameOfOne(n) ==
  [node |-> n, todo |-> {p \in NodeProviders(n) : p = CHOOSE q \in NodeProviders(n) : TRUE}]

Frame(n) == [node |-> n, todo |-> NodeProviders(n)]

\* The loop over the end nodes comes to n
VisitEnd(n) ==
  /\ phase = "visit" /\ stack = <<>>
  /\ n \in ends
  /\ ends' = ends \ {n}
  /\ IF status[n] = 0
     THEN stack' = <<Frame(n)>> /\ Call(n)
     ELSE UNCHANGED <<graph, phase, stack, status, resolution>>

Top == stack[Len(stack)]

Below == SubSeq(stack, 1, Len(stack) - 1)

\* The loop over the providers of the node being visited comes to d
VisitProvider(d) ==
  /\ phase = "visit" /\ stack # <<>>
  /\ d \in Top.todo
  /\ LET rest == Append(Below, [Top EXCEPT !.todo = @ \ {d}])
     IN \/ status[d] = 0 /\ stack' = Append(rest, Frame(d)) /\ Call(d) /\ UNCHANGED ends
        \/ status[d] = 1 /\ Throw("cyclic")
        \/ status[d] = 2 /\ stack' = rest
             /\ UNCHANGED <<graph, phase, ends, status, resolution>>

\* Mutation of Visited: leaves the node marked as being visited.
VisitedStillMarked ==
  /\ phase = "visit" /\ stack # <<>>
  /\ Top.todo = {}
  /\ resolution' = Append(resolution, Top.node)
  /\ stack' = Below
  /\ UNCHANGED <<graph, phase, ends, status>>

\* Every provider has been visited: the node itself comes next in the order
Visited ==
  /\ phase = "visit" /\ stack # <<>>
  /\ Top.todo = {}
  /\ resolution' = Append(resolution, Top.node)
  /\ status' = [status EXCEPT ![Top.node] = 2]
  /\ stack' = Below
  /\ UNCHANGED <<graph, phase, ends>>

\* Each node must appear in the resolution
Resolve ==
  /\ phase = "visit" /\ stack = <<>> /\ ends = {}
  /\ phase' = IF \A n \in Nodes : \E k \in DOMAIN resolution : resolution[k] = n
              THEN "resolved" ELSE "missing"
  /\ UNCHANGED <<graph, ends, stack, status, resolution>>

Next ==
  \/ BuildThrow
  \/ Build
  \/ \E n \in Nodes : VisitEnd(n)
  \/ \E d \in Nodes : VisitProvider(d)
  \/ Visited
  \/ Resolve

Spec == Init /\ [][Next]_vars

-----------------------------------------------------------------------------
(* Properties *)

\* The types of the state of build_graph and resolve.
TypeOK ==
  /\ graph \in GraphType
  /\ phase \in {"build", "visit", "resolved", "ambiguous", "unprovided", "cyclic", "missing"}
  /\ ends \in SUBSET Nodes
  /\ stack \in Seq([node: Nodes, todo: SUBSET Nodes])
  /\ status \in [Nodes -> 0 .. 2]
  /\ resolution \in Seq(Nodes)

\* The nodes visited are those resolved, each once, after their providers
VisitedIsResolved ==
  /\ \A k \in DOMAIN resolution : status[resolution[k]] = 2
  /\ \A n \in Nodes : status[n] = 2 => \E k \in DOMAIN resolution : resolution[k] = n
  /\ \A k, l \in DOMAIN resolution : resolution[k] = resolution[l] => k = l
  /\ \A k \in DOMAIN resolution : \A p \in NodeProviders(resolution[k]) :
       \E j \in 1 .. k - 1 : resolution[j] = p

\* The nodes being visited are those on the stack, each once.  A provider that
\* a frame has done with is visited or the node of the next frame.
VisitingIsStacked ==
  /\ \A k \in DOMAIN stack : status[stack[k].node] = 1
  /\ \A k, l \in DOMAIN stack : stack[k].node = stack[l].node => k = l
  /\ \A n \in Nodes : status[n] = 1 => \E k \in DOMAIN stack : stack[k].node = n
  /\ \A k \in DOMAIN stack : stack[k].todo \subseteq NodeProviders(stack[k].node)
  /\ \A k \in DOMAIN stack : \A p \in NodeProviders(stack[k].node) \ stack[k].todo :
       \/ status[p] = 2
       \/ k < Len(stack) /\ p = stack[k + 1].node
  /\ \A k \in DOMAIN stack :
       k < Len(stack) => stack[k + 1].node \in NodeProviders(stack[k].node)

\* Every set of nodes has one that none of the set provides for
Acyclic == \A S \in (SUBSET Nodes) \ {{}} : \E n \in S : NodeProviders(n) \cap S = {}

\* Whatever the addresses of the nodes: a resolution has each node once, after
\* everything that provides for it.
ResolutionIsOrder ==
  phase = "resolved" =>
    /\ \A n \in Nodes : \E k \in DOMAIN resolution : resolution[k] = n
    /\ \A k, l \in DOMAIN resolution : resolution[k] = resolution[l] => k = l
    /\ \A k \in DOMAIN resolution : \A p \in NodeProviders(resolution[k]) :
         \E j \in 1 .. k - 1 : resolution[j] = p

\* Once the graph is built, resolve() throws exactly for the graphs with a cycle.
CyclesThrow ==
  /\ phase = "resolved" => Acyclic
  /\ phase \in {"cyclic", "missing"} => ~Acyclic

\* What the search relies on between any two of its steps: the visited nodes are
\* the resolution, those being visited are the stack, and a node found on the
\* stack closes a cycle.
SearchInv ==
  /\ TypeOK
  /\ VisitedIsResolved
  /\ VisitingIsStacked
  /\ (phase = "resolved") => \A n \in Nodes : status[n] = 2
  /\ (phase = "cyclic") => ~Acyclic

\* No end node is left out of the search.
EndsVisited == phase = "visit" => \A n \in EndNodes \ ends : status[n] # 0

\* The search, from all of the end nodes: what it cannot reach leads into a cycle.
IInv ==
  /\ SearchInv
  /\ EndsVisited
  /\ (phase = "missing") => ~Acyclic

=============================================================================

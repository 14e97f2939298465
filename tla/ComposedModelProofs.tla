------------------------- MODULE ComposedModelProofs -------------------------
(***************************************************************************)
(* Theorems about DependencyResolver, for every graph of any nodes and     *)
(* items and any order of the nodes in memory, and about ComposedModel,    *)
(* for every composition of any submodels: values and total derivatives    *)
(* are those of the composed function.                                     *)
(***************************************************************************)
EXTENDS ComposedModel, SequenceTheorems, FiniteSetTheorems, WellFoundedInduction, TLAPS

-----------------------------------------------------------------------------
(* The resolver *)

\* A node's providers are nodes.
LEMMA ProvidersAreNodes ==
  ASSUME NEW n PROVE NodeProviders(n) \subseteq Nodes
  BY DEF NodeProviders, Providers

\* The graph, and so everything built from it, does not change.
LEMMA GraphKept ==
  ASSUME graph' = graph, NEW n
  PROVE  NodeProviders(n)' = NodeProviders(n)
  BY DEF NodeProviders, Providers, Consumed, MayFeed, Priority

LEMMA AcyclicKept ==
  ASSUME graph' = graph PROVE Acyclic' = Acyclic
  BY DEF Acyclic, NodeProviders, Providers, Consumed, MayFeed, Priority

\* The frame on top of the stack.
LEMMA TopOfStack ==
  ASSUME TypeOK, stack # <<>>
  PROVE  /\ Len(stack) \in Nat \ {0}
         /\ DOMAIN stack = 1 .. Len(stack)
         /\ Top = stack[Len(stack)]
         /\ Top \in [node: Nodes, todo: SUBSET Nodes]
  <1>1. stack \in Seq([node: Nodes, todo: SUBSET Nodes])
    BY DEF TypeOK
  <1>2. Len(stack) \in Nat \ {0}
    BY <1>1, EmptySeq
  <1>3. Len(stack) \in 1 .. Len(stack)
    BY <1>2
  <1>4. stack[Len(stack)] \in [node: Nodes, todo: SUBSET Nodes]
    BY <1>1, <1>3, ElementOfSeq
  <1> QED
    BY <1>1, <1>2, <1>4, LenProperties DEF Top

\* A stack of visits that leads back into itself is a cycle.
LEMMA StackedCycle ==
  ASSUME TypeOK, VisitingIsStacked, stack # <<>>,
         NEW d \in Top.todo, status[d] = 1
  PROVE  ~Acyclic
  <1> DEFINE S == {stack[j].node : j \in DOMAIN stack}
  <1>1. PICK k \in DOMAIN stack : stack[k].node = d
    <2>1. d \in Nodes
      BY TopOfStack
    <2> QED
      BY <2>1 DEF VisitingIsStacked
  <1>2. S \in (SUBSET Nodes) \ {{}}
    <2>1. ASSUME NEW j \in DOMAIN stack PROVE stack[j].node \in Nodes
      <3>1. stack[j] \in [node: Nodes, todo: SUBSET Nodes]
        BY TopOfStack, ElementOfSeq DEF TypeOK
      <3> QED
        BY <3>1
    <2>2. S \subseteq Nodes
      BY <2>1
    <2>3. d \in S
      BY <1>1
    <2> QED
      BY <2>2, <2>3
  <1>3. ASSUME NEW n \in S PROVE NodeProviders(n) \cap S # {}
    <2>1. PICK j \in DOMAIN stack : n = stack[j].node
      OBVIOUS
    <2>2. CASE j < Len(stack)
      <3>1. j + 1 \in DOMAIN stack
        BY <2>1, <2>2 DEF TypeOK
      <3>2. stack[j + 1].node \in NodeProviders(n)
        BY <2>1, <2>2 DEF VisitingIsStacked
      <3> QED
        BY <3>1, <3>2
    <2>3. CASE j = Len(stack)
      <3>1. d \in NodeProviders(n)
        BY <2>1, <2>3 DEF VisitingIsStacked, Top
      <3> QED
        BY <1>1, <3>1
    <2> QED
      BY <2>1, <2>2, <2>3 DEF TypeOK
  <1> QED
    BY <1>2, <1>3 DEF Acyclic

\* The invariant holds before resolve() is called.
LEMMA InitInvariant == Init => SearchInv
  BY ResolverAssumption DEF Init, SearchInv, TypeOK, VisitedIsResolved, VisitingIsStacked, GraphType

\* An exception leaves the search as it is.
LEMMA ThrowKeeps ==
  ASSUME SearchInv, NEW e \in {"ambiguous", "unprovided", "cyclic"}, Throw(e),
         e = "cyclic" => ~Acyclic
  PROVE  SearchInv'
  <1>1. ASSUME NEW n PROVE NodeProviders(n)' = NodeProviders(n)
    BY GraphKept DEF Throw
  <1>2. TypeOK'
    BY DEF SearchInv, TypeOK, Throw
  <1>3. VisitedIsResolved' /\ VisitingIsStacked'
    BY <1>1 DEF SearchInv, VisitedIsResolved, VisitingIsStacked, Throw
  <1>4. phase' # "resolved" /\ (phase' = "cyclic" => ~Acyclic')
    BY AcyclicKept DEF Throw
  <1> QED
    BY <1>2, <1>3, <1>4 DEF SearchInv

\* Entering resolve(n) from the loop over the end nodes.
LEMMA VisitEndKeeps ==
  ASSUME SearchInv, NEW n \in Nodes, VisitEnd(n)
  PROVE  SearchInv'
  <1>1. ASSUME NEW m PROVE NodeProviders(m)' = NodeProviders(m)
    BY GraphKept DEF VisitEnd, Call
  <1>2. phase' = "visit"
    BY DEF VisitEnd, Call
  <1>3. CASE status[n] = 0
    <2>1. stack' = <<Frame(n)>> /\ status' = [status EXCEPT ![n] = 1] /\ resolution' = resolution
      BY <1>3 DEF VisitEnd, Call
    <2>2. Frame(n) \in [node: Nodes, todo: SUBSET Nodes]
      BY ProvidersAreNodes DEF Frame
    <2>3. TypeOK'
      BY <1>3, <2>1, <2>2 DEF SearchInv, TypeOK, VisitEnd, Call
    <2>4. VisitedIsResolved'
      BY <1>1, <1>3, <2>1 DEF SearchInv, TypeOK, VisitedIsResolved
    <2>5. VisitingIsStacked'
      BY <1>1, <1>3, <2>1 DEF SearchInv, TypeOK, VisitingIsStacked, Frame, VisitEnd
    <2> QED
      BY <1>2, <2>3, <2>4, <2>5 DEF SearchInv
  <1>4. CASE status[n] # 0
    <2>1. UNCHANGED <<graph, phase, stack, status, resolution>>
      BY <1>4 DEF VisitEnd
    <2>2. TypeOK'
      BY <2>1 DEF SearchInv, TypeOK, VisitEnd
    <2>3. VisitedIsResolved' /\ VisitingIsStacked'
      BY <1>1, <2>1 DEF SearchInv, VisitedIsResolved, VisitingIsStacked
    <2> QED
      BY <1>2, <2>2, <2>3 DEF SearchInv
  <1> QED
    BY <1>3, <1>4

\* The stack without its top frame.
LEMMA BelowTop ==
  ASSUME TypeOK, stack # <<>>
  PROVE  /\ Below \in Seq([node: Nodes, todo: SUBSET Nodes])
         /\ Len(Below) = Len(stack) - 1
         /\ \A k \in 1 .. Len(stack) - 1 : Below[k] = stack[k]
  <1> DEFINE F == [node: Nodes, todo: SUBSET Nodes]
             n == Len(stack) - 1
  <1>1. stack \in Seq(F)
    BY DEF TypeOK
  <1> HIDE DEF F
  <1>2. n \in Nat
    BY TopOfStack
  <1>3. \A i \in 1 .. n : stack[i] \in F
    BY <1>1, TopOfStack
  <1> HIDE DEF n
  <1>4. /\ SubSeq(stack, 1, n) \in Seq(F)
        /\ Len(SubSeq(stack, 1, n)) = IF 1 <= n THEN n - 1 + 1 ELSE 0
        /\ \A i \in 1 .. n - 1 + 1 : SubSeq(stack, 1, n)[i] = stack[1 + i - 1]
    <2>1. n \in Int /\ 1 \in Int
      BY <1>2
    <2> QED
      BY <1>3, <2>1, SubSeqProperties
  <1>5. /\ Len(SubSeq(stack, 1, n)) = n
        /\ \A i \in 1 .. n : SubSeq(stack, 1, n)[i] = stack[i]
    BY <1>2, <1>4
  <1> QED
    BY <1>4, <1>5 DEF Below, n, F

\* The stack after the loop over the providers has come to d.
LEMMA RestOfStack ==
  ASSUME TypeOK, stack # <<>>, NEW d, NEW rest,
         rest = Append(Below, [Top EXCEPT !.todo = @ \ {d}])
  PROVE  /\ rest \in Seq([node: Nodes, todo: SUBSET Nodes])
         /\ Len(rest) = Len(stack)
         /\ \A k \in 1 .. Len(stack) : rest[k].node = stack[k].node
         /\ \A k \in 1 .. Len(stack) : k < Len(stack) => rest[k] = stack[k]
         /\ rest[Len(stack)].todo = stack[Len(stack)].todo \ {d}
  <1>1. Len(stack) \in Nat \ {0} /\ Top \in [node: Nodes, todo: SUBSET Nodes]
    BY TopOfStack
  <1> DEFINE frame == [Top EXCEPT !.todo = @ \ {d}]
  <1>2. /\ frame \in [node: Nodes, todo: SUBSET Nodes]
        /\ frame.node = Top.node /\ frame.todo = Top.todo \ {d}
    BY <1>1
  <1>3. /\ Below \in Seq([node: Nodes, todo: SUBSET Nodes])
        /\ Len(Below) = Len(stack) - 1
        /\ \A k \in 1 .. Len(stack) - 1 : Below[k] = stack[k]
    BY BelowTop
  <1> HIDE DEF frame
  <1>4. /\ rest \in Seq([node: Nodes, todo: SUBSET Nodes])
        /\ Len(rest) = Len(stack)
        /\ \A k \in 1 .. Len(stack) - 1 : rest[k] = Below[k]
        /\ rest[Len(stack)] = frame
    <2>1. rest = Append(Below, frame)
      BY DEF frame
    <2> QED
      BY <1>1, <1>2, <1>3, <2>1, AppendProperties
  <1>5. Top = stack[Len(stack)]
    BY DEF Top
  <1>6. ASSUME NEW k \in 1 .. Len(stack) PROVE k < Len(stack) => rest[k] = stack[k]
    BY <1>1, <1>3, <1>4
  <1>7. rest[Len(stack)].node = stack[Len(stack)].node
    BY <1>2, <1>4, <1>5
  <1>8. ASSUME NEW k \in 1 .. Len(stack) PROVE rest[k].node = stack[k].node
    <2>1. k < Len(stack) \/ k = Len(stack)
      BY <1>1
    <2> QED
      BY <1>6, <1>7, <2>1
  <1>9. rest[Len(stack)].todo = stack[Len(stack)].todo \ {d}
    BY <1>2, <1>4, <1>5
  <1> QED
    BY <1>4, <1>6, <1>8, <1>9

\* The loop over the providers of a node skips a visited one, enters one that
\* has not been visited, and throws at one that is being visited.
LEMMA VisitProviderKeeps ==
  ASSUME SearchInv, NEW d \in Nodes, VisitProvider(d)
  PROVE  SearchInv'
  <1> DEFINE rest == Append(Below, [Top EXCEPT !.todo = @ \ {d}])
             L == Len(stack)
  <1>1. stack # <<>> /\ d \in Top.todo /\ phase = "visit" /\ TypeOK /\ VisitedIsResolved /\ VisitingIsStacked
    BY DEF VisitProvider, SearchInv
  <1>2. L \in Nat \ {0} /\ DOMAIN stack = 1 .. L /\ Top = stack[L]
    BY <1>1, TopOfStack
  <1>3. /\ rest \in Seq([node: Nodes, todo: SUBSET Nodes])
        /\ Len(rest) = L
        /\ \A k \in 1 .. L : rest[k].node = stack[k].node
        /\ \A k \in 1 .. L : k < L => rest[k] = stack[k]
        /\ rest[L].todo = stack[L].todo \ {d}
    BY <1>1, RestOfStack
  <1>4. d \in NodeProviders(stack[L].node)
    BY <1>1, <1>2 DEF VisitingIsStacked
  <1> HIDE DEF rest
  <1>5. CASE status[d] = 0 /\ stack' = Append(rest, Frame(d)) /\ Call(d) /\ UNCHANGED ends
    <2>1. /\ graph' = graph /\ phase' = "visit" /\ ends' = ends /\ resolution' = resolution
          /\ status' = [status EXCEPT ![d] = 1]
      BY <1>1, <1>5 DEF Call
    <2>2. Frame(d) \in [node: Nodes, todo: SUBSET Nodes]
      BY ProvidersAreNodes DEF Frame
    <2>3. /\ stack' \in Seq([node: Nodes, todo: SUBSET Nodes])
          /\ Len(stack') = L + 1
          /\ \A k \in 1 .. L : stack'[k] = rest[k]
          /\ stack'[L + 1] = Frame(d)
      BY <1>3, <1>5, <2>2, AppendProperties
    <2>4. DOMAIN stack' = 1 .. L + 1
      BY <2>3, LenProperties
    <2>5. TypeOK'
      BY <1>1, <2>1, <2>3 DEF TypeOK
    <2>6. ASSUME NEW m PROVE NodeProviders(m)' = NodeProviders(m)
      BY <2>1, GraphKept
    <2>7. VisitedIsResolved'
      BY <1>1, <1>5, <2>1, <2>6 DEF TypeOK, VisitedIsResolved
    <2>8. VisitingIsStacked'
      <3>1. Frame(d).node = d /\ Frame(d).todo = NodeProviders(d)
        BY DEF Frame
      <3>2. \A k \in 1 .. L : stack'[k].node = stack[k].node
        BY <1>3, <2>3
      <3>3. \A k \in 1 .. L : stack[k].node # d
        BY <1>1, <1>2, <1>5 DEF VisitingIsStacked
      <3>4. \A k \in DOMAIN stack' : status'[stack'[k].node] = 1
        BY <1>1, <1>2, <2>1, <2>3, <2>4, <3>1, <3>2, <3>3 DEF VisitingIsStacked, TypeOK
      <3>5. \A k, l \in DOMAIN stack' : stack'[k].node = stack'[l].node => k = l
        BY <1>1, <1>2, <2>3, <2>4, <3>1, <3>2, <3>3 DEF VisitingIsStacked
      <3>6. \A n \in Nodes : status'[n] = 1 => \E k \in DOMAIN stack' : stack'[k].node = n
        <4>1. d = stack'[L + 1].node /\ L + 1 \in DOMAIN stack'
          BY <1>2, <2>3, <2>4, <3>1
        <4>2. ASSUME NEW n \in Nodes, status'[n] = 1, n # d
              PROVE  \E k \in DOMAIN stack' : stack'[k].node = n
          <5>1. status[n] = 1
            BY <1>1, <2>1, <4>2 DEF TypeOK
          <5>2. PICK k \in 1 .. L : stack[k].node = n
            BY <1>1, <1>2, <5>1 DEF VisitingIsStacked
          <5> QED
            BY <1>2, <2>4, <3>2, <5>2
        <4> QED
          BY <4>1, <4>2
      <3>7. \A k \in DOMAIN stack' : stack'[k].todo \subseteq NodeProviders(stack'[k].node)
        <4>1. ASSUME NEW k \in 1 .. L PROVE stack'[k].todo \subseteq stack[k].todo
          BY <1>2, <1>3, <2>3
        <4> QED
          BY <1>1, <1>2, <2>3, <2>4, <3>1, <3>2, <4>1 DEF VisitingIsStacked
      <3>8. ASSUME NEW k \in DOMAIN stack', NEW p \in NodeProviders(stack'[k].node) \ stack'[k].todo
            PROVE  \/ status'[p] = 2
                   \/ k < Len(stack') /\ p = stack'[k + 1].node
        <4>1. k # L + 1
          BY <2>3, <3>1, <3>8
        <4>2. k \in 1 .. L
          BY <1>2, <2>4, <4>1
        <4>3. CASE k < L
          <5>1. p \in NodeProviders(stack[k].node) \ stack[k].todo
            <6>1. stack'[k] = stack[k]
              BY <1>3, <2>3, <4>2, <4>3
            <6> QED
              BY <3>8, <6>1
          <5>2. status[p] = 2 \/ p = stack[k + 1].node
            BY <1>1, <1>2, <4>2, <5>1 DEF VisitingIsStacked
          <5>3. k + 1 \in 1 .. L
            BY <1>2, <4>2, <4>3
          <5>4. p \in Nodes
            BY <5>1, ProvidersAreNodes
          <5> QED
            BY <1>1, <1>2, <1>5, <2>1, <2>3, <3>2, <4>2, <4>3, <5>2, <5>3, <5>4 DEF TypeOK
        <4>4. CASE k = L
          <5>1. p = d \/ p \in NodeProviders(stack[L].node) \ stack[L].todo
            BY <1>2, <1>3, <2>3, <3>8, <4>4
          <5>2. CASE p = d
            BY <1>2, <2>3, <3>1, <4>4, <5>2
          <5>3. CASE p \in NodeProviders(stack[L].node) \ stack[L].todo
            <6>1. status[p] = 2
              BY <1>1, <1>2, <5>3 DEF VisitingIsStacked
            <6>2. p \in Nodes
              BY <5>3, ProvidersAreNodes
            <6> QED
              BY <1>1, <1>5, <2>1, <6>1, <6>2 DEF TypeOK
          <5> QED
            BY <5>1, <5>2, <5>3
        <4> QED
          BY <1>2, <4>2, <4>3, <4>4
      <3>9. ASSUME NEW k \in DOMAIN stack', k < Len(stack')
            PROVE  stack'[k + 1].node \in NodeProviders(stack'[k].node)
        <4>1. k \in 1 .. L
          BY <1>2, <2>3, <2>4, <3>9
        <4>2. CASE k < L
          <5>1. k + 1 \in 1 .. L
            BY <1>2, <4>1, <4>2
          <5> QED
            BY <1>1, <1>2, <3>2, <4>1, <4>2, <5>1 DEF VisitingIsStacked
        <4>3. CASE k = L
          BY <1>2, <1>4, <2>3, <3>1, <3>2, <4>3
        <4> QED
          BY <1>2, <4>1, <4>2, <4>3
      <3> QED
        BY <2>6, <3>4, <3>5, <3>6, <3>7, <3>8, <3>9 DEF VisitingIsStacked
    <2> QED
      BY <2>1, <2>5, <2>7, <2>8 DEF SearchInv
  <1>6. CASE status[d] = 1 /\ Throw("cyclic")
    BY <1>1, <1>6, StackedCycle, ThrowKeeps
  <1>7. CASE status[d] = 2 /\ stack' = rest /\ UNCHANGED <<graph, phase, ends, status, resolution>>
    <2>1. stack' \in Seq([node: Nodes, todo: SUBSET Nodes]) /\ Len(stack') = L /\ DOMAIN stack' = 1 .. L
      BY <1>3, <1>7, LenProperties
    <2>2. TypeOK'
      BY <1>1, <1>7, <2>1 DEF TypeOK
    <2>3. ASSUME NEW m PROVE NodeProviders(m)' = NodeProviders(m)
      BY <1>7, GraphKept
    <2>4. VisitedIsResolved'
      BY <1>1, <1>7, <2>3 DEF VisitedIsResolved
    <2>5. VisitingIsStacked'
      <3>1. \A k \in 1 .. L : stack'[k].node = stack[k].node
        BY <1>3, <1>7
      <3>2. /\ \A k \in DOMAIN stack' : status'[stack'[k].node] = 1
            /\ \A k, l \in DOMAIN stack' : stack'[k].node = stack'[l].node => k = l
            /\ \A n \in Nodes : status'[n] = 1 => \E k \in DOMAIN stack' : stack'[k].node = n
        BY <1>1, <1>2, <1>7, <2>1, <3>1 DEF VisitingIsStacked
      <3>3. \A k \in DOMAIN stack' : stack'[k].todo \subseteq NodeProviders(stack'[k].node)
        <4>1. ASSUME NEW k \in 1 .. L PROVE stack'[k].todo \subseteq stack[k].todo
          BY <1>2, <1>3, <1>7
        <4> QED
          BY <1>1, <1>2, <2>1, <3>1, <4>1 DEF VisitingIsStacked
      <3>4. ASSUME NEW k \in DOMAIN stack', NEW p \in NodeProviders(stack'[k].node) \ stack'[k].todo
            PROVE  \/ status'[p] = 2
                   \/ k < Len(stack') /\ p = stack'[k + 1].node
        <4>1. k \in 1 .. L
          BY <2>1
        <4>2. p = d \/ p \in NodeProviders(stack[k].node) \ stack[k].todo
          BY <1>2, <1>3, <1>7, <3>1, <3>4, <4>1
        <4>3. CASE p = d
          BY <1>7, <4>3
        <4>4. CASE p \in NodeProviders(stack[k].node) \ stack[k].todo
          <5>1. status[p] = 2 \/ (k < L /\ p = stack[k + 1].node)
            BY <1>1, <1>2, <4>1, <4>4 DEF VisitingIsStacked
          <5>2. k < L => k + 1 \in 1 .. L
            BY <1>2, <4>1
          <5> QED
            BY <1>7, <2>1, <3>1, <5>1, <5>2
        <4> QED
          BY <4>2, <4>3, <4>4
      <3>5. ASSUME NEW k \in DOMAIN stack', k < Len(stack')
            PROVE  stack'[k + 1].node \in NodeProviders(stack'[k].node)
        <4>1. k \in 1 .. L /\ k + 1 \in 1 .. L
          BY <1>2, <2>1, <3>5
        <4> QED
          BY <1>1, <1>2, <2>1, <3>1, <3>5, <4>1 DEF VisitingIsStacked
      <3> QED
        BY <2>3, <3>2, <3>3, <3>4, <3>5 DEF VisitingIsStacked
    <2> QED
      BY <1>1, <1>7, <2>2, <2>4, <2>5 DEF SearchInv
  <1> QED
    BY <1>5, <1>6, <1>7 DEF VisitProvider, rest

\* The node on top of the stack comes next in the order, after its providers.
LEMMA VisitedKeeps ==
  ASSUME SearchInv, Visited
  PROVE  SearchInv'
  <1> DEFINE L == Len(stack)
             R == Len(resolution)
             n == Top.node
  <1>1. /\ stack # <<>> /\ Top.todo = {} /\ phase = "visit"
        /\ TypeOK /\ VisitedIsResolved /\ VisitingIsStacked
    BY DEF Visited, SearchInv
  <1>2. L \in Nat \ {0} /\ DOMAIN stack = 1 .. L /\ Top = stack[L] /\ n \in Nodes
    BY <1>1, TopOfStack
  <1>3. /\ graph' = graph /\ phase' = phase /\ ends' = ends
        /\ resolution' = Append(resolution, n)
        /\ status' = [status EXCEPT ![n] = 2] /\ stack' = Below
    BY DEF Visited
  <1>4. /\ Below \in Seq([node: Nodes, todo: SUBSET Nodes])
        /\ Len(Below) = L - 1
        /\ \A k \in 1 .. L - 1 : Below[k] = stack[k]
    BY <1>1, BelowTop
  <1>5. DOMAIN stack' = 1 .. L - 1
    BY <1>3, <1>4, LenProperties
  <1>6. /\ R \in Nat /\ DOMAIN resolution = 1 .. R
        /\ resolution' \in Seq(Nodes) /\ DOMAIN resolution' = 1 .. R + 1
        /\ \A k \in 1 .. R : resolution'[k] = resolution[k]
        /\ resolution'[R + 1] = n
    <2>1. resolution \in Seq(Nodes)
      BY <1>1 DEF TypeOK
    <2>2. R \in Nat /\ DOMAIN resolution = 1 .. R
      BY <2>1, LenProperties
    <2>3. /\ resolution' \in Seq(Nodes) /\ Len(resolution') = R + 1
          /\ \A k \in 1 .. R : resolution'[k] = resolution[k]
          /\ resolution'[R + 1] = n
      BY <1>2, <1>3, <2>1, AppendProperties
    <2>4. DOMAIN resolution' = 1 .. R + 1
      BY <2>3, LenProperties
    <2> QED
      BY <2>2, <2>3, <2>4
  <1>7. ASSUME NEW m PROVE NodeProviders(m)' = NodeProviders(m)
    BY <1>3, GraphKept
  <1>8. status[n] = 1 /\ \A k \in 1 .. L - 1 : stack[k].node # n
    BY <1>1, <1>2 DEF VisitingIsStacked
  <1>9. TypeOK'
    BY <1>1, <1>2, <1>3, <1>4, <1>6 DEF TypeOK
  <1> HIDE DEF n, R
  <1>10. VisitedIsResolved'
    <2>1. \A k \in 1 .. R : resolution[k] \in Nodes /\ status[resolution[k]] = 2
      BY <1>1, <1>6, ElementOfSeq DEF TypeOK, VisitedIsResolved, R
    <2>2. \A k \in DOMAIN resolution' : status'[resolution'[k]] = 2
      BY <1>1, <1>2, <1>3, <1>6, <2>1 DEF TypeOK
    <2>3. \A m \in Nodes : status'[m] = 2 => \E k \in DOMAIN resolution' : resolution'[k] = m
      <3>1. R + 1 \in 1 .. R + 1
        BY <1>6
      <3>2. ASSUME NEW m \in Nodes, status'[m] = 2, m # n
            PROVE  \E k \in DOMAIN resolution' : resolution'[k] = m
        <4>1. status[m] = 2
          BY <1>1, <1>3, <3>2 DEF TypeOK
        <4>2. PICK k \in 1 .. R : resolution[k] = m
          BY <1>1, <1>6, <4>1 DEF VisitedIsResolved
        <4> QED
          BY <1>6, <4>2
      <3> QED
        BY <1>6, <3>1, <3>2
    <2>4. \A k, l \in DOMAIN resolution' : resolution'[k] = resolution'[l] => k = l
      <3>1. \A k \in 1 .. R : resolution[k] # n
        BY <1>8, <2>1
      <3> QED
        BY <1>1, <1>6, <3>1 DEF VisitedIsResolved
    <2>5. ASSUME NEW k \in DOMAIN resolution', NEW p \in NodeProviders(resolution'[k])
          PROVE  \E j \in 1 .. k - 1 : resolution'[j] = p
      <3>1. CASE k \in 1 .. R
        <4>1. PICK j \in 1 .. k - 1 : resolution[j] = p
          BY <1>1, <1>6, <2>5, <3>1 DEF VisitedIsResolved
        <4>2. j \in 1 .. R
          BY <1>6, <3>1, <4>1
        <4> QED
          BY <1>6, <4>1, <4>2
      <3>2. CASE k = R + 1
        <4>1. p \in NodeProviders(stack[L].node) \ stack[L].todo
          BY <1>1, <1>2, <1>6, <2>5, <3>2 DEF n
        <4>2. status[p] = 2
          BY <1>1, <1>2, <4>1 DEF VisitingIsStacked
        <4>3. p \in Nodes
          BY <4>1, ProvidersAreNodes
        <4>4. PICK j \in 1 .. R : resolution[j] = p
          BY <1>1, <1>6, <4>2, <4>3 DEF VisitedIsResolved
        <4> QED
          BY <1>6, <3>2, <4>4
      <3> QED
        BY <1>6, <3>1, <3>2
    <2> QED
      BY <1>7, <2>2, <2>3, <2>4, <2>5 DEF VisitedIsResolved
  <1>11. VisitingIsStacked'
    <2>1. \A k \in 1 .. L - 1 : stack'[k] = stack[k] /\ k \in 1 .. L
      BY <1>2, <1>3, <1>4
    <2>2. \A k \in 1 .. L - 1 : stack[k].node \in Nodes
      <3>1. ASSUME NEW k \in 1 .. L - 1 PROVE stack[k] \in [node: Nodes, todo: SUBSET Nodes]
        BY <1>1, <2>1, ElementOfSeq DEF TypeOK
      <3> QED
        BY <3>1
    <2>3. \A k \in DOMAIN stack' : status'[stack'[k].node] = 1
      BY <1>1, <1>2, <1>3, <1>5, <1>8, <2>1, <2>2 DEF TypeOK, VisitingIsStacked
    <2>4. \A k, l \in DOMAIN stack' : stack'[k].node = stack'[l].node => k = l
      BY <1>1, <1>2, <1>5, <2>1 DEF VisitingIsStacked
    <2>5. ASSUME NEW m \in Nodes, status'[m] = 1
          PROVE  \E k \in DOMAIN stack' : stack'[k].node = m
      <3>1. m # n /\ status[m] = 1
        BY <1>1, <1>2, <1>3, <2>5 DEF TypeOK
      <3>2. PICK k \in 1 .. L : stack[k].node = m
        BY <1>1, <1>2, <3>1 DEF VisitingIsStacked
      <3>3. k # L
        BY <1>2, <3>1, <3>2 DEF n
      <3>4. k \in 1 .. L - 1
        <4>1. L \in Nat
          BY <1>2
        <4> QED
          BY <3>3, <4>1
      <3> QED
        BY <1>5, <2>1, <3>2, <3>4
    <2>6. \A k \in DOMAIN stack' : stack'[k].todo \subseteq NodeProviders(stack'[k].node)
      BY <1>1, <1>2, <1>5, <2>1 DEF VisitingIsStacked
    <2>7. ASSUME NEW k \in DOMAIN stack', NEW p \in NodeProviders(stack'[k].node) \ stack'[k].todo
          PROVE  \/ status'[p] = 2
                 \/ k < Len(stack') /\ p = stack'[k + 1].node
      <3>1. k \in 1 .. L - 1 /\ stack'[k] = stack[k]
        BY <1>5, <2>1
      <3>2. p \in NodeProviders(stack[k].node) \ stack[k].todo /\ p \in Nodes
        BY <2>7, <3>1, ProvidersAreNodes
      <3>3. status[p] = 2 \/ p = stack[k + 1].node
        BY <1>1, <1>2, <2>1, <3>1, <3>2 DEF VisitingIsStacked
      <3>4. CASE status[p] = 2
        BY <1>1, <1>2, <1>3, <3>2, <3>4 DEF TypeOK
      <3>5. CASE p = stack[k + 1].node /\ k + 1 = L
        BY <1>1, <1>2, <1>3, <3>2, <3>5 DEF TypeOK, n
      <3>6. CASE p = stack[k + 1].node /\ k + 1 # L
        <4>1. k + 1 \in 1 .. L - 1 /\ k < L - 1
          BY <1>2, <3>1, <3>6
        <4> QED
          BY <1>3, <1>4, <2>1, <3>6, <4>1
      <3> QED
        BY <3>3, <3>4, <3>5, <3>6
    <2>8. ASSUME NEW k \in DOMAIN stack', k < Len(stack')
          PROVE  stack'[k + 1].node \in NodeProviders(stack'[k].node)
      <3>1. k \in 1 .. L - 1 /\ k + 1 \in 1 .. L - 1 /\ k < L
        BY <1>2, <1>3, <1>4, <1>5, <2>8
      <3> QED
        BY <1>1, <1>2, <2>1, <3>1 DEF VisitingIsStacked
    <2> QED
      BY <1>7, <2>3, <2>4, <2>5, <2>6, <2>7, <2>8 DEF VisitingIsStacked
  <1> QED
    BY <1>1, <1>3, <1>9, <1>10, <1>11 DEF SearchInv

\* Building the graph, and the check that every node is in the order.
LEMMA BuildKeeps ==
  ASSUME SearchInv, Build
  PROVE  SearchInv'
  <1>1. ASSUME NEW m PROVE NodeProviders(m)' = NodeProviders(m)
    BY GraphKept DEF Build
  <1>2. EndNodes \subseteq Nodes
    BY ProvidersAreNodes DEF EndNodes
  <1>3. TypeOK' /\ phase' = "visit"
    BY <1>2 DEF SearchInv, TypeOK, Build
  <1>4. VisitedIsResolved' /\ VisitingIsStacked'
    BY <1>1 DEF SearchInv, VisitedIsResolved, VisitingIsStacked, Build
  <1> QED
    BY <1>3, <1>4 DEF SearchInv

LEMMA ResolveKeeps ==
  ASSUME SearchInv, Resolve
  PROVE  SearchInv'
  <1>1. ASSUME NEW m PROVE NodeProviders(m)' = NodeProviders(m)
    BY GraphKept DEF Resolve
  <1>2. TypeOK' /\ phase' # "cyclic"
    BY DEF SearchInv, TypeOK, Resolve
  <1>3. VisitedIsResolved' /\ VisitingIsStacked'
    BY <1>1 DEF SearchInv, VisitedIsResolved, VisitingIsStacked, Resolve
  <1>4. phase' = "resolved" => \A n \in Nodes : status'[n] = 2
    BY DEF SearchInv, VisitedIsResolved, Resolve
  <1> QED
    BY <1>2, <1>3, <1>4 DEF SearchInv

-----------------------------------------------------------------------------
(* The nodes that the search from the end nodes does not come to *)

\* A node that is not an end node provides for another node.
LEMMA NoEndFeeds ==
  ASSUME NEW n \in Nodes \ EndNodes
  PROVE  \E c \in Nodes : n \in NodeProviders(c) /\ n # c
  <1>1. PICK i \in graph.provides[n] : Consumers(n, i) # {}
    BY DEF EndNodes
  <1>2. PICK c \in Nodes : i \in graph.consumes[c] /\ MayFeed(n, c)
    BY <1>1 DEF Consumers
  <1>3. i \in Consumed(c) /\ n \in Providers(c, i)
    BY <1>1, <1>2, ResolverAssumption DEF Consumed, Providers
  <1> QED
    BY <1>2, <1>3 DEF NodeProviders, MayFeed

\* A set of nodes each of which provides for one of them has a cycle: of a smallest
\* such set, a node that none provides for could be left out.
LEMMA FeedersCycle ==
  ASSUME NEW W \in SUBSET Nodes, W # {},
         \A n \in W : \E c \in W : n \in NodeProviders(c)
  PROVE  ~Acyclic
  <1> SUFFICES ASSUME Acyclic PROVE FALSE
    OBVIOUS
  <1> DEFINE Feeding == {Q \in SUBSET Nodes : Q # {} /\ \A n \in Q : \E c \in Q : n \in NodeProviders(c)}
             R == StrictSubsetOrdering(Nodes)
  <1>1. Feeding \subseteq FiniteSubsetsOf(Nodes) /\ IsWellFoundedOn(R, FiniteSubsetsOf(Nodes))
    BY ResolverAssumption, FS_FiniteSubsetsOfFinite, FS_StrictSubsetOrderingWellFounded
  <1>2. W \in Feeding
    OBVIOUS
  <1>3. PICK Q \in Feeding : \A P \in Feeding : ~(<<P, Q>> \in R)
    <2> HIDE DEF Feeding, R
    <2> QED
      BY <1>1, <1>2, WFMin
  <1>4. PICK n \in Q : NodeProviders(n) \cap Q = {}
    BY <1>3 DEF Acyclic
  <1>5. Q \ {n} \notin Feeding
    BY <1>3, <1>4 DEF StrictSubsetOrdering
  <1>6. ASSUME NEW m \in Q PROVE \E c \in Q \ {n} : m \in NodeProviders(c)
    <2>1. PICK c \in Q : m \in NodeProviders(c)
      BY <1>3
    <2>2. c # n
      BY <1>4, <2>1
    <2> QED
      BY <2>1, <2>2
  <1>7. Q \ {n} # {}
    BY <1>4, <1>6
  <1> QED
    BY <1>3, <1>5, <1>6, <1>7

\* The exception about a missing node is one about a cycle.
LEMMA MissingIsCyclic ==
  ASSUME SearchInv, EndsVisited, Resolve, phase' = "missing"
  PROVE  ~Acyclic
  <1> DEFINE W == {n \in Nodes : status[n] # 2}
  <1>1. TypeOK /\ VisitedIsResolved /\ VisitingIsStacked /\ phase = "visit" /\ stack = <<>> /\ ends = {}
    BY DEF SearchInv, Resolve
  <1>2. \A n \in Nodes : status[n] # 1
    BY <1>1 DEF VisitingIsStacked
  <1>3. \A n \in EndNodes : status[n] # 0
    BY <1>1 DEF EndsVisited
  <1>4. W # {}
    <2>1. ~ \A n \in Nodes : \E k \in DOMAIN resolution : resolution[k] = n
      BY DEF Resolve
    <2> QED
      BY <1>1, <2>1 DEF VisitedIsResolved
  <1>5. ASSUME NEW n \in W PROVE \E c \in W : n \in NodeProviders(c)
    <2>1. status[n] = 0
      BY <1>1, <1>2 DEF TypeOK
    <2>2. PICK c \in Nodes : n \in NodeProviders(c)
      BY <1>3, <2>1, NoEndFeeds
    <2>3. ASSUME status[c] = 2 PROVE FALSE
      <3>1. PICK k \in DOMAIN resolution : resolution[k] = c
        BY <1>1, <2>3 DEF VisitedIsResolved
      <3>2. PICK j \in 1 .. k - 1 : resolution[j] = n
        BY <1>1, <2>2, <3>1 DEF VisitedIsResolved
      <3>3. j \in DOMAIN resolution
        BY <1>1, <3>1, <3>2, LenProperties DEF TypeOK
      <3> QED
        BY <1>1, <3>2, <3>3 DEF VisitedIsResolved
    <2> QED
      BY <2>2, <2>3
  <1> QED
    BY <1>4, <1>5, FeedersCycle

LEMMA EndNodesKept ==
  ASSUME graph' = graph PROVE EndNodes' = EndNodes
  BY DEF EndNodes, Consumers, NodeProviders, Providers, Consumed, MayFeed, Priority

\* The loop over the end nodes leaves none out.
LEMMA EndsVisitedKept ==
  ASSUME SearchInv, EndsVisited, [Next]_vars
  PROVE  EndsVisited'
  <1>1. TypeOK /\ EndNodes \subseteq Nodes
    BY ProvidersAreNodes DEF SearchInv, EndNodes
  <1>2. graph' = graph
    BY DEF Next, BuildThrow, Throw, Build, VisitEnd, VisitProvider, Call, Visited, Resolve, vars
  <1>3. CASE Build
    BY <1>2, <1>3, EndNodesKept DEF Build, EndsVisited
  <1>4. ASSUME NEW n \in Nodes, VisitEnd(n) PROVE EndsVisited'
    <2>1. phase = "visit" /\ ends' = ends \ {n}
      BY <1>4 DEF VisitEnd
    <2>2. status'[n] # 0 /\ \A m \in Nodes : status[m] # 0 => status'[m] # 0
      BY <1>1, <1>4 DEF VisitEnd, Call, TypeOK
    <2> QED
      BY <1>1, <1>2, <2>1, <2>2, EndNodesKept DEF EndsVisited
  <1>5. ASSUME NEW d \in Nodes, VisitProvider(d) PROVE EndsVisited'
    <2>1. phase = "visit" /\ ends' = ends /\ \A m \in Nodes : status[m] # 0 => status'[m] # 0
      BY <1>1, <1>5 DEF VisitProvider, Call, Throw, TypeOK
    <2> QED
      BY <1>1, <1>2, <2>1, EndNodesKept DEF EndsVisited
  <1>6. CASE Visited
    <2>1. phase = "visit" /\ ends' = ends /\ \A m \in Nodes : status[m] # 0 => status'[m] # 0
      BY <1>1, <1>6 DEF Visited, TypeOK
    <2> QED
      BY <1>1, <1>2, <2>1, EndNodesKept DEF EndsVisited
  <1>7. CASE BuildThrow \/ Resolve
    BY <1>7 DEF BuildThrow, Throw, Resolve, EndsVisited
  <1>8. CASE UNCHANGED vars
    BY <1>8, EndNodesKept DEF vars, EndsVisited
  <1> QED
    BY <1>3, <1>4, <1>5, <1>6, <1>7, <1>8 DEF Next

-----------------------------------------------------------------------------
\* Every step of the search keeps its invariant.
LEMMA StepInvariant ==
  ASSUME IInv, [Next]_vars
  PROVE  IInv'
  <1>1. SearchInv /\ EndsVisited
    BY DEF IInv
  <1>2. EndsVisited'
    BY <1>1, EndsVisitedKept
  <1>3. graph' = graph
    BY DEF Next, BuildThrow, Throw, Build, VisitEnd, VisitProvider, Call, Visited, Resolve, vars
  <1>4. (phase' = "missing") => ~Acyclic'
    <2>1. CASE Resolve
      BY <1>1, <1>3, <2>1, MissingIsCyclic, AcyclicKept
    <2>2. CASE ~Resolve
      <3>1. phase' = "missing" => phase = "missing"
        BY <2>2 DEF Next, BuildThrow, Throw, Build, VisitEnd, VisitProvider, Call, Visited, vars
      <3> QED
        BY <1>3, <3>1, AcyclicKept DEF IInv
    <2> QED
      BY <2>1, <2>2
  <1>5. SearchInv'
    <2>1. CASE BuildThrow
      <3>1. Throw("ambiguous") \/ Throw("unprovided")
        BY <2>1 DEF BuildThrow
      <3> QED
        BY <1>1, <3>1, ThrowKeeps
    <2>2. CASE Build
      BY <1>1, <2>2, BuildKeeps
    <2>3. ASSUME NEW n \in Nodes, VisitEnd(n) PROVE SearchInv'
      BY <1>1, <2>3, VisitEndKeeps
    <2>4. ASSUME NEW d \in Nodes, VisitProvider(d) PROVE SearchInv'
      BY <1>1, <2>4, VisitProviderKeeps
    <2>5. CASE Visited
      BY <1>1, <2>5, VisitedKeeps
    <2>6. CASE Resolve
      BY <1>1, <2>6, ResolveKeeps
    <2>7. CASE UNCHANGED vars
      <3>1. ASSUME NEW m PROVE NodeProviders(m)' = NodeProviders(m)
        BY <2>7, GraphKept DEF vars
      <3>2. TypeOK' /\ VisitedIsResolved' /\ VisitingIsStacked'
        BY <1>1, <2>7, <3>1 DEF SearchInv, TypeOK, VisitedIsResolved, VisitingIsStacked, vars
      <3> QED
        BY <1>1, <2>7, <3>2, AcyclicKept DEF SearchInv, vars
    <2> QED
      BY <2>1, <2>2, <2>3, <2>4, <2>5, <2>6, <2>7 DEF Next
  <1> QED
    BY <1>2, <1>4, <1>5 DEF IInv

\* Whatever the graph and the order of the walks, the invariant of the search
\* holds: what is visited is resolved after its providers, what is being
\* visited is on the stack, an exception about a cyclic dependency or a missing
\* node is about a cycle.
THEOREM Invariance == Spec => []IInv
  <1>1. Init => IInv
    BY InitInvariant DEF Init, IInv, EndsVisited
  <1>2. IInv /\ [Next]_vars => IInv'
    BY StepInvariant
  <1> QED
    BY <1>1, <1>2, PTL DEF Spec

\* A model is evaluated once, and after every model it takes an input from: no
\* submodel of a composition ever reads the output of a later one.
THEOREM ResolvedInOrder == Spec => []ResolutionIsOrder
  <1>1. IInv => ResolutionIsOrder
    BY DEF IInv, SearchInv, VisitedIsResolved, ResolutionIsOrder
  <1> QED
    BY <1>1, Invariance, PTL

\* A non-empty set of natural numbers has a least one.
LEMMA LeastNatural ==
  ASSUME NEW T \in SUBSET Nat, T # {}
  PROVE  \E k \in T : \A l \in T : k <= l
  <1> DEFINE R == OpToRel(<, Nat)
  <1>1. IsWellFoundedOn(R, Nat)
    BY NatLessThanWellFounded
  <1>2. ASSUME NEW l \in Nat, NEW k \in Nat, <<l, k>> \notin R
        PROVE  k <= l
    <2>1. ~(l < k)
      BY <1>2 DEF OpToRel
    <2> QED
      BY <2>1
  <1> HIDE DEF R
  <1>3. \E k \in T : \A l \in T : ~(<<l, k>> \in R)
    BY <1>1, WFMin
  <1> QED
    BY <1>2, <1>3

\* A resolution is a certificate that the graph has no cycle: of the nodes of a
\* cycle one would be resolved first.
LEMMA ResolvedNoCycle ==
  ASSUME IInv, phase = "resolved"
  PROVE  Acyclic
  <1> SUFFICES ASSUME NEW S \in (SUBSET Nodes) \ {{}}
               PROVE  \E n \in S : NodeProviders(n) \cap S = {}
    BY DEF Acyclic
  <1> DEFINE T == {k \in DOMAIN resolution : resolution[k] \in S}
  <1>1. DOMAIN resolution = 1 .. Len(resolution) /\ Len(resolution) \in Nat
    BY LenProperties DEF IInv, SearchInv, TypeOK
  <1>2. T # {}
    BY DEF IInv, SearchInv, VisitedIsResolved
  <1>3. T \in SUBSET Nat
    BY <1>1
  <1>4. PICK k \in T : \A l \in T : k <= l
    BY <1>2, <1>3, LeastNatural
  <1>5. ASSUME NEW p \in NodeProviders(resolution[k]), p \in S PROVE FALSE
    <2>1. PICK j \in 1 .. k - 1 : resolution[j] = p
      BY <1>1, <1>4 DEF IInv, SearchInv, VisitedIsResolved
    <2>2. j \in T
      BY <1>1, <1>5, <2>1
    <2> QED
      BY <1>1, <1>4, <2>1, <2>2
  <1> QED
    BY <1>4, <1>5

\* The search throws exactly for the graphs with a cycle: a resolution certifies
\* that there is none, and both of its exceptions that there is one.  It never
\* says of a composition without a cycle that a model is missing or depends on
\* itself, whatever the models provide, consume and ask for in priorities.
THEOREM ThrowsForCycles == Spec => []CyclesThrow
  <1>1. IInv => CyclesThrow
    BY ResolvedNoCycle DEF IInv, SearchInv, CyclesThrow
  <1> QED
    BY <1>1, Invariance, PTL

\* The types hold, for every set of nodes and items.
THEOREM TypeCorrect == Spec => []TypeOK
  <1>1. IInv => TypeOK
    BY DEF IInv, SearchInv
  <1> QED
    BY <1>1, Invariance, PTL

-----------------------------------------------------------------------------
(* Sums over finite sets *)

\* Induction over the subsets of a finite set.
LEMMA SubsetInduction ==
  ASSUME NEW S, IsFiniteSet(S), NEW P,
         \A T \in SUBSET S : (\A x \in T : T \ {x} \in P) => T \in P
  PROVE  \A T \in SUBSET S : T \in P
<1> DEFINE Bad == {T \in SUBSET S : T \notin P}
           R == StrictSubsetOrdering(S)
<1>1. Bad \subseteq FiniteSubsetsOf(S) /\ IsWellFoundedOn(R, FiniteSubsetsOf(S))
  BY FS_FiniteSubsetsOfFinite, FS_StrictSubsetOrderingWellFounded
<1>2. SUFFICES ASSUME Bad # {} PROVE FALSE
  OBVIOUS
<1>3. PICK T \in Bad : \A U \in Bad : ~(<<U, T>> \in R)
  <2> HIDE DEF Bad, R
  <2> QED
    BY <1>1, <1>2, WFMin
<1>4. ASSUME NEW x \in T PROVE T \ {x} \in P
  <2>1. <<T \ {x}, T>> \in R
    BY <1>3 DEF StrictSubsetOrdering
  <2> QED
    BY <1>3, <2>1
<1> QED
  BY <1>3, <1>4

\* The fold behind a sum: what is left of the terms goes one by one.
One(s) == CHOOSE x \in s : TRUE

FoldStep(f, g, D) ==
  g = [s \in SUBSET D |-> IF s = {} THEN 0 ELSE f[One(s)] + g[s \ {One(s)}]]

LEMMA SumDef ==
  ASSUME NEW f
  PROVE  SumFunction(f) = (CHOOSE g : FoldStep(f, g, DOMAIN f))[DOMAIN f]
BY DEF SumFunction, SumFunctionOnSet, FoldFunctionOnSet, MapThenFoldSet, FoldStep, One

\* Two folds agree where the terms do.
LEMMA FoldUnique ==
  ASSUME NEW S, IsFiniteSet(S), NEW f, NEW D, S \subseteq D, NEW g, FoldStep(f, g, D),
         NEW e, NEW E, S \subseteq E, NEW h, FoldStep(e, h, E), \A x \in S : f[x] = e[x]
  PROVE  g[S] = h[S]
<1> DEFINE P == {T \in SUBSET S : g[T] = h[T]}
<1>1. ASSUME NEW T \in SUBSET S, \A x \in T : T \ {x} \in P
      PROVE  T \in P
  <2>1. CASE T = {}
    BY <2>1 DEF FoldStep
  <2>2. CASE T # {}
    <3>1. One(T) \in T
      BY <2>2 DEF One
    <3>2. g[T \ {One(T)}] = h[T \ {One(T)}]
      BY <1>1, <3>1
    <3>3. T \in SUBSET D /\ T \in SUBSET E
      OBVIOUS
    <3>4. g[T] = f[One(T)] + g[T \ {One(T)}]
      BY <2>2, <3>3 DEF FoldStep
    <3>5. h[T] = e[One(T)] + h[T \ {One(T)}]
      BY <2>2, <3>3 DEF FoldStep
    <3> QED
      BY <3>1, <3>2, <3>4, <3>5
  <2> QED
    BY <2>1, <2>2
<1> HIDE DEF P
<1>2. \A T \in SUBSET S : T \in P
  BY <1>1, SubsetInduction
<1> QED
  BY <1>2 DEF P

\* There is one.
LEMMA FoldExists ==
  ASSUME NEW f, IsFiniteSet(DOMAIN f)
  PROVE  FoldStep(f, CHOOSE g : FoldStep(f, g, DOMAIN f), DOMAIN f)
<1> DEFINE S == DOMAIN f
           P == {T \in SUBSET S : \E g : FoldStep(f, g, T)}
           Fold(T) == CHOOSE g : FoldStep(f, g, T)
<1>1. ASSUME NEW T \in SUBSET S, \A x \in T : T \ {x} \in P
      PROVE  T \in P
  <2>1. CASE T = {}
    <3>1. FoldStep(f, [s \in SUBSET T |-> 0], T)
      BY <2>1 DEF FoldStep
    <3> QED
      BY <3>1
  <2>2. CASE T # {}
    <3>1. One(T) \in T
      BY <2>2 DEF One
    <3> DEFINE Part(U) == T \ {CHOOSE x \in T : x \notin U}
               g == [U \in SUBSET T |-> IF U = T THEN f[One(T)] + Fold(T \ {One(T)})[T \ {One(T)}]
                                        ELSE Fold(Part(U))[U]]
    <3>2. ASSUME NEW x \in T PROVE FoldStep(f, Fold(T \ {x}), T \ {x})
      BY <1>1, <3>2
    <3>3. ASSUME NEW U \in SUBSET T, U # T
          PROVE  /\ FoldStep(f, Fold(Part(U)), Part(U))
                 /\ U \subseteq Part(U)
      <4>1. (CHOOSE x \in T : x \notin U) \in T \ U
        BY <3>3
      <4> QED
        BY <3>2, <4>1
    <3> HIDE DEF Part, Fold
    <3>4. ASSUME NEW U \in SUBSET T, U # T, NEW x \in T, U \subseteq T \ {x}
          PROVE  g[U] = Fold(T \ {x})[U]
      <4>1. IsFiniteSet(U)
        BY FS_Subset
      <4>2. FoldStep(f, Fold(T \ {x}), T \ {x}) /\ FoldStep(f, Fold(Part(U)), Part(U)) /\ U \subseteq Part(U)
        BY <3>2, <3>3, <3>4
      <4>3. Fold(Part(U))[U] = Fold(T \ {x})[U]
        BY <3>4, <4>1, <4>2, FoldUnique
      <4> QED
        BY <3>4, <4>3
    <3>5. ASSUME NEW U \in SUBSET T
          PROVE  g[U] = IF U = {} THEN 0 ELSE f[One(U)] + g[U \ {One(U)}]
      <4>1. CASE U = T
        <5>1. g[T \ {One(T)}] = Fold(T \ {One(T)})[T \ {One(T)}]
          BY <3>1, <3>4
        <5> QED
          BY <2>2, <3>1, <4>1, <5>1
      <4>2. CASE U # T
        <5>1. PICK x \in T : U \subseteq T \ {x}
          BY <4>2
        <5>2. g[U] = Fold(T \ {x})[U]
          BY <3>4, <4>2, <5>1
        <5>3. CASE U = {}
          BY <3>2, <5>1, <5>2, <5>3 DEF FoldStep
        <5>4. CASE U # {}
          <6>1. One(U) \in U
            BY <5>4 DEF One
          <6>2. g[U \ {One(U)}] = Fold(T \ {x})[U \ {One(U)}]
            BY <3>4, <4>2, <5>1, <6>1
          <6>3. Fold(T \ {x})[U] = f[One(U)] + Fold(T \ {x})[U \ {One(U)}]
            BY <3>2, <5>1, <5>4 DEF FoldStep
          <6> QED
            BY <5>2, <5>4, <6>2, <6>3
        <5> QED
          BY <5>3, <5>4
      <4> QED
        BY <4>1, <4>2
    <3>6. FoldStep(f, g, T)
      <4>1. g = [U \in SUBSET T |-> g[U]]
        OBVIOUS
      <4> HIDE DEF g
      <4> QED
        BY <3>5, <4>1 DEF FoldStep
    <3> QED
      BY <3>6
  <2> QED
    BY <2>1, <2>2
<1> HIDE DEF P
<1>2. \A T \in SUBSET S : T \in P
  BY <1>1, SubsetInduction
<1> QED
  BY <1>2 DEF P

\* A function without some of its arguments.
Without(f, x) == [i \in DOMAIN f \ {x} |-> f[i]]

LEMMA SumEmpty ==
  ASSUME NEW f, DOMAIN f = {}
  PROVE  SumFunction(f) = 0
<1>1. FoldStep(f, CHOOSE g : FoldStep(f, g, DOMAIN f), DOMAIN f)
  BY FoldExists, FS_EmptySet
<1> QED
  BY <1>1, SumDef DEF FoldStep

LEMMA SumStep ==
  ASSUME NEW f, IsFiniteSet(DOMAIN f), DOMAIN f # {}
  PROVE  SumFunction(f) = f[One(DOMAIN f)] + SumFunction(Without(f, One(DOMAIN f)))
<1> DEFINE D == DOMAIN f
           x == One(D)
           e == Without(f, x)
           g == CHOOSE g : FoldStep(f, g, D)
           h == CHOOSE h : FoldStep(e, h, D \ {x})
<1>1. DOMAIN e = D \ {x} /\ \A y \in D \ {x} : e[y] = f[y]
  BY DEF Without
<1>2. IsFiniteSet(D \ {x})
  BY FS_RemoveElement
<1>3. FoldStep(f, g, D)
  BY FoldExists
<1>4. FoldStep(e, h, D \ {x})
  BY <1>1, <1>2, FoldExists
<1>5. SumFunction(f) = g[D] /\ SumFunction(e) = h[D \ {x}]
  BY <1>1, SumDef
<1> HIDE DEF g, h, e, x
<1>6. g[D \ {x}] = h[D \ {x}]
  BY <1>1, <1>2, <1>3, <1>4, FoldUnique
<1>7. g[D] = f[x] + g[D \ {x}]
  <2>1. D \in SUBSET D
    OBVIOUS
  <2> QED
    BY <1>3, <2>1 DEF FoldStep, x
<1> QED
  BY <1>5, <1>6, <1>7 DEF e, x

LEMMA SumInt ==
  ASSUME NEW S, IsFiniteSet(S), NEW f \in [S -> Int]
  PROVE  SumFunction(f) \in Int
<1> DEFINE part(T) == [i \in T |-> f[i]]
           P == {T \in SUBSET S : SumFunction(part(T)) \in Int}
<1>1. ASSUME NEW T \in SUBSET S, \A x \in T : T \ {x} \in P
      PROVE  T \in P
  <2>1. DOMAIN part(T) = T /\ IsFiniteSet(T)
    BY FS_Subset
  <2>2. CASE T = {}
    BY <2>1, <2>2, SumEmpty
  <2>3. CASE T # {}
    <3>1. One(T) \in T
      BY <2>3 DEF One
    <3>2. Without(part(T), One(T)) = part(T \ {One(T)})
      BY DEF Without
    <3>3. SumFunction(part(T)) = part(T)[One(T)] + SumFunction(Without(part(T), One(T)))
      <4> HIDE DEF part
      <4> QED
        BY <2>1, <2>3, SumStep
    <3>4. SumFunction(part(T \ {One(T)})) \in Int
      BY <1>1, <3>1
    <3>5. part(T)[One(T)] \in Int
      BY <3>1
    <3> QED
      BY <3>2, <3>3, <3>4, <3>5
  <2> QED
    BY <2>2, <2>3
<1> HIDE DEF P
<1>2. \A T \in SUBSET S : T \in P
  BY <1>1, SubsetInduction
<1>3. S \in P
  BY <1>2
<1>4. part(S) = f
  OBVIOUS
<1> QED
  BY <1>3, <1>4 DEF P

\* Any term may be taken out first.
LEMMA SumSplit ==
  ASSUME NEW S, IsFiniteSet(S), NEW f \in [S -> Int], NEW x \in S
  PROVE  SumFunction(f) = f[x] + SumFunction([i \in S \ {x} |-> f[i]])
<1> DEFINE part(T) == [i \in T |-> f[i]]
           P == {T \in SUBSET S : \A y \in T : SumFunction(part(T)) = f[y] + SumFunction(part(T \ {y}))}
<1>1. ASSUME NEW T \in SUBSET S, \A y \in T : T \ {y} \in P
      PROVE  T \in P
  <2> SUFFICES ASSUME NEW y \in T
               PROVE  SumFunction(part(T)) = f[y] + SumFunction(part(T \ {y}))
    OBVIOUS
  <2> DEFINE z == One(T)
  <2>1. z \in T
    BY DEF One
  <2>2. SumFunction(part(T)) = f[z] + SumFunction(part(T \ {z}))
    <3>1. DOMAIN part(T) = T /\ IsFiniteSet(T) /\ T # {}
      BY FS_Subset
    <3>2. Without(part(T), z) = part(T \ {z}) /\ part(T)[z] = f[z]
      BY <2>1 DEF Without
    <3> HIDE DEF part
    <3> QED
      BY <3>1, <3>2, SumStep
  <2> HIDE DEF z
  <2>3. CASE y = z
    BY <2>2, <2>3
  <2>4. CASE y # z
    <3>1. SumFunction(part(T \ {z})) = f[y] + SumFunction(part((T \ {z}) \ {y}))
      BY <1>1, <2>1, <2>4
    <3>2. SumFunction(part(T \ {y})) = f[z] + SumFunction(part((T \ {y}) \ {z}))
      BY <1>1, <2>1, <2>4
    <3>3. (T \ {z}) \ {y} = (T \ {y}) \ {z}
      OBVIOUS
    <3>4. SumFunction(part((T \ {y}) \ {z})) \in Int
      <4>1. IsFiniteSet((T \ {y}) \ {z})
        BY FS_Subset
      <4>2. part((T \ {y}) \ {z}) \in [(T \ {y}) \ {z} -> Int]
        OBVIOUS
      <4> QED
        BY <4>1, <4>2, SumInt
    <3>5. f[y] \in Int /\ f[z] \in Int
      BY <2>1
    <3> DEFINE a == SumFunction(part((T \ {y}) \ {z}))
               b == SumFunction(part(T \ {z}))
               c == SumFunction(part(T \ {y}))
    <3>6. b = f[y] + a /\ c = f[z] + a /\ SumFunction(part(T)) = f[z] + b /\ a \in Int
      BY <2>2, <3>1, <3>2, <3>3, <3>4
    <3> HIDE DEF part, a, b, c
    <3>7. SumFunction(part(T)) = f[y] + c
      BY <3>5, <3>6
    <3> QED
      BY <3>7 DEF c
  <2> QED
    BY <2>3, <2>4
<1> HIDE DEF P
<1>2. \A T \in SUBSET S : T \in P
  BY <1>1, SubsetInduction
<1>3. S \in P
  BY <1>2
<1>4. part(S) = f
  OBVIOUS
<1> QED
  BY <1>3, <1>4 DEF P

\* Sums over the subsets of a set
Part(f, T) == [i \in T |-> f[i]]

LEMMA SumPart ==
  ASSUME NEW S, IsFiniteSet(S), NEW f \in [S -> Int], NEW T \in SUBSET S
  PROVE  /\ SumFunction(Part(f, T)) \in Int
         /\ T = {} => SumFunction(Part(f, T)) = 0
         /\ \A x \in T : SumFunction(Part(f, T)) = f[x] + SumFunction(Part(f, T \ {x}))
         /\ Part(f, S) = f
<1> DEFINE e == Part(f, T)
<1>1. e \in [T -> Int] /\ IsFiniteSet(T) /\ DOMAIN e = T
  BY FS_Subset DEF Part
<1>2. ASSUME NEW x \in T PROVE e[x] = f[x] /\ [i \in T \ {x} |-> e[i]] = Part(f, T \ {x})
  BY DEF Part
<1> HIDE DEF e
<1>3. SumFunction(e) \in Int /\ (T = {} => SumFunction(e) = 0)
  BY <1>1, SumInt, SumEmpty
<1>4. ASSUME NEW x \in T PROVE SumFunction(e) = f[x] + SumFunction(Part(f, T \ {x}))
  <2>1. SumFunction(e) = e[x] + SumFunction([i \in T \ {x} |-> e[i]])
    <3>1. IsFiniteSet(T) /\ e \in [T -> Int] /\ x \in T
      BY <1>1
    <3> QED
      BY <3>1, SumSplit, Zenon
  <2> QED
    BY <1>2, <2>1
<1>5. Part(f, S) = f
  BY DEF Part
<1> QED
  BY <1>3, <1>4, <1>5 DEF e

LEMMA SumAdd ==
  ASSUME NEW S, IsFiniteSet(S), NEW a \in [S -> Int], NEW b \in [S -> Int]
  PROVE  SumFunction([i \in S |-> a[i] + b[i]]) = SumFunction(a) + SumFunction(b)
<1> DEFINE c == [i \in S |-> a[i] + b[i]]
           P == {T \in SUBSET S : SumFunction(Part(c, T)) = SumFunction(Part(a, T)) + SumFunction(Part(b, T))}
<1>1. c \in [S -> Int] /\ \A i \in S : c[i] = a[i] + b[i]
  OBVIOUS
<1> HIDE DEF c
<1>2. ASSUME NEW T \in SUBSET S, \A x \in T : T \ {x} \in P
      PROVE  T \in P
  <2>1. CASE T = {}
    BY <1>1, <2>1, SumPart
  <2>2. CASE T # {}
    <3>1. PICK x \in T : TRUE
      BY <2>2
    <3> DEFINE U == T \ {x}
    <3>2. U \in SUBSET S
      OBVIOUS
    <3>3. SumFunction(Part(c, U)) = SumFunction(Part(a, U)) + SumFunction(Part(b, U))
      BY <1>2, <3>1
    <3>4. /\ SumFunction(Part(a, U)) \in Int
          /\ SumFunction(Part(b, U)) \in Int
          /\ a[x] \in Int /\ b[x] \in Int /\ c[x] = a[x] + b[x]
      BY <1>1, <3>1, <3>2, SumPart
    <3>5. /\ SumFunction(Part(a, T)) = a[x] + SumFunction(Part(a, U))
          /\ SumFunction(Part(b, T)) = b[x] + SumFunction(Part(b, U))
          /\ SumFunction(Part(c, T)) = c[x] + SumFunction(Part(c, U))
      BY <1>1, <3>1, SumPart
    <3> HIDE DEF U
    <3> QED
      BY <3>3, <3>4, <3>5
  <2> QED
    BY <2>1, <2>2
<1> HIDE DEF P
<1>3. \A T \in SUBSET S : T \in P
  BY <1>2, SubsetInduction
<1>4. S \in P
  BY <1>3
<1> QED
  BY <1>1, <1>4, SumPart DEF P, c

LEMMA SumScale ==
  ASSUME NEW S, IsFiniteSet(S), NEW a \in [S -> Int], NEW k \in Int
  PROVE  SumFunction([i \in S |-> k * a[i]]) = k * SumFunction(a)
<1> DEFINE c == [i \in S |-> k * a[i]]
           P == {T \in SUBSET S : SumFunction(Part(c, T)) = k * SumFunction(Part(a, T))}
<1>1. c \in [S -> Int] /\ \A i \in S : c[i] = k * a[i]
  OBVIOUS
<1> HIDE DEF c
<1>2. ASSUME NEW T \in SUBSET S, \A x \in T : T \ {x} \in P
      PROVE  T \in P
  <2>1. CASE T = {}
    BY <1>1, <2>1, SumPart
  <2>2. CASE T # {}
    <3>1. PICK x \in T : TRUE
      BY <2>2
    <3> DEFINE U == T \ {x}
    <3>2. U \in SUBSET S
      OBVIOUS
    <3>3. SumFunction(Part(c, U)) = k * SumFunction(Part(a, U))
      BY <1>2, <3>1
    <3>4. SumFunction(Part(a, U)) \in Int /\ a[x] \in Int /\ c[x] = k * a[x]
      BY <1>1, <3>1, <3>2, SumPart
    <3>5. /\ SumFunction(Part(a, T)) = a[x] + SumFunction(Part(a, U))
          /\ SumFunction(Part(c, T)) = c[x] + SumFunction(Part(c, U))
      BY <1>1, <3>1, SumPart
    <3> HIDE DEF U
    <3>6. k * (a[x] + SumFunction(Part(a, U))) = k * a[x] + k * SumFunction(Part(a, U))
      BY <3>4
    <3> QED
      BY <3>3, <3>4, <3>5, <3>6
  <2> QED
    BY <2>1, <2>2
<1> HIDE DEF P
<1>3. \A T \in SUBSET S : T \in P
  BY <1>2, SubsetInduction
<1>4. S \in P
  BY <1>3
<1> QED
  BY <1>1, <1>4, SumPart DEF P, c

\* Terms that are zero may be left out.
LEMMA SumNonzero ==
  ASSUME NEW S, IsFiniteSet(S), NEW a \in [S -> Int], NEW N \in SUBSET S,
         \A i \in S \ N : a[i] = 0
  PROVE  SumFunction(Part(a, N)) = SumFunction(a)
<1> DEFINE P == {T \in SUBSET S : SumFunction(Part(a, T)) = SumFunction(Part(a, T \cap N))}
<1>1. ASSUME NEW T \in SUBSET S, \A x \in T : T \ {x} \in P
      PROVE  T \in P
  <2>1. CASE T \subseteq N
    <3>1. T = T \cap N
      BY <2>1
    <3> QED
      BY <3>1
  <2>2. CASE ~(T \subseteq N)
    <3>1. PICK x \in T : x \notin N
      BY <2>2
    <3>2. T \cap N = (T \ {x}) \cap N
      BY <3>1
    <3>3. SumFunction(Part(a, T)) = a[x] + SumFunction(Part(a, T \ {x}))
      BY <3>1, SumPart
    <3>4. SumFunction(Part(a, T \ {x})) \in Int
      BY SumPart
    <3>5. SumFunction(Part(a, T \ {x})) = SumFunction(Part(a, (T \ {x}) \cap N))
      BY <1>1, <3>1
    <3>6. a[x] = 0
      BY <3>1
    <3>7. SumFunction(Part(a, T)) = SumFunction(Part(a, T \ {x}))
      BY <3>3, <3>4, <3>6
    <3>8. SumFunction(Part(a, T)) = SumFunction(Part(a, T \cap N))
      BY <3>2, <3>5, <3>7
    <3> QED
      BY <3>8
  <2> QED
    BY <2>1, <2>2
<1> HIDE DEF P
<1>2. \A T \in SUBSET S : T \in P
  BY <1>1, SubsetInduction
<1>3. S \in P /\ S \cap N = N
  BY <1>2
<1> QED
  BY <1>3, SumPart DEF P

\* A sum over pairs, one factor for each of them
Products(S, a, b) == [ik \in S \X S |-> a[ik[1]] * b[ik[2]]]

LEMMA SumPairs ==
  ASSUME NEW S, IsFiniteSet(S), NEW a \in [S -> Int], NEW b \in [S -> Int]
  PROVE  SumFunction(Products(S, a, b)) = SumFunction(a) * SumFunction(b)
<1> USE DEF Products
<1> DEFINE c == Products(S, a, b)
           P == {T \in SUBSET S : SumFunction(Part(c, T \X S)) = SumFunction(Part(a, T)) * SumFunction(b)}
<1>1. /\ IsFiniteSet(S \X S) /\ c \in [S \X S -> Int]
      /\ \A x, y \in S : c[<<x, y>>] = a[x] * b[y]
  BY FS_Product
<1> HIDE DEF c
<1>2. ASSUME NEW U \in SUBSET S, NEW x \in S \ U
      PROVE  SumFunction(Part(c, (U \cup {x}) \X S)) = SumFunction(Part(c, U \X S)) + a[x] * SumFunction(b)
  <2> DEFINE Pairs(T) == (U \X S) \cup ({x} \X T)
             base == SumFunction(Part(c, U \X S))
             Q == {T \in SUBSET S : SumFunction(Part(c, Pairs(T))) = base + a[x] * SumFunction(Part(b, T))}
  <2>1. base \in Int /\ a[x] \in Int
    <3>1. U \X S \in SUBSET (S \X S)
      OBVIOUS
    <3> QED
      BY <1>1, <3>1, SumPart
  <2>2. ASSUME NEW T \in SUBSET S, \A y \in T : T \ {y} \in Q
        PROVE  T \in Q
    <3>1. CASE T = {}
      <4>1. Pairs(T) = U \X S /\ SumFunction(Part(b, T)) = 0
        BY <3>1, SumPart
      <4> HIDE DEF base, Pairs
      <4>2. base = base + a[x] * 0
        BY <2>1
      <4>3. SumFunction(Part(c, Pairs(T))) = base + a[x] * SumFunction(Part(b, T))
        BY <4>1, <4>2 DEF base
      <4> QED
        BY <4>3
    <3>2. CASE T # {}
      <4>1. PICK y \in T : TRUE
        BY <3>2
      <4> DEFINE rest == SumFunction(Part(b, T \ {y}))
      <4>2. /\ Pairs(T) \in SUBSET (S \X S) /\ <<x, y>> \in Pairs(T)
            /\ Pairs(T) \ {<<x, y>>} = Pairs(T \ {y})
        BY <1>2, <4>1
      <4>3. SumFunction(Part(c, Pairs(T \ {y}))) = base + a[x] * rest
        BY <2>2, <4>1
      <4> HIDE DEF base, Pairs
      <4>4. SumFunction(Part(c, Pairs(T))) = c[<<x, y>>] + SumFunction(Part(c, Pairs(T \ {y})))
        <5>1. \A xy \in Pairs(T) : SumFunction(Part(c, Pairs(T))) = c[xy] + SumFunction(Part(c, Pairs(T) \ {xy}))
          BY <1>1, <4>2, SumPart
        <5> QED
          BY <4>2, <5>1
      <4>5. rest \in Int /\ b[y] \in Int /\ SumFunction(Part(b, T)) = b[y] + rest
        BY <4>1, SumPart
      <4> HIDE DEF rest
      <4>6. a[x] * (b[y] + rest) = a[x] * b[y] + a[x] * rest /\ c[<<x, y>>] = a[x] * b[y]
        BY <1>1, <2>1, <4>1, <4>5
      <4>7. a[x] * b[y] + (base + a[x] * rest) = base + (a[x] * b[y] + a[x] * rest)
        BY <2>1, <4>5
      <4>8. SumFunction(Part(c, Pairs(T))) = base + a[x] * SumFunction(Part(b, T))
        BY <4>3, <4>4, <4>5, <4>6, <4>7
      <4> QED
        BY <4>8
    <3> QED
      BY <3>1, <3>2
  <2> HIDE DEF Q
  <2>3. \A T \in SUBSET S : T \in Q
    BY <2>2, SubsetInduction
  <2>4. S \in Q
    BY <2>3
  <2>5. Pairs(S) = (U \cup {x}) \X S /\ Part(b, S) = b
    BY SumPart
  <2> QED
    BY <2>4, <2>5 DEF Q
<1>3. SumFunction(b) \in Int
  BY SumInt
<1>4. ASSUME NEW T \in SUBSET S, \A x \in T : T \ {x} \in P
      PROVE  T \in P
  <2>1. CASE T = {}
    <3>1. T \X S = {} /\ {} \in SUBSET (S \X S)
      BY <2>1
    <3>2. SumFunction(Part(c, T \X S)) = 0
      BY <1>1, <3>1, SumPart
    <3>3. SumFunction(Part(a, T)) = 0
      BY <2>1, SumPart
    <3> QED
      BY <1>3, <3>2, <3>3
  <2>2. CASE T # {}
    <3>1. PICK x \in T : TRUE
      BY <2>2
    <3> DEFINE U == T \ {x}
               A == SumFunction(Part(a, U))
               B == SumFunction(b)
    <3>2. SumFunction(Part(c, U \X S)) = A * B
      BY <1>4, <3>1
    <3>3. U \in SUBSET S /\ x \in S \ U /\ U \cup {x} = T
      BY <3>1
    <3>4. SumFunction(Part(c, T \X S)) = A * B + a[x] * B
      <4> HIDE DEF U
      <4> QED
        BY <1>2, <3>2, <3>3
    <3>5. SumFunction(Part(a, T)) = a[x] + A /\ A \in Int /\ a[x] \in Int
      BY <3>1, SumPart
    <3> HIDE DEF A, B
    <3>6. (a[x] + A) * B = A * B + a[x] * B
      BY <1>3, <3>5 DEF B
    <3> QED
      BY <3>4, <3>5, <3>6 DEF B
  <2> QED
    BY <2>1, <2>2
<1> HIDE DEF P
<1>5. \A T \in SUBSET S : T \in P
  BY <1>4, SubsetInduction
<1>6. S \in P
  BY <1>5
<1> QED
  BY <1>1, <1>6, SumPart DEF P, c

-----------------------------------------------------------------------------
(* The inductive invariant *)

\* The outputs of a submodel are those of what its inputs are linked to now, and it
\* stores the derivatives there that the evaluation needs.
UpToDate(n) ==
  /\ outputs[n] = [j \in Items |-> IF j \in graph.provides[n] THEN ValueOf(n, j) ELSE 0]
  /\ slopes[n] = [j \in Items |-> [i \in Items |-> IF asked # {} THEN Partial(n, j, i) ELSE 0]]
  /\ bends[n] = [j \in Items |-> IF 2 \in asked THEN SecondPartial(n, j) ELSE 0]

Constructed == call \in {"ready", "evaluating", "evaluated"}

\* There are derivatives of all of the output variables or of none.
DerivsTyped ==
  /\ DOMAIN derivs # {} => Constructed /\ DOMAIN derivs = OutItems
  /\ DOMAIN derivs2 # {} => Constructed /\ DOMAIN derivs2 = OutItems
  /\ \A pj \in DOMAIN derivs : derivs[pj] \in [Items -> Int]
  /\ \A pj \in DOMAIN derivs2 : derivs2[pj] \in [Items \X Items -> Int]

StoredTyped ==
  /\ outputs \in [Nodes -> [Items -> Int]]
  /\ slopes \in [Nodes -> [Items -> [Items -> Int]]]
  /\ bends \in [Nodes -> [Items -> Int]]

\* What has been evaluated in this call depends on what has been evaluated before it.
CInv ==
  /\ IInv
  /\ call \in {"construct", "duplicate", "ready", "evaluating", "evaluated"}
  /\ calls \in 0 .. MaxCalls
  /\ asked \in SUBSET {1, 2}
  /\ inputs \in [Items -> Int]
  /\ StoredTyped
  /\ call = "construct" => position = 1
  /\ call # "construct" => phase = "resolved"
  /\ Constructed => ~Duplicate
  /\ position \in 1 .. Len(resolution) + 1
  /\ call \in {"evaluating", "evaluated"} => \A k \in 1 .. position - 1 : UpToDate(resolution[k])
  /\ call = "evaluated" =>
       /\ position = Len(resolution) + 1
       /\ 1 \in asked => derivs = [pj \in OutItems |-> TotalDerivatives[pj]]
       /\ 2 \in asked => derivs2 = [pj \in OutItems |-> TotalSecondDerivatives[pj]]
  /\ DerivsTyped

-----------------------------------------------------------------------------
(* Submodels and the links between them *)

LEMMA ConsumedItems ==
  ASSUME graph \in GraphType, NEW n \in Nodes
  PROVE  /\ graph.consumes[n] \subseteq Items /\ IsFiniteSet(graph.consumes[n])
         /\ graph.provides[n] \subseteq Items
<1>1. graph.consumes[n] \subseteq Items /\ graph.provides[n] \subseteq Items
  BY DEF GraphType
<1> QED
  BY <1>1, ComposedAssumption, FS_Subset

\* What a linked input refers to is an output of another submodel that provides for
\* this one.
LEMMA ProviderIs ==
  ASSUME NEW n \in Nodes, NEW i \in graph.consumes[n], ~Inbound(n, i)
  PROVE  /\ Provider(n, i) \in NodeProviders(n)
         /\ Provider(n, i) \in Nodes
         /\ i \in graph.provides[Provider(n, i)]
<1>1. Consumed(n) = graph.consumes[n]
  BY ResolverAssumption DEF Consumed
<1>2. \E p \in Nodes : p \in Providers(n, i)
  BY DEF Inbound, Providers
<1>3. Provider(n, i) \in Nodes /\ Provider(n, i) \in Providers(n, i)
  BY <1>2 DEF Provider
<1> QED
  BY <1>1, <1>3 DEF NodeProviders, Providers

LEMMA LinkKept ==
  ASSUME graph' = graph, NEW n, NEW i
  PROVE  Inbound(n, i)' = Inbound(n, i) /\ Provider(n, i)' = Provider(n, i)
<1>1. Providers(n, i)' = Providers(n, i)
  BY DEF Providers, MayFeed, Priority
<1> QED
  BY <1>1 DEF Inbound, Provider

\* What a submodel computes depends on its inputs only.
LEMMA ValueKept ==
  ASSUME graph' = graph, inputs' = inputs, NEW n \in Nodes,
         \A p \in NodeProviders(n) : outputs'[p] = outputs[p]
  PROVE  /\ \A j : ValueOf(n, j)' = ValueOf(n, j)
         /\ \A j, i : Partial(n, j, i)' = Partial(n, j, i)
<1>1. ASSUME NEW i \in graph.consumes[n] PROVE Linked(n, i)' = Linked(n, i)
  <2>1. Inbound(n, i)' = Inbound(n, i) /\ Provider(n, i)' = Provider(n, i)
    BY LinkKept
  <2>2. CASE Inbound(n, i)
    BY <2>1, <2>2 DEF Linked
  <2>3. CASE ~Inbound(n, i)
    <3>1. outputs'[Provider(n, i)] = outputs[Provider(n, i)]
      BY <2>3, ProviderIs
    <3>2. Linked(n, i)' = outputs'[Provider(n, i)'][i] /\ Linked(n, i) = outputs[Provider(n, i)][i]
      BY <2>1, <2>3 DEF Linked
    <3> QED
      BY <2>1, <3>1, <3>2
  <2> QED
    BY <2>2, <2>3
<1>2. InputSum(n)' = InputSum(n)
  <2>1. [i \in graph'.consumes[n] |-> Linked(n, i)'] = [i \in graph.consumes[n] |-> Linked(n, i)]
    BY <1>1
  <2> QED
    BY <2>1 DEF InputSum
<1> SUFFICES ASSUME NEW j PROVE ValueOf(n, j)' = ValueOf(n, j)
  BY <1>2 DEF Partial
<1>3. [i \in graph'.consumes[n] |-> Weight[n][j][i] * Linked(n, i)']
        = [i \in graph.consumes[n] |-> Weight[n][j][i] * Linked(n, i)]
  BY <1>1
<1> QED
  BY <1>2, <1>3 DEF ValueOf

\* Values of the inputs of a submodel, and what it makes of them.
LEMMA ValuesInt ==
  ASSUME graph \in GraphType, inputs \in [Items -> Int], outputs \in [Nodes -> [Items -> Int]],
         NEW n \in Nodes
  PROVE  /\ \A i \in graph.consumes[n] : Linked(n, i) \in Int
         /\ InputSum(n) \in Int
         /\ \A j \in Items : ValueOf(n, j) \in Int /\ SecondPartial(n, j) \in Int
         /\ \A j, i \in Items : Partial(n, j, i) \in Int
<1>1. graph.consumes[n] \subseteq Items /\ IsFiniteSet(graph.consumes[n])
  BY ConsumedItems
<1>2. ASSUME NEW i \in graph.consumes[n] PROVE Linked(n, i) \in Int
  <2>1. i \in Items
    BY <1>1
  <2>2. CASE Inbound(n, i)
    BY <2>1, <2>2 DEF Linked
  <2>3. CASE ~Inbound(n, i)
    BY <2>1, <2>3, ProviderIs DEF Linked
  <2> QED
    BY <2>2, <2>3
<1>3. InputSum(n) \in Int
  <2>1. [i \in graph.consumes[n] |-> Linked(n, i)] \in [graph.consumes[n] -> Int]
    BY <1>2
  <2> QED
    BY <1>1, <2>1, SumInt DEF InputSum
<1>4. ASSUME NEW j \in Items PROVE ValueOf(n, j) \in Int
  <2>1. Curve[n][j] \in Int /\ \A i \in Items : Weight[n][j][i] \in Int
    BY ComposedAssumption
  <2>2. [i \in graph.consumes[n] |-> Weight[n][j][i] * Linked(n, i)] \in [graph.consumes[n] -> Int]
    BY <1>1, <1>2, <2>1
  <2>3. SumFunction([i \in graph.consumes[n] |-> Weight[n][j][i] * Linked(n, i)]) \in Int
    BY <1>1, <2>2, SumInt
  <2> QED
    BY <1>3, <2>1, <2>3 DEF ValueOf
<1>5. ASSUME NEW j \in Items, NEW i \in Items PROVE Partial(n, j, i) \in Int /\ SecondPartial(n, j) \in Int
  <2>1. Curve[n][j] \in Int /\ Weight[n][j][i] \in Int
    BY ComposedAssumption
  <2>2. \A a, b, c \in Int : a + 2 * b * c \in Int /\ 2 * b \in Int
    OBVIOUS
  <2> QED
    BY <1>3, <2>1, <2>2 DEF Partial, SecondPartial
<1> QED
  BY <1>2, <1>3, <1>4, <1>5

\* Induction along the dependencies: what holds for a submodel whenever it holds for
\* those that provide for it.
LEMMA OrderInduction ==
  ASSUME Acyclic, NEW S \in SUBSET Nodes,
         \A n \in Nodes : NodeProviders(n) \subseteq S => n \in S
  PROVE  S = Nodes
<1> SUFFICES ASSUME Nodes \ S # {} PROVE FALSE
  OBVIOUS
<1>1. PICK n \in Nodes \ S : NodeProviders(n) \cap (Nodes \ S) = {}
  BY DEF Acyclic
<1>2. NodeProviders(n) \subseteq S
  BY <1>1, ProvidersAreNodes
<1> QED
  BY <1>1, <1>2

-----------------------------------------------------------------------------
(* The composed function in forward mode *)

JetType == [v: Int, g: [Items -> Int], h: [Items \X Items -> Int]]

\* The output variables of the submodels
Provided == {pj \in Nodes \X Items : pj[2] \in graph.provides[pj[1]]}

LEMMA JetOutSame ==
  ASSUME NEW n, NEW j, NEW J, NEW K,
         \A i \in Through(n) : J[<<Provider(n, i), i>>] = K[<<Provider(n, i), i>>]
  PROVE  JetOut(J, n, j) = JetOut(K, n, j)
<1>1. \A i \in graph.consumes[n] : JetIn(J, n, i) = JetIn(K, n, i)
  BY DEF Through, JetIn
<1> DEFINE I == graph.consumes[n]
           W == Weight[n][j]
           C == Curve[n][j]
           v(M) == SumFunction([i \in I |-> JetIn(M, n, i).v])
           g(M, x) == SumFunction([i \in I |-> JetIn(M, n, i).g[x]])
           h(M, xz) == SumFunction([i \in I |-> JetIn(M, n, i).h[xz]])
           wv(M) == SumFunction([i \in I |-> W[i] * JetIn(M, n, i).v])
           wg(M, x) == SumFunction([i \in I |-> W[i] * JetIn(M, n, i).g[x]])
           wh(M, xz) == SumFunction([i \in I |-> W[i] * JetIn(M, n, i).h[xz]])
<1>2. ASSUME NEW M
      PROVE  JetOut(M, n, j) = [v |-> wv(M) + C * v(M) * v(M),
                                g |-> [x \in Items |-> wg(M, x) + 2 * C * v(M) * g(M, x)],
                                h |-> [xz \in Items \X Items |->
                                         wh(M, xz) + 2 * C * (g(M, xz[1]) * g(M, xz[2]) + v(M) * h(M, xz))]]
  BY DEF JetOut
<1>3. v(J) = v(K) /\ wv(J) = wv(K)
  <2>1. /\ [i \in I |-> JetIn(J, n, i).v] = [i \in I |-> JetIn(K, n, i).v]
        /\ [i \in I |-> W[i] * JetIn(J, n, i).v] = [i \in I |-> W[i] * JetIn(K, n, i).v]
    BY <1>1
  <2> QED
    BY <2>1
<1>4. ASSUME NEW x PROVE g(J, x) = g(K, x) /\ h(J, x) = h(K, x) /\ wg(J, x) = wg(K, x) /\ wh(J, x) = wh(K, x)
  <2>1. /\ [i \in I |-> JetIn(J, n, i).g[x]] = [i \in I |-> JetIn(K, n, i).g[x]]
        /\ [i \in I |-> JetIn(J, n, i).h[x]] = [i \in I |-> JetIn(K, n, i).h[x]]
        /\ [i \in I |-> W[i] * JetIn(J, n, i).g[x]] = [i \in I |-> W[i] * JetIn(K, n, i).g[x]]
        /\ [i \in I |-> W[i] * JetIn(J, n, i).h[x]] = [i \in I |-> W[i] * JetIn(K, n, i).h[x]]
    BY <1>1
  <2> QED
    BY <2>1
<1> HIDE DEF W, C, v, g, h, wv, wg, wh
<1> QED
  BY <1>2, <1>3, <1>4

LEMMA JetTypes ==
  ASSUME graph \in GraphType, inputs \in [Items -> Int], NEW n \in Nodes, NEW J,
         \A i \in Through(n) : J[<<Provider(n, i), i>>] \in JetType
  PROVE  /\ \A i \in graph.consumes[n] : JetIn(J, n, i) \in JetType
         /\ \A j \in Items : JetOut(J, n, j) \in JetType
<1> DEFINE I == graph.consumes[n]
<1>1. I \subseteq Items /\ IsFiniteSet(I)
  BY ConsumedItems
<1>2. ASSUME NEW i \in I PROVE JetIn(J, n, i) \in JetType
  <2>1. CASE Inbound(n, i)
    <3>1. i \in Items
      BY <1>1
    <3>2. inputs[i] \in Int /\ Unit(i) \in [Items -> Int]
      BY <3>1 DEF Unit
    <3> QED
      BY <2>1, <3>2 DEF JetIn, JetType
  <2>2. CASE ~Inbound(n, i)
    BY <2>2 DEF JetIn, Through
  <2> QED
    BY <2>1, <2>2
<1>3. ASSUME NEW j \in Items PROVE JetOut(J, n, j) \in JetType
  <2> DEFINE W == Weight[n][j]
             C == Curve[n][j]
             v == SumFunction([i \in I |-> JetIn(J, n, i).v])
             g(x) == SumFunction([i \in I |-> JetIn(J, n, i).g[x]])
             h(xz) == SumFunction([i \in I |-> JetIn(J, n, i).h[xz]])
             wv == SumFunction([i \in I |-> W[i] * JetIn(J, n, i).v])
             wg(x) == SumFunction([i \in I |-> W[i] * JetIn(J, n, i).g[x]])
             wh(xz) == SumFunction([i \in I |-> W[i] * JetIn(J, n, i).h[xz]])
  <2>1. C \in Int /\ W \in [Items -> Int]
    BY ComposedAssumption
  <2> HIDE DEF W, C
  <2>2. ASSUME NEW i \in I
        PROVE  /\ W[i] \in Int /\ JetIn(J, n, i).v \in Int
               /\ JetIn(J, n, i).g \in [Items -> Int]
               /\ JetIn(J, n, i).h \in [Items \X Items -> Int]
    BY <1>1, <1>2, <2>1 DEF JetType
  <2>3. v \in Int /\ wv \in Int
    <3>1. /\ [i \in I |-> JetIn(J, n, i).v] \in [I -> Int]
          /\ [i \in I |-> W[i] * JetIn(J, n, i).v] \in [I -> Int]
      BY <2>2
    <3> QED
      BY <1>1, <3>1, SumInt
  <2>4. ASSUME NEW x \in Items PROVE g(x) \in Int /\ wg(x) \in Int
    <3>1. /\ [i \in I |-> JetIn(J, n, i).g[x]] \in [I -> Int]
          /\ [i \in I |-> W[i] * JetIn(J, n, i).g[x]] \in [I -> Int]
      BY <2>2
    <3> QED
      BY <1>1, <3>1, SumInt
  <2>5. ASSUME NEW xz \in Items \X Items PROVE h(xz) \in Int /\ wh(xz) \in Int
    <3>1. /\ [i \in I |-> JetIn(J, n, i).h[xz]] \in [I -> Int]
          /\ [i \in I |-> W[i] * JetIn(J, n, i).h[xz]] \in [I -> Int]
      BY <2>2
    <3> QED
      BY <1>1, <3>1, SumInt
  <2>6. JetOut(J, n, j) = [v |-> wv + C * v * v,
                           g |-> [x \in Items |-> wg(x) + 2 * C * v * g(x)],
                           h |-> [xz \in Items \X Items |-> wh(xz) + 2 * C * (g(xz[1]) * g(xz[2]) + v * h(xz))]]
    BY DEF JetOut, W, C
  <2> HIDE DEF v, g, h, wv, wg, wh
  <2>7. [x \in Items |-> wg(x) + 2 * C * v * g(x)] \in [Items -> Int]
    BY <2>1, <2>3, <2>4
  <2>8. [xz \in Items \X Items |-> wh(xz) + 2 * C * (g(xz[1]) * g(xz[2]) + v * h(xz))] \in [Items \X Items -> Int]
    <3>1. ASSUME NEW xz \in Items \X Items
          PROVE  wh(xz) + 2 * C * (g(xz[1]) * g(xz[2]) + v * h(xz)) \in Int
      <4>1. g(xz[1]) \in Int /\ g(xz[2]) \in Int /\ h(xz) \in Int /\ wh(xz) \in Int
        BY <2>4, <2>5
      <4> QED
        BY <2>1, <2>3, <4>1
    <3> QED
      BY <3>1
  <2>9. wv + C * v * v \in Int
    BY <2>1, <2>3
  <2> QED
    BY <2>6, <2>7, <2>8, <2>9 DEF JetType
<1> QED
  BY <1>2, <1>3

LEMMA UpTo ==
  ASSUME NEW S, NEW L \in Nat, 0 \in S, \A k \in 0 .. L - 1 : k \in S => k + 1 \in S
  PROVE  \A k \in 0 .. L : k \in S
<1> DEFINE T == {k \in 0 .. L : k \notin S}
<1> SUFFICES ASSUME T # {} PROVE FALSE
  OBVIOUS
<1>1. T \in SUBSET Nat
  OBVIOUS
<1>2. PICK k \in T : \A l \in T : k <= l
  BY <1>1, LeastNatural
<1>3. k - 1 \in 0 .. L - 1
  BY <1>2
<1>4. k - 1 \in S
  BY <1>2, <1>3
<1> QED
  BY <1>2, <1>3, <1>4

\* The jets of the submodels up to each of them in the order of evaluation
JetsUpTo(J, l) == J = [k \in 0 .. l |-> IF k = 0 THEN <<>> ELSE Follow(J[k - 1], resolution[k])]

LEMMA JetsExist ==
  ASSUME NEW L \in Nat
  PROVE  \E J : JetsUpTo(J, L)
<1> DEFINE S == {l \in 0 .. L : \E J : JetsUpTo(J, l)}
<1>1. 0 \in S
  <2>1. JetsUpTo([k \in 0 .. 0 |-> <<>>], 0)
    BY DEF JetsUpTo
  <2> QED
    BY <2>1
<1>2. ASSUME NEW l \in 0 .. L - 1, l \in S PROVE l + 1 \in S
  <2>1. PICK J : JetsUpTo(J, l)
    BY <1>2
  <2> DEFINE K == [k \in 0 .. l + 1 |-> IF k = l + 1 THEN Follow(J[l], resolution[l + 1]) ELSE J[k]]
  <2>2. ASSUME NEW k \in 0 .. l + 1
        PROVE  K[k] = IF k = 0 THEN <<>> ELSE Follow(K[k - 1], resolution[k])
    <3>1. CASE k = 0
      <4>1. K[k] = J[0]
        BY <3>1
      <4> QED
        BY <2>1, <3>1, <4>1 DEF JetsUpTo
    <3>2. CASE k = l + 1
      <4>1. K[k] = Follow(J[l], resolution[l + 1]) /\ K[k - 1] = J[l]
        BY <3>2
      <4> QED
        BY <3>2, <4>1
    <3>3. CASE k \in 1 .. l
      <4>1. K[k] = J[k] /\ K[k - 1] = J[k - 1]
        BY <3>3
      <4>2. J[k] = Follow(J[k - 1], resolution[k])
        <5>1. k \in 0 .. l /\ k # 0
          BY <3>3
        <5> QED
          BY <2>1, <5>1 DEF JetsUpTo
      <4> QED
        BY <3>3, <4>1, <4>2
    <3> QED
      BY <3>1, <3>2, <3>3
  <2>3. K = [k \in 0 .. l + 1 |-> K[k]]
    OBVIOUS
  <2> HIDE DEF K
  <2>4. JetsUpTo(K, l + 1)
    BY <2>2, <2>3 DEF JetsUpTo
  <2> QED
    BY <2>4
<1> HIDE DEF S
<1>3. \A l \in 0 .. L : l \in S
  BY <1>1, <1>2, UpTo
<1>4. L \in S
  BY <1>3
<1> QED
  BY <1>4 DEF S

\* The order in which the submodels are evaluated
Resolved == IInv /\ phase = "resolved"

LEMMA ResolvedOrder ==
  ASSUME Resolved
  PROVE  /\ graph \in GraphType /\ Acyclic
         /\ Len(resolution) \in Nat /\ DOMAIN resolution = 1 .. Len(resolution)
         /\ \A k \in 1 .. Len(resolution) : resolution[k] \in Nodes
         /\ \A n \in Nodes : \E k \in 1 .. Len(resolution) : resolution[k] = n
         /\ \A k, l \in 1 .. Len(resolution) : resolution[k] = resolution[l] => k = l
         /\ \A k \in 1 .. Len(resolution) : \A p \in NodeProviders(resolution[k]) :
              \E j \in 1 .. k - 1 : resolution[j] = p
<1>1. resolution \in Seq(Nodes) /\ graph \in GraphType /\ VisitedIsResolved /\ \A n \in Nodes : status[n] = 2
  BY DEF Resolved, IInv, SearchInv, TypeOK
<1>2. Len(resolution) \in Nat /\ DOMAIN resolution = 1 .. Len(resolution)
  BY <1>1, LenProperties
<1>3. \A k \in 1 .. Len(resolution) : resolution[k] \in Nodes
  BY <1>1, ElementOfSeq
<1>4. Acyclic
  BY ResolvedNoCycle DEF Resolved
<1> QED
  BY <1>1, <1>2, <1>3, <1>4 DEF VisitedIsResolved

\* Every output has a jet, made of those of the outputs that its inputs are linked to.
LEMMA JetsFix ==
  ASSUME Resolved
  PROVE  DOMAIN Jets = Provided /\ \A pj \in Provided : Jets[pj] = JetOut(Jets, pj[1], pj[2])
<1> DEFINE L == Len(resolution)
           J == CHOOSE J : JetsUpTo(J, L)
           Earlier(k) == {pj \in Provided : \E m \in 1 .. k : resolution[m] = pj[1]}
           S == {k \in 0 .. L : /\ DOMAIN J[k] = Earlier(k)
                                /\ \A pj \in Earlier(k) : J[k][pj] = JetOut(J[k], pj[1], pj[2])}
<1>1. L \in Nat
  BY ResolvedOrder
<1>2. JetsUpTo(J, L)
  BY <1>1, JetsExist
<1>3. Jets = J[L]
  BY DEF Jets, JetsUpTo
<1> HIDE DEF J
<1>4. J[0] = <<>> /\ \A k \in 1 .. L : J[k] = Follow(J[k - 1], resolution[k])
  BY <1>1, <1>2 DEF JetsUpTo
<1>5. 0 \in S
  <2>1. DOMAIN J[0] = {} /\ Earlier(0) = {}
    BY <1>4
  <2> QED
    BY <1>1, <2>1
<1>6. ASSUME NEW k \in 0 .. L - 1, k \in S PROVE k + 1 \in S
  <2> DEFINE n == resolution[k + 1]
             B == J[k]
             F == J[k + 1]
  <2>1. k + 1 \in 1 .. L /\ (k + 1) - 1 = k /\ k \in Nat
    BY <1>1
  <2>2. n \in Nodes /\ graph.provides[n] \subseteq Items
    BY <2>1, ResolvedOrder, ConsumedItems
  <2>3. F = Follow(B, n)
    BY <1>4, <2>1
  <2>4. DOMAIN B = Earlier(k) /\ \A pj \in Earlier(k) : B[pj] = JetOut(B, pj[1], pj[2])
    BY <1>6
  <2>5. \A m \in 1 .. k : resolution[m] # n
    BY <2>1, ResolvedOrder
  <2>6. Earlier(k + 1) = Earlier(k) \cup ({n} \X graph.provides[n])
    <3>1. ASSUME NEW pj \in Earlier(k + 1), pj \notin Earlier(k) PROVE pj \in {n} \X graph.provides[n]
      <4>1. PICK m \in 1 .. k + 1 : resolution[m] = pj[1]
        BY <3>1
      <4>2. m = k + 1
        BY <2>1, <3>1, <4>1
      <4> QED
        BY <3>1, <4>1, <4>2 DEF Provided
    <3>2. Earlier(k) \subseteq Earlier(k + 1)
      BY <2>1
    <3>3. ASSUME NEW j \in graph.provides[n] PROVE <<n, j>> \in Earlier(k + 1)
      <4>1. <<n, j>> \in Provided
        BY <2>2 DEF Provided
      <4>2. k + 1 \in 1 .. k + 1
        BY <2>1
      <4> QED
        BY <4>1, <4>2
    <3> QED
      BY <3>1, <3>2, <3>3
  <2> HIDE DEF n, B, F, Earlier
  <2>7. /\ DOMAIN F = Earlier(k + 1)
        /\ \A pj \in Earlier(k + 1) : F[pj] = IF pj[1] = n THEN JetOut(B, n, pj[2]) ELSE B[pj]
    BY <2>3, <2>4, <2>6 DEF Follow
  <2>8. ASSUME NEW m \in 1 .. k + 1, NEW i \in Through(resolution[m])
        PROVE  F[<<Provider(resolution[m], i), i>>] = B[<<Provider(resolution[m], i), i>>]
    <3> DEFINE p == Provider(resolution[m], i)
    <3>1. m \in 1 .. L /\ resolution[m] \in Nodes
      BY <1>1, <2>1, ResolvedOrder
    <3>2. p \in NodeProviders(resolution[m]) /\ p \in Nodes /\ i \in graph.provides[p]
      BY <3>1, ProviderIs DEF Through
    <3>3. PICK l \in 1 .. m - 1 : resolution[l] = p
      BY <3>1, <3>2, ResolvedOrder
    <3>4. l \in 1 .. k /\ l \in 1 .. k + 1
      BY <2>1, <3>3
    <3> HIDE DEF p
    <3>5. p # n
      BY <2>5, <3>3, <3>4
    <3>6. i \in Items
      BY <3>2, ResolvedOrder, ConsumedItems
    <3>7. <<p, i>> \in Earlier(k + 1)
      BY <3>2, <3>3, <3>4, <3>6 DEF Earlier, Provided
    <3> QED
      BY <2>7, <3>5, <3>7 DEF p
  <2>9. ASSUME NEW pj \in Earlier(k + 1) PROVE F[pj] = JetOut(F, pj[1], pj[2])
    <3>1. PICK m \in 1 .. k + 1 : resolution[m] = pj[1]
      BY DEF Earlier
    <3>2. JetOut(F, pj[1], pj[2]) = JetOut(B, pj[1], pj[2])
      BY <2>8, <3>1, JetOutSame
    <3>3. CASE pj[1] = n
      BY <2>7, <3>2, <3>3
    <3>4. CASE pj[1] # n
      <4>1. pj \in Earlier(k)
        BY <2>6, <3>4
      <4> QED
        BY <2>4, <2>7, <3>2, <3>4, <4>1
    <3> QED
      BY <3>3, <3>4
  <2> QED
    BY <1>1, <2>1, <2>7, <2>9 DEF F
<1> HIDE DEF S
<1>7. \A k \in 0 .. L : k \in S
  BY <1>1, <1>5, <1>6, UpTo
<1>8. L \in S
  BY <1>1, <1>7
<1>9. Earlier(L) = Provided
  <2>1. ASSUME NEW pj \in Provided PROVE \E m \in 1 .. L : resolution[m] = pj[1]
    BY ResolvedOrder DEF Provided
  <2> QED
    BY <2>1
<1> QED
  BY <1>3, <1>8, <1>9 DEF S

-----------------------------------------------------------------------------
(* The chain rule *)

\* All submodels have been evaluated.
Forwarded ==
  /\ Resolved
  /\ inputs \in [Items -> Int]
  /\ outputs \in [Nodes -> [Items -> Int]]
  /\ \A n \in Nodes : UpToDate(n)

\* Providers of a submodel's inputs have jets.
LEMMA ThroughProvided ==
  ASSUME Resolved, NEW n \in Nodes, NEW i \in Through(n)
  PROVE  /\ Provider(n, i) \in NodeProviders(n)
         /\ <<Provider(n, i), i>> \in Provided
<1>1. i \in graph.consumes[n] /\ ~Inbound(n, i) /\ i \in Items
  BY ResolvedOrder, ConsumedItems DEF Through
<1> QED
  BY <1>1, ProviderIs DEF Provided

LEMMA JetsTyped ==
  ASSUME Resolved, inputs \in [Items -> Int]
  PROVE  \A pj \in Provided : Jets[pj] \in JetType
<1> DEFINE S == {n \in Nodes : \A j \in Items : <<n, j>> \in Provided => Jets[<<n, j>>] \in JetType}
<1>1. ASSUME NEW n \in Nodes, NodeProviders(n) \subseteq S PROVE n \in S
  <2>1. ASSUME NEW i \in Through(n) PROVE Jets[<<Provider(n, i), i>>] \in JetType
    <3>1. Provider(n, i) \in S /\ <<Provider(n, i), i>> \in Provided
      BY <1>1, ThroughProvided
    <3>2. i \in Items
      BY <3>1 DEF Provided
    <3> QED
      BY <3>1, <3>2
  <2>2. \A j \in Items : JetOut(Jets, n, j) \in JetType
    BY <2>1, ResolvedOrder, JetTypes
  <2> QED
    BY <2>2, JetsFix
<1>2. S = Nodes
  <2> HIDE DEF S
  <2>1. S \in SUBSET Nodes
    BY DEF S
  <2> QED
    BY <1>1, <2>1, ResolvedOrder, OrderInduction
<1>3. ASSUME NEW pj \in Provided PROVE Jets[pj] \in JetType
  <2>1. pj[1] \in Nodes /\ pj[2] \in Items /\ pj = <<pj[1], pj[2]>>
    BY DEF Provided
  <2> QED
    BY <1>2, <2>1
<1> QED
  BY <1>3

\* The jets of what a submodel reads
LEMMA JetsIn ==
  ASSUME Resolved, inputs \in [Items -> Int], NEW n \in Nodes
  PROVE  \A i \in graph.consumes[n] : JetIn(Jets, n, i) \in JetType
<1>1. ASSUME NEW i \in Through(n) PROVE Jets[<<Provider(n, i), i>>] \in JetType
  BY ThroughProvided, JetsTyped
<1> QED
  BY <1>1, ResolvedOrder, JetTypes

\* Evaluated one after the other, the submodels compute the composed function.
LEMMA ValuesExact ==
  ASSUME Forwarded
  PROVE  /\ \A pj \in Provided : Jets[pj].v = outputs[pj[1]][pj[2]]
         /\ \A n \in Nodes : \A i \in graph.consumes[n] : JetIn(Jets, n, i).v = Linked(n, i)
<1> USE DEF Forwarded
<1> DEFINE S == {n \in Nodes : \A j \in Items : <<n, j>> \in Provided => Jets[<<n, j>>].v = outputs[n][j]}
<1>1. ASSUME NEW n \in Nodes, NodeProviders(n) \subseteq S, NEW i \in graph.consumes[n]
      PROVE  JetIn(Jets, n, i).v = Linked(n, i)
  <2>1. CASE Inbound(n, i)
    BY <2>1 DEF JetIn, Linked
  <2>2. CASE ~Inbound(n, i)
    <3>1. i \in Through(n)
      BY <2>2 DEF Through
    <3>2. Provider(n, i) \in S /\ <<Provider(n, i), i>> \in Provided
      BY <1>1, <3>1, ThroughProvided
    <3>3. i \in Items
      BY <3>2 DEF Provided
    <3>4. Jets[<<Provider(n, i), i>>].v = outputs[Provider(n, i)][i]
      BY <3>2, <3>3
    <3> QED
      BY <2>2, <3>4 DEF JetIn, Linked
  <2> QED
    BY <2>1, <2>2
<1>2. ASSUME NEW n \in Nodes, NodeProviders(n) \subseteq S PROVE n \in S
  <2> SUFFICES ASSUME NEW j \in Items, <<n, j>> \in Provided PROVE Jets[<<n, j>>].v = outputs[n][j]
    OBVIOUS
  <2> DEFINE I == graph.consumes[n]
  <2>1. /\ [i \in I |-> JetIn(Jets, n, i).v] = [i \in I |-> Linked(n, i)]
        /\ [i \in I |-> Weight[n][j][i] * JetIn(Jets, n, i).v] = [i \in I |-> Weight[n][j][i] * Linked(n, i)]
    BY <1>1, <1>2
  <2>2. JetOut(Jets, n, j).v = ValueOf(n, j)
    BY <2>1 DEF JetOut, ValueOf, InputSum
  <2>3. outputs[n][j] = ValueOf(n, j)
    <3>1. j \in graph.provides[n] /\ UpToDate(n)
      BY DEF Provided
    <3> QED
      BY <3>1 DEF UpToDate
  <2> QED
    BY <2>2, <2>3, JetsFix
<1>3. S = Nodes
  <2> HIDE DEF S
  <2>1. S \in SUBSET Nodes
    BY DEF S
  <2> QED
    BY <1>2, <2>1, ResolvedOrder, OrderInduction
<1>4. ASSUME NEW pj \in Provided PROVE Jets[pj].v = outputs[pj[1]][pj[2]]
  <2>1. pj[1] \in Nodes /\ pj[2] \in Items /\ pj = <<pj[1], pj[2]>>
    BY DEF Provided
  <2>2. \A n \in Nodes : \A j \in Items : <<n, j>> \in Provided => Jets[<<n, j>>].v = outputs[n][j]
    BY <1>3
  <2>3. Jets[<<pj[1], pj[2]>>].v = outputs[pj[1]][pj[2]]
    BY <2>1, <2>2
  <2> QED
    BY <2>1, <2>3
<1>5. ASSUME NEW n \in Nodes, NEW i \in graph.consumes[n] PROVE JetIn(Jets, n, i).v = Linked(n, i)
  <2>1. NodeProviders(n) \subseteq S
    BY <1>3, ProvidersAreNodes
  <2> QED
    BY <1>1, <2>1
<1> QED
  BY <1>4, <1>5

\* Linear in the derivatives of the inputs: the direct term, and the one through the
\* sum of the inputs.
LEMMA WeightedSum ==
  ASSUME NEW I, IsFiniteSet(I), NEW W \in [I -> Int], NEW u \in [I -> Int], NEW k \in Int
  PROVE  /\ SumFunction([i \in I |-> (W[i] + k) * u[i]])
               = SumFunction([i \in I |-> W[i] * u[i]]) + k * SumFunction(u)
         /\ SumFunction([i \in I |-> W[i] * u[i]]) \in Int /\ SumFunction(u) \in Int
<1> DEFINE a == [i \in I |-> W[i] * u[i]]
           b == [i \in I |-> k * u[i]]
<1>1. a \in [I -> Int] /\ b \in [I -> Int]
  OBVIOUS
<1>2. [i \in I |-> (W[i] + k) * u[i]] = [i \in I |-> a[i] + b[i]]
  <2>1. ASSUME NEW i \in I PROVE (W[i] + k) * u[i] = W[i] * u[i] + k * u[i]
    <3>1. W[i] \in Int /\ u[i] \in Int
      OBVIOUS
    <3> QED
      BY <3>1
  <2> QED
    BY <2>1
<1>3. SumFunction(b) = k * SumFunction(u)
  BY SumScale
<1>4. SumFunction([i \in I |-> a[i] + b[i]]) = SumFunction(a) + SumFunction(b)
  <2> HIDE DEF a, b
  <2> QED
    BY <1>1, SumAdd
<1>5. SumFunction(a) \in Int /\ SumFunction(u) \in Int
  BY <1>1, SumInt
<1> QED
  BY <1>2, <1>3, <1>4, <1>5

\* First derivatives are stored for derivatives of either order, second ones for the
\* second.
Sloped == Forwarded /\ asked # {}

Bent == Forwarded /\ 2 \in asked

LEMMA StoredAsAsked ==
  ASSUME Sloped, NEW n \in Nodes, NEW j \in Items
  PROVE  /\ \A i \in Items : slopes[n][j][i] = Partial(n, j, i)
         /\ Bent => bends[n][j] = SecondPartial(n, j)
<1>1. UpToDate(n)
  BY DEF Sloped, Forwarded
<1>2. slopes[n] = [k \in Items |-> [i \in Items |-> Partial(n, k, i)]]
  BY <1>1 DEF UpToDate, Sloped
<1>3. Bent => bends[n] = [k \in Items |-> SecondPartial(n, k)]
  BY <1>1 DEF UpToDate, Bent
<1> QED
  BY <1>2, <1>3

\* One step of the chain rule: right for an output if it is for the outputs that its
\* inputs are linked to.
LEMMA ChainedExact ==
  ASSUME Sloped, NEW n \in Nodes, NEW j \in Items, NEW Dy,
         \A i \in Through(n) : Dy[<<Provider(n, i), i>>] = Jets[<<Provider(n, i), i>>].g
  PROVE  Chained(Dy, n, j) = JetOut(Jets, n, j).g
<1>0. \A i \in Items : slopes[n][j][i] = Partial(n, j, i)
  BY StoredAsAsked
<1> USE DEF Sloped, Forwarded
<1> DEFINE I == graph.consumes[n]
           W == Weight[n][j]
           k == 2 * Curve[n][j] * InputSum(n)
           g(i) == JetIn(Jets, n, i).g
<1>1. I \subseteq Items /\ IsFiniteSet(I)
  BY ResolvedOrder, ConsumedItems
<1>2. W \in [Items -> Int] /\ k \in Int
  <2>1. InputSum(n) \in Int
    BY ResolvedOrder, ValuesInt
  <2> QED
    BY <2>1, ComposedAssumption
<1>3. ASSUME NEW i \in I PROVE g(i) \in [Items -> Int] /\ Du(Dy, n, i) = g(i)
  <2>1. g(i) \in [Items -> Int]
    BY JetsIn DEF JetType
  <2>2. Du(Dy, n, i) = g(i)
    BY DEF Du, JetIn, Through
  <2> QED
    BY <2>1, <2>2
<1>4. InputSum(n) = SumFunction([i \in I |-> JetIn(Jets, n, i).v])
  <2>1. [i \in I |-> JetIn(Jets, n, i).v] = [i \in I |-> Linked(n, i)]
    BY ValuesExact
  <2> QED
    BY <2>1 DEF InputSum
<1>5. JetOut(Jets, n, j).g
        = [x \in Items |-> SumFunction([i \in I |-> W[i] * g(i)[x]]) + k * SumFunction([i \in I |-> g(i)[x]])]
  BY <1>4 DEF JetOut
<1>6. ASSUME NEW x \in Items
      PROVE  SumFunction([i \in I |-> slopes[n][j][i] * Du(Dy, n, i)[x]])
               = SumFunction([i \in I |-> W[i] * g(i)[x]]) + k * SumFunction([i \in I |-> g(i)[x]])
  <2> DEFINE V == [i \in I |-> W[i]]
             u == [i \in I |-> g(i)[x]]
  <2>1. V \in [I -> Int] /\ u \in [I -> Int]
    BY <1>1, <1>2, <1>3
  <2>2. /\ [i \in I |-> slopes[n][j][i] * Du(Dy, n, i)[x]] = [i \in I |-> (V[i] + k) * u[i]]
        /\ [i \in I |-> W[i] * g(i)[x]] = [i \in I |-> V[i] * u[i]]
    BY <1>0, <1>1, <1>3 DEF Partial
  <2> HIDE DEF V, u, k, I, W, g, Forwarded, Sloped
  <2>3. SumFunction([i \in I |-> (V[i] + k) * u[i]])
          = SumFunction([i \in I |-> V[i] * u[i]]) + k * SumFunction(u)
    <3>1. IsFiniteSet(I) /\ k \in Int
      BY <1>1, <1>2
    <3> QED
      BY <2>1, <3>1, WeightedSum
  <2>4. SumFunction([i \in I |-> slopes[n][j][i] * Du(Dy, n, i)[x]]) = SumFunction([i \in I |-> (V[i] + k) * u[i]])
    BY <2>2
  <2>5. SumFunction([i \in I |-> W[i] * g(i)[x]]) = SumFunction([i \in I |-> V[i] * u[i]])
    BY <2>2
  <2>6. SumFunction([i \in I |-> g(i)[x]]) = SumFunction(u)
    BY DEF u
  <2> QED
    BY <2>3, <2>4, <2>5, <2>6
<1> QED
  BY <1>5, <1>6 DEF Chained

\* The total derivatives are the derivatives of the composed function.
LEMMA DerivativesExact ==
  ASSUME Sloped
  PROVE  \A pj \in Provided : TotalDerivatives[pj] = Jets[pj].g
<1> USE DEF Sloped, Forwarded
<1> DEFINE Def(d) == d = [pj \in Nodes \X Items |-> Chained(d, pj[1], pj[2])]
           D == [pj \in Nodes \X Items |-> JetOut(Jets, pj[1], pj[2]).g]
<1>1. Def(D)
  <2>1. ASSUME NEW n \in Nodes, NEW i \in Through(n)
        PROVE  D[<<Provider(n, i), i>>] = Jets[<<Provider(n, i), i>>].g
    <3>1. <<Provider(n, i), i>> \in Provided
      BY ThroughProvided
    <3> QED
      BY <3>1, JetsFix DEF Provided
  <2> HIDE DEF D
  <2>2. ASSUME NEW n \in Nodes, NEW j \in Items PROVE Chained(D, n, j) = JetOut(Jets, n, j).g
    BY <2>1, ChainedExact
  <2> QED
    BY <2>2 DEF D
<1>2. Def(TotalDerivatives)
  BY <1>1 DEF TotalDerivatives
<1> DEFINE Dy == TotalDerivatives
<1> HIDE DEF Dy, D
<1>3. ASSUME NEW n \in Nodes, NEW j \in Items PROVE Dy[<<n, j>>] = Chained(Dy, n, j)
  BY <1>2 DEF Dy
<1> DEFINE S == {n \in Nodes : \A j \in Items : <<n, j>> \in Provided => Dy[<<n, j>>] = Jets[<<n, j>>].g}
<1>4. ASSUME NEW n \in Nodes, NodeProviders(n) \subseteq S PROVE n \in S
  <2>1. ASSUME NEW i \in Through(n) PROVE Dy[<<Provider(n, i), i>>] = Jets[<<Provider(n, i), i>>].g
    <3>1. Provider(n, i) \in S /\ <<Provider(n, i), i>> \in Provided
      BY <1>4, ThroughProvided
    <3>2. i \in Items
      BY <3>1 DEF Provided
    <3> QED
      BY <3>1, <3>2
  <2>2. ASSUME NEW j \in Items, <<n, j>> \in Provided PROVE Dy[<<n, j>>] = Jets[<<n, j>>].g
    <3>1. Chained(Dy, n, j) = JetOut(Jets, n, j).g
      BY <2>1, ChainedExact
    <3> QED
      BY <1>3, <2>2, <3>1, JetsFix
  <2> QED
    BY <2>2
<1>5. S = Nodes
  <2> HIDE DEF S
  <2>1. S \in SUBSET Nodes
    BY DEF S
  <2> QED
    BY <1>4, <2>1, ResolvedOrder, OrderInduction
<1>6. ASSUME NEW pj \in Provided PROVE Dy[pj] = Jets[pj].g
  <2>1. pj[1] \in Nodes /\ pj[2] \in Items /\ pj = <<pj[1], pj[2]>>
    BY DEF Provided
  <2> QED
    BY <1>5, <2>1
<1> QED
  BY <1>6 DEF Dy


\* The term of the second derivatives through two inputs
ScaledProducts(S, k, a, b) == [ik \in S \X S |-> k * a[ik[1]] * b[ik[2]]]

LEMMA WeightedPairs ==
  ASSUME NEW I, IsFiniteSet(I), NEW a \in [I -> Int], NEW b \in [I -> Int], NEW k \in Int
  PROVE  SumFunction(ScaledProducts(I, k, a, b)) = k * (SumFunction(a) * SumFunction(b))
<1> DEFINE c == Products(I, a, b)
<1>1. c \in [I \X I -> Int] /\ IsFiniteSet(I \X I)
  BY FS_Product DEF Products
<1>2. SumFunction(c) = SumFunction(a) * SumFunction(b)
  BY SumPairs
<1>3. ScaledProducts(I, k, a, b) = [ik \in I \X I |-> k * c[ik]]
  <2>1. ASSUME NEW ik \in I \X I PROVE k * a[ik[1]] * b[ik[2]] = k * c[ik]
    <3> DEFINE p == a[ik[1]]
               q == b[ik[2]]
    <3>1. p \in Int /\ q \in Int /\ c[ik] = p * q
      BY DEF Products
    <3> HIDE DEF p, q, c
    <3>2. k * p * q = k * c[ik]
      BY <3>1
    <3> QED
      BY <3>2 DEF p, q
  <2> QED
    BY <2>1 DEF ScaledProducts
<1> HIDE DEF c
<1>4. SumFunction([ik \in I \X I |-> k * c[ik]]) = k * SumFunction(c)
  BY <1>1, SumScale
<1> QED
  BY <1>2, <1>3, <1>4

\* The term through the second derivatives of the inputs: those that are inputs of the
\* composed model have none.
Weighted(S, W, k, u) == [i \in S |-> (W[i] + k) * u[i]]

LEMMA WeightedPart ==
  ASSUME NEW I, IsFiniteSet(I), NEW W \in [I -> Int], NEW u \in [I -> Int], NEW k \in Int,
         NEW N \in SUBSET I, \A i \in I \ N : u[i] = 0
  PROVE  SumFunction(Weighted(N, W, k, u)) = SumFunction([i \in I |-> W[i] * u[i]]) + k * SumFunction(u)
<1> DEFINE a == [i \in I |-> (W[i] + k) * u[i]]
<1>1. a \in [I -> Int]
  <2>1. \A i \in I : W[i] \in Int /\ u[i] \in Int
    OBVIOUS
  <2> QED
    BY <2>1
<1>2. \A i \in I \ N : a[i] = 0
  <2>1. ASSUME NEW i \in I \ N PROVE a[i] = 0
    <3>1. W[i] + k \in Int /\ u[i] = 0 /\ a[i] = (W[i] + k) * u[i]
      OBVIOUS
    <3> QED
      BY <3>1
  <2> QED
    BY <2>1
<1>3. Part(a, N) = Weighted(N, W, k, u)
  BY DEF Part, Weighted
<1>4. SumFunction(a) = SumFunction([i \in I |-> W[i] * u[i]]) + k * SumFunction(u)
  BY WeightedSum
<1> HIDE DEF a
<1>5. SumFunction(Part(a, N)) = SumFunction(a)
  BY <1>1, <1>2, SumNonzero
<1> QED
  BY <1>3, <1>4, <1>5

\* The same step for the second derivatives.
LEMMA ChainedTwiceExact ==
  ASSUME Bent, NEW n \in Nodes, NEW j \in Items, NEW Dy, NEW D2y,
         \A i \in Through(n) : /\ Dy[<<Provider(n, i), i>>] = Jets[<<Provider(n, i), i>>].g
                               /\ D2y[<<Provider(n, i), i>>] = Jets[<<Provider(n, i), i>>].h
  PROVE  ChainedTwice(Dy, D2y, n, j) = JetOut(Jets, n, j).h
<1>0. /\ \A i \in Items : slopes[n][j][i] = Partial(n, j, i)
      /\ bends[n][j] = SecondPartial(n, j)
  BY StoredAsAsked DEF Bent, Sloped
<1> USE DEF Bent, Forwarded
<1> DEFINE I == graph.consumes[n]
           W == Weight[n][j]
           C == Curve[n][j]
           v == InputSum(n)
           g(i) == JetIn(Jets, n, i).g
           h(i) == JetIn(Jets, n, i).h
           sum(x) == SumFunction([i \in I |-> g(i)[x]])
<1>1. I \subseteq Items /\ IsFiniteSet(I)
  BY ResolvedOrder, ConsumedItems
<1>2. W \in [Items -> Int] /\ C \in Int /\ v \in Int
  BY ResolvedOrder, ValuesInt, ComposedAssumption
<1>3. ASSUME NEW i \in I
      PROVE  /\ g(i) \in [Items -> Int] /\ h(i) \in [Items \X Items -> Int]
             /\ Du(Dy, n, i) = g(i)
             /\ i \in Through(n) => D2y[<<Provider(n, i), i>>] = h(i)
             /\ i \notin Through(n) => h(i) = [xz \in Items \X Items |-> 0]
  <2>1. g(i) \in [Items -> Int] /\ h(i) \in [Items \X Items -> Int]
    BY JetsIn DEF JetType
  <2>2. Du(Dy, n, i) = g(i)
    BY DEF Du, JetIn, Through
  <2>3. /\ i \in Through(n) => D2y[<<Provider(n, i), i>>] = h(i)
        /\ i \notin Through(n) => h(i) = [xz \in Items \X Items |-> 0]
    BY DEF JetIn, Through
  <2> QED
    BY <2>1, <2>2, <2>3
<1>4. v = SumFunction([i \in I |-> JetIn(Jets, n, i).v])
  <2>1. [i \in I |-> JetIn(Jets, n, i).v] = [i \in I |-> Linked(n, i)]
    BY ValuesExact
  <2> QED
    BY <2>1 DEF InputSum
<1>5. JetOut(Jets, n, j).h
        = [xz \in Items \X Items |->
             SumFunction([i \in I |-> W[i] * h(i)[xz]])
               + 2 * C * (sum(xz[1]) * sum(xz[2]) + v * SumFunction([i \in I |-> h(i)[xz]]))]
  BY <1>4 DEF JetOut
<1>6. Through(n) \in SUBSET I
  BY DEF Through
<1> HIDE DEF I, W, C, v, g, h, sum, Forwarded, Bent
<1>7. ASSUME NEW xz \in Items \X Items, NEW i \in I
       PROVE  g(i)[xz[1]] \in Int /\ g(i)[xz[2]] \in Int
  BY <1>3
<1>8. ASSUME NEW xz \in Items \X Items, NEW i \in I PROVE h(i)[xz] \in Int
  BY <1>3
<1>9. ASSUME NEW xz \in Items \X Items
      PROVE  SumFunction([ik \in I \X I |-> bends[n][j] * Du(Dy, n, ik[1])[xz[1]] * Du(Dy, n, ik[2])[xz[2]]])
               = 2 * C * (sum(xz[1]) * sum(xz[2]))
  <2> DEFINE a == [i \in I |-> g(i)[xz[1]]]
             b == [i \in I |-> g(i)[xz[2]]]
             c == 2 * C
  <2>1. a \in [I -> Int] /\ b \in [I -> Int] /\ c \in Int
    <3>1. \A i \in I : g(i)[xz[1]] \in Int /\ g(i)[xz[2]] \in Int
      BY <1>7
    <3> QED
      BY <1>2, <3>1
  <2>2. [ik \in I \X I |-> bends[n][j] * Du(Dy, n, ik[1])[xz[1]] * Du(Dy, n, ik[2])[xz[2]]]
          = ScaledProducts(I, c, a, b)
    BY <1>0, <1>3 DEF SecondPartial, C, ScaledProducts
  <2>3. SumFunction(a) = sum(xz[1]) /\ SumFunction(b) = sum(xz[2])
    BY DEF sum
  <2> HIDE DEF a, b, c
  <2>4. SumFunction(ScaledProducts(I, c, a, b)) = c * (SumFunction(a) * SumFunction(b))
    <3>1. IsFiniteSet(I)
      BY <1>1
    <3> QED
      BY <2>1, <3>1, WeightedPairs
  <2> QED
    BY <2>2, <2>3, <2>4 DEF c
<1>10. ASSUME NEW xz \in Items \X Items
      PROVE  SumFunction([i \in Through(n) |-> slopes[n][j][i] * D2y[<<Provider(n, i), i>>][xz]])
               = SumFunction([i \in I |-> W[i] * h(i)[xz]]) + 2 * C * v * SumFunction([i \in I |-> h(i)[xz]])
  <2> DEFINE V == [i \in I |-> W[i]]
             u == [i \in I |-> h(i)[xz]]
             k == 2 * C * v
             N == Through(n)
  <2>1. V \in [I -> Int] /\ u \in [I -> Int] /\ k \in Int
    <3>1. \A i \in I : h(i)[xz] \in Int /\ W[i] \in Int
      BY <1>1, <1>2, <1>8
    <3>2. k \in Int
      BY <1>2
    <3> QED
      BY <3>1, <3>2
  <2>2. \A i \in I \ N : u[i] = 0
    BY <1>3
  <2>3. [i \in N |-> slopes[n][j][i] * D2y[<<Provider(n, i), i>>][xz]] = Weighted(N, V, k, u)
    <3>1. ASSUME NEW i \in N
          PROVE  slopes[n][j][i] = V[i] + k /\ D2y[<<Provider(n, i), i>>][xz] = u[i]
      <4>1. i \in I
        BY <1>6
      <4> QED
        BY <1>0, <1>1, <1>3, <4>1 DEF Partial, W, C, v
    <3> QED
      BY <3>1 DEF Weighted
  <2>4. [i \in I |-> W[i] * h(i)[xz]] = [i \in I |-> V[i] * u[i]]
    OBVIOUS
  <2>5. SumFunction([i \in I |-> h(i)[xz]]) = SumFunction(u)
    OBVIOUS
  <2> HIDE DEF V, u, k, N
  <2>6. SumFunction(Weighted(N, V, k, u)) = SumFunction([i \in I |-> V[i] * u[i]]) + k * SumFunction(u)
    <3>1. N \in SUBSET I
      BY <1>6 DEF N
    <3>2. IsFiniteSet(I)
      BY <1>1
    <3> QED
      BY <2>1, <2>2, <3>1, <3>2, WeightedPart
  <2>7. SumFunction([i \in N |-> slopes[n][j][i] * D2y[<<Provider(n, i), i>>][xz]])
          = SumFunction([i \in I |-> W[i] * h(i)[xz]]) + k * SumFunction([i \in I |-> h(i)[xz]])
    BY <2>3, <2>4, <2>5, <2>6
  <2> QED
    BY <2>7 DEF N, k
<1>11. ASSUME NEW xz \in Items \X Items
      PROVE  SumFunction([i \in I |-> h(i)[xz]]) \in Int /\ SumFunction([i \in I |-> W[i] * h(i)[xz]]) \in Int
  <2>1. [i \in I |-> h(i)[xz]] \in [I -> Int] /\ [i \in I |-> W[i] * h(i)[xz]] \in [I -> Int]
    <3>1. \A i \in I : h(i)[xz] \in Int /\ W[i] \in Int
      BY <1>1, <1>2, <1>8
    <3> QED
      BY <3>1
  <2> QED
    BY <1>1, <2>1, SumInt
<1>12. ASSUME NEW x \in Items PROVE sum(x) \in Int
  <2>1. [i \in I |-> g(i)[x]] \in [I -> Int]
    BY <1>3
  <2> QED
    BY <1>1, <2>1, SumInt DEF sum
<1>13. ASSUME NEW xz \in Items \X Items
       PROVE  ChainedTwice(Dy, D2y, n, j)[xz] = JetOut(Jets, n, j).h[xz]
  <2> DEFINE s == SumFunction([i \in I |-> h(i)[xz]])
             w == SumFunction([i \in I |-> W[i] * h(i)[xz]])
             p == sum(xz[1])
             q == sum(xz[2])
  <2>1. s \in Int /\ w \in Int /\ p \in Int /\ q \in Int
    BY <1>11, <1>12
  <2>2. ChainedTwice(Dy, D2y, n, j)[xz] = 2 * C * (p * q) + (w + 2 * C * v * s)
    BY <1>9, <1>10 DEF ChainedTwice, I
  <2>3. JetOut(Jets, n, j).h[xz] = w + 2 * C * (p * q + v * s)
    BY <1>5
  <2> HIDE DEF s, w, p, q
  <2>4. 2 * C * (p * q) + (w + 2 * C * v * s) = w + 2 * C * (p * q + v * s)
    BY <1>2, <2>1
  <2> QED
    BY <2>2, <2>3, <2>4
<1>14. ChainedTwice(Dy, D2y, n, j) = [xz \in Items \X Items |-> ChainedTwice(Dy, D2y, n, j)[xz]]
  BY DEF ChainedTwice
<1>15. JetOut(Jets, n, j).h = [xz \in Items \X Items |-> JetOut(Jets, n, j).h[xz]]
  BY <1>5
<1> QED
  BY <1>13, <1>14, <1>15


\* The total second derivatives are those of the composed function.
LEMMA SecondDerivativesExact ==
  ASSUME Bent
  PROVE  \A pj \in Provided : TotalSecondDerivatives[pj] = Jets[pj].h
<1> DEFINE Dy == TotalDerivatives
           Def(d) == d = [pj \in Nodes \X Items |-> ChainedTwice(Dy, d, pj[1], pj[2])]
           D == [pj \in Nodes \X Items |-> JetOut(Jets, pj[1], pj[2]).h]
<1>1. Resolved
  BY DEF Bent, Forwarded
<1>2. TotalSecondDerivatives = CHOOSE d : Def(d)
  BY DEF TotalSecondDerivatives
<1>3. ASSUME NEW n \in Nodes, NEW i \in Through(n) PROVE Dy[<<Provider(n, i), i>>] = Jets[<<Provider(n, i), i>>].g
  <2>1. Sloped
    BY DEF Bent, Sloped
  <2> QED
    BY <1>1, <2>1, ThroughProvided, DerivativesExact
<1> HIDE DEF Dy
<1>4. Def(D)
  <2>1. ASSUME NEW n \in Nodes, NEW i \in Through(n)
        PROVE  D[<<Provider(n, i), i>>] = Jets[<<Provider(n, i), i>>].h
    <3>1. <<Provider(n, i), i>> \in Provided
      BY <1>1, ThroughProvided
    <3> QED
      BY <1>1, <3>1, JetsFix DEF Provided
  <2> HIDE DEF D
  <2>2. ASSUME NEW n \in Nodes, NEW j \in Items PROVE ChainedTwice(Dy, D, n, j) = JetOut(Jets, n, j).h
    BY <1>3, <2>1, ChainedTwiceExact
  <2> QED
    BY <2>2 DEF D
<1> DEFINE D2y == TotalSecondDerivatives
<1>5. Def(D2y)
  BY <1>2, <1>4
<1> HIDE DEF D2y, D
<1>6. ASSUME NEW n \in Nodes, NEW j \in Items PROVE D2y[<<n, j>>] = ChainedTwice(Dy, D2y, n, j)
  BY <1>5
<1> DEFINE S == {n \in Nodes : \A j \in Items : <<n, j>> \in Provided => D2y[<<n, j>>] = Jets[<<n, j>>].h}
<1>7. ASSUME NEW n \in Nodes, NodeProviders(n) \subseteq S PROVE n \in S
  <2>1. ASSUME NEW i \in Through(n) PROVE D2y[<<Provider(n, i), i>>] = Jets[<<Provider(n, i), i>>].h
    <3>1. Provider(n, i) \in S /\ <<Provider(n, i), i>> \in Provided
      BY <1>1, <1>7, ThroughProvided
    <3>2. i \in Items
      BY <3>1 DEF Provided
    <3> QED
      BY <3>1, <3>2
  <2>2. ASSUME NEW j \in Items, <<n, j>> \in Provided PROVE D2y[<<n, j>>] = Jets[<<n, j>>].h
    <3>1. ChainedTwice(Dy, D2y, n, j) = JetOut(Jets, n, j).h
      BY <1>3, <2>1, ChainedTwiceExact
    <3>2. D2y[<<n, j>>] = ChainedTwice(Dy, D2y, n, j)
      BY <1>6
    <3>3. Jets[<<n, j>>] = JetOut(Jets, n, j)
      BY <1>1, <2>2, JetsFix
    <3> QED
      BY <3>1, <3>2, <3>3
  <2> QED
    BY <2>2
<1>8. S = Nodes
  <2> HIDE DEF S
  <2>1. S \in SUBSET Nodes
    BY DEF S
  <2> QED
    BY <1>1, <1>7, <2>1, ResolvedOrder, OrderInduction
<1>9. ASSUME NEW pj \in Provided PROVE D2y[pj] = Jets[pj].h
  <2>1. pj[1] \in Nodes /\ pj[2] \in Items /\ pj = <<pj[1], pj[2]>>
    BY DEF Provided
  <2> QED
    BY <1>8, <2>1
<1> QED
  BY <1>9 DEF D2y

\* The outputs of the composed model are outputs of its submodels.
LEMMA OutputsProvided == OutItems \subseteq Provided
  BY DEF OutItems, Provided

LEMMA DerivativesTyped ==
  ASSUME Sloped, NEW pj \in OutItems
  PROVE  /\ TotalDerivatives[pj] \in [Items -> Int]
         /\ Bent => TotalSecondDerivatives[pj] \in [Items \X Items -> Int]
<1>1. pj \in Provided
  BY OutputsProvided
<1>2. Jets[pj] \in JetType
  BY <1>1, JetsTyped DEF Sloped, Forwarded
<1>3. TotalDerivatives[pj] = Jets[pj].g /\ (Bent => TotalSecondDerivatives[pj] = Jets[pj].h)
  BY <1>1, DerivativesExact, SecondDerivativesExact
<1> QED
  BY <1>2, <1>3 DEF JetType

-----------------------------------------------------------------------------
(* The steps *)

\* What has been evaluated stays so where neither the graph nor the values read change.
LEMMA UpToDateKept ==
  ASSUME graph' = graph, inputs' = inputs, asked' = asked, NEW n \in Nodes,
         outputs'[n] = outputs[n], slopes'[n] = slopes[n], bends'[n] = bends[n],
         \A p \in NodeProviders(n) : outputs'[p] = outputs[p], UpToDate(n)
  PROVE  UpToDate(n)'
<1>1. /\ \A j : ValueOf(n, j)' = ValueOf(n, j)
      /\ \A j, i : Partial(n, j, i)' = Partial(n, j, i)
  BY ValueKept
<1>2. /\ [j \in Items |-> IF j \in graph'.provides[n] THEN ValueOf(n, j)' ELSE 0]
           = [j \in Items |-> IF j \in graph.provides[n] THEN ValueOf(n, j) ELSE 0]
      /\ [j \in Items |-> [i \in Items |-> IF asked' # {} THEN Partial(n, j, i)' ELSE 0]]
           = [j \in Items |-> [i \in Items |-> IF asked # {} THEN Partial(n, j, i) ELSE 0]]
      /\ [j \in Items |-> IF 2 \in asked' THEN SecondPartial(n, j) ELSE 0]
           = [j \in Items |-> IF 2 \in asked THEN SecondPartial(n, j) ELSE 0]
  BY <1>1
<1> QED
  BY <1>2 DEF UpToDate, SecondPartial

\* The outputs of the composed model depend on the graph only.
LEMMA OutputsKept ==
  ASSUME graph' = graph
  PROVE  OutItems' = OutItems /\ Duplicate' = Duplicate /\ InputVariables' = InputVariables
<1>1. OutItems' = OutItems
  BY DEF OutItems, Consumers, Providers, MayFeed, Priority
<1>2. InItems' = InItems
  BY DEF InItems, Providers, Consumed, MayFeed, Priority
<1> QED
  BY <1>1, <1>2 DEF Duplicate, InputVariables

LEMMA CInitial ==
  ASSUME CInit PROVE CInv
<1>1. Init => IInv
  BY InitInvariant DEF Init, IInv, EndsVisited
<1>2. IInv /\ resolution = <<>>
  BY <1>1 DEF CInit, Init
<1>3. inputs \in [Items -> Int] /\ StoredTyped
  BY DEF CInit, StoredTyped
<1>4. derivs = <<>> /\ derivs2 = <<>> /\ DOMAIN derivs = {} /\ DOMAIN derivs2 = {}
  BY DEF CInit
<1>5. DerivsTyped
  BY <1>4 DEF DerivsTyped
<1>6. MaxCalls \in Nat
  BY ComposedAssumption
<1>7. position \in 1 .. Len(resolution) + 1
  BY <1>2 DEF CInit
<1> QED
  BY <1>2, <1>3, <1>5, <1>6, <1>7 DEF CInit, CInv, Constructed

LEMMA ResolveModelsKeeps ==
  ASSUME CInv, ResolveModels PROVE CInv'
<1>1. IInv'
  BY StepInvariant DEF CInv, ResolveModels
<1>2. DOMAIN derivs = {} /\ DOMAIN derivs2 = {}
  BY DEF CInv, DerivsTyped, Constructed, ResolveModels
<1>3. DerivsTyped'
  BY <1>2 DEF DerivsTyped, ResolveModels
<1>4. Len(resolution') \in Nat
  BY <1>1, LenProperties DEF IInv, SearchInv, TypeOK
<1>5. (position \in 1 .. Len(resolution) + 1)'
  BY <1>4 DEF CInv, ResolveModels
<1> QED
  BY <1>1, <1>3, <1>5 DEF CInv, ResolveModels, Constructed, StoredTyped

LEMMA ConstructKeeps ==
  ASSUME CInv, Construct PROVE CInv'
<1>1. graph' = graph /\ resolution' = resolution /\ vars' = vars
  BY DEF Construct, vars
<1>2. IInv'
  BY <1>1, StepInvariant DEF CInv
<1>3. DOMAIN derivs = {} /\ DOMAIN derivs2 = {}
  BY DEF CInv, DerivsTyped, Constructed, Construct
<1>4. DerivsTyped'
  BY <1>3 DEF DerivsTyped, Construct
<1>5. call' \in {"duplicate", "ready"} /\ (call' = "ready" => ~Duplicate')
  BY <1>1, OutputsKept DEF Construct
<1>6. phase' = "resolved"
  BY DEF Construct, vars
<1> QED
  BY <1>1, <1>2, <1>4, <1>5, <1>6 DEF CInv, Construct, Constructed, StoredTyped

LEMMA EvaluateKeeps ==
  ASSUME CInv, NEW v \in Values, NEW orders \in SUBSET {1, 2}, Evaluate(v, orders) PROVE CInv'
<1>1. graph' = graph /\ resolution' = resolution /\ vars' = vars /\ phase' = phase
  BY DEF Evaluate, vars
<1>2. IInv'
  BY <1>1, StepInvariant DEF CInv
<1>3. OutItems' = OutItems /\ Duplicate' = Duplicate
  BY <1>1, OutputsKept
<1>4. DerivsTyped'
  BY <1>3 DEF CInv, DerivsTyped, Constructed, Evaluate
<1>5. inputs' \in [Items -> Int]
  BY ComposedAssumption DEF Evaluate
<1>6. calls' \in 0 .. MaxCalls
  BY ComposedAssumption DEF CInv, Evaluate
<1>7. (position \in 1 .. Len(resolution) + 1)'
  <2>1. Len(resolution) \in Nat
    BY LenProperties DEF CInv, IInv, SearchInv, TypeOK
  <2> QED
    BY <1>1, <2>1 DEF Evaluate
<1>8. (\A k \in 1 .. position - 1 : UpToDate(resolution[k]))'
  BY DEF Evaluate
<1> QED
  BY <1>1, <1>2, <1>3, <1>4, <1>5, <1>6, <1>7, <1>8 DEF CInv, Evaluate, Constructed, StoredTyped


\* The submodels evaluated before this one do not read its outputs.
LEMMA ForwardSubmodelKeeps ==
  ASSUME CInv, ForwardSubmodel PROVE CInv'
<1>1. /\ graph' = graph /\ resolution' = resolution /\ vars' = vars /\ phase' = phase
      /\ inputs' = inputs /\ asked' = asked
  BY DEF ForwardSubmodel, vars
<1>2. IInv'
  BY <1>1, StepInvariant DEF CInv
<1>3. OutItems' = OutItems /\ Duplicate' = Duplicate
  BY <1>1, OutputsKept
<1>4. DerivsTyped'
  BY <1>3 DEF CInv, DerivsTyped, Constructed, ForwardSubmodel
<1>5. Resolved
  BY DEF CInv, ForwardSubmodel, Resolved
<1>6. Len(resolution) \in Nat /\ position \in 1 .. Len(resolution) /\ resolution[position] \in Nodes
  <2>1. Len(resolution) \in Nat
    BY <1>5, ResolvedOrder
  <2>2. position \in 1 .. Len(resolution)
    BY <2>1 DEF CInv, ForwardSubmodel
  <2> QED
    BY <1>5, <2>1, <2>2, ResolvedOrder
<1> PICK n \in Nodes : n = resolution[position]
  BY <1>6
<1>7. (position \in 1 .. Len(resolution) + 1)' /\ position' = position + 1
  BY <1>1, <1>6 DEF ForwardSubmodel
<1>8. /\ inputs \in [Items -> Int] /\ outputs \in [Nodes -> [Items -> Int]] /\ graph \in GraphType
      /\ \A k \in 1 .. position - 1 : UpToDate(resolution[k])
  BY DEF CInv, StoredTyped, ForwardSubmodel, IInv, SearchInv, TypeOK
<1> DEFINE new == [j \in Items |-> IF j \in graph.provides[n] THEN ValueOf(n, j) ELSE 0]
<1> DEFINE newSlopes == [j \in Items |-> [i \in Items |-> IF asked # {} THEN Partial(n, j, i) ELSE 0]]
           newBends == [j \in Items |-> IF 2 \in asked THEN SecondPartial(n, j) ELSE 0]
<1>9. outputs' = [outputs EXCEPT ![n] = new] /\ slopes' = [slopes EXCEPT ![n] = newSlopes] /\ bends' = [bends EXCEPT ![n] = newBends]
  BY DEF ForwardSubmodel
<1>10. new \in [Items -> Int] /\ newSlopes \in [Items -> [Items -> Int]] /\ newBends \in [Items -> Int]
  <2>1. /\ \A j \in Items : ValueOf(n, j) \in Int /\ SecondPartial(n, j) \in Int
        /\ \A j, i \in Items : Partial(n, j, i) \in Int
    BY <1>6, <1>8, ValuesInt
  <2> QED
    BY <2>1
<1>11. /\ StoredTyped'
       /\ \A m \in Nodes : m # n => outputs'[m] = outputs[m] /\ slopes'[m] = slopes[m] /\ bends'[m] = bends[m]
       /\ outputs'[n] = new /\ slopes'[n] = newSlopes /\ bends'[n] = newBends
  <2> HIDE DEF new, newSlopes, newBends
  <2>1. StoredTyped
    BY DEF CInv
  <2> QED
    BY <1>6, <1>9, <1>10, <2>1 DEF StoredTyped
<1>12. ASSUME NEW k \in 1 .. position
       PROVE  /\ resolution[k] \in Nodes
              /\ \A p \in NodeProviders(resolution[k]) : outputs'[p] = outputs[p]
  <2>1. k \in 1 .. Len(resolution) /\ resolution[k] \in Nodes
    BY <1>5, <1>6, ResolvedOrder
  <2>2. ASSUME NEW p \in NodeProviders(resolution[k]) PROVE outputs'[p] = outputs[p]
    <3>1. PICK j \in 1 .. k - 1 : resolution[j] = p
      BY <1>5, <2>1, ResolvedOrder
    <3>2. j \in 1 .. Len(resolution) /\ j # position
      BY <1>6, <2>1, <3>1
    <3>3. p # n /\ p \in Nodes
      BY <1>5, <1>6, <3>1, <3>2, ResolvedOrder
    <3> QED
      BY <1>11, <3>3
  <2> QED
    BY <2>1, <2>2
<1>13. ASSUME NEW k \in 1 .. position PROVE UpToDate(resolution[k])'
  <2>1. CASE k = position
    <3>1. \A p \in NodeProviders(n) : outputs'[p] = outputs[p]
      BY <1>12, <2>1
    <3>2. (\A j : ValueOf(n, j)' = ValueOf(n, j)) /\ (\A j, i : Partial(n, j, i)' = Partial(n, j, i))
      BY <1>1, <3>1, ValueKept
    <3>3. /\ outputs'[n] = [j \in Items |-> IF j \in graph'.provides[n] THEN ValueOf(n, j)' ELSE 0]
          /\ slopes'[n] = [j \in Items |-> [i \in Items |-> IF asked' # {} THEN Partial(n, j, i)' ELSE 0]]
          /\ bends'[n] = [j \in Items |-> IF 2 \in asked' THEN SecondPartial(n, j) ELSE 0]
      BY <1>1, <1>11, <3>2
    <3>4. resolution'[k] = n
      BY <1>1, <2>1
    <3> QED
      BY <3>3, <3>4 DEF UpToDate, SecondPartial
  <2>2. CASE k # position
    <3>1. PICK m \in Nodes : m = resolution[k]
      BY <1>12
    <3>2. k \in 1 .. position - 1 /\ k \in 1 .. Len(resolution)
      BY <1>6, <2>2
    <3>3. m # n
      BY <1>5, <1>6, <2>2, <3>1, <3>2, ResolvedOrder
    <3>4. UpToDate(m) /\ outputs'[m] = outputs[m] /\ slopes'[m] = slopes[m] /\ bends'[m] = bends[m]
      BY <1>8, <1>11, <3>1, <3>2, <3>3
    <3>5. \A p \in NodeProviders(m) : outputs'[p] = outputs[p]
      BY <1>12, <3>1
    <3>6. resolution'[k] = m
      BY <1>1, <3>1
    <3>7. UpToDate(m)'
      BY <1>1, <3>3, <3>4, <3>5, UpToDateKept
    <3> QED
      BY <3>6, <3>7
  <2> QED
    BY <2>1, <2>2
<1>14. (\A k \in 1 .. position - 1 : UpToDate(resolution[k]))'
  <2>1. 1 .. position' - 1 = 1 .. position
    BY <1>6, <1>7
  <2> QED
    BY <1>13, <2>1
<1>15. call' = "evaluating" /\ calls' = calls /\ call = "evaluating"
  BY DEF ForwardSubmodel
<1> QED
  BY <1>1, <1>2, <1>3, <1>4, <1>7, <1>11, <1>14, <1>15 DEF CInv, Constructed

LEMMA AllForwarded ==
  ASSUME CInv, call \in {"evaluating", "evaluated"}, position > Len(resolution)
  PROVE  Forwarded /\ position = Len(resolution) + 1
<1>1. Resolved /\ inputs \in [Items -> Int] /\ outputs \in [Nodes -> [Items -> Int]]
  BY DEF CInv, StoredTyped, Resolved
<1>2. position = Len(resolution) + 1 /\ Len(resolution) \in Nat
  BY <1>1, ResolvedOrder DEF CInv
<1>3. ASSUME NEW n \in Nodes PROVE UpToDate(n)
  <2>1. PICK k \in 1 .. Len(resolution) : resolution[k] = n
    BY <1>1, ResolvedOrder
  <2>2. k \in 1 .. position - 1
    BY <1>2, <2>1
  <2> QED
    BY <2>1, <2>2 DEF CInv
<1> QED
  BY <1>1, <1>2, <1>3 DEF Forwarded

\* What the links refer to stays the same, and so do the derivatives.
LEMMA TotalsKept ==
  ASSUME graph' = graph, slopes' = slopes, bends' = bends
  PROVE  TotalDerivatives' = TotalDerivatives /\ TotalSecondDerivatives' = TotalSecondDerivatives
<1>1. ASSUME NEW n, NEW i
      PROVE  Inbound(n, i)' = Inbound(n, i) /\ Provider(n, i)' = Provider(n, i)
  BY LinkKept
<1>2. ASSUME NEW n PROVE Through(n)' = Through(n)
  BY <1>1 DEF Through
<1>4. ASSUME NEW d, NEW n, NEW i PROVE Du(d, n, i)' = Du(d, n, i)
  BY <1>1 DEF Du
<1>5. ASSUME NEW d, NEW n, NEW j PROVE Chained(d, n, j)' = Chained(d, n, j)
  <2>1. ASSUME NEW x
        PROVE  [i \in graph'.consumes[n] |-> slopes'[n][j][i] * Du(d, n, i)'[x]]
                 = [i \in graph.consumes[n] |-> slopes[n][j][i] * Du(d, n, i)[x]]
    BY <1>4
  <2> QED
    BY <2>1 DEF Chained
<1>6. TotalDerivatives' = TotalDerivatives
  BY <1>5 DEF TotalDerivatives
<1>7. ASSUME NEW d, NEW e, NEW n, NEW j PROVE ChainedTwice(d, e, n, j)' = ChainedTwice(d, e, n, j)
  <2>1. ASSUME NEW xz
        PROVE  /\ [ik \in graph'.consumes[n] \X graph'.consumes[n] |->
                     bends'[n][j] * Du(d, n, ik[1])'[xz[1]] * Du(d, n, ik[2])'[xz[2]]]
                    = [ik \in graph.consumes[n] \X graph.consumes[n] |->
                         bends[n][j] * Du(d, n, ik[1])[xz[1]] * Du(d, n, ik[2])[xz[2]]]
               /\ [i \in Through(n)' |-> slopes'[n][j][i] * e[<<Provider(n, i)', i>>][xz]]
                    = [i \in Through(n) |-> slopes[n][j][i] * e[<<Provider(n, i), i>>][xz]]
    BY <1>1, <1>2, <1>4
  <2> QED
    BY <2>1 DEF ChainedTwice
<1>8. TotalSecondDerivatives' = TotalSecondDerivatives
  BY <1>6, <1>7 DEF TotalSecondDerivatives
<1> QED
  BY <1>6, <1>8

LEMMA ApplyChainRuleKeeps ==
  ASSUME CInv, ApplyChainRule PROVE CInv'
<1>1. /\ graph' = graph /\ resolution' = resolution /\ vars' = vars /\ phase' = phase
      /\ inputs' = inputs /\ outputs' = outputs /\ slopes' = slopes /\ bends' = bends
      /\ asked' = asked /\ position' = position
  BY DEF ApplyChainRule, vars
<1>2. IInv'
  BY <1>1, StepInvariant DEF CInv
<1>3. OutItems' = OutItems /\ Duplicate' = Duplicate
  BY <1>1, OutputsKept
<1>4. Forwarded /\ position = Len(resolution) + 1
  BY AllForwarded DEF ApplyChainRule
<1>5. TotalDerivatives' = TotalDerivatives /\ TotalSecondDerivatives' = TotalSecondDerivatives
  BY <1>1, TotalsKept
<1>6. /\ derivs' = IF 1 \in asked THEN [pj \in OutItems |-> TotalDerivatives[pj]] ELSE derivs
      /\ derivs2' = IF 2 \in asked THEN [pj \in OutItems |-> TotalSecondDerivatives[pj]] ELSE derivs2
  BY DEF ApplyChainRule
<1>7. Constructed /\ Constructed'
  BY DEF ApplyChainRule, Constructed
<1>8. DerivsTyped'
  <2>1. DerivsTyped
    BY DEF CInv
  <2>2. 1 \in asked => \A pj \in OutItems : TotalDerivatives[pj] \in [Items -> Int]
    BY <1>4, DerivativesTyped DEF Sloped
  <2>3. 2 \in asked => \A pj \in OutItems : TotalSecondDerivatives[pj] \in [Items \X Items -> Int]
    BY <1>4, DerivativesTyped DEF Sloped, Bent
  <2>4. /\ DOMAIN derivs' # {} => DOMAIN derivs' = OutItems
        /\ \A pj \in DOMAIN derivs' : derivs'[pj] \in [Items -> Int]
    BY <1>6, <2>1, <2>2 DEF DerivsTyped
  <2>5. /\ DOMAIN derivs2' # {} => DOMAIN derivs2' = OutItems
        /\ \A pj \in DOMAIN derivs2' : derivs2'[pj] \in [Items \X Items -> Int]
    BY <1>6, <2>1, <2>3 DEF DerivsTyped
  <2> QED
    BY <1>3, <1>7, <2>4, <2>5 DEF DerivsTyped
<1>9. (\A k \in 1 .. position - 1 : UpToDate(resolution[k]))'
  <2>1. ASSUME NEW k \in 1 .. Len(resolution) PROVE UpToDate(resolution[k])'
    <3>1. PICK n \in Nodes : n = resolution[k]
      BY <1>4, ResolvedOrder DEF Forwarded
    <3>2. UpToDate(n)
      BY <1>4 DEF Forwarded
    <3>3. \A p \in NodeProviders(n) : outputs'[p] = outputs[p]
      BY <1>1
    <3>4. resolution'[k] = n /\ outputs'[n] = outputs[n] /\ slopes'[n] = slopes[n] /\ bends'[n] = bends[n]
      BY <1>1, <3>1
    <3>5. UpToDate(n)'
      BY <1>1, <3>2, <3>3, <3>4, UpToDateKept
    <3> QED
      BY <3>4, <3>5
  <2>2. position' - 1 = Len(resolution)
    BY <1>1, <1>4, ResolvedOrder DEF Forwarded
  <2> QED
    BY <2>1, <2>2
<1>10. call' = "evaluated" /\ calls' = calls
  BY DEF ApplyChainRule
<1> QED
  BY <1>1, <1>2, <1>3, <1>4, <1>5, <1>6, <1>7, <1>8, <1>9, <1>10 DEF CInv, Constructed, StoredTyped


LEMMA CStepInvariant ==
  ASSUME CInv, [CNext]_cvars PROVE CInv'
<1>1. CASE ResolveModels
  BY <1>1, ResolveModelsKeeps
<1>2. CASE Construct
  BY <1>2, ConstructKeeps
<1>3. CASE \E v \in Values, orders \in SUBSET {1, 2} : Evaluate(v, orders)
  BY <1>3, EvaluateKeeps
<1>4. CASE ForwardSubmodel
  BY <1>4, ForwardSubmodelKeeps
<1>5. CASE ApplyChainRule
  BY <1>5, ApplyChainRuleKeeps
<1>6. CASE UNCHANGED cvars
  <2>1. /\ graph' = graph /\ resolution' = resolution /\ vars' = vars /\ phase' = phase
        /\ call' = call /\ calls' = calls /\ position' = position
        /\ asked' = asked /\ inputs' = inputs /\ outputs' = outputs
        /\ slopes' = slopes /\ bends' = bends /\ derivs' = derivs /\ derivs2' = derivs2
    BY <1>6 DEF cvars, vars
  <2>2. IInv'
    BY <2>1, StepInvariant DEF CInv
  <2>3. OutItems' = OutItems /\ Duplicate' = Duplicate
    BY <2>1, OutputsKept
  <2>4. TotalDerivatives' = TotalDerivatives /\ TotalSecondDerivatives' = TotalSecondDerivatives
    BY <2>1, TotalsKept
  <2>5. DerivsTyped'
    BY <2>1, <2>3 DEF CInv, DerivsTyped, Constructed
  <2>6. (call \in {"evaluating", "evaluated"} => \A k \in 1 .. position - 1 : UpToDate(resolution[k]))'
    <3> SUFFICES ASSUME call \in {"evaluating", "evaluated"}, NEW k \in 1 .. position - 1
                 PROVE  UpToDate(resolution[k])'
      BY <2>1
    <3>1. Resolved /\ UpToDate(resolution[k])
      BY DEF CInv, Resolved
    <3>2. resolution[k] \in Nodes
      <4>1. k \in 1 .. Len(resolution)
        BY <3>1, ResolvedOrder DEF CInv
      <4> QED
        BY <3>1, <4>1, ResolvedOrder
    <3>3. PICK n \in Nodes : n = resolution[k]
      BY <3>2
    <3>4. UpToDate(n)'
      BY <2>1, <3>1, <3>3, UpToDateKept
    <3> QED
      BY <2>1, <3>3, <3>4
  <2> QED
    BY <2>1, <2>2, <2>3, <2>4, <2>5, <2>6 DEF CInv, Constructed, StoredTyped
<1> QED
  BY <1>1, <1>2, <1>3, <1>4, <1>5, <1>6 DEF CNext

\* Each submodel is evaluated once at most.
LEMMA ResolutionBound ==
  ASSUME IInv
  PROVE  Len(resolution) \in Nat /\ Cardinality(Nodes) \in Nat /\ Len(resolution) <= Cardinality(Nodes)
<1>1. resolution \in Seq(Nodes) /\ \A k, l \in DOMAIN resolution : resolution[k] = resolution[l] => k = l
  BY DEF IInv, SearchInv, TypeOK, VisitedIsResolved
<1>2. Len(resolution) \in Nat /\ DOMAIN resolution = 1 .. Len(resolution)
  BY <1>1, LenProperties
<1>3. resolution \in Injection(1 .. Len(resolution), Nodes)
  <2>1. resolution \in [1 .. Len(resolution) -> Nodes]
    BY <1>1, LenProperties
  <2> QED
    BY <1>1, <1>2, <2>1 DEF Injection, IsInjective
<1>4. IsFiniteSet(1 .. Len(resolution)) /\ Cardinality(1 .. Len(resolution)) = Len(resolution)
  <2>1. 1 \in Int /\ Len(resolution) \in Int
    BY <1>2
  <2>2. /\ IsFiniteSet(1 .. Len(resolution))
        /\ Cardinality(1 .. Len(resolution)) = IF 1 > Len(resolution) THEN 0 ELSE Len(resolution) - 1 + 1
    BY ONLY <2>1, FS_Interval
  <2> QED
    BY <1>2, <2>2
<1>5. IsFiniteSet(Nodes) /\ Cardinality(Nodes) \in Nat
  BY ResolverAssumption, FS_CardinalityType
<1>6. Cardinality(1 .. Len(resolution)) <= Cardinality(Nodes)
  BY <1>3, <1>5, FS_Injection
<1> QED
  BY <1>2, <1>4, <1>5, <1>6

-----------------------------------------------------------------------------
(* The theorems *)

\* The invariant of the construction and of the evaluations, for every set of submodels
\* and items, graph and values of the input variables.
THEOREM ComposedInvariance == CSpec => []CInv
<1>1. CInit => CInv
  BY CInitial
<1>2. CInv /\ [CNext]_cvars => CInv'
  BY CStepInvariant
<1> QED
  BY <1>1, <1>2, PTL DEF CSpec

\* The order of the submodels is resolved when the composed model is constructed, and
\* evaluations leave it as it is.
THEOREM ComposedOrder == CSpec => [](ResolutionIsOrder /\ CyclesThrow)
<1>1. CInv => ResolutionIsOrder /\ CyclesThrow
  <2>1. IInv => ResolutionIsOrder
    BY DEF IInv, SearchInv, VisitedIsResolved, ResolutionIsOrder
  <2>2. IInv => CyclesThrow
    BY ResolvedNoCycle DEF IInv, SearchInv, CyclesThrow
  <2> QED
    BY <2>1, <2>2 DEF CInv
<1> QED
  BY <1>1, ComposedInvariance, PTL

\* The types of a composed model: after each evaluation there are derivatives of every
\* output variable, one of each name, whatever submodel provides it.
THEOREM ComposedTypes == CSpec => []CTypeOK
<1>1. CInv => CTypeOK
  <2> SUFFICES ASSUME CInv PROVE CTypeOK
    OBVIOUS
  <2>1. graph \in GraphType
    BY DEF CInv, IInv, SearchInv, TypeOK
  <2>2. position \in 1 .. Cardinality(Nodes) + 1
    BY ResolutionBound DEF CInv
  <2>3. \A pj, qj \in DOMAIN derivs \cup DOMAIN derivs2 : pj[2] = qj[2] => pj = qj
    BY DEF CInv, DerivsTyped, Duplicate
  <2>4. call = "evaluated" => /\ 1 \in asked => DOMAIN derivs = OutItems
                              /\ 2 \in asked => DOMAIN derivs2 = OutItems
    BY DEF CInv
  <2> QED
    BY <2>1, <2>2, <2>3, <2>4 DEF CInv, CTypeOK, DerivsTyped, StoredTyped
<1> QED
  BY <1>1, ComposedInvariance, PTL

\* Whatever the submodels, the links between them and the order found for them: after
\* each evaluation the outputs are the values of the composed function, and what the
\* chain rule collected are its first and second derivatives.
THEOREM ExactChainRule == CSpec => []ChainRuleIsExact
<1>1. CInv => ChainRuleIsExact
  <2> SUFFICES ASSUME CInv, call = "evaluated", NEW pj \in OutItems
               PROVE  /\ outputs[pj[1]][pj[2]] = Jets[pj].v
                      /\ 1 \in asked => derivs[pj] = Jets[pj].g
                      /\ 2 \in asked => derivs2[pj] = Jets[pj].h
    BY DEF ChainRuleIsExact
  <2>1. pj \in Provided
    BY OutputsProvided
  <2>2. Forwarded
    <3>1. Resolved /\ position = Len(resolution) + 1
      BY DEF CInv, Resolved
    <3>2. position > Len(resolution)
      BY <3>1, ResolvedOrder
    <3> QED
      BY <3>2, AllForwarded
  <2>3. /\ 1 \in asked => derivs[pj] = TotalDerivatives[pj]
        /\ 2 \in asked => derivs2[pj] = TotalSecondDerivatives[pj]
    BY DEF CInv
  <2>4. (1 \in asked => Sloped) /\ (2 \in asked => Bent)
    BY <2>2 DEF Sloped, Bent
  <2> QED
    BY <2>1, <2>2, <2>3, <2>4, ValuesExact, DerivativesExact, SecondDerivativesExact
<1> QED
  BY <1>1, ComposedInvariance, PTL

=============================================================================

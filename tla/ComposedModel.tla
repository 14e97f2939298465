---------------------------- MODULE ComposedModel ----------------------------
(***************************************************************************)
(* A model composed of submodels: the constructor resolves their order and *)
(* declares the input and output variables, set_value evaluates the        *)
(* submodels in that order through the links between their variables, and  *)
(* the chain rule collects the first and second total derivatives of the   *)
(* outputs.  Output j of submodel n is a quadratic function of its inputs, *)
(* Weight[n][j] . u + Curve[n][j] * (sum of u)^2.  A derivative that is    *)
(* not stored counts as zero, as it does in the sums of the chain rule.    *)
(***************************************************************************)
EXTENDS DependencyResolver, Integers, FiniteSetsExt

CONSTANTS
  Weight,     \* linear coefficients of the submodels' outputs
  Curve,      \* and quadratic ones
  Values,     \* values of the input variables, by item
  MaxCalls    \* bounds the evaluations

ASSUME ComposedAssumption ==
  /\ IsFiniteSet(Items)
  /\ Weight \in [Nodes -> [Items -> [Items -> Int]]]
  /\ Curve \in [Nodes -> [Items -> Int]]
  /\ Values \subseteq [Items -> Int]
  /\ MaxCalls \in Nat

VARIABLES
  call,      \* "construct", "duplicate", "ready", "evaluating", "evaluated"
  calls,
  asked,     \* the orders of the derivatives that this evaluation is asked for
  inputs,    \* the input variables of the composed model
  outputs,   \* the output variables of the submodels
  slopes,    \* and their derivatives by the inputs of the submodels
  bends,     \* and second derivatives, the same for any two inputs
  position,  \* of the submodel to evaluate
  derivs,    \* derivatives of the output variables of the composed model
  derivs2    \* and their second derivatives

cvars == <<graph, phase, ends, stack, status, resolution,
           call, calls, asked, inputs, outputs, slopes, bends, position, derivs, derivs2>>

-----------------------------------------------------------------------------
(* Variables and links *)

InputVariables == {ci[2] : ci \in InItems}

\* Mutation of Duplicate: compares the outputs of a submodel among themselves.
DuplicateWithin == \E pi, qj \in OutItems : pi # qj /\ pi = <<qj[1], pi[2]>> /\ pi[2] = qj[2]

\* Two submodels whose outputs are both outbound and have the same name
Duplicate == \E pi, qj \in OutItems : pi # qj /\ pi[2] = qj[2]

Provider(n, i) == CHOOSE p \in Nodes : p \in Providers(n, i)

Inbound(n, i) == Providers(n, i) = {}

\* The variable that input i of submodel n refers to
Linked(n, i) == IF Inbound(n, i) THEN inputs[i] ELSE outputs[Provider(n, i)][i]

InputSum(n) == SumFunction([i \in graph.consumes[n] |-> Linked(n, i)])

\* set_value of a submodel: values, derivatives, second derivatives
ValueOf(n, j) ==
  SumFunction([i \in graph.consumes[n] |-> Weight[n][j][i] * Linked(n, i)])
    + Curve[n][j] * InputSum(n) * InputSum(n)

Partial(n, j, i) == Weight[n][j][i] + 2 * Curve[n][j] * InputSum(n)

SecondPartial(n, j) == 2 * Curve[n][j]

-----------------------------------------------------------------------------
(* The chain rule.  Dy[<<n, j>>][x] is the total derivative of output j of *)
(* submodel n by input variable x.                                         *)

Unit(i) == [x \in Items |-> IF x = i THEN 1 ELSE 0]

\* The total derivatives of what input i of submodel n refers to
Du(Dy, n, i) == IF Inbound(n, i) THEN Unit(i) ELSE Dy[<<Provider(n, i), i>>]

Chained(Dy, n, j) ==
  [x \in Items |->
     SumFunction([i \in graph.consumes[n] |-> slopes[n][j][i] * Du(Dy, n, i)[x]])]

\* Mutation of TotalDerivatives: the last path to an input replaces the others.
TotalLastPath ==
  LET Dy[pj \in Nodes \X Items] ==
        [x \in Items |->
           LET At(i) == slopes[pj[1]][pj[2]][i] * Du(Dy, pj[1], i)[x]
               Paths == {i \in graph.consumes[pj[1]] : At(i) # 0}
           IN IF Paths = {} THEN 0 ELSE At(CHOOSE i \in Paths : \A k \in Paths : k <= i)]
  IN Dy

TotalDerivatives ==
  LET Dy[pj \in Nodes \X Items] == Chained(Dy, pj[1], pj[2])
  IN Dy

Through(n) == {i \in graph.consumes[n] : ~Inbound(n, i)}

ChainedTwice(Dy, D2y, n, j) ==
  [xz \in Items \X Items |->
     SumFunction([ik \in graph.consumes[n] \X graph.consumes[n] |->
       bends[n][j] * Du(Dy, n, ik[1])[xz[1]] * Du(Dy, n, ik[2])[xz[2]]])
     + SumFunction([i \in Through(n) |-> slopes[n][j][i] * D2y[<<Provider(n, i), i>>][xz]])]

TotalSecondDerivatives ==
  LET Dy == TotalDerivatives
      D2y[pj \in Nodes \X Items] == ChainedTwice(Dy, D2y, pj[1], pj[2])
  IN D2y

-----------------------------------------------------------------------------
(* Actions *)

CInit ==
  /\ Init
  /\ call = "construct"
  /\ calls = 0
  /\ asked = {}
  /\ inputs = [i \in Items |-> 0]
  /\ outputs = [n \in Nodes |-> [j \in Items |-> 0]]
  /\ slopes = [n \in Nodes |-> [j \in Items |-> [i \in Items |-> 0]]]
  /\ bends = [n \in Nodes |-> [j \in Items |-> 0]]
  /\ position = 1
  /\ derivs = <<>>
  /\ derivs2 = <<>>

ResolveModels ==
  /\ call = "construct"
  /\ Next
  /\ UNCHANGED <<call, calls, asked, inputs, outputs, slopes, bends, position, derivs, derivs2>>

Construct ==
  /\ call = "construct" /\ phase = "resolved"
  /\ call' = IF Duplicate THEN "duplicate" ELSE "ready"
  /\ UNCHANGED <<vars, calls, asked, inputs, outputs, slopes, bends, position, derivs, derivs2>>

\* forward() of the composed model; what the submodels store is still that of the
\* evaluation before, and so are its own derivatives, since its output variables
\* refer to those of the submodels and are not cleared
Evaluate(v, orders) ==
  /\ call \in {"ready", "evaluated"} /\ calls < MaxCalls
  /\ inputs' = [i \in Items |-> IF i \in InputVariables THEN v[i] ELSE 0]
  /\ asked' = orders
  /\ call' = "evaluating"
  /\ calls' = calls + 1
  /\ position' = 1
  /\ UNCHANGED <<vars, outputs, slopes, bends, derivs, derivs2>>

\* Mutation of ForwardSubmodel: first derivatives only when they are asked for.
ForwardSubmodelAsAsked ==
  /\ call = "evaluating" /\ position <= Len(resolution)
  /\ LET n == resolution[position]
     IN /\ outputs' = [outputs EXCEPT ![n] =
                        [j \in Items |-> IF j \in graph.provides[n] THEN ValueOf(n, j) ELSE 0]]
        /\ slopes' = [slopes EXCEPT ![n] =
                       [j \in Items |-> [i \in Items |-> IF 1 \in asked THEN Partial(n, j, i) ELSE 0]]]
        /\ bends' = [bends EXCEPT ![n] =
                      [j \in Items |-> IF 2 \in asked THEN SecondPartial(n, j) ELSE 0]]
  /\ position' = position + 1
  /\ UNCHANGED <<vars, call, calls, asked, inputs, derivs, derivs2>>

\* The next submodel clears what it stores and evaluates what is asked for; for
\* second derivatives, the first ones too
ForwardSubmodel ==
  /\ call = "evaluating" /\ position <= Len(resolution)
  /\ LET n == resolution[position]
     IN /\ outputs' = [outputs EXCEPT ![n] =
                        [j \in Items |-> IF j \in graph.provides[n] THEN ValueOf(n, j) ELSE 0]]
        /\ slopes' = [slopes EXCEPT ![n] =
                       [j \in Items |-> [i \in Items |-> IF asked # {} THEN Partial(n, j, i) ELSE 0]]]
        /\ bends' = [bends EXCEPT ![n] =
                      [j \in Items |-> IF 2 \in asked THEN SecondPartial(n, j) ELSE 0]]
  /\ position' = position + 1
  /\ UNCHANGED <<vars, call, calls, asked, inputs, derivs, derivs2>>

ApplyChainRule ==
  /\ call = "evaluating" /\ position > Len(resolution)
  /\ LET Dy == TotalDerivatives
         D2y == TotalSecondDerivatives
     IN /\ derivs' = IF 1 \in asked THEN [pj \in OutItems |-> Dy[pj]] ELSE derivs
        /\ derivs2' = IF 2 \in asked THEN [pj \in OutItems |-> D2y[pj]] ELSE derivs2
  /\ call' = "evaluated"
  /\ UNCHANGED <<vars, calls, asked, inputs, outputs, slopes, bends, position>>

CNext ==
  \/ ResolveModels
  \/ Construct
  \/ \E v \in Values, orders \in SUBSET {1, 2} : Evaluate(v, orders)
  \/ ForwardSubmodel
  \/ ApplyChainRule

CSpec == CInit /\ [][CNext]_cvars

-----------------------------------------------------------------------------
(* Properties *)

\* The derivatives answer for each output variable once, whatever submodels
\* provide it.
CTypeOK ==
  /\ graph \in GraphType
  /\ call \in {"construct", "duplicate", "ready", "evaluating", "evaluated"}
  /\ calls \in 0 .. MaxCalls
  /\ asked \subseteq {1, 2}
  /\ inputs \in [Items -> Int]
  /\ outputs \in [Nodes -> [Items -> Int]]
  /\ slopes \in [Nodes -> [Items -> [Items -> Int]]]
  /\ bends \in [Nodes -> [Items -> Int]]
  /\ position \in 1 .. Cardinality(Nodes) + 1
  /\ call = "evaluated" => /\ 1 \in asked => DOMAIN derivs = OutItems
                           /\ 2 \in asked => DOMAIN derivs2 = OutItems
  /\ \A pj, qj \in DOMAIN derivs \cup DOMAIN derivs2 : pj[2] = qj[2] => pj = qj
  /\ \A pj \in DOMAIN derivs : derivs[pj] \in [Items -> Int]
  /\ \A pj \in DOMAIN derivs2 : derivs2[pj] \in [Items \X Items -> Int]

\* The composed function as a polynomial, differentiated along the order of
\* evaluation (forward mode) instead of back from the outputs
JetIn(J, n, i) ==
  IF Inbound(n, i)
  THEN [v |-> inputs[i], g |-> Unit(i), h |-> [xz \in Items \X Items |-> 0]]
  ELSE J[<<Provider(n, i), i>>]

JetOut(J, n, j) ==
  LET I == graph.consumes[n]
      W == Weight[n][j]
      C == Curve[n][j]
      v == SumFunction([i \in I |-> JetIn(J, n, i).v])
      g(x) == SumFunction([i \in I |-> JetIn(J, n, i).g[x]])
      h(xz) == SumFunction([i \in I |-> JetIn(J, n, i).h[xz]])
  IN [v |-> SumFunction([i \in I |-> W[i] * JetIn(J, n, i).v]) + C * v * v,
      g |-> [x \in Items |-> SumFunction([i \in I |-> W[i] * JetIn(J, n, i).g[x]]) + 2 * C * v * g(x)],
      h |-> [xz \in Items \X Items |-> SumFunction([i \in I |-> W[i] * JetIn(J, n, i).h[xz]])
                                         + 2 * C * (g(xz[1]) * g(xz[2]) + v * h(xz))]]

Follow(J, n) ==
  [pj \in DOMAIN J \cup ({n} \X graph.provides[n]) |->
     IF pj[1] = n THEN JetOut(J, n, pj[2]) ELSE J[pj]]

Jets ==
  LET Jet[k \in 0 .. Len(resolution)] ==
        IF k = 0 THEN <<>> ELSE Follow(Jet[k - 1], resolution[k])
  IN Jet[Len(resolution)]

\* Values of every output, and the total derivatives that were asked for, are those
\* of the composed function: the order of the submodels, the links between their
\* variables, what each of them stores and the walk of the chain rule fit together,
\* over any number of paths from an input to an output and after earlier evaluations
\* that were asked for something else.
ChainRuleIsExact ==
  call = "evaluated" =>
    LET J == Jets
    IN \A pj \in OutItems : /\ outputs[pj[1]][pj[2]] = J[pj].v
                            /\ 1 \in asked => derivs[pj] = J[pj].g
                            /\ 2 \in asked => derivs2[pj] = J[pj].h

=============================================================================

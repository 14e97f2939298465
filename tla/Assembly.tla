------------------------------ MODULE Assembly ------------------------------
(***************************************************************************)
(* From derivatives to the Jacobian and back: the layout of labeled axes,  *)
(* the assignment of derivatives, assembling and splitting of vectors and  *)
(* matrices, the way a nonlinear system and an implicit update use them.   *)
(* Terms are named by the assignment they come from.                       *)
(***************************************************************************)
EXTENDS AssemblyFormat, FiniteSetsExt

CONSTANTS
  Outputs, Inputs,   \* variables
  Path,              \* name of each on its axis: subaxes and its own, as numbers
  Unknowns,          \* subaxis of the input axis with the unknowns, STATE
  Cases,             \* intermediate sizes, base sizes, dependent dimensions of each
  Derivs,            \* derivatives that are assigned: <<y, x>> or <<y, x, z>>
  Undef,             \* a tensor that is not defined
  MaxAssign          \* bounds the assignments between two clears

\* Names are not empty, and inputs have different ones; no dimension is empty.
ASSUME AssemblyAssumption ==
  /\ IsFiniteSet(Inputs)
  /\ Path \in [Inputs \cup Outputs -> Seq(Nat) \ {<<>>}]
  /\ \A v, w \in Inputs : Path[v] = Path[w] => v = w
  /\ \A c \in Cases : \A v \in Inputs \cup Outputs :
       c.intmd[v] \in Seq(Nat \ {0}) /\ c.base[v] \in Seq(Nat \ {0})

VARIABLES
  case,        \* shapes of the variables, which do not change
  deriv,       \* _deriv of each derivative
  cached,      \* _deriv_assembly
  terms,       \* what has been assigned to each since it was cleared
  jacobian,    \* assembled matrix, or Undef
  columns,     \* variables that are its columns
  solved,      \* derivatives of the unknowns, with the matrix of their equations, or Undef
  guess        \* of each unknown, or Undef

vars == <<case, deriv, cached, terms, jacobian, columns, solved, guess>>

First == {d \in Derivs : Len(d) = 2}

-----------------------------------------------------------------------------
(* LabeledAxis *)

\* The elements of a set in the order of their keys, as std::map has them
ByKey(S, Key(_)) ==
  CHOOSE s \in [1 .. Cardinality(S) -> S] : \A i, j \in DOMAIN s : i < j => Key(s[i]) < Key(s[j])

\* setup_layout at level d of the names: the variables of an axis by name, then
\* those of its subaxes, laid out by sub, by the names of the subaxes
SetupLayout(ws, d, sub) ==
  LET below == {v \in ws : Len(Path[v]) > d}
      names == ByKey({Path[v][d] : v \in below}, LAMBDA a : a)
  IN  ByKey({v \in ws : Len(Path[v]) = d}, LAMBDA v : Path[v][d])
        \o Flatten([k \in DOMAIN names |-> sub[{v \in below : Path[v][d] = names[k]}]])

\* The axis of the variables vs, from the deepest level up
Axis(vs) ==
  LET depth == Max({0} \cup {Len(Path[v]) : v \in vs})
      layout[n \in 0 .. depth] ==
        [ws \in SUBSET vs |-> IF n = 0 THEN <<>> ELSE SetupLayout(ws, depth - n + 1, layout[n - 1])]
  IN  layout[depth][vs]

Unknown == {x \in Inputs : Path[x][1] = Unknowns}

Size(v) == NumEl(case.intmd[v]) * NumEl(case.base[v])

Offset(axis, k) == FoldLeft(LAMBDA n, v : n + Size(v), 0, SubSeq(axis, 1, k - 1))

\* What is concatenated along the axis: variables and positions in them
Slots(axis) == Flatten([k \in DOMAIN axis |-> [p \in 1 .. Size(axis[k]) |-> [var |-> axis[k], at |-> p - 1]]])

-----------------------------------------------------------------------------
(* Shapes of variables and derivatives *)

Of(f, d) == [k \in DOMAIN d |-> f[d[k]]]

IndepSizes(d, k) == Independent(Of(case.intmd, d), Of(case.dep, d), k)

DepSizes(d) == Flatten([k \in DOMAIN d |-> Select(case.intmd[d[k]], case.dep[d[k]])])

Total(d) == Flatten(Of(case.intmd, d))

\* The ways to assign a derivative: with all of its dimensions, or with the
\* independent ones of the variable, of size one, or left out, before or behind
\* the dependent ones
Forms == {"full", "aligned", "ones", "none", "behind"}

IndepOf(d, form) ==
  CASE form \in {"aligned", "behind"} -> IndepSizes(d, 1)
    [] form = "ones" -> [k \in DOMAIN IndepSizes(d, 1) |-> 1]
    [] form = "none" -> <<>>

FormSizes(d, form) ==
  IF form = "full" THEN Total(d)
  ELSE IF form = "behind" THEN DepSizes(d) \o IndepOf(d, form)
  ELSE IndepOf(d, form) \o DepSizes(d)

DepPlaces(d, form) ==
  IF form = "behind" THEN Dims(1, Len(DepSizes(d)))
  ELSE Dims(Len(IndepOf(d, form)) + 1, Len(DepSizes(d)))

\* Arguments broadcast to the variable.  A tensor with the sizes of the full
\* derivative is taken for it, so dimensions in another order must show.
Admissible(d, form) ==
  form # "full" =>
    /\ \A k \in DOMAIN d : ExpandableTo(IndepSizes(d, k), IndepSizes(d, 1))
    /\ FormSizes(d, form) # Total(d)

-----------------------------------------------------------------------------
(* Derivative *)

\* The n-th tensor that is assigned to d
Val(d, n, form) ==
  Tensor(FormSizes(d, form) \o Flatten(Of(case.base, d)), LAMBDA i : {<<n, i>>})

\* operator=: adds up
Plus(d, val, form) ==
  LET new == IF form = "full" THEN val
             ELSE BroadcastIntmdDims(val, Len(FormSizes(d, form)), DepPlaces(d, form),
                                     Of(case.intmd, d), Of(case.dep, d))
  IN  IF deriv[d] = Undef THEN new ELSE Add(deriv[d], new)

\* get()
Get(d) ==
  IF cached[d] # Undef \/ deriv[d] = Undef THEN cached[d]
  ELSE ToAssembly(deriv[d], Of(case.intmd, d), Of(case.base, d))

FromBlock(d, block) == FromAssembly(block, Of(case.intmd, d), Of(case.base, d))

-----------------------------------------------------------------------------
(* Assemblers *)

\* VectorAssembler::assemble_by_variable of tensors in assembly format
AssembleVector(axis, vals) ==
  LET slots == Slots(axis)
  IN  Tensor(<<Len(slots)>>, LAMBDA i : LET p == slots[i[1] + 1] IN vals[p.var].at[<<p.at>>])

\* Mutation of SplitVector: in the order of declaration.
SplitVectorUnsorted(axis, vector) ==
  LET declared == SetToSeq(Range(axis))
  IN  [v \in Range(axis) |->
         LET o == Offset(declared, CHOOSE k \in DOMAIN axis : declared[k] = v)
         IN  Tensor(<<Size(v)>>, LAMBDA i : vector.at[<<o + i[1]>>])]

\* VectorAssembler::split_by_variable
SplitVector(axis, vector) ==
  [v \in Range(axis) |->
     LET o == Offset(axis, CHOOSE k \in DOMAIN axis : axis[k] = v)
     IN  Tensor(<<Size(v)>>, LAMBDA i : vector.at[<<o + i[1]>>])]

Block(y, x) == IF <<y, x>> \in First THEN Get(<<y, x>>) ELSE Undef

\* MatrixAssembler::assemble_by_variable; blocks that are missing are zero
AssembleMatrix(yaxis, xaxis) ==
  LET rows == Slots(yaxis)
      cols == Slots(xaxis)
      blocks == [yx \in Range(yaxis) \X Range(xaxis) |-> Block(yx[1], yx[2])]
  IN  Tensor(<<Len(rows), Len(cols)>>, LAMBDA i :
        LET r == rows[i[1] + 1]
            c == cols[i[2] + 1]
            block == blocks[<<r.var, c.var>>]
        IN  IF block = Undef THEN {} ELSE block.at[<<r.at, c.at>>])

\* Mutation of SubaxisColumns: from the first column on.
SubaxisColumnsFromFirst(matrix, xaxis, name) ==
  LET ks == {k \in DOMAIN xaxis : Path[xaxis[k]][1] = name}
      o == Offset(xaxis, Min(ks))
  IN  Tensor(<<matrix.sizes[1], Offset(xaxis, Max(ks) + 1) - o>>, LAMBDA i : matrix.at[i])

\* Columns of the matrix on one of its subaxes, of split_by_subaxis
SubaxisColumns(matrix, xaxis, name) ==
  LET ks == {k \in DOMAIN xaxis : Path[xaxis[k]][1] = name}
      o == Offset(xaxis, Min(ks))
  IN  Tensor(<<matrix.sizes[1], Offset(xaxis, Max(ks) + 1) - o>>, LAMBDA i : matrix.at[<<i[1], o + i[2]>>])

\* The solutions of equations whose matrix is the same for all of them, and is taken
\* for regular: an entry is named by its row and by the right-hand side.
LuSolve(rhs) ==
  Tensor(rhs.sizes, LAMBDA i : {<<i[1], [k \in 0 .. rhs.sizes[1] - 1 |-> rhs.at[<<k, i[2]>>]]>>})

\* MatrixAssembler::split_by_variable
SplitMatrix(yaxis, xaxis, matrix, y, x) ==
  LET r == Offset(yaxis, CHOOSE k \in DOMAIN yaxis : yaxis[k] = y)
      c == Offset(xaxis, CHOOSE k \in DOMAIN xaxis : xaxis[k] = x)
  IN  Tensor(<<Size(y), Size(x)>>, LAMBDA i : matrix.at[<<r + i[1], c + i[2]>>])

\* A row with derivatives, but none by a column, before any entry has been seen
NoneFound(yaxis, xaxis) ==
  LET defined(y) == {x \in Range(xaxis) : Block(y, x) # Undef}
      present(y) == \E d \in First : d[1] = y /\ Get(d) # Undef
  IN  \E k \in DOMAIN yaxis : present(yaxis[k]) /\ \A j \in 1 .. k : defined(yaxis[j]) = {}

-----------------------------------------------------------------------------
(* Actions *)

Init ==
  /\ case \in Cases
  /\ deriv = [d \in Derivs |-> Undef]
  /\ cached = [d \in Derivs |-> Undef]
  /\ terms = [d \in Derivs |-> {}]
  /\ jacobian = Undef /\ columns = {} /\ solved = Undef
  /\ guess = [x \in Unknown |-> Undef]

Assigned == {p \in Derivs \X (UNION {terms[d] : d \in Derivs}) : p[2] \in terms[p[1]]}

\* The evaluation of a system comes after its guess
Guessed == \A x \in Unknown : guess[x] # Undef

\* Mutation of Differentiate: the assembly cache is kept.
DifferentiateCached(d, form) ==
  /\ Guessed /\ Cardinality(Assigned) < MaxAssign /\ jacobian = Undef
  /\ Admissible(d, form)
  /\ LET n == Cardinality(terms[d]) + 1
     IN  /\ deriv' = [deriv EXCEPT ![d] = Plus(d, Val(d, n, form), form)]
         /\ terms' = [terms EXCEPT ![d] = @ \cup {<<n, form>>}]
  /\ UNCHANGED <<case, cached, jacobian, columns, solved, guess>>

\* y.d(x) = val or y.d2(x, z) = val in a set_value
Differentiate(d, form) ==
  /\ Guessed /\ Cardinality(Assigned) < MaxAssign /\ jacobian = Undef
  /\ Admissible(d, form)
  /\ LET n == Cardinality(terms[d]) + 1
     IN  /\ deriv' = [deriv EXCEPT ![d] = Plus(d, Val(d, n, form), form)]
         /\ terms' = [terms EXCEPT ![d] = @ \cup {<<n, form>>}]
  /\ cached' = [cached EXCEPT ![d] = Undef]
  /\ UNCHANGED <<case, jacobian, columns, solved, guess>>

\* A derivative goes through a traced function: get() and set()
PassStack(d) ==
  /\ Get(d) # Undef
  /\ cached' = [cached EXCEPT ![d] = Get(d)]
  /\ deriv' = [deriv EXCEPT ![d] = FromBlock(d, Get(d))]
  /\ UNCHANGED <<case, terms, jacobian, columns, solved, guess>>

\* Jacobian of all outputs by the variables xs; throws if nothing is found
Assemble(xs) ==
  /\ jacobian = Undef
  /\ ~NoneFound(Axis(Outputs), Axis(xs))
  /\ jacobian' = AssembleMatrix(Axis(Outputs), Axis(xs)) /\ columns' = xs
  /\ cached' = [d \in Derivs |-> IF Len(d) = 2 THEN Get(d) ELSE cached[d]]
  /\ UNCHANGED <<case, deriv, terms, solved, guess>>

\* The Jacobian is split by subaxes; its columns by the unknowns are solved for each
\* of the other subaxes, and the blocks are set as derivatives of the update, whose
\* outputs are the unknowns
SetDerivatives ==
  /\ jacobian # Undef /\ columns = Inputs /\ solved = Undef
  /\ LET part == [a \in {Path[x][1] : x \in Inputs} |-> SubaxisColumns(jacobian, Axis(Inputs), a)]
         block(y, x) ==
           LET a == Path[x][1]
           IN  SplitMatrix(Axis(Unknown), Axis({z \in Inputs : Path[z][1] = a}), LuSolve(part[a]), y, x)
     IN  solved' = [matrix |-> part[Unknowns],
                    of |-> [d \in Unknown \X (Inputs \ Unknown) |-> FromBlock(d, block(d[1], d[2]))]]
  /\ UNCHANGED <<case, deriv, cached, terms, jacobian, columns, guess>>

\* set_guess with the solution vector, whose entries are named by their positions,
\* before the system is evaluated
SetGuess ==
  /\ ~Guessed
  /\ LET axis == Axis(Unknown)
         solution == Tensor(<<Offset(axis, Len(axis) + 1)>>, LAMBDA i : {i[1]})
         split == SplitVector(axis, solution)
     IN  guess' = [x \in Unknown |-> FromAssembly(split[x], <<case.intmd[x]>>, <<case.base[x]>>)]
  /\ UNCHANGED <<case, deriv, cached, terms, jacobian, columns, solved>>

\* clear_derivatives
Clear ==
  /\ deriv' = [d \in Derivs |-> Undef]
  /\ cached' = [d \in Derivs |-> Undef]
  /\ terms' = [d \in Derivs |-> {}]
  /\ jacobian' = Undef /\ columns' = {} /\ solved' = Undef
  /\ UNCHANGED <<case, guess>>

Next ==
  \/ \E d \in Derivs, form \in Forms : Differentiate(d, form)
  \/ \E d \in Derivs : PassStack(d)
  \/ \E xs \in {Inputs, Unknown} : Assemble(xs)
  \/ SetDerivatives
  \/ SetGuess
  \/ Clear

Spec == Init /\ [][Next]_vars

-----------------------------------------------------------------------------
(* Properties *)

\* An element of a variable: its intermediate and its base index
Elements(v) == [intmd: Indices(case.intmd[v]), base: Indices(case.base[v])]

IndepIndex(v, e) == Select(e.intmd, Without(case.dep[v], Len(e.intmd)))

\* What the n-th assignment of d with this form says of the elements es: entries
\* of independent dimensions depend on the same ones of the arguments
Term(d, n, form, es) ==
  LET base == Flatten([k \in DOMAIN d |-> es[k].base])
      own == IndepIndex(d[1], es[1])
      deps == Flatten([k \in DOMAIN d |-> Select(es[k].intmd, case.dep[d[k]])])
      at == Narrow(own, IndepOf(d, form))
  IN  IF form = "full" THEN {<<n, Flatten([k \in DOMAIN d |-> es[k].intmd]) \o base>>}
      ELSE IF \E k \in DOMAIN d : IndepIndex(d[k], es[k]) # Narrow(own, IndepSizes(d, k)) THEN {}
      ELSE {<<n, (IF form = "behind" THEN deps \o at ELSE at \o deps) \o base>>}

Entry(d, es) == IF d \in Derivs THEN UNION {Term(d, t[1], t[2], es) : t \in terms[d]} ELSE {}

\* Derivatives are those of the elements they stand for, whatever the shapes they
\* were assigned with, added up, and through any number of conversions.
DerivativeEntries ==
  \A d \in Derivs : deriv[d] # Undef =>
    \A es \in Tuples([k \in DOMAIN d |-> Elements(d[k])]) :
      deriv[d].at[Flatten([k \in DOMAIN d |-> es[k].intmd]) \o Flatten([k \in DOMAIN d |-> es[k].base])] = Entry(d, es)

\* The elements of the variables of an axis in the order of its assembled vector
ElementVector(axis) ==
  AssembleVector(axis, [v \in Range(axis) |->
    ToAssembly(Tensor(case.intmd[v] \o case.base[v], LAMBDA i :
                 [var |-> v, intmd |-> SubSeq(i, 1, Len(case.intmd[v])),
                  base |-> SubSeq(i, Len(case.intmd[v]) + 1, Len(i))]),
               <<case.intmd[v]>>, <<case.base[v]>>)])

\* The Jacobian belongs to the residual and the solution vector: entry (r, c) is
\* the derivative of what is at r of one by what is at c of the other.
JacobianOfResidual ==
  jacobian # Undef =>
    LET R == ElementVector(Axis(Outputs))
        x == ElementVector(Axis(columns))
    IN  \A i \in DOMAIN jacobian.at :
          LET y == R.at[<<i[1]>>] z == x.at[<<i[2]>>]
          IN  jacobian.at[i] = Entry(<<y.var, z.var>>, <<y, z>>)

\* The implicit function theorem in its elements: the matrix is that of the residual
\* by the unknowns, and the derivative of an element of an unknown by one of another
\* input is what the solution for the derivatives of the residual by that input has
\* in its row.
ImplicitDerivatives ==
  solved # Undef =>
    LET R == ElementVector(Axis(Outputs))
        s == ElementVector(Axis(Unknown))
        by(x, e) == [k \in 0 .. R.sizes[1] - 1 |-> Entry(<<R.at[<<k>>].var, x>>, <<R.at[<<k>>], e>>)]
    IN  /\ \A i \in DOMAIN s.at :
             \A k \in 0 .. R.sizes[1] - 1 :
               solved.matrix.at[<<k, i[1]>>] = by(s.at[i].var, s.at[i])[k]
        /\ \A x \in Inputs \ Unknown : \A e \in Elements(x) : \A i \in DOMAIN s.at :
             LET u == s.at[i]
             IN  solved.of[<<u.var, x>>].at[u.intmd \o e.intmd \o u.base \o e.base] = {<<i[1], by(x, e)>>}

\* An element of an unknown has the entry of the solution vector that its column
\* of the Jacobian is for.
GuessInColumns ==
  LET x == ElementVector(Axis(Unknown))
  IN  \A i \in DOMAIN x.at :
        LET e == x.at[i] IN guess[e.var] # Undef => guess[e.var].at[e.intmd \o e.base] = {i[1]}

=============================================================================

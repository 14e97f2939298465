--------------------------- MODULE AssemblyFormat ---------------------------
(***************************************************************************)
(* Tensors by their entries, the assembly format of variables and          *)
(* derivatives, and the shapes a derivative may be assigned with.          *)
(* An entry is a set of terms, the ones that are added up in it: zero is   *)
(* the empty set.  Dynamic dimensions are left out: every operation is the *)
(* same for each of their entries.                                         *)
(***************************************************************************)
EXTENDS Integers, Sequences, SequencesExt

NumEl(s) == FoldLeft(LAMBDA n, k : n * k, 1, s)

\* Sequences with one element of each set
Tuples(Ss) == FoldLeft(LAMBDA ts, S : {Append(t, e) : t \in ts, e \in S}, {<<>>}, Ss)

\* The indices of a tensor with these sizes, from zero
Indices(s) == Tuples([k \in DOMAIN s |-> 0 .. s[k] - 1])

\* Position of an index among the entries in row major order, and back
Position(i, s) == FoldLeftDomain(LAMBDA p, k : p * s[k] + i[k], 0, s)

IndexAt(p, s) == [k \in DOMAIN s |-> (p \div NumEl(SubSeq(s, k + 1, Len(s)))) % s[k]]

Tensor(s, Entry(_)) == [sizes |-> s, at |-> [i \in Indices(s) |-> Entry(i)]]

Select(s, ks) == [k \in DOMAIN ks |-> s[ks[k]]]

\* The dimensions first .. first + n - 1
Dims(first, n) == [k \in 1 .. n |-> first + k - 1]

Without(s, n) == SelectSeq(Dims(1, n), LAMBDA k : ~Contains(s, k))

\* Dimension k of the result is dimension p[k] of T
Permute(T, p) ==
  LET inv == [d \in DOMAIN p |-> CHOOSE k \in DOMAIN p : p[k] = d]
  IN  Tensor(Select(T.sizes, p), LAMBDA i : T.at[Select(i, inv)])

Reshape(T, s) == Tensor(s, LAMBDA i : T.at[IndexAt(Position(i, s), T.sizes)])

Add(S, T) == [S EXCEPT !.at = [i \in DOMAIN @ |-> @[i] \cup T.at[i]]]

-----------------------------------------------------------------------------
(* Assembly format: one dimension for each variable *)

Flatten(ss) == FlattenSeq(ss)

\* Where the intermediate and base dimensions of variable k start
IntmdStart(intmd, k) == 1 + Len(Flatten(SubSeq(intmd, 1, k - 1)))

BaseStart(intmd, base, k) == 1 + Len(Flatten(intmd)) + Len(Flatten(SubSeq(base, 1, k - 1)))

\* Intermediate dimensions moved before the base dimensions they belong to
Interleaved(intmd, base) ==
  Flatten([k \in DOMAIN intmd |->
             Dims(IntmdStart(intmd, k), Len(intmd[k])) \o Dims(BaseStart(intmd, base, k), Len(base[k]))])

\* to_assembly of a tensor (intmd1, intmd2, ...; base1, base2, ...)
ToAssembly(T, intmd, base) ==
  Reshape(Permute(T, Interleaved(intmd, base)),
          [k \in DOMAIN intmd |-> NumEl(intmd[k]) * NumEl(base[k])])

FromAssembly(T, intmd, base) ==
  LET p == Interleaved(intmd, base)
  IN  Permute(Reshape(T, Select(Flatten(intmd) \o Flatten(base), p)),
              [d \in DOMAIN p |-> CHOOSE k \in DOMAIN p : p[k] = d])

-----------------------------------------------------------------------------
(* broadcast_intmd_dims: from independent dimensions that are shared by the  *)
(* variable and its arguments to those of each.  The first of the sequences  *)
(* intmd and dep is the variable's.                                          *)

Independent(intmd, dep, k) == Select(intmd[k], Without(dep[k], Len(intmd[k])))

\* Index of an entry that is expanded to index i: aligned at the end, and zero
\* in dimensions of size one
Narrow(i, s) == [k \in DOMAIN s |-> IF s[k] = 1 THEN 0 ELSE i[Len(i) - Len(s) + k]]

ExpandableTo(s, t) ==
  Len(s) <= Len(t) /\ \A k \in DOMAIN s : s[k] \in {1, t[Len(t) - Len(s) + k]}

\* The dependent dimensions (n of them, base dimensions behind) of each variable
\* go back to where they are in it
DepsToPlace(T, intmd, dep, n) ==
  LET indepStart(k) == 1 + Len(Flatten([j \in 1 .. k - 1 |-> Independent(intmd, dep, j)]))
      depStart(k) == indepStart(Len(intmd) + 1) + Len(Flatten(SubSeq(dep, 1, k - 1)))
      before(s, d) == Len(SelectSeq(s, LAMBDA e : e < d))
      place(k) == [d \in DOMAIN intmd[k] |->
                     IF Contains(dep[k], d) THEN depStart(k) + before(dep[k], d)
                     ELSE indepStart(k) + d - 1 - before(dep[k], d)]
      p == Flatten([k \in DOMAIN intmd |-> place(k)])
  IN  Permute(T, p \o Dims(Len(p) + 1, Len(T.sizes) - Len(p)))

\* Mutation of SpreadTo: an argument that is broadcast gets the first entry only.
SpreadToFirst(s, js) ==
  LET i == [k \in DOMAIN s |-> 0] IN IF Narrow(js, s) = i THEN {i} ELSE {}

\* The entries of an argument of independent sizes s that independent index j of
\* the variable depends on: the diagonal, summed over broadcast dimensions
SpreadTo(s, j) == {Narrow(j, s)}

\* val has dims[k] at the places ds of its n intermediate dimensions for the
\* dependent ones, in order; the others are independent
BroadcastIntmdDims(val, n, ds, intmd, dep) ==
  LET var == Independent(intmd, dep, 1)
      m == n - Len(ds)
      moved == Permute(val, Without(ds, n) \o ds \o Dims(n + 1, Len(val.sizes) - n))
      own == SubSeq(moved.sizes, 1, m)
      rest == SubSeq(moved.sizes, m + 1, Len(moved.sizes))
      args == [k \in 1 .. Len(intmd) - 1 |-> Independent(intmd, dep, k + 1)]
      spread == Tensor(var \o Flatten(args) \o rest, LAMBDA i :
                  LET j == SubSeq(i, 1, Len(var))
                      arg(k) == SubSeq(i, Len(var) + Len(Flatten(SubSeq(args, 1, k - 1))) + 1,
                                          Len(var) + Len(Flatten(SubSeq(args, 1, k))))
                  IN  IF \A k \in DOMAIN args : arg(k) \in SpreadTo(args[k], j)
                      THEN moved.at[Narrow(j, own) \o SubSeq(i, Len(i) - Len(rest) + 1, Len(i))]
                      ELSE {})
  IN  DepsToPlace(spread, intmd, dep, Len(ds))

=============================================================================

---------------------------- MODULE ChunkedUpdate ----------------------------
(***************************************************************************)
(* An update of a batched model cut into chunks along dynamic dimension 0  *)
(* (ValueMapLoader), evaluated chunk by chunk and put together again       *)
(* (valuemap_cat_reduce).  A tensor is its dynamic shape and, for every    *)
(* index, the place of the inputs that the entry stems from.  The model    *)
(* works entry by entry, broadcasting dynamic dimensions from the right.   *)
(***************************************************************************)
EXTENDS Integers, Sequences, FiniteSetsExt

CONSTANTS
  Inputs,      \* input variables
  Outputs,     \* output variables
  Reads,       \* the inputs an output depends on
  Shapes,      \* dynamic shapes of the inputs
  ChunkSizes   \* batch sizes of the devices

ASSUME ChunkedAssumption ==
  /\ Reads \in [Outputs -> SUBSET Inputs]
  /\ \A s \in Shapes : s \in Seq(Nat \ {0})
  /\ ChunkSizes \subseteq Nat \ {0}

VARIABLES
  pc,        \* "load", "generate", "evaluate", "reduced", "threw"
  inputs,    \* _value_map
  offset,    \* _slice_gen.offset()
  chunk,     \* the work at hand
  results,   \* the results so far
  reduced    \* the reduction

vars == <<pc, inputs, offset, chunk, results, reduced>>

-----------------------------------------------------------------------------
(* Tensors *)

Indices(shape) == {i \in [1 .. Len(shape) -> 1 .. Max({1} \cup {shape[d] : d \in DOMAIN shape})] :
                     \A d \in DOMAIN shape : i[d] <= shape[d]}

Rank(t) == Len(t.shape)

\* Size in dimension d, counted from the right
FromRight(shape, d) == IF d < Len(shape) THEN shape[Len(shape) - d] ELSE 1

\* The shape that the shapes of S broadcast to, and whether they do
Broadcast(S) ==
  LET rank == Max({0} \cup {Len(s) : s \in S})
  IN [d \in 1 .. rank |-> Max({1} \cup {FromRight(s, rank - d) : s \in S})]

Broadcasts(S) ==
  \A s \in S : \A d \in 0 .. Len(s) - 1 : FromRight(s, d) \in {1, FromRight(Broadcast(S), d)}

\* The entry of t that index i of a broadcast shape refers to
At(t, i) == t.at[[d \in 1 .. Rank(t) |->
                    IF t.shape[d] = 1 THEN 1 ELSE i[d + Len(i) - Rank(t)]]]

Slice(t, from, m) ==
  LET shape == [t.shape EXCEPT ![1] = m]
  IN [shape |-> shape, at |-> [i \in Indices(shape) |-> t.at[[i EXCEPT ![1] = @ + from]]]]

\* dynamic_expand of a tensor without dynamic dimensions
Expand(t, n) == [shape |-> <<n>>, at |-> [i \in Indices(<<n>>) |-> t.at[<<>>]]]

\* dynamic_cat along dimension 0
Start(ts, k) ==
  LET size[n \in 0 .. Len(ts)] == IF n = 0 THEN 0 ELSE size[n - 1] + ts[n].shape[1]
  IN size[k - 1]

Cat(ts) ==
  LET total == Start(ts, Len(ts) + 1)
      shape == [ts[1].shape EXCEPT ![1] = total]
      part(n) == CHOOSE k \in DOMAIN ts : Start(ts, k) < n /\ n <= Start(ts, k + 1)
  IN [shape |-> shape,
      at |-> [i \in Indices(shape) |-> LET k == part(i[1])
                                       IN ts[k].at[[i EXCEPT ![1] = @ - Start(ts, k)]]]]

\* The model: every output entry is made of the entries of the inputs it reads.
ShapesRead(m, o) == {m[v].shape : v \in Reads[o]}
Accepts(m) == \A o \in Outputs : Broadcasts(ShapesRead(m, o))
Update(m) ==
  [o \in Outputs |->
     LET shape == Broadcast(ShapesRead(m, o))
     IN [shape |-> shape,
         at |-> [i \in Indices(shape) |-> [v \in Reads[o] |-> At(m[v], i)]]]]

-----------------------------------------------------------------------------
(* ValueMapLoader and valuemap_cat_reduce *)

Batched(t) == Rank(t) > 0

\* broadcast_dynamic_size
BatchSize(m) == Max({0} \cup {m[v].shape[1] : v \in {w \in DOMAIN m : Batched(m[w])}})

Init ==
  /\ \E shape \in [Inputs -> Shapes] :
       inputs = [v \in Inputs |-> [shape |-> shape[v],
                                   at |-> [i \in Indices(shape[v]) |-> <<v, i>>]]]
  /\ pc = "load"
  /\ offset = 0
  /\ chunk = [v \in {} |-> {}]
  /\ results = <<>> /\ reduced = [v \in {} |-> {}]

\* The loader: sizes along dimension 0 are equal, or one, and there is a dimension 0.
Loads ==
  /\ BatchSize(inputs) > 0
  /\ \A v \in Inputs : Batched(inputs[v]) => inputs[v].shape[1] \in {1, BatchSize(inputs)}

Load ==
  /\ pc = "load"
  /\ pc' = IF Loads THEN "generate" ELSE "threw"
  /\ UNCHANGED <<inputs, offset, chunk, results, reduced>>

\* Mutation of Generate: every chunk starts where the first one does.
GenerateFromStart(n) ==
  /\ pc = "generate"
  /\ offset < BatchSize(inputs)
  /\ LET left == BatchSize(inputs) - offset
         m == IF n < left THEN n ELSE left
     IN /\ chunk' = [v \in Inputs |->
                       IF Batched(inputs[v]) /\ inputs[v].shape[1] # 1
                         THEN Slice(inputs[v], 0, m)
                         ELSE inputs[v]]
        /\ offset' = offset + m
  /\ pc' = "evaluate"
  /\ UNCHANGED <<inputs, results, reduced>>

\* The next n entries of the batch, fewer at its end; what has size one goes along whole.
Generate(n) ==
  /\ pc = "generate"
  /\ offset < BatchSize(inputs)
  /\ LET left == BatchSize(inputs) - offset
         m == IF n < left THEN n ELSE left
     IN /\ chunk' = [v \in Inputs |->
                       IF Batched(inputs[v]) /\ inputs[v].shape[1] # 1
                         THEN Slice(inputs[v], offset, m)
                         ELSE inputs[v]]
        /\ offset' = offset + m
  /\ pc' = "evaluate"
  /\ UNCHANGED <<inputs, results, reduced>>

Evaluate ==
  /\ pc = "evaluate"
  /\ IF Accepts(chunk)
       THEN results' = Append(results, Update(chunk)) /\ pc' = "generate"
       ELSE results' = results /\ pc' = "threw"
  /\ UNCHANGED <<inputs, offset, chunk, reduced>>

\* Mutation of SizesOf: what has no dimension 0 counts as one.
SizesOfAll(r) == {IF Batched(r[o]) THEN r[o].shape[1] ELSE 1 : o \in Outputs}

\* The sizes of a result along dimension 0 agree, and there is one.
SizesOf(r) == {r[o].shape[1] : o \in {p \in Outputs : Batched(r[p])}}
Reducible(r) == Cardinality(SizesOf(r)) = 1

Rebin(r) == [o \in Outputs |->
               IF Batched(r[o]) THEN r[o] ELSE Expand(r[o], CHOOSE n \in SizesOf(r) : TRUE)]

\* dynamic_cat asks that the other dimensions agree.
Concatenable(ts) ==
  \A k \in DOMAIN ts :
    /\ Len(ts[k].shape) = Len(ts[1].shape)
    /\ \A d \in 2 .. Len(ts[1].shape) : ts[k].shape[d] = ts[1].shape[d]

Reduce ==
  LET parts(o) == [k \in DOMAIN results |-> Rebin(results[k])[o]]
      ok == /\ \A k \in DOMAIN results : Reducible(results[k])
            /\ \A o \in Outputs : Concatenable(parts(o))
  IN
  /\ pc = "generate"
  /\ offset = BatchSize(inputs)
  /\ reduced' = IF ok THEN [o \in Outputs |-> Cat(parts(o))] ELSE reduced
  /\ pc' = IF ok THEN "reduced" ELSE "threw"
  /\ UNCHANGED <<inputs, offset, chunk, results>>

Ended == pc \in {"reduced", "threw"} /\ UNCHANGED vars

Next == Load \/ (\E n \in ChunkSizes : Generate(n)) \/ Evaluate \/ Reduce \/ Ended

Spec == Init /\ [][Next]_vars

-----------------------------------------------------------------------------
(* Properties *)

\* Two tensors have the same entries once broadcast.
SameEntries(t, u) ==
  /\ Broadcasts({t.shape, u.shape})
  /\ \A i \in Indices(Broadcast({t.shape, u.shape})) : At(t, i) = At(u, i)

WholeUpdate == Accepts(inputs) /\ \A o \in Outputs : SameEntries(reduced[o], Update(inputs)[o])

\* The dynamic dimensions of the inputs line up, except for inputs without any.
AlignedInputs == \A v, w \in Inputs :
  Batched(inputs[v]) /\ Batched(inputs[w]) => Rank(inputs[v]) = Rank(inputs[w])

\* However the batch is cut, chunks of one and a short last one included, the entries
\* that come back are those of the update of the whole batch, each in its place.
ChunkedIsWhole == pc = "reduced" /\ AlignedInputs => WholeUpdate

\* The reduction fails on an aligned update for two reasons only: an output depends on
\* inputs of batch size one and no others, or no output depends on a batched input.
\* An output that does not, a constant for instance, is fine beside one that does.
OfSizeOne(o) ==
  /\ \E v \in Reads[o] : Batched(inputs[v])
  /\ \A v \in Reads[o] : Batched(inputs[v]) => inputs[v].shape[1] = 1

AlignedReduces ==
  /\ pc = "threw" /\ AlignedInputs /\ Loads /\ Accepts(inputs)
  => \/ \E o \in Outputs : OfSizeOne(o)
     \/ \A o \in Outputs : \A v \in Reads[o] : ~Batched(inputs[v])

=============================================================================

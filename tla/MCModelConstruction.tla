------------------------ MODULE MCModelConstruction ------------------------
(* Instances of ModelConstruction: input files with models of one kind each of *)
(* the ways to share an object.                                               *)
EXTENDS ModelConstruction, TLC

Leaf(in, out, ps) == [kind |-> "leaf", in |-> in, out |-> out, parameters |-> ps, models |-> <<>>, auto |-> FALSE]

Composed(ms, auto) == [kind |-> "composed", in |-> {}, out |-> {}, parameters |-> <<>>, models |-> ms, auto |-> auto]

\* A model that registers another and takes over its inputs
Around(kind, m, out) == [kind |-> kind, in |-> {}, out |-> out, parameters |-> <<>>, models |-> <<m>>, auto |-> FALSE]

\* M gives parameter p of N and of P, as a function of temperature T
M == "M" :> Leaf({"T"}, {"m"}, <<<<"p", Value>>>>)
N == "N" :> Leaf({"e"}, {"s"}, <<<<"p", "M">>, <<"q", Value>>>>)
P == "P" :> Leaf({"s"}, {"w"}, <<<<"p", "M">>, <<"q", Value>>>>)
G == "G" :> Leaf({"t"}, {"T"}, <<<<"p", Value>>>>)

MCFiles == {
  \* The provider is left out, listed before, and listed after the model that uses it.
  M @@ N @@ ("A" :> Composed(<<"N">>, TRUE)) @@ ("B" :> Composed(<<"M", "N">>, TRUE))
    @@ ("C" :> Composed(<<"N", "M">>, TRUE)),
  \* Two composed submodels share a provider.
  M @@ N @@ P @@ ("D" :> Composed(<<"N">>, TRUE)) @@ ("E" :> Composed(<<"P">>, TRUE))
    @@ ("C" :> Composed(<<"D", "E">>, TRUE)),
  \* One of them has the temperature from a submodel of its own.
  M @@ N @@ P @@ G @@ ("D" :> Composed(<<"N">>, TRUE)) @@ ("E" :> Composed(<<"P">>, TRUE))
    @@ ("F" :> Composed(<<"E", "G">>, TRUE)) @@ ("C" :> Composed(<<"D", "F">>, TRUE)),
  \* The temperature comes from beside them.
  M @@ N @@ P @@ G @@ ("D" :> Composed(<<"N">>, TRUE)) @@ ("E" :> Composed(<<"P", "D">>, TRUE))
    @@ ("C" :> Composed(<<"E", "G">>, TRUE)),
  \* Providers are left to the model around.
  M @@ N @@ P @@ ("D" :> Composed(<<"N">>, FALSE)) @@ ("E" :> Composed(<<"D", "P">>, FALSE))
    @@ ("C" :> Composed(<<"D", "P">>, TRUE)) @@ ("B" :> Composed(<<"M", "D">>, TRUE)),
  \* The provider has a parameter that is provided.
  ("M" :> Leaf({"T"}, {"m"}, <<<<"p", "K">>>>)) @@ ("K" :> Leaf({"T"}, {"k"}, <<<<"p", Value>>>>)) @@ N
    @@ ("A" :> Composed(<<"N">>, TRUE)) @@ ("C" :> Composed(<<"A">>, TRUE)),
  \* One model in two composed models, with the same output inside of both.
  M @@ N @@ ("Q" :> Leaf({"s"}, {"y"}, <<>>)) @@ ("R" :> Leaf({"s"}, {"z"}, <<>>))
    @@ ("D" :> Composed(<<"N", "Q">>, TRUE)) @@ ("E" :> Composed(<<"R", "N">>, TRUE))
    @@ ("C" :> Composed(<<"D", "E">>, TRUE)),
  \* A model around one with a provided parameter
  M @@ N @@ G @@ ("W" :> Around("around", "N", {"n"})) @@ ("A" :> Composed(<<"W">>, TRUE))
    @@ ("C" :> Composed(<<"W", "G">>, TRUE)),
  \* An implicit update of x, and a model of what it returns
  M @@ ("R" :> Leaf({"x"}, {"r"}, <<<<"p", "M">>>>)) @@ ("S" :> Composed(<<"R">>, TRUE))
    @@ ("I" :> Around("implicit", "S", {"x"})) @@ ("Q" :> Leaf({"x"}, {"y"}, <<<<"p", "M">>>>))
    @@ ("C" :> Composed(<<"Q", "I">>, TRUE)),
  \* Constructors that throw after they have made submodels: the last is missing, or of
  \* the same name, or there are two of one name
  M @@ N @@ ("A" :> Composed(<<"N", "X">>, TRUE)) @@ ("B" :> Composed(<<"N", "B">>, TRUE))
    @@ ("C" :> Composed(<<"N">>, TRUE)) @@ ("D" :> Composed(<<"M", "M">>, TRUE))}

=============================================================================

----------------------------- MODULE MCAssembly -----------------------------
(* Instances of Assembly: a system of two residuals with their unknowns, a    *)
(* force and an old force, in shapes with independent, broadcast and          *)
(* dependent dimensions.                                                      *)
EXTENDS Assembly

CONSTANTS ra, rb, sa, sb, f, fo

MCPath == (ra :> <<1, 2>>) @@ (rb :> <<1, 1>>) @@ (sa :> <<2, 2>>) @@ (sb :> <<2, 1>>)
            @@ (f :> <<1, 1>>) @@ (fo :> <<3, 1>>)

MCDerivs == {<<ra, sb>>, <<rb, sb>>, <<ra, f>>, <<rb, fo>>, <<ra, sb, f>>}

\* Shapes of the two residuals, with those of their unknowns, and of the force
Shaped(a, b, g, baseA, baseB, depA, depB, depF) ==
  [intmd |-> (ra :> a) @@ (sa :> a) @@ (rb :> b) @@ (sb :> b) @@ (f :> g) @@ (fo :> g),
   base |-> (ra :> baseA) @@ (sa :> baseA) @@ (rb :> baseB) @@ (sb :> baseB) @@ (f :> <<>>) @@ (fo :> <<2>>),
   dep |-> (ra :> depA) @@ (sa :> depA) @@ (rb :> depB) @@ (sb :> depB) @@ (f :> depF) @@ (fo :> <<>>)]

MCCases == {
  Shaped(<<2>>, <<>>, <<>>, <<>>, <<2>>, <<>>, <<>>, <<>>),
  Shaped(<<2>>, <<1>>, <<2>>, <<2>>, <<>>, <<>>, <<>>, <<>>),
  Shaped(<<2, 3>>, <<3>>, <<2, 1>>, <<>>, <<>>, <<>>, <<>>, <<>>),
  Shaped(<<2, 3>>, <<3>>, <<2>>, <<>>, <<>>, <<2>>, <<1>>, <<>>),
  Shaped(<<3, 2>>, <<2>>, <<4>>, <<>>, <<>>, <<1>>, <<>>, <<1>>)}

=============================================================================

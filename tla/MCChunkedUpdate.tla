--------------------------- MODULE MCChunkedUpdate ---------------------------
(***************************************************************************)
(* Instances of ChunkedUpdate: outputs of both inputs, of one, of none.    *)
(***************************************************************************)
EXTENDS ChunkedUpdate

MCReads == [o \in {"both", "one", "none"} |->
              CASE o = "both" -> {"a", "b"} [] o = "one" -> {"a"} [] OTHER -> {}]

MCShapes == {<<>>} \cup {<<n>> : n \in 1 .. 4} \cup {<<n, m>> : n \in 1 .. 4, m \in 1 .. 2}

=============================================================================

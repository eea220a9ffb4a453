--------------------------- MODULE MCVectorStore ----------------------------
(***************************************************************************)
(* An instance of VectorStore: two variables and a member of a tuple, of   *)
(* at most two elements, and index vectors that select, swap, repeat and   *)
(* miss.                                                                   *)
(***************************************************************************)
EXTENDS VectorStore, TLC

MCIndices == {<<2, 1>>, <<2, 2>>, <<3>>}
Symmetry == Permutations(Blocks) \union Permutations(Variables)
=============================================================================

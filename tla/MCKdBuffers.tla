----------------------------- MODULE MCKdBuffers -----------------------------
(* Symmetry for the model checking of KdBuffers: threads are alike, and so  *)
(* are memory objects (an object gets its identity from its id).            *)
EXTENDS KdBuffers, TLC

Symmetry == Permutations(Thread) \cup Permutations(Object)

=============================================================================

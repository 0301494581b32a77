---------------------------- MODULE MCRxAssembly ----------------------------
(* Symmetry for the model-checking runs of RxAssembly. *)
EXTENDS RxAssembly, TLC

\* Buffers of a kind are interchangeable.
SkbSymmetry == Permutations(Linear \ Chained) \cup Permutations(Paged)
=============================================================================

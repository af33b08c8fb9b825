----------------------------- MODULE MCIndexer ------------------------------
(* A small chain and indexer for TLC. *)
EXTENDS Indexer, TLC

Symmetry == Permutations(ProofHash) \cup Permutations(Address)
=============================================================================

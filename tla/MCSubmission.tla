---------------------------- MODULE MCSubmission ----------------------------
(* A few calls of the SDK for TLC. *)
EXTENDS Submission, TLC

\* Every source compiles to the same bytecode; where CodeHash has another
\* member, it is one no source compiles to.
MCCompiles == [s \in Source |-> CHOOSE c \in CodeHash : TRUE]

MCProof ==
    [source : Source, chain : ChainId, address : Address, created : 0..MaxTime]

Symmetry == Permutations(Call) \cup Permutations(Sender)
            \cup Permutations(ChainId) \cup Permutations(Address)
=============================================================================

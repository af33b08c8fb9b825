------------------------------ MODULE MCBatch -------------------------------
(* A short list of targets for TLC. *)
EXTENDS Batch

MCCall == 0..Targets

MCCompiles == [s \in Source |-> CHOOSE c \in CodeHash : TRUE]

MCProof ==
    [source : Source, chain : ChainId, address : Address, created : 0..MaxTime]

MCAllLists == [1..Targets -> ChainId \X Address]

\* A target that comes twice with another between.  One list is enough: the
\* verify before it is on either chain.
MCDuplicate == {CHOOSE f \in MCAllLists : f[1] # f[2] /\ f[1] = f[3]}
=============================================================================

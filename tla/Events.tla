------------------------------- MODULE Events -------------------------------
(***************************************************************************)
(* The two events the registry contract emits, as the indexer reads them   *)
(* back from L1.  A log entry is an event's body with its position: the    *)
(* block it was mined in and its index among that block's logs.            *)
(***************************************************************************)
EXTENDS Integers, FiniteSets

CONSTANTS
    ProofHash,  \* keccak256 of a verification payload
    CodeHash,   \* keccak256 of a runtime bytecode
    ChainId,    \* chains a deployment can be registered for
    Address,    \* deployment addresses
    Payload,    \* (sourceHash, compilerVersion, ipfsCid) triples, all non-empty
    Sender      \* accounts that send transactions

ProofSubmitted ==
    [kind : {"ProofSubmitted"}, proofHash : ProofHash, codeHash : CodeHash,
     payload : Payload, submitter : Sender]

DeploymentRegistered ==
    [kind : {"DeploymentRegistered"}, codeHash : CodeHash, chainId : ChainId,
     address : Address, submitter : Sender]

Body == ProofSubmitted \cup DeploymentRegistered

ProofBody(p, c, d, s) ==
    [kind |-> "ProofSubmitted", proofHash |-> p, codeHash |-> c,
     payload |-> d, submitter |-> s]

DeploymentBody(c, k, a, s) ==
    [kind |-> "DeploymentRegistered", codeHash |-> c, chainId |-> k,
     address |-> a, submitter |-> s]

IsProof(b) == b.kind = "ProofSubmitted"

Entry == [body : Body, block : Nat, index : Nat]

At(b, n, i) == [body |-> b, block |-> n, index |-> i]

\* What the contract lets happen once: a proof hash, or a deployment of a
\* bytecode on a chain.  They are also the primary keys of the indexer's tables.
SameSubject(b, d) ==
    \/ /\ IsProof(b) /\ IsProof(d)
       /\ b.proofHash = d.proofHash
    \/ /\ ~IsProof(b) /\ ~IsProof(d)
       /\ b.codeHash = d.codeHash
       /\ b.chainId = d.chainId
       /\ b.address = d.address

Precedes(e, f) ==
    \/ e.block < f.block
    \/ e.block = f.block /\ e.index < f.index
=============================================================================

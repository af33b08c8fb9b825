------------------------------ MODULE Registry ------------------------------
(***************************************************************************)
(* VerificationRegistry.sol: its storage, its three transactions and the   *)
(* logs they emit.  A mapping to bool is the set of the keys that map to   *)
(* true; the other mappings are functions over every key a caller may      *)
(* pass, the zero value included.  A call whose require fails reverts and  *)
(* changes nothing, so it is the absence of a step.                        *)
(***************************************************************************)
EXTENDS Events, Sequences

CONSTANTS
    Zero,     \* bytes32(0), address(0), chain 0, an empty string
    MaxHead,  \* bound: no block after this one is produced
    MaxLogs   \* bound: the registry's logs that fit in one block

ASSUME ZeroAssumption ==
    /\ Zero \notin ProofHash
    /\ Zero \notin CodeHash
    /\ Zero \notin ChainId
    /\ Zero \notin Address
    /\ Zero \notin Payload

ASSUME RegistryBoundAssumption == MaxHead \in Nat

VARIABLES
    proofExists,           \* set of proof hashes
    verificationRecords,   \* proof hash -> record
    proofsByCodeHash,      \* code hash -> array of proof hashes
    deploymentsByCodeHash, \* code hash -> chain -> array of addresses
    chainIdsByCodeHash,    \* code hash -> array of chains
    chainIdExists,         \* set of <<code hash, chain>>
    deploymentExists,      \* set of <<code hash, chain, address>>
    head, log, nextIndex   \* the blocks and logs of L1, as in EventLog

proofVars == <<proofExists, verificationRecords, proofsByCodeHash>>
deploymentVars ==
    <<deploymentsByCodeHash, chainIdsByCodeHash, chainIdExists, deploymentExists>>
ledgerVars == <<head, log, nextIndex>>
vars == <<proofVars, deploymentVars, ledgerVars>>

\* What a caller may pass.
AnyProof   == ProofHash \cup {Zero}
AnyCode    == CodeHash \cup {Zero}
AnyChain   == ChainId \cup {Zero}
AnyAddress == Address \cup {Zero}
AnyPayload == Payload \cup {Zero}  \* Zero: one of the three strings is empty

\* submittedAt is the timestamp of the block, of which only the order matters.
Record ==
    [codeHash : AnyCode, payload : AnyPayload, submitter : Sender \cup {Zero},
     submittedAt : Nat]

NoRecord ==
    [codeHash |-> Zero, payload |-> Zero, submitter |-> Zero, submittedAt |-> 0]

Building == head + 1

-----------------------------------------------------------------------------
(* submitProof, lines 39-66: the requires, then the three writes. *)
\* Two mutants of ProofAccepted: the first and the last require forgotten.
ProofAcceptedZero(p, c, d) ==
    /\ c # Zero
    /\ d # Zero
    /\ p \notin proofExists

ProofAcceptedAgain(p, c, d) ==
    /\ p # Zero
    /\ c # Zero
    /\ d # Zero

ProofAccepted(p, c, d) ==
    /\ p # Zero
    /\ c # Zero
    /\ d # Zero
    /\ p \notin proofExists

\* Mutant: the array filled from its front.
WriteProofFront(p, c, d, s) ==
    /\ proofExists' = proofExists \cup {p}
    /\ verificationRecords' =
          [verificationRecords EXCEPT
              ![p] = [codeHash |-> c, payload |-> d, submitter |-> s,
                      submittedAt |-> Building]]
    /\ proofsByCodeHash' = [proofsByCodeHash EXCEPT ![c] = <<p>> \o @]

WriteProof(p, c, d, s) ==
    /\ proofExists' = proofExists \cup {p}
    /\ verificationRecords' =
          [verificationRecords EXCEPT
              ![p] = [codeHash |-> c, payload |-> d, submitter |-> s,
                      submittedAt |-> Building]]
    /\ proofsByCodeHash' = [proofsByCodeHash EXCEPT ![c] = Append(@, p)]

(* _registerDeployment, lines 110-125. *)
\* Mutant: the last require forgotten.
DeploymentAcceptedAgain(c, k, a) ==
    /\ c # Zero
    /\ k # Zero
    /\ a # Zero

DeploymentAccepted(c, k, a) ==
    /\ c # Zero
    /\ k # Zero
    /\ a # Zero
    /\ <<c, k, a>> \notin deploymentExists

\* Mutant: the chain pushed whether or not it is known.
NoteChainAgain(c, k) ==
    /\ chainIdExists' = chainIdExists \cup {<<c, k>>}
    /\ chainIdsByCodeHash' = [chainIdsByCodeHash EXCEPT ![c] = Append(@, k)]

NoteChain(c, k) ==
    IF <<c, k>> \in chainIdExists
    THEN UNCHANGED <<chainIdExists, chainIdsByCodeHash>>
    ELSE /\ chainIdExists' = chainIdExists \cup {<<c, k>>}
         /\ chainIdsByCodeHash' = [chainIdsByCodeHash EXCEPT ![c] = Append(@, k)]

WriteDeployment(c, k, a) ==
    /\ NoteChain(c, k)
    /\ deploymentExists' = deploymentExists \cup {<<c, k, a>>}
    /\ deploymentsByCodeHash' =
          [deploymentsByCodeHash EXCEPT ![c][k] = Append(@, a)]

-----------------------------------------------------------------------------
(* The transactions.  One is mined in the block being built. *)
CanMine(logs) == head < MaxHead /\ nextIndex + logs =< MaxLogs

SubmitProof(p, c, d, s) ==
    /\ CanMine(1)
    /\ ProofAccepted(p, c, d)
    /\ WriteProof(p, c, d, s)
    /\ log' = log \cup {At(ProofBody(p, c, d, s), Building, nextIndex)}
    /\ nextIndex' = nextIndex + 1
    /\ UNCHANGED <<deploymentVars, head>>

RegisterDeployment(c, k, a, s) ==
    /\ CanMine(1)
    /\ DeploymentAccepted(c, k, a)
    /\ WriteDeployment(c, k, a)
    /\ log' = log \cup {At(DeploymentBody(c, k, a, s), Building, nextIndex)}
    /\ nextIndex' = nextIndex + 1
    /\ UNCHANGED <<proofVars, head>>

SubmitProofAndRegister(p, c, d, k, a, s) ==
    /\ CanMine(2)
    /\ ProofAccepted(p, c, d)
    /\ DeploymentAccepted(c, k, a)
    /\ WriteProof(p, c, d, s)
    /\ WriteDeployment(c, k, a)
    /\ log' = log \cup {At(ProofBody(p, c, d, s), Building, nextIndex),
                        At(DeploymentBody(c, k, a, s), Building, nextIndex + 1)}
    /\ nextIndex' = nextIndex + 2
    /\ UNCHANGED head

SealBlock ==
    /\ head < MaxHead
    /\ head' = head + 1
    /\ nextIndex' = 0
    /\ UNCHANGED <<proofVars, deploymentVars, log>>

Init ==
    /\ proofExists = {}
    /\ verificationRecords = [p \in AnyProof |-> NoRecord]
    /\ proofsByCodeHash = [c \in AnyCode |-> <<>>]
    /\ deploymentsByCodeHash = [c \in AnyCode |-> [k \in AnyChain |-> <<>>]]
    /\ chainIdsByCodeHash = [c \in AnyCode |-> <<>>]
    /\ chainIdExists = {}
    /\ deploymentExists = {}
    /\ head = 0
    /\ log = {}
    /\ nextIndex = 0

Next ==
    \/ \E p \in AnyProof, c \in AnyCode, d \in AnyPayload, s \in Sender :
          SubmitProof(p, c, d, s)
    \/ \E c \in AnyCode, k \in AnyChain, a \in AnyAddress, s \in Sender :
          RegisterDeployment(c, k, a, s)
    \/ \E p \in AnyProof, c \in AnyCode, d \in AnyPayload,
          k \in AnyChain, a \in AnyAddress, s \in Sender :
          SubmitProofAndRegister(p, c, d, k, a, s)
    \/ SealBlock

Spec == Init /\ [][Next]_vars

-----------------------------------------------------------------------------
TypeOK ==
    /\ proofExists \subseteq ProofHash
    /\ verificationRecords \in [AnyProof -> Record]
    /\ proofsByCodeHash \in [AnyCode -> Seq(ProofHash)]
    /\ deploymentsByCodeHash \in [AnyCode -> [AnyChain -> Seq(Address)]]
    /\ chainIdsByCodeHash \in [AnyCode -> Seq(ChainId)]
    /\ chainIdExists \subseteq CodeHash \X ChainId
    /\ deploymentExists \subseteq CodeHash \X ChainId \X Address
    /\ head \in 0..MaxHead
    /\ log \subseteq Entry
    /\ nextIndex \in Nat

\* The members of an array, and that it holds none twice.
Elems(s) == {s[i] : i \in DOMAIN s}
Distinct(s) == \A i, j \in DOMAIN s : s[i] = s[j] => i = j

\* The arrays the getters return list, each once, exactly the proofs whose
\* record names the bytecode: _proofsByCodeHash against proofExists and the
\* records, three separate writes of submitProof.
ProofsListed ==
    \A c \in AnyCode :
        /\ Distinct(proofsByCodeHash[c])
        /\ Elems(proofsByCodeHash[c]) =
              {p \in proofExists : verificationRecords[p].codeHash = c}

\* Exactly the registered deployments are listed, each once, per bytecode and
\* chain: getDeployments against deploymentExists.
DeploymentsListed ==
    \A c \in AnyCode, k \in AnyChain :
        /\ Distinct(deploymentsByCodeHash[c][k])
        /\ Elems(deploymentsByCodeHash[c][k]) =
              {a \in AnyAddress : <<c, k, a>> \in deploymentExists}

\* getRegisteredChainIds lists, each once, exactly the chains on which the
\* bytecode has a deployment: a reader that walks chains and then deployments
\* misses none and visits no empty chain.
ChainsListed ==
    \A c \in AnyCode :
        /\ Distinct(chainIdsByCodeHash[c])
        /\ Elems(chainIdsByCodeHash[c]) =
              {k \in AnyChain : deploymentsByCodeHash[c][k] # <<>>}

\* The arrays the getters return are what the flags and the records say, though
\* three transactions write them one by one: a reader that walks chains, then
\* deployments, then proofs misses nothing and meets nothing twice.
ArraysListed == ProofsListed /\ DeploymentsListed /\ ChainsListed

Triple(b) == <<b.codeHash, b.chainId, b.address>>

\* Entry e repeats what storage holds.
Recorded(e) ==
    IF IsProof(e.body)
    THEN LET r == verificationRecords[e.body.proofHash]
         IN  /\ e.body.proofHash \in proofExists
             /\ e.body.codeHash = r.codeHash
             /\ e.body.payload = r.payload
             /\ e.body.submitter = r.submitter
             /\ e.block = r.submittedAt
    ELSE Triple(e.body) \in deploymentExists

\* Storage and log tell the same story: whatever the log announces is in
\* storage with the same fields, and whatever is in storage was announced.
\* The indexer and the on-chain getters can therefore agree.
LogTellsStorage ==
    /\ \A e \in log : Recorded(e)
    /\ \A p \in proofExists :
          \E e \in log : IsProof(e.body) /\ e.body.proofHash = p
    /\ \A t \in deploymentExists :
          \E e \in log : ~IsProof(e.body) /\ Triple(e.body) = t

\* Each element of an array was announced before whatever announces a later one;
\* about[x] are the entries about x.
InLogOrder(s, about) ==
    \A i, j \in DOMAIN s :
        i < j => \E e \in about[s[i]] : \A f \in about[s[j]] : Precedes(e, f)

AboutProof ==
    [p \in ProofHash |-> {e \in log : IsProof(e.body) /\ e.body.proofHash = p}]

AboutDeployment(c, k) ==
    [a \in Address |-> {e \in log : ~IsProof(e.body) /\ Triple(e.body) = <<c, k, a>>}]

AboutChain(c) ==
    [k \in ChainId |-> {e \in log : /\ ~IsProof(e.body)
                                    /\ e.body.codeHash = c /\ e.body.chainId = k}]

ProofsInLogOrder == \A c \in AnyCode : InLogOrder(proofsByCodeHash[c], AboutProof)

DeploymentsInLogOrder ==
    \A c \in AnyCode, k \in AnyChain :
        InLogOrder(deploymentsByCodeHash[c][k], AboutDeployment(c, k))

ChainsInLogOrder == \A c \in AnyCode : InLogOrder(chainIdsByCodeHash[c], AboutChain(c))

\* The arrays list in the order of the log: the proofs of a bytecode, its
\* deployments on a chain, and its chains, a chain from its first deployment on.
\* A store filled in log order and the getters list them alike.
ListedInLogOrder == ProofsInLogOrder /\ DeploymentsInLogOrder /\ ChainsInLogOrder

\* docs/spec/protocol.md:14-15: a proof is immutable once submitted, a
\* deployment registration once recorded, whatever is called later and by whom.
Extends(t, s) == /\ Len(s) =< Len(t)
                 /\ \A i \in 1..Len(s) : t[i] = s[i]
Immutable ==
    [][/\ \A p \in proofExists :
             p \in proofExists' /\ verificationRecords'[p] = verificationRecords[p]
       /\ deploymentExists \subseteq deploymentExists'
       /\ \A c \in AnyCode :
             /\ Extends(proofsByCodeHash'[c], proofsByCodeHash[c])
             /\ Extends(chainIdsByCodeHash'[c], chainIdsByCodeHash[c])
             /\ \A k \in AnyChain :
                   Extends(deploymentsByCodeHash'[c][k], deploymentsByCodeHash[c][k])]_vars

\* The contract keeps the promise EventLog makes to its readers: the storage
\* flags alone make the log's subjects unique and its blocks final.
Ledger == INSTANCE EventLog
ImplementsEventLog == Ledger!ChainSpec
=============================================================================

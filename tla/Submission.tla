----------------------------- MODULE Submission -----------------------------
(***************************************************************************)
(* The SDK's verify, verifyOrPropagate and propagate, several calls of     *)
(* them at once, against L2 chains, IPFS, an L1 node and the registry.     *)
(* Each await of a call is a step of its own: between two of them any      *)
(* other call, a transaction of a stranger or an I/O error may come.       *)
(*                                                                         *)
(* keccak256 over canonical JSON is injective here: a proof hash is its    *)
(* payload, and so is the CID it is pinned under.  Blocks play no part     *)
(* for the SDK: all transactions are mined in one.                         *)
(***************************************************************************)
EXTENDS Registry

CONSTANTS
    Call,      \* invocations of the SDK, each made once
    Source,    \* compiler inputs with their contract path and version
    Compiles,  \* Source -> the hash of the runtime bytecode solc makes of it
    MaxTime    \* bound: the milliseconds createdAt can tell apart

ASSUME CompilesAssumption == Compiles \in [Source -> CodeHash]

ASSUME MaxTimeAssumption == MaxTime \in Nat

\* unsignedProof: all that the proof hash depends on.
Proof ==
    [source : Source, chain : ChainId, address : Address, created : 0..MaxTime]

ASSUME HashAssumption == ProofHash = Proof /\ Payload = Proof

VARIABLES
    code,    \* chain -> address -> hash of the deployed bytecode, Zero for 0x
    clock,   \* the wall clock, in milliseconds
    pinned,  \* proofs IPFS can be asked for
    call,    \* the state of each invocation
    pool,    \* transactions broadcast and not yet mined
    nonce    \* account -> number of its transactions mined so far

offChain == <<code, clock, pinned>>
mempool == <<pool, nonce>>
registryVars == vars
subVars == <<registryVars, offChain, call, mempool>>

\* What a call is asked to do.  The hooks and the CLI pass no more than this.
Task ==
    [op : {"verify", "verifyOrPropagate"}, source : Source,
     chain : ChainId, address : Address, sender : Sender, expected : {Zero}]
    \cup
    [op : {"propagate"}, source : {Zero},
     chain : ChainId, address : Address, sender : Sender,
     expected : CodeHash \cup {Zero}]

Step ==
    {"idle", "inspect", "pin", "proofNonce", "proofSend",
     "readCode", "checkProofs", "deployNonce", "deploySend",
     "proofWait", "deployWait", "reread", "done"}

\* "refused": thrown for a reason found on a chain; "failed": an I/O error,
\* after which the caller cannot know what happened.
Outcome ==
    {"none", "verified", "propagated", "already-registered", "refused", "failed"}

Tx == [call : Call, sender : Sender, nonce : Nat,
       to : {"submitProofAndRegister", "registerDeployment"}]

Compiled(x) == Compiles[call[x].source]

ProofOf(x) ==
    [source |-> call[x].source, chain |-> call[x].chain,
     address |-> call[x].address, created |-> call[x].created]

Deployed(x) == code[call[x].chain][call[x].address]

IsAt(x, s) == call[x].step = s

Goto(x, s) == call' = [call EXCEPT ![x].step = s]

Finish(x, o) == call' = [call EXCEPT ![x].step = "done", ![x].outcome = o]

-----------------------------------------------------------------------------
Started(t) ==
    [op |-> t.op, source |-> t.source, chain |-> t.chain,
     address |-> t.address, sender |-> t.sender, expected |-> t.expected,
     step |-> IF t.op = "propagate" THEN "readCode" ELSE "inspect",
     created |-> 0, codeHash |-> Zero, nonce |-> 0, outcome |-> "none",
     anchored |-> /\ t.op # "propagate"  \* history: for a property
                  /\ proofsByCodeHash[Compiles[t.source]] # <<>>]

Start(x, t) ==
    /\ IsAt(x, "idle")
    /\ call' = [call EXCEPT ![x] = Started(t)]
    /\ UNCHANGED <<registryVars, offChain, mempool>>

(* verify, lines 125-194: compile, read the code, compare, stamp, pin. *)
\* Mutant: the two bytecodes not compared.
InspectUnmatched(x) ==
    /\ IsAt(x, "inspect")
    /\ call' = [call EXCEPT ![x].step = "pin", ![x].created = clock,
                            ![x].codeHash = Compiled(x)]
    /\ UNCHANGED <<registryVars, offChain, mempool>>

Inspect(x) ==
    /\ IsAt(x, "inspect")
    /\ IF Deployed(x) = Compiled(x)
       THEN call' = [call EXCEPT ![x].step = "pin", ![x].created = clock,
                                 ![x].codeHash = Compiled(x)]
       ELSE Finish(x, "refused")
    /\ UNCHANGED <<registryVars, offChain, mempool>>

\* Mutant: the transaction sent without the pin awaited.
PinUnawaited(x) ==
    /\ IsAt(x, "pin")
    /\ \/ pinned' = pinned \cup {ProofOf(x)}
       \/ UNCHANGED pinned
    /\ Goto(x, "proofNonce")
    /\ UNCHANGED <<registryVars, code, clock, mempool>>

Pin(x) ==
    /\ IsAt(x, "pin")
    /\ pinned' = pinned \cup {ProofOf(x)}
    /\ Goto(x, "proofNonce")
    /\ UNCHANGED <<registryVars, code, clock, mempool>>

-----------------------------------------------------------------------------
(* Sending, as ethers' Wallet does it: read the account's pending nonce,   *)
(* estimate the gas against the mined state, broadcast.  The estimate of a *)
(* call that would revert throws with the reason of the require.           *)
PoolOf(s) == {t \in pool : t.sender = s}

\* Mutant: the mined nonce taken for the pending one.
MinedNonce(s) == nonce[s]

PendingNonce(s) == nonce[s] + Cardinality(PoolOf(s))

ReadNonce(x, from, to) ==
    /\ IsAt(x, from)
    /\ call' = [call EXCEPT ![x].nonce = PendingNonce(call[x].sender),
                            ![x].step = to]
    /\ UNCHANGED <<registryVars, offChain, mempool>>

\* A node refuses a nonce that is used up or already pending.
NodeTakes(x) ==
    /\ call[x].nonce >= nonce[call[x].sender]
    /\ \A t \in PoolOf(call[x].sender) : t.nonce # call[x].nonce

Broadcast(x, to, wait) ==
    IF NodeTakes(x)
    THEN /\ pool' = pool \cup {[call |-> x, sender |-> call[x].sender,
                                nonce |-> call[x].nonce, to |-> to]}
         /\ Goto(x, wait)
    ELSE /\ Finish(x, "refused")
         /\ UNCHANGED pool

TakesProof(x) ==
    /\ ProofAccepted(ProofOf(x), call[x].codeHash, ProofOf(x))
    /\ DeploymentAccepted(call[x].codeHash, call[x].chain, call[x].address)

TakesDeployment(x) ==
    DeploymentAccepted(call[x].codeHash, call[x].chain, call[x].address)

\* Lines 202-210, and verifyOrPropagate's catch, lines 231-235: "proof exists"
\* is the only error it absorbs, and the contract tests it first.
SendProof(x) ==
    /\ IsAt(x, "proofSend")
    /\ IF TakesProof(x)
       THEN Broadcast(x, "submitProofAndRegister", "proofWait")
       ELSE /\ IF /\ call[x].op = "verifyOrPropagate"
                  /\ ProofOf(x) \in proofExists
               THEN Goto(x, "readCode")
               ELSE Finish(x, "refused")
            /\ UNCHANGED pool
    /\ UNCHANGED <<registryVars, offChain, nonce>>

(* propagate, lines 316-327. *)
ReadCode(x) ==
    /\ IsAt(x, "readCode")
    /\ IF Deployed(x) # Zero /\ call[x].expected \in {Zero, Deployed(x)}
       THEN call' = [call EXCEPT ![x].step = "checkProofs",
                                 ![x].codeHash = Deployed(x)]
       ELSE Finish(x, "refused")
    /\ UNCHANGED <<registryVars, offChain, mempool>>

\* Mutant: a bytecode without a proof let through.
CheckProofsNever(x) ==
    /\ IsAt(x, "checkProofs")
    /\ Goto(x, "deployNonce")
    /\ UNCHANGED <<registryVars, offChain, mempool>>

CheckProofs(x) ==
    /\ IsAt(x, "checkProofs")
    /\ IF proofsByCodeHash[call[x].codeHash] # <<>>
       THEN Goto(x, "deployNonce")
       ELSE Finish(x, "refused")
    /\ UNCHANGED <<registryVars, offChain, mempool>>

\* Line 327, and the inner catch, lines 248-252.
SendDeployment(x) ==
    /\ IsAt(x, "deploySend")
    /\ IF TakesDeployment(x)
       THEN Broadcast(x, "registerDeployment", "deployWait")
       ELSE /\ IF call[x].op = "verifyOrPropagate"
               THEN Goto(x, "reread")
               ELSE Finish(x, "refused")
            /\ UNCHANGED pool
    /\ UNCHANGED <<registryVars, offChain, nonce>>

\* Mutant: the mode of the answer left out.
RereadStuck(x) ==
    /\ IsAt(x, "reread")
    /\ Goto(x, "done")
    /\ UNCHANGED <<registryVars, offChain, mempool>>

\* Lines 254-259: the code hash of the answer is read anew.
Reread(x) ==
    /\ IsAt(x, "reread")
    /\ IF Deployed(x) # Zero
       THEN call' = [call EXCEPT ![x].step = "done",
                                 ![x].outcome = "already-registered",
                                 ![x].codeHash = Deployed(x)]
       ELSE Finish(x, "refused")
    /\ UNCHANGED <<registryVars, offChain, mempool>>

\* Any awaited request of a call may fail, its transaction sent or not.
IoError(x) ==
    /\ call[x].step \notin {"idle", "done"}
    /\ Finish(x, "failed")
    /\ UNCHANGED <<registryVars, offChain, mempool>>

-----------------------------------------------------------------------------
(* Mining.  tx.wait returns a receipt, or throws without a reason when the *)
(* mined transaction reverted: verifyOrPropagate does not absorb that.     *)
\* Mutant: the status of the receipt ignored.
SettleAlways(x, wait, o, landed) ==
    IF IsAt(x, wait) THEN Finish(x, o) ELSE UNCHANGED call

Settle(x, wait, o, landed) ==
    IF IsAt(x, wait)
    THEN Finish(x, IF landed THEN o ELSE "refused")
    ELSE UNCHANGED call

IsNextOf(t) == t.nonce = nonce[t.sender]

Leaves(t) ==
    /\ pool' = pool \ {t}
    /\ nonce' = [nonce EXCEPT ![t.sender] = @ + 1]
    /\ UNCHANGED offChain

MineProof(t) ==
    LET x == t.call
    IN  /\ t.to = "submitProofAndRegister"
        /\ IsNextOf(t)
        /\ IF TakesProof(x)
           THEN SubmitProofAndRegister(ProofOf(x), call[x].codeHash, ProofOf(x),
                    call[x].chain, call[x].address, t.sender)
           ELSE UNCHANGED registryVars
        /\ Settle(x, "proofWait", "verified", TakesProof(x))
        /\ Leaves(t)

MineDeployment(t) ==
    LET x == t.call
    IN  /\ t.to = "registerDeployment"
        /\ IsNextOf(t)
        /\ IF TakesDeployment(x)
           THEN RegisterDeployment(call[x].codeHash, call[x].chain,
                    call[x].address, t.sender)
           ELSE UNCHANGED registryVars
        /\ Settle(x, "deployWait", "propagated", TakesDeployment(x))
        /\ Leaves(t)

\* A stranger anchors a pinned proof with a submitProof of its own.
Reanchor(p, s) ==
    /\ SubmitProof(p, Compiles[p.source], p, s)
    /\ UNCHANGED <<offChain, call, mempool>>

DeployContract(k, a, c) ==
    /\ code[k][a] = Zero
    /\ code' = [code EXCEPT ![k][a] = c]
    /\ UNCHANGED <<registryVars, clock, pinned, call, mempool>>

Tick ==
    /\ clock < MaxTime
    /\ clock' = clock + 1
    /\ UNCHANGED <<registryVars, code, pinned, call, mempool>>

-----------------------------------------------------------------------------
Idle ==
    [op |-> "propagate", source |-> Zero, chain |-> Zero, address |-> Zero,
     sender |-> Zero, expected |-> Zero, step |-> "idle", created |-> 0,
     codeHash |-> Zero, nonce |-> 0, outcome |-> "none", anchored |-> FALSE]

SubInit ==
    /\ Init
    /\ code = [k \in ChainId |-> [a \in Address |-> Zero]]
    /\ clock = 0
    /\ pinned = {}
    /\ call = [x \in Call |-> Idle]
    /\ pool = {}
    /\ nonce = [s \in Sender |-> 0]

Advance(x) ==
    \/ Inspect(x)
    \/ Pin(x)
    \/ ReadNonce(x, "proofNonce", "proofSend")
    \/ SendProof(x)
    \/ ReadCode(x)
    \/ CheckProofs(x)
    \/ ReadNonce(x, "deployNonce", "deploySend")
    \/ SendDeployment(x)
    \/ Reread(x)

Mine == \E t \in pool : MineProof(t) \/ MineDeployment(t)

World ==
    \/ \E p \in pinned, s \in Sender : Reanchor(p, s)
    \/ \E k \in ChainId, a \in Address, c \in CodeHash : DeployContract(k, a, c)
    \/ Tick

SubNext ==
    \/ \E x \in Call, t \in Task : Start(x, t)
    \/ \E x \in Call : Advance(x)
    \/ \E x \in Call : IoError(x)
    \/ Mine
    \/ World

SubSpec == SubInit /\ [][SubNext]_subVars

-----------------------------------------------------------------------------
SubTypeOK ==
    /\ code \in [ChainId -> [Address -> CodeHash \cup {Zero}]]
    /\ clock \in 0..MaxTime
    /\ pinned \subseteq Proof
    /\ \A x \in Call :
          /\ call[x].step \in Step
          /\ call[x].outcome \in Outcome
          /\ (call[x].step = "done") = (call[x].outcome # "none")
    /\ pool \subseteq Tx
    /\ nonce \in [Sender -> Nat]

OnRecord(x) == <<call[x].codeHash, call[x].chain, call[x].address>> \in deploymentExists

\* What a call reports is so: a verified target has its proof anchored and its
\* deployment registered, a propagated or already registered one is registered
\* under the code hash the call returns.
OutcomeTruthful ==
    \A x \in Call :
        /\ call[x].outcome \in {"verified", "propagated", "already-registered"}
              => OnRecord(x)
        /\ call[x].outcome = "verified"
              => /\ ProofOf(x) \in proofExists
                 /\ verificationRecords[ProofOf(x)].codeHash = call[x].codeHash

\* Every anchored proof resolves, as getProofByHash does it: IPFS has the
\* payload, and record and payload agree.  A crash or an error between pin and
\* transaction may leave a pin without an anchor, never the reverse.
ProofsResolve ==
    \A p \in proofExists :
        /\ p \in pinned
        /\ verificationRecords[p].payload = p
        /\ verificationRecords[p].codeHash = Compiles[p.source]

\* The SDK registers no deployment of a bytecode without an anchored proof,
\* which the contract would accept: docs/spec/protocol.md:42.
DeploymentsProven ==
    \A t \in deploymentExists : proofsByCodeHash[t[1]] # <<>>

\* A registered deployment runs the bytecode it is registered under.
DeploymentsRunTheCode ==
    \A t \in deploymentExists : code[t[2]][t[3]] = t[1]

\* Of the calls that race to register a target, retries included, one at most
\* reports having done it.
OneWinner ==
    \A x, y \in Call :
        /\ {call[x].outcome, call[y].outcome} \subseteq {"verified", "propagated"}
        /\ call[x].chain = call[y].chain
        /\ call[x].address = call[y].address
        => x = y

\* README.md:156: the hooks "submit a fresh proof or fall back to propagation if
\* the proof already exists on L1": a hook for a bytecode that had an anchored
\* proof when it started anchors no other.
FallsBackToPropagation ==
    \A x \in Call :
        /\ call[x].op = "verifyOrPropagate"
        /\ call[x].anchored
        => call[x].outcome # "verified"
=============================================================================

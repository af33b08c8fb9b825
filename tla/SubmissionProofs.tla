-------------------------- MODULE SubmissionProofs --------------------------
(* Theorems about Submission, for every number of calls, accounts, chains,
   bytecodes and sources. *)
EXTENDS Submission, RegistryProofs, FiniteSetTheorems

-----------------------------------------------------------------------------
(* Types *)

CallState ==
    [op : {"verify", "verifyOrPropagate", "propagate"}, source : Source \cup {Zero},
     chain : ChainId \cup {Zero}, address : Address \cup {Zero},
     sender : Sender \cup {Zero}, expected : CodeHash \cup {Zero}, step : Step,
     created : 0..MaxTime, codeHash : CodeHash \cup {Zero}, nonce : Nat,
     outcome : Outcome, anchored : BOOLEAN]

CallsTyped == call \in [Call -> CallState]

\* What a call that was started carries.
Carries(x) ==
    /\ call[x].step # "idle" =>
          /\ call[x].chain \in ChainId
          /\ call[x].address \in Address
          /\ call[x].sender \in Sender
    /\ call[x].op # "propagate" => call[x].source \in Source
    /\ call[x].step \in {"inspect", "pin", "proofNonce", "proofSend", "proofWait"}
          => call[x].op # "propagate"
    /\ call[x].step = "done" <=> call[x].outcome # "none"

\* A transaction in the pool belongs to a call that waits for it, or that has
\* given up on it and will not touch its own fields again.
PoolTyped ==
    /\ pool \subseteq Tx
    /\ IsFiniteSet(pool)
    /\ \A t \in pool :
          /\ call[t.call].step \in {"proofWait", "deployWait", "done"}
          /\ t.to = "submitProofAndRegister" => call[t.call].op # "propagate"

SubTypes ==
    /\ code \in [ChainId -> [Address -> CodeHash \cup {Zero}]]
    /\ clock \in 0..MaxTime
    /\ pinned \subseteq Proof
    /\ CallsTyped
    /\ \A x \in Call : Carries(x)
    /\ PoolTyped
    /\ nonce \in [Sender -> Nat]

\* The fields of a call that no step of it changes.
SameCall(x) ==
    /\ call'[x].op = call[x].op
    /\ call'[x].source = call[x].source
    /\ call'[x].chain = call[x].chain
    /\ call'[x].address = call[x].address
    /\ call'[x].sender = call[x].sender
    /\ call'[x].expected = call[x].expected

OthersSame(x) == \A y \in Call \ {x} : call'[y] = call[y]

LEMMA GotoFields ==
    ASSUME CallsTyped, NEW x \in Call, NEW s \in Step, Goto(x, s)
    PROVE  /\ CallsTyped'
           /\ OthersSame(x)
           /\ SameCall(x)
           /\ call'[x].step = s
           /\ call'[x].codeHash = call[x].codeHash
           /\ call'[x].created = call[x].created
           /\ call'[x].outcome = call[x].outcome
BY DEF Goto, CallsTyped, CallState, OthersSame, SameCall

LEMMA FinishFields ==
    ASSUME CallsTyped, NEW x \in Call, NEW o \in Outcome \ {"none"}, Finish(x, o)
    PROVE  /\ CallsTyped'
           /\ OthersSame(x)
           /\ SameCall(x)
           /\ call'[x].step = "done"
           /\ call'[x].codeHash = call[x].codeHash
           /\ call'[x].created = call[x].created
           /\ call'[x].outcome = o
<1> DEFINE r == [call[x] EXCEPT !.step = "done", !.outcome = o]
<1>1. call[x] \in CallState
      BY DEF CallsTyped
<1>2. r \in CallState
      BY <1>1 DEF CallState, Step
<1>3. call' = [call EXCEPT ![x] = r]
      BY DEF Finish
<1> QED
      BY <1>1, <1>2, <1>3 DEF CallsTyped, CallState, OthersSame, SameCall

\* A step of x after which it is where its op may be, and which leaves no
\* transaction of a call that is still to move.
Moves(x) ==
    /\ CallsTyped'
    /\ OthersSame(x)
    /\ SameCall(x)
    /\ call[x].step # "idle"
    /\ call'[x].step # "idle"
    /\ call'[x].step = "done" <=> call'[x].outcome # "none"
    /\ call'[x].step \in {"inspect", "pin", "proofNonce", "proofSend", "proofWait"}
          => call[x].op # "propagate"
    /\ \/ call[x].step \notin {"proofWait", "deployWait", "done"}
       \/ call'[x].step = "done"

LEMMA GotoMoves ==
    ASSUME SubTypes, NEW x \in Call, NEW s \in Step \ {"idle", "done"}, Goto(x, s),
           call[x].step \notin {"idle", "proofWait", "deployWait", "done"},
           s \in {"inspect", "pin", "proofNonce", "proofSend", "proofWait"}
               => call[x].op # "propagate"
    PROVE  Moves(x) /\ call'[x].step = s
BY GotoFields DEF SubTypes, Moves, Carries

LEMMA FinishMoves ==
    ASSUME SubTypes, NEW x \in Call, NEW o \in Outcome \ {"none"}, Finish(x, o),
           call[x].step # "idle"
    PROVE  Moves(x) /\ call'[x].step = "done"
BY FinishFields DEF SubTypes, Moves

LEMMA MoveKeepsCarries ==
    ASSUME SubTypes, NEW x \in Call, Moves(x)
    PROVE  \A y \in Call : Carries(y)'
<1> SUFFICES ASSUME NEW y \in Call
             PROVE  Carries(y)'
    OBVIOUS
<1>1. CASE y = x
      BY <1>1 DEF SubTypes, Moves, Carries, SameCall
<1>2. CASE y # x
      BY <1>2 DEF SubTypes, Moves, Carries, OthersSame
<1> QED
    BY <1>1, <1>2

LEMMA MoveKeepsPool ==
    ASSUME SubTypes, NEW x \in Call, Moves(x), pool' = pool
    PROVE  PoolTyped'
<1> SUFFICES ASSUME NEW t \in pool
             PROVE  /\ call'[t.call].step \in {"proofWait", "deployWait", "done"}
                    /\ t.to = "submitProofAndRegister" => call'[t.call].op # "propagate"
    BY DEF SubTypes, PoolTyped
<1>1. t.call \in Call
      BY DEF SubTypes, PoolTyped, Tx
<1>2. CASE t.call = x
      BY <1>1, <1>2 DEF SubTypes, PoolTyped, Moves, SameCall
<1>3. CASE t.call # x
      BY <1>1, <1>3 DEF SubTypes, PoolTyped, Moves, OthersSame
<1> QED
    BY <1>2, <1>3

\* The steps that change nothing but the call, and the pins.
LocalStep(x) ==
    \/ Inspect(x)
    \/ Pin(x)
    \/ ReadNonce(x, "proofNonce", "proofSend")
    \/ ReadCode(x)
    \/ CheckProofs(x)
    \/ ReadNonce(x, "deployNonce", "deploySend")
    \/ Reread(x)
    \/ IoError(x)

LEMMA NonceIsNat ==
    ASSUME SubTypes, NEW s \in Sender
    PROVE  PendingNonce(s) \in Nat
<1>1. IsFiniteSet(PoolOf(s))
      BY FS_Subset DEF SubTypes, PoolTyped, PoolOf
<1>2. Cardinality(PoolOf(s)) \in Nat
      BY <1>1, FS_CardinalityType
<1> QED
    BY <1>2 DEF PendingNonce, SubTypes

LEMMA LocalMoves ==
    ASSUME SubTypes, NEW x \in Call, LocalStep(x)
    PROVE  Moves(x) /\ UNCHANGED <<registryVars, code, clock, mempool>> /\ pinned' \subseteq Proof
<1> USE DEF SubTypes, IsAt, Moves
<1>1. CASE Inspect(x)
  <2>1. Compiled(x) \in CodeHash
        BY <1>1, CompilesAssumption DEF Inspect, Compiled, Carries
  <2>2. CASE Deployed(x) = Compiled(x)
    <3> DEFINE r == [call[x] EXCEPT !.step = "pin", !.created = clock,
                                    !.codeHash = Compiled(x)]
    <3>1. call[x] \in CallState
          BY DEF CallsTyped
    <3>2. r \in CallState
          BY <2>1, <3>1 DEF CallState, Step
    <3>3. call' = [call EXCEPT ![x] = r]
          BY <1>1, <2>2 DEF Inspect
    <3>4. CallsTyped' /\ OthersSame(x) /\ call'[x].step = "pin"
          /\ call'[x].outcome = call[x].outcome
          BY <3>1, <3>2, <3>3 DEF CallsTyped, CallState, OthersSame
    <3>5. SameCall(x)
          BY <3>1, <3>3, <3>4 DEF SameCall, CallState, CallsTyped
    <3> QED
        BY <1>1, <3>4, <3>5 DEF Inspect, Carries, offChain
  <2>3. CASE Deployed(x) # Compiled(x)
        BY <1>1, <2>3, FinishMoves DEF Inspect, Outcome, offChain
  <2> QED
      BY <2>2, <2>3
<1>2. CASE Pin(x)
  <2>1. pinned' \subseteq Proof
        BY <1>2 DEF Pin, ProofOf, Proof, Carries, CallsTyped, CallState
  <2> QED
      BY <1>2, <2>1, GotoMoves DEF Pin, Step, Carries
<1>3. ASSUME NEW from \in {"proofNonce", "deployNonce"}, NEW to \in {"proofSend", "deploySend"},
             from = "proofNonce" <=> to = "proofSend", ReadNonce(x, from, to)
      PROVE  Moves(x) /\ UNCHANGED <<registryVars, offChain, mempool>>
  <2> DEFINE r == [call[x] EXCEPT !.nonce = PendingNonce(call[x].sender), !.step = to]
  <2>1. call[x] \in CallState /\ call[x].step = from
        BY <1>3 DEF CallsTyped, ReadNonce
  <2>2. PendingNonce(call[x].sender) \in Nat
        BY <2>1, NonceIsNat DEF Carries
  <2>3. r \in CallState
        BY <2>1, <2>2 DEF CallState, Step
  <2>4. call' = [call EXCEPT ![x] = r]
        BY <1>3 DEF ReadNonce
  <2>5. CallsTyped' /\ OthersSame(x) /\ call'[x].step = to
        /\ call'[x].outcome = call[x].outcome
        BY <2>1, <2>3, <2>4 DEF CallsTyped, CallState, OthersSame
  <2>6. SameCall(x)
        BY <2>1, <2>4, <2>5 DEF SameCall, CallState, CallsTyped
  <2> QED
      BY <1>3, <2>1, <2>5, <2>6 DEF ReadNonce, Carries
<1>4. CASE ReadCode(x)
  <2>1. call[x].step = "readCode" /\ Deployed(x) \in CodeHash \cup {Zero}
        BY <1>4 DEF ReadCode, Deployed, Carries
  <2>2. CASE Deployed(x) # Zero /\ call[x].expected \in {Zero, Deployed(x)}
    <3> DEFINE r == [call[x] EXCEPT !.step = "checkProofs", !.codeHash = Deployed(x)]
    <3>1. call[x] \in CallState
          BY DEF CallsTyped
    <3>2. r \in CallState
          BY <2>1, <3>1 DEF CallState, Step
    <3>3. call' = [call EXCEPT ![x] = r]
          BY <1>4, <2>2 DEF ReadCode
    <3>4. CallsTyped' /\ OthersSame(x) /\ call'[x].step = "checkProofs"
          /\ call'[x].outcome = call[x].outcome
          BY <3>1, <3>2, <3>3 DEF CallsTyped, CallState, OthersSame
    <3>5. SameCall(x)
          BY <3>1, <3>3, <3>4 DEF SameCall, CallState, CallsTyped
    <3> QED
        BY <1>4, <2>1, <3>4, <3>5 DEF ReadCode, Carries, offChain
  <2>3. CASE ~(Deployed(x) # Zero /\ call[x].expected \in {Zero, Deployed(x)})
    <3>1. Finish(x, "refused")
          BY <1>4, <2>3 DEF ReadCode
    <3> QED
        BY <1>4, <2>1, <3>1, FinishMoves DEF ReadCode, Outcome, offChain
  <2> QED
      BY <2>2, <2>3
<1>5. CASE CheckProofs(x)
  <2>1. Goto(x, "deployNonce") \/ Finish(x, "refused")
        BY <1>5 DEF CheckProofs
  <2> QED
      BY <1>5, <2>1, GotoMoves, FinishMoves DEF CheckProofs, Step, Outcome, offChain
<1>6. CASE Reread(x)
  <2>1. call[x].step = "reread" /\ Deployed(x) \in CodeHash \cup {Zero}
        BY <1>6 DEF Reread, Deployed, Carries
  <2>2. CASE Deployed(x) # Zero
    <3> DEFINE r == [call[x] EXCEPT !.step = "done", !.outcome = "already-registered",
                                    !.codeHash = Deployed(x)]
    <3>1. call[x] \in CallState
          BY DEF CallsTyped
    <3>2. r \in CallState
          BY <2>1, <3>1 DEF CallState, Step, Outcome
    <3>3. call' = [call EXCEPT ![x] = r]
          BY <1>6, <2>2 DEF Reread
    <3>4. CallsTyped' /\ OthersSame(x) /\ call'[x].step = "done"
          /\ call'[x].outcome = "already-registered"
          BY <3>1, <3>2, <3>3 DEF CallsTyped, CallState, OthersSame
    <3>5. SameCall(x)
          BY <3>1, <3>3, <3>4 DEF SameCall, CallState, CallsTyped
    <3> QED
        BY <1>6, <2>1, <3>4, <3>5 DEF Reread, offChain
  <2>3. CASE Deployed(x) = Zero
    <3>1. Finish(x, "refused")
          BY <1>6, <2>3 DEF Reread
    <3> QED
        BY <1>6, <2>1, <3>1, FinishMoves DEF Reread, Outcome, offChain
  <2> QED
      BY <2>2, <2>3
<1>7. CASE IoError(x)
      BY <1>7, FinishMoves DEF IoError, Outcome, offChain
<1> QED
    BY <1>1, <1>2, <1>3, <1>4, <1>5, <1>6, <1>7 DEF LocalStep, offChain

LEMMA BroadcastTypes ==
    ASSUME SubTypes, NEW x \in Call,
           NEW to \in {"submitProofAndRegister", "registerDeployment"},
           NEW wait \in {"proofWait", "deployWait"},
           call[x].step \in {"proofSend", "deploySend"},
           call[x].step = "proofSend" => call[x].op # "propagate",
           to = "submitProofAndRegister" => call[x].step = "proofSend",
           wait = "proofWait" => call[x].step = "proofSend",
           Broadcast(x, to, wait)
    PROVE  Moves(x) /\ PoolTyped'
<1> DEFINE tx == [call |-> x, sender |-> call[x].sender, nonce |-> call[x].nonce, to |-> to]
<1>1. CASE NodeTakes(x)
  <2>1. pool' = pool \cup {tx} /\ Goto(x, wait)
        BY <1>1 DEF Broadcast
  <2>2. Moves(x) /\ call'[x].step = wait
        BY <2>1, GotoMoves DEF SubTypes, Moves, Step
  <2>3. tx \in Tx
        BY DEF SubTypes, CallsTyped, CallState, Carries, Tx
  <2>4. pool' \subseteq Tx /\ IsFiniteSet(pool')
        BY <2>1, <2>3, FS_AddElement DEF SubTypes, PoolTyped
  <2>5. ASSUME NEW t \in pool'
        PROVE  /\ call'[t.call].step \in {"proofWait", "deployWait", "done"}
               /\ t.to = "submitProofAndRegister" => call'[t.call].op # "propagate"
    <3>1. CASE t = tx
          BY <2>2, <3>1 DEF Moves, SameCall
    <3>2. CASE t # tx
      <4>1. t \in pool /\ t.call \in Call
            BY <2>1, <3>2 DEF SubTypes, PoolTyped, Tx
      <4>2. call[t.call].step \in {"proofWait", "deployWait", "done"} /\ t.call # x
            BY <4>1 DEF SubTypes, PoolTyped
      <4> QED
          BY <2>2, <4>1, <4>2 DEF SubTypes, PoolTyped, Moves, OthersSame
    <3> QED
        BY <3>1, <3>2
  <2> QED
      BY <2>2, <2>4, <2>5 DEF PoolTyped
<1>2. CASE ~NodeTakes(x)
  <2>1. Finish(x, "refused") /\ pool' = pool
        BY <1>2 DEF Broadcast
  <2>2. Moves(x)
        BY <2>1, FinishMoves DEF SubTypes, Moves, Outcome
  <2> QED
      BY <2>1, <2>2, MoveKeepsPool
<1> QED
    BY <1>1, <1>2

LEMMA SendProofTypes ==
    ASSUME SubTypes, NEW x \in Call, SendProof(x)
    PROVE  Moves(x) /\ PoolTyped' /\ UNCHANGED <<registryVars, offChain, nonce>>
<1>1. call[x].step = "proofSend" /\ call[x].op # "propagate"
      BY DEF SendProof, IsAt, SubTypes, Carries
<1>2. CASE TakesProof(x)
      BY <1>1, <1>2, BroadcastTypes DEF SendProof
<1>3. CASE ~TakesProof(x)
  <2>1. pool' = pool /\ (Goto(x, "readCode") \/ Finish(x, "refused"))
        BY <1>3 DEF SendProof
  <2>2. Moves(x)
        BY <1>1, <2>1, GotoMoves, FinishMoves DEF SubTypes, Moves, Step, Outcome
  <2> QED
      BY <2>1, <2>2, MoveKeepsPool DEF SendProof
<1> QED
    BY <1>2, <1>3

LEMMA SendDeploymentTypes ==
    ASSUME SubTypes, NEW x \in Call, SendDeployment(x)
    PROVE  Moves(x) /\ PoolTyped' /\ UNCHANGED <<registryVars, offChain, nonce>>
<1>1. call[x].step = "deploySend"
      BY DEF SendDeployment, IsAt
<1>2. CASE TakesDeployment(x)
      BY <1>1, <1>2, BroadcastTypes DEF SendDeployment
<1>3. CASE ~TakesDeployment(x)
  <2>1. pool' = pool /\ (Goto(x, "reread") \/ Finish(x, "refused"))
        BY <1>3 DEF SendDeployment
  <2>2. Moves(x)
        BY <1>1, <2>1, GotoMoves, FinishMoves DEF SubTypes, Moves, Step, Outcome
  <2> QED
      BY <2>1, <2>2, MoveKeepsPool DEF SendDeployment
<1> QED
    BY <1>2, <1>3

\* Mining ends the call that waits for the transaction, if one still does.
LEMMA MineTypes ==
    ASSUME SubTypes, NEW t \in pool, MineProof(t) \/ MineDeployment(t)
    PROVE  SubTypes'
<1> DEFINE x == t.call
<1>1. x \in Call /\ t.sender \in Sender
      BY DEF SubTypes, PoolTyped, Tx
<1>2. /\ UNCHANGED offChain
      /\ pool' = pool \ {t}
      /\ nonce' = [nonce EXCEPT ![t.sender] = @ + 1]
      BY DEF MineProof, MineDeployment, Leaves
<1>3. UNCHANGED call \/ \E o \in Outcome \ {"none"} : Finish(x, o)
      BY DEF MineProof, MineDeployment, Settle, Outcome
<1>4. UNCHANGED call \/ Moves(x)
  <2>1. CASE UNCHANGED call
        BY <2>1
  <2>2. CASE \E o \in Outcome \ {"none"} : Finish(x, o)
    <3>1. PICK o \in Outcome \ {"none"} : Finish(x, o)
          BY <2>2
    <3>2. call[x].step # "idle"
          BY DEF SubTypes, PoolTyped
    <3> HIDE DEF x
    <3> QED
        BY <1>1, <3>1, <3>2, FinishMoves DEF SubTypes, Moves
  <2> QED
      BY <1>3, <2>1, <2>2
<1>5. nonce' \in [Sender -> Nat]
      BY <1>1, <1>2 DEF SubTypes
<1>6. pool' \subseteq Tx /\ IsFiniteSet(pool')
      BY <1>2, FS_RemoveElement DEF SubTypes, PoolTyped
<1>7. CallsTyped' /\ \A y \in Call : Carries(y)'
  <2>1. CASE UNCHANGED call
        BY <2>1 DEF SubTypes, CallsTyped, Carries
  <2>2. CASE Moves(x)
        BY <1>1, <2>2, MoveKeepsCarries DEF Moves
  <2> QED
      BY <1>4, <2>1, <2>2
<1>8. ASSUME NEW u \in pool'
      PROVE  /\ call'[u.call].step \in {"proofWait", "deployWait", "done"}
             /\ u.to = "submitProofAndRegister" => call'[u.call].op # "propagate"
  <2>1. u \in pool /\ u.call \in Call
        BY <1>2 DEF SubTypes, PoolTyped, Tx
  <2>2. CASE UNCHANGED call
        BY <2>1, <2>2 DEF SubTypes, PoolTyped
  <2>3. CASE Moves(x) /\ u.call # x
        BY <2>1, <2>3 DEF SubTypes, PoolTyped, Moves, OthersSame
  <2>4. CASE Moves(x) /\ u.call = x
        BY <1>1, <2>1, <2>4 DEF SubTypes, PoolTyped, Moves, SameCall
  <2> QED
      BY <1>4, <2>2, <2>3, <2>4
<1> QED
    BY <1>2, <1>5, <1>6, <1>7, <1>8 DEF SubTypes, PoolTyped, offChain

LEMMA StartTypes ==
    ASSUME SubTypes, NEW x \in Call, NEW t \in Task, Start(x, t)
    PROVE  SubTypes'
<1> DEFINE r == Started(t)
<1>1. /\ t.op \in {"verify", "verifyOrPropagate", "propagate"}
      /\ t.op # "propagate" => t.source \in Source
      /\ t.source \in Source \cup {Zero}
      /\ t.chain \in ChainId /\ t.address \in Address /\ t.sender \in Sender
      /\ t.expected \in CodeHash \cup {Zero}
      BY DEF Task
<1>3. r \in CallState
      BY <1>1, MaxTimeAssumption DEF Started, CallState, Step, Outcome
<1>4. call' = [call EXCEPT ![x] = r] /\ call[x].step = "idle"
      BY DEF Start, IsAt
<1>5. CallsTyped' /\ call'[x] = r /\ OthersSame(x)
      BY <1>3, <1>4 DEF SubTypes, CallsTyped, OthersSame
<1>6. /\ r.chain \in ChainId /\ r.address \in Address /\ r.sender \in Sender
      /\ r.op # "propagate" => r.source \in Source
      /\ r.step \in {"inspect", "readCode"}
      /\ r.step = "inspect" => r.op # "propagate"
      /\ r.outcome = "none"
      BY <1>1 DEF Started
<1>7. \A y \in Call : Carries(y)'
  <2> HIDE DEF r
  <2> QED
      BY <1>5, <1>6 DEF SubTypes, Carries, OthersSame
<1>8. \A u \in pool : u.call \in Call /\ u.call # x
      BY <1>4 DEF SubTypes, PoolTyped, Tx
<1>9. PoolTyped'
      BY <1>5, <1>8 DEF SubTypes, PoolTyped, OthersSame, Start, mempool
<1> QED
    BY <1>5, <1>7, <1>9 DEF SubTypes, Start, offChain, mempool

LEMMA WorldTypes ==
    ASSUME SubTypes, World
    PROVE  SubTypes'
<1>1. UNCHANGED <<pinned, call, mempool>>
      BY DEF World, Reanchor, DeployContract, Tick, offChain
<1>2. code' \in [ChainId -> [Address -> CodeHash \cup {Zero}]]
  <2>1. CASE \E p \in pinned, s \in Sender : Reanchor(p, s)
        BY <2>1 DEF SubTypes, Reanchor, offChain
  <2>2. CASE \E k \in ChainId, a \in Address, c \in CodeHash : DeployContract(k, a, c)
        BY <2>2 DEF SubTypes, DeployContract
  <2>3. CASE Tick
        BY <2>3 DEF SubTypes, Tick
  <2> QED
      BY <2>1, <2>2, <2>3 DEF World
<1>3. clock' \in 0..MaxTime
      BY MaxTimeAssumption DEF SubTypes, World, Reanchor, DeployContract, Tick, offChain
<1> QED
    BY <1>1, <1>2, <1>3 DEF SubTypes, CallsTyped, Carries, PoolTyped, mempool

LEMMA AdvanceTypes ==
    ASSUME SubTypes, NEW x \in Call, Advance(x) \/ IoError(x)
    PROVE  SubTypes' /\ Moves(x) /\ UNCHANGED <<registryVars, code, clock, nonce>>
<1>1. Moves(x) /\ PoolTyped' /\ UNCHANGED <<registryVars, code, clock, nonce>>
      /\ pinned' \subseteq Proof
  <2>1. CASE LocalStep(x)
        BY <2>1, LocalMoves, MoveKeepsPool DEF mempool
  <2>2. CASE SendProof(x)
        BY <2>2, SendProofTypes DEF SubTypes, offChain
  <2>3. CASE SendDeployment(x)
        BY <2>3, SendDeploymentTypes DEF SubTypes, offChain
  <2> QED
      BY <2>1, <2>2, <2>3 DEF Advance, LocalStep
<1>2. \A y \in Call : Carries(y)'
      BY <1>1, MoveKeepsCarries
<1> QED
    BY <1>1, <1>2 DEF SubTypes, Moves

LEMMA StepTypes ==
    ASSUME SubTypes, [SubNext]_subVars
    PROVE  SubTypes'
<1>1. CASE \E x \in Call, t \in Task : Start(x, t)
      BY <1>1, StartTypes
<1>2. CASE \E x \in Call : Advance(x) \/ IoError(x)
      BY <1>2, AdvanceTypes
<1>3. CASE Mine
      BY <1>3, MineTypes DEF Mine
<1>4. CASE World
      BY <1>4, WorldTypes
<1>5. CASE UNCHANGED subVars
      BY <1>5 DEF subVars, offChain, mempool, SubTypes, CallsTyped, Carries, PoolTyped
<1> QED
    BY <1>1, <1>2, <1>3, <1>4, <1>5 DEF SubNext

LEMMA InitTypes == SubInit => SubTypes
<1> SUFFICES ASSUME SubInit PROVE SubTypes
    OBVIOUS
<1>1. Idle \in CallState
      BY MaxTimeAssumption DEF Idle, CallState, Step, Outcome
<1>2. CallsTyped /\ \A x \in Call : Carries(x)
      BY <1>1 DEF SubInit, CallsTyped, Carries, Idle
<1>3. PoolTyped
      BY FS_EmptySet DEF SubInit, PoolTyped
<1> QED
    BY <1>2, <1>3, MaxTimeAssumption DEF SubInit, SubTypes

LEMMA SubTypesHold == SubSpec => []SubTypes
<1>1. SubInit => SubTypes
      BY InitTypes
<1>2. SubTypes /\ [SubNext]_subVars => SubTypes'
      BY StepTypes
<1> QED
    BY <1>1, <1>2, PTL DEF SubSpec

\* Every variable of the SDK's calls, of the pool and of the world around them
\* keeps its type, and a call has an outcome exactly when it is over.
THEOREM SubTypeCorrect == SubSpec => []SubTypeOK
<1>1. SubTypes => SubTypeOK
      BY DEF SubTypes, SubTypeOK, CallsTyped, CallState, Carries, PoolTyped
<1> QED
    BY <1>1, SubTypesHold, PTL

-----------------------------------------------------------------------------
(* The registry below *)

LEMMA ProofIsTyped ==
    ASSUME SubTypes, NEW x \in Call, call[x].step # "idle", call[x].op # "propagate"
    PROVE  ProofOf(x) \in Proof
BY DEF SubTypes, Carries, CallsTyped, CallState, ProofOf, Proof

\* What a mined transaction is called with, and by whom.
LEMMA TxIsTyped ==
    ASSUME SubTypes, NEW t \in pool
    PROVE  /\ t.call \in Call
           /\ t.sender \in Sender
           /\ call[t.call].chain \in ChainId
           /\ call[t.call].address \in Address
           /\ call[t.call].codeHash \in AnyCode
           /\ t.to = "submitProofAndRegister" => ProofOf(t.call) \in Proof
<1>1. t.call \in Call /\ t.sender \in Sender /\ call[t.call].step # "idle"
      BY DEF SubTypes, PoolTyped, Tx
<1> QED
    BY <1>1, ProofIsTyped DEF SubTypes, PoolTyped, Carries, CallsTyped, CallState, AnyCode

\* A step of the calls and of the world is a step of the registry or leaves it
\* as it is.
LEMMA StepsRegistry ==
    ASSUME SubTypes, [SubNext]_subVars
    PROVE  [Next]_registryVars
<1>1. CASE \E x \in Call, t \in Task : Start(x, t)
      BY <1>1 DEF Start
<1>2. CASE \E x \in Call : Advance(x) \/ IoError(x)
      BY <1>2, AdvanceTypes
<1>3. ASSUME NEW t \in pool, MineProof(t)
      PROVE  [Next]_registryVars
  <2>1. t.to = "submitProofAndRegister"
        BY <1>3 DEF MineProof
  <2>2. \/ UNCHANGED registryVars
        \/ SubmitProofAndRegister(ProofOf(t.call), call[t.call].codeHash, ProofOf(t.call),
               call[t.call].chain, call[t.call].address, t.sender)
        BY <1>3 DEF MineProof
  <2>3. /\ ProofOf(t.call) \in AnyProof /\ ProofOf(t.call) \in AnyPayload
        /\ call[t.call].chain \in AnyChain /\ call[t.call].address \in AnyAddress
        BY <2>1, TxIsTyped, HashAssumption DEF AnyProof, AnyPayload, AnyChain, AnyAddress
  <2> QED
      BY <2>2, <2>3, TxIsTyped DEF Next
<1>4. ASSUME NEW t \in pool, MineDeployment(t)
      PROVE  [Next]_registryVars
  <2>1. \/ UNCHANGED registryVars
        \/ RegisterDeployment(call[t.call].codeHash, call[t.call].chain,
               call[t.call].address, t.sender)
        BY <1>4 DEF MineDeployment
  <2>2. call[t.call].chain \in AnyChain /\ call[t.call].address \in AnyAddress
        BY TxIsTyped DEF AnyChain, AnyAddress
  <2> QED
      BY <2>1, <2>2, TxIsTyped DEF Next
<1>5. ASSUME NEW p \in pinned, NEW s \in Sender, Reanchor(p, s)
      PROVE  Next
  <2>1. p \in Proof /\ Compiles[p.source] \in CodeHash
        BY CompilesAssumption DEF SubTypes, Proof
  <2> QED
      BY <1>5, <2>1, HashAssumption DEF Reanchor, Next, AnyProof, AnyCode, AnyPayload
<1>6. CASE World
      BY <1>5, <1>6 DEF World, DeployContract, Tick
<1>7. CASE UNCHANGED subVars
      BY <1>7 DEF subVars
<1> QED
    BY <1>1, <1>2, <1>3, <1>4, <1>6, <1>7 DEF SubNext, Mine

\* The SDK and the strangers around it use the registry only by its
\* transactions: what is proved of the registry holds under the SDK.
THEOREM SubmissionUsesRegistry == SubSpec => Spec
<1>1. SubInit => Init
      BY DEF SubInit
<1>2. SubTypes /\ [SubNext]_subVars => [Next]_vars
      BY StepsRegistry DEF registryVars
<1> QED
    BY <1>1, <1>2, SubTypesHold, PTL DEF SubSpec, Spec

-----------------------------------------------------------------------------
(* No deployment without an anchored proof *)

Proven(c) == proofsByCodeHash[c] # <<>>

\* A call past propagate's check has its bytecode proven, and so has one whose
\* registerDeployment is on its way, whether or not it still waits for it.
Checked(x) ==
    call[x].step \in {"deployNonce", "deploySend", "deployWait"}
        => Proven(call[x].codeHash)

PoolChecked ==
    \A t \in pool : t.to = "registerDeployment" => Proven(call[t.call].codeHash)

ProvenInv == DeploymentsProven /\ (\A x \in Call : Checked(x)) /\ PoolChecked

\* Proofs are never withdrawn: what was checked before an await holds after it.
LEMMA ProvenStays ==
    ASSUME TypeOK, [ImmutableStep]_vars, NEW c \in AnyCode, Proven(c)
    PROVE  Proven(c)'
<1>1. CASE UNCHANGED vars
      BY <1>1 DEF Proven, vars, proofVars
<1>2. CASE ImmutableStep
  <2>1. /\ proofsByCodeHash[c] \in Seq(ProofHash)
        /\ Len(proofsByCodeHash[c]) =< Len(proofsByCodeHash'[c])
        BY <1>2 DEF ImmutableStep, Extends, TypeOK
  <2>2. Len(proofsByCodeHash[c]) > 0
        BY <2>1 DEF Proven
  <2> QED
      BY <2>1, <2>2 DEF Proven
<1> QED
    BY <1>1, <1>2

\* What a step of a call does to its code hash: it is not touched once a
\* transaction may be on its way, and a call reaches the deployment steps only
\* through the check, with the code hash that was checked.
KeepsChecked(x) ==
    /\ call[x].step \in {"proofWait", "deployWait", "done"}
          => call'[x].codeHash = call[x].codeHash
    /\ call'[x].step \in {"deployNonce", "deploySend", "deployWait"}
          => /\ call'[x].codeHash = call[x].codeHash
             /\ Proven(call[x].codeHash)
    /\ \A t \in pool' \ pool :
          /\ t.call = x
          /\ t.to = "registerDeployment"
                => /\ call'[x].codeHash = call[x].codeHash
                   /\ Proven(call[x].codeHash)

LEMMA AdvanceKeepsChecked ==
    ASSUME SubTypes, NEW x \in Call, Checked(x), Advance(x) \/ IoError(x)
    PROVE  KeepsChecked(x)
<1>0. CallsTyped /\ call[x] \in CallState
      BY DEF SubTypes, CallsTyped
<1>1. CASE Inspect(x)
      BY <1>0, <1>1, FinishFields DEF Inspect, KeepsChecked, IsAt, CallsTyped, CallState, Outcome, mempool
<1>2. CASE Pin(x)
      BY <1>0, <1>2, GotoFields DEF Pin, KeepsChecked, IsAt, Step, mempool
<1>3. CASE ReadNonce(x, "proofNonce", "proofSend")
      BY <1>0, <1>3 DEF ReadNonce, KeepsChecked, IsAt, CallsTyped, CallState, mempool
<1>4. CASE SendProof(x)
  <2>1. CASE TakesProof(x) /\ NodeTakes(x)
        BY <1>0, <1>4, <2>1, GotoFields DEF SendProof, Broadcast, KeepsChecked, IsAt, Step
  <2>2. CASE ~(TakesProof(x) /\ NodeTakes(x))
        BY <1>0, <1>4, <2>2, GotoFields, FinishFields
        DEF SendProof, Broadcast, KeepsChecked, IsAt, Step, Outcome
  <2> QED
      BY <2>1, <2>2
<1>5. CASE ReadCode(x)
      BY <1>0, <1>5, FinishFields DEF ReadCode, KeepsChecked, IsAt, CallsTyped, CallState, Outcome, mempool
<1>6. CASE CheckProofs(x)
      BY <1>0, <1>6, GotoFields, FinishFields
      DEF CheckProofs, KeepsChecked, Proven, IsAt, Step, Outcome, mempool
<1>7. CASE ReadNonce(x, "deployNonce", "deploySend")
      BY <1>0, <1>7 DEF ReadNonce, KeepsChecked, Checked, IsAt, CallsTyped, CallState, mempool
<1>8. CASE SendDeployment(x)
  <2>1. CASE TakesDeployment(x) /\ NodeTakes(x)
        BY <1>0, <1>8, <2>1, GotoFields
        DEF SendDeployment, Broadcast, KeepsChecked, Checked, IsAt, Step
  <2>2. CASE ~(TakesDeployment(x) /\ NodeTakes(x))
        BY <1>0, <1>8, <2>2, GotoFields, FinishFields
        DEF SendDeployment, Broadcast, KeepsChecked, IsAt, Step, Outcome
  <2> QED
      BY <2>1, <2>2
<1>9. CASE Reread(x)
      BY <1>0, <1>9, FinishFields DEF Reread, KeepsChecked, IsAt, CallsTyped, CallState, Outcome, mempool
<1>10. CASE IoError(x)
      BY <1>0, <1>10, FinishFields DEF IoError, KeepsChecked, Outcome, mempool
<1> QED
    BY <1>1, <1>2, <1>3, <1>4, <1>5, <1>6, <1>7, <1>8, <1>9, <1>10 DEF Advance

LEMMA AdvanceProven ==
    ASSUME SubTypes, TypeOK, [ImmutableStep]_vars, ProvenInv,
           NEW x \in Call, Advance(x) \/ IoError(x)
    PROVE  ProvenInv'
<1>1. KeepsChecked(x) /\ Moves(x) /\ UNCHANGED registryVars
      BY AdvanceKeepsChecked, AdvanceTypes DEF ProvenInv
<1>2. UNCHANGED <<proofsByCodeHash, deploymentExists>>
      BY <1>1 DEF registryVars, vars, proofVars, deploymentVars
<1>3. DeploymentsProven'
      BY <1>2 DEF ProvenInv, DeploymentsProven
<1>4. ASSUME NEW y \in Call
      PROVE  Checked(y)'
  <2>1. CASE y = x
        BY <1>1, <1>2, <2>1 DEF KeepsChecked, Checked, Proven
  <2>2. CASE y # x
        BY <1>1, <1>2, <2>2 DEF ProvenInv, Moves, OthersSame, Checked, Proven
  <2> QED
      BY <2>1, <2>2
<1>5. ASSUME NEW t \in pool', t.to = "registerDeployment"
      PROVE  Proven(call[t.call].codeHash)'
  <2>1. CASE t \notin pool
        BY <1>1, <1>2, <1>5, <2>1 DEF KeepsChecked, Proven
  <2>2. CASE t \in pool
    <3>1. /\ t.call \in Call
          /\ call[t.call].step \in {"proofWait", "deployWait", "done"}
          /\ Proven(call[t.call].codeHash)
          BY <1>5, <2>2 DEF SubTypes, PoolTyped, Tx, ProvenInv, PoolChecked
    <3>2. call'[t.call].codeHash = call[t.call].codeHash
          BY <1>1, <3>1 DEF KeepsChecked, Moves, OthersSame
    <3> QED
        BY <1>2, <3>1, <3>2 DEF Proven
  <2> QED
      BY <2>1, <2>2
<1> QED
    BY <1>3, <1>4, <1>5 DEF ProvenInv, PoolChecked

LEMMA StartProven ==
    ASSUME SubTypes, ProvenInv, NEW x \in Call, NEW t \in Task, Start(x, t)
    PROVE  ProvenInv'
<1>1. /\ call' = [call EXCEPT ![x] = Started(t)] /\ call[x].step = "idle"
      /\ UNCHANGED <<proofsByCodeHash, deploymentExists, pool>>
      BY DEF Start, IsAt, registryVars, vars, proofVars, deploymentVars, mempool
<1>2. call'[x].step \in {"inspect", "readCode"} /\ OthersSame(x)
      BY <1>1 DEF SubTypes, CallsTyped, Started, OthersSame
<1>3. \A y \in Call : Checked(y)'
      BY <1>1, <1>2 DEF ProvenInv, Checked, Proven, OthersSame
<1>4. \A u \in pool : u.call \in Call /\ u.call # x
      BY <1>1 DEF SubTypes, PoolTyped, Tx
<1>5. PoolChecked'
      BY <1>1, <1>2, <1>4 DEF ProvenInv, PoolChecked, Proven, OthersSame
<1> QED
    BY <1>1, <1>3, <1>5 DEF ProvenInv, DeploymentsProven

\* What mining registers is proven when it is registered.
LEMMA MineProven ==
    ASSUME SubTypes, TypeOK, [ImmutableStep]_vars, ProvenInv,
           NEW t \in pool, MineProof(t) \/ MineDeployment(t)
    PROVE  ProvenInv'
<1> DEFINE x == t.call
           c == call[t.call].codeHash
<1>0. \A e \in AnyCode : proofsByCodeHash[e] # <<>> => proofsByCodeHash'[e] # <<>>
      BY ProvenStays DEF Proven
<1>1. x \in Call /\ c \in AnyCode /\ pool' \subseteq pool
      BY TxIsTyped DEF MineProof, MineDeployment, Leaves
<1>2. \A y \in Call :
          /\ call'[y].codeHash = call[y].codeHash
          /\ call'[y].step = call[y].step \/ call'[y].step = "done"
  <2>1. UNCHANGED call \/ \E o \in Outcome \ {"none"} : Finish(x, o)
        BY DEF MineProof, MineDeployment, Settle, Outcome
  <2> HIDE DEF x
  <2> QED
      BY <1>1, <2>1, FinishFields DEF SubTypes, OthersSame
<1>3. \A y \in Call : call[y].codeHash \in AnyCode
      BY DEF SubTypes, CallsTyped, CallState, AnyCode
<1>4. \A y \in Call : Checked(y)'
      BY <1>0, <1>2, <1>3 DEF ProvenInv, Checked, Proven
<1>5. PoolChecked'
  <2> SUFFICES ASSUME NEW u \in pool', u.to = "registerDeployment"
               PROVE  Proven(call[u.call].codeHash)'
      BY DEF PoolChecked
  <2>1. u.call \in Call /\ proofsByCodeHash[call[u.call].codeHash] # <<>>
        BY <1>1 DEF SubTypes, PoolTyped, Tx, ProvenInv, PoolChecked, Proven
  <2>2. call'[u.call].codeHash = call[u.call].codeHash
        BY <1>2, <2>1
  <2>3. proofsByCodeHash'[call[u.call].codeHash] # <<>>
        BY <1>0, <1>3, <2>1
  <2> QED
      BY <2>2, <2>3 DEF Proven
<1>6. /\ deploymentExists' \subseteq deploymentExists \cup {<<c, call[x].chain, call[x].address>>}
      /\ deploymentExists' # deploymentExists => proofsByCodeHash'[c] # <<>>
  <2>1. CASE MineProof(t)
    <3>1. UNCHANGED registryVars
          \/ SubmitProofAndRegister(ProofOf(x), c, ProofOf(x), call[x].chain, call[x].address, t.sender)
          BY <2>1 DEF MineProof
    <3>2. CASE UNCHANGED registryVars
          BY <3>2 DEF registryVars, vars, deploymentVars
    <3>3. CASE SubmitProofAndRegister(ProofOf(x), c, ProofOf(x), call[x].chain, call[x].address, t.sender)
      <4>1. deploymentExists' = deploymentExists \cup {<<c, call[x].chain, call[x].address>>}
            BY <3>3 DEF SubmitProofAndRegister, WriteDeployment
      <4>2. proofsByCodeHash'[c] = Append(proofsByCodeHash[c], ProofOf(x))
            BY <1>1, <3>3 DEF SubmitProofAndRegister, WriteProof, TypeOK
      <4>3. proofsByCodeHash[c] \in Seq(ProofHash) /\ ProofOf(x) \in ProofHash
            BY <1>1, <2>1, TxIsTyped, HashAssumption DEF TypeOK, MineProof
      <4>4. proofsByCodeHash'[c] # <<>>
        <5> DEFINE s == proofsByCodeHash[c]
                   q == ProofOf(x)
        <5>1. s \in Seq(ProofHash) /\ q \in ProofHash
              BY <4>3
        <5> HIDE DEF s, q
        <5>2. Len(Append(s, q)) = Len(s) + 1 /\ Len(s) \in Nat
              BY <5>1
        <5>3. Append(s, q) # <<>>
              BY <5>2
        <5> QED
            BY <4>2, <5>3 DEF s, q
      <4> QED
          BY <4>1, <4>4
    <3> QED
        BY <3>1, <3>2, <3>3
  <2>2. CASE MineDeployment(t)
    <3>1. t.to = "registerDeployment" /\ Proven(c)
          BY <2>2 DEF MineDeployment, ProvenInv, PoolChecked
    <3>2. proofsByCodeHash'[c] # <<>>
          BY <1>0, <1>1, <3>1 DEF Proven
    <3>3. UNCHANGED registryVars
          \/ RegisterDeployment(c, call[x].chain, call[x].address, t.sender)
          BY <2>2 DEF MineDeployment
    <3> QED
        BY <3>2, <3>3 DEF registryVars, vars, deploymentVars, RegisterDeployment, WriteDeployment
  <2> QED
      BY <2>1, <2>2
<1>7. DeploymentsProven'
  <2> SUFFICES ASSUME NEW d \in deploymentExists'
               PROVE  proofsByCodeHash'[d[1]] # <<>>
      BY DEF DeploymentsProven
  <2>1. CASE d \in deploymentExists
    <3>1. d[1] \in AnyCode /\ proofsByCodeHash[d[1]] # <<>>
          BY <2>1 DEF TypeOK, AnyCode, ProvenInv, DeploymentsProven
    <3> QED
        BY <1>0, <3>1
  <2>2. CASE d \notin deploymentExists
        BY <1>6, <2>2
  <2> QED
      BY <2>1, <2>2
<1> QED
    BY <1>4, <1>5, <1>7 DEF ProvenInv

\* A stranger's proof and a step of the world leave what was checked checked.
LEMMA OthersProven ==
    ASSUME SubTypes, TypeOK, [ImmutableStep]_vars, ProvenInv, World \/ UNCHANGED subVars
    PROVE  ProvenInv'
<1>1. UNCHANGED <<call, pool, deploymentExists>>
      BY DEF World, Reanchor, SubmitProof, DeployContract, Tick, subVars, registryVars,
             vars, deploymentVars, mempool
<1>2. \A y \in Call : call[y].codeHash \in AnyCode
      BY DEF SubTypes, CallsTyped, CallState, AnyCode
<1>3. \A c \in AnyCode : Proven(c) => proofsByCodeHash'[c] # <<>>
      BY ProvenStays DEF Proven
<1>4. \A y \in Call : Checked(y)'
      BY <1>1, <1>2, <1>3 DEF ProvenInv, Checked, Proven
<1>5. PoolChecked'
      BY <1>1, <1>2, <1>3 DEF ProvenInv, PoolChecked, Proven, SubTypes, PoolTyped, Tx
<1>6. DeploymentsProven'
  <2>1. \A d \in deploymentExists : d[1] \in AnyCode
        BY DEF TypeOK, AnyCode
  <2> QED
      BY <1>1, <1>3, <2>1 DEF ProvenInv, DeploymentsProven, Proven
<1> QED
    BY <1>4, <1>5, <1>6 DEF ProvenInv

\* Through the SDK no deployment is registered of a bytecode without an
\* anchored proof, though propagate checks it several awaits before its
\* transaction is mined and the contract would not refuse it.
THEOREM OnlyProvenDeployed == SubSpec => []DeploymentsProven
<1>1. SubInit => ProvenInv
      BY DEF SubInit, Init, Idle, ProvenInv, DeploymentsProven, Checked, PoolChecked
<1>2. SubTypes /\ TypeOK /\ [ImmutableStep]_vars /\ ProvenInv /\ [SubNext]_subVars => ProvenInv'
      BY StartProven, AdvanceProven, MineProven, OthersProven DEF SubNext, Mine
<1>3. SubSpec => []TypeOK /\ [][ImmutableStep]_vars
      BY SubmissionUsesRegistry, TypeCorrect, NothingIsRewritten, PTL DEF Immutable, ImmutableStep
<1>4. ProvenInv => DeploymentsProven
      BY DEF ProvenInv
<1> QED
    BY <1>1, <1>2, <1>3, <1>4, SubTypesHold, PTL DEF SubSpec

-----------------------------------------------------------------------------
(* What calls report and what the registry lists is so *)

\* The code hash a call carries is that of the bytecode at its target.
Grounded(x) == call[x].codeHash # Zero /\ Deployed(x) = call[x].codeHash

\* The proof it submits is of that bytecode, and IPFS has it.
Resolvable(x) == call[x].codeHash = Compiled(x) /\ ProofOf(x) \in pinned

\* What a call found out several awaits ago and will act on.
CallSound(x) ==
    /\ call[x].step \in {"pin", "proofNonce", "proofSend", "proofWait", "checkProofs",
                         "deployNonce", "deploySend", "deployWait", "reread"}
          => Grounded(x)
    /\ call[x].step = "pin" => call[x].codeHash = Compiled(x)
    /\ call[x].step \in {"proofNonce", "proofSend", "proofWait"} => Resolvable(x)
    /\ call[x].step = "reread" => OnRecord(x)

\* A transaction outlives the call that sent it, and so does what it rests on.
PoolSound ==
    \A t \in pool :
        /\ Grounded(t.call)
        /\ t.to = "submitProofAndRegister" => Resolvable(t.call)

TruthInv ==
    /\ \A x \in Call : CallSound(x)
    /\ PoolSound
    /\ ProofsResolve
    /\ DeploymentsRunTheCode
    /\ OutcomeTruthful
    /\ OneWinner

\* Deployed bytecode does not change and IPFS keeps its pins.
WorldGrows ==
    /\ \A k \in ChainId, a \in Address : code[k][a] # Zero => code'[k][a] = code[k][a]
    /\ pinned \subseteq pinned'

SameFields(x) ==
    /\ SameCall(x)
    /\ call'[x].created = call[x].created
    /\ call'[x].codeHash = call[x].codeHash

LEMMA OthersKeepFields ==
    ASSUME NEW x \in Call, OthersSame(x), NEW y \in Call, y # x
    PROVE  SameFields(y) /\ call'[y] = call[y]
BY DEF OthersSame, SameFields, SameCall

LEMMA WorldStepGrows ==
    ASSUME SubTypes, World
    PROVE  WorldGrows
<1>1. CASE \E p \in pinned, s \in Sender : Reanchor(p, s)
      BY <1>1 DEF Reanchor, offChain, WorldGrows
<1>2. CASE \E k \in ChainId, a \in Address, c \in CodeHash : DeployContract(k, a, c)
      BY <1>2 DEF DeployContract, SubTypes, WorldGrows
<1>3. CASE Tick
      BY <1>3 DEF Tick, WorldGrows
<1> QED
    BY <1>1, <1>2, <1>3 DEF World

LEMMA AdvanceGrows ==
    ASSUME SubTypes, NEW x \in Call, Advance(x) \/ IoError(x)
    PROVE  WorldGrows
<1>1. code' = code
      BY AdvanceTypes
<1>2. pinned \subseteq pinned'
      BY DEF Advance, Inspect, Pin, ReadNonce, SendProof, ReadCode, CheckProofs,
             SendDeployment, Reread, IoError, offChain
<1> QED
    BY <1>1, <1>2 DEF WorldGrows

\* What a call found out still holds after any step that leaves its fields.
LEMMA FactsStay ==
    ASSUME [ImmutableStep]_vars, WorldGrows, NEW y \in Call, SameFields(y),
           call[y].chain \in ChainId, call[y].address \in Address
    PROVE  /\ Grounded(y) => Grounded(y)'
           /\ Resolvable(y) => Resolvable(y)'
           /\ OnRecord(y) => OnRecord(y)'
           /\ ProofOf(y)' = ProofOf(y)
           /\ Compiled(y)' = Compiled(y)
<1>1. Grounded(y) => Grounded(y)'
      BY DEF Grounded, Deployed, SameFields, SameCall, WorldGrows
<1>2. ProofOf(y)' = ProofOf(y) /\ Compiled(y)' = Compiled(y)
      BY DEF ProofOf, Compiled, SameFields, SameCall
<1>3. Resolvable(y) => Resolvable(y)'
      BY <1>2 DEF Resolvable, SameFields, WorldGrows
<1>4. deploymentExists \subseteq deploymentExists'
      BY DEF ImmutableStep, vars, deploymentVars
<1>5. OnRecord(y) => OnRecord(y)'
      BY <1>4 DEF OnRecord, SameFields, SameCall
<1> QED
    BY <1>1, <1>2, <1>3, <1>5

LEMMA CallStaysSound ==
    ASSUME SubTypes, [ImmutableStep]_vars, WorldGrows, NEW y \in Call, CallSound(y),
           SameFields(y), call'[y].step \in {call[y].step, "done"}
    PROVE  CallSound(y)'
<1>1. CASE call[y].step = "idle"
      BY <1>1 DEF CallSound
<1>2. CASE call[y].step # "idle"
  <2>1. call[y].chain \in ChainId /\ call[y].address \in Address
        BY <1>2 DEF SubTypes, Carries
  <2>2. call[y].step = "pin" /\ call'[y].step = "pin" => call'[y].codeHash = Compiled(y)'
        BY <2>1, FactsStay DEF CallSound, SameFields
  <2> QED
      BY <2>1, <2>2, FactsStay DEF CallSound
<1> QED
    BY <1>1, <1>2

LEMMA PoolStaysSound ==
    ASSUME SubTypes, [ImmutableStep]_vars, WorldGrows, PoolSound,
           NEW t \in pool, SameFields(t.call)
    PROVE  /\ Grounded(t.call)'
           /\ t.to = "submitProofAndRegister" => Resolvable(t.call)'
<1>1. /\ t.call \in Call /\ call[t.call].chain \in ChainId /\ call[t.call].address \in Address
      BY TxIsTyped
<1> QED
    BY <1>1, FactsStay DEF PoolSound

\* The three facts about the registry's contents.
LEMMA ContentsStaySound ==
    ASSUME TypeOK, WorldGrows, ProofsResolve, DeploymentsRunTheCode,
           UNCHANGED registryVars
    PROVE  ProofsResolve' /\ DeploymentsRunTheCode'
<1>1. UNCHANGED <<proofExists, verificationRecords, deploymentExists>>
      BY DEF registryVars, vars, proofVars, deploymentVars
<1>2. \A t \in deploymentExists : t[2] \in ChainId /\ t[3] \in Address /\ t[1] # Zero
      BY ZeroAssumption DEF TypeOK
<1> QED
    BY <1>1, <1>2 DEF ProofsResolve, DeploymentsRunTheCode, WorldGrows

\* What one step of a call finds out, sends and reports.
StepSound(x) ==
    /\ CallSound(x)'
    /\ \A t \in pool' \ pool :
          /\ t.call = x
          /\ Grounded(x)'
          /\ t.to = "submitProofAndRegister" => Resolvable(x)'
    /\ call'[x].outcome \notin {"verified", "propagated"}
    /\ call'[x].outcome = "already-registered" => OnRecord(x)'
    /\ call[x].step \in {"proofWait", "deployWait", "done"} => SameFields(x)

\* A call that ends without having done anything, or whose own fields and step
\* are all that changed, stays sound.
LEMMA FinishSound ==
    ASSUME SubTypes, NEW x \in Call, NEW o \in {"refused", "failed"}, Finish(x, o),
           pool' = pool
    PROVE  StepSound(x)
<1>1. /\ SameCall(x) /\ call'[x].step = "done" /\ call'[x].outcome = o
      /\ call'[x].codeHash = call[x].codeHash /\ call'[x].created = call[x].created
      BY FinishFields DEF SubTypes, Outcome
<1> QED
    BY <1>1 DEF StepSound, CallSound, SameFields

\* The outcome of a call that has not ended.
LEMMA NotEnded ==
    ASSUME SubTypes, NEW x \in Call, call[x].step # "done"
    PROVE  call[x].outcome = "none"
BY DEF SubTypes, Carries

LEMMA GotoSound ==
    ASSUME SubTypes, NEW x \in Call, NEW s \in Step, Goto(x, s),
           UNCHANGED <<registryVars, code>>, pinned \subseteq pinned',
           call[x].step \notin {"idle", "proofWait", "deployWait", "done"}
    PROVE  /\ SameFields(x)
           /\ call'[x].step = s
           /\ call'[x].outcome = "none"
           /\ Grounded(x) => Grounded(x)'
           /\ Resolvable(x) => Resolvable(x)'
           /\ OnRecord(x) => OnRecord(x)'
           /\ ProofOf(x)' = ProofOf(x)
           /\ Compiled(x)' = Compiled(x)
<1>1. SameFields(x) /\ call'[x].step = s /\ call'[x].outcome = "none"
      BY GotoFields, NotEnded DEF SubTypes, SameFields
<1>2. [ImmutableStep]_vars
      BY DEF registryVars
<1>3. WorldGrows
      BY DEF WorldGrows
<1>4. call[x].chain \in ChainId /\ call[x].address \in Address
      BY DEF SubTypes, Carries
<1> QED
    BY <1>1, <1>2, <1>3, <1>4, FactsStay

LEMMA InspectSound ==
    ASSUME SubTypes, NEW x \in Call, Inspect(x)
    PROVE  StepSound(x)
<1>1. /\ call[x] \in CallState /\ call[x].step = "inspect" /\ call[x].outcome = "none"
      /\ UNCHANGED <<registryVars, code, pinned, pool>>
      BY NotEnded DEF Inspect, IsAt, SubTypes, CallsTyped, offChain, mempool
<1>2. CASE Deployed(x) = Compiled(x)
  <2>1. /\ call' = [call EXCEPT ![x].step = "pin", ![x].created = clock,
                                ![x].codeHash = Compiled(x)]
        /\ Compiled(x) \in CodeHash
        BY <1>1, <1>2, CompilesAssumption DEF Inspect, Compiled, SubTypes, Carries
  <2>2. /\ call'[x].step = "pin" /\ call'[x].codeHash = Compiled(x)
        /\ call'[x].outcome = "none" /\ SameCall(x)
        BY <1>1, <2>1 DEF SubTypes, CallsTyped, CallState, SameCall
  <2>3. Compiled(x)' = Compiled(x) /\ Deployed(x)' = Deployed(x)
        BY <1>1, <2>2 DEF SameCall, Compiled, Deployed
  <2> QED
      BY <1>1, <1>2, <2>1, <2>2, <2>3, ZeroAssumption DEF StepSound, CallSound, Grounded
<1>3. CASE Deployed(x) # Compiled(x)
      BY <1>1, <1>3, FinishSound DEF Inspect
<1> QED
    BY <1>2, <1>3

LEMMA ReadNonceSound ==
    ASSUME SubTypes, NEW x \in Call, CallSound(x),
           \/ ReadNonce(x, "proofNonce", "proofSend")
           \/ ReadNonce(x, "deployNonce", "deploySend")
    PROVE  StepSound(x)
<1>1. /\ call[x] \in CallState /\ call[x].outcome = "none"
      /\ call[x].chain \in ChainId /\ call[x].address \in Address
      /\ UNCHANGED <<registryVars, code, pinned, pool>>
      BY NotEnded DEF ReadNonce, IsAt, SubTypes, CallsTyped, Carries, offChain, mempool
<1>2. /\ SameFields(x) /\ call'[x].outcome = "none"
      /\ \/ call[x].step = "proofNonce" /\ call'[x].step = "proofSend"
         \/ call[x].step = "deployNonce" /\ call'[x].step = "deploySend"
      BY <1>1 DEF ReadNonce, IsAt, SubTypes, CallsTyped, CallState, SameFields, SameCall
<1>3. (Grounded(x) => Grounded(x)') /\ (Resolvable(x) => Resolvable(x)')
      BY <1>1, <1>2, FactsStay DEF WorldGrows, registryVars
<1> QED
    BY <1>1, <1>2, <1>3 DEF StepSound, CallSound

LEMMA ReadCodeSound ==
    ASSUME SubTypes, NEW x \in Call, ReadCode(x)
    PROVE  StepSound(x)
<1>1. /\ call[x] \in CallState /\ call[x].step = "readCode" /\ call[x].outcome = "none"
      /\ UNCHANGED <<registryVars, code, pinned, pool>>
      BY NotEnded DEF ReadCode, IsAt, SubTypes, CallsTyped, offChain, mempool
<1>2. CASE Finish(x, "refused")
      BY <1>1, <1>2, FinishSound
<1>3. CASE ~Finish(x, "refused")
  <2>1. /\ Deployed(x) # Zero
        /\ call' = [call EXCEPT ![x].step = "checkProofs", ![x].codeHash = Deployed(x)]
        BY <1>3 DEF ReadCode
  <2>2. /\ call'[x].step = "checkProofs" /\ call'[x].codeHash = Deployed(x)
        /\ call'[x].outcome = "none" /\ SameCall(x)
        BY <1>1, <2>1 DEF SubTypes, CallsTyped, CallState, SameCall
  <2>3. Deployed(x)' = Deployed(x)
        BY <1>1, <2>2 DEF SameCall, Deployed
  <2> QED
      BY <1>1, <2>1, <2>2, <2>3 DEF StepSound, CallSound, Grounded
<1> QED
    BY <1>2, <1>3

\* A deployment the contract would refuse is one it has: none of the three
\* arguments of a call that read the code is zero.
LEMMA RefusedIsOnRecord ==
    ASSUME SubTypes, NEW x \in Call, Grounded(x), ~TakesDeployment(x),
           call[x].step # "idle"
    PROVE  OnRecord(x)
BY ZeroAssumption DEF SubTypes, Carries, TakesDeployment, DeploymentAccepted, Grounded, OnRecord

LEMMA RereadSound ==
    ASSUME SubTypes, NEW x \in Call, CallSound(x), Reread(x)
    PROVE  StepSound(x)
<1>1. /\ call[x] \in CallState /\ call[x].step = "reread" /\ call[x].outcome = "none"
      /\ UNCHANGED <<registryVars, code, pinned, pool, deploymentExists>>
      BY NotEnded DEF Reread, IsAt, SubTypes, CallsTyped, offChain, mempool, registryVars,
                      vars, deploymentVars
<1>2. Deployed(x) = call[x].codeHash /\ call[x].codeHash # Zero /\ OnRecord(x)
      BY <1>1 DEF CallSound, Grounded
<1>3. call' = [call EXCEPT ![x].step = "done", ![x].outcome = "already-registered",
                           ![x].codeHash = Deployed(x)]
      BY <1>2 DEF Reread
<1>4. /\ call'[x].step = "done" /\ call'[x].outcome = "already-registered"
      /\ call'[x].codeHash = call[x].codeHash /\ SameCall(x)
      BY <1>1, <1>2, <1>3 DEF SubTypes, CallsTyped, CallState, SameCall
<1> QED
    BY <1>1, <1>2, <1>4 DEF StepSound, CallSound, OnRecord, SameCall

LEMMA BroadcastSound ==
    ASSUME SubTypes, NEW x \in Call, CallSound(x), UNCHANGED <<registryVars, offChain>>,
           NEW to \in {"submitProofAndRegister", "registerDeployment"},
           NEW wait \in {"proofWait", "deployWait"},
           to = "submitProofAndRegister" <=> wait = "proofWait",
           \/ call[x].step = "proofSend"
           \/ call[x].step = "deploySend" /\ to = "registerDeployment",
           Broadcast(x, to, wait)
    PROVE  StepSound(x)
<1>1. CASE NodeTakes(x)
  <2>1. /\ Goto(x, wait)
        /\ pool' = pool \cup {[call |-> x, sender |-> call[x].sender,
                               nonce |-> call[x].nonce, to |-> to]}
        BY <1>1 DEF Broadcast
  <2>2. /\ SameFields(x) /\ call'[x].step = wait /\ call'[x].outcome = "none"
        /\ Grounded(x) => Grounded(x)'
        /\ Resolvable(x) => Resolvable(x)'
        BY <2>1, GotoSound DEF offChain, Step
  <2>3. Grounded(x) /\ (to = "submitProofAndRegister" => Resolvable(x))
        BY DEF CallSound
  <2> QED
      BY <2>1, <2>2, <2>3 DEF StepSound, CallSound
<1>2. CASE ~NodeTakes(x)
      BY <1>2, FinishSound DEF Broadcast
<1> QED
    BY <1>1, <1>2

LEMMA SendProofSound ==
    ASSUME SubTypes, NEW x \in Call, CallSound(x), SendProof(x)
    PROVE  StepSound(x)
<1>1. call[x].step = "proofSend" /\ UNCHANGED <<registryVars, offChain>>
      BY DEF SendProof, IsAt
<1>2. CASE TakesProof(x)
      BY <1>1, <1>2, BroadcastSound DEF SendProof
<1>3. CASE ~TakesProof(x) /\ Goto(x, "readCode")
  <2>1. pool' = pool
        BY <1>3 DEF SendProof
  <2>2. call'[x].step = "readCode" /\ call'[x].outcome = "none"
        BY <1>1, <1>3, GotoSound DEF offChain, Step
  <2> QED
      BY <1>1, <2>1, <2>2 DEF StepSound, CallSound
<1>4. CASE ~TakesProof(x) /\ Finish(x, "refused")
      BY <1>4, FinishSound DEF SendProof
<1> QED
    BY <1>2, <1>3, <1>4 DEF SendProof

LEMMA SendDeploymentSound ==
    ASSUME SubTypes, NEW x \in Call, CallSound(x), SendDeployment(x)
    PROVE  StepSound(x)
<1>1. call[x].step = "deploySend" /\ UNCHANGED <<registryVars, offChain>>
      BY DEF SendDeployment, IsAt
<1>2. CASE TakesDeployment(x)
      BY <1>1, <1>2, BroadcastSound DEF SendDeployment
<1>3. CASE ~TakesDeployment(x) /\ Goto(x, "reread")
  <2>1. pool' = pool
        BY <1>3 DEF SendDeployment
  <2>2. /\ call'[x].step = "reread" /\ call'[x].outcome = "none"
        /\ Grounded(x) => Grounded(x)'
        /\ OnRecord(x) => OnRecord(x)'
        BY <1>1, <1>3, GotoSound DEF offChain, Step
  <2>3. Grounded(x) /\ OnRecord(x)
        BY <1>1, <1>3, RefusedIsOnRecord DEF CallSound
  <2> QED
      BY <1>1, <2>1, <2>2, <2>3 DEF StepSound, CallSound
<1>4. CASE ~TakesDeployment(x) /\ Finish(x, "refused")
      BY <1>4, FinishSound DEF SendDeployment
<1> QED
    BY <1>2, <1>3, <1>4 DEF SendDeployment

LEMMA AdvanceSound ==
    ASSUME SubTypes, NEW x \in Call, CallSound(x), Advance(x) \/ IoError(x)
    PROVE  StepSound(x)
<1>1. CASE Pin(x)
  <2>1. /\ Goto(x, "proofNonce") /\ pinned' = pinned \cup {ProofOf(x)}
        /\ call[x].step = "pin" /\ UNCHANGED <<registryVars, code, pool>>
        BY <1>1 DEF Pin, IsAt, mempool
  <2>2. /\ SameFields(x) /\ call'[x].step = "proofNonce" /\ call'[x].outcome = "none"
        /\ Grounded(x) => Grounded(x)'
        /\ ProofOf(x)' = ProofOf(x)
        /\ Compiled(x)' = Compiled(x)
        BY <2>1, GotoSound DEF Step
  <2> QED
      BY <2>1, <2>2 DEF StepSound, CallSound, Resolvable, SameFields
<1>2. CASE CheckProofs(x)
  <2>1. /\ call[x].step = "checkProofs" /\ UNCHANGED <<registryVars, code, pinned, pool>>
        BY <1>2 DEF CheckProofs, IsAt, offChain, mempool
  <2>2. CASE Goto(x, "deployNonce")
    <3>1. /\ call'[x].step = "deployNonce" /\ call'[x].outcome = "none"
          /\ Grounded(x) => Grounded(x)'
          BY <2>1, <2>2, GotoSound DEF Step
    <3> QED
        BY <2>1, <3>1 DEF StepSound, CallSound
  <2>3. CASE Finish(x, "refused")
        BY <2>1, <2>3, FinishSound
  <2> QED
      BY <1>2, <2>2, <2>3 DEF CheckProofs
<1>3. CASE IoError(x)
      BY <1>3, FinishSound DEF IoError, mempool
<1> QED
    BY <1>1, <1>2, <1>3, InspectSound, ReadNonceSound, ReadCodeSound, RereadSound,
       SendProofSound, SendDeploymentSound DEF Advance

Wins(x) == call[x].outcome \in {"verified", "propagated"}

\* What a call that has ended reported stays so.
LEMMA ReportStays ==
    ASSUME SubTypes, TypeOK, [ImmutableStep]_vars, WorldGrows, OutcomeTruthful,
           NEW y \in Call, SameFields(y), call'[y].outcome = call[y].outcome
    PROVE  /\ call'[y].outcome \in {"verified", "propagated", "already-registered"}
                 => OnRecord(y)'
           /\ call'[y].outcome = "verified"
                 => /\ ProofOf(y)' \in proofExists'
                    /\ verificationRecords'[ProofOf(y)'].codeHash = call'[y].codeHash
<1>1. CASE call[y].outcome \notin {"verified", "propagated", "already-registered"}
      BY <1>1
<1>2. CASE call[y].outcome \in {"verified", "propagated", "already-registered"}
  <2>1. call[y].step # "idle"
        BY <1>2 DEF SubTypes, Carries
  <2>2. /\ OnRecord(y) => OnRecord(y)'
        /\ ProofOf(y)' = ProofOf(y)
        BY <2>1, FactsStay DEF SubTypes, Carries
  <2>3. ASSUME call[y].outcome = "verified"
        PROVE  /\ ProofOf(y) \in proofExists'
               /\ verificationRecords'[ProofOf(y)].codeHash = call'[y].codeHash
    <3>1. /\ ProofOf(y) \in proofExists
          /\ verificationRecords[ProofOf(y)].codeHash = call[y].codeHash
          BY <2>3 DEF OutcomeTruthful
    <3>2. /\ ProofOf(y) \in proofExists'
          /\ verificationRecords'[ProofOf(y)] = verificationRecords[ProofOf(y)]
          BY <3>1 DEF ImmutableStep, vars, proofVars
    <3> QED
        BY <3>1, <3>2 DEF SameFields
  <2> QED
      BY <1>2, <2>2, <2>3 DEF OutcomeTruthful
<1> QED
    BY <1>1, <1>2

\* A step in which calls are started, or nothing happens to any.
LEMMA QuietTruth ==
    ASSUME SubTypes, TypeOK, TruthInv, UNCHANGED <<registryVars, code, pinned, pool>>,
           \A y \in Call :
               \/ call'[y] = call[y]
               \/ /\ call[y].step = "idle"
                  /\ call'[y].step \in {"idle", "inspect", "readCode"}
                  /\ call'[y].outcome = "none"
    PROVE  TruthInv'
<1>1. [ImmutableStep]_vars /\ WorldGrows
      BY DEF registryVars, WorldGrows
<1>2. ProofsResolve' /\ DeploymentsRunTheCode'
      BY <1>1, ContentsStaySound DEF TruthInv
<1>3. ASSUME NEW y \in Call PROVE CallSound(y)'
  <2>1. CASE call'[y] = call[y]
        BY <1>1, <2>1, CallStaysSound DEF TruthInv, SameFields, SameCall
  <2>2. CASE call'[y].step \in {"idle", "inspect", "readCode"}
        BY <2>2 DEF CallSound
  <2> QED
      BY <2>1, <2>2
<1>4. PoolSound'
  <2> SUFFICES ASSUME NEW t \in pool
               PROVE  /\ Grounded(t.call)'
                      /\ t.to = "submitProofAndRegister" => Resolvable(t.call)'
      BY DEF PoolSound
  <2>1. t.call \in Call /\ call[t.call].step # "idle"
        BY DEF SubTypes, PoolTyped, Tx
  <2>2. call'[t.call] = call[t.call]
        BY <2>1
  <2>3. SameFields(t.call)
        BY <2>2 DEF SameFields, SameCall
  <2> QED
      BY <1>1, <2>3, PoolStaysSound DEF TruthInv
<1>5. \A y \in Call : call'[y] = call[y] \/ call'[y].outcome = "none"
      OBVIOUS
<1>6. OutcomeTruthful'
  <2> SUFFICES ASSUME NEW y \in Call
               PROVE  /\ call'[y].outcome \in {"verified", "propagated", "already-registered"}
                            => OnRecord(y)'
                      /\ call'[y].outcome = "verified"
                            => /\ ProofOf(y)' \in proofExists'
                               /\ verificationRecords'[ProofOf(y)'].codeHash
                                     = call'[y].codeHash
      BY DEF OutcomeTruthful
  <2>1. CASE call'[y] = call[y]
        BY <1>1, <2>1, ReportStays DEF TruthInv, SameFields, SameCall
  <2>2. CASE call'[y].outcome = "none"
        BY <2>2
  <2> QED
      BY <1>5, <2>1, <2>2
<1>7. OneWinner'
      BY <1>5 DEF TruthInv, OneWinner
<1> QED
    BY <1>2, <1>3, <1>4, <1>6, <1>7 DEF TruthInv

LEMMA StartTruth ==
    ASSUME SubTypes, TypeOK, TruthInv, NEW x \in Call, NEW t \in Task, Start(x, t)
    PROVE  TruthInv'
<1>1. /\ UNCHANGED <<registryVars, code, pinned, pool>>
      /\ call[x].step = "idle"
      /\ call' = [call EXCEPT ![x] = Started(t)]
      BY DEF Start, IsAt, offChain, mempool
<1>2. Started(t).step \in {"inspect", "readCode"} /\ Started(t).outcome = "none"
      BY DEF Started
<1>3. \A y \in Call : call'[y] = IF y = x THEN Started(t) ELSE call[y]
      BY <1>1 DEF SubTypes, CallsTyped
<1> QED
    BY <1>1, <1>2, <1>3, QuietTruth

LEMMA AdvanceTruth ==
    ASSUME SubTypes, TypeOK, TruthInv, NEW x \in Call, Advance(x) \/ IoError(x)
    PROVE  TruthInv'
<1>1. /\ StepSound(x) /\ Moves(x) /\ WorldGrows
      /\ UNCHANGED registryVars
      BY AdvanceSound, AdvanceTypes, AdvanceGrows DEF TruthInv
<1>2. [ImmutableStep]_vars
      BY <1>1 DEF registryVars
<1>3. ProofsResolve' /\ DeploymentsRunTheCode'
      BY <1>1, ContentsStaySound DEF TruthInv
<1>4. \A y \in Call : y # x => SameFields(y) /\ call'[y] = call[y]
      BY <1>1, OthersKeepFields DEF Moves
<1>5. \A y \in Call : CallSound(y)'
      BY <1>1, <1>2, <1>4, CallStaysSound DEF TruthInv, StepSound
<1>6. PoolSound'
  <2> SUFFICES ASSUME NEW t \in pool'
               PROVE  /\ Grounded(t.call)'
                      /\ t.to = "submitProofAndRegister" => Resolvable(t.call)'
      BY DEF PoolSound
  <2>1. CASE t \notin pool
        BY <1>1, <2>1 DEF StepSound
  <2>2. CASE t \in pool
    <3>1. /\ t.call \in Call
          /\ call[t.call].step \in {"proofWait", "deployWait", "done"}
          BY <2>2 DEF SubTypes, PoolTyped, Tx
    <3>2. SameFields(t.call)
          BY <1>1, <1>4, <3>1 DEF StepSound
    <3> QED
        BY <1>1, <1>2, <2>2, <3>2, PoolStaysSound DEF TruthInv
  <2> QED
      BY <2>1, <2>2
<1>7. OutcomeTruthful'
  <2> SUFFICES ASSUME NEW y \in Call
               PROVE  /\ call'[y].outcome \in {"verified", "propagated", "already-registered"}
                            => OnRecord(y)'
                      /\ call'[y].outcome = "verified"
                            => /\ ProofOf(y)' \in proofExists'
                               /\ verificationRecords'[ProofOf(y)'].codeHash
                                     = call'[y].codeHash
      BY DEF OutcomeTruthful
  <2>1. CASE y = x
        BY <1>1, <2>1 DEF StepSound
  <2>2. CASE y # x
        BY <1>1, <1>2, <1>4, <2>2, ReportStays DEF TruthInv
  <2> QED
      BY <2>1, <2>2
<1>8. OneWinner'
  <2>1. \A y \in Call : Wins(y)' => Wins(y) /\ call'[y] = call[y]
        BY <1>1, <1>4 DEF StepSound, Wins
  <2> QED
      BY <2>1 DEF TruthInv, OneWinner, Wins
<1> QED
    BY <1>3, <1>5, <1>6, <1>7, <1>8 DEF TruthInv

\* What the registry gains when t is mined, and how the call that waits ends.
Lands(t) ==
    IF t.to = "submitProofAndRegister" THEN TakesProof(t.call) ELSE TakesDeployment(t.call)

LEMMA MineContents ==
    ASSUME SubTypes, TypeOK, NEW t \in pool, MineProof(t) \/ MineDeployment(t)
    PROVE  LET x == t.call
           IN  /\ ~Lands(t) => UNCHANGED registryVars
               /\ Lands(t) =>
                     /\ DeploymentAccepted(call[x].codeHash, call[x].chain, call[x].address)
                     /\ deploymentExists' = deploymentExists
                           \cup {<<call[x].codeHash, call[x].chain, call[x].address>>}
               /\ Lands(t) /\ MineProof(t) =>
                     /\ proofExists' = proofExists \cup {ProofOf(x)}
                     /\ verificationRecords'[ProofOf(x)].payload = ProofOf(x)
                     /\ verificationRecords'[ProofOf(x)].codeHash = call[x].codeHash
               /\ Lands(t) /\ MineDeployment(t) => UNCHANGED proofVars
<1> PICK x : x = t.call
    OBVIOUS
<1>1. CASE MineProof(t)
  <2>1. t.to = "submitProofAndRegister" /\ ProofOf(x) \in AnyProof
        BY <1>1, TxIsTyped, HashAssumption DEF MineProof, AnyProof
  <2>2. ~MineDeployment(t)
        BY <2>1 DEF MineDeployment
  <2>3. IF TakesProof(x)
        THEN SubmitProofAndRegister(ProofOf(x), call[x].codeHash, ProofOf(x),
                 call[x].chain, call[x].address, t.sender)
        ELSE UNCHANGED registryVars
        BY <1>1 DEF MineProof
  <2>4. Lands(t) = TakesProof(x)
        BY <2>1 DEF Lands
  <2>5. CASE TakesProof(x)
    <3>1. /\ DeploymentAccepted(call[x].codeHash, call[x].chain, call[x].address)
          /\ WriteProof(ProofOf(x), call[x].codeHash, ProofOf(x), t.sender)
          /\ WriteDeployment(call[x].codeHash, call[x].chain, call[x].address)
          BY <2>3, <2>5 DEF SubmitProofAndRegister
    <3>2. /\ proofExists' = proofExists \cup {ProofOf(x)}
          /\ verificationRecords'[ProofOf(x)] =
                [codeHash |-> call[x].codeHash, payload |-> ProofOf(x),
                 submitter |-> t.sender, submittedAt |-> Building]
          BY <2>1, <3>1 DEF WriteProof, TypeOK
    <3>3. deploymentExists' = deploymentExists
             \cup {<<call[x].codeHash, call[x].chain, call[x].address>>}
          BY <3>1 DEF WriteDeployment
    <3> QED
        BY <2>2, <2>4, <2>5, <3>1, <3>2, <3>3
  <2>6. CASE ~TakesProof(x)
        BY <2>2, <2>3, <2>4, <2>6
  <2> QED
      BY <2>5, <2>6
<1>2. CASE MineDeployment(t)
  <2>1. t.to = "registerDeployment" /\ ~MineProof(t)
        BY <1>2 DEF MineDeployment, MineProof
  <2>2. IF TakesDeployment(x)
        THEN RegisterDeployment(call[x].codeHash, call[x].chain, call[x].address, t.sender)
        ELSE UNCHANGED registryVars
        BY <1>2 DEF MineDeployment
  <2>3. Lands(t) = TakesDeployment(x)
        BY <2>1 DEF Lands
  <2> QED
      BY <2>1, <2>2, <2>3 DEF TakesDeployment, RegisterDeployment, WriteDeployment
<1> QED
    BY <1>1, <1>2

LEMMA MineCalls ==
    ASSUME SubTypes, NEW t \in pool, MineProof(t) \/ MineDeployment(t)
    PROVE  /\ \A y \in Call :
                 /\ SameFields(y)
                 /\ call'[y].step \in {call[y].step, "done"}
                 /\ y # t.call => call'[y] = call[y]
           /\ \/ call'[t.call].outcome = call[t.call].outcome
              \/ call'[t.call].outcome = "refused"
              \/ /\ Lands(t)
                 /\ call'[t.call].outcome =
                       IF t.to = "submitProofAndRegister" THEN "verified" ELSE "propagated"
           /\ UNCHANGED <<code, pinned>>
           /\ pool' \subseteq pool
<1> DEFINE x == t.call
<1>1. x \in Call
      BY TxIsTyped
<1>2. /\ UNCHANGED <<code, pinned>> /\ pool' \subseteq pool
      /\ \/ UNCHANGED call
         \/ Finish(x, "refused")
         \/ Lands(t) /\ Finish(x, IF t.to = "submitProofAndRegister" THEN "verified"
                                  ELSE "propagated")
      BY DEF MineProof, MineDeployment, Settle, Leaves, offChain, Lands
<1>3. CASE UNCHANGED call
      BY <1>2, <1>3 DEF SameFields, SameCall
<1>4. ASSUME NEW o \in Outcome \ {"none"}, Finish(x, o)
      PROVE  /\ \A y \in Call :
                   /\ SameFields(y)
                   /\ call'[y].step \in {call[y].step, "done"}
                   /\ y # x => call'[y] = call[y]
             /\ call'[x].outcome = o
  <2> HIDE DEF x
  <2>1. OthersSame(x) /\ SameFields(x) /\ call'[x].step = "done" /\ call'[x].outcome = o
        BY <1>1, <1>4, FinishFields DEF SubTypes, SameFields
  <2> QED
      BY <1>1, <2>1, OthersKeepFields
<1>5. {"refused", "verified", "propagated"} \subseteq Outcome \ {"none"}
      BY DEF Outcome
<1> QED
    BY <1>2, <1>3, <1>4, <1>5

LEMMA MineContentsSound ==
    ASSUME SubTypes, TypeOK, [ImmutableStep]_vars, TruthInv,
           NEW t \in pool, MineProof(t) \/ MineDeployment(t)
    PROVE  ProofsResolve' /\ DeploymentsRunTheCode'
<1> DEFINE x == t.call
<1>1. UNCHANGED <<code, pinned>>
      BY MineCalls
<1>2. Grounded(x) /\ (t.to = "submitProofAndRegister" => Resolvable(x))
      BY DEF TruthInv, PoolSound
<1>3. CASE ~Lands(t)
  <2>1. UNCHANGED registryVars
        BY <1>3, MineContents
  <2> QED
      BY <1>1, <2>1, ContentsStaySound DEF TruthInv, WorldGrows
<1>4. CASE Lands(t)
  <2>1. DeploymentsRunTheCode'
    <3>1. deploymentExists' = deploymentExists
             \cup {<<call[x].codeHash, call[x].chain, call[x].address>>}
          BY <1>4, MineContents
    <3> QED
        BY <1>1, <1>2, <3>1 DEF TruthInv, DeploymentsRunTheCode, Grounded, Deployed
  <2>2. CASE MineProof(t)
    <3>1. Resolvable(x)
          BY <1>2, <2>2 DEF MineProof
    <3>2. /\ proofExists' = proofExists \cup {ProofOf(x)}
          /\ verificationRecords'[ProofOf(x)].payload = ProofOf(x)
          /\ verificationRecords'[ProofOf(x)].codeHash = call[x].codeHash
          BY <1>4, <2>2, MineContents
    <3>3. call[x].codeHash = Compiles[ProofOf(x).source] /\ ProofOf(x) \in pinned
          BY <3>1 DEF Resolvable, Compiled, ProofOf
    <3>4. \A p \in proofExists : verificationRecords'[p] = verificationRecords[p]
          BY DEF ImmutableStep, vars, proofVars
    <3> HIDE DEF x
    <3>5. ProofsResolve'
          BY <1>1, <3>2, <3>3, <3>4 DEF TruthInv, ProofsResolve
    <3> QED
        BY <2>1, <3>5
  <2>3. CASE MineDeployment(t)
    <3>1. UNCHANGED proofVars
          BY <1>4, <2>3, MineContents
    <3> QED
        BY <1>1, <2>1, <3>1 DEF TruthInv, ProofsResolve, proofVars
  <2> QED
      BY <2>2, <2>3
<1> QED
    BY <1>3, <1>4

\* Of two calls that race for a target only one can be told that its
\* transaction succeeded: the other's is mined after it, of the same bytecode.
LEMMA MineOneWinner ==
    ASSUME SubTypes, TypeOK, TruthInv, NEW t \in pool, MineProof(t) \/ MineDeployment(t)
    PROVE  OneWinner'
<1>0. t.call \in Call
      BY TxIsTyped
<1> PICK x \in Call : x = t.call
    BY <1>0
<1>1. \A y \in Call : /\ SameFields(y)
                      /\ y # x => call'[y] = call[y]
      BY MineCalls
<1>2. ASSUME Wins(x)', ~Wins(x), NEW y \in Call, Wins(y),
             call[y].chain = call[x].chain, call[y].address = call[x].address
      PROVE  FALSE
  <2>1. Lands(t)
        BY <1>2, MineCalls DEF Wins
  <2>2. <<call[x].codeHash, call[x].chain, call[x].address>> \notin deploymentExists
        BY <2>1, MineContents DEF DeploymentAccepted
  <2>3. OnRecord(y)
        BY <1>2 DEF TruthInv, OutcomeTruthful, Wins
  <2>4. code[call[y].chain][call[y].address] = call[y].codeHash
    <3> DEFINE d == <<call[y].codeHash, call[y].chain, call[y].address>>
    <3>1. d \in deploymentExists
          BY <2>3 DEF OnRecord
    <3>2. code[d[2]][d[3]] = d[1]
          BY <3>1 DEF TruthInv, DeploymentsRunTheCode
    <3> QED
        BY <3>2
  <2>5. Deployed(x) = call[x].codeHash
        BY DEF TruthInv, PoolSound, Grounded
  <2> QED
      BY <1>2, <2>2, <2>3, <2>4, <2>5 DEF OnRecord, Deployed
<1>3. SUFFICES ASSUME NEW y \in Call, NEW z \in Call, Wins(y)', Wins(z)',
                      call'[y].chain = call'[z].chain, call'[y].address = call'[z].address
               PROVE  y = z
      BY DEF OneWinner, Wins
<1>4. /\ call[y].chain = call[z].chain /\ call[y].address = call[z].address
      /\ y # x => Wins(y)
      /\ z # x => Wins(z)
      BY <1>1, <1>3 DEF SameFields, SameCall, Wins
<1>5. CASE Wins(y) /\ Wins(z)
      BY <1>4, <1>5 DEF TruthInv, OneWinner, Wins
<1>6. CASE ~Wins(y)
      BY <1>2, <1>3, <1>4, <1>6
<1>7. CASE ~Wins(z)
      BY <1>2, <1>3, <1>4, <1>7
<1> QED
    BY <1>5, <1>6, <1>7

LEMMA MineTruth ==
    ASSUME SubTypes, TypeOK, [ImmutableStep]_vars, TruthInv,
           NEW t \in pool, MineProof(t) \/ MineDeployment(t)
    PROVE  TruthInv'
<1>1. /\ \A y \in Call : /\ SameFields(y)
                         /\ call'[y].step \in {call[y].step, "done"}
                         /\ y # t.call => call'[y] = call[y]
      /\ pool' \subseteq pool
      /\ WorldGrows
      /\ t.call \in Call
      BY MineCalls, TxIsTyped DEF WorldGrows
<1>2. \A y \in Call : CallSound(y)'
      BY <1>1, CallStaysSound DEF TruthInv
<1>3. PoolSound'
  <2>1. \A u \in pool : u.call \in Call
        BY DEF SubTypes, PoolTyped, Tx
  <2>2. \A u \in pool : /\ Grounded(u.call)'
                        /\ u.to = "submitProofAndRegister" => Resolvable(u.call)'
        BY <1>1, <2>1, PoolStaysSound DEF TruthInv
  <2> QED
      BY <1>1, <2>2 DEF PoolSound
<1>4. ProofsResolve' /\ DeploymentsRunTheCode'
      BY MineContentsSound
<1>5. OneWinner'
      BY MineOneWinner
<1>6. OutcomeTruthful'
  <2> SUFFICES ASSUME NEW y \in Call
               PROVE  /\ call'[y].outcome \in {"verified", "propagated", "already-registered"}
                            => OnRecord(y)'
                      /\ call'[y].outcome = "verified"
                            => /\ ProofOf(y)' \in proofExists'
                               /\ verificationRecords'[ProofOf(y)'].codeHash
                                     = call'[y].codeHash
      BY DEF OutcomeTruthful
  <2>1. CASE call'[y].outcome = call[y].outcome
        BY <1>1, <2>1, ReportStays DEF TruthInv
  <2>2. CASE call'[y].outcome = "refused"
        BY <2>2
  <2>3. CASE y = t.call /\ Lands(t)
             /\ call'[y].outcome = IF t.to = "submitProofAndRegister" THEN "verified"
                                   ELSE "propagated"
    <3>1. OnRecord(y)'
      <4>1. <<call[y].codeHash, call[y].chain, call[y].address>> \in deploymentExists'
            BY <2>3, MineContents
      <4> QED
          BY <1>1, <4>1 DEF OnRecord, SameFields, SameCall
    <3>2. ASSUME call'[y].outcome = "verified"
          PROVE  /\ ProofOf(y)' \in proofExists'
                 /\ verificationRecords'[ProofOf(y)'].codeHash = call'[y].codeHash
      <4>1. MineProof(t)
            BY <2>3, <3>2 DEF MineDeployment
      <4>2. ProofOf(y)' = ProofOf(y) /\ call'[y].codeHash = call[y].codeHash
            BY <1>1 DEF SameFields, SameCall, ProofOf
      <4>3. /\ ProofOf(y) \in proofExists'
            /\ verificationRecords'[ProofOf(y)].codeHash = call[y].codeHash
            BY <2>3, <4>1, MineContents
      <4> QED
          BY <4>2, <4>3
    <3> QED
        BY <3>1, <3>2
  <2> QED
      BY <1>1, <2>1, <2>2, <2>3, MineCalls
<1> QED
    BY <1>2, <1>3, <1>4, <1>5, <1>6 DEF TruthInv

\* A stranger anchors only what IPFS has, and what is deployed stays.
LEMMA WorldTruth ==
    ASSUME SubTypes, TypeOK, [ImmutableStep]_vars, TruthInv, World
    PROVE  TruthInv'
<1>1. WorldGrows
      BY WorldStepGrows
<1>2. UNCHANGED <<call, pool, deploymentExists>>
      BY DEF World, Reanchor, SubmitProof, DeployContract, Tick, registryVars,
             vars, deploymentVars, mempool
<1>3. \A y \in Call : SameFields(y) /\ call'[y] = call[y]
      BY <1>2 DEF SameFields, SameCall
<1>4. \A y \in Call : CallSound(y)'
      BY <1>1, <1>3, CallStaysSound DEF TruthInv
<1>5. PoolSound'
  <2>1. \A u \in pool : u.call \in Call
        BY DEF SubTypes, PoolTyped, Tx
  <2> QED
      BY <1>1, <1>2, <1>3, <2>1, PoolStaysSound DEF TruthInv, PoolSound
<1>6. DeploymentsRunTheCode'
  <2>1. \A t \in deploymentExists : t[2] \in ChainId /\ t[3] \in Address /\ t[1] # Zero
        BY ZeroAssumption DEF TypeOK
  <2> QED
      BY <1>1, <1>2, <2>1 DEF TruthInv, DeploymentsRunTheCode, WorldGrows
<1>7. ProofsResolve'
  <2>1. CASE \E p \in pinned, s \in Sender : Reanchor(p, s)
    <3>1. PICK p \in pinned, s \in Sender : Reanchor(p, s)
          BY <2>1
    <3>2. p \in AnyProof
          BY HashAssumption DEF SubTypes, AnyProof
    <3>3. /\ proofExists' = proofExists \cup {p}
          /\ verificationRecords'[p].payload = p
          /\ verificationRecords'[p].codeHash = Compiles[p.source]
          /\ pinned' = pinned
          BY <3>1, <3>2 DEF Reanchor, SubmitProof, WriteProof, TypeOK, offChain
    <3>4. \A q \in proofExists : verificationRecords'[q] = verificationRecords[q]
          BY DEF ImmutableStep, vars, proofVars
    <3> QED
        BY <3>3, <3>4 DEF TruthInv, ProofsResolve
  <2>2. CASE ~\E p \in pinned, s \in Sender : Reanchor(p, s)
    <3>1. UNCHANGED <<proofExists, verificationRecords>>
          BY <2>2 DEF World, DeployContract, Tick, registryVars, vars, proofVars
    <3> QED
        BY <1>1, <3>1 DEF TruthInv, ProofsResolve, WorldGrows
  <2> QED
      BY <2>1, <2>2
<1>8. OutcomeTruthful'
  <2> SUFFICES ASSUME NEW y \in Call
               PROVE  /\ call'[y].outcome \in {"verified", "propagated", "already-registered"}
                            => OnRecord(y)'
                      /\ call'[y].outcome = "verified"
                            => /\ ProofOf(y)' \in proofExists'
                               /\ verificationRecords'[ProofOf(y)'].codeHash
                                     = call'[y].codeHash
      BY DEF OutcomeTruthful
  <2> QED
      BY <1>1, <1>3, ReportStays DEF TruthInv
<1>9. OneWinner'
      BY <1>2 DEF TruthInv, OneWinner
<1> QED
    BY <1>4, <1>5, <1>6, <1>7, <1>8, <1>9 DEF TruthInv

LEMMA StepTruth ==
    ASSUME SubTypes, TypeOK, [ImmutableStep]_vars, TruthInv, [SubNext]_subVars
    PROVE  TruthInv'
<1>1. CASE UNCHANGED subVars
      BY <1>1, QuietTruth DEF subVars, offChain, mempool
<1> QED
    BY <1>1, StartTruth, AdvanceTruth, MineTruth, WorldTruth DEF SubNext, Mine

LEMMA InitTruth == SubInit => TruthInv
BY DEF SubInit, Init, Idle, TruthInv, CallSound, PoolSound, ProofsResolve,
       DeploymentsRunTheCode, OutcomeTruthful, OneWinner

LEMMA TruthInvHolds == SubSpec => []TruthInv
<1>1. SubInit => TruthInv
      BY InitTruth
<1>2. SubTypes /\ TypeOK /\ [ImmutableStep]_vars /\ TruthInv /\ [SubNext]_subVars => TruthInv'
      BY StepTruth
<1>3. SubSpec => []TypeOK /\ [][ImmutableStep]_vars
      BY SubmissionUsesRegistry, TypeCorrect, NothingIsRewritten, PTL DEF Immutable, ImmutableStep
<1> QED
    BY <1>1, <1>2, <1>3, SubTypesHold, PTL DEF SubSpec

\* What a call of the SDK reports is so: between its last look at the registry
\* and its answer other calls, strangers and errors may come, and none of them
\* makes "verified", "propagated" or "already registered" untrue.
THEOREM ReportsAreTrue == SubSpec => []OutcomeTruthful
BY TruthInvHolds, PTL DEF TruthInv

\* Every anchored proof can be fetched and re-verified, whoever anchored it and
\* wherever the call that pinned it was interrupted.
THEOREM AnchoredProofsResolve == SubSpec => []ProofsResolve
BY TruthInvHolds, PTL DEF TruthInv

\* A deployment is registered under the bytecode that runs there, though the
\* contract cannot look at the L2 chain and the SDK looked some awaits earlier.
THEOREM RegisteredCodeRuns == SubSpec => []DeploymentsRunTheCode
BY TruthInvHolds, PTL DEF TruthInv

\* However many calls race for a target, one at most is told it registered it.
THEOREM AtMostOneWinner == SubSpec => []OneWinner
BY TruthInvHolds, PTL DEF TruthInv
====

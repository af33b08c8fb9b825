--------------------------- MODULE ResolverProofs ---------------------------
(* Theorems about Lookup and its cache, for every number of readers, every
   registry and every content of IPFS, about Webhooks, about RateLimit, for
   every window, limit and timing of the requests, and about Queries, for every
   log, store and way the index grows. *)
EXTENDS Lookup, RateLimit, Webhooks, Queries, RegistryProofs, FiniteSetTheorems,
        FunctionTheorems, SequenceTheorems

-----------------------------------------------------------------------------
(* Lookups only read the registry *)

LEMMA LookupReads == LookupSpec => Spec
<1>1. LookupInit => Init
      BY DEF LookupInit
<1>2. [LookupNext]_lookupVars => [Next]_vars
  <2> SUFFICES ASSUME [LookupNext]_lookupVars PROVE [Next]_vars
      OBVIOUS
  <2>1. ASSUME NEW x, Read(x) PROVE UNCHANGED vars
        BY <2>1 DEF Read, Ask, AskProof, ReadCode, ReadHashes, ReadChains, ReadDeployments,
                    RecordMissing, ReadRecord, Fetched, RequestFails, Becomes
  <2> QED
      BY <2>1 DEF LookupNext, lookupVars
<1> QED
    BY <1>1, <1>2, PTL DEF LookupSpec, Spec

-----------------------------------------------------------------------------
(* The local variables of a call *)

ProofState ==
    [stage : {"asked", "fetching", "valid", "bad"}, record : Record]

Found == UNION {[S -> Seq(Address)] : S \in SUBSET (Nat \ {0})}

\* What a chain id becomes on the way through Number.
Number == {Numbered[k] : k \in ChainId}

ReaderState ==
    [kind : Kind \cup {"none", "proof"},
     step : {"idle", "code", "hashes", "chains", "deployments", "proofs"},
     code : AnyCode, hashes : Seq(ProofHash), chains : Seq(Number), found : Found,
     proofs : Seq(ProofState), answer : {"none", "ok", "failed"}, fault : BOOLEAN,
     began : [proofs : SUBSET ProofHash,
              deployments : SUBSET (CodeHash \X ChainId \X Address)]]

\* What a call has read: the proofs of its bytecode, then the numbers of the chains,
\* then the deployments of each; each list a prefix of what is on record by now,
\* and with all that was on record when the call began.
HashesSound(q) ==
    q.kind # "proof" /\ q.step \in {"chains", "deployments", "proofs"} =>
        /\ Extends(proofsByCodeHash[q.code], q.hashes)
        /\ \A p \in q.began.proofs :
              verificationRecords[p].codeHash = q.code => p \in Elems(q.hashes)

\* Every number stands for a chain on which the bytecode is deployed.
ChainsSound(q) ==
    /\ q.kind # "proof" /\ q.step \in {"deployments", "proofs"} =>
          /\ \A t \in q.began.deployments : t[1] = q.code => Numbered[t[2]] \in Elems(q.chains)
          /\ \A n \in Elems(q.chains) : StandsFor(n, q.code, ChainId)
    /\ q.answer = "none" => Elems(q.chains) \subseteq ChainId

ListSound(q, n, s) ==
    /\ n \in ChainId
    /\ s = <<>> => StandsFor(n, q.code, ChainId \ {n})
    /\ Extends(deploymentsByCodeHash[q.code][n], s)
    /\ \A t \in q.began.deployments : t[1] = q.code /\ t[2] = n => t[3] \in Elems(s)

FoundSound(q) ==
    /\ q.step \in {"idle", "code", "hashes", "chains"} => DOMAIN q.found = {}
    /\ q.kind # "proof" /\ q.step = "proofs" => DOMAIN q.found = DOMAIN q.chains
    /\ DOMAIN q.found \subseteq DOMAIN q.chains
    /\ \A i \in DOMAIN q.found : ListSound(q, q.chains[i], q.found[i])

\* What one proof of the answer is known to be.
RecordRead(p, r) == p \in proofExists /\ r = verificationRecords[p]

\* Nobody had submitted p when the call for it began.
UnknownThen(q, p) == q.kind = "proof" /\ p \notin q.began.proofs

ProofSound(q, p, s) ==
    /\ s.stage = "fetching" => RecordRead(p, s.record)
    /\ s.stage = "valid" => Faithful(p)
    /\ s.stage = "bad" => \/ q.fault
                          \/ UnknownThen(q, p)
                          \/ p \in proofExists /\ ~Faithful(p)

ProofsSound(q) ==
    q.step = "proofs" =>
        /\ DOMAIN q.proofs = DOMAIN q.hashes
        /\ \A i \in DOMAIN q.proofs : ProofSound(q, q.hashes[i], q.proofs[i])

AnswerSound(q) ==
    /\ q.answer = "ok" =>
          q.step = "proofs" /\ \A i \in DOMAIN q.proofs : q.proofs[i].stage = "valid"
    /\ q.answer = "failed" =>
          \/ q.fault
          \/ q.step = "code"
          \/ q.step = "deployments" /\ ~(Elems(q.chains) \subseteq ChainId)
          \/ q.step = "proofs" /\ \E i \in DOMAIN q.proofs : q.proofs[i].stage = "bad"

BeganSound(q) ==
    q.began.proofs \subseteq proofExists /\ q.began.deployments \subseteq deploymentExists

\* A call for one proof asks for nothing else.
KindSound(q) == q.kind = "proof" => q.step = "proofs"

CallSound(q) ==
    /\ KindSound(q)
    /\ HashesSound(q)
    /\ ChainsSound(q)
    /\ FoundSound(q)
    /\ ProofsSound(q)
    /\ AnswerSound(q)
    /\ BeganSound(q)

LookupInv ==
    /\ reader \in [Reader -> ReaderState]
    /\ \A x \in Reader : CallSound(reader[x])

LEMMA IdleIsSound == Idle \in ReaderState /\ CallSound(Idle)
<1>1. <<>> \in Found
  <2>1. <<>> \in [{} -> Seq(Address)]
        OBVIOUS
  <2> QED
      BY <2>1 DEF Found
<1>2. Idle \in ReaderState
      BY <1>1 DEF Idle, ReaderState, AnyCode
<1>3. CallSound(Idle)
      BY DEF Idle, Elems, CallSound, KindSound, HashesSound, ChainsSound, FoundSound, ProofsSound, AnswerSound,
             BeganSound
<1> QED
    BY <1>2, <1>3

-----------------------------------------------------------------------------
(* What the registry does to what was read *)

LEMMA GrowthKeepsSound ==
    ASSUME TypeOK, TypeOK', [ImmutableStep]_vars, NEW q \in ReaderState, CallSound(q)
    PROVE  CallSound(q)'
<1>1. CASE UNCHANGED vars
      BY <1>1 DEF CallSound, KindSound, HashesSound, ChainsSound, FoundSound, ListSound,
                  StandsFor, ProofsSound, ProofSound, UnknownThen, RecordRead, Faithful, AnswerSound, BeganSound, vars, proofVars,
                  deploymentVars
<1>2. CASE ImmutableStep
  <2>1. HashesSound(q)'
    <3> SUFFICES ASSUME q.kind # "proof", q.step \in {"chains", "deployments", "proofs"}
                 PROVE  /\ Extends(proofsByCodeHash'[q.code], q.hashes)
                        /\ \A p \in q.began.proofs :
                              verificationRecords'[p].codeHash = q.code
                                 => p \in Elems(q.hashes)
        BY DEF HashesSound
    <3>1. q.code \in AnyCode /\ q.hashes \in Seq(ProofHash)
          BY DEF ReaderState
    <3>2. /\ Extends(proofsByCodeHash[q.code], q.hashes)
          /\ Extends(proofsByCodeHash'[q.code], proofsByCodeHash[q.code])
          BY <1>2, <3>1 DEF CallSound, KindSound, HashesSound, ImmutableStep
    <3>3. /\ Len(q.hashes) \in Nat
          /\ Len(proofsByCodeHash[q.code]) \in Nat /\ Len(proofsByCodeHash'[q.code]) \in Nat
          BY <3>1 DEF TypeOK
    <3>4. Extends(proofsByCodeHash'[q.code], q.hashes)
          BY <3>2, <3>3 DEF Extends
    <3>5. \A p \in q.began.proofs : verificationRecords'[p] = verificationRecords[p]
          BY <1>2 DEF CallSound, BeganSound, ImmutableStep
    <3> QED
        BY <3>4, <3>5 DEF CallSound, KindSound, HashesSound
  <2>2. \A k \in ChainId : Extends(deploymentsByCodeHash'[q.code][k],
                                   deploymentsByCodeHash[q.code][k])
        BY <1>2 DEF ImmutableStep, ReaderState, AnyChain
  <2>3. \A k \in ChainId : /\ Len(deploymentsByCodeHash[q.code][k]) \in Nat
                           /\ Len(deploymentsByCodeHash'[q.code][k]) \in Nat
                           /\ deploymentsByCodeHash[q.code][k] \in Seq(Address)
                           /\ deploymentsByCodeHash'[q.code][k] \in Seq(Address)
        BY DEF TypeOK, ReaderState, AnyChain
  <2>3a. \A S \in SUBSET ChainId : \A n : StandsFor(n, q.code, S) => StandsFor(n, q.code, S)'
    <3>1. \A k \in ChainId : deploymentsByCodeHash[q.code][k] # <<>>
                                => deploymentsByCodeHash'[q.code][k] # <<>>
          BY <2>2, <2>3 DEF Extends
    <3> QED
        BY <3>1 DEF StandsFor
  <2>4. ChainsSound(q)'
        BY <2>3a DEF CallSound, ChainsSound
  <2>5. FoundSound(q)'
    <3>1. ASSUME NEW i \in DOMAIN q.found
          PROVE  ListSound(q, q.chains[i], q.found[i])'
      <4>1. q.found[i] \in Seq(Address) /\ ListSound(q, q.chains[i], q.found[i])
            BY DEF ReaderState, Found, CallSound, FoundSound
      <4>2. Len(q.found[i]) \in Nat /\ q.chains[i] \in ChainId
            BY <4>1 DEF ListSound
      <4>3. Extends(deploymentsByCodeHash'[q.code][q.chains[i]], q.found[i])
        <5> PICK n, f : n = q.chains[i] /\ f = q.found[i]
            OBVIOUS
        <5>1. PICK now, next : /\ now = deploymentsByCodeHash[q.code][n]
                               /\ next = deploymentsByCodeHash'[q.code][n]
              OBVIOUS
        <5>2. Extends(now, f) /\ Extends(next, now)
              BY <2>2, <4>1, <4>2, <5>1 DEF ListSound
        <5>3. Len(f) \in Nat /\ Len(now) \in Nat /\ Len(next) \in Nat
              BY <2>3, <4>2, <5>1
        <5>4. Extends(next, f)
              BY <5>2, <5>3 DEF Extends
        <5> QED
            BY <5>1, <5>4
      <4> QED
          BY <2>3a, <4>1, <4>3 DEF ListSound
    <3> QED
        BY <3>1 DEF CallSound, FoundSound
  <2>6. \A p \in proofExists :
           p \in proofExists' /\ verificationRecords'[p] = verificationRecords[p]
        BY <1>2 DEF ImmutableStep
  <2>7. \A p \in proofExists : Faithful(p)' <=> Faithful(p)
        BY <2>6 DEF Faithful
  <2>8. \A p : Faithful(p) => p \in proofExists
        BY DEF Faithful
  <2>9. ProofsSound(q)'
    <3>1. ASSUME NEW p, NEW s \in ProofState, ProofSound(q, p, s)
          PROVE  ProofSound(q, p, s)'
      <4>1. s.stage = "fetching" => RecordRead(p, s.record)'
            BY <2>6, <3>1 DEF ProofSound, RecordRead
      <4>2. s.stage = "valid" => Faithful(p)'
            BY <2>7, <2>8, <3>1 DEF ProofSound
      <4>3. s.stage = "bad" => \/ q.fault
                               \/ UnknownThen(q, p)
                               \/ p \in proofExists' /\ ~Faithful(p)'
            BY <2>6, <2>7, <3>1 DEF ProofSound
      <4> QED
          BY <4>1, <4>2, <4>3 DEF ProofSound, UnknownThen
    <3>2. ASSUME NEW i \in DOMAIN q.proofs, ProofSound(q, q.hashes[i], q.proofs[i])
          PROVE  ProofSound(q, q.hashes[i], q.proofs[i])'
      <4>1. q.proofs[i] \in ProofState
            BY DEF ReaderState
      <4> QED
          BY <3>1, <3>2, <4>1
    <3> QED
        BY <3>2 DEF CallSound, ProofsSound
  <2>10. AnswerSound(q)' /\ BeganSound(q)' /\ KindSound(q)'
        BY <1>2, <2>6 DEF CallSound, KindSound, AnswerSound, BeganSound, ImmutableStep
  <2> QED
      BY <2>1, <2>4, <2>5, <2>9, <2>10 DEF CallSound
<1> QED
    BY <1>1, <1>2

-----------------------------------------------------------------------------
(* The steps of a call, one operator at a time *)

\* Promise.all leaves everything but the answer alone.
LEMMA AnsweredFields ==
    ASSUME NEW q \in ReaderState, q.answer = "none"
    PROVE  LET r == Answered(q)
           IN  /\ r \in ReaderState
               /\ r.kind = q.kind /\ r.step = q.step /\ r.code = q.code
               /\ r.hashes = q.hashes /\ r.chains = q.chains /\ r.found = q.found
               /\ r.proofs = q.proofs /\ r.fault = q.fault /\ r.began = q.began
               /\ r.answer = "ok" => /\ q.step = "proofs"
                                     /\ \A i \in DOMAIN q.proofs : q.proofs[i].stage = "valid"
               /\ r.answer = "failed" => /\ q.step = "proofs"
                                         /\ \E i \in DOMAIN q.proofs : q.proofs[i].stage = "bad"
BY DEF Answered, ReaderState

LEMMA AnsweredSound ==
    ASSUME NEW q \in ReaderState, CallSound(q), q.answer = "none"
    PROVE  Answered(q) \in ReaderState /\ CallSound(Answered(q))
<1> DEFINE r == Answered(q)
<1>1. /\ r \in ReaderState
      /\ r.kind = q.kind /\ r.step = q.step /\ r.code = q.code
      /\ r.hashes = q.hashes /\ r.chains = q.chains /\ r.found = q.found
      /\ r.proofs = q.proofs /\ r.fault = q.fault /\ r.began = q.began
      /\ r.answer = "ok" => /\ q.step = "proofs"
                            /\ \A i \in DOMAIN q.proofs : q.proofs[i].stage = "valid"
      /\ r.answer = "failed" => /\ q.step = "proofs"
                                /\ \E i \in DOMAIN q.proofs : q.proofs[i].stage = "bad"
      BY AnsweredFields
<1> HIDE DEF r
<1>2. /\ HashesSound(r) /\ ChainsSound(r) /\ FoundSound(r) /\ BeganSound(r)
      /\ ProofsSound(r)
      BY <1>1 DEF CallSound, KindSound, HashesSound, ChainsSound, FoundSound, ListSound,
                  BeganSound, ProofsSound, ProofSound, UnknownThen
<1>3. AnswerSound(r) /\ KindSound(r)
      BY <1>1 DEF CallSound, KindSound, AnswerSound
<1> QED
    BY <1>1, <1>2, <1>3 DEF CallSound, r

LEMMA AskedIsSound ==
    ASSUME NEW n \in Nat
    PROVE  /\ Asked(n) \in Seq(ProofState)
           /\ DOMAIN Asked(n) = 1..n
           /\ \A i \in 1..n : Asked(n)[i] = [stage |-> "asked", record |-> NoRecord]
<1>1. NoRecord \in Record
      BY DEF NoRecord, Record, AnyCode, AnyPayload
<1>2. [stage |-> "asked", record |-> NoRecord] \in ProofState
      BY <1>1 DEF ProofState
<1> QED
    BY <1>2 DEF Asked

\* With every chain's deployments in hand the call asks for its proofs.
LEMMA ProceedSound ==
    ASSUME NEW q \in ReaderState, q.step = "deployments", q.answer = "none", CallSound(q)
    PROVE  Proceed(q) \in ReaderState /\ CallSound(Proceed(q))
<1>1. CASE ~AllFound(q)
      BY <1>1 DEF Proceed
<1>2. CASE AllFound(q)
  <2> DEFINE r == [q EXCEPT !.step = "proofs", !.proofs = Asked(Len(q.hashes))]
  <2>1. /\ Asked(Len(q.hashes)) \in Seq(ProofState)
        /\ DOMAIN Asked(Len(q.hashes)) = 1..Len(q.hashes)
        /\ \A i \in 1..Len(q.hashes) :
              Asked(Len(q.hashes))[i] = [stage |-> "asked", record |-> NoRecord]
        /\ DOMAIN q.hashes = 1..Len(q.hashes)
    <3>1. Len(q.hashes) \in Nat /\ DOMAIN q.hashes = 1..Len(q.hashes)
          BY DEF ReaderState
    <3> PICK n \in Nat : n = Len(q.hashes)
        BY <3>1
    <3>2. /\ Asked(n) \in Seq(ProofState) /\ DOMAIN Asked(n) = 1..n
          /\ \A i \in 1..n : Asked(n)[i] = [stage |-> "asked", record |-> NoRecord]
          BY AskedIsSound
    <3> QED
        BY <3>1, <3>2
  <2>2. /\ r \in ReaderState
        /\ r.kind = q.kind /\ r.step = "proofs" /\ r.code = q.code
        /\ r.hashes = q.hashes /\ r.chains = q.chains /\ r.found = q.found
        /\ r.proofs = Asked(Len(q.hashes)) /\ r.fault = q.fault /\ r.began = q.began
        /\ r.answer = "none"
        BY <2>1 DEF ReaderState
  <2>3. Proceed(q) = Answered(r)
        BY <1>2 DEF Proceed
  <2> HIDE DEF r
  <2>4. /\ KindSound(r) /\ HashesSound(r) /\ ChainsSound(r) /\ BeganSound(r)
        /\ AnswerSound(r)
        BY <2>2 DEF CallSound, KindSound, HashesSound, ChainsSound, BeganSound, AnswerSound
  <2>5. FoundSound(r)
        BY <1>2, <2>2 DEF CallSound, FoundSound, ListSound, AllFound
  <2>6. ProofsSound(r)
        BY <2>1, <2>2 DEF ProofsSound, ProofSound
  <2> QED
      BY <2>2, <2>3, <2>4, <2>5, <2>6, AnsweredSound DEF CallSound
<1> QED
    BY <1>1, <1>2

LEMMA AskSound ==
    ASSUME NEW k \in Kind, NEW c \in AnyCode, NEW s \in {"hashes", "code"}, TypeOK
    PROVE  LET r == [Idle EXCEPT !.kind = k, !.began = OnRecordNow, !.step = s, !.code = c]
           IN  r \in ReaderState /\ CallSound(r)
<1> DEFINE r == [Idle EXCEPT !.kind = k, !.began = OnRecordNow, !.step = s, !.code = c]
<1>1. /\ r \in ReaderState
      /\ r.kind = k /\ r.step = s /\ r.chains = <<>> /\ r.found = <<>>
      /\ r.answer = "none" /\ r.began = OnRecordNow
      BY IdleIsSound DEF ReaderState, OnRecordNow, TypeOK, Kind, Idle
<1> HIDE DEF r
<1>2. CallSound(r)
      BY <1>1 DEF CallSound, KindSound, HashesSound, ChainsSound, Elems, FoundSound,
                  ProofsSound, AnswerSound, BeganSound, OnRecordNow, Kind
<1> QED
    BY <1>1, <1>2 DEF r

LEMMA AskProofSound ==
    ASSUME NEW p \in ProofHash, TypeOK
    PROVE  LET r == [Idle EXCEPT !.kind = "proof", !.step = "proofs", !.began = OnRecordNow,
                                 !.hashes = <<p>>, !.proofs = Asked(1)]
           IN  r \in ReaderState /\ CallSound(r)
<1> DEFINE r == [Idle EXCEPT !.kind = "proof", !.step = "proofs", !.began = OnRecordNow,
                             !.hashes = <<p>>, !.proofs = Asked(1)]
<1>1. /\ Asked(1) \in Seq(ProofState) /\ DOMAIN Asked(1) = 1..1
      /\ \A i \in 1..1 : Asked(1)[i] = [stage |-> "asked", record |-> NoRecord]
      BY AskedIsSound
<1>2. <<p>> \in Seq(ProofHash) /\ DOMAIN <<p>> = 1..1
      OBVIOUS
<1>3. /\ r \in ReaderState
      /\ r.kind = "proof" /\ r.step = "proofs" /\ r.answer = "none"
      /\ r.chains = <<>> /\ r.found = <<>>
      /\ r.hashes = <<p>> /\ r.proofs = Asked(1)
      /\ r.began = OnRecordNow /\ r.fault = FALSE
      BY <1>1, <1>2, IdleIsSound DEF ReaderState, OnRecordNow, TypeOK, Idle
<1> HIDE DEF r
<1>4. KindSound(r) /\ HashesSound(r) /\ ChainsSound(r) /\ FoundSound(r) /\ AnswerSound(r)
      BY <1>3 DEF KindSound, HashesSound, ChainsSound, Elems, FoundSound, AnswerSound
<1>5. BeganSound(r)
      BY <1>3 DEF BeganSound, OnRecordNow
<1>6. ProofsSound(r)
      BY <1>1, <1>2, <1>3 DEF ProofsSound, ProofSound
<1> QED
    BY <1>3, <1>4, <1>5, <1>6 DEF CallSound, r

LEMMA ReadCodeSound ==
    ASSUME NEW q \in ReaderState, q.step = "code", q.answer = "none", CallSound(q),
           NEW c \in AnyCode
    PROVE  LET r == IF c = Zero THEN [q EXCEPT !.answer = "failed"]
                    ELSE [q EXCEPT !.step = "hashes", !.code = c]
           IN  r \in ReaderState /\ CallSound(r)
<1>1. CASE c = Zero
  <2> DEFINE r == [q EXCEPT !.answer = "failed"]
  <2>1. /\ r \in ReaderState
        /\ r.kind = q.kind /\ r.step = "code" /\ r.chains = q.chains /\ r.found = q.found
        /\ r.began = q.began /\ r.answer = "failed"
        BY DEF ReaderState
  <2> HIDE DEF r
  <2>2. DOMAIN q.found = {} /\ BeganSound(q) /\ q.kind # "proof"
        BY DEF CallSound, KindSound, FoundSound
  <2>3. CallSound(r)
        BY <2>1, <2>2 DEF CallSound, KindSound, HashesSound, ChainsSound, FoundSound, ProofsSound,
                          AnswerSound, BeganSound
  <2> QED
      BY <1>1, <2>1, <2>3 DEF r
<1>2. CASE c # Zero
  <2> DEFINE r == [q EXCEPT !.step = "hashes", !.code = c]
  <2>1. /\ r \in ReaderState
        /\ r.kind = q.kind /\ r.step = "hashes" /\ r.chains = q.chains /\ r.found = q.found
        /\ r.began = q.began /\ r.answer = "none"
        BY DEF ReaderState
  <2> HIDE DEF r
  <2>2. /\ DOMAIN q.found = {} /\ BeganSound(q) /\ q.kind # "proof"
        /\ Elems(q.chains) \subseteq ChainId
        BY DEF CallSound, KindSound, FoundSound, ChainsSound
  <2>3. CallSound(r)
        BY <2>1, <2>2 DEF CallSound, KindSound, HashesSound, ChainsSound, FoundSound, ProofsSound,
                          AnswerSound, BeganSound
  <2> QED
      BY <1>2, <2>1, <2>3 DEF r
<1> QED
    BY <1>1, <1>2

\* The proofs listed now are those on record now: all that began with the call.
LEMMA ReadHashesSound ==
    ASSUME StorageInv, NEW q \in ReaderState, q.step = "hashes", q.answer = "none",
           CallSound(q)
    PROVE  LET r == [q EXCEPT !.step = "chains", !.hashes = proofsByCodeHash[q.code]]
           IN  r \in ReaderState /\ CallSound(r)
<1> DEFINE r == [q EXCEPT !.step = "chains", !.hashes = proofsByCodeHash[q.code]]
<1>1. q.code \in AnyCode /\ proofsByCodeHash[q.code] \in Seq(ProofHash)
      BY DEF ReaderState, StorageInv, TypeOK
<1>2. /\ r \in ReaderState
      /\ r.kind = q.kind /\ r.step = "chains" /\ r.code = q.code
      /\ r.hashes = proofsByCodeHash[q.code]
      /\ r.chains = q.chains /\ r.found = q.found /\ r.began = q.began /\ r.answer = "none"
      BY <1>1 DEF ReaderState
<1> HIDE DEF r
<1>3. /\ DOMAIN q.found = {} /\ BeganSound(q) /\ q.kind # "proof"
      /\ Elems(q.chains) \subseteq ChainId
      BY DEF CallSound, KindSound, FoundSound, ChainsSound
<1>4. HashesSound(r)
  <2>1. Elems(r.hashes) = {p \in proofExists : verificationRecords[p].codeHash = r.code}
        BY <1>1, <1>2 DEF StorageInv, ProofsListed
  <2>2. Extends(proofsByCodeHash[r.code], r.hashes)
        BY <1>1, <1>2 DEF Extends
  <2> QED
      BY <1>2, <1>3, <2>1, <2>2 DEF HashesSound, BeganSound
<1>5. /\ KindSound(r) /\ ChainsSound(r) /\ FoundSound(r) /\ ProofsSound(r)
      /\ AnswerSound(r) /\ BeganSound(r)
      BY <1>2, <1>3 DEF KindSound, ChainsSound, FoundSound, ProofsSound, AnswerSound, BeganSound
<1> QED
    BY <1>2, <1>4, <1>5 DEF CallSound, r

\* The numbers stand for the chains listed now; one that is no uint256 ends the call.
LEMMA ReadChainsSound ==
    ASSUME StorageInv, NEW q \in ReaderState, q.step = "chains", q.answer = "none",
           CallSound(q)
    PROVE  LET ids == chainIdsByCodeHash[q.code]
               r == [q EXCEPT !.step = "deployments",
                              !.chains = [i \in DOMAIN ids |-> Numbered[ids[i]]]]
               u == IF Elems(r.chains) \subseteq ChainId
                    THEN Proceed(r)
                    ELSE [r EXCEPT !.answer = "failed"]
           IN  u \in ReaderState /\ CallSound(u)
<1> DEFINE ids == chainIdsByCodeHash[q.code]
           ns == [i \in DOMAIN ids |-> Numbered[ids[i]]]
           r == [q EXCEPT !.step = "deployments", !.chains = ns]
           v == [r EXCEPT !.answer = "failed"]
<1>1. q.code \in AnyCode /\ ids \in Seq(ChainId)
      BY DEF ReaderState, StorageInv, TypeOK
<1>2. Elems(ids) = {k \in AnyChain : deploymentsByCodeHash[q.code][k] # <<>>}
      BY <1>1 DEF StorageInv, ChainsListed
<1> HIDE DEF ids
<1>3. \A i \in DOMAIN ids : ids[i] \in ChainId /\ Numbered[ids[i]] \in Number
      BY <1>1 DEF Number
<1>4. ns \in Seq(Number) /\ Elems(ns) = {Numbered[k] : k \in Elems(ids)}
  <2>1. DOMAIN ids = 1..Len(ids) /\ Len(ids) \in Nat
        BY <1>1
  <2>2. ns \in Seq(Number)
        BY <1>3, <2>1
  <2>3. DOMAIN ns = DOMAIN ids /\ \A i \in DOMAIN ids : ns[i] = Numbered[ids[i]]
        OBVIOUS
  <2> HIDE DEF ns
  <2> QED
      BY <2>2, <2>3 DEF Elems
<1>5. DOMAIN q.found = {} /\ BeganSound(q) /\ HashesSound(q) /\ q.kind # "proof"
      BY DEF CallSound, KindSound, FoundSound
<1>6. ASSUME NEW t \in q.began.deployments, t[1] = q.code
      PROVE  Numbered[t[2]] \in Elems(ns)
  <2>1. t \in deploymentExists /\ t \in CodeHash \X ChainId \X Address
        BY <1>5 DEF BeganSound, StorageInv, TypeOK
  <2>2. t = <<q.code, t[2], t[3]>> /\ t[2] \in AnyChain /\ t[3] \in AnyAddress
        BY <1>6, <2>1 DEF AnyChain, AnyAddress
  <2>3. t[3] \in Elems(deploymentsByCodeHash[q.code][t[2]])
        BY <1>1, <2>1, <2>2 DEF StorageInv, DeploymentsListed
  <2>4. deploymentsByCodeHash[q.code][t[2]] # <<>>
        BY <2>3, EmptyArray
  <2> QED
      BY <1>2, <1>4, <2>2, <2>4
<1>7. \A n \in Elems(ns) : StandsFor(n, q.code, ChainId)
  <2> SUFFICES ASSUME NEW n \in Elems(ns)
               PROVE  StandsFor(n, q.code, ChainId)
      OBVIOUS
  <2>1. PICK k \in Elems(ids) : n = Numbered[k]
        BY <1>4
  <2>2. k \in ChainId /\ deploymentsByCodeHash[q.code][k] # <<>>
        BY <1>2, <1>3 DEF Elems
  <2> QED
      BY <2>1, <2>2 DEF StandsFor
<1> HIDE DEF ns
<1>8. /\ r \in ReaderState
      /\ r.kind = q.kind /\ r.step = "deployments" /\ r.code = q.code
      /\ r.hashes = q.hashes /\ r.chains = ns
      /\ r.found = q.found /\ r.began = q.began /\ r.answer = "none"
      BY <1>4 DEF ReaderState
<1>9. /\ v \in ReaderState
      /\ v.kind = q.kind /\ v.step = "deployments" /\ v.code = q.code
      /\ v.hashes = q.hashes /\ v.chains = ns
      /\ v.found = q.found /\ v.began = q.began /\ v.answer = "failed"
      BY <1>8 DEF ReaderState
<1> HIDE DEF r, v
<1>10. CASE Elems(ns) \subseteq ChainId
  <2>1. CallSound(r)
        BY <1>5, <1>6, <1>7, <1>8, <1>10
        DEF CallSound, KindSound, HashesSound, ChainsSound, FoundSound, ProofsSound,
            AnswerSound, BeganSound
  <2> QED
      BY <1>8, <1>10, <2>1, ProceedSound DEF r, ns, ids
<1>11. CASE ~(Elems(ns) \subseteq ChainId)
  <2>1. CallSound(v)
        BY <1>5, <1>6, <1>7, <1>9, <1>11
        DEF CallSound, KindSound, HashesSound, ChainsSound, FoundSound, ProofsSound,
            AnswerSound, BeganSound
  <2> QED
      BY <1>8, <1>9, <1>11, <2>1 DEF r, v, ns, ids
<1> QED
    BY <1>10, <1>11

LEMMA ReadDeploymentsSound ==
    ASSUME StorageInv, NEW q \in ReaderState, q.step = "deployments", q.answer = "none",
           CallSound(q), NEW i \in DOMAIN q.chains \ DOMAIN q.found
    PROVE  LET r == Proceed([q EXCEPT !.found =
                       [j \in DOMAIN q.found \cup {i} |->
                           IF j = i THEN deploymentsByCodeHash[q.code][q.chains[i]]
                           ELSE q.found[j]]])
           IN  r \in ReaderState /\ CallSound(r)
<1> DEFINE k == q.chains[i]
           here == deploymentsByCodeHash[q.code][k]
           g == [j \in DOMAIN q.found \cup {i} |-> IF j = i THEN here ELSE q.found[j]]
           r == [q EXCEPT !.found = g]
<1>1. k \in ChainId /\ k \in Elems(q.chains) /\ i \in Nat \ {0} /\ q.kind # "proof"
  <2>1. Elems(q.chains) \subseteq ChainId /\ q.kind # "proof"
        BY DEF CallSound, ChainsSound, KindSound
  <2>2. q.chains \in Seq(Number)
        BY DEF ReaderState
  <2> QED
      BY <2>1, <2>2 DEF Elems
<1>2. /\ q.code \in AnyCode /\ k \in AnyChain /\ here \in Seq(Address)
      /\ DOMAIN q.found \subseteq Nat \ {0}
      /\ \A j \in DOMAIN q.found : q.found[j] \in Seq(Address)
  <2>1. q.code \in AnyCode /\ q.found \in Found /\ k \in AnyChain
        BY <1>1 DEF ReaderState, AnyChain
  <2>2. here \in Seq(Address)
        BY <2>1 DEF StorageInv, TypeOK
  <2>3. PICK S \in SUBSET (Nat \ {0}) : q.found \in [S -> Seq(Address)]
        BY <2>1 DEF Found
  <2> QED
      BY <2>1, <2>2, <2>3
<1> HIDE DEF k
<1>3. here = <<>> => StandsFor(k, q.code, ChainId \ {k})
      BY <1>1 DEF CallSound, ChainsSound, StandsFor
<1>4. Extends(here, here)
      BY <1>2 DEF Extends
<1>5. \A t \in q.began.deployments : t[1] = q.code /\ t[2] = k => t[3] \in Elems(here)
  <2> SUFFICES ASSUME NEW t \in q.began.deployments, t[1] = q.code, t[2] = k
               PROVE  t[3] \in Elems(here)
      OBVIOUS
  <2>1. t \in deploymentExists /\ t \in CodeHash \X ChainId \X Address
        BY DEF CallSound, BeganSound, StorageInv, TypeOK
  <2>2. t = <<q.code, k, t[3]>> /\ t[3] \in AnyAddress
        BY <2>1 DEF AnyAddress
  <2> QED
      BY <1>2, <2>1, <2>2 DEF StorageInv, DeploymentsListed
<1>6. ListSound(q, k, here)
      BY <1>1, <1>3, <1>4, <1>5 DEF ListSound
<1> HIDE DEF here
<1>7. g \in Found
  <2>1. g \in [DOMAIN q.found \cup {i} -> Seq(Address)]
        BY <1>2
  <2> QED
      BY <1>1, <1>2, <2>1 DEF Found
<1>8. /\ DOMAIN g = DOMAIN q.found \cup {i}
      /\ \A j \in DOMAIN g : g[j] = IF j = i THEN here ELSE q.found[j]
      OBVIOUS
<1> HIDE DEF g
<1>9. /\ r \in ReaderState
      /\ r.kind = q.kind /\ r.step = "deployments" /\ r.code = q.code
      /\ r.hashes = q.hashes /\ r.chains = q.chains /\ r.proofs = q.proofs
      /\ r.found = g /\ r.began = q.began /\ r.answer = "none"
      BY <1>7 DEF ReaderState
<1> HIDE DEF r
<1>10. /\ KindSound(r) /\ HashesSound(r) /\ ChainsSound(r) /\ ProofsSound(r)
       /\ AnswerSound(r) /\ BeganSound(r)
       BY <1>9 DEF CallSound, KindSound, HashesSound, ChainsSound, ProofsSound, AnswerSound,
                   BeganSound
<1>11. FoundSound(r)
  <2>1. \A j \in DOMAIN g : ListSound(q, q.chains[j], g[j])
        BY <1>6, <1>8 DEF CallSound, FoundSound, k
  <2>2. DOMAIN g \subseteq DOMAIN q.chains
        BY <1>8 DEF CallSound, FoundSound
  <2> QED
      BY <1>1, <1>9, <2>1, <2>2 DEF FoundSound, ListSound
<1> QED
    BY <1>9, <1>10, <1>11, ProceedSound DEF CallSound, r, g, here, k

\* A proof of the call changes stage.
LEMMA StageSound ==
    ASSUME NEW q \in ReaderState, q.step = "proofs", CallSound(q),
           NEW i \in DOMAIN q.proofs, q.proofs[i].stage \in {"asked", "fetching"},
           NEW s \in {"fetching", "valid", "bad"}, NEW r \in Record,
           ProofSound(q, q.hashes[i], [stage |-> s, record |-> r])
    PROVE  Stage(q, i, s, r) \in ReaderState /\ CallSound(Stage(q, i, s, r))
<1> DEFINE one == [stage |-> s, record |-> r]
           u == [q EXCEPT !.proofs[i] = one]
<1>1. one \in ProofState /\ one.stage = s
      BY DEF ProofState
<1>2. q.proofs \in Seq(ProofState)
      BY DEF ReaderState
<1> DEFINE ps == [q.proofs EXCEPT ![i] = one]
<1>3. /\ ps \in Seq(ProofState) /\ DOMAIN ps = DOMAIN q.proofs
      /\ ps[i] = one /\ \A j \in DOMAIN q.proofs : j # i => ps[j] = q.proofs[j]
      BY <1>1, <1>2
<1> HIDE DEF ps, one
<1>4. u = [q EXCEPT !.proofs = ps]
      BY DEF ps, ReaderState
<1>5. /\ u \in ReaderState
      /\ u.kind = q.kind /\ u.step = "proofs" /\ u.code = q.code
      /\ u.hashes = q.hashes /\ u.chains = q.chains /\ u.found = q.found
      /\ u.proofs = ps /\ u.fault = q.fault /\ u.began = q.began
      /\ u.answer = q.answer
      BY <1>3, <1>4 DEF ReaderState
<1>6. Stage(q, i, s, r) = Answered(u)
      BY DEF Stage, one
<1> HIDE DEF u
<1>7. /\ KindSound(u) /\ HashesSound(u) /\ ChainsSound(u) /\ FoundSound(u) /\ BeganSound(u)
      BY <1>5 DEF CallSound, KindSound, HashesSound, ChainsSound, FoundSound, ListSound, BeganSound
<1>8. ProofsSound(u)
  <2>1. DOMAIN q.proofs = DOMAIN q.hashes
        BY DEF CallSound, ProofsSound
  <2>2. ASSUME NEW j \in DOMAIN ps
        PROVE  ProofSound(q, q.hashes[j], ps[j])
    <3>1. CASE j = i
          BY <1>3, <3>1 DEF one
    <3>2. CASE j # i
          BY <1>3, <3>2 DEF CallSound, ProofsSound
    <3> QED
        BY <3>1, <3>2
  <2> QED
      BY <1>3, <1>5, <2>1, <2>2 DEF ProofsSound, ProofSound, UnknownThen
<1>9. q.answer # "ok"
      BY DEF CallSound, AnswerSound
<1>10. CASE q.answer = "none"
  <2>1. AnswerSound(u)
        BY <1>5, <1>10 DEF AnswerSound
  <2> QED
      BY <1>5, <1>6, <1>7, <1>8, <1>10, <2>1, AnsweredSound DEF CallSound
<1>11. CASE q.answer = "failed"
  <2>1. q.fault \/ \E j \in DOMAIN q.proofs : q.proofs[j].stage = "bad"
        BY <1>11 DEF CallSound, AnswerSound
  <2>2. q.fault \/ \E j \in DOMAIN ps : ps[j].stage = "bad"
        BY <1>3, <2>1
  <2>3. AnswerSound(u)
        BY <1>5, <1>11, <2>2 DEF AnswerSound
  <2>4. Answered(u) = u
        BY <1>5, <1>11 DEF Answered
  <2> QED
      BY <1>5, <1>6, <1>7, <1>8, <2>3, <2>4 DEF CallSound
<1> QED
    BY <1>9, <1>10, <1>11 DEF ReaderState

\* The verdict on a proof whose record was read, then or earlier.
LEMMA VerdictIsSound ==
    ASSUME NEW q, NEW p \in ProofHash, NEW r \in Record, RecordRead(p, r)
    PROVE  /\ Verdict(p, r) \in {"valid", "bad"}
           /\ ProofSound(q, p, [stage |-> Verdict(p, r), record |-> r])
<1>1. p \in proofExists /\ r = verificationRecords[p]
      BY DEF RecordRead
<1>2. CASE Accepts(p, r)
  <2>1. Served(r) /\ Validates(p, r, Content[r.payload.cid])
        BY <1>2 DEF Accepts
  <2>2. Faithful(p)
        BY <1>1, <2>1 DEF Faithful, Validates
  <2> QED
      BY <1>2, <2>2 DEF Verdict, ProofSound
<1>3. CASE ~Accepts(p, r)
  <2>1. ~Faithful(p)
    <3> SUFFICES ASSUME Faithful(p)
                 PROVE  FALSE
        OBVIOUS
    <3>1. /\ Served(r)
          /\ LET d == Content[r.payload.cid]
             IN  /\ d.hash = p /\ d.claimed = p
                 /\ <<d.codeHash, d.version>> = <<r.codeHash, r.payload.version>>
                 /\ {d.source, d.bundle} = {r.payload.source}
          BY <1>1 DEF Faithful
    <3>2. Validates(p, r, Content[r.payload.cid])
          BY <3>1 DEF Validates
    <3> QED
        BY <1>3, <3>1, <3>2 DEF Accepts
  <2> QED
      BY <1>1, <1>3, <2>1 DEF Verdict, ProofSound
<1> QED
    BY <1>2, <1>3

\* A lookup asks for proofs on record; only a call for one proof can meet a hash that
\* nobody submitted, and then nobody had when it began.
LEMMA MissingSound ==
    ASSUME StorageInv, NEW q \in ReaderState, q.step = "proofs", CallSound(q),
           NEW i \in DOMAIN q.proofs, q.proofs[i].stage = "asked",
           q.hashes[i] \notin proofExists
    PROVE  LET u == Stage(q, i, "bad", NoRecord)
           IN  u \in ReaderState /\ CallSound(u)
<1>1. /\ i \in DOMAIN q.hashes /\ q.hashes \in Seq(ProofHash) /\ q.code \in AnyCode
      /\ q.hashes[i] \in ProofHash
      BY DEF ReaderState, CallSound, ProofsSound
<1>2. q.kind = "proof"
  <2> SUFFICES ASSUME q.kind # "proof"
               PROVE  FALSE
      OBVIOUS
  <2>1. Extends(proofsByCodeHash[q.code], q.hashes)
        BY DEF CallSound, HashesSound
  <2>2. proofsByCodeHash[q.code] \in Seq(ProofHash)
        BY <1>1 DEF StorageInv, TypeOK
  <2>3. q.hashes[i] \in Elems(proofsByCodeHash[q.code])
    <3>1. i \in 1..Len(q.hashes) /\ Len(q.hashes) \in Nat
          BY <1>1
    <3>2. i \in DOMAIN proofsByCodeHash[q.code] /\ proofsByCodeHash[q.code][i] = q.hashes[i]
          BY <2>1, <2>2, <3>1 DEF Extends
    <3> QED
        BY <3>2 DEF Elems
  <2> QED
      BY <1>1, <2>3 DEF StorageInv, ProofsListed
<1>3. q.hashes[i] \notin q.began.proofs
      BY DEF CallSound, BeganSound
<1>4. ProofSound(q, q.hashes[i], [stage |-> "bad", record |-> NoRecord])
      BY <1>2, <1>3 DEF ProofSound, UnknownThen
<1>5. NoRecord \in Record
      BY DEF NoRecord, Record, AnyCode, AnyPayload
<1> QED
    BY <1>4, <1>5, StageSound

LEMMA ReadRecordSound ==
    ASSUME TypeOK, NEW q \in ReaderState, q.step = "proofs", CallSound(q),
           NEW i \in DOMAIN q.proofs, q.proofs[i].stage = "asked",
           q.hashes[i] \in proofExists, NEW hit \in BOOLEAN
    PROVE  LET r == verificationRecords[q.hashes[i]]
               u == Stage(q, i, IF hit THEN Verdict(q.hashes[i], r) ELSE "fetching", r)
           IN  u \in ReaderState /\ CallSound(u)
<1> DEFINE p == q.hashes[i]
           r == verificationRecords[p]
<1>1. p \in ProofHash
      BY DEF ReaderState, CallSound, ProofsSound
<1>2. r \in Record /\ RecordRead(p, r)
      BY <1>1 DEF TypeOK, RecordRead, AnyProof
<1> HIDE DEF r, p
<1>3. CASE hit
  <2>1. /\ Verdict(p, r) \in {"valid", "bad"}
        /\ ProofSound(q, p, [stage |-> Verdict(p, r), record |-> r])
        BY <1>1, <1>2, VerdictIsSound
  <2> QED
      BY <1>2, <1>3, <2>1, StageSound DEF p, r
<1>4. CASE ~hit
  <2>1. ProofSound(q, p, [stage |-> "fetching", record |-> r])
        BY <1>2 DEF ProofSound
  <2> QED
      BY <1>2, <1>4, <2>1, StageSound DEF p, r
<1> QED
    BY <1>3, <1>4

LEMMA FetchedSound ==
    ASSUME NEW q \in ReaderState, q.step = "proofs", CallSound(q),
           NEW i \in DOMAIN q.proofs, q.proofs[i].stage = "fetching"
    PROVE  LET r == q.proofs[i].record
               u == Stage(q, i, Verdict(q.hashes[i], r), r)
           IN  u \in ReaderState /\ CallSound(u)
<1> DEFINE p == q.hashes[i]
           r == q.proofs[i].record
<1>1. p \in ProofHash
      BY DEF ReaderState, CallSound, ProofsSound
<1>2. r \in Record
  <2>1. q.proofs[i] \in ProofState
        BY DEF ReaderState
  <2> QED
      BY <2>1 DEF ProofState
<1>3. RecordRead(p, r)
      BY DEF CallSound, ProofsSound, ProofSound
<1> HIDE DEF r, p
<1>4. /\ Verdict(p, r) \in {"valid", "bad"}
      /\ ProofSound(q, p, [stage |-> Verdict(p, r), record |-> r])
      BY <1>1, <1>2, <1>3, VerdictIsSound
<1> QED
    BY <1>2, <1>4, StageSound DEF p, r

\* A request that fails is a fault on record, whatever it was for.
LEMMA FailureSound ==
    ASSUME NEW q \in ReaderState, CallSound(q)
    PROVE  /\ q.step \in {"code", "hashes", "chains", "deployments"} /\ q.answer = "none"
                 => LET u == [q EXCEPT !.answer = "failed", !.fault = TRUE]
                    IN  u \in ReaderState /\ CallSound(u)
           /\ \A i \in DOMAIN q.proofs :
                 q.step = "proofs" /\ q.proofs[i].stage \in {"asked", "fetching"}
                    => LET u == [Stage(q, i, "bad", q.proofs[i].record) EXCEPT !.fault = TRUE]
                       IN  u \in ReaderState /\ CallSound(u)
<1>1. ASSUME q.step \in {"code", "hashes", "chains", "deployments"}, q.answer = "none"
      PROVE  LET u == [q EXCEPT !.answer = "failed", !.fault = TRUE]
             IN  u \in ReaderState /\ CallSound(u)
  <2> DEFINE u == [q EXCEPT !.answer = "failed", !.fault = TRUE]
  <2>1. /\ u \in ReaderState
        /\ u.kind = q.kind /\ u.step = q.step /\ u.code = q.code
        /\ u.hashes = q.hashes /\ u.chains = q.chains /\ u.found = q.found
        /\ u.proofs = q.proofs /\ u.fault = TRUE /\ u.began = q.began
        /\ u.answer = "failed"
        BY DEF ReaderState
  <2> HIDE DEF u
  <2>2. CallSound(u)
        BY <1>1, <2>1 DEF CallSound, KindSound, HashesSound, ChainsSound, FoundSound, ListSound,
                          ProofsSound, AnswerSound, BeganSound
  <2> QED
      BY <2>1, <2>2 DEF u
<1>2. ASSUME NEW i \in DOMAIN q.proofs, q.step = "proofs",
             q.proofs[i].stage \in {"asked", "fetching"}
      PROVE  LET u == [Stage(q, i, "bad", q.proofs[i].record) EXCEPT !.fault = TRUE]
             IN  u \in ReaderState /\ CallSound(u)
  <2> DEFINE r == q.proofs[i].record
             w == [q EXCEPT !.fault = TRUE]
             v == Stage(w, i, "bad", r)
             u == [Stage(q, i, "bad", r) EXCEPT !.fault = TRUE]
  <2>1. /\ w \in ReaderState
        /\ w.kind = q.kind /\ w.step = q.step /\ w.code = q.code
        /\ w.hashes = q.hashes /\ w.chains = q.chains /\ w.found = q.found
        /\ w.proofs = q.proofs /\ w.fault = TRUE /\ w.began = q.began
        /\ w.answer = q.answer
        BY DEF ReaderState
  <2>2. r \in Record
    <3>1. q.proofs[i] \in ProofState
          BY DEF ReaderState
    <3> QED
        BY <3>1 DEF ProofState
  <2>3. u = v
        BY <2>1 DEF Stage, Answered, ReaderState
  <2> HIDE DEF w, r
  <2>4. CallSound(w)
    <3>1. ProofsSound(w)
          BY <2>1 DEF CallSound, ProofsSound, ProofSound
    <3>2. AnswerSound(w)
          BY <2>1 DEF CallSound, AnswerSound
    <3> QED
        BY <2>1, <3>1, <3>2 DEF CallSound, KindSound, HashesSound, ChainsSound, FoundSound,
                                ListSound, BeganSound
  <2>5. ProofSound(w, w.hashes[i], [stage |-> "bad", record |-> r])
        BY <2>1 DEF ProofSound
  <2>6. v \in ReaderState /\ CallSound(v)
        BY <1>2, <2>1, <2>2, <2>4, <2>5, StageSound
  <2> QED
      BY <2>3, <2>6 DEF r
<1> QED
    BY <1>1, <1>2

-----------------------------------------------------------------------------
(* The steps of the resolver *)

\* A step of a call gives it new local variables, as sound as the old ones.
LEMMA ReadStep ==
    ASSUME StorageInv, LookupInv, NEW x \in Reader, Read(x)
    PROVE  \E u \in ReaderState : CallSound(u) /\ reader' = [reader EXCEPT ![x] = u]
<1> DEFINE q == reader[x]
<1>1. q \in ReaderState /\ CallSound(q) /\ TypeOK
      BY DEF LookupInv, StorageInv
<1> SUFFICES \E u : /\ u \in ReaderState /\ CallSound(u)
                    /\ reader' = [reader EXCEPT ![x] = u]
    OBVIOUS
<1>2. ASSUME NEW k \in Kind, NEW c \in CodeHash, Ask(x, k, c)
      PROVE  \E u : u \in ReaderState /\ CallSound(u) /\ reader' = [reader EXCEPT ![x] = u]
  <2> DEFINE s == IF k = "codeHash" THEN "hashes" ELSE "code"
             b == IF k = "codeHash" THEN c ELSE Zero
  <2>1. s \in {"hashes", "code"} /\ b \in AnyCode
        BY DEF AnyCode
  <2>2. reader' = [reader EXCEPT ![x] =
                      [Idle EXCEPT !.kind = k, !.began = OnRecordNow, !.step = s, !.code = b]]
        BY <1>2 DEF Ask, Becomes
  <2> HIDE DEF s, b
  <2> QED
      BY <1>1, <2>1, <2>2, AskSound
<1>3. ASSUME NEW p \in ProofHash, AskProof(x, p)
      PROVE  \E u : u \in ReaderState /\ CallSound(u) /\ reader' = [reader EXCEPT ![x] = u]
      BY <1>1, <1>3, AskProofSound DEF AskProof, Becomes
<1>4. ASSUME NEW c \in AnyCode, ReadCode(x, c)
      PROVE  \E u : u \in ReaderState /\ CallSound(u) /\ reader' = [reader EXCEPT ![x] = u]
      BY <1>1, <1>4, ReadCodeSound DEF ReadCode, Becomes
<1>5. CASE ReadHashes(x)
      BY <1>1, <1>5, ReadHashesSound DEF ReadHashes, Becomes
<1>6. CASE ReadChains(x)
      BY <1>1, <1>6, ReadChainsSound DEF ReadChains, Becomes
<1>7. ASSUME NEW i \in DOMAIN q.chains, ReadDeployments(x, i)
      PROVE  \E u : u \in ReaderState /\ CallSound(u) /\ reader' = [reader EXCEPT ![x] = u]
      BY <1>1, <1>7, ReadDeploymentsSound DEF ReadDeployments, Becomes
<1>8. ASSUME NEW i \in DOMAIN q.proofs, ReadRecord(x, i)
      PROVE  \E u : u \in ReaderState /\ CallSound(u) /\ reader' = [reader EXCEPT ![x] = u]
  <2> DEFINE r == verificationRecords[q.hashes[i]]
             hit == Served(r) /\ Has(cache, r.payload.cid)
  <2>1. /\ q.step = "proofs" /\ q.proofs[i].stage = "asked" /\ hit \in BOOLEAN
        /\ q.hashes[i] \in proofExists
        /\ reader' = [reader EXCEPT ![x] =
                         Stage(q, i, IF hit THEN Verdict(q.hashes[i], r) ELSE "fetching", r)]
        BY <1>8 DEF ReadRecord, Becomes
  <2> HIDE DEF hit
  <2> QED
      BY <1>1, <2>1, ReadRecordSound
<1>9. ASSUME NEW i \in DOMAIN q.proofs, Fetched(x, i)
      PROVE  \E u : u \in ReaderState /\ CallSound(u) /\ reader' = [reader EXCEPT ![x] = u]
      BY <1>1, <1>9, FetchedSound DEF Fetched, Becomes
<1>10. ASSUME NEW i \in DOMAIN q.proofs, RecordMissing(x, i)
       PROVE  \E u : u \in ReaderState /\ CallSound(u) /\ reader' = [reader EXCEPT ![x] = u]
       BY <1>1, <1>10, MissingSound DEF RecordMissing, Becomes
<1>11. CASE RequestFails(x)
       BY <1>1, <1>11, FailureSound DEF RequestFails, Becomes
<1> QED
    BY <1>2, <1>3, <1>4, <1>5, <1>6, <1>7, <1>8, <1>9, <1>10, <1>11 DEF Read

LEMMA LookupStep ==
    ASSUME StorageInv, StorageInv', [ImmutableStep]_vars, LookupInv,
           [LookupNext]_lookupVars
    PROVE  LookupInv'
<1>1. CASE reader' = reader
  <2>1. ASSUME NEW x \in Reader
        PROVE  CallSound(reader[x])'
    <3>1. PICK q \in ReaderState : q = reader[x]
          BY DEF LookupInv
    <3>2. CallSound(q)'
          BY <3>1, GrowthKeepsSound DEF LookupInv, StorageInv
    <3> QED
        BY <1>1, <3>1, <3>2 DEF CallSound, KindSound, HashesSound, ChainsSound, FoundSound,
                                ProofsSound, AnswerSound, BeganSound
  <2> QED
      BY <1>1, <2>1 DEF LookupInv
<1>2. ASSUME NEW x \in Reader, Read(x)
      PROVE  LookupInv'
  <2>1. PICK u \in ReaderState : CallSound(u) /\ reader' = [reader EXCEPT ![x] = u]
        BY <1>2, ReadStep
  <2>2. UNCHANGED vars
        BY <1>2 DEF Read, Ask, AskProof, ReadCode, ReadHashes, ReadChains, ReadDeployments,
                    RecordMissing, ReadRecord, Fetched, RequestFails, Becomes
  <2>3. ASSUME NEW y \in Reader
        PROVE  CallSound(reader[y])'
    <3>1. PICK q \in ReaderState : q = reader'[y] /\ CallSound(q)
          BY <2>1 DEF LookupInv
    <3>2. CallSound(q)'
          BY <2>2, <3>1, GrowthKeepsSound DEF StorageInv
    <3> QED
        BY <3>1, <3>2 DEF CallSound, KindSound, HashesSound, ChainsSound, FoundSound,
                          ProofsSound, AnswerSound, BeganSound
  <2> QED
      BY <2>1, <2>3 DEF LookupInv
<1>3. ASSUME NEW x, x \notin Reader, Read(x)
      PROVE  reader' = reader
  <2>1. \E u : reader' = [reader EXCEPT ![x] = u]
        BY <1>3 DEF Read, Ask, AskProof, ReadCode, ReadHashes, ReadChains, ReadDeployments,
                    RecordMissing, ReadRecord, Fetched, RequestFails, Becomes
  <2> QED
      BY <1>3, <2>1 DEF LookupInv
<1> QED
    BY <1>1, <1>2, <1>3 DEF LookupNext, lookupVars, lookupOnly

LEMMA LookupInvHolds == LookupSpec => [](StorageInv /\ LookupInv)
<1>1. LookupInit => LookupInv
      BY IdleIsSound DEF LookupInit, LookupInv
<1>2. LookupSpec => []StorageInv /\ [][ImmutableStep]_vars
      BY LookupReads, StorageConsistent, NothingIsRewritten, PTL
      DEF Immutable, ImmutableStep
<1> QED
    BY <1>1, <1>2, LookupStep, PTL DEF LookupSpec

\* A lookup misses no proof and no chain that was on record when it began, invents
\* nothing, and lists every address of a chain whose id a double holds, though the
\* registry grows between any two of its requests (sdk.ts:264-307).
THEOREM LookupsCoverTheRecord == LookupSpec => []LookupCovers
<1>1. LookupInv => LookupCovers
  <2> SUFFICES ASSUME LookupInv, NEW x \in Reader, reader[x].answer = "ok",
                      reader[x].kind # "proof"
               PROVE  LET q == reader[x]
                      IN  /\ Extends(proofsByCodeHash[q.code], q.hashes)
                          /\ \A p \in q.began.proofs :
                                verificationRecords[p].codeHash = q.code => p \in Elems(q.hashes)
                          /\ \A t \in q.began.deployments :
                                t[1] = q.code =>
                                   /\ Numbered[t[2]] \in {q.chains[i] : i \in DOMAIN q.found}
                                   /\ \A i \in Kept(q) :
                                         q.chains[i] = t[2] => t[3] \in Elems(q.found[i])
                          /\ \A i \in Kept(q) :
                                LET n == q.chains[i]
                                IN  /\ StandsFor(n, q.code, ChainId)
                                    /\ q.found[i] = <<>> => StandsFor(n, q.code, ChainId \ {n})
                                    /\ Extends(deploymentsByCodeHash[q.code][n], q.found[i])
      BY DEF LookupCovers
  <2>1. PICK q \in ReaderState : q = reader[x] /\ CallSound(q)
        BY DEF LookupInv
  <2>2. q.step = "proofs" /\ DOMAIN q.found = DOMAIN q.chains
        BY <2>1 DEF CallSound, AnswerSound, FoundSound
  <2>3. HashesSound(q) /\ ChainsSound(q)
        BY <2>1 DEF CallSound
  <2>4. \A i \in Kept(q) : i \in DOMAIN q.found /\ ListSound(q, q.chains[i], q.found[i])
        BY <2>1 DEF Kept, CallSound, FoundSound
  <2>5. \A i \in DOMAIN q.found : q.chains[i] \in Elems(q.chains)
        BY <2>2 DEF Elems
  <2>6. Elems(q.chains) = {q.chains[i] : i \in DOMAIN q.found}
        BY <2>2 DEF Elems
  <2> QED
      BY <2>1, <2>2, <2>3, <2>4, <2>5, <2>6 DEF HashesSound, ChainsSound, ListSound
<1> QED
    BY <1>1, LookupInvHolds, PTL

\* A lookup that answers vouches for every proof it names, and one that fails
\* has a reason on record: no interleaving of readers, of registrations and of
\* failing requests makes it answer otherwise.
THEOREM LookupsAreExplained == LookupSpec => []LookupExplained
<1>1. StorageInv /\ LookupInv => LookupExplained
  <2> SUFFICES ASSUME StorageInv, LookupInv, NEW x \in Reader
               PROVE  LET q == reader[x]
                      IN  /\ q.answer = "ok" => \A i \in DOMAIN q.hashes : Faithful(q.hashes[i])
                          /\ IsVerified(q) =>
                                \E p \in ProofHash :
                                   /\ Faithful(p)
                                   /\ q.kind # "proof" =>
                                         verificationRecords[p].codeHash = q.code
                          /\ q.answer = "failed" =>
                                \/ q.fault
                                \/ q.step = "code"
                                \/ /\ q.step = "deployments"
                                   /\ \E k \in ChainId :
                                         /\ Numbered[k] \notin ChainId
                                         /\ deploymentsByCodeHash[q.code][k] # <<>>
                                \/ \E i \in DOMAIN q.hashes :
                                      /\ q.proofs[i].stage = "bad"
                                      /\ \/ UnknownThen(q, q.hashes[i])
                                         \/ q.hashes[i] \in proofExists /\ ~Faithful(q.hashes[i])
      BY DEF LookupExplained, UnknownThen
  <2>1. PICK q \in ReaderState : q = reader[x] /\ CallSound(q)
        BY DEF LookupInv
  <2>2. ASSUME q.answer = "ok"
        PROVE  \A i \in DOMAIN q.hashes : Faithful(q.hashes[i])
        BY <2>1, <2>2 DEF CallSound, AnswerSound, ProofsSound, ProofSound
  <2>3. ASSUME IsVerified(q)
        PROVE  \E p \in ProofHash : /\ Faithful(p)
                                    /\ q.kind # "proof" =>
                                          verificationRecords[p].codeHash = q.code
    <3>1. q.answer = "ok" /\ q.hashes # <<>> /\ q.hashes \in Seq(ProofHash)
          BY <2>3 DEF IsVerified, ReaderState
    <3>2. 1 \in DOMAIN q.hashes /\ 1 \in 1..Len(q.hashes) /\ q.hashes[1] \in ProofHash
          BY <3>1
    <3>3. Faithful(q.hashes[1])
          BY <2>2, <3>1, <3>2
    <3>4. ASSUME q.kind # "proof"
          PROVE  verificationRecords[q.hashes[1]].codeHash = q.code
      <4>1. q.code \in AnyCode /\ proofsByCodeHash[q.code] \in Seq(ProofHash)
            BY DEF ReaderState, StorageInv, TypeOK
      <4>2. Extends(proofsByCodeHash[q.code], q.hashes)
            BY <2>1, <3>1, <3>4 DEF CallSound, AnswerSound, HashesSound
      <4>3. /\ 1 \in DOMAIN proofsByCodeHash[q.code]
            /\ proofsByCodeHash[q.code][1] = q.hashes[1]
            BY <3>1, <3>2, <4>1, <4>2 DEF Extends
      <4> QED
          BY <4>1, <4>3 DEF StorageInv, ProofsListed, Elems
    <3> QED
        BY <3>2, <3>3, <3>4
  <2>4. ASSUME q.answer = "failed", q.step = "deployments", ~q.fault
        PROVE  \E k \in ChainId : /\ Numbered[k] \notin ChainId
                                  /\ deploymentsByCodeHash[q.code][k] # <<>>
    <3>1. ~(Elems(q.chains) \subseteq ChainId) /\ q.kind # "proof"
          BY <2>1, <2>4 DEF CallSound, AnswerSound, KindSound
    <3>2. \A n \in Elems(q.chains) : StandsFor(n, q.code, ChainId)
          BY <2>1, <2>4, <3>1 DEF CallSound, ChainsSound
    <3> QED
        BY <3>1, <3>2 DEF StandsFor
  <2>5. ASSUME q.answer = "failed", ~q.fault, q.step \notin {"code", "deployments"}
        PROVE  \E i \in DOMAIN q.hashes :
                  /\ q.proofs[i].stage = "bad"
                  /\ \/ UnknownThen(q, q.hashes[i])
                     \/ q.hashes[i] \in proofExists /\ ~Faithful(q.hashes[i])
        BY <2>1, <2>5 DEF CallSound, AnswerSound, ProofsSound, ProofSound
  <2> QED
      BY <2>1, <2>2, <2>3, <2>4, <2>5
<1> QED
    BY <1>1, LookupInvHolds, PTL

-----------------------------------------------------------------------------
(* The cache. *)

Once(s) == \A i, j \in DOMAIN s : s[i] = s[j] => i = j

\* c is the end of s, of length n.
EndOf(c, s, n) ==
    /\ n \in 0..Len(s)
    /\ Len(c) = n
    /\ \A j \in 1..n : c[j] = s[Len(s) - n + j]

Least2(a, b) == IF a < b THEN a ELSE b

LEMMA Appended ==
    ASSUME NEW T, NEW s \in Seq(T), NEW k \in T
    PROVE  /\ Append(s, k) \in Seq(T)
           /\ Len(s) \in Nat /\ Len(Append(s, k)) = Len(s) + 1
           /\ DOMAIN s = 1..Len(s)
           /\ Append(s, k)[Len(s) + 1] = k
           /\ \A j \in 1..Len(s) : Append(s, k)[j] = s[j]
    OBVIOUS

\* Place j of what is left when place i is taken out.
Shifted(i, j) == IF j < i THEN j ELSE j + 1

\* Deleting a key moves what is behind it one place forward.
LEMMA WithoutKey ==
    ASSUME NEW T, NEW s \in Seq(T), Once(s), NEW i \in DOMAIN s
    PROVE  /\ Without(s, s[i]) \in Seq(T)
           /\ Len(Without(s, s[i])) = Len(s) - 1
           /\ \A j \in 1..Len(s) - 1 : Without(s, s[i])[j] = s[Shifted(i, j)]
<1>1. DOMAIN s = 1..Len(s) /\ Len(s) \in Nat /\ \A j \in DOMAIN s : s[j] \in T
      OBVIOUS
<1>2. (CHOOSE j \in DOMAIN s : s[j] = s[i]) = i
      BY DEF Once
<1>3. Without(s, s[i]) = [j \in 1..Len(s) - 1 |-> s[Shifted(i, j)]]
      BY <1>2 DEF Without, Has, Shifted
<1>4. \A j \in 1..Len(s) - 1 : Shifted(i, j) \in DOMAIN s
      BY <1>1 DEF Shifted
<1> QED
    BY <1>1, <1>3, <1>4

\* A key used moves to the end of the keys, or comes to it, and none is twice.
Used(s, k) == Append(Without(s, k), k)

LEMMA UsedAgain ==
    ASSUME NEW T, NEW s \in Seq(T), Once(s), NEW k \in T, NEW i \in DOMAIN s, s[i] = k
    PROVE  /\ Used(s, k) \in Seq(T)
           /\ Len(Used(s, k)) = Len(s)
           /\ Used(s, k)[Len(s)] = k
           /\ \A j \in 1..Len(s) - 1 : Used(s, k)[j] = s[Shifted(i, j)]
<1>1. PICK w : w = Without(s, k)
      OBVIOUS
<1>2. /\ w \in Seq(T) /\ Len(w) = Len(s) - 1
      /\ \A j \in 1..Len(s) - 1 : w[j] = s[Shifted(i, j)]
      BY <1>1, WithoutKey
<1>3. Used(s, k) = Append(w, k) /\ Len(s) \in Nat
      BY <1>1 DEF Used
<1>4. Len(w) + 1 = Len(s)
      BY <1>2, <1>3
<1> QED
    BY <1>2, <1>3, <1>4, Appended

LEMMA UsedKeys ==
    ASSUME NEW T, NEW s \in Seq(T), Once(s), NEW k \in T
    PROVE  Used(s, k) \in Seq(T) /\ Once(Used(s, k))
<1>1. PICK u, L : u = Used(s, k) /\ L = Len(s)
      OBVIOUS
<1>2. DOMAIN s = 1..L /\ L \in Nat
      BY <1>1
<1>3. CASE ~Has(s, k)
  <2>1. u = Append(s, k)
        BY <1>1, <1>3 DEF Used, Without
  <2>2. \A i \in DOMAIN s : s[i] # k
        BY <1>3 DEF Has
  <2>3. Once(u)
        BY <2>1, <2>2 DEF Once
  <2> QED
      BY <1>1, <2>1, <2>3
<1>4. CASE Has(s, k)
  <2>1. PICK i \in DOMAIN s : s[i] = k
        BY <1>4 DEF Has
  <2>2. /\ u \in Seq(T) /\ Len(u) = L /\ u[L] = k
        /\ \A j \in 1..L - 1 : u[j] = s[Shifted(i, j)]
        BY <1>1, <2>1, UsedAgain
  <2> DEFINE place(j) == IF j = L THEN i ELSE Shifted(i, j)
  <2>3. \A j \in 1..L : place(j) \in DOMAIN s /\ u[j] = s[place(j)]
    <3> TAKE j \in 1..L
    <3>1. CASE j = L
          BY <2>1, <2>2, <3>1
    <3>2. CASE j # L
      <4>1. j \in 1..L - 1 /\ Shifted(i, j) \in 1..L
            BY <1>2, <3>2 DEF Shifted
      <4> QED
          BY <1>2, <2>2, <3>2, <4>1
    <3> QED
        BY <3>1, <3>2
  <2>4. \A j, m \in 1..L : place(j) = place(m) => j = m
        BY <1>2, <2>1 DEF Shifted
  <2> HIDE DEF place
  <2>5. \A j, m \in 1..L : u[j] = u[m] => j = m
        BY <2>3, <2>4 DEF Once
  <2>6. DOMAIN u = 1..L
        BY <2>2
  <2> QED
      BY <1>1, <2>2, <2>5, <2>6 DEF Once
<1> QED
    BY <1>3, <1>4

\* The end of distinct keys has distinct keys.
LEMMA EndOnce ==
    ASSUME NEW T, NEW s \in Seq(T), NEW c \in Seq(T), Once(s), NEW n, EndOf(c, s, n)
    PROVE  Once(c)
<1>1. PICK L : L = Len(s)
      OBVIOUS
<1>2. /\ DOMAIN s = 1..L /\ L \in Nat /\ DOMAIN c = 1..n /\ n \in 0..L
      /\ \A j \in 1..n : c[j] = s[L - n + j]
      BY <1>1 DEF EndOf
<1> SUFFICES ASSUME NEW a \in 1..n, NEW b \in 1..n, c[a] = c[b]
             PROVE  a = b
    BY <1>2 DEF Once
<1>3. L - n + a \in DOMAIN s /\ L - n + b \in DOMAIN s /\ s[L - n + a] = s[L - n + b]
      BY <1>2
<1>4. L - n + a = L - n + b
      BY <1>3 DEF Once
<1> QED
    BY <1>2, <1>4

\* A key of the cache is used.
LEMMA GetKeepsEnd ==
    ASSUME NEW T, NEW s \in Seq(T), NEW c \in Seq(T), Once(s),
           NEW n, EndOf(c, s, n), NEW k \in T, Has(c, k)
    PROVE  EndOf(Used(c, k), Used(s, k), n) /\ Len(Used(s, k)) = Len(s)
<1>1. PICK L, u, v : L = Len(s) /\ u = Used(c, k) /\ v = Used(s, k)
      OBVIOUS
<1>2. /\ DOMAIN s = 1..L /\ L \in Nat /\ DOMAIN c = 1..n /\ n \in 0..L
      /\ Len(c) = n /\ \A j \in 1..n : c[j] = s[L - n + j]
      BY <1>1 DEF EndOf
<1>3. PICK i \in 1..n : c[i] = k
      BY <1>2 DEF Has
<1>4. PICK p : p = L - n + i
      OBVIOUS
<1>5. p \in 1..L /\ s[p] = k
      BY <1>2, <1>3, <1>4
<1>6. /\ Len(u) = n /\ u[n] = k
      /\ \A j \in 1..n - 1 : u[j] = c[Shifted(i, j)]
  <2>1. Once(c)
        BY EndOnce
  <2>2. i \in DOMAIN c
        BY <1>2
  <2>3. /\ Len(Used(c, k)) = Len(c) /\ Used(c, k)[Len(c)] = k
        /\ \A j \in 1..Len(c) - 1 : Used(c, k)[j] = c[Shifted(i, j)]
        BY <1>3, <2>1, <2>2, UsedAgain
  <2> QED
      BY <1>1, <1>2, <2>3
<1>7. /\ Len(v) = L /\ v[L] = k
      /\ \A j \in 1..L - 1 : v[j] = s[Shifted(p, j)]
      BY <1>1, <1>2, <1>5, UsedAgain
<1>8. \A j \in 1..n : u[j] = v[L - n + j]
  <2> TAKE j \in 1..n
  <2>1. CASE j = n
    <3>1. L - n + n = L
          BY <1>2
    <3> QED
        BY <1>6, <1>7, <2>1, <3>1
  <2>2. CASE j # n
    <3>1. /\ j \in 1..n - 1 /\ L - n + j \in 1..L - 1 /\ Shifted(i, j) \in 1..n
          /\ Shifted(p, L - n + j) = L - n + Shifted(i, j)
          BY <1>2, <1>3, <1>4, <2>2 DEF Shifted
    <3> QED
        BY <1>2, <1>6, <1>7, <3>1
  <2> QED
      BY <2>1, <2>2
<1> QED
    BY <1>1, <1>2, <1>6, <1>7, <1>8 DEF EndOf

\* A key that is not in the cache is stored, the one used longest ago evicted.
LEMMA SetKeepsEnd ==
    ASSUME NEW T, NEW s \in Seq(T), NEW c \in Seq(T), Once(s), NEW size \in Nat,
           NEW room, room = (IF size = 0 THEN 1 ELSE size),
           EndOf(c, s, Least2(Len(s), room)), NEW k \in T, ~Has(c, k)
    PROVE  EndOf(Append(Evicted(c, size), k), Used(s, k), Least2(Len(Used(s, k)), room))
<1>1. PICK L, n, u, e, a : /\ L = Len(s) /\ n = Least2(L, room) /\ u = Used(s, k)
                           /\ e = Evicted(c, size) /\ a = Append(e, k)
      OBVIOUS
<1>2. /\ DOMAIN s = 1..L /\ L \in Nat /\ room \in Nat \ {0}
      BY <1>1
<1>3. /\ n \in Nat /\ n =< L
      /\ (n = L /\ n < room) \/ (n = room)
      BY <1>1, <1>2 DEF Least2
<1>4. DOMAIN c = 1..n /\ Len(c) = n /\ \A j \in 1..n : c[j] = s[L - n + j]
      BY <1>1, <1>3 DEF EndOf
<1>5. /\ n = room => /\ e \in Seq(T) /\ Len(e) = n - 1
                     /\ \A j \in 1..n - 1 : e[j] = c[j + 1]
      /\ n < room => e = c
  <2>1. CASE n = room
    <3>1. e = Tail(c) /\ c # <<>>
          BY <1>1, <1>2, <1>4, <2>1 DEF Evicted
    <3> QED
        BY <1>2, <1>4, <2>1, <3>1
  <2>2. CASE n < room
        BY <1>1, <1>2, <1>4, <2>2 DEF Evicted
  <2> QED
      BY <1>2, <1>3, <2>1, <2>2
<1>6. /\ n = room => /\ Len(a) = n /\ a[n] = k
                     /\ \A j \in 1..n - 1 : a[j] = s[L - n + (j + 1)]
  <2> SUFFICES ASSUME n = room
               PROVE  /\ Len(a) = n /\ a[n] = k
                      /\ \A j \in 1..n - 1 : a[j] = s[L - n + (j + 1)]
      OBVIOUS
  <2>1. /\ Len(e) + 1 = n
        /\ Len(a) = n /\ a[n] = k /\ \A j \in 1..n - 1 : a[j] = e[j]
    <3>1. Len(e) + 1 = n /\ Len(e) = n - 1 /\ e \in Seq(T)
          BY <1>2, <1>5
    <3> QED
        BY <1>1, <3>1, Appended
  <2>2. \A j \in 1..n - 1 : j + 1 \in 1..n
        BY <1>3
  <2> QED
      BY <1>4, <1>5, <2>1, <2>2
<1>7. CASE Has(s, k)
  <2>1. PICK i \in 1..L : s[i] = k
        BY <1>2, <1>7 DEF Has
  <2>2. i =< L - n
    <3> SUFFICES ASSUME i > L - n PROVE FALSE
        BY <1>2, <1>3
    <3>1. PICK j : j = i - (L - n)
          OBVIOUS
    <3>2. j \in 1..n /\ L - n + j = i
          BY <1>2, <1>3, <3>1
    <3> QED
        BY <1>4, <2>1, <3>2 DEF Has
  <2>3. n = room
        BY <1>2, <1>3, <2>2
  <2>4. /\ Len(u) = L /\ u[L] = k
        /\ \A j \in 1..L - 1 : u[j] = s[Shifted(i, j)]
        BY <1>1, <1>2, <2>1, UsedAgain
  <2>5. \A j \in 1..n : a[j] = u[L - n + j]
    <3> TAKE j \in 1..n
    <3>1. CASE j = n
      <4>1. L - n + j = L
            BY <1>2, <1>3, <3>1
      <4>2. a[j] = k
            BY <1>6, <2>3, <3>1
      <4>3. u[L - n + j] = u[L]
            BY <4>1
      <4> QED
          BY <2>4, <4>2, <4>3
    <3>2. CASE j # n
      <4>1. /\ j \in 1..n - 1 /\ L - n + j \in 1..L - 1
            /\ Shifted(i, L - n + j) = L - n + (j + 1)
            BY <1>2, <1>3, <2>2, <3>2 DEF Shifted
      <4>2. a[j] = s[L - n + (j + 1)]
            BY <1>6, <2>3, <4>1
      <4>3. u[L - n + j] = s[Shifted(i, L - n + j)]
            BY <2>4, <4>1
      <4> QED
          BY <4>1, <4>2, <4>3
    <3> QED
        BY <3>1, <3>2
  <2>6. Least2(Len(u), room) = n
        BY <1>1, <2>4
  <2> QED
      BY <1>1, <1>2, <1>3, <1>6, <2>3, <2>4, <2>5, <2>6 DEF EndOf
<1>8. CASE ~Has(s, k)
  <2>1. u = Append(s, k)
        BY <1>1, <1>8 DEF Used, Without
  <2>2. Len(u) = L + 1 /\ u[L + 1] = k /\ \A j \in 1..L : u[j] = s[j]
        BY <1>1, <2>1, Appended
  <2>3. CASE n = room
    <3>1. Least2(Len(u), room) = n
          BY <1>2, <1>3, <2>2, <2>3 DEF Least2
    <3>2. \A j \in 1..n : a[j] = u[L + 1 - n + j]
      <4> TAKE j \in 1..n
      <4>1. CASE j = n
        <5>1. L + 1 - n + n = L + 1
              BY <1>2, <1>3
        <5> QED
            BY <1>6, <2>2, <2>3, <4>1, <5>1
      <4>2. CASE j # n
        <5>1. /\ j \in 1..n - 1 /\ L + 1 - n + j \in 1..L
              /\ L + 1 - n + j = L - n + (j + 1)
              BY <1>2, <1>3, <4>2
        <5> QED
            BY <1>6, <2>2, <2>3, <5>1
      <4> QED
          BY <4>1, <4>2
    <3>3. EndOf(a, u, n)
      <4>1. n \in 0..Len(u) /\ Len(u) - n = L + 1 - n
            BY <1>2, <1>3, <2>2
      <4> QED
          BY <1>6, <2>2, <2>3, <3>2, <4>1 DEF EndOf
    <3> QED
        BY <1>1, <3>1, <3>3
  <2>4. CASE n # room
    <3>1. n = L /\ n < room /\ e = c
          BY <1>2, <1>3, <1>5, <2>4
    <3>2. Least2(Len(u), room) = L + 1
          BY <1>2, <2>2, <3>1 DEF Least2
    <3>3. Len(a) = L + 1 /\ a[L + 1] = k /\ \A j \in 1..L : a[j] = c[j]
          BY <1>1, <1>4, <3>1, Appended
    <3>4. \A j \in 1..L + 1 : a[j] = u[L + 1 - (L + 1) + j]
      <4> TAKE j \in 1..L + 1
      <4>1. L + 1 - (L + 1) + j = j /\ (j = L + 1 \/ j \in 1..L)
            BY <1>2
      <4>2. j \in 1..L => a[j] = s[j]
        <5>1. j \in 1..L => L - n + j = j
              BY <1>2, <3>1
        <5> QED
            BY <1>4, <3>1, <3>3, <5>1
      <4> QED
          BY <2>2, <3>3, <4>1, <4>2
    <3> QED
        BY <1>1, <1>2, <2>2, <3>2, <3>3, <3>4 DEF EndOf
  <2> QED
      BY <2>3, <2>4
<1> QED
    BY <1>7, <1>8

Room == IF load.size = 0 THEN 1 ELSE load.size

\* The cache is the end of the keys used, the one used last being last.
CacheInv ==
    /\ load.size \in Nat
    /\ recent \in Seq(DOMAIN Content)
    /\ cache \in Seq(DOMAIN Content)
    /\ Once(recent)
    /\ EndOf(cache, recent, Least2(Len(recent), Room))

LEMMA CacheTouched ==
    ASSUME CacheInv, NEW k \in DOMAIN Content, recent' = Used(recent, k),
           \/ Has(cache, k) /\ cache' = Used(cache, k)
           \/ ~Has(cache, k) /\ cache' = Append(Evicted(cache, load.size), k),
           UNCHANGED load
    PROVE  CacheInv'
<1>1. /\ recent \in Seq(DOMAIN Content) /\ cache \in Seq(DOMAIN Content)
      /\ load.size \in Nat /\ Once(recent)
      /\ EndOf(cache, recent, Least2(Len(recent), Room))
      BY DEF CacheInv
<1>2. recent' \in Seq(DOMAIN Content) /\ Once(recent')
      BY <1>1, UsedKeys
<1>3. Room' = Room /\ load' = load
      BY DEF Room
<1>4. CASE Has(cache, k) /\ cache' = Used(cache, k)
  <2>1. Once(cache)
        BY <1>1, EndOnce
  <2>2. cache' \in Seq(DOMAIN Content)
        BY <1>1, <1>4, <2>1, UsedKeys
  <2>3. EndOf(cache', recent', Least2(Len(recent), Room)) /\ Len(recent') = Len(recent)
        BY <1>1, <1>4, GetKeepsEnd
  <2>4. EndOf(cache', recent', Least2(Len(recent'), Room'))
        BY <1>3, <2>3
  <2> QED
      BY <1>1, <1>2, <1>3, <2>2, <2>4 DEF CacheInv, EndOf, Least2
<1>5. CASE ~Has(cache, k) /\ cache' = Append(Evicted(cache, load.size), k)
  <2>1. Evicted(cache, load.size) \in Seq(DOMAIN Content)
    <3>1. cache # <<>> => Tail(cache) \in Seq(DOMAIN Content)
          BY <1>1
    <3> QED
        BY <1>1, <3>1 DEF Evicted
  <2>2. cache' \in Seq(DOMAIN Content)
        BY <1>5, <2>1
  <2>3. EndOf(cache', recent', Least2(Len(recent'), Room'))
    <3>1. Room' = (IF load.size = 0 THEN 1 ELSE load.size)
          BY <1>3 DEF Room
    <3>2. EndOf(cache, recent, Least2(Len(recent), Room'))
          BY <1>1, <1>3
    <3> QED
        BY <1>1, <1>5, <3>1, <3>2, SetKeepsEnd
  <2> QED
      BY <1>1, <1>2, <1>3, <2>2, <2>3 DEF CacheInv, EndOf, Least2
<1> QED
    BY <1>4, <1>5

LEMMA CacheStays == CacheInv /\ UNCHANGED <<cache, recent, load>> => CacheInv'
    BY DEF CacheInv, EndOf, Once, Least2, Room

LEMMA CacheStep ==
    ASSUME CacheInv, [LookupNext]_lookupVars
    PROVE  CacheInv'
<1>1. ASSUME NEW x, NEW i, ReadRecord(x, i)
      PROVE  CacheInv'
  <2>1. PICK r : r = verificationRecords[reader[x].hashes[i]]
        OBVIOUS
  <2>2. /\ load' = load
        /\ \/ UNCHANGED <<cache, recent>>
           \/ /\ Served(r) /\ Has(cache, r.payload.cid)
              /\ cache' = Get(cache, r.payload.cid)
              /\ recent' = Append(Without(recent, r.payload.cid), r.payload.cid)
        BY <1>1, <2>1 DEF ReadRecord, Becomes
  <2>3. CASE UNCHANGED <<cache, recent>>
        BY <2>2, <2>3, CacheStays
  <2>4. CASE /\ Served(r) /\ Has(cache, r.payload.cid)
             /\ cache' = Get(cache, r.payload.cid)
             /\ recent' = Append(Without(recent, r.payload.cid), r.payload.cid)
    <3>1. r.payload.cid \in DOMAIN Content
          BY <2>4 DEF Served
    <3>2. cache' = Used(cache, r.payload.cid) /\ recent' = Used(recent, r.payload.cid)
          BY <2>4 DEF Get, Used
    <3> QED
        BY <2>2, <2>4, <3>1, <3>2, CacheTouched
  <2> QED
      BY <2>2, <2>3, <2>4
<1>2. ASSUME NEW x, NEW i, Fetched(x, i)
      PROVE  CacheInv'
  <2>1. PICK r : r = reader[x].proofs[i].record
        OBVIOUS
  <2>2. /\ load' = load
        /\ \/ UNCHANGED <<cache, recent>>
           \/ /\ Served(r)
              /\ cache' = Set(cache, r.payload.cid, load.size)
              /\ recent' = Append(Without(recent, r.payload.cid), r.payload.cid)
        BY <1>2, <2>1 DEF Fetched, Becomes
  <2>3. CASE UNCHANGED <<cache, recent>>
        BY <2>2, <2>3, CacheStays
  <2>4. CASE /\ Served(r)
             /\ cache' = Set(cache, r.payload.cid, load.size)
             /\ recent' = Append(Without(recent, r.payload.cid), r.payload.cid)
    <3>1. r.payload.cid \in DOMAIN Content
          BY <2>4 DEF Served
    <3>2. /\ recent' = Used(recent, r.payload.cid)
          /\ \/ Has(cache, r.payload.cid) /\ cache' = Used(cache, r.payload.cid)
             \/ /\ ~Has(cache, r.payload.cid)
                /\ cache' = Append(Evicted(cache, load.size), r.payload.cid)
          BY <2>4 DEF Set, Used
    <3> QED
        BY <2>2, <3>1, <3>2, CacheTouched
  <2> QED
      BY <2>2, <2>3, <2>4
<1>3. ASSUME NEW x, Read(x)
      PROVE  CacheInv'
  <2>1. CASE \/ \E k \in Kind \cap load.kinds, c \in CodeHash : Ask(x, k, c)
             \/ "proof" \in load.kinds /\ \E p \in ProofHash : AskProof(x, p)
             \/ \E c \in AnyCode : ReadCode(x, c)
             \/ ReadHashes(x)
             \/ ReadChains(x)
             \/ \E i \in DOMAIN reader[x].chains : ReadDeployments(x, i)
             \/ \E i \in DOMAIN reader[x].proofs : RecordMissing(x, i)
             \/ RequestFails(x)
    <3>1. UNCHANGED <<cache, recent, load>>
          BY <2>1 DEF Ask, AskProof, ReadCode, ReadHashes, ReadChains, ReadDeployments,
                      RecordMissing, RequestFails, Becomes
    <3> QED
        BY <3>1, CacheStays
  <2> QED
      BY <1>1, <1>2, <1>3, <2>1 DEF Read
<1>4. CASE UNCHANGED lookupVars
      BY <1>4, CacheStays DEF lookupVars, lookupOnly
<1>5. CASE Next /\ UNCHANGED lookupOnly
      BY <1>5, CacheStays DEF lookupOnly
<1> QED
    BY <1>3, <1>4, <1>5 DEF LookupNext

\* Whatever is looked up, hit or missed together, in a cache of any size: it
\* holds the payloads used last.
THEOREM CacheKeepsRecent == LookupSpec => []RecentlyUsedKept
<1>1. LookupInit => CacheInv
  <2> SUFFICES ASSUME LookupInit PROVE CacheInv
      OBVIOUS
  <2>1. cache = <<>> /\ recent = <<>> /\ load.size \in Nat
        BY LookupAssumption DEF LookupInit, LookupAssumption
  <2>2. Room \in Nat
        BY <2>1 DEF Room
  <2>3. Least2(Len(recent), Room) = 0
        BY <2>1, <2>2 DEF Least2, Room
  <2>4. EndOf(cache, recent, 0)
        BY <2>1 DEF EndOf
  <2> QED
      BY <2>1, <2>3, <2>4 DEF CacheInv, Once
<1>2. CacheInv /\ [LookupNext]_lookupVars => CacheInv'
      BY CacheStep
<1>3. CacheInv => RecentlyUsedKept
  <2> SUFFICES ASSUME CacheInv PROVE RecentlyUsedKept
      OBVIOUS
  <2>1. PICK L, n, s, c : /\ L = Len(recent) /\ n = Least2(L, Room)
                          /\ s = recent /\ c = cache
        OBVIOUS
  <2>2. /\ s \in Seq(DOMAIN Content) /\ c \in Seq(DOMAIN Content) /\ L = Len(s) /\ L \in Nat
        /\ Room \in Nat /\ EndOf(c, s, n)
        BY <2>1 DEF CacheInv, Room
  <2>3. n \in 0..L /\ Len(c) = n /\ \A j \in 1..n : c[j] = s[L - n + j]
        BY <2>2 DEF EndOf
  <2>4. n = IF L < Room THEN L ELSE Room
        BY <2>1 DEF Least2
  <2>5. PICK d : d = SubSeq(s, L - n + 1, L)
        OBVIOUS
  <2>6. /\ d \in Seq(DOMAIN Content) /\ Len(d) = n
        /\ \A j \in 1..n : d[j] = s[L - n + j]
    <3>1. PICK m : m = L - n + 1
          OBVIOUS
    <3>2. m \in 1..L + 1 /\ L \in m - 1..L /\ L - m + 1 = n
          BY <2>2, <2>3, <3>1
    <3>3. /\ d \in Seq(DOMAIN Content) /\ Len(d) = n
          /\ \A j \in 1..n : d[j] = s[m + j - 1]
      <4>1. m \in Int /\ L \in Int /\ \A i \in m..L : s[i] \in DOMAIN Content
            BY <2>2, <3>2
      <4>2. /\ SubSeq(s, m, L) \in Seq(DOMAIN Content)
            /\ Len(SubSeq(s, m, L)) = IF m =< L THEN L - m + 1 ELSE 0
            /\ \A j \in 1..L - m + 1 : SubSeq(s, m, L)[j] = s[m + j - 1]
            BY <4>1, SubSeqProperties
      <4>3. d = SubSeq(s, m, L) /\ (IF m =< L THEN L - m + 1 ELSE 0) = n
            BY <2>2, <2>3, <2>5, <3>1, <3>2
      <4> QED
          BY <3>2, <4>2, <4>3
    <3>4. \A j \in 1..n : m + j - 1 = L - n + j
          BY <2>2, <2>3, <3>1
    <3> QED
        BY <3>3, <3>4
  <2>7. c = d
        BY <2>2, <2>3, <2>6
  <2> QED
      BY <2>1, <2>4, <2>5, <2>7 DEF RecentlyUsedKept, Room
<1> QED
    BY <1>1, <1>2, <1>3, PTL DEF LookupSpec

-----------------------------------------------------------------------------
(* Webhooks: subscriptions *)

\* Those who subscribed and did not unsubscribe are the map's entries: no id is
\* given twice.
Enrolment ==
    /\ counter \in Nat
    /\ IsFiniteSet(DOMAIN subscribers)
    /\ DOMAIN subscribers \subseteq 1..counter
    /\ \A s \in enrolled : s.id \in DOMAIN subscribers /\ s.events = subscribers[s.id]
    /\ \A i \in DOMAIN subscribers : \E s \in enrolled : s.id = i
    /\ \A s, u \in enrolled : s.id = u.id => s = u

LEMMA SubscribeEnrols ==
    ASSUME Enrolment, NEW events, Subscribe(events)
    PROVE  Enrolment'
<1> DEFINE n == counter + 1
           new == [nth |-> n, id |-> n, events |-> events]
<1>1. /\ counter' = n /\ counter \in Nat
      /\ subscribers' = [i \in DOMAIN subscribers \cup {n} |->
                            IF i = n THEN events ELSE subscribers[i]]
      /\ enrolled' = enrolled \cup {new}
      BY DEF Subscribe, NextId, Enrolment
<1>2. n \notin DOMAIN subscribers /\ n \in Nat
      BY <1>1 DEF Enrolment
<1>3. /\ DOMAIN subscribers' = DOMAIN subscribers \cup {n}
      /\ subscribers'[n] = events
      /\ \A i \in DOMAIN subscribers : subscribers'[i] = subscribers[i]
      BY <1>1, <1>2
<1>4. new.id = n /\ new.events = events
      OBVIOUS
<1> HIDE DEF new
<1>5. IsFiniteSet(DOMAIN subscribers')
      BY <1>3, FS_AddElement DEF Enrolment
<1>6. DOMAIN subscribers' \subseteq 1..counter'
      BY <1>1, <1>3 DEF Enrolment
<1>7. \A s \in enrolled' : s.id \in DOMAIN subscribers' /\ s.events = subscribers'[s.id]
      BY <1>1, <1>3, <1>4 DEF Enrolment
<1>8. \A i \in DOMAIN subscribers' : \E s \in enrolled' : s.id = i
      BY <1>1, <1>3, <1>4 DEF Enrolment
<1>9. \A s, u \in enrolled' : s.id = u.id => s = u
      BY <1>1, <1>2, <1>4 DEF Enrolment
<1> QED
    BY <1>1, <1>2, <1>5, <1>6, <1>7, <1>8, <1>9 DEF Enrolment

LEMMA UnsubscribeEnrols ==
    ASSUME Enrolment, NEW id, Unsubscribe(id)
    PROVE  Enrolment'
<1>1. /\ counter' = counter
      /\ DOMAIN subscribers' = DOMAIN subscribers \ {id}
      /\ \A i \in DOMAIN subscribers' : subscribers'[i] = subscribers[i]
      /\ enrolled' = {s \in enrolled : s.id # id}
      BY DEF Unsubscribe
<1>2. IsFiniteSet(DOMAIN subscribers')
      BY <1>1, FS_Subset DEF Enrolment
<1> QED
    BY <1>1, <1>2 DEF Enrolment

\* A dispatch targets as many as are enrolled for its event.
LEMMA TargetsAreEnrolled ==
    ASSUME Enrolment, NEW event
    PROVE  /\ IsFiniteSet(Targets(event))
           /\ Cardinality(Targets(event)) =
                 Cardinality({s \in enrolled : event \in s.events})
<1> DEFINE S == {s \in enrolled : event \in s.events}
           T == Targets(event)
           f == [s \in S |-> s.id]
<1>1. IsFiniteSet(T)
      BY FS_Subset DEF Enrolment, Targets
<1>2. \A s \in S : f[s] \in T
      BY DEF Enrolment, Targets
<1>3. \A s, u \in S : f[s] = f[u] => s = u
      BY DEF Enrolment
<1>4. \A i \in T : \E s \in S : f[s] = i
      BY DEF Enrolment, Targets
<1>5. f \in [S -> T]
      BY <1>2
<1> HIDE DEF f, S, T
<1>6. f \in Bijection(S, T)
      BY <1>3, <1>4, <1>5 DEF Bijection, Injection, Surjection, IsInjective
<1>7. ExistsBijection(S, T)
      BY <1>6 DEF ExistsBijection
<1> QED
    BY <1>1, <1>7, FS_Bijection, Fun_ExistsBijSymmetric DEF S, T

-----------------------------------------------------------------------------
(* Webhooks: the deliveries of a dispatch *)

DeliveryState ==
    [over : BOOLEAN, replies : Seq(Reply), success : BOOLEAN, attempts : Nat]

\* One loop: until it is over every reply called for a retry.
DeliverySound(d) ==
    LET n == Len(d.replies)
    IN  /\ n =< MaxRetries + 1
        /\ ~d.over => ~d.success /\ n =< MaxRetries /\ ~Got(d, {"ok", "client"})
        /\ \A m \in 1..n - 1 : d.replies[m] \in {"busy", "none"}
        /\ d.over <=> Got(d, {"ok", "client"}) \/ n = MaxRetries + 1
        /\ d.success <=> Got(d, {"ok"})
        /\ d.over => d.attempts = n \/ Got(d, {"client"})

LEMMA FreshIsSound == Fresh \in DeliveryState /\ DeliverySound(Fresh)
<1>1. Fresh \in DeliveryState /\ Fresh.replies = <<>>
      BY DEF Fresh, DeliveryState
<1>2. \A replies : ~Got(Fresh, replies)
      BY <1>1 DEF Got
<1>3. Len(Fresh.replies) = 0 /\ 1..0 - 1 = {}
      BY <1>1
<1> QED
    BY <1>1, <1>2, <1>3, WebhookAssumption DEF DeliverySound, Fresh

\* A turn of the loop.
LEMMA AttemptSound ==
    ASSUME NEW d \in DeliveryState, DeliverySound(d), ~d.over, NEW reply \in Reply,
           NEW e, e = LET n == Len(d.replies) + 1
                          failed == GivesUp(reply) \/ n = MaxRetries + 1
                      IN  [over |-> reply = "ok" \/ failed,
                           replies |-> Append(d.replies, reply),
                           success |-> reply = "ok",
                           attempts |-> IF reply = "ok" THEN n
                                        ELSE IF failed THEN MaxRetries + 1 ELSE 0]
    PROVE  e \in DeliveryState /\ DeliverySound(e)
<1> DEFINE n == Len(d.replies) + 1
           failed == GivesUp(reply) \/ n = MaxRetries + 1
<1>1. d.replies \in Seq(Reply) /\ Len(d.replies) \in Nat /\ MaxRetries \in Nat
      BY WebhookAssumption DEF DeliveryState
<1>2. /\ Append(d.replies, reply) \in Seq(Reply)
      /\ Len(Append(d.replies, reply)) = n /\ n \in Nat /\ n - 1 = Len(d.replies)
      /\ DOMAIN Append(d.replies, reply) = 1..n
      /\ Append(d.replies, reply)[n] = reply
      /\ \A m \in 1..n - 1 : Append(d.replies, reply)[m] = d.replies[m]
      BY <1>1
<1>3. /\ e.over = (reply = "ok" \/ failed) /\ e.replies = Append(d.replies, reply)
      /\ e.success = (reply = "ok")
      /\ e.attempts = (IF reply = "ok" THEN n ELSE IF failed THEN MaxRetries + 1 ELSE 0)
      OBVIOUS
<1>4. e \in DeliveryState
      BY <1>1, <1>2 DEF DeliveryState
<1>5. n - 1 =< MaxRetries /\ \A m \in 1..n - 1 : d.replies[m] \in {"busy", "none"}
  <2>1. ~Got(d, {"ok", "client"}) /\ Len(d.replies) =< MaxRetries
        BY DEF DeliverySound
  <2>2. \A m \in 1..n - 1 : m \in DOMAIN d.replies /\ d.replies[m] \in Reply
        BY <1>1, <1>2
  <2> QED
      BY <1>2, <2>1, <2>2 DEF Got, Reply
<1> HIDE DEF n, failed
<1>6. /\ n =< MaxRetries + 1
      /\ \A m \in 1..n - 1 : e.replies[m] \in {"busy", "none"}
      /\ DOMAIN e.replies = 1..n /\ e.replies[n] = reply
      BY <1>1, <1>2, <1>3, <1>5
<1>7. \A replies \in {{"ok"}, {"client"}, {"ok", "client"}} : Got(e, replies) <=> reply \in replies
  <2>1. \A m \in 1..n : m = n \/ m \in 1..n - 1
        BY <1>2
  <2>2. n \in 1..n
        BY <1>1, <1>2 DEF n
  <2> QED
      BY <1>6, <2>1, <2>2 DEF Got
<1>8. e.over <=> reply \in {"ok", "client"} \/ n = MaxRetries + 1
      BY <1>3 DEF failed, GivesUp
<1>9. e.over => e.attempts = n \/ reply = "client"
      BY <1>3, <1>8 DEF failed, GivesUp
<1>10. ~e.over => n =< MaxRetries
       BY <1>1, <1>2, <1>6, <1>8
<1>11. Len(e.replies) = n
       BY <1>2, <1>3
<1> QED
    BY <1>3, <1>4, <1>6, <1>7, <1>8, <1>9, <1>10, <1>11 DEF DeliverySound

\* The deliveries of a dispatch are as many as were enrolled when it began.
DispatchCounted ==
    /\ owed \in Seq(Nat)
    /\ \A k \in DOMAIN deliveries : k[1] \in 1..Len(owed)
    /\ \A n \in 1..Len(owed) : Cardinality({k \in DOMAIN deliveries : k[1] = n}) = owed[n]

DeliveriesSound ==
    \A k \in DOMAIN deliveries : deliveries[k] \in DeliveryState /\ DeliverySound(deliveries[k])

HookInv == Enrolment /\ DispatchCounted /\ DeliveriesSound

LEMMA DispatchStep ==
    ASSUME HookInv, NEW event, Dispatch(event)
    PROVE  HookInv'
<1> DEFINE d == Len(owed) + 1
           new == {<<d, i>> : i \in Targets(event)}
           m == Cardinality({s \in enrolled : event \in s.events})
<1>1. /\ deliveries' = [k \in DOMAIN deliveries \cup new |->
                           IF k \in new THEN Fresh ELSE deliveries[k]]
      /\ owed' = Append(owed, m)
      /\ UNCHANGED <<subscribers, counter, enrolled>>
      BY DEF Dispatch
<1>2. Enrolment'
      BY <1>1 DEF HookInv, Enrolment
<1>3. /\ IsFiniteSet(Targets(event)) /\ Cardinality(Targets(event)) = m /\ m \in Nat
      BY TargetsAreEnrolled, FS_CardinalityType DEF HookInv
<1> HIDE DEF m
<1>4. /\ owed \in Seq(Nat) /\ Len(owed) \in Nat /\ owed' \in Seq(Nat) /\ Len(owed') = d
      /\ owed'[d] = m /\ \A n \in 1..Len(owed) : owed'[n] = owed[n]
      BY <1>1, <1>3 DEF HookInv, DispatchCounted
<1>5. \A k \in new : k[1] = d
      OBVIOUS
<1>6. Cardinality(new) = m
  <2> DEFINE f == [i \in Targets(event) |-> <<d, i>>]
  <2>1. f \in [Targets(event) -> new]
        OBVIOUS
  <2>2. \A i, j \in Targets(event) : f[i] = f[j] => i = j
        OBVIOUS
  <2>3. \A k \in new : \E i \in Targets(event) : f[i] = k
        OBVIOUS
  <2> HIDE DEF f, new
  <2>4. f \in Bijection(Targets(event), new)
        BY <2>1, <2>2, <2>3 DEF Bijection, Injection, Surjection, IsInjective
  <2>5. ExistsBijection(Targets(event), new)
        BY <2>4 DEF ExistsBijection
  <2> QED
      BY <1>3, <2>5, FS_Bijection
<1> HIDE DEF new
<1>7. /\ DOMAIN deliveries' = DOMAIN deliveries \cup new
      /\ \A k \in new : deliveries'[k] = Fresh
      /\ \A k \in DOMAIN deliveries : k \notin new => deliveries'[k] = deliveries[k]
      BY <1>1
<1>8. \A k \in DOMAIN deliveries : k[1] \in 1..Len(owed) /\ k[1] # d
      BY <1>4 DEF HookInv, DispatchCounted
<1>9. \A k \in DOMAIN deliveries' : k[1] \in 1..d
      BY <1>4, <1>5, <1>7, <1>8
<1>10. ASSUME NEW n \in 1..d
       PROVE  Cardinality({k \in DOMAIN deliveries' : k[1] = n}) = owed'[n]
  <2>1. CASE n = d
    <3>1. {k \in DOMAIN deliveries' : k[1] = n} = new
          BY <1>5, <1>7, <1>8, <2>1
    <3> QED
        BY <1>4, <1>6, <2>1, <3>1
  <2>2. CASE n # d
    <3>1. {k \in DOMAIN deliveries' : k[1] = n} = {k \in DOMAIN deliveries : k[1] = n}
          BY <1>5, <1>7, <2>2
    <3>2. n \in 1..Len(owed)
          BY <1>4, <2>2
    <3> QED
        BY <1>4, <3>1, <3>2 DEF HookInv, DispatchCounted
  <2> QED
      BY <2>1, <2>2
<1>11. DispatchCounted'
       BY <1>4, <1>9, <1>10 DEF DispatchCounted
<1>12. DeliveriesSound'
  <2> SUFFICES ASSUME NEW k \in DOMAIN deliveries'
               PROVE  deliveries'[k] \in DeliveryState /\ DeliverySound(deliveries'[k])
      BY DEF DeliveriesSound, DeliverySound, Got
  <2> QED
      BY <1>7, FreshIsSound DEF HookInv, DeliveriesSound
<1> QED
    BY <1>2, <1>11, <1>12 DEF HookInv

LEMMA AttemptStep ==
    ASSUME HookInv, NEW k \in DOMAIN deliveries, NEW reply \in Reply, Attempt(k, reply)
    PROVE  HookInv'
<1> DEFINE d == deliveries[k]
<1>1. PICK e : /\ deliveries' = [deliveries EXCEPT ![k] = e]
               /\ e \in DeliveryState /\ DeliverySound(e)
  <2>1. d \in DeliveryState /\ DeliverySound(d) /\ ~d.over
        BY DEF Attempt, HookInv, DeliveriesSound
  <2> HIDE DEF d
  <2> DEFINE n == Len(d.replies) + 1
             failed == GivesUp(reply) \/ n = MaxRetries + 1
             e == [over |-> reply = "ok" \/ failed,
                   replies |-> Append(d.replies, reply),
                   success |-> reply = "ok",
                   attempts |-> IF reply = "ok" THEN n
                                ELSE IF failed THEN MaxRetries + 1 ELSE 0]
  <2>3. e \in DeliveryState /\ DeliverySound(e)
        BY <2>1, AttemptSound
  <2>4. deliveries' = [deliveries EXCEPT ![k] = e]
        BY DEF Attempt, d
  <2> HIDE DEF e
  <2> QED
      BY <2>3, <2>4
<1>2. UNCHANGED <<subscribers, counter, enrolled, owed>>
      BY DEF Attempt
<1>3. /\ DOMAIN deliveries' = DOMAIN deliveries
      /\ deliveries'[k] = e
      /\ \A j \in DOMAIN deliveries : j # k => deliveries'[j] = deliveries[j]
      BY <1>1
<1>4. Enrolment' /\ DispatchCounted'
      BY <1>2, <1>3 DEF HookInv, Enrolment, DispatchCounted
<1>5. DeliveriesSound'
  <2> SUFFICES ASSUME NEW j \in DOMAIN deliveries'
               PROVE  deliveries'[j] \in DeliveryState /\ DeliverySound(deliveries'[j])
      BY DEF DeliveriesSound, DeliverySound, Got
  <2> QED
      BY <1>1, <1>3 DEF HookInv, DeliveriesSound
<1> QED
    BY <1>4, <1>5 DEF HookInv

\* A dispatch owes one delivery to each subscription of its moment; a delivery
\* repeats its request only after a reply that leaves it open, ends at the first
\* that settles it, and reports what it did, for every number of retries
\* (webhooks.ts:66-141).
THEOREM DispatchesAreExplained == HookSpec => []DispatchExplained
<1>1. HookInit => HookInv
  <2> SUFFICES ASSUME HookInit PROVE HookInv
      OBVIOUS
  <2>1. DOMAIN subscribers = {} /\ DOMAIN deliveries = {} /\ owed = <<>>
        BY DEF HookInit
  <2> QED
      BY <2>1, FS_EmptySet
      DEF HookInit, HookInv, Enrolment, DispatchCounted, DeliveriesSound
<1>2. HookInv /\ [HookNext]_hookVars => HookInv'
  <2> SUFFICES ASSUME HookInv, [HookNext]_hookVars
               PROVE  HookInv'
      OBVIOUS
  <2>1. ASSUME NEW events, Subscribe(events)
        PROVE  HookInv'
    <3>1. UNCHANGED <<deliveries, owed>> /\ Enrolment'
          BY <2>1, SubscribeEnrols DEF HookInv, Subscribe
    <3> QED
        BY <3>1 DEF HookInv, DispatchCounted, DeliveriesSound, DeliverySound, Got
  <2>2. ASSUME NEW id, Unsubscribe(id)
        PROVE  HookInv'
    <3>1. UNCHANGED <<deliveries, owed>> /\ Enrolment'
          BY <2>2, UnsubscribeEnrols DEF HookInv, Unsubscribe
    <3> QED
        BY <3>1 DEF HookInv, DispatchCounted, DeliveriesSound, DeliverySound, Got
  <2>3. CASE UNCHANGED hookVars
    <3>1. UNCHANGED <<subscribers, counter, deliveries, enrolled, owed>>
          BY <2>3 DEF hookVars
    <3>2. Enrolment'
          BY <3>1 DEF HookInv, Enrolment
    <3>3. DispatchCounted'
          BY <3>1 DEF HookInv, DispatchCounted
    <3>4. DeliveriesSound'
          BY <3>1 DEF HookInv, DeliveriesSound, DeliverySound, Got
    <3> QED
        BY <3>2, <3>3, <3>4 DEF HookInv
  <2>4. ASSUME NEW event, Dispatch(event)
        PROVE  HookInv'
        BY <2>4, DispatchStep
  <2>5. ASSUME NEW k \in DOMAIN deliveries, NEW reply \in Reply, Attempt(k, reply)
        PROVE  HookInv'
        BY <2>5, AttemptStep
  <2> QED
      BY <2>1, <2>2, <2>3, <2>4, <2>5 DEF HookNext
<1>3. HookInv => DispatchExplained
  <2> SUFFICES ASSUME HookInv PROVE DispatchExplained
      OBVIOUS
  <2>1. DOMAIN owed = 1..Len(owed)
        BY DEF HookInv, DispatchCounted
  <2> QED
      BY <2>1 DEF HookInv, DispatchCounted, DeliveriesSound, DeliverySound, DispatchExplained
<1> QED
    BY <1>1, <1>2, <1>3, PTL DEF HookSpec

-----------------------------------------------------------------------------
(* The rate limit *)

Request == [time : Nat, passed : BOOLEAN, retryAt : Int]

RateTypes ==
    /\ clock \in Nat
    /\ hits \in [DOMAIN hits -> [count : Nat, resetAt : Int]]
    /\ asked \in [Client -> Seq(Request)]

\* The end of the last window that held a request of x, as far as it is known.
Turn(x) == IF x \in DOMAIN hits THEN hits[x].resetAt ELSE clock

\* The window of x is open.
Open(x) == x \in DOMAIN hits /\ hits[x].resetAt > clock

\* Of a sequence of requests, those from a up to but not b, and those that passed.
Arrived(s, a, b) == {n \in DOMAIN s : a =< s[n].time /\ s[n].time < b}
LetThrough(s, a, b) == {n \in Arrived(s, a, b) : s[n].passed}

\* The last window of x holds every request since it opened, the one before it
\* those of the interval before that which passed; an open one counts its own.
WindowInv(x) ==
    /\ \A n \in DOMAIN asked[x] : asked[x][n].time < Turn(x) /\ asked[x][n].time =< clock
    /\ Cardinality(LetThrough(asked[x], Turn(x) - WindowMs, Turn(x))) =< MaxRequests
    /\ Open(x) =>
          /\ Turn(x) - WindowMs =< clock
          /\ hits[x].count = Cardinality(Arrived(asked[x], Turn(x) - WindowMs, Turn(x)))
          /\ Cardinality(LetThrough(asked[x], Turn(x) - 2 * WindowMs, Turn(x) - WindowMs)) =< MaxRequests
          /\ \A n \in DOMAIN asked[x] :
                n = Len(asked[x]) /\ ~asked[x][n].passed => asked[x][n].retryAt >= Turn(x)

\* The three promises of RateFair for one client, and over any interval.
RefusedWithCause(x) ==
    \A n \in DOMAIN asked[x] :
        ~asked[x][n].passed =>
           Cardinality(Within(x, 1..n, asked[x][n].time - WindowMs + 1,
                              asked[x][n].time + 1)) > MaxRequests

TwiceAtMost(x) ==
    \A t \in Int : Cardinality(LetThrough(asked[x], t, t + WindowMs)) =< 2 * MaxRequests

ServedInTime(x) ==
    \A n \in 2..Len(asked[x]) :
        ~asked[x][n - 1].passed /\ asked[x][n - 1].retryAt =< asked[x][n].time =>
           asked[x][n].passed

Fair(x) == RefusedWithCause(x) /\ TwiceAtMost(x) /\ ServedInTime(x)

RateInv == RateTypes /\ \A x \in Client : WindowInv(x) /\ Fair(x)

LEMMA RateConstants ==
    /\ WindowMs \in Nat /\ WindowMs > 0
    /\ MaxRequests \in Nat /\ MaxRequests > 0
    /\ Second \in Nat /\ Second > 0
BY RateAssumption

LEMMA RequestFields ==
    ASSUME NEW s \in Seq(Request)
    PROVE  /\ Len(s) \in Nat /\ DOMAIN s = 1..Len(s)
           /\ \A n \in DOMAIN s :
                 s[n].time \in Nat /\ s[n].passed \in BOOLEAN /\ s[n].retryAt \in Int
<1>1. \A r \in Request : r.time \in Nat /\ r.passed \in BOOLEAN /\ r.retryAt \in Int
      BY DEF Request
<1> QED
    BY <1>1

LEMMA ArrivedIsFinite ==
    ASSUME NEW s \in Seq(Request), NEW S \in SUBSET (DOMAIN s)
    PROVE  IsFiniteSet(S) /\ Cardinality(S) \in Nat
<1>1. IsFiniteSet(1..Len(s)) /\ DOMAIN s = 1..Len(s)
      BY FS_Interval
<1>2. IsFiniteSet(S)
      BY <1>1, FS_Subset
<1> QED
    BY <1>2, FS_CardinalityType

LEMMA FewerLetThrough ==
    ASSUME NEW s \in Seq(Request), NEW S \in SUBSET (DOMAIN s), NEW T \in SUBSET S,
           NEW n \in Int, Cardinality(S) =< n
    PROVE  Cardinality(T) =< n
<1>1. IsFiniteSet(S) /\ Cardinality(S) \in Nat /\ Cardinality(T) \in Nat
      BY ArrivedIsFinite
<1>2. Cardinality(T) =< Cardinality(S)
      BY <1>1, FS_Subset
<1> QED
    BY <1>1, <1>2

\* One more request counts where it falls.
LEMMA OneMore ==
    ASSUME NEW s \in Seq(Request), NEW e \in Request, NEW a \in Int, NEW b \in Int
    PROVE  LET t == Append(s, e)
               falls == a =< e.time /\ e.time < b
           IN  /\ falls => Cardinality(Arrived(t, a, b)) = Cardinality(Arrived(s, a, b)) + 1
               /\ ~falls \/ ~e.passed => LetThrough(t, a, b) = LetThrough(s, a, b)
<1> DEFINE N == Len(s) + 1
           t == Append(s, e)
           falls == a =< e.time /\ e.time < b
<1>1. /\ DOMAIN t = 1..N /\ DOMAIN s = 1..Len(s) /\ Len(s) \in Nat /\ N \notin DOMAIN s
      /\ t[N] = e /\ \A n \in DOMAIN s : t[n] = s[n]
      /\ \A n \in 1..N : n \in DOMAIN s \/ n = N
      /\ \A n \in DOMAIN s : n \in 1..N /\ N \in 1..N
      OBVIOUS
<1>2. N \in 1..N
      BY <1>1
<1> HIDE DEF t, N
<1>3. \A n : n \in Arrived(t, a, b) <=> n \in Arrived(s, a, b) \/ (n = N /\ falls)
      BY <1>1, <1>2 DEF Arrived
<1>4. ASSUME falls PROVE Cardinality(Arrived(t, a, b)) = Cardinality(Arrived(s, a, b)) + 1
  <2>1. IsFiniteSet(Arrived(s, a, b)) /\ N \notin Arrived(s, a, b)
        BY <1>1, ArrivedIsFinite DEF Arrived
  <2>2. Arrived(t, a, b) = Arrived(s, a, b) \cup {N}
        BY <1>3, <1>4
  <2> QED
      BY <2>1, <2>2, FS_AddElement
<1>5. ASSUME ~falls \/ ~e.passed PROVE LetThrough(t, a, b) = LetThrough(s, a, b)
  <2>1. \A n \in Arrived(s, a, b) : t[n] = s[n]
        BY <1>1 DEF Arrived
  <2>2. \A n : n \in LetThrough(t, a, b) <=> n \in LetThrough(s, a, b)
        BY <1>1, <1>3, <1>5, <2>1 DEF LetThrough
  <2> QED
      BY <2>2 DEF LetThrough
<1> QED
    BY <1>4, <1>5 DEF t

LEMMA RequestTyped ==
    ASSUME RateTypes, NEW x \in Client
    PROVE  /\ asked[x] \in Seq(Request)
           /\ Len(asked[x]) \in Nat
           /\ DOMAIN asked[x] = 1..Len(asked[x])
           /\ \A n \in DOMAIN asked[x] :
                 asked[x][n].time \in Nat /\ asked[x][n].passed \in BOOLEAN
                 /\ asked[x][n].retryAt \in Int
<1>1. asked[x] \in Seq(Request)
      BY DEF RateTypes
<1> QED
    BY <1>1, RequestFields

\* Seconds rounded up are long enough.
LEMMA RoundedUp ==
    ASSUME NEW n \in Int, NEW k \in Nat, k > 0
    PROVE  k * ((n + k - 1) \div k) >= n
<1> DEFINE q == (n + k - 1) \div k
           r == (n + k - 1) % k
<1>1. n + k - 1 = k * q + r /\ r \in 0..k-1 /\ q \in Int
      OBVIOUS
<1> HIDE DEF q, r
<1>2. k * q \in Int
      BY <1>1
<1> QED
    BY <1>1, <1>2 DEF q

\* The others' requests, and the timers of others, are nothing to a client.
LEMMA WindowStays ==
    ASSUME RateTypes, NEW x \in Client, WindowInv(x), asked'[x] = asked[x], clock' = clock,
           x \in DOMAIN hits' <=> x \in DOMAIN hits,
           x \in DOMAIN hits => hits'[x] = hits[x]
    PROVE  WindowInv(x)'
<1>1. Turn(x)' = Turn(x) /\ (Open(x)' <=> Open(x)) /\ (Open(x) => hits'[x].count = hits[x].count)
      BY DEF Turn, Open
<1> QED
    BY <1>1 DEF WindowInv

LEMMA FairStays ==
    ASSUME NEW x \in Client, Fair(x), asked'[x] = asked[x] PROVE Fair(x)'
BY DEF Fair, RefusedWithCause, TwiceAtMost, ServedInTime, Within

LEMMA ElapseKeeps == RateInv /\ Elapse => RateInv'
<1> SUFFICES ASSUME RateInv, Elapse PROVE RateInv'
    OBVIOUS
<1>1. RateTypes /\ RateTypes' /\ clock' = clock + 1 /\ clock \in Nat /\ UNCHANGED <<hits, asked>>
      BY DEF RateInv, RateTypes, Elapse
<1>2. ASSUME NEW x \in Client PROVE WindowInv(x)'
  <2> DEFINE s == asked[x]
  <2>1. /\ WindowInv(x) /\ asked'[x] = s /\ s \in Seq(Request)
        /\ \A n \in DOMAIN s : s[n].time \in Nat
        BY <1>1, RequestTyped DEF RateInv
  <2>2. CASE x \in DOMAIN hits
    <3>1. Turn(x)' = Turn(x) /\ (Open(x)' => Open(x)) /\ Turn(x) \in Int
          BY <1>1, <2>2 DEF Turn, Open, RateTypes
    <3> QED
        BY <1>1, <2>1, <3>1, RateConstants DEF WindowInv
  <2>3. CASE x \notin DOMAIN hits
    <3>1. Turn(x) = clock /\ Turn(x)' = clock + 1 /\ ~Open(x)'
          BY <1>1, <2>3 DEF Turn, Open
    <3>2. \A n \in DOMAIN s : s[n].time < clock
          BY <2>1, <3>1 DEF WindowInv
    <3>3. LetThrough(s, clock + 1 - WindowMs, clock + 1) \subseteq LetThrough(s, clock - WindowMs, clock)
          BY <1>1, <2>1, <3>2, RateConstants DEF LetThrough, Arrived
    <3>4. Cardinality(LetThrough(s, clock + 1 - WindowMs, clock + 1)) =< MaxRequests
      <4>1. Cardinality(LetThrough(s, clock - WindowMs, clock)) =< MaxRequests
            BY <2>1, <3>1 DEF WindowInv
      <4>2. LetThrough(s, clock - WindowMs, clock) \subseteq DOMAIN s
            BY DEF LetThrough, Arrived
      <4> QED
          BY <2>1, <3>3, <4>1, <4>2, FewerLetThrough, RateConstants
    <3>5. Cardinality(LetThrough(asked[x], Turn(x) - WindowMs, Turn(x)))' =< MaxRequests
          BY <1>1, <2>1, <3>1, <3>4, RateConstants
    <3>6. \A n \in DOMAIN s : s[n].time < clock + 1 /\ s[n].time =< clock + 1
          BY <1>1, <2>1, <3>2
    <3> HIDE DEF s
    <3> QED
        BY <1>1, <2>1, <3>1, <3>5, <3>6 DEF WindowInv
  <2> QED
      BY <2>2, <2>3
<1> QED
    BY <1>1, <1>2, FairStays DEF RateInv

LEMMA CleanupKeeps == RateInv /\ Cleanup => RateInv'
<1> SUFFICES ASSUME RateInv, Cleanup PROVE RateInv'
    OBVIOUS
<1>1. /\ RateTypes /\ clock \in Nat /\ UNCHANGED <<clock, asked>>
      /\ DOMAIN hits' = {y \in DOMAIN hits : ~Expired(y)}
      /\ \A y \in DOMAIN hits' : hits'[y] = hits[y]
      BY DEF RateInv, RateTypes, Cleanup
<1>2. RateTypes'
      BY <1>1 DEF RateTypes, Cleanup
<1>3. ASSUME NEW x \in Client PROVE WindowInv(x)'
  <2> DEFINE s == asked[x]
  <2>1. /\ WindowInv(x) /\ asked'[x] = s /\ s \in Seq(Request)
        /\ \A n \in DOMAIN s : s[n].time \in Nat
        BY <1>1, RequestTyped DEF RateInv
  <2>2. CASE ~(x \in DOMAIN hits /\ Expired(x))
    <3>1. x \in DOMAIN hits' <=> x \in DOMAIN hits
          BY <1>1, <2>2
    <3>2. x \in DOMAIN hits => hits'[x] = hits[x]
          BY <1>1, <2>2, <3>1
    <3> QED
        BY <1>1, <2>1, <3>1, <3>2, WindowStays
  <2>3. CASE x \in DOMAIN hits /\ Expired(x)
    <3> DEFINE R == hits[x].resetAt
    <3>1. Turn(x) = R /\ Turn(x)' = clock /\ ~Open(x)' /\ R \in Int /\ R =< clock
          BY <1>1, <2>3 DEF Turn, Open, RateTypes, Expired
    <3>2. \A n \in DOMAIN s : s[n].time < R
          BY <2>1, <3>1 DEF WindowInv
    <3>3. LetThrough(s, clock - WindowMs, clock) \subseteq LetThrough(s, R - WindowMs, R)
          BY <1>1, <2>1, <3>1, <3>2, RateConstants DEF LetThrough, Arrived
    <3>4. Cardinality(LetThrough(s, clock - WindowMs, clock)) =< MaxRequests
      <4>1. Cardinality(LetThrough(s, R - WindowMs, R)) =< MaxRequests
            BY <2>1, <3>1 DEF WindowInv
      <4>2. LetThrough(s, R - WindowMs, R) \subseteq DOMAIN s
            BY DEF LetThrough, Arrived
      <4> QED
          BY <2>1, <3>3, <4>1, <4>2, FewerLetThrough, RateConstants
    <3>5. \A n \in DOMAIN s : s[n].time < clock
          BY <1>1, <2>1, <3>1, <3>2
    <3> QED
        BY <1>1, <2>1, <3>1, <3>4, <3>5 DEF WindowInv
  <2> QED
      BY <2>2, <2>3
<1> QED
    BY <1>1, <1>2, <1>3, FairStays DEF RateInv

\* What a request leaves behind: an entry that counts in the open window, or in
\* a new one.
LEMMA ArriveAppends ==
    ASSUME RateInv, NEW x \in Client, Arrive(x)
    PROVE  \E e \in Request, c \in Nat, R \in Int :
              /\ asked' = [asked EXCEPT ![x] = Append(@, e)]
              /\ clock' = clock
              /\ c = (IF Open(x) THEN hits[x].count ELSE 0) + 1
              /\ R = IF Open(x) THEN Turn(x) ELSE clock + WindowMs
              /\ R > clock /\ R - WindowMs =< clock
              /\ e.time = clock
              /\ (e.passed <=> c =< MaxRequests)
              /\ e.retryAt >= R
              /\ Turn(x)' = R /\ Open(x)' /\ hits'[x].count = c
              /\ RateTypes'
              /\ \A y \in Client \ {x} :
                    /\ y \in DOMAIN hits' <=> y \in DOMAIN hits
                    /\ y \in DOMAIN hits => hits'[y] = hits[y]
<1> DEFINE c == (IF Open(x) THEN hits[x].count ELSE 0) + 1
           R == IF Open(x) THEN Turn(x) ELSE clock + WindowMs
           w == [Window(x) EXCEPT !.count = @ + 1]
           e == [time |-> clock, passed |-> w.count =< MaxRequests,
                 retryAt |-> clock + Second * RetryAfter(w)]
<1>1. /\ RateTypes /\ WindowInv(x) /\ clock \in Nat
      BY DEF RateInv, RateTypes
<1>2. /\ Window(x) \in [count : Nat, resetAt : Int]
      /\ Window(x).count + 1 = c /\ Window(x).resetAt = R
      BY <1>1, RateConstants DEF RateTypes, Window, Opened, Open, Turn
<1>3. w \in [count : Nat, resetAt : Int] /\ w.count = c /\ w.resetAt = R
      BY <1>2
<1>4. c \in Nat /\ R \in Int /\ R > clock /\ R - WindowMs =< clock
      BY <1>1, <1>2, RateConstants DEF RateTypes, Open, Turn, WindowInv
<1> HIDE DEF c, R, w
<1>5. Second * RetryAfter(w) \in Int /\ Second * RetryAfter(w) >= R - clock
  <2>1. /\ w.resetAt - clock \in Int /\ w.resetAt - clock = R - clock
        /\ RetryAfter(w) = (w.resetAt - clock + Second - 1) \div Second
        BY <1>1, <1>3, <1>4 DEF RetryAfter
  <2>2. RetryAfter(w) \in Int
        BY <2>1, RateConstants
  <2>3. Second * RetryAfter(w) \in Int
        BY <2>2, RateConstants
  <2> QED
      BY <2>1, <2>3, RoundedUp, RateConstants
<1>6. /\ e \in Request /\ e.time = clock /\ (e.passed <=> c =< MaxRequests)
      /\ e.retryAt >= R
  <2>1. e.retryAt = clock + Second * RetryAfter(w) /\ e.time = clock
        /\ e.passed = (w.count =< MaxRequests)
        OBVIOUS
  <2>2. (w.count =< MaxRequests) <=> (c =< MaxRequests)
        BY <1>3
  <2>3. e \in Request
        BY <1>1, <1>5 DEF Request
  <2>4. e.passed <=> w.count =< MaxRequests
        BY <2>1, Zenon
  <2> HIDE DEF e
  <2> QED
      BY <1>1, <1>4, <1>5, <2>1, <2>2, <2>3, <2>4
<1>7. /\ asked' = [asked EXCEPT ![x] = Append(@, e)] /\ clock' = clock
      /\ hits' = [y \in DOMAIN hits \cup {x} |-> IF y = x THEN w ELSE hits[y]]
      BY DEF Arrive, w
<1> HIDE DEF e
<1>8. /\ \A y \in Client \ {x} :
            /\ y \in DOMAIN hits' <=> y \in DOMAIN hits
            /\ y \in DOMAIN hits => hits'[y] = hits[y]
      /\ x \in DOMAIN hits' /\ hits'[x] = w
      BY <1>7
<1>9. RateTypes'
  <2>1. hits' \in [DOMAIN hits' -> [count : Nat, resetAt : Int]]
        BY <1>1, <1>3, <1>7 DEF RateTypes
  <2>2. Append(asked[x], e) \in Seq(Request)
        BY <1>1, <1>6, RequestTyped
  <2> QED
      BY <1>1, <1>7, <2>1, <2>2 DEF RateTypes
<1>10. Turn(x)' = R /\ Open(x)' /\ hits'[x].count = c
       BY <1>3, <1>4, <1>7, <1>8 DEF Turn, Open
<1> QED
    BY <1>4, <1>6, <1>7, <1>8, <1>9, <1>10 DEF c, R

LEMMA ArriveKeepsWindow ==
    ASSUME RateInv, NEW x \in Client, Arrive(x)
    PROVE  /\ WindowInv(x)'
           /\ Fair(x)'
<1> DEFINE s == asked[x]
           N == Len(s) + 1
           Q == Turn(x)
<1>1. PICK e \in Request, c \in Nat, R \in Int :
              /\ asked' = [asked EXCEPT ![x] = Append(@, e)]
              /\ clock' = clock
              /\ c = (IF Open(x) THEN hits[x].count ELSE 0) + 1
              /\ R = IF Open(x) THEN Turn(x) ELSE clock + WindowMs
              /\ R > clock /\ R - WindowMs =< clock
              /\ e.time = clock
              /\ (e.passed <=> c =< MaxRequests)
              /\ e.retryAt >= R
              /\ Turn(x)' = R /\ Open(x)' /\ hits'[x].count = c
      BY ArriveAppends
<1>2. /\ RateTypes /\ WindowInv(x) /\ clock \in Nat /\ Q \in Int
      /\ s \in Seq(Request) /\ Len(s) \in Nat /\ DOMAIN s = 1..Len(s)
      /\ \A n \in DOMAIN s : s[n].time \in Nat
      /\ Fair(x)
      /\ (~Open(x) => Q =< clock)
      BY RequestTyped DEF RateInv, RateTypes, Turn, Open
<1>0. PICK t : t = Append(s, e)
      OBVIOUS
<1>3. /\ asked'[x] = t /\ t \in Seq(Request)
      /\ DOMAIN t = 1..N /\ Len(t) = N /\ N \in Nat /\ t[N] = e
      /\ \A n \in DOMAIN s : t[n] = s[n] /\ n # N
      /\ \A n \in 1..N : n \in DOMAIN s \/ n = N
  <2>1. asked'[x] = t
        BY <1>0, <1>1, <1>2 DEF RateTypes
  <2> HIDE DEF s
  <2> QED
      BY <1>0, <1>1, <1>2, <2>1
<1>4. \A n \in DOMAIN s : s[n].time < Q /\ s[n].time =< clock
      BY <1>2 DEF WindowInv
<1> DEFINE P == R - WindowMs
<1>5. /\ e \in Request /\ c \in Nat /\ R \in Int /\ clock \in Nat /\ WindowMs \in Nat
      /\ P \in Int /\ P =< clock /\ R = P + WindowMs /\ P - WindowMs \in Int /\ R > clock
      /\ P - WindowMs < P /\ P - WindowMs = R - 2 * WindowMs
      /\ (Open(x) => R = Q /\ c = hits[x].count + 1)
      /\ (~Open(x) => c = 1 /\ P = clock /\ Q =< P)
      /\ (e.passed <=> c =< MaxRequests) /\ e.time = clock
      BY <1>1, <1>2, RateConstants
<1> HIDE DEF s, N, P, Q
\* The new entry falls into the window.
<1>6. \A a, b \in Int :
          /\ a =< clock /\ clock < b =>
                Cardinality(Arrived(t, a, b)) = Cardinality(Arrived(s, a, b)) + 1
          /\ ~(a =< clock /\ clock < b) \/ ~e.passed => LetThrough(t, a, b) = LetThrough(s, a, b)
  <2> TAKE a, b \in Int
  <2>1. /\ a =< e.time /\ e.time < b =>
              Cardinality(Arrived(t, a, b)) = Cardinality(Arrived(s, a, b)) + 1
        /\ ~(a =< e.time /\ e.time < b) \/ ~e.passed => LetThrough(t, a, b) = LetThrough(s, a, b)
        BY <1>0, <1>2, <1>5, OneMore
  <2> QED
      BY <1>5, <2>1
<1>7. Cardinality(Arrived(t, P, R)) = c
  <2>1. Cardinality(Arrived(t, P, R)) = Cardinality(Arrived(s, P, R)) + 1
        BY <1>5, <1>6
  <2>2. CASE Open(x)
    <3>1. hits[x].count = Cardinality(Arrived(s, P, R))
          BY <1>2, <1>5, <2>2 DEF WindowInv, s, P, Q
    <3> QED
        BY <1>5, <2>1, <2>2, <3>1
  <2>3. CASE ~Open(x)
    <3>1. Arrived(s, P, R) = {}
          BY <1>2, <1>4, <1>5, <2>3 DEF Arrived
    <3>2. Cardinality(Arrived(s, P, R)) = 0
          BY <3>1, FS_EmptySet
    <3>3. c = 1
          BY <1>5, <2>3
    <3> QED
        BY <2>1, <3>2, <3>3
  <2> QED
      BY <2>2, <2>3
<1>8. /\ Arrived(t, P, R) \subseteq DOMAIN t
      /\ LetThrough(t, P, R) \subseteq Arrived(t, P, R)
      /\ LetThrough(s, Q - WindowMs, Q) \subseteq DOMAIN s
      BY DEF LetThrough, Arrived
<1>9. Cardinality(LetThrough(t, P, R)) =< MaxRequests
  <2>1. CASE e.passed
    <3>1. Cardinality(Arrived(t, P, R)) =< MaxRequests
          BY <1>5, <1>7, <2>1
    <3> QED
        BY <1>3, <1>8, <3>1, FewerLetThrough, RateConstants
  <2>2. CASE ~e.passed
    <3>1. LetThrough(t, P, R) = LetThrough(s, P, R)
          BY <1>5, <1>6, <2>2
    <3>2. Open(x)
          BY <1>5, <2>2, RateConstants
    <3>3. Cardinality(LetThrough(s, P, R)) =< MaxRequests
          BY <1>2, <1>5, <3>2 DEF WindowInv, s, P, Q
    <3> QED
        BY <3>1, <3>3
  <2> QED
      BY <2>1, <2>2
<1>10. Cardinality(LetThrough(t, P - WindowMs, P)) =< MaxRequests
  <2>1. LetThrough(t, P - WindowMs, P) = LetThrough(s, P - WindowMs, P)
        BY <1>2, <1>5, <1>6
  <2>2. CASE Open(x)
    <3>1. Cardinality(LetThrough(s, Q - 2 * WindowMs, Q - WindowMs)) =< MaxRequests
          BY <1>2, <2>2 DEF WindowInv, s, Q
    <3> QED
        BY <1>5, <2>1, <2>2, <3>1 DEF P
  <2>3. CASE ~Open(x)
    <3>1. LetThrough(s, P - WindowMs, P) \subseteq LetThrough(s, Q - WindowMs, Q)
          BY <1>2, <1>4, <1>5, <2>3, RateConstants DEF LetThrough, Arrived
    <3>2. Cardinality(LetThrough(s, Q - WindowMs, Q)) =< MaxRequests
          BY <1>2 DEF WindowInv, s, Q
    <3> QED
        BY <1>2, <1>8, <2>1, <3>1, <3>2, FewerLetThrough, RateConstants
  <2> QED
      BY <2>2, <2>3
<1>11. \A n \in DOMAIN t : t[n].time < R /\ t[n].time =< clock
  <2>1. \A n \in DOMAIN s : s[n].time < R
        BY <1>2, <1>4, <1>5
  <2>2. t[N].time < R /\ t[N].time =< clock
        BY <1>3, <1>5
  <2> TAKE n \in DOMAIN t
  <2>3. CASE n = N
        BY <2>2, <2>3
  <2>4. CASE n # N
    <3>1. n \in DOMAIN s /\ t[n] = s[n]
          BY <1>3, <2>4
    <3> QED
        BY <1>4, <2>1, <3>1
  <2> QED
      BY <2>3, <2>4
<1>12. WindowInv(x)'
  <2>1. /\ clock' = clock /\ Turn(x)' = R /\ Open(x)' /\ hits'[x].count = c /\ e.retryAt >= R
        BY <1>1
  <2>2. \A n \in DOMAIN t : n = Len(t) => t[n].retryAt >= R
        BY <1>3, <2>1
  <2>3. /\ Cardinality(LetThrough(t, R - WindowMs, R)) =< MaxRequests
        /\ Cardinality(LetThrough(t, R - 2 * WindowMs, R - WindowMs)) =< MaxRequests
        /\ Cardinality(Arrived(t, R - WindowMs, R)) = c
        BY <1>5, <1>7, <1>9, <1>10 DEF P
  <2>4. asked'[x] = t /\ R - WindowMs =< clock
        BY <1>3, <1>5 DEF P
  <2> QED
      BY <1>11, <2>1, <2>2, <2>3, <2>4 DEF WindowInv
\* An interval of a window's length lies in this window and the one before.
<1>13. ASSUME NEW a \in Int
       PROVE  Cardinality(LetThrough(t, a, a + WindowMs)) =< 2 * MaxRequests
  <2>1. CASE a =< clock /\ clock < a + WindowMs
    <3>1. LetThrough(t, a, a + WindowMs) \subseteq LetThrough(t, P - WindowMs, P) \cup LetThrough(t, P, R)
      <4>1. P - WindowMs =< a
            BY <1>2, <1>5, <2>1, RateConstants
      <4>2. \A n \in DOMAIN t : t[n].time \in Nat
            BY <1>3, RequestFields
      <4> QED
          BY <1>2, <1>5, <1>11, <4>1, <4>2, RateConstants DEF LetThrough, Arrived
    <3>2. \A b, d : LetThrough(t, b, d) \in SUBSET (DOMAIN t)
          BY DEF LetThrough, Arrived
    <3>3. /\ IsFiniteSet(LetThrough(t, P - WindowMs, P)) /\ IsFiniteSet(LetThrough(t, P, R))
          /\ Cardinality(LetThrough(t, P - WindowMs, P)) \in Nat /\ Cardinality(LetThrough(t, P, R)) \in Nat
          BY <1>3, <3>2, ArrivedIsFinite
    <3> DEFINE A == LetThrough(t, P - WindowMs, P)
               B == LetThrough(t, P, R)
    <3>4. /\ A \cup B \in SUBSET (DOMAIN t)
          BY <3>2
    <3> HIDE DEF A, B
    <3>5. Cardinality(A \cup B) = Cardinality(A) + Cardinality(B) - Cardinality(A \cap B)
          BY <3>3, FS_Union DEF A, B
    <3>6. Cardinality(A \cap B) \in Nat
      <4>1. A \cap B \in SUBSET (DOMAIN t)
            BY <3>4
      <4> QED
          BY <1>3, <4>1, ArrivedIsFinite
    <3>7. Cardinality(A \cup B) =< 2 * MaxRequests
          BY <1>9, <1>10, <3>3, <3>5, <3>6, RateConstants DEF A, B
    <3>8. 2 * MaxRequests \in Int
          BY RateConstants
    <3> QED
        BY <1>3, <3>1, <3>4, <3>7, <3>8, FewerLetThrough DEF A, B
  <2>2. CASE ~(a =< clock /\ clock < a + WindowMs)
    <3>1. a + WindowMs \in Int
          BY RateConstants
    <3>2. LetThrough(t, a, a + WindowMs) = LetThrough(s, a, a + WindowMs)
          BY <1>6, <2>2, <3>1
    <3>3. TwiceAtMost(x)
          BY <1>2 DEF Fair
    <3> QED
        BY <3>2, <3>3 DEF TwiceAtMost, s
  <2> QED
      BY <2>1, <2>2
<1>14. TwiceAtMost(x)'
       BY <1>3, <1>13 DEF TwiceAtMost
\* What was asked before keeps its cause; the new one is refused for the others
\* of its window.
<1>15. RefusedWithCause(x)'
  <2>1. ASSUME NEW n \in DOMAIN t, ~t[n].passed
        PROVE  \A a, b : Within(x, 1..n, a, b)' = {m \in 1..n : a =< t[m].time /\ t[m].time < b}
        BY <1>3 DEF Within
  <2> DEFINE W(n) == {m \in 1..n : t[n].time - WindowMs + 1 =< t[m].time
                               /\ t[m].time < t[n].time + 1}
  <2>2. ASSUME NEW n \in DOMAIN t, ~t[n].passed PROVE Cardinality(W(n)) > MaxRequests
    <3>1. CASE n \in DOMAIN s
      <4>1. ~s[n].passed /\ 1..n \subseteq DOMAIN s /\ t[n] = s[n]
            /\ \A m \in 1..n : t[m] = s[m]
            BY <1>2, <1>3, <2>2, <3>1
      <4>2. W(n) = Within(x, 1..n, s[n].time - WindowMs + 1, s[n].time + 1)
            BY <4>1 DEF Within, s
      <4>3. RefusedWithCause(x)
            BY <1>2 DEF Fair
      <4> QED
          BY <3>1, <4>1, <4>2, <4>3 DEF RefusedWithCause, s
    <3>2. CASE n = N
      <4>1. ASSUME NEW m \in Arrived(t, P, R) PROVE m \in W(n)
        <5>1. \A i \in DOMAIN t : t[i].time \in Nat
              BY <1>3, RequestFields
        <5>2. DOMAIN t = 1..n /\ t[n].time = clock
              BY <1>3, <1>5, <3>2
        <5>3. m \in DOMAIN t /\ P =< t[m].time /\ t[m].time < R /\ t[m].time =< clock
              BY <1>11 DEF Arrived
        <5>4. P >= clock - WindowMs + 1
              BY <1>5, RateConstants
        <5> QED
            BY <1>5, <5>1, <5>2, <5>3, <5>4
      <4>2. W(n) \in SUBSET (DOMAIN t) /\ c > MaxRequests
            BY <1>3, <1>5, <2>2, <3>2, RateConstants
      <4>3. IsFiniteSet(W(n)) /\ Cardinality(W(n)) \in Nat
            BY <1>3, <4>2, ArrivedIsFinite
      <4>4. Cardinality(Arrived(t, P, R)) =< Cardinality(W(n))
            BY <4>1, <4>3, FS_Subset
      <4> QED
          BY <1>7, <4>2, <4>3, <4>4, RateConstants
    <3> QED
        BY <1>3, <3>1, <3>2
  <2>3. ASSUME NEW n \in DOMAIN t, ~t[n].passed
        PROVE  Cardinality(Within(x, 1..n, t[n].time - WindowMs + 1, t[n].time + 1)') > MaxRequests
        BY <2>1, <2>2, <2>3
  <2> QED
      BY <1>3, <2>3 DEF RefusedWithCause
<1>16. ServedInTime(x)'
  <2>1. ASSUME NEW n \in 2..N, ~t[n - 1].passed, t[n - 1].retryAt =< t[n].time
        PROVE  t[n].passed
    <3>1. CASE n \in DOMAIN s
      <4>1. n - 1 \in DOMAIN s /\ n \in 2..Len(s)
            BY <1>2, <2>1, <3>1
      <4>2. t[n] = s[n] /\ t[n - 1] = s[n - 1]
            BY <1>3, <3>1, <4>1
      <4>3. ServedInTime(x)
            BY <1>2 DEF Fair
      <4> QED
          BY <2>1, <4>1, <4>2, <4>3 DEF ServedInTime, s
    <3>2. CASE n = N
      <4>1. n - 1 = Len(s) /\ Len(s) \in DOMAIN s
            BY <1>2, <1>3, <2>1, <3>2 DEF N
      <4>2. t[n] = e /\ t[n - 1] = s[Len(s)]
            BY <1>3, <3>2, <4>1
      <4>3. ~s[Len(s)].passed /\ s[Len(s)].retryAt =< clock
            BY <1>5, <2>1, <4>2
      <4>4. Open(x) => s[Len(s)].retryAt >= R
            BY <1>2, <1>5, <4>1, <4>3 DEF WindowInv, s, Q
      <4>5. ~Open(x)
        <5>1. s[Len(s)].retryAt \in Int
              BY <1>2, <4>1, RequestFields
        <5> QED
            BY <1>2, <1>5, <4>3, <4>4, <5>1
      <4> QED
          BY <1>5, <4>2, <4>5, RateConstants
    <3> QED
        BY <1>3, <2>1, <3>1, <3>2
  <2> QED
      BY <1>3, <2>1 DEF ServedInTime
<1> QED
    BY <1>12, <1>14, <1>15, <1>16 DEF Fair

LEMMA ArriveKeeps == RateInv /\ (\E x \in Client : Arrive(x)) => RateInv'
<1> SUFFICES ASSUME RateInv, NEW x \in Client, Arrive(x) PROVE RateInv'
    OBVIOUS
<1>1. /\ RateTypes' /\ clock' = clock
      /\ \E e : asked' = [asked EXCEPT ![x] = Append(@, e)]
      /\ \A y \in Client \ {x} :
            /\ y \in DOMAIN hits' <=> y \in DOMAIN hits
            /\ y \in DOMAIN hits => hits'[y] = hits[y]
      BY ArriveAppends
<1>2. ASSUME NEW y \in Client \ {x} PROVE WindowInv(y)' /\ Fair(y)'
  <2>1. y \in Client /\ asked'[y] = asked[y]
        BY <1>1 DEF RateInv, RateTypes
  <2>2. RateTypes /\ WindowInv(y) /\ Fair(y)
        BY DEF RateInv
  <2>3. WindowInv(y)'
    <3>1. clock' = clock /\ (y \in DOMAIN hits' <=> y \in DOMAIN hits)
          /\ (y \in DOMAIN hits => hits'[y] = hits[y])
          BY <1>1
    <3> QED
        BY <2>1, <2>2, <3>1, WindowStays
  <2>4. Fair(y)'
        BY <2>1, <2>2, FairStays
  <2> QED
      BY <2>3, <2>4
<1>3. WindowInv(x)' /\ Fair(x)'
      BY ArriveKeepsWindow
<1> QED
    BY <1>1, <1>2, <1>3 DEF RateInv

\* Whatever the windows' boundaries and the timer do, for any limit, window and
\* clients: who keeps to the limit over every window's length is never refused, no
\* interval of that length passes more than twice the limit, and who comes back
\* when Retry-After said is served.
THEOREM LimitIsFair == RateSpec => []RateFair
<1>1. RateInit => RateInv
  <2> SUFFICES ASSUME RateInit PROVE RateInv
      OBVIOUS
  <2>1. /\ clock = 0 /\ hits = <<>> /\ DOMAIN hits = {}
        /\ \A x \in Client : asked[x] = <<>> /\ DOMAIN asked[x] = {} /\ Len(asked[x]) = 0
        BY DEF RateInit
  <2>2. RateTypes
        BY <2>1 DEF RateInit, RateTypes
  <2>3. \A x \in Client : \A a, b : LetThrough(asked[x], a, b) = {}
        BY <2>1 DEF LetThrough, Arrived
  <2>4. Cardinality({}) = 0
        BY FS_EmptySet
  <2>5. ASSUME NEW x \in Client PROVE WindowInv(x) /\ Fair(x)
    <3>1. /\ DOMAIN asked[x] = {} /\ Len(asked[x]) = 0 /\ ~Open(x)
          /\ \A a, b : Cardinality(LetThrough(asked[x], a, b)) = 0
          BY <2>1, <2>3, <2>4 DEF Open
    <3>2. WindowInv(x)
          BY <3>1, RateConstants DEF WindowInv
    <3>3. TwiceAtMost(x)
      <4>1. 0 =< 2 * MaxRequests
            BY RateConstants
      <4> QED
          BY <3>1, <4>1 DEF TwiceAtMost
    <3>4. RefusedWithCause(x) /\ ServedInTime(x)
          BY <3>1 DEF RefusedWithCause, ServedInTime
    <3> QED
        BY <3>2, <3>3, <3>4 DEF Fair
  <2> QED
      BY <2>2, <2>5 DEF RateInv
<1>2. RateInv /\ [RateNext]_rateVars => RateInv'
  <2>1. RateInv /\ UNCHANGED rateVars => RateInv'
        BY WindowStays, FairStays DEF RateInv, RateTypes, rateVars
  <2> QED
      BY <2>1, ArriveKeeps, CleanupKeeps, ElapseKeeps DEF RateNext
<1>3. RateInv => RateFair
  <2> SUFFICES ASSUME RateInv, NEW x \in Client
               PROVE  /\ RefusedWithCause(x)
                      /\ \A t \in 0..MaxClock :
                            Cardinality(Within(x, Passed(x), t, t + WindowMs)) =< 2 * MaxRequests
                      /\ ServedInTime(x)
      BY DEF RateFair, RefusedWithCause, ServedInTime
  <2>1. Fair(x)
        BY DEF RateInv
  <2>2. \A a, b : Within(x, Passed(x), a, b) = LetThrough(asked[x], a, b)
        BY DEF Within, Passed, LetThrough, Arrived
  <2> QED
      BY <2>1, <2>2 DEF Fair, TwiceAtMost
<1> QED
    BY <1>1, <1>2, <1>3, PTL DEF RateSpec

-----------------------------------------------------------------------------
(* The answers of the stores, and a client that pages. *)

StrictOrder(S, R) ==
    /\ \A x \in S : <<x, x>> \notin R
    /\ \A x, y, z \in S : <<x, y>> \in R /\ <<y, z>> \in R => <<x, z>> \in R
    /\ \A x, y \in S : x = y \/ <<x, y>> \in R \/ <<y, x>> \in R

Below(S, R, e) == {f \in S : <<f, e>> \in R}

OneToOne(f, S) == \A x, y \in S : f[x] = f[y] => x = y

\* Two orders of the elements of S, and two lists of which the second has grown.
Agree(S, R, Q) == \A x, y \in S : <<x, y>> \in R <=> <<x, y>> \in Q

Follow(S, T, Q) == \A x \in S, y \in T \ S : <<x, y>> \in Q

Keeps(L, M) == \A n \in DOMAIN L : \E m \in DOMAIN M : m >= n /\ M[m] = L[n]

Prolongs(L, M) == \A n \in DOMAIN L : n \in DOMAIN M /\ M[n] = L[n]

Maps(f, S, R, Q) == \A x, y \in S : <<x, y>> \in R <=> <<f[x], f[y]>> \in Q

\* What a one-to-one function makes of a finite set has as many elements.
LEMMA ImageIsAsLarge ==
    ASSUME NEW S, IsFiniteSet(S), NEW f, OneToOne(f, S)
    PROVE  /\ IsFiniteSet({f[x] : x \in S})
           /\ Cardinality({f[x] : x \in S}) = Cardinality(S)
<1>1. PICK T, g : T = {f[x] : x \in S} /\ g = [x \in S |-> f[x]]
      OBVIOUS
<1>2. g \in [S -> T] /\ (\A x, y \in S : g[x] = g[y] => x = y)
      BY <1>1 DEF OneToOne
<1>3. \A t \in T : \E x \in S : g[x] = t
      BY <1>1
<1>4. g \in Bijection(S, T)
      BY <1>2, <1>3 DEF Bijection, Injection, Surjection, IsInjective
<1>5. ExistsBijection(S, T)
      BY <1>4 DEF ExistsBijection
<1> QED
    BY <1>1, <1>5, FS_Bijection

\* The elements of a set in an order: each has the place behind those before it.
LEMMA PlaceInOrder ==
    ASSUME NEW S, IsFiniteSet(S), NEW R, StrictOrder(S, R), NEW L, L = InOrder(S, R)
    PROVE  /\ Cardinality(S) \in Nat
           /\ DOMAIN L = 1..Cardinality(S)
           /\ L \in Seq(S)
           /\ \A n \in DOMAIN L : L[n] \in S /\ Cardinality(Below(S, R, L[n])) = n - 1
           /\ \A e \in S : /\ Cardinality(Below(S, R, e)) + 1 \in DOMAIN L
                           /\ L[Cardinality(Below(S, R, e)) + 1] = e
<1>1. PICK N, r : N = Cardinality(S) /\ r = [e \in S |-> Cardinality(Below(S, R, e)) + 1]
      OBVIOUS
<1>2. N \in Nat /\ IsFiniteSet(1..N) /\ Cardinality(1..N) = N
  <2>1. N \in Nat
        BY <1>1, FS_CardinalityType
  <2> QED
      BY <2>1, FS_Interval
<1>3. \A e \in S : /\ IsFiniteSet(Below(S, R, e)) /\ Cardinality(Below(S, R, e)) \in Nat
                   /\ Cardinality(Below(S, R, e)) < N
  <2> TAKE e \in S
  <2>1. Below(S, R, e) \in SUBSET S /\ e \notin Below(S, R, e)
        BY DEF Below, StrictOrder
  <2>2. IsFiniteSet(Below(S, R, e)) /\ Cardinality(Below(S, R, e)) =< N
        BY <1>1, <2>1, FS_Subset
  <2>3. Cardinality(Below(S, R, e)) # N
        BY <1>1, <2>1, FS_Subset
  <2>4. Cardinality(Below(S, R, e)) \in Nat
        BY <2>2, FS_CardinalityType
  <2> QED
      BY <1>2, <2>2, <2>3, <2>4
<1>4. \A e \in S : r[e] = Cardinality(Below(S, R, e)) + 1 /\ r[e] \in 1..N
  <2> TAKE e \in S
  <2>1. r[e] = Cardinality(Below(S, R, e)) + 1
        BY <1>1
  <2> QED
      BY <1>2, <1>3, <2>1
<1>5. ASSUME NEW e \in S, NEW g \in S, <<e, g>> \in R
      PROVE  r[e] # r[g]
  <2>1. Below(S, R, e) \in SUBSET Below(S, R, g) /\ e \in Below(S, R, g) /\ e \notin Below(S, R, e)
        BY <1>5 DEF Below, StrictOrder
  <2>2. Cardinality(Below(S, R, e)) # Cardinality(Below(S, R, g))
        BY <1>3, <2>1, FS_Subset
  <2> QED
      BY <1>3, <1>4, <2>2
<1>6. \A e, g \in S : r[e] = r[g] => e = g
      BY <1>5 DEF StrictOrder
<1>7. r \in [S -> 1..N]
      BY <1>1, <1>4
<1>8. r \in Surjection(S, 1..N)
  <2>1. r \in Injection(S, 1..N)
        BY <1>6, <1>7 DEF Injection, IsInjective
  <2> QED
      BY <1>1, <1>2, <2>1, FS_Injection
<1>9. \A n \in 1..N : \E e \in S : r[e] = n
      BY <1>8 DEF Surjection
<1>10. L = [n \in 1..N |-> CHOOSE e \in S : Cardinality({f \in S : <<f, e>> \in R}) = n - 1]
      BY <1>1 DEF InOrder
<1>11. \A n \in 1..N : L[n] \in S /\ r[L[n]] = n /\ Cardinality(Below(S, R, L[n])) = n - 1
  <2> TAKE n \in 1..N
  <2>1. \E e \in S : Cardinality({f \in S : <<f, e>> \in R}) = n - 1
    <3>1. PICK e \in S : r[e] = n
          BY <1>9
    <3>2. Cardinality(Below(S, R, e)) = n - 1
          BY <1>3, <1>4, <3>1
    <3> QED
        BY <3>2 DEF Below
  <2>2. L[n] = CHOOSE e \in S : Cardinality({f \in S : <<f, e>> \in R}) = n - 1
        BY <1>10
  <2>3. L[n] \in S /\ Cardinality(Below(S, R, L[n])) = n - 1
        BY <2>1, <2>2, Zenon DEF Below
  <2> QED
      BY <1>2, <1>4, <2>3
<1>12. L \in Seq(S) /\ DOMAIN L = 1..N
  <2> DEFINE at(n) == CHOOSE e \in S : Cardinality({f \in S : <<f, e>> \in R}) = n - 1
  <2>1. L = [n \in 1..N |-> at(n)]
        BY <1>10
  <2> HIDE DEF at
  <2>2. DOMAIN L = 1..N /\ L = [n \in 1..N |-> L[n]]
        BY <2>1
  <2> QED
      BY <1>2, <1>11, <2>2
<1>13. \A e \in S : L[r[e]] = e
  <2> TAKE e \in S
  <2>1. r[e] \in 1..N
        BY <1>4
  <2> QED
      BY <1>6, <1>11, <2>1
<1> QED
    BY <1>1, <1>2, <1>4, <1>11, <1>12, <1>13

\* Elements that join a set keep the order of those that are there: none comes
\* to an earlier place, and none moves if all that join come behind.
LEMMA PlacesGrow ==
    ASSUME NEW S, NEW T, S \subseteq T, IsFiniteSet(T), NEW R, NEW Q,
           StrictOrder(S, R), StrictOrder(T, Q),
           Agree(S, R, Q),
           NEW L, L = InOrder(S, R), NEW M, M = InOrder(T, Q)
    PROVE  Keeps(L, M) /\ (Follow(S, T, Q) => Prolongs(L, M))
<1>1. IsFiniteSet(S)
  <2>1. S \in SUBSET T
        OBVIOUS
  <2> QED
      BY <2>1, FS_Subset
<1>2. /\ Cardinality(S) \in Nat
      /\ DOMAIN L = 1..Cardinality(S)
      /\ \A n \in DOMAIN L : L[n] \in S /\ Cardinality(Below(S, R, L[n])) = n - 1
      BY <1>1, PlaceInOrder
<1>3. /\ \A e \in T : /\ Cardinality(Below(T, Q, e)) + 1 \in DOMAIN M
                      /\ M[Cardinality(Below(T, Q, e)) + 1] = e
      BY PlaceInOrder
<1>4. \A e \in S : Below(S, R, e) \subseteq Below(T, Q, e)
      BY DEF Below, Agree
<1>5. \A n \in DOMAIN L : n \in Nat /\ n >= 1
      BY <1>2
<1>6. ASSUME NEW n \in DOMAIN L
      PROVE  \E m \in DOMAIN M : m >= n /\ M[m] = L[n]
  <2>1. PICK e, c, d : /\ e = L[n] /\ c = Cardinality(Below(S, R, e))
                       /\ d = Cardinality(Below(T, Q, e))
        OBVIOUS
  <2>2. e \in S /\ e \in T /\ c = n - 1
        BY <1>2, <2>1
  <2>3. Below(S, R, e) \in SUBSET Below(T, Q, e) /\ Below(T, Q, e) \in SUBSET T
        BY <1>4, <2>2 DEF Below
  <2>4. IsFiniteSet(Below(T, Q, e))
        BY <2>3, FS_Subset
  <2>5. c =< d /\ d \in Nat
        BY <2>1, <2>3, <2>4, FS_Subset, FS_CardinalityType
  <2>6. d + 1 \in DOMAIN M /\ M[d + 1] = e
        BY <1>3, <2>1, <2>2
  <2>7. d + 1 >= n
        BY <1>5, <2>2, <2>5
  <2> QED
      BY <2>1, <2>6, <2>7
<1>7. ASSUME Follow(S, T, Q), NEW n \in DOMAIN L
      PROVE  n \in DOMAIN M /\ M[n] = L[n]
  <2>1. PICK e : e = L[n]
        OBVIOUS
  <2>2. e \in S /\ e \in T /\ Cardinality(Below(S, R, e)) = n - 1
        BY <1>2, <2>1
  <2>3. Below(T, Q, e) \subseteq Below(S, R, e)
    <3> SUFFICES ASSUME NEW f \in Below(T, Q, e)
                 PROVE  f \in Below(S, R, e)
        OBVIOUS
    <3>1. f \in T /\ <<f, e>> \in Q
          BY DEF Below
    <3>2. f \in S
      <4> SUFFICES ASSUME f \notin S
                   PROVE  FALSE
          OBVIOUS
      <4>1. <<e, f>> \in Q
            BY <1>7, <2>2, <3>1 DEF Follow
      <4>2. <<e, e>> \in Q
            BY <2>2, <3>1, <4>1 DEF StrictOrder
      <4> QED
          BY <2>2, <4>2 DEF StrictOrder
    <3> QED
        BY <2>2, <3>1, <3>2 DEF Below, Agree
  <2>4. Below(T, Q, e) = Below(S, R, e)
    <3>1. Below(S, R, e) \subseteq Below(T, Q, e)
          BY <1>4, <2>2
    <3> QED
        BY <2>3, <3>1
  <2>5. (n - 1) + 1 \in DOMAIN M /\ M[(n - 1) + 1] = e
        BY <1>3, <2>2, <2>4
  <2>6. (n - 1) + 1 = n
        BY <1>5
  <2> QED
      BY <2>1, <2>5, <2>6
<1> QED
    BY <1>6, <1>7 DEF Keeps, Prolongs

\* Order and a one-to-one function.
LEMMA OrderIsMapped ==
    ASSUME NEW S, IsFiniteSet(S), NEW f, OneToOne(f, S),
           NEW R, StrictOrder(S, R), NEW T, T = {f[x] : x \in S}, NEW Q,
           Maps(f, S, R, Q), NEW s, s = InOrder(S, R)
    PROVE  /\ IsFiniteSet(T) /\ StrictOrder(T, Q)
           /\ InOrder(T, Q) = [n \in DOMAIN s |-> f[s[n]]]
<1>1. IsFiniteSet(T) /\ Cardinality(T) = Cardinality(S)
      BY ImageIsAsLarge
<1>2. StrictOrder(T, Q)
  <2>1. \A t \in T : \E x \in S : t = f[x]
        OBVIOUS
  <2>2. \A x \in T : <<x, x>> \notin Q
    <3> TAKE x \in T
    <3>1. PICK u \in S : x = f[u]
          BY <2>1
    <3>2. <<u, u>> \notin R
          BY DEF StrictOrder
    <3> QED
        BY <3>1, <3>2 DEF Maps
  <2>3. \A x, y, z \in T : <<x, y>> \in Q /\ <<y, z>> \in Q => <<x, z>> \in Q
    <3> TAKE x, y, z \in T
    <3> HAVE <<x, y>> \in Q /\ <<y, z>> \in Q
    <3>1. PICK u \in S, v \in S, w \in S : x = f[u] /\ y = f[v] /\ z = f[w]
          BY <2>1
    <3>2. <<u, v>> \in R /\ <<v, w>> \in R
          BY <3>1 DEF Maps
    <3>3. <<u, w>> \in R
          BY <3>2 DEF StrictOrder
    <3> QED
        BY <3>1, <3>3 DEF Maps
  <2>4. \A x, y \in T : x = y \/ <<x, y>> \in Q \/ <<y, x>> \in Q
    <3> TAKE x, y \in T
    <3>1. PICK u \in S, v \in S : x = f[u] /\ y = f[v]
          BY <2>1
    <3>2. u = v \/ <<u, v>> \in R \/ <<v, u>> \in R
          BY DEF StrictOrder
    <3> QED
        BY <3>1, <3>2 DEF Maps
  <2> QED
      BY <2>2, <2>3, <2>4 DEF StrictOrder
<1>3. PICK N, t : N = Cardinality(S) /\ t = InOrder(T, Q)
      OBVIOUS
<1>4. /\ N \in Nat /\ DOMAIN s = 1..N
      /\ \A n \in 1..N : s[n] \in S /\ Cardinality(Below(S, R, s[n])) = n - 1
      BY <1>3, PlaceInOrder
<1>5. /\ DOMAIN t = 1..N /\ t \in Seq(T)
      /\ \A e \in T : t[Cardinality(Below(T, Q, e)) + 1] = e
  <2>1. IsFiniteSet(T) /\ StrictOrder(T, Q) /\ t = InOrder(T, Q)
        BY <1>1, <1>2, <1>3
  <2>2. DOMAIN t = 1..Cardinality(T)
        BY <2>1, PlaceInOrder
  <2>3. t \in Seq(T)
        BY <2>1, PlaceInOrder
  <2>4. \A e \in T : t[Cardinality(Below(T, Q, e)) + 1] = e
        BY <2>1, PlaceInOrder
  <2> QED
      BY <1>1, <1>3, <2>2, <2>3, <2>4
<1>6. \A n \in 1..N : t[n] = f[s[n]]
  <2> TAKE n \in 1..N
  <2>1. PICK x : x = s[n]
        OBVIOUS
  <2>2. x \in S /\ Cardinality(Below(S, R, x)) = n - 1
        BY <1>4, <2>1
  <2>3. Below(T, Q, f[x]) = {f[y] : y \in Below(S, R, x)}
    <3>1. ASSUME NEW z \in Below(T, Q, f[x])
          PROVE  z \in {f[y] : y \in Below(S, R, x)}
      <4>1. PICK y \in S : z = f[y] /\ <<f[y], f[x]>> \in Q
            BY DEF Below
      <4>2. y \in Below(S, R, x)
            BY <2>2, <4>1 DEF Below, Maps
      <4> QED
          BY <4>1, <4>2
    <3>2. ASSUME NEW y \in Below(S, R, x)
          PROVE  f[y] \in Below(T, Q, f[x])
          BY <2>2 DEF Below, Maps
    <3> QED
        BY <3>1, <3>2
  <2>4. Below(S, R, x) \in SUBSET S
        BY DEF Below
  <2>5. Cardinality({f[y] : y \in Below(S, R, x)}) = Cardinality(Below(S, R, x))
    <3>1. IsFiniteSet(Below(S, R, x))
          BY <2>4, FS_Subset
    <3>2. OneToOne(f, Below(S, R, x))
          BY <2>4 DEF OneToOne
    <3> QED
        BY <3>1, <3>2, ImageIsAsLarge
  <2>6. f[x] \in T
        BY <2>2
  <2>7. Cardinality(Below(T, Q, f[x])) = n - 1
        BY <2>2, <2>3, <2>5
  <2>8. (n - 1) + 1 = n
        BY <1>4
  <2>9. t[(n - 1) + 1] = f[x]
        BY <1>5, <2>6, <2>7, Zenon
  <2> QED
      BY <2>1, <2>8, <2>9
<1>7. t = [n \in 1..N |-> f[s[n]]]
  <2>1. t = [n \in DOMAIN t |-> t[n]]
        BY <1>5
  <2> QED
      BY <1>5, <1>6, <2>1
<1> QED
    BY <1>1, <1>2, <1>3, <1>4, <1>7

\* The numbers in order.
LEMMA NumbersAreOrdered ==
    ASSUME NEW S \in SUBSET Int
    PROVE  StrictOrder(S, Ascent(S)) /\ StrictOrder(S, Descent(S))
<1>1. \A x, y \in S : (<<x, y>> \in Ascent(S) <=> x < y) /\ (<<x, y>> \in Descent(S) <=> x > y)
      BY DEF Ascent, Descent
<1> QED
    BY <1>1 DEF StrictOrder

\* What is assumed of the log, as the proofs use it.
LEMMA QueryConstants ==
    /\ Len(Logged) \in Nat /\ DOMAIN Logged = 1..Len(Logged)
    /\ \A i \in DOMAIN Logged : /\ Logged[i].block \in Nat /\ Logged[i].rank \in Nat
                                /\ Logged[i].chain \in Nat /\ Logged[i].code \in Nat
    /\ \A i, j \in DOMAIN Logged : i =< j => Logged[i].block =< Logged[j].block
    /\ \A i, j \in DOMAIN Logged : Logged[i].rank = Logged[j].rank => i = j
    /\ MaxLimit \in Nat /\ DefaultLimit \in Nat \ {0}
<1>1. PICK g : g = Logged
      OBVIOUS
<1>2. g \in Seq([code : Nat, chain : Nat, rank : Nat, block : Nat])
      BY <1>1, QueryAssumption DEF QueryAssumption
<1>3. Len(g) \in Nat /\ DOMAIN g = 1..Len(g)
      BY <1>2
<1>4. \A i \in DOMAIN g : /\ g[i].block \in Nat /\ g[i].rank \in Nat
                          /\ g[i].chain \in Nat /\ g[i].code \in Nat
  <2> TAKE i \in DOMAIN g
  <2>1. g[i] \in [code : Nat, chain : Nat, rank : Nat, block : Nat]
        BY <1>2, <1>3, ElementOfSeq
  <2> QED
      BY <2>1
<1>5. \A i, j \in DOMAIN g : i < j => g[i].block =< g[j].block
      BY <1>1, QueryAssumption DEF QueryAssumption
<1>6. \A i, j \in DOMAIN g : i =< j => g[i].block =< g[j].block
  <2> TAKE i, j \in DOMAIN g
  <2>1. i \in Nat /\ j \in Nat /\ g[i].block \in Nat
        BY <1>3, <1>4
  <2>2. i =< j => i < j \/ i = j
        BY <2>1
  <2>3. i = j => g[i].block =< g[j].block
        BY <2>1
  <2> QED
      BY <1>5, <2>2, <2>3
<1>7. \A i, j \in DOMAIN g : g[i].rank = g[j].rank => i = j
      BY <1>1, QueryAssumption DEF QueryAssumption
<1>8. MaxLimit \in Nat /\ DefaultLimit \in Nat \ {0}
      BY QueryAssumption DEF QueryAssumption
<1> QED
    BY <1>1, <1>3, <1>4, <1>6, <1>7, <1>8

\* A row is stored once, and what is scanned ends with a whole block.
RowsInv ==
    /\ scanned \in 0..Len(Logged)
    /\ rows \in Seq(1..scanned)
    /\ \A n, m \in DOMAIN rows : rows[n] = rows[m] => n = m
    /\ scanned \in 1..Len(Logged) - 1 => Logged[scanned].block < Logged[scanned + 1].block

Wanted(c, k) == {i \in Stored : Logged[i].code = c /\ (k = 0 \/ Logged[i].chain = k)}

\* The order of arrival, the memory store's.
Arrival(S) == {p \in S \X S : Came(p[1], p[2])}

Order(S) == IF store = "memory" THEN Arrival(S) ELSE ByBlock(S)

\* The two orders in terms of their pairs.
LEMMA OrdersSay ==
    ASSUME NEW S
    PROVE  /\ \A x, y \in S : <<x, y>> \in Arrival(S) <=> Came(x, y)
           /\ \A x, y \in S :
                 <<x, y>> \in ByBlock(S) <=>
                    \/ Logged[x].block < Logged[y].block
                    \/ Logged[x].block = Logged[y].block /\ InBlock(x, y)
BY DEF Arrival, ByBlock

\* The rows are places in the log, finitely many.
LEMMA StoredRows ==
    ASSUME RowsInv
    PROVE  /\ Stored \subseteq 1..scanned /\ Stored \subseteq DOMAIN Logged
           /\ Stored \subseteq Nat /\ IsFiniteSet(Stored)
           /\ DOMAIN rows \subseteq Nat /\ IsFiniteSet(DOMAIN rows)
<1>1. Stored \subseteq 1..scanned
      BY DEF RowsInv, Stored
<1>2. 1..scanned \subseteq DOMAIN Logged /\ 1..scanned \subseteq Nat /\ scanned \in Nat
      BY QueryConstants DEF RowsInv
<1>3. IsFiniteSet(1..scanned)
      BY <1>2, FS_Interval
<1>4. IsFiniteSet(Stored)
  <2>1. Stored \in SUBSET (1..scanned)
        BY <1>1
  <2> QED
      BY <1>3, <2>1, FS_Subset
<1>5. PICK n : n \in Nat /\ DOMAIN rows = 1..n
      BY DEF RowsInv
<1>6. IsFiniteSet(1..n)
      BY <1>5, FS_Interval
<1> QED
    BY <1>1, <1>2, <1>4, <1>5, <1>6

\* Arrival, and block then key or arrival, each order the rows strictly.
LEMMA OrdersAreStrict ==
    ASSUME RowsInv, NEW S \in SUBSET Stored
    PROVE  StrictOrder(S, Arrival(S)) /\ StrictOrder(S, ByBlock(S))
<1>1. DOMAIN rows \subseteq Nat /\ S \subseteq DOMAIN Logged
      BY StoredRows
<1>2. /\ \A x \in S : ~Came(x, x)
      /\ \A x, y, z \in S : Came(x, y) /\ Came(y, z) => Came(x, z)
      /\ \A x, y \in S : x = y \/ Came(x, y) \/ Came(y, x)
  <2>1. \A x \in S : ~Came(x, x)
        BY <1>1 DEF Came, RowsInv
  <2>2. \A x, y, z \in S : Came(x, y) /\ Came(y, z) => Came(x, z)
    <3> TAKE x, y, z \in S
    <3> HAVE Came(x, y) /\ Came(y, z)
    <3>1. PICK n, m \in DOMAIN rows : n < m /\ rows[n] = x /\ rows[m] = y
          BY DEF Came
    <3>2. PICK i, j \in DOMAIN rows : i < j /\ rows[i] = y /\ rows[j] = z
          BY DEF Came
    <3>3. i = m
          BY <3>1, <3>2 DEF RowsInv
    <3>4. n < j
          BY <1>1, <3>1, <3>2, <3>3
    <3> QED
        BY <3>1, <3>2, <3>4 DEF Came
  <2>3. \A x, y \in S : x = y \/ Came(x, y) \/ Came(y, x)
    <3> TAKE x, y \in S
    <3>1. PICK n, m \in DOMAIN rows : rows[n] = x /\ rows[m] = y
          BY DEF Stored
    <3>2. n < m \/ m < n \/ n = m
          BY <1>1
    <3> QED
        BY <3>1, <3>2 DEF Came
  <2> QED
      BY <2>1, <2>2, <2>3
<1>3. \A x, y \in S : <<x, y>> \in Arrival(S) <=> Came(x, y)
      BY OrdersSay
<1>4. StrictOrder(S, Arrival(S))
      BY <1>2, <1>3 DEF StrictOrder
<1> DEFINE rank(x) == Logged[x].rank
           block(x) == Logged[x].block
           chain(x) == Logged[x].chain
<1>5. /\ \A x \in S : ~InBlock(x, x)
      /\ \A x, y, z \in S : InBlock(x, y) /\ InBlock(y, z) => InBlock(x, z)
      /\ \A x, y \in S : x = y \/ InBlock(x, y) \/ InBlock(y, x)
  <2>1. \A x \in S : rank(x) \in Nat
        BY <1>1, QueryConstants
  <2>2. \A x, y \in S : rank(x) = rank(y) => x = y
        BY <1>1, QueryConstants
  <2>6. \A x \in S : chain(x) \in Nat
        BY <1>1, QueryConstants
  <2>7. \A x, y \in S :
           /\ store = "sqlite by key" => (InBlock(x, y) <=> rank(x) < rank(y))
           /\ store = "sqlite by chain" =>
                 (InBlock(x, y) <=>
                     chain(x) < chain(y) \/ (chain(x) = chain(y) /\ Came(x, y)))
           /\ store \notin {"sqlite by key", "sqlite by chain"} =>
                 (InBlock(x, y) <=> Came(x, y))
        BY DEF InBlock
  <2> HIDE DEF rank, chain
  <2>3. \A x, y \in S : rank(x) < rank(y) \/ rank(y) < rank(x) \/ x = y
        BY <2>1, <2>2
  <2>4. \A x, y, z \in S : rank(x) < rank(y) /\ rank(y) < rank(z) => rank(x) < rank(z)
        BY <2>1
  <2>5. \A x \in S : ~(rank(x) < rank(x))
        BY <2>1
  <2>8. CASE store = "sqlite by key"
        BY <2>3, <2>4, <2>5, <2>7, <2>8
  <2>9. CASE store = "sqlite by chain"
    <3>1. \A x \in S : ~InBlock(x, x)
      <4> TAKE x \in S
      <4>1. chain(x) \in Nat /\ ~(chain(x) < chain(x))
            BY <2>6
      <4>2. ~Came(x, x)
            BY <1>2
      <4>3. InBlock(x, x) <=> chain(x) < chain(x) \/ (chain(x) = chain(x) /\ Came(x, x))
            BY <2>7, <2>9
      <4> QED
          BY <4>1, <4>2, <4>3
    <3>2. \A x, y, z \in S : InBlock(x, y) /\ InBlock(y, z) => InBlock(x, z)
      <4> TAKE x, y, z \in S
      <4>1. chain(x) \in Nat /\ chain(y) \in Nat /\ chain(z) \in Nat
            BY <2>6
      <4>2. Came(x, y) /\ Came(y, z) => Came(x, z)
            BY <1>2
      <4>3. /\ InBlock(x, y) <=> chain(x) < chain(y) \/ (chain(x) = chain(y) /\ Came(x, y))
            /\ InBlock(y, z) <=> chain(y) < chain(z) \/ (chain(y) = chain(z) /\ Came(y, z))
            /\ InBlock(x, z) <=> chain(x) < chain(z) \/ (chain(x) = chain(z) /\ Came(x, z))
            BY <2>7, <2>9
      <4> QED
          BY <4>1, <4>2, <4>3
    <3>3. \A x, y \in S : x = y \/ InBlock(x, y) \/ InBlock(y, x)
      <4> TAKE x, y \in S
      <4>1. chain(x) < chain(y) \/ chain(y) < chain(x) \/ chain(x) = chain(y)
            BY <2>6
      <4> QED
          BY <1>2, <2>7, <2>9, <4>1
    <3> QED
        BY <3>1, <3>2, <3>3
  <2>10. CASE store \notin {"sqlite by key", "sqlite by chain"}
         BY <1>2, <2>7, <2>10
  <2> QED
      BY <2>8, <2>9, <2>10
<1>6. \A x \in S : block(x) \in Nat
      BY <1>1, QueryConstants
<1>7. \A x, y \in S :
         <<x, y>> \in ByBlock(S) <=> block(x) < block(y) \/ (block(x) = block(y) /\ InBlock(x, y))
      BY OrdersSay
<1> HIDE DEF block
<1>8. StrictOrder(S, ByBlock(S))
  <2>1. \A x \in S : <<x, x>> \notin ByBlock(S)
        BY <1>5, <1>6, <1>7
  <2>2. \A x, y, z \in S :
           <<x, y>> \in ByBlock(S) /\ <<y, z>> \in ByBlock(S) => <<x, z>> \in ByBlock(S)
    <3> TAKE x, y, z \in S
    <3>1. block(x) \in Nat /\ block(y) \in Nat /\ block(z) \in Nat
          BY <1>6
    <3> QED
        BY <1>5, <1>7, <3>1
  <2>3. \A x, y \in S : x = y \/ <<x, y>> \in ByBlock(S) \/ <<y, x>> \in ByBlock(S)
    <3> TAKE x, y \in S
    <3>1. block(x) \in Nat /\ block(y) \in Nat
          BY <1>6
    <3>2. block(x) < block(y) \/ block(y) < block(x) \/ block(x) = block(y)
          BY <3>1
    <3> QED
        BY <1>5, <1>7, <3>2
  <2> QED
      BY <2>1, <2>2, <2>3 DEF StrictOrder
<1> QED
    BY <1>4, <1>8

\* A list of the memory store is its rows in the order of arrival.
LEMMA PlacesAreRows ==
    ASSUME RowsInv, NEW P \in SUBSET DOMAIN rows, NEW T, T = {rows[n] : n \in P}
    PROVE  AtPlaces(P) = InOrder(T, Arrival(T))
<1>1. P \subseteq Nat /\ IsFiniteSet(P)
  <2>1. P \in SUBSET (DOMAIN rows) /\ IsFiniteSet(DOMAIN rows)
        BY StoredRows
  <2> QED
      BY <2>1, StoredRows, FS_Subset
<1>2. StrictOrder(P, Ascent(P)) /\ \A n, m \in P : <<n, m>> \in Ascent(P) <=> n < m
  <2>1. P \in SUBSET Int
        BY <1>1
  <2> QED
      BY <2>1, NumbersAreOrdered DEF Ascent
<1>3. \A n, m \in P : rows[n] = rows[m] => n = m
      BY DEF RowsInv
<1>4. \A n, m \in P : n < m <=> Came(rows[n], rows[m])
  <2> TAKE n, m \in P
  <2>1. n \in DOMAIN rows /\ m \in DOMAIN rows
        OBVIOUS
  <2>2. Came(rows[n], rows[m]) => n < m
        BY <2>1 DEF Came, RowsInv
  <2>3. n < m => Came(rows[n], rows[m])
        BY <2>1 DEF Came
  <2> QED
      BY <2>2, <2>3
<1>5. \A n, m \in P : <<n, m>> \in Ascent(P) <=> <<rows[n], rows[m]>> \in Arrival(T)
  <2>1. \A x, y \in T : <<x, y>> \in Arrival(T) <=> Came(x, y)
        BY OrdersSay
  <2>2. \A n \in P : rows[n] \in T
        OBVIOUS
  <2> QED
      BY <1>2, <1>4, <2>1, <2>2
<1>6. PICK s, r : s = InOrder(P, Ascent(P)) /\ r = rows
      OBVIOUS
<1>7. InOrder(T, Arrival(T)) = [n \in DOMAIN s |-> r[s[n]]]
  <2>1. PICK A, B : A = Ascent(P) /\ B = Arrival(T)
        OBVIOUS
  <2>2. T = {r[n] : n \in P} /\ OneToOne(r, P)
        BY <1>3, <1>6 DEF OneToOne
  <2>3. Maps(r, P, A, B)
        BY <1>5, <1>6, <2>1 DEF Maps
  <2>4. IsFiniteSet(P) /\ StrictOrder(P, A) /\ s = InOrder(P, A)
        BY <1>1, <1>2, <1>6, <2>1
  <2>5. InOrder(T, B) = [n \in DOMAIN s |-> r[s[n]]]
        BY <2>2, <2>3, <2>4, OrderIsMapped
  <2> QED
      BY <2>1, <2>5
<1> QED
    BY <1>6, <1>7 DEF AtPlaces

\* What the route lists: the rows wanted, in the store's order.
ListsInOrder ==
    \A c, k : /\ Wanted(c, k) \subseteq Stored /\ IsFiniteSet(Wanted(c, k))
              /\ StrictOrder(Wanted(c, k), Order(Wanted(c, k)))
              /\ Listed(c, k) = InOrder(Wanted(c, k), Order(Wanted(c, k)))

LEMMA ListsAreOrdered == RowsInv => ListsInOrder
<1> SUFFICES ASSUME RowsInv, NEW c, NEW k
             PROVE  /\ Wanted(c, k) \subseteq Stored /\ IsFiniteSet(Wanted(c, k))
                    /\ StrictOrder(Wanted(c, k), Order(Wanted(c, k)))
                    /\ Listed(c, k) = InOrder(Wanted(c, k), Order(Wanted(c, k)))
    BY DEF ListsInOrder
<1>1. PICK W : W = Wanted(c, k)
      OBVIOUS
<1>2. W \in SUBSET Stored
      BY <1>1 DEF Wanted
<1>3. IsFiniteSet(W)
      BY <1>2, StoredRows, FS_Subset
<1>4. StrictOrder(W, Order(W))
      BY <1>2, OrdersAreStrict DEF Order
<1>5. CASE store = "memory" /\ k = 0
  <2>1. PICK P : P = {n \in DOMAIN rows : Logged[rows[n]].code = c}
        OBVIOUS
  <2>2. P \in SUBSET DOMAIN rows /\ W = {rows[n] : n \in P}
        BY <1>1, <1>5, <2>1 DEF Wanted, Stored
  <2>3. AtPlaces(P) = InOrder(W, Arrival(W))
        BY <2>2, PlacesAreRows
  <2> QED
      BY <1>1, <1>2, <1>3, <1>4, <1>5, <2>1, <2>3 DEF Listed, MemoryByCode, Order
<1>6. CASE store = "memory" /\ k # 0
  <2>1. PICK P : P = {n \in DOMAIN rows : Logged[rows[n]].code = c /\ Logged[rows[n]].chain = k}
        OBVIOUS
  <2>2. P \in SUBSET DOMAIN rows /\ W = {rows[n] : n \in P}
        BY <1>1, <1>6, <2>1 DEF Wanted, Stored
  <2>3. AtPlaces(P) = InOrder(W, Arrival(W))
        BY <2>2, PlacesAreRows
  <2> QED
      BY <1>1, <1>2, <1>3, <1>4, <1>6, <2>1, <2>3 DEF Listed, MemoryByChain, Order
<1>7. CASE store # "memory" /\ k = 0
  <2>1. W = {i \in Stored : Logged[i].code = c}
        BY <1>1, <1>7 DEF Wanted
  <2> QED
      BY <1>1, <1>2, <1>3, <1>4, <1>7, <2>1 DEF Listed, SqliteByCode, Ordered, Order
<1>8. CASE store # "memory" /\ k # 0
  <2>1. W = {i \in Stored : Logged[i].code = c /\ Logged[i].chain = k}
        BY <1>1, <1>8 DEF Wanted
  <2> QED
      BY <1>1, <1>2, <1>3, <1>4, <1>8, <2>1 DEF Listed, SqliteByChain, Ordered, Order
<1> QED
    BY <1>5, <1>6, <1>7, <1>8

Joint(u, s, t) ==
    /\ \A i \in DOMAIN s : i \in DOMAIN u /\ u[i] = s[i]
    /\ \A i \in DOMAIN t : Len(s) + i \in DOMAIN u /\ u[Len(s) + i] = t[i]
    /\ \A i \in DOMAIN u : i \in DOMAIN s \/ (i - Len(s) \in DOMAIN t /\ i > Len(s))

\* Where the elements of a concatenation stand.
LEMMA Joined ==
    ASSUME NEW T, NEW s \in Seq(T), NEW t \in Seq(T), NEW u, u = s \o t
    PROVE  /\ u \in Seq(T)
           /\ Len(s) \in Nat /\ Len(t) \in Nat
           /\ DOMAIN s = 1..Len(s) /\ DOMAIN t = 1..Len(t)
           /\ DOMAIN u = 1..Len(s) + Len(t)
           /\ Joint(u, s, t)
<1>1. s \o t \in Seq(T) /\ Len(s \o t) = Len(s) + Len(t)
      OBVIOUS
<1>2. \A i \in 1..Len(s) + Len(t) : (s \o t)[i] = IF i =< Len(s) THEN s[i] ELSE t[i - Len(s)]
      OBVIOUS
<1>3. PICK m, n : m = Len(s) /\ n = Len(t)
      OBVIOUS
<1>4. m \in Nat /\ n \in Nat /\ DOMAIN s = 1..m /\ DOMAIN t = 1..n
      BY <1>3
<1>5. u \in Seq(T) /\ DOMAIN u = 1..m + n
      BY <1>1, <1>3
<1>6. \A i \in 1..m + n : u[i] = IF i =< m THEN s[i] ELSE t[i - m]
      BY <1>2, <1>3, Zenon
<1>7. \A i \in 1..m : i \in 1..m + n /\ i =< m
      BY <1>4
<1>8. \A i \in 1..n : m + i \in DOMAIN u /\ u[m + i] = t[i]
  <2> TAKE i \in 1..n
  <2>1. PICK q : q = m + i
        OBVIOUS
  <2>2. q \in 1..m + n /\ ~(q =< m) /\ q - m = i
        BY <1>4, <2>1
  <2>3. u[q] = t[i]
        BY <1>6, <2>2
  <2> QED
      BY <1>5, <2>1, <2>2, <2>3
<1>9. \A i \in 1..m + n : i \in 1..m \/ (i - m \in 1..n /\ i > m)
      BY <1>4
<1> QED
    BY <1>3, <1>4, <1>5, <1>6, <1>7, <1>8, <1>9 DEF Joint

\* The order of a list in terms of its rows.
Leads(x, y) ==
    IF store = "memory" THEN Came(x, y)
    ELSE \/ Logged[x].block < Logged[y].block
         \/ Logged[x].block = Logged[y].block /\ InBlock(x, y)

OrderIsPrecedence ==
    \A c, k : \A x, y \in Wanted(c, k) : <<x, y>> \in Order(Wanted(c, k)) <=> Leads(x, y)

LEMMA OrderSays == OrderIsPrecedence
<1> SUFFICES ASSUME NEW c, NEW k, NEW x \in Wanted(c, k), NEW y \in Wanted(c, k)
             PROVE  <<x, y>> \in Order(Wanted(c, k)) <=> Leads(x, y)
    BY DEF OrderIsPrecedence
<1>1. PICK W : W = Wanted(c, k)
      OBVIOUS
<1>2. /\ <<x, y>> \in Arrival(W) <=> Came(x, y)
      /\ <<x, y>> \in ByBlock(W) <=>
            \/ Logged[x].block < Logged[y].block
            \/ Logged[x].block = Logged[y].block /\ InBlock(x, y)
      BY <1>1, OrdersSay
<1>3. <<x, y>> \in Order(W) <=> Leads(x, y)
      BY <1>2 DEF Order, Leads
<1> QED
    BY <1>1, <1>3

ListFacts ==
    \A c, k : Listed(c, k) \in Seq(Nat) /\ OneToOne(Listed(c, k), DOMAIN Listed(c, k))

LEMMA ListsAreFine == RowsInv => ListFacts
<1> SUFFICES ASSUME RowsInv, NEW c, NEW k
             PROVE  Listed(c, k) \in Seq(Nat) /\ OneToOne(Listed(c, k), DOMAIN Listed(c, k))
    BY DEF ListFacts
<1>1. PICK W, R, L : W = Wanted(c, k) /\ R = Order(W) /\ L = Listed(c, k)
      OBVIOUS
<1>2. W \subseteq Stored /\ IsFiniteSet(W) /\ StrictOrder(W, R) /\ L = InOrder(W, R)
      BY <1>1, ListsAreOrdered DEF ListsInOrder
<1>3. L \in Seq(W)
      BY <1>2, PlaceInOrder
<1>4. /\ Cardinality(W) \in Nat /\ DOMAIN L = 1..Cardinality(W)
      /\ \A n \in DOMAIN L : Cardinality(Below(W, R, L[n])) = n - 1
      BY <1>2, PlaceInOrder
<1>5. OneToOne(L, DOMAIN L)
  <2> SUFFICES ASSUME NEW n \in DOMAIN L, NEW m \in DOMAIN L, L[n] = L[m]
               PROVE  n = m
      BY DEF OneToOne
  <2>1. n - 1 = m - 1
        BY <1>4
  <2> QED
      BY <1>4, <2>1
<1>6. L \in Seq(Nat)
  <2>1. W \subseteq Nat
        BY <1>2, StoredRows
  <2> QED
      BY <1>3, <2>1, SeqMonotonic
<1> QED
    BY <1>1, <1>5, <1>6

Grown == \A c, k : Keeps(Listed(c, k), Listed(c, k)')

Extended == \A c, k : Prolongs(Listed(c, k), Listed(c, k)')

\* Rows that arrive push listed ones back, or follow them if their blocks are later.
LEMMA RowsGrow ==
    ASSUME RowsInv, RowsInv', NEW b \in Seq(Nat), rows' = rows \o b, UNCHANGED store
    PROVE  /\ Grown
           /\ (\A x \in Stored, y \in Stored' \ Stored : Logged[x].block < Logged[y].block) =>
                 Extended
<1>1. rows \in Seq(Nat) /\ DOMAIN rows \subseteq Nat
  <2>1. scanned \in Nat /\ 1..scanned \subseteq Nat
        BY QueryConstants DEF RowsInv
  <2> QED
      BY <2>1, StoredRows DEF RowsInv
<1>2. PICK s, u : s = rows /\ u = rows'
      OBVIOUS
<1>3. /\ Len(s) \in Nat /\ DOMAIN s = 1..Len(s)
      /\ \A i \in DOMAIN s : i \in DOMAIN u /\ u[i] = s[i]
      /\ \A i \in DOMAIN u : i \in DOMAIN s \/ i > Len(s)
  <2>1. s \in Seq(Nat) /\ u = s \o b
        BY <1>1, <1>2
  <2> QED
      BY <2>1, Joined DEF Joint
<1>4. Stored \subseteq Stored'
      BY <1>2, <1>3 DEF Stored
<1>5. \A x, y \in Stored : Came(x, y) <=> Came(x, y)'
  <2> TAKE x, y \in Stored
  <2>1. Came(x, y) => Came(x, y)'
        BY <1>2, <1>3 DEF Came
  <2>2. ASSUME Came(x, y)'
        PROVE  Came(x, y)
    <3>1. PICK n, m \in DOMAIN u : n < m /\ u[n] = x /\ u[m] = y
          BY <1>2, <2>2 DEF Came
    <3>2. PICK i, j \in DOMAIN s : s[i] = x /\ s[j] = y
          BY <1>2 DEF Stored
    <3>3. u[i] = x /\ u[j] = y /\ i \in DOMAIN u /\ j \in DOMAIN u
          BY <1>3, <3>2
    <3>4. n = i /\ m = j
          BY <1>2, <3>1, <3>3 DEF RowsInv
    <3> QED
        BY <1>2, <3>1, <3>2, <3>4 DEF Came
  <2> QED
      BY <2>1, <2>2
<1>6. \A x \in Stored, y \in Stored' \ Stored : Came(x, y)'
  <2> SUFFICES ASSUME NEW x \in Stored, NEW y \in Stored', y \notin Stored
               PROVE  Came(x, y)'
      OBVIOUS
  <2>1. PICK n \in DOMAIN s : s[n] = x
        BY <1>2 DEF Stored
  <2>2. PICK m \in DOMAIN u : u[m] = y
        BY <1>2 DEF Stored
  <2>3. m \notin DOMAIN s
        BY <1>2, <1>3, <2>2 DEF Stored
  <2>4. n < m /\ n \in DOMAIN u /\ u[n] = x
        BY <1>3, <2>1, <2>3
  <2> QED
      BY <1>2, <2>2, <2>4 DEF Came
<1>7. ListsInOrder /\ ListsInOrder' /\ OrderIsPrecedence /\ OrderIsPrecedence'
      BY ListsAreOrdered, OrderSays, PTL
<1>8. ASSUME NEW c, NEW k
      PROVE  /\ Keeps(Listed(c, k), Listed(c, k)')
             /\ (\A x \in Stored, y \in Stored' \ Stored : Logged[x].block < Logged[y].block) =>
                   Prolongs(Listed(c, k), Listed(c, k)')
  <2>1. PICK S, T, R, Q, L, M :
           /\ S = Wanted(c, k) /\ R = Order(Wanted(c, k)) /\ L = Listed(c, k)
           /\ T = Wanted(c, k)' /\ Q = Order(Wanted(c, k))' /\ M = Listed(c, k)'
        OBVIOUS
  <2>2. S \subseteq Stored /\ StrictOrder(S, R) /\ L = InOrder(S, R)
        BY <1>7, <2>1 DEF ListsInOrder
  <2>3. IsFiniteSet(T) /\ StrictOrder(T, Q) /\ M = InOrder(T, Q)
        BY <1>7, <2>1 DEF ListsInOrder
  <2>4. /\ S \subseteq T
        /\ \A y \in T : y \in Stored' /\ (y \notin S => y \notin Stored)
        BY <1>4, <2>1 DEF Wanted
  <2>5. \A x, y \in S : <<x, y>> \in R <=> Leads(x, y)
        BY <1>7, <2>1 DEF OrderIsPrecedence
  <2>6. \A x, y \in T : <<x, y>> \in Q <=> Leads(x, y)'
        BY <1>7, <2>1 DEF OrderIsPrecedence
  <2>7. \A x, y \in S : Leads(x, y) <=> Leads(x, y)'
        BY <1>5, <2>2 DEF Leads, InBlock
  <2>8. Agree(S, R, Q)
        BY <2>4, <2>5, <2>6, <2>7 DEF Agree
  <2>9. Keeps(L, M) /\ (Follow(S, T, Q) => Prolongs(L, M))
        BY <2>2, <2>3, <2>4, <2>8, PlacesGrow
  <2>10. ASSUME \A x \in Stored, y \in Stored' \ Stored : Logged[x].block < Logged[y].block
         PROVE  Prolongs(L, M)
    <3>1. \A x \in S, y \in T \ S : Leads(x, y)'
          BY <1>6, <2>2, <2>4, <2>10 DEF Leads, InBlock
    <3>2. Follow(S, T, Q)
          BY <2>4, <2>6, <3>1 DEF Follow
    <3> QED
        BY <2>9, <3>2
  <2> QED
      BY <2>1, <2>9, <2>10
<1> QED
    BY <1>8 DEF Grown, Extended

\* What was there at the start is seen, or ahead of the page; what is seen is behind.
Ahead(L, off, before, s) ==
    \A e \in before : \/ \E i \in DOMAIN s : s[i] = e
                      \/ \E n \in DOMAIN L : n > off /\ L[n] = e

Behind(L, off, s) == \A i \in DOMAIN s : \E n \in DOMAIN L : n =< off /\ L[n] = s[i]

\* A list that grows loses nothing ahead; one that is extended moves nothing behind.
LEMMA GrownAhead ==
    ASSUME NEW L \in Seq(Nat), NEW M \in Seq(Nat), NEW off \in Nat, NEW before, NEW s
    PROVE  /\ Keeps(L, M) /\ Ahead(L, off, before, s) => Ahead(M, off, before, s)
           /\ Prolongs(L, M) /\ Behind(L, off, s) => Behind(M, off, s)
<1>1. ASSUME Keeps(L, M), Ahead(L, off, before, s), NEW e \in before,
             ~\E i \in DOMAIN s : s[i] = e
      PROVE  \E n \in DOMAIN M : n > off /\ M[n] = e
  <2>1. PICK n \in DOMAIN L : n > off /\ L[n] = e
        BY <1>1 DEF Ahead
  <2>2. PICK m \in DOMAIN M : m >= n /\ M[m] = L[n]
        BY <1>1, <2>1 DEF Keeps
  <2>3. n \in Nat /\ m \in Nat
        OBVIOUS
  <2> QED
      BY <2>1, <2>2, <2>3
<1>2. Prolongs(L, M) /\ Behind(L, off, s) => Behind(M, off, s)
      BY DEF Prolongs, Behind
<1> QED
    BY <1>1, <1>2 DEF Ahead

Cut(p, L, off, lim) ==
    /\ \A i \in DOMAIN p : off + i \in DOMAIN L /\ off + i =< off + lim /\ p[i] = L[off + i]
    /\ \A n \in DOMAIN L : n > off /\ n =< off + lim => n - off \in DOMAIN p /\ p[n - off] = L[n]

\* A page is what stands at its places.
LEMMA PageIs ==
    ASSUME NEW L \in Seq(Nat), NEW off \in Nat, NEW lim \in Nat, NEW p, p = Page(L, off, lim)
    PROVE  p \in Seq(Nat) /\ Cut(p, L, off, lim)
<1>1. PICK a, b, N : /\ a = off + 1 /\ N = Len(L)
                     /\ b = IF off + lim < N THEN off + lim ELSE N
      OBVIOUS
<1>2. N \in Nat /\ DOMAIN L = 1..N /\ a \in Nat /\ a >= 1 /\ b \in Nat
      BY <1>1
<1>3. b =< off + lim /\ b =< N /\ (\A n \in 1..N : n =< off + lim => n =< b)
      BY <1>1, <1>2
<1>4. p = SubSeq(L, a, b)
      BY <1>1 DEF Page
<1>5. \A i \in a..b : i \in DOMAIN L /\ L[i] \in Nat
  <2>1. \A i \in a..b : i \in 1..N
        BY <1>2, <1>3
  <2>2. \A i \in 1..N : L[i] \in Nat
        BY <1>2, ElementOfSeq
  <2> QED
      BY <1>2, <2>1, <2>2
<1>6. /\ SubSeq(L, a, b) \in Seq(Nat)
      /\ Len(SubSeq(L, a, b)) = IF a =< b THEN b - a + 1 ELSE 0
      /\ \A i \in 1..b - a + 1 : SubSeq(L, a, b)[i] = L[a + i - 1]
  <2>1. a \in Int /\ b \in Int /\ \A i \in a..b : L[i] \in Nat
        BY <1>2, <1>5
  <2> QED
      BY <2>1, SubSeqProperties
<1>7. \A i \in 1..b - a + 1 : a + i - 1 = off + i /\ off + i \in a..b /\ i =< lim
      BY <1>1, <1>2, <1>3
<1>8. p \in Seq(Nat) /\ DOMAIN p = 1..b - a + 1
  <2>1. p \in Seq(Nat) /\ Len(p) = IF a =< b THEN b - a + 1 ELSE 0
        BY <1>4, <1>6
  <2>2. DOMAIN p = 1..Len(p)
        BY <2>1
  <2>3. 1..(IF a =< b THEN b - a + 1 ELSE 0) = 1..b - a + 1
        BY <1>2
  <2> QED
      BY <2>1, <2>2, <2>3
<1>9. \A i \in DOMAIN p : p[i] = L[off + i]
      BY <1>4, <1>6, <1>7, <1>8
<1>10. \A i \in DOMAIN p : off + i \in DOMAIN L /\ off + i =< off + lim
  <2> TAKE i \in DOMAIN p
  <2>1. off + i \in DOMAIN L /\ i =< lim /\ i \in Int
        BY <1>5, <1>7, <1>8
  <2> QED
      BY <2>1
<1>11. ASSUME NEW n \in DOMAIN L, n > off, n =< off + lim
       PROVE  n - off \in DOMAIN p /\ p[n - off] = L[n]
  <2>1. n \in 1..N /\ n =< b
        BY <1>2, <1>3, <1>11
  <2>2. n - off \in 1..b - a + 1 /\ off + (n - off) = n
        BY <1>1, <1>2, <1>11, <2>1
  <2> QED
      BY <1>8, <1>9, <2>2
<1> QED
    BY <1>8, <1>9, <1>10, <1>11 DEF Cut

\* Taking a page moves its elements from ahead to behind, each once.
LEMMA PageTaken ==
    ASSUME NEW L \in Seq(Nat), OneToOne(L, DOMAIN L), NEW off \in Nat, NEW lim \in Nat,
           NEW s \in Seq(Nat), NEW before, NEW t, t = s \o Page(L, off, lim)
    PROVE  /\ t \in Seq(Nat)
           /\ Ahead(L, off, before, s) => Ahead(L, off + lim, before, t)
           /\ Behind(L, off, s) => Behind(L, off + lim, t)
           /\ Behind(L, off, s) /\ OneToOne(s, DOMAIN s) => OneToOne(t, DOMAIN t)
<1>1. PICK p, k : p = Page(L, off, lim) /\ k = Len(s)
      OBVIOUS
<1>2. p \in Seq(Nat) /\ Cut(p, L, off, lim)
      BY <1>1, PageIs
<1>3. /\ t \in Seq(Nat) /\ k \in Nat
      /\ DOMAIN s \subseteq Nat /\ DOMAIN p \subseteq Nat \ {0} /\ DOMAIN t \subseteq Nat
      /\ \A i \in DOMAIN s : i \in DOMAIN t /\ t[i] = s[i]
      /\ \A i \in DOMAIN p : k + i \in DOMAIN t /\ t[k + i] = p[i]
      /\ \A i \in DOMAIN t : i \in DOMAIN s \/ (i - k \in DOMAIN p /\ i > k)
  <2>1. t = s \o p /\ p \in Seq(Nat)
        BY <1>1, <1>2
  <2>2. /\ t \in Seq(Nat)
        /\ Len(s) \in Nat /\ Len(p) \in Nat
        /\ DOMAIN s = 1..Len(s) /\ DOMAIN p = 1..Len(p)
        /\ DOMAIN t = 1..Len(s) + Len(p)
        /\ Joint(t, s, p)
        BY <2>1, Joined
  <2> QED
      BY <1>1, <2>2 DEF Joint
<1>4. \A i \in DOMAIN t : \/ i \in DOMAIN s /\ t[i] = s[i]
                          \/ /\ off + (i - k) \in DOMAIN L /\ t[i] = L[off + (i - k)]
                             /\ off + (i - k) =< off + lim /\ i > k
  <2> TAKE i \in DOMAIN t
  <2>1. CASE i \in DOMAIN s
        BY <1>3, <2>1
  <2>2. CASE i - k \in DOMAIN p /\ i > k
    <3>1. k + (i - k) = i
          BY <1>3
    <3>2. t[k + (i - k)] = p[i - k]
          BY <1>3, <2>2
    <3> QED
        BY <1>2, <2>2, <3>1, <3>2 DEF Cut
  <2> QED
      BY <1>3, <2>1, <2>2
<1>5. ASSUME Ahead(L, off, before, s), NEW e \in before,
             ~\E n \in DOMAIN L : n > off + lim /\ L[n] = e
      PROVE  \E i \in DOMAIN t : t[i] = e
  <2>1. CASE \E i \in DOMAIN s : s[i] = e
        BY <1>3, <2>1
  <2>2. CASE \E n \in DOMAIN L : n > off /\ L[n] = e
    <3>1. PICK n \in DOMAIN L : n > off /\ L[n] = e
          BY <2>2
    <3>2. n \in Nat
          OBVIOUS
    <3>3. n =< off + lim
          BY <1>5, <3>1, <3>2
    <3>4. n - off \in DOMAIN p /\ p[n - off] = e
          BY <1>2, <3>1, <3>3 DEF Cut
    <3> QED
        BY <1>3, <3>4
  <2> QED
      BY <1>5, <2>1, <2>2 DEF Ahead
<1>6. ASSUME Behind(L, off, s)
      PROVE  Behind(L, off + lim, t)
  <2> SUFFICES ASSUME NEW i \in DOMAIN t
               PROVE  \E n \in DOMAIN L : n =< off + lim /\ L[n] = t[i]
      BY DEF Behind
  <2>1. CASE i \in DOMAIN s /\ t[i] = s[i]
    <3>1. PICK n \in DOMAIN L : n =< off /\ L[n] = s[i]
          BY <1>6, <2>1 DEF Behind
    <3>2. n \in Nat
          OBVIOUS
    <3> QED
        BY <2>1, <3>1, <3>2
  <2>2. CASE /\ off + (i - k) \in DOMAIN L /\ t[i] = L[off + (i - k)]
             /\ off + (i - k) =< off + lim
        BY <2>2
  <2> QED
      BY <1>4, <2>1, <2>2
<1>7. ASSUME Behind(L, off, s), OneToOne(s, DOMAIN s)
      PROVE  OneToOne(t, DOMAIN t)
  <2>1. \A i, j \in DOMAIN t :
           i \in DOMAIN s /\ t[i] = s[i] /\ j > k /\ off + (j - k) \in DOMAIN L
             => s[i] # L[off + (j - k)]
    <3> SUFFICES ASSUME NEW i \in DOMAIN s, NEW j \in DOMAIN t,
                        j > k, off + (j - k) \in DOMAIN L, s[i] = L[off + (j - k)]
                 PROVE  FALSE
        OBVIOUS
    <3>1. PICK n \in DOMAIN L : n =< off /\ L[n] = s[i]
          BY <1>7 DEF Behind
    <3>2. n = off + (j - k)
          BY <3>1 DEF OneToOne
    <3>3. n \in Nat /\ j \in Nat
      <4>1. DOMAIN L \subseteq Nat
            OBVIOUS
      <4> QED
          BY <1>3, <4>1
    <3> QED
        BY <1>3, <3>1, <3>2, <3>3
  <2>2. SUFFICES ASSUME NEW i \in DOMAIN t, NEW j \in DOMAIN t, t[i] = t[j]
                 PROVE  i = j
        BY DEF OneToOne
  <2>3. i \in Nat /\ j \in Nat
        BY <1>3
  <2>4. CASE i \in DOMAIN s /\ t[i] = s[i]
    <3>1. j \in DOMAIN s /\ t[j] = s[j]
          BY <1>4, <2>1, <2>2, <2>4
    <3> QED
        BY <1>7, <2>2, <2>4, <3>1 DEF OneToOne
  <2>5. CASE /\ off + (i - k) \in DOMAIN L /\ t[i] = L[off + (i - k)] /\ i > k
    <3>1. off + (j - k) \in DOMAIN L /\ t[j] = L[off + (j - k)]
          BY <1>4, <2>1, <2>2, <2>5
    <3>2. off + (i - k) = off + (j - k)
          BY <2>2, <2>5, <3>1 DEF OneToOne
    <3> QED
        BY <1>3, <2>3, <3>2
  <2> QED
      BY <1>4, <2>4, <2>5
<1> QED
    BY <1>3, <1>5, <1>6, <1>7 DEF Ahead

\* Rows are added that were not there.
LEMMA RowsAdded ==
    ASSUME RowsInv, NEW b, b \in Seq(1..scanned'), scanned' \in scanned..Len(Logged),
           OneToOne(b, DOMAIN b), \A i \in DOMAIN b : b[i] \notin Stored, rows' = rows \o b,
           scanned' \in 1..Len(Logged) - 1 =>
                Logged[scanned'].block < Logged[scanned' + 1].block
    PROVE  /\ RowsInv' /\ b \in Seq(Nat)
           /\ \A y \in Stored' \ Stored : \E i \in DOMAIN b : y = b[i]
<1>1. PICK s, u, q : s = rows /\ u = rows' /\ q = scanned'
      OBVIOUS
<1>2. Len(Logged) \in Nat /\ scanned \in Nat /\ q \in Nat /\ q \in 0..Len(Logged)
  <2>1. Len(Logged) \in Nat
        BY QueryConstants
  <2> QED
      BY <1>1, <2>1 DEF RowsInv
<1>3. s \in Seq(1..q) /\ b \in Seq(1..q) /\ b \in Seq(Nat)
  <2>1. 1..scanned \subseteq 1..q /\ 1..q \subseteq Nat
        BY <1>1, <1>2
  <2>2. s \in Seq(1..scanned) /\ b \in Seq(1..q)
        BY <1>1 DEF RowsInv
  <2> QED
      BY <2>1, <2>2, SeqMonotonic
<1>4. /\ u \in Seq(1..q) /\ Len(s) \in Nat /\ DOMAIN s = 1..Len(s) /\ DOMAIN b = 1..Len(b)
      /\ DOMAIN u = 1..Len(s) + Len(b) /\ Len(b) \in Nat
      /\ Joint(u, s, b)
  <2> PICK T : T = 1..q
      OBVIOUS
  <2>1. s \in Seq(T) /\ b \in Seq(T) /\ u = s \o b
        BY <1>1, <1>3
  <2>2. u \in Seq(T)
        BY <2>1, Joined
  <2>3. Len(s) \in Nat /\ Len(b) \in Nat
        BY <2>1, Joined
  <2>4. DOMAIN s = 1..Len(s) /\ DOMAIN b = 1..Len(b)
        BY <2>1, Joined
  <2>5. DOMAIN u = 1..Len(s) + Len(b)
        BY <2>1, Joined
  <2>6. Joint(u, s, b)
        BY <2>1, Joined
  <2> QED
      BY <2>2, <2>3, <2>4, <2>5, <2>6
<1>5. \A i \in DOMAIN u : \/ i \in DOMAIN s /\ u[i] = s[i]
                          \/ i - Len(s) \in DOMAIN b /\ u[i] = b[i - Len(s)]
  <2> TAKE i \in DOMAIN u
  <2>1. CASE i \in DOMAIN s
        BY <1>4, <2>1 DEF Joint
  <2>2. CASE i - Len(s) \in DOMAIN b
    <3>1. Len(s) + (i - Len(s)) = i
          BY <1>4
    <3>2. u[Len(s) + (i - Len(s))] = b[i - Len(s)]
          BY <1>4, <2>2 DEF Joint
    <3> QED
        BY <2>2, <3>1, <3>2
  <2> QED
      BY <1>4, <2>1, <2>2 DEF Joint
<1>6. ASSUME NEW n \in DOMAIN u, NEW m \in DOMAIN u, u[n] = u[m]
      PROVE  n = m
  <2>1. \A i \in DOMAIN s, j \in DOMAIN b : s[i] # b[j]
        BY <1>1 DEF Stored
  <2>2. CASE n \in DOMAIN s /\ u[n] = s[n]
    <3>1. m \in DOMAIN s /\ u[m] = s[m]
          BY <1>5, <1>6, <2>1, <2>2
    <3> QED
        BY <1>1, <1>6, <2>2, <3>1 DEF RowsInv
  <2>3. CASE n - Len(s) \in DOMAIN b /\ u[n] = b[n - Len(s)]
    <3>1. m - Len(s) \in DOMAIN b /\ u[m] = b[m - Len(s)]
          BY <1>5, <1>6, <2>1, <2>3
    <3>2. n - Len(s) = m - Len(s)
          BY <1>6, <2>3, <3>1 DEF OneToOne
    <3> QED
        BY <1>4, <3>2
  <2> QED
      BY <1>5, <2>2, <2>3
<1>7. RowsInv'
  <2>1. scanned' \in 0..Len(Logged) /\ rows' \in Seq(1..scanned')
        BY <1>1, <1>2, <1>4
  <2>2. \A n, m \in DOMAIN rows' : rows'[n] = rows'[m] => n = m
        BY <1>1, <1>6
  <2> QED
      BY <2>1, <2>2 DEF RowsInv
<1>8. \A y \in Stored' \ Stored : \E i \in DOMAIN b : y = b[i]
  <2> SUFFICES ASSUME NEW y \in Stored', y \notin Stored
               PROVE  \E i \in DOMAIN b : y = b[i]
      OBVIOUS
  <2>1. PICK m \in DOMAIN u : u[m] = y
        BY <1>1 DEF Stored
  <2>2. \A i \in DOMAIN s : s[i] # y
        BY <1>1 DEF Stored
  <2> QED
      BY <1>5, <2>1, <2>2
<1> QED
    BY <1>3, <1>7, <1>8

\* A batch adds rows behind all others: a later block begins with it.
LEMMA ScanAdds ==
    ASSUME RowsInv, NEW last, NEW kept, Scan(last, kept)
    PROVE  RowsInv' /\ Grown /\ Extended
<1>1. PICK N, p, b : N = Len(Logged) /\ p = scanned /\ b = [n \in 1..kept - p |-> p + n]
      OBVIOUS
<1>2. N \in Nat /\ p \in Nat
      BY <1>1, QueryConstants DEF RowsInv
<1>3. /\ last \in p + 1..N /\ kept \in p..last /\ rows' = rows \o b /\ scanned' = last
      /\ store' = store /\ (last < N => Logged[last].block < Logged[last + 1].block)
      BY <1>1 DEF Scan
<1>4. b \in Seq(1..last) /\ DOMAIN b = 1..kept - p
  <2>1. PICK d : d = kept - p
        OBVIOUS
  <2>2. d \in Nat /\ \A n \in 1..d : p + n \in 1..last
        BY <1>2, <1>3, <2>1
  <2>3. b = [n \in 1..d |-> p + n]
        BY <1>1, <2>1
  <2>4. DOMAIN b = 1..d /\ b = [n \in 1..d |-> b[n]] /\ \A n \in 1..d : b[n] \in 1..last
        BY <2>2, <2>3
  <2>5. b \in Seq(1..last)
    <3>1. PICK T : T = 1..last
          OBVIOUS
    <3>2. \A n \in 1..d : b[n] \in T
          BY <2>4, <3>1
    <3>3. b \in Seq(T)
          BY <2>2, <2>4, <3>2
    <3> QED
        BY <3>1, <3>3
  <2> QED
      BY <2>1, <2>4, <2>5
<1>5. \A i \in DOMAIN b : b[i] = p + i /\ b[i] > p /\ b[i] \in 1..last
      BY <1>1, <1>2, <1>3, <1>4
<1>6. OneToOne(b, DOMAIN b)
      BY <1>2, <1>4, <1>5 DEF OneToOne
<1>7. \A x \in Stored : x \in 1..p
      BY <1>1, StoredRows
<1>8. \A i \in DOMAIN b : b[i] \notin Stored
      BY <1>2, <1>5, <1>7
<1>9. RowsInv' /\ b \in Seq(Nat) /\ \A y \in Stored' \ Stored : \E i \in DOMAIN b : y = b[i]
  <2>1. b \in Seq(1..scanned') /\ scanned' \in scanned..Len(Logged)
        BY <1>1, <1>2, <1>3, <1>4
  <2>2. scanned' \in 1..Len(Logged) - 1 => Logged[scanned'].block < Logged[scanned' + 1].block
        BY <1>1, <1>2, <1>3
  <2> QED
      BY <1>3, <1>6, <1>8, <2>1, <2>2, RowsAdded
<1>10. \A x \in Stored, y \in Stored' \ Stored : Logged[x].block < Logged[y].block
  <2> SUFFICES ASSUME NEW x \in Stored, NEW y \in Stored' \ Stored
               PROVE  Logged[x].block < Logged[y].block
      OBVIOUS
  <2>1. x \in 1..p /\ y \in 1..last /\ y > p
        BY <1>5, <1>7, <1>9
  <2>2. x \in 1..N /\ y \in 1..N /\ p \in 1..N - 1 /\ p \in 1..N /\ p + 1 \in 1..N
        /\ x =< p /\ p + 1 =< y
        BY <1>2, <1>3, <2>1
  <2>3. Logged[p].block < Logged[p + 1].block
        BY <1>1, <2>2 DEF RowsInv
  <2>4. Logged[x].block =< Logged[p].block /\ Logged[p + 1].block =< Logged[y].block
        BY <1>1, <2>2, QueryConstants
  <2>5. /\ Logged[x].block \in Nat /\ Logged[p].block \in Nat
        /\ Logged[p + 1].block \in Nat /\ Logged[y].block \in Nat
        BY <1>1, <2>2, QueryConstants
  <2> QED
      BY <2>3, <2>4, <2>5
<1>11. UNCHANGED store
      BY <1>3
<1> QED
    BY <1>3, <1>9, <1>10, <1>11, RowsGrow

\* A rescan adds what is missing, and extends the lists if its blocks are later.
LEMMA RescanAdds ==
    ASSUME RowsInv, NEW last, Rescan(last)
    PROVE  RowsInv' /\ Grown /\ (~late' => Extended)
<1>1. PICK S, R, b : S = (1..last) \ Stored /\ R = Ascent(S) /\ b = InOrder(S, R)
      OBVIOUS
<1>2. /\ last \in 1..scanned /\ rows' = rows \o b /\ scanned' = scanned /\ store' = store
      /\ late' = (late \/ \E i \in Stored, m \in S : Logged[m].block =< Logged[i].block)
      BY <1>1 DEF Rescan
<1>3. Len(Logged) \in Nat /\ scanned \in Nat /\ scanned \in 0..Len(Logged)
      BY QueryConstants DEF RowsInv
<1>4. S \subseteq 1..scanned /\ S \in SUBSET (1..last) /\ S \in SUBSET Int /\ last \in Nat
      BY <1>1, <1>2, <1>3
<1>5. IsFiniteSet(S) /\ StrictOrder(S, R) /\ b = InOrder(S, R)
  <2>1. IsFiniteSet(1..last)
        BY <1>4, FS_Interval
  <2>2. IsFiniteSet(S)
        BY <1>4, <2>1, FS_Subset
  <2> QED
      BY <1>1, <1>4, <2>2, NumbersAreOrdered
<1>6. b \in Seq(S)
      BY <1>5, PlaceInOrder
<1>7. /\ Cardinality(S) \in Nat /\ DOMAIN b = 1..Cardinality(S)
      /\ \A n \in DOMAIN b : b[n] \in S /\ Cardinality(Below(S, R, b[n])) = n - 1
      BY <1>5, PlaceInOrder
<1>8. OneToOne(b, DOMAIN b)
  <2> SUFFICES ASSUME NEW n \in DOMAIN b, NEW m \in DOMAIN b, b[n] = b[m]
               PROVE  n = m
      BY DEF OneToOne
  <2>1. n - 1 = m - 1
        BY <1>7
  <2> QED
      BY <1>7, <2>1
<1>9. \A i \in DOMAIN b : b[i] \notin Stored
      BY <1>1, <1>7
<1>10. RowsInv' /\ b \in Seq(Nat) /\ \A y \in Stored' \ Stored : \E i \in DOMAIN b : y = b[i]
  <2>1. b \in Seq(1..scanned') /\ scanned' \in scanned..Len(Logged)
    <3>1. b \in Seq(1..scanned)
          BY <1>4, <1>6, SeqMonotonic
    <3> QED
        BY <1>2, <1>3, <3>1
  <2>2. scanned' \in 1..Len(Logged) - 1 => Logged[scanned'].block < Logged[scanned' + 1].block
        BY <1>2 DEF RowsInv
  <2> QED
      BY <1>2, <1>8, <1>9, <2>1, <2>2, RowsAdded
<1>11. UNCHANGED store
      BY <1>2
<1>12. ASSUME ~late'
       PROVE  \A x \in Stored, y \in Stored' \ Stored : Logged[x].block < Logged[y].block
  <2> SUFFICES ASSUME NEW x \in Stored, NEW y \in Stored' \ Stored
               PROVE  Logged[x].block < Logged[y].block
      OBVIOUS
  <2>1. y \in S
        BY <1>7, <1>10
  <2>2. ~(Logged[y].block =< Logged[x].block)
        BY <1>2, <1>12, <2>1
  <2>3. x \in DOMAIN Logged /\ y \in DOMAIN Logged
        BY <1>3, <1>4, <2>1, StoredRows, QueryConstants
  <2>4. Logged[x].block \in Nat /\ Logged[y].block \in Nat
        BY <2>3, QueryConstants
  <2> QED
      BY <2>2, <2>4
<1> QED
    BY <1>2, <1>10, <1>11, <1>12, RowsGrow

PagerTyped ==
    /\ pager = [step |-> pager.step, code |-> pager.code, chain |-> pager.chain,
                raw |-> pager.raw, offset |-> pager.offset, seen |-> pager.seen,
                before |-> pager.before]
    /\ pager.step \in {"idle", "paging", "done"}
    /\ pager.raw \in Int /\ pager.offset \in Nat /\ pager.seen \in Seq(Nat)

\* What the client began with is seen or ahead, what it has seen is behind it, once.
PagerInv ==
    /\ PagerTyped
    /\ late \in BOOLEAN
    /\ \A c, k : pager.step = "paging" /\ c = pager.code /\ k = pager.chain =>
          /\ Ahead(Listed(c, k), pager.offset, pager.before, pager.seen)
          /\ ~late => Behind(Listed(c, k), pager.offset, pager.seen)
    /\ pager.step = "done" => pager.before \subseteq Seen
    /\ pager.step # "idle" /\ ~late => OneToOne(pager.seen, DOMAIN pager.seen)

LEMMA ListsStay == UNCHANGED <<rows, store>> => \A c, k : Listed(c, k)' = Listed(c, k)
BY DEF Listed, MemoryByCode, MemoryByChain, AtPlaces, SqliteByCode, SqliteByChain, Ordered,
       ByBlock, InBlock, Arrival, Came, Stored

\* The limit a request is given is a number.
LEMMA LimitIsPositive == ASSUME NEW raw \in Int PROVE Limit(raw) \in Nat
BY QueryConstants DEF Limit

\* The client that waits loses nothing when rows are added.
LEMMA RowsKeepPager ==
    ASSUME RowsInv, RowsInv', PagerInv, UNCHANGED pager, Grown, late' \in BOOLEAN,
           late => late', ~late' => Extended
    PROVE  PagerInv'
<1>1. ListFacts /\ ListFacts'
      BY ListsAreFine, PTL
<1>2. ASSUME NEW c, NEW k, pager.step = "paging", c = pager.code, k = pager.chain
      PROVE  /\ Ahead(Listed(c, k)', pager.offset, pager.before, pager.seen)
             /\ ~late' => Behind(Listed(c, k)', pager.offset, pager.seen)
  <2>1. PICK L, M, off, s, before :
           /\ L = Listed(c, k) /\ M = Listed(c, k)' /\ off = pager.offset
           /\ s = pager.seen /\ before = pager.before
        OBVIOUS
  <2>2. L \in Seq(Nat) /\ M \in Seq(Nat) /\ off \in Nat
        BY <1>1, <2>1 DEF ListFacts, PagerInv, PagerTyped
  <2>3. Ahead(L, off, before, s) /\ (~late => Behind(L, off, s))
        BY <1>2, <2>1 DEF PagerInv
  <2>4. Keeps(L, M) /\ (~late' => Prolongs(L, M))
        BY <2>1 DEF Grown, Extended
  <2>5. Ahead(M, off, before, s)
        BY <2>2, <2>3, <2>4, GrownAhead
  <2>6. ~late' => Behind(M, off, s)
        BY <2>2, <2>3, <2>4, GrownAhead
  <2> QED
      BY <2>1, <2>5, <2>6
<1>3. \A c, k : pager'.step = "paging" /\ c = pager'.code /\ k = pager'.chain =>
         /\ Ahead(Listed(c, k)', pager'.offset, pager'.before, pager'.seen)
         /\ ~late' => Behind(Listed(c, k)', pager'.offset, pager'.seen)
      BY <1>2
<1>4. PagerTyped' /\ late' \in BOOLEAN
      BY DEF PagerInv, PagerTyped
<1>5. pager'.step = "done" => pager'.before \subseteq Seen'
      BY DEF PagerInv, Seen
<1>6. pager'.step # "idle" /\ ~late' => OneToOne(pager'.seen, DOMAIN pager'.seen)
      BY DEF PagerInv
<1> QED
    BY <1>3, <1>4, <1>5, <1>6 DEF PagerInv

\* A client that begins has everything ahead.
LEMMA StartKeepsPager ==
    ASSUME RowsInv, PagerInv, NEW c0, NEW k0, NEW raw \in 0..MaxLimit + 1,
           StartPaging(c0, k0, raw)
    PROVE  PagerInv'
<1>1. PICK L0, P : L0 = Listed(c0, k0) /\ P = pager'
      OBVIOUS
<1>2. /\ P = [step |-> "paging", code |-> c0, chain |-> k0, raw |-> raw, offset |-> 0,
              seen |-> <<>>, before |-> {L0[n] : n \in DOMAIN L0}]
      /\ UNCHANGED <<rows, scanned, store, late>>
      BY <1>1 DEF StartPaging, NoPager
<1>3. ASSUME NEW c, NEW k, P.step = "paging", c = P.code, k = P.chain
      PROVE  /\ Ahead(Listed(c, k)', P.offset, P.before, P.seen)
             /\ Behind(Listed(c, k)', P.offset, P.seen)
  <2>1. Listed(c, k)' = L0
    <3>1. c = c0 /\ k = k0
          BY <1>2, <1>3
    <3>2. Listed(c0, k0)' = Listed(c0, k0)
          BY <1>2, ListsStay
    <3> QED
        BY <1>1, <3>1, <3>2
  <2>2. L0 \in Seq(Nat)
        BY <1>1, ListsAreFine DEF ListFacts
  <2>3. Ahead(L0, 0, {L0[n] : n \in DOMAIN L0}, <<>>)
    <3>1. PICK B : B = {L0[n] : n \in DOMAIN L0}
          OBVIOUS
    <3>2. \A e \in B : \E n \in DOMAIN L0 : n > 0 /\ L0[n] = e
      <4> TAKE e \in B
      <4>1. PICK n \in DOMAIN L0 : e = L0[n]
            BY <3>1
      <4>2. n > 0
            BY <2>2
      <4> QED
          BY <4>1, <4>2
    <3>3. Ahead(L0, 0, B, <<>>)
          BY <3>2 DEF Ahead
    <3> QED
        BY <3>1, <3>3
  <2>4. Behind(L0, 0, <<>>)
        BY DEF Behind
  <2> QED
      BY <1>2, <2>1, <2>3, <2>4
<1>4. PagerTyped'
  <2>1. raw \in Int
        BY QueryConstants
  <2> QED
      BY <1>1, <1>2, <2>1 DEF PagerTyped
<1>5. OneToOne(P.seen, DOMAIN P.seen) /\ P.step = "paging"
      BY <1>2 DEF OneToOne
<1> QED
    BY <1>1, <1>2, <1>3, <1>4, <1>5 DEF PagerInv

\* A page that is asked for moves on.
LEMMA AskKeepsPager ==
    ASSUME RowsInv, PagerInv, AskPage
    PROVE  PagerInv'
<1>1. PICK c, k, L, off, lim, s, before, P :
         /\ c = pager.code /\ k = pager.chain /\ L = Listed(c, k) /\ off = pager.offset
         /\ lim = Limit(pager.raw) /\ s = pager.seen /\ before = pager.before /\ P = pager'
      OBVIOUS
<1>2. PICK t : t = s \o Page(L, off, lim)
      OBVIOUS
<1>3. /\ pager.step = "paging"
      /\ P = [pager EXCEPT !.seen = t, !.offset = off + lim,
                           !.step = IF off + lim >= Len(L) THEN "done" ELSE "paging"]
      /\ UNCHANGED <<rows, scanned, store, late>>
      BY <1>1, <1>2 DEF AskPage
<1>4. /\ P.step = (IF off + lim >= Len(L) THEN "done" ELSE "paging")
      /\ P.code = c /\ P.chain = k /\ P.raw = pager.raw /\ P.offset = off + lim
      /\ P.seen = t /\ P.before = before
      /\ P = [step |-> P.step, code |-> P.code, chain |-> P.chain, raw |-> P.raw,
              offset |-> P.offset, seen |-> P.seen, before |-> P.before]
      BY <1>1, <1>3 DEF PagerInv, PagerTyped
<1>5. L \in Seq(Nat) /\ OneToOne(L, DOMAIN L)
      BY <1>1, ListsAreFine DEF ListFacts
<1>6. off \in Nat /\ lim \in Nat /\ s \in Seq(Nat)
      BY <1>1, LimitIsPositive DEF PagerInv, PagerTyped
<1>7. /\ Ahead(L, off, before, s)
      /\ ~late => Behind(L, off, s) /\ OneToOne(s, DOMAIN s)
      BY <1>1, <1>3 DEF PagerInv
<1>8. t \in Seq(Nat)
      BY <1>2, <1>5, <1>6, PageTaken
<1>9. Ahead(L, off + lim, before, t)
      BY <1>2, <1>5, <1>6, <1>7, PageTaken
<1>10. ASSUME ~late
       PROVE  Behind(L, off + lim, t) /\ OneToOne(t, DOMAIN t)
  <2>1. Behind(L, off, s) /\ OneToOne(s, DOMAIN s)
        BY <1>7, <1>10
  <2>2. Behind(L, off + lim, t)
        BY <1>2, <1>5, <1>6, <2>1, PageTaken
  <2>3. OneToOne(t, DOMAIN t)
        BY <1>2, <1>5, <1>6, <2>1, PageTaken
  <2> QED
      BY <2>2, <2>3
<1>11. Listed(c, k)' = L
  <2>1. Listed(c, k)' = Listed(c, k)
        BY <1>3, ListsStay
  <2> QED
      BY <1>1, <2>1
<1>12. PagerTyped' /\ late' \in BOOLEAN
      BY <1>1, <1>3, <1>4, <1>6, <1>8 DEF PagerInv, PagerTyped
<1>13. \A d, l : P.step = "paging" /\ d = P.code /\ l = P.chain =>
          /\ Ahead(Listed(d, l)', P.offset, P.before, P.seen)
          /\ ~late' => Behind(Listed(d, l)', P.offset, P.seen)
      BY <1>3, <1>4, <1>9, <1>10, <1>11
<1>14. P.step = "done" => P.before \subseteq Seen'
  <2> SUFFICES ASSUME P.step = "done", NEW e \in before
               PROVE  e \in Seen'
      BY <1>4
  <2>1. off + lim >= Len(L)
        BY <1>4
  <2>2. \A n \in DOMAIN L : ~(n > off + lim)
        BY <1>5, <1>6, <2>1
  <2>3. \E i \in DOMAIN t : t[i] = e
        BY <1>9, <2>2 DEF Ahead
  <2> QED
      BY <1>1, <1>4, <2>3 DEF Seen
<1>15. ~late' => OneToOne(P.seen, DOMAIN P.seen)
      BY <1>3, <1>4, <1>10
<1> QED
    BY <1>1, <1>12, <1>13, <1>14, <1>15 DEF PagerInv

\* The invariant of the stores and of the client.
LEMMA QueryInvHolds == QuerySpec => [](RowsInv /\ PagerInv)
<1>1. QueryInit => RowsInv /\ PagerInv
  <2> SUFFICES ASSUME QueryInit
               PROVE  RowsInv /\ PagerInv
      OBVIOUS
  <2>1. RowsInv
    <3>1. rows = <<>> /\ scanned = 0
          BY DEF QueryInit
    <3>2. rows \in Seq(1..scanned) /\ DOMAIN rows = {}
          BY <3>1
    <3>3. scanned \in 0..Len(Logged) /\ scanned \notin 1..Len(Logged) - 1
          BY <3>1, QueryConstants
    <3> QED
        BY <3>2, <3>3 DEF RowsInv
  <2>2. pager = [step |-> "idle", code |-> 0, chain |-> 0, raw |-> 0, offset |-> 0,
                 seen |-> <<>>, before |-> {}] /\ late = FALSE
        BY DEF QueryInit, NoPager
  <2>3. pager.step = "idle" /\ late = FALSE /\ PagerTyped
        BY <2>2 DEF PagerTyped
  <2>4. PagerInv
        BY <2>3, Zenon DEF PagerInv
  <2> QED
      BY <2>1, <2>4
<1>2. RowsInv /\ PagerInv /\ [QueryNext]_queryVars => RowsInv' /\ PagerInv'
  <2> SUFFICES ASSUME RowsInv, PagerInv, [QueryNext]_queryVars
               PROVE  RowsInv' /\ PagerInv'
      OBVIOUS
  <2>1. ASSUME UNCHANGED <<rows, scanned, store, late>>
        PROVE  RowsInv'
        BY <2>1 DEF RowsInv
  <2>2. ASSUME NEW last, NEW kept, Scan(last, kept)
        PROVE  RowsInv' /\ PagerInv'
    <3>1. RowsInv' /\ Grown /\ Extended
          BY <2>2, ScanAdds
    <3>2. UNCHANGED <<late, pager>>
          BY <2>2 DEF Scan
    <3>3. late' \in BOOLEAN /\ (late => late')
          BY <3>2 DEF PagerInv
    <3>4. UNCHANGED pager
          BY <3>2
    <3> QED
        BY <3>1, <3>3, <3>4, RowsKeepPager
  <2>3. ASSUME NEW last, Rescan(last)
        PROVE  RowsInv' /\ PagerInv'
    <3>1. RowsInv' /\ Grown /\ (~late' => Extended)
          BY <2>3, RescanAdds
    <3>2. UNCHANGED pager /\ late' \in BOOLEAN /\ (late => late')
          BY <2>3 DEF Rescan, PagerInv
    <3> QED
        BY <3>1, <3>2, RowsKeepPager
  <2>4. ASSUME NEW c, NEW k, NEW raw \in 0..MaxLimit + 1, StartPaging(c, k, raw)
        PROVE  RowsInv' /\ PagerInv'
    <3>1. UNCHANGED <<rows, scanned, store, late>>
          BY <2>4 DEF StartPaging
    <3> QED
        BY <2>1, <2>4, <3>1, StartKeepsPager
  <2>5. ASSUME AskPage
        PROVE  RowsInv' /\ PagerInv'
    <3>1. UNCHANGED <<rows, scanned, store, late>>
          BY <2>5 DEF AskPage
    <3> QED
        BY <2>1, <2>5, <3>1, AskKeepsPager
  <2>6. ASSUME UNCHANGED queryVars
        PROVE  RowsInv' /\ PagerInv'
    <3>1. UNCHANGED <<rows, scanned, store, late>> /\ pager' = pager
          BY <2>6 DEF queryVars
    <3>2. RowsInv'
          BY <2>1, <3>1
    <3>3. \A c, k : Listed(c, k)' = Listed(c, k)
          BY <3>1, ListsStay
    <3>4. \A c, k : pager'.step = "paging" /\ c = pager'.code /\ k = pager'.chain =>
             /\ Ahead(Listed(c, k)', pager'.offset, pager'.before, pager'.seen)
             /\ ~late' => Behind(Listed(c, k)', pager'.offset, pager'.seen)
          BY <3>1, <3>3 DEF PagerInv
    <3>5. PagerTyped' /\ late' \in BOOLEAN
          BY <3>1 DEF PagerInv, PagerTyped
    <3>6. pager'.step = "done" => pager'.before \subseteq Seen'
          BY <3>1 DEF PagerInv, Seen
    <3>7. pager'.step # "idle" /\ ~late' => OneToOne(pager'.seen, DOMAIN pager'.seen)
          BY <3>1 DEF PagerInv
    <3> QED
        BY <3>2, <3>4, <3>5, <3>6, <3>7 DEF PagerInv
  <2> QED
      BY <2>2, <2>3, <2>4, <2>5, <2>6 DEF QueryNext
<1> QED
    BY <1>1, <1>2, PTL DEF QuerySpec

\* A client that pages to the end has seen all that was there when it began, and
\* nothing twice unless a rescan put a row before the page it was at
\* (routes/deployments.ts, whatever the store).
THEOREM PagesAreComplete == QuerySpec => []PagesCover
<1>1. PagerInv => PagesCover
  <2> SUFFICES ASSUME PagerInv, pager.step = "done"
               PROVE  /\ pager.before \subseteq Seen
                      /\ ~late => Len(pager.seen) = Cardinality(Seen)
      BY DEF PagesCover
  <2>1. pager.before \subseteq Seen
        BY DEF PagerInv
  <2>2. ASSUME ~late
        PROVE  Len(pager.seen) = Cardinality(Seen)
    <3>1. PICK s, S : s = pager.seen /\ S = DOMAIN s
          OBVIOUS
    <3>2. s \in Seq(Nat) /\ OneToOne(s, S)
          BY <2>2, <3>1 DEF PagerInv, PagerTyped
    <3>3. Len(s) \in Nat /\ S = 1..Len(s)
          BY <3>1, <3>2
    <3>4. IsFiniteSet(S) /\ Cardinality(S) = Len(s)
      <4>1. PICK m : m = Len(s)
            OBVIOUS
      <4>2. m \in Nat
            BY <3>3, <4>1
      <4>3. IsFiniteSet(1..m) /\ Cardinality(1..m) = m
            BY <4>2, FS_Interval
      <4> QED
          BY <3>3, <4>1, <4>3
    <3>5. Cardinality({s[n] : n \in S}) = Cardinality(S)
          BY <3>2, <3>4, ImageIsAsLarge
    <3> QED
        BY <3>1, <3>4, <3>5 DEF Seen
  <2> QED
      BY <2>1, <2>2
<1> QED
    BY <1>1, QueryInvHolds, PTL

-----------------------------------------------------------------------------
(* The stores compared. *)

Rises(S, R, level) == \A x, y \in S : <<x, y>> \in R => level[x] =< level[y]

\* What stands at a place is no lower in one order than in another, if both rise.
LEMMA LevelsMeet ==
    ASSUME NEW S, IsFiniteSet(S), NEW R, NEW Q, StrictOrder(S, R), StrictOrder(S, Q),
           NEW level, \A x \in S : level[x] \in Nat, Rises(S, R, level), Rises(S, Q, level),
           NEW L, L = InOrder(S, R), NEW M, M = InOrder(S, Q), NEW n \in DOMAIN L
    PROVE  n \in DOMAIN M /\ level[L[n]] >= level[M[n]]
<1>1. /\ Cardinality(S) \in Nat /\ DOMAIN L = 1..Cardinality(S)
      /\ \A i \in DOMAIN L : L[i] \in S /\ Cardinality(Below(S, R, L[i])) = i - 1
      BY PlaceInOrder
<1>2. /\ DOMAIN M = 1..Cardinality(S)
      /\ \A i \in DOMAIN M : M[i] \in S /\ Cardinality(Below(S, Q, M[i])) = i - 1
      BY PlaceInOrder
<1>3. PICK a, b : a = L[n] /\ b = M[n]
      OBVIOUS
<1>4. /\ n \in Nat /\ n \in DOMAIN M /\ a \in S /\ b \in S
      /\ Cardinality(Below(S, R, a)) = n - 1 /\ Cardinality(Below(S, Q, b)) = n - 1
      BY <1>1, <1>2, <1>3
<1>5. ASSUME level[a] < level[b]
      PROVE  FALSE
  <2>1. \A f \in S : level[f] =< level[a] => f \in Below(S, Q, b)
    <3> SUFFICES ASSUME NEW f \in S, level[f] =< level[a]
                 PROVE  <<f, b>> \in Q
        BY DEF Below
    <3>1. level[f] \in Nat /\ level[a] \in Nat /\ level[b] \in Nat
          BY <1>4
    <3>2. level[f] < level[b]
          BY <1>5, <3>1
    <3>3. f # b /\ <<b, f>> \notin Q
          BY <1>4, <3>1, <3>2 DEF Rises
    <3> QED
        BY <1>4, <3>3 DEF StrictOrder
  <2>2. a \in Below(S, Q, b)
    <3>1. level[a] \in Nat
          BY <1>4
    <3> QED
        BY <1>4, <2>1, <3>1
  <2>3. Below(S, R, a) \subseteq Below(S, Q, b)
    <3> SUFFICES ASSUME NEW f \in Below(S, R, a)
                 PROVE  f \in Below(S, Q, b)
        OBVIOUS
    <3>1. f \in S /\ level[f] =< level[a]
          BY <1>4 DEF Below, Rises
    <3> QED
        BY <2>1, <3>1
  <2>4. a \notin Below(S, R, a)
        BY <1>4 DEF Below, StrictOrder
  <2>5. IsFiniteSet(Below(S, Q, b))
    <3>1. Below(S, Q, b) \in SUBSET S
          BY DEF Below
    <3> QED
        BY <3>1, FS_Subset
  <2>6. Below(S, R, a) = Below(S, Q, b)
    <3>1. Below(S, R, a) \in SUBSET Below(S, Q, b)
          BY <2>3
    <3> QED
        BY <1>4, <2>5, <3>1, FS_Subset
  <2> QED
      BY <2>2, <2>4, <2>6
<1>6. level[a] \in Nat /\ level[b] \in Nat
      BY <1>4
<1> QED
    BY <1>3, <1>4, <1>5, <1>6

\* A set in order has the elements of the set.
LEMMA MembersOfOrder ==
    ASSUME NEW S, IsFiniteSet(S), NEW R, StrictOrder(S, R), NEW L, L = InOrder(S, R)
    PROVE  Members(L) = S /\ Len(L) = Cardinality(S)
<1>1. /\ Cardinality(S) \in Nat /\ DOMAIN L = 1..Cardinality(S) /\ L \in Seq(S)
      /\ \A n \in DOMAIN L : L[n] \in S
      /\ \A e \in S : /\ Cardinality(Below(S, R, e)) + 1 \in DOMAIN L
                      /\ L[Cardinality(Below(S, R, e)) + 1] = e
      BY PlaceInOrder
<1>2. \A e \in S : e \in Members(L)
      BY <1>1 DEF Members
<1>3. \A e \in Members(L) : e \in S
      BY <1>1 DEF Members
<1> QED
    BY <1>1, <1>2, <1>3

RowsInLogOrder == \A n, m \in DOMAIN rows : n < m => rows[n] < rows[m]

\* From rows in log order, arrival and the blocks put the same blocks at the same places.
LEMMA OrdersAgree ==
    ASSUME RowsInv, RowsInLogOrder, NEW S \in SUBSET Stored
    PROVE  Same(InOrder(S, Arrival(S)), InOrder(S, ByBlock(S)))
<1>1. PICK R, Q, L, M : R = Arrival(S) /\ Q = ByBlock(S) /\ L = InOrder(S, R) /\ M = InOrder(S, Q)
      OBVIOUS
<1>2. IsFiniteSet(S) /\ S \subseteq DOMAIN Logged /\ S \subseteq Nat
  <2>1. IsFiniteSet(S)
        BY StoredRows, FS_Subset
  <2> QED
      BY <2>1, StoredRows
<1>3. StrictOrder(S, R) /\ StrictOrder(S, Q)
      BY <1>1, OrdersAreStrict
<1>4. PICK level : level = [x \in S |-> Logged[x].block]
      OBVIOUS
<1>5. \A x \in S : level[x] \in Nat /\ level[x] = Logged[x].block
      BY <1>2, <1>4, QueryConstants
<1>6. Rises(S, R, level)
  <2> SUFFICES ASSUME NEW x \in S, NEW y \in S, <<x, y>> \in R
               PROVE  level[x] =< level[y]
      BY DEF Rises
  <2>1. Came(x, y)
        BY <1>1, OrdersSay
  <2>2. x < y
        BY <2>1 DEF Came, RowsInLogOrder
  <2>3. x =< y /\ x \in DOMAIN Logged /\ y \in DOMAIN Logged
        BY <1>2, <2>2
  <2> QED
      BY <1>5, <2>3, QueryConstants
<1>7. Rises(S, Q, level)
  <2> SUFFICES ASSUME NEW x \in S, NEW y \in S, <<x, y>> \in Q
               PROVE  level[x] =< level[y]
      BY DEF Rises
  <2>1. level[x] < level[y] \/ level[x] = level[y]
    <3>1. Logged[x].block < Logged[y].block \/ Logged[x].block = Logged[y].block
          BY <1>1 DEF ByBlock
    <3> QED
        BY <1>5, <3>1
  <2> QED
      BY <1>5, <2>1
<1>8. \A n \in DOMAIN L : n \in DOMAIN M /\ level[L[n]] >= level[M[n]]
      BY <1>1, <1>2, <1>3, <1>5, <1>6, <1>7, LevelsMeet
<1>9. \A n \in DOMAIN M : n \in DOMAIN L /\ level[M[n]] >= level[L[n]]
      BY <1>1, <1>2, <1>3, <1>5, <1>6, <1>7, LevelsMeet
<1>10. Members(L) = S /\ Members(M) = S
      BY <1>1, <1>2, <1>3, MembersOfOrder
<1>11. DOMAIN L = DOMAIN M
      BY <1>8, <1>9
<1>12. \A n \in DOMAIN L : Logged[L[n]].block = Logged[M[n]].block
  <2> TAKE n \in DOMAIN L
  <2>1. L[n] \in S /\ M[n] \in S
        BY <1>10, <1>11 DEF Members
  <2>2. level[L[n]] >= level[M[n]] /\ level[M[n]] >= level[L[n]]
        BY <1>8, <1>9, <1>11
  <2> QED
      BY <1>5, <2>1, <2>2
<1>13. Blocks(L) = Blocks(M)
      BY <1>11, <1>12 DEF Blocks
<1> QED
    BY <1>1, <1>10, <1>13 DEF Same

\* The deployments of a code.
LEMMA CodeListsAgree ==
    ASSUME RowsInv, RowsInLogOrder, NEW c
    PROVE  Same(MemoryByCode(c), SqliteByCode(c))
<1>1. PICK P, W : /\ P = {n \in DOMAIN rows : Logged[rows[n]].code = c}
                  /\ W = {i \in Stored : Logged[i].code = c}
      OBVIOUS
<1>2. P \in SUBSET DOMAIN rows /\ W = {rows[n] : n \in P} /\ W \in SUBSET Stored
      BY <1>1 DEF Stored
<1>3. MemoryByCode(c) = InOrder(W, Arrival(W))
  <2>1. AtPlaces(P) = InOrder(W, Arrival(W))
        BY <1>2, PlacesAreRows
  <2> QED
      BY <1>1, <2>1 DEF MemoryByCode
<1>4. SqliteByCode(c) = InOrder(W, ByBlock(W))
      BY <1>1 DEF SqliteByCode, Ordered
<1> QED
    BY <1>2, <1>3, <1>4, OrdersAgree

\* The deployments of a code on a chain.
LEMMA ChainListsAgree ==
    ASSUME RowsInv, RowsInLogOrder, NEW c, NEW k
    PROVE  Same(MemoryByChain(c, k), SqliteByChain(c, k))
<1>1. PICK P, W : /\ P = {n \in DOMAIN rows : Logged[rows[n]].code = c /\ Logged[rows[n]].chain = k}
                  /\ W = {i \in Stored : Logged[i].code = c /\ Logged[i].chain = k}
      OBVIOUS
<1>2. P \in SUBSET DOMAIN rows /\ W = {rows[n] : n \in P} /\ W \in SUBSET Stored
      BY <1>1 DEF Stored
<1>3. MemoryByChain(c, k) = InOrder(W, Arrival(W))
  <2>1. AtPlaces(P) = InOrder(W, Arrival(W))
        BY <1>2, PlacesAreRows
  <2> QED
      BY <1>1, <2>1 DEF MemoryByChain
<1>4. SqliteByChain(c, k) = InOrder(W, ByBlock(W))
      BY <1>1 DEF SqliteByChain, Ordered
<1> QED
    BY <1>2, <1>3, <1>4, OrdersAgree

\* A set of numbers that is not empty has a least one.
LEMMA LeastNumber ==
    ASSUME NEW S \in SUBSET Int, IsFiniteSet(S), NEW e \in S
    PROVE  \E m \in S : \A n \in S : m =< n
<1>1. PICK R, L : R = Ascent(S) /\ L = InOrder(S, R)
      OBVIOUS
<1>2. IsFiniteSet(S) /\ StrictOrder(S, R) /\ L = InOrder(S, R)
      BY <1>1, NumbersAreOrdered
<1>3. /\ Cardinality(S) \in Nat /\ DOMAIN L = 1..Cardinality(S)
      /\ \A n \in DOMAIN L : L[n] \in S /\ Cardinality(Below(S, R, L[n])) = n - 1
      BY <1>2, PlaceInOrder
<1>4. Cardinality(S) # 0
      BY FS_EmptySet
<1>5. 1 \in DOMAIN L
      BY <1>3, <1>4
<1>6. PICK m : m = L[1]
      OBVIOUS
<1>7. m \in S /\ Cardinality(Below(S, R, m)) = 0
      BY <1>3, <1>5, <1>6
<1>8. Below(S, R, m) = {}
  <2>1. Below(S, R, m) \in SUBSET S
        BY DEF Below
  <2>2. IsFiniteSet(Below(S, R, m))
        BY <2>1, FS_Subset
  <2> QED
      BY <1>7, <2>2, FS_EmptySet
<1>9. \A n \in S : m =< n
  <2> SUFFICES ASSUME NEW n \in S
               PROVE  m =< n
      OBVIOUS
  <2>1. <<n, m>> \notin R
        BY <1>8 DEF Below
  <2>2. ~(n < m)
        BY <1>1, <1>7, <2>1 DEF Ascent
  <2> QED
      BY <1>7, <2>2
<1> QED
    BY <1>7, <1>9

\* The chains of a code: one entry each in both stores.
LEMMA ChainsAgree ==
    ASSUME RowsInv, NEW c
    PROVE  /\ Members(MemoryChains(c)) = Members(SqliteChains(c))
           /\ Len(MemoryChains(c)) = Len(SqliteChains(c))
<1>1. PICK P, W : /\ P = {n \in DOMAIN rows : Logged[rows[n]].code = c}
                  /\ W = {i \in Stored : Logged[i].code = c}
      OBVIOUS
<1>2. P \in SUBSET DOMAIN rows /\ W = {rows[n] : n \in P} /\ W \in SUBSET Stored
      BY <1>1 DEF Stored
<1>3. PICK s, R : s = MemoryByCode(c) /\ R = Arrival(W)
      OBVIOUS
<1>4. IsFiniteSet(W) /\ StrictOrder(W, R) /\ s = InOrder(W, R)
  <2>1. AtPlaces(P) = InOrder(W, Arrival(W))
        BY <1>2, PlacesAreRows
  <2>2. IsFiniteSet(W)
        BY <1>2, StoredRows, FS_Subset
  <2>3. StrictOrder(W, R)
        BY <1>2, <1>3, OrdersAreStrict
  <2> QED
      BY <1>1, <1>3, <2>1, <2>2, <2>3 DEF MemoryByCode
<1>5. Cardinality(W) \in Nat /\ DOMAIN s = 1..Cardinality(W)
      BY <1>4, PlaceInOrder
<1>6. Members(s) = W
      BY <1>4, MembersOfOrder
<1>7. PICK g : g = [n \in DOMAIN s |-> Logged[s[n]].chain]
      OBVIOUS
<1>8. PICK first : first = {n \in DOMAIN s : \A m \in 1..n - 1 : Logged[s[m]].chain # Logged[s[n]].chain}
      OBVIOUS
<1>9. PICK t, A : t = InOrder(first, A) /\ A = Ascent(first)
      OBVIOUS
<1>10. /\ DOMAIN s \subseteq Nat /\ IsFiniteSet(DOMAIN s) /\ first \in SUBSET DOMAIN s
       /\ \A n \in DOMAIN s, m \in Nat \ {0} : m < n => m \in DOMAIN s
  <2>1. PICK N : N = Cardinality(W)
        OBVIOUS
  <2>2. N \in Nat /\ DOMAIN s = 1..N
        BY <1>5, <2>1
  <2>3. IsFiniteSet(1..N)
        BY <2>2, FS_Interval
  <2> QED
      BY <1>8, <2>2, <2>3
<1>11. IsFiniteSet(first) /\ StrictOrder(first, A) /\ t = InOrder(first, A)
  <2>1. IsFiniteSet(first)
        BY <1>10, FS_Subset
  <2>2. first \in SUBSET Int
        BY <1>10
  <2> QED
      BY <1>9, <2>1, <2>2, NumbersAreOrdered
<1>12. Members(t) = first /\ Len(t) = Cardinality(first)
      BY <1>11, MembersOfOrder
<1>13. /\ Cardinality(first) \in Nat /\ DOMAIN t = 1..Cardinality(first)
       /\ \A n \in DOMAIN t : t[n] \in first
      BY <1>11, PlaceInOrder
<1>14. MemoryChains(c) = [n \in DOMAIN t |-> g[t[n]]]
  <2>1. MemoryChains(c) = [n \in DOMAIN t |-> Logged[s[t[n]]].chain]
        BY <1>3, <1>8, <1>9 DEF MemoryChains
  <2>2. \A n \in DOMAIN t : Logged[s[t[n]]].chain = g[t[n]]
        BY <1>7, <1>10, <1>13
  <2> QED
      BY <2>1, <2>2
<1>15. PICK chains : chains = {Logged[i].chain : i \in W}
      OBVIOUS
<1>16. {g[n] : n \in first} = chains
  <2>1. ASSUME NEW n \in first
        PROVE  g[n] \in chains
    <3>1. n \in DOMAIN s /\ s[n] \in W
          BY <1>6, <1>10 DEF Members
    <3> QED
        BY <1>7, <1>15, <3>1
  <2>2. ASSUME NEW i \in W
        PROVE  \E n \in first : g[n] = Logged[i].chain
    <3>1. PICK q \in DOMAIN s : s[q] = i
          BY <1>6 DEF Members
    <3>2. PICK Q : Q = {n \in DOMAIN s : g[n] = Logged[i].chain}
          OBVIOUS
    <3>3. Q \in SUBSET DOMAIN s /\ Q \in SUBSET Int /\ q \in Q
          BY <1>7, <1>10, <3>1, <3>2
    <3>4. IsFiniteSet(Q)
          BY <1>10, <3>3, FS_Subset
    <3>5. PICK m \in Q : \A n \in Q : m =< n
          BY <3>3, <3>4, LeastNumber
    <3>6. m \in DOMAIN s /\ g[m] = Logged[i].chain /\ m \in Nat
          BY <1>10, <3>2, <3>3
    <3>7. ASSUME NEW n \in 1..m - 1
          PROVE  Logged[s[n]].chain # Logged[s[m]].chain
      <4>1. n \in Nat \ {0} /\ n < m
            BY <3>6
      <4>2. n \in DOMAIN s /\ n \notin Q
            BY <1>10, <3>5, <3>6, <4>1
      <4>3. g[n] # g[m]
            BY <3>2, <3>6, <4>2
      <4> QED
          BY <1>7, <3>6, <4>2, <4>3
    <3>8. m \in first
          BY <1>8, <3>6, <3>7
    <3> QED
        BY <3>6, <3>8
  <2> QED
      BY <1>15, <2>1, <2>2
<1>17. OneToOne(g, first)
  <2> SUFFICES ASSUME NEW n \in first, NEW m \in first, g[n] = g[m]
               PROVE  n = m
      BY DEF OneToOne
  <2>1. n \in DOMAIN s /\ m \in DOMAIN s /\ Logged[s[n]].chain = Logged[s[m]].chain
        BY <1>7, <1>10
  <2>2. n \in Nat /\ m \in Nat /\ n >= 1 /\ m >= 1
        BY <1>5, <2>1
  <2>3. m \notin 1..n - 1 /\ n \notin 1..m - 1
        BY <1>8, <2>1
  <2> QED
      BY <2>2, <2>3
<1>18. IsFiniteSet(chains) /\ Cardinality(chains) = Cardinality(first)
  <2>1. /\ IsFiniteSet({g[n] : n \in first})
        /\ Cardinality({g[n] : n \in first}) = Cardinality(first)
        BY <1>11, <1>17, ImageIsAsLarge
  <2> QED
      BY <1>16, <2>1
<1>19. chains \in SUBSET Int
  <2>1. \A i \in W : Logged[i].chain \in Nat
        BY <1>2, StoredRows, QueryConstants
  <2> QED
      BY <1>15, <2>1
<1>20. PICK B, v : B = Ascent(chains) /\ v = InOrder(chains, B)
      OBVIOUS
<1>21. StrictOrder(chains, B)
      BY <1>19, <1>20, NumbersAreOrdered
<1>22. Members(v) = chains /\ Len(v) = Cardinality(chains)
      BY <1>18, <1>20, <1>21, MembersOfOrder
<1>23. SqliteChains(c) = v
      BY <1>1, <1>15, <1>20 DEF SqliteChains
<1>24. Members(MemoryChains(c)) = chains
  <2>1. PICK h : h = [n \in DOMAIN t |-> g[t[n]]]
        OBVIOUS
  <2>2. \A n \in DOMAIN t : h[n] \in chains
        BY <1>13, <1>16, <2>1
  <2>3. \A k \in chains : \E n \in DOMAIN t : h[n] = k
    <3> TAKE k \in chains
    <3>1. PICK e \in first : g[e] = k
          BY <1>16
    <3>2. PICK n \in DOMAIN t : t[n] = e
          BY <1>12 DEF Members
    <3> QED
        BY <2>1, <3>1, <3>2
  <2>4. Members(h) = chains
        BY <2>1, <2>2, <2>3 DEF Members
  <2> QED
      BY <1>14, <2>1, <2>4
<1>25. Len(MemoryChains(c)) = Cardinality(first)
  <2>1. PICK h, N : h = [n \in DOMAIN t |-> g[t[n]]] /\ N = Cardinality(first)
        OBVIOUS
  <2>2. DOMAIN h = 1..N /\ N \in Nat
        BY <1>13, <2>1
  <2>3. h = [n \in 1..N |-> h[n]]
        BY <1>13, <2>1, <2>2
  <2>4. Len(h) = N
        BY <2>2, <2>3
  <2> QED
      BY <1>14, <2>1, <2>4
<1> QED
    BY <1>18, <1>22, <1>23, <1>24, <1>25

\* The most recent rows: the newest places, the newest first.
LEMMA RecentAgree ==
    ASSUME RowsInv, NEW limit \in Nat
    PROVE  MemoryRecent(limit) = SqliteRecent(limit)
<1>1. PICK D, R, s, r : /\ D = DOMAIN rows /\ r = rows
                        /\ R = {p \in D \X D : rows[p[1]] > rows[p[2]]}
                        /\ s = InOrder(D, R)
      OBVIOUS
<1>2. PICK S, Q, all : S = Stored /\ Q = Descent(S) /\ all = [n \in DOMAIN s |-> r[s[n]]]
      OBVIOUS
<1>3. /\ D \subseteq Nat /\ IsFiniteSet(D) /\ S = {r[n] : n \in D} /\ OneToOne(r, D)
      /\ S \in SUBSET Int /\ IsFiniteSet(S) /\ S \subseteq Nat
  <2>1. D \subseteq Nat /\ IsFiniteSet(D) /\ S \subseteq Nat /\ IsFiniteSet(S)
        BY <1>1, <1>2, StoredRows
  <2>2. S = {r[n] : n \in D} /\ OneToOne(r, D)
        BY <1>1, <1>2 DEF Stored, RowsInv, OneToOne
  <2> QED
      BY <2>1, <2>2
<1>4. StrictOrder(S, Q) /\ \A x, y \in S : <<x, y>> \in Q <=> x > y
      BY <1>2, <1>3, NumbersAreOrdered DEF Descent
<1>5. \A n \in D : r[n] \in S
      BY <1>3
<1>6. \A n, m \in D : <<n, m>> \in R <=> r[n] > r[m]
      BY <1>1
<1>7. Maps(r, D, R, Q)
      BY <1>4, <1>5, <1>6 DEF Maps
<1>8. StrictOrder(D, R)
  <2>1. \A n \in D : r[n] \in Nat
        BY <1>3, <1>5
  <2>2. \A n, m \in D : r[n] = r[m] => n = m
        BY <1>3 DEF OneToOne
  <2>3. \A x \in D : <<x, x>> \notin R
        BY <1>6, <2>1
  <2>4. \A x, y, z \in D : <<x, y>> \in R /\ <<y, z>> \in R => <<x, z>> \in R
    <3> TAKE x, y, z \in D
    <3>1. r[x] \in Nat /\ r[y] \in Nat /\ r[z] \in Nat
          BY <2>1
    <3> QED
        BY <1>6, <3>1
  <2>5. \A x, y \in D : x = y \/ <<x, y>> \in R \/ <<y, x>> \in R
    <3> TAKE x, y \in D
    <3>1. r[x] \in Nat /\ r[y] \in Nat
          BY <2>1
    <3>2. r[x] > r[y] \/ r[y] > r[x] \/ r[x] = r[y]
          BY <3>1
    <3> QED
        BY <1>6, <2>2, <3>2
  <2> QED
      BY <2>3, <2>4, <2>5 DEF StrictOrder
<1>9. InOrder(S, Q) = all
  <2>1. S = {r[n] : n \in D} /\ OneToOne(r, D)
        BY <1>3
  <2>2. IsFiniteSet(D) /\ StrictOrder(D, R) /\ s = InOrder(D, R)
        BY <1>1, <1>3, <1>8
  <2>3. InOrder(S, Q) = [n \in DOMAIN s |-> r[s[n]]]
        BY <1>7, <2>1, <2>2, OrderIsMapped
  <2> QED
      BY <1>2, <2>3
<1>10. PICK C : C = Cardinality(S)
      OBVIOUS
<1>11. IsFiniteSet(S) /\ StrictOrder(S, Q) /\ all = InOrder(S, Q)
      BY <1>3, <1>4, <1>9
<1>12. all \in Seq(S)
      BY <1>11, PlaceInOrder
<1>13. /\ C \in Nat /\ DOMAIN all = 1..C
       /\ \A n \in DOMAIN all : all[n] \in S /\ Cardinality(Below(S, Q, all[n])) = n - 1
      BY <1>10, <1>11, PlaceInOrder
<1>14. \A e \in S : /\ Cardinality(Below(S, Q, e)) + 1 \in DOMAIN all
                    /\ all[Cardinality(Below(S, Q, e)) + 1] = e
      BY <1>11, PlaceInOrder
<1>15. PICK N, P, L : /\ N = {i \in S : Cardinality({j \in S : j > i}) < limit}
                      /\ P = Descent(N) /\ L = InOrder(N, P)
      OBVIOUS
<1>16. SqliteRecent(limit) = L
      BY <1>2, <1>15 DEF SqliteRecent
<1>17. N \in SUBSET S /\ \A e \in S : e \in N <=> Cardinality(Below(S, Q, e)) < limit
  <2>1. \A e \in S : {j \in S : j > e} = Below(S, Q, e)
        BY <1>4 DEF Below
  <2> QED
      BY <1>15, <2>1
<1>18. IsFiniteSet(N) /\ StrictOrder(N, P) /\ L = InOrder(N, P)
  <2>1. IsFiniteSet(N)
        BY <1>3, <1>17, FS_Subset
  <2>2. N \in SUBSET Int
        BY <1>3, <1>17
  <2> QED
      BY <1>15, <2>1, <2>2, NumbersAreOrdered
<1>19. \A e \in N : Below(N, P, e) = Below(S, Q, e)
  <2> TAKE e \in N
  <2>1. Below(N, P, e) \subseteq Below(S, Q, e)
    <3>1. \A f \in N : <<f, e>> \in P <=> f > e
          BY <1>15 DEF Descent
    <3> QED
        BY <1>4, <1>17, <3>1 DEF Below
  <2>2. ASSUME NEW f \in Below(S, Q, e)
        PROVE  f \in Below(N, P, e)
    <3>1. f \in S /\ e \in S /\ <<f, e>> \in Q
          BY <1>17 DEF Below
    <3>2. Below(S, Q, f) \subseteq Below(S, Q, e)
          BY <1>4, <3>1 DEF Below, StrictOrder
    <3>3. Below(S, Q, f) \in SUBSET Below(S, Q, e) /\ Below(S, Q, e) \in SUBSET S
          BY <3>2 DEF Below
    <3>4. IsFiniteSet(Below(S, Q, e)) /\ IsFiniteSet(Below(S, Q, f))
          BY <1>3, <3>3, FS_Subset
    <3>5. Cardinality(Below(S, Q, f)) =< Cardinality(Below(S, Q, e))
          BY <3>3, <3>4, FS_Subset
    <3>6. Cardinality(Below(S, Q, f)) \in Nat /\ Cardinality(Below(S, Q, e)) \in Nat
          BY <3>4, FS_CardinalityType
    <3>7. Cardinality(Below(S, Q, e)) < limit
          BY <1>17
    <3>8. f \in N
          BY <1>17, <3>1, <3>5, <3>6, <3>7
    <3>9. <<f, e>> \in P
          BY <1>4, <1>15, <3>1, <3>8 DEF Descent
    <3> QED
        BY <3>8, <3>9 DEF Below
  <2> QED
      BY <2>1, <2>2
<1>20. PICK K : K = Cardinality(N)
      OBVIOUS
<1>21. /\ K \in Nat /\ DOMAIN L = 1..K
       /\ \A n \in DOMAIN L : L[n] \in N /\ Cardinality(Below(N, P, L[n])) = n - 1
      BY <1>18, <1>20, PlaceInOrder
<1>22. \A e \in N : /\ Cardinality(Below(N, P, e)) + 1 \in DOMAIN L
                    /\ L[Cardinality(Below(N, P, e)) + 1] = e
      BY <1>18, PlaceInOrder
<1>23. ASSUME NEW n \in DOMAIN L
       PROVE  n =< limit /\ n \in DOMAIN all /\ all[n] = L[n]
  <2>1. PICK e : e = L[n]
        OBVIOUS
  <2>2. e \in N /\ e \in S /\ Cardinality(Below(S, Q, e)) = n - 1
        BY <1>17, <1>19, <1>21, <2>1
  <2>3. n \in Nat /\ (n - 1) + 1 = n
        BY <1>21
  <2>4. n - 1 < limit
        BY <1>17, <2>2
  <2>5. (n - 1) + 1 \in DOMAIN all /\ all[(n - 1) + 1] = e
        BY <1>14, <2>2
  <2> QED
      BY <2>1, <2>3, <2>4, <2>5
<1>24. ASSUME NEW n \in DOMAIN all, n =< limit
       PROVE  n \in DOMAIN L
  <2>1. PICK e : e = all[n]
        OBVIOUS
  <2>2. e \in S /\ Cardinality(Below(S, Q, e)) = n - 1 /\ n \in Nat
        BY <1>13, <2>1
  <2>3. e \in N
        BY <1>17, <1>24, <2>2
  <2>4. (n - 1) + 1 \in DOMAIN L
        BY <1>19, <1>22, <2>2, <2>3
  <2>5. (n - 1) + 1 = n
        BY <2>2
  <2> QED
      BY <2>4, <2>5
<1>25. PICK z : z = IF limit < C THEN limit ELSE C
      OBVIOUS
<1>26. z \in Nat /\ 1..z = 1..K
  <2>1. z \in Nat /\ \A n \in 1..z : n \in 1..C /\ n =< limit
        BY <1>13, <1>25
  <2>2. \A n \in 1..C : n =< limit => n \in 1..z
        BY <1>13, <1>25
  <2>3. \A n \in 1..z : n \in 1..K
        BY <1>13, <1>21, <1>24, <2>1
  <2>4. \A n \in 1..K : n \in 1..z
        BY <1>13, <1>21, <1>23, <2>2
  <2> QED
      BY <2>1, <2>3, <2>4
<1>27. MemoryRecent(limit) = SubSeq(all, 1, z)
  <2>1. Len(all) = C
        BY <1>12, <1>13
  <2>2. MemoryRecent(limit) = SubSeq(all, 1, IF limit < Len(all) THEN limit ELSE Len(all))
        BY <1>1, <1>2 DEF MemoryRecent
  <2> QED
      BY <1>25, <2>1, <2>2
<1>28. SubSeq(all, 1, z) = L
  <2>1. /\ SubSeq(all, 1, z) \in Seq(S)
        /\ Len(SubSeq(all, 1, z)) = IF 1 =< z THEN z - 1 + 1 ELSE 0
        /\ \A i \in 1..z - 1 + 1 : SubSeq(all, 1, z)[i] = all[1 + i - 1]
    <3>1. 1 \in Int /\ z \in Int /\ \A i \in 1..z : all[i] \in S
      <4>1. \A i \in 1..z : i \in 1..C
            BY <1>13, <1>25, <1>26
      <4> QED
          BY <1>13, <1>26, <4>1
    <3> QED
        BY <3>1, SubSeqProperties
  <2>2. PICK b : b = SubSeq(all, 1, z)
        OBVIOUS
  <2>3. b \in Seq(S) /\ Len(b) = z
        BY <1>26, <2>1, <2>2
  <2>4. DOMAIN b = 1..z /\ b = [i \in 1..z |-> b[i]]
        BY <2>3
  <2>5. \A i \in 1..z : b[i] = all[i]
    <3>1. \A i \in 1..z : i \in 1..z - 1 + 1 /\ 1 + i - 1 = i
          BY <1>26
    <3> QED
        BY <2>1, <2>2, <3>1
  <2>6. \A i \in 1..z : L[i] = all[i]
        BY <1>21, <1>23, <1>26
  <2>7. L \in Seq(N)
        BY <1>18, PlaceInOrder
  <2>8. L = [i \in 1..z |-> L[i]]
        BY <1>21, <1>26, <2>7
  <2> QED
      BY <2>2, <2>4, <2>5, <2>6, <2>8
<1> QED
    BY <1>16, <1>27, <1>28

\* From rows that came in log order the two stores answer alike: the same rows,
\* block by block, the same chains, the same recent rows (store.ts, sqlite-store.ts).
THEOREM StoresAnswerAlike == QuerySpec => []StoresAgree
<1>1. RowsInv => StoresAgree
  <2> SUFFICES ASSUME RowsInv
               PROVE  StoresAgree
      OBVIOUS
  <2>1. ASSUME RowsInLogOrder, NEW c \in Codes
        PROVE  /\ Same(MemoryByCode(c), SqliteByCode(c))
               /\ \A k \in Chains : Same(MemoryByChain(c, k), SqliteByChain(c, k))
               /\ Members(MemoryChains(c)) = Members(SqliteChains(c))
               /\ Len(MemoryChains(c)) = Len(SqliteChains(c))
        BY <2>1, CodeListsAgree, ChainListsAgree, ChainsAgree
  <2>2. \A n \in 0..Len(Logged) : MemoryRecent(n) = SqliteRecent(n)
    <3>1. \A n \in 0..Len(Logged) : n \in Nat
          BY QueryConstants
    <3> QED
        BY <3>1, RecentAgree
  <2> QED
      BY <2>1, <2>2 DEF StoresAgree, RowsInLogOrder
<1> QED
    BY <1>1, QueryInvHolds, PTL
=============================================================================

--------------------------- MODULE RegistryProofs ---------------------------
(***************************************************************************)
(* Type correctness, the storage invariants, immutability and the           *)
(* refinement of EventLog, for every set of hashes, chains and accounts.    *)
(***************************************************************************)
EXTENDS Registry, SequenceTheorems, TLAPS

-----------------------------------------------------------------------------
(* What push does to an array. *)
LEMMA PushElems ==
    ASSUME NEW S, NEW s \in Seq(S), NEW x \in S
    PROVE  /\ Append(s, x) \in Seq(S)
           /\ Append(s, x) # <<>>
           /\ Elems(Append(s, x)) = Elems(s) \cup {x}
           /\ Extends(Append(s, x), s)
           /\ Distinct(s) /\ x \notin Elems(s) => Distinct(Append(s, x))
<1> DEFINE t == Append(s, x)
<1>1. /\ t \in Seq(S)
      /\ t # <<>>
      /\ Len(s) \in Nat
      /\ Len(t) = Len(s) + 1
      /\ \A i \in 1..Len(s) : t[i] = s[i]
      /\ t[Len(s) + 1] = x
  BY AppendProperties, LenProperties
<1>2. DOMAIN s = 1..Len(s) /\ DOMAIN t = 1..(Len(s) + 1)
  BY <1>1, LenProperties
<1> HIDE DEF t
<1>3. Elems(t) = Elems(s) \cup {x}
  BY <1>1, <1>2 DEF Elems
<1>4. Extends(t, s)
  BY <1>1 DEF Extends
<1>5. ASSUME Distinct(s), x \notin Elems(s) PROVE Distinct(t)
  <2> SUFFICES ASSUME NEW i \in 1..(Len(s) + 1), NEW j \in 1..(Len(s) + 1), t[i] = t[j]
               PROVE  i = j
    BY <1>2 DEF Distinct
  <2>1. \A n \in 1..Len(s) : s[n] # x
    BY <1>2, <1>5 DEF Elems
  <2>2. CASE i \in 1..Len(s) /\ j \in 1..Len(s)
    BY <2>2, <1>1, <1>2, <1>5 DEF Distinct
  <2>3. CASE i = Len(s) + 1 \/ j = Len(s) + 1
    BY <2>1, <2>3, <1>1
  <2> QED
    BY <2>2, <2>3, <1>1
<1> QED
  BY <1>1, <1>3, <1>4, <1>5 DEF t

LEMMA ExtendsItself ==
    ASSUME NEW S, NEW s \in Seq(S) PROVE Extends(s, s)
BY LenProperties DEF Extends

LEMMA EmptyArray == Elems(<<>>) = {} /\ Distinct(<<>>)
BY DEF Elems, Distinct

\* The arguments of a call that is not reverted are not zero.
LEMMA AcceptedProof ==
    ASSUME NEW p \in AnyProof, NEW c \in AnyCode, NEW d \in AnyPayload,
           ProofAccepted(p, c, d)
    PROVE  p \in ProofHash /\ c \in CodeHash /\ d \in Payload
BY DEF ProofAccepted, AnyProof, AnyCode, AnyPayload

LEMMA AcceptedDeployment ==
    ASSUME NEW c \in AnyCode, NEW k \in AnyChain, NEW a \in AnyAddress,
           DeploymentAccepted(c, k, a)
    PROVE  c \in CodeHash /\ k \in ChainId /\ a \in Address
BY DEF DeploymentAccepted, AnyCode, AnyChain, AnyAddress

-----------------------------------------------------------------------------
(* Type correctness. *)
ProofTypes ==
    /\ proofExists \subseteq ProofHash
    /\ verificationRecords \in [AnyProof -> Record]
    /\ proofsByCodeHash \in [AnyCode -> Seq(ProofHash)]

DeploymentTypes ==
    /\ deploymentsByCodeHash \in [AnyCode -> [AnyChain -> Seq(Address)]]
    /\ chainIdsByCodeHash \in [AnyCode -> Seq(ChainId)]
    /\ chainIdExists \subseteq CodeHash \X ChainId
    /\ deploymentExists \subseteq CodeHash \X ChainId \X Address

LedgerTypes == head \in 0..MaxHead /\ log \subseteq Entry /\ nextIndex \in Nat

LEMMA WriteProofTypes ==
    ASSUME ProofTypes, head \in Nat,
           NEW p \in ProofHash, NEW c \in CodeHash, NEW d \in Payload, NEW s \in Sender,
           WriteProof(p, c, d, s)
    PROVE  ProofTypes'
<1>1. proofExists' \subseteq ProofHash
  BY DEF ProofTypes, WriteProof
<1>2. verificationRecords' \in [AnyProof -> Record]
  <2>1. [codeHash |-> c, payload |-> d, submitter |-> s, submittedAt |-> Building] \in Record
    BY DEF Record, AnyCode, AnyPayload, Building
  <2> QED
    BY <2>1 DEF ProofTypes, WriteProof, AnyProof
<1>3. proofsByCodeHash' \in [AnyCode -> Seq(ProofHash)]
  <2>1. Append(proofsByCodeHash[c], p) \in Seq(ProofHash)
    BY PushElems DEF ProofTypes, AnyCode
  <2> QED
    BY <2>1 DEF ProofTypes, WriteProof
<1> QED
  BY <1>1, <1>2, <1>3 DEF ProofTypes

LEMMA WriteDeploymentTypes ==
    ASSUME DeploymentTypes,
           NEW c \in CodeHash, NEW k \in ChainId, NEW a \in Address,
           WriteDeployment(c, k, a)
    PROVE  DeploymentTypes'
<1>1. c \in AnyCode /\ k \in AnyChain
  BY DEF AnyCode, AnyChain
<1>2. deploymentsByCodeHash' \in [AnyCode -> [AnyChain -> Seq(Address)]]
  <2>1. Append(deploymentsByCodeHash[c][k], a) \in Seq(Address)
    BY <1>1, PushElems DEF DeploymentTypes
  <2> QED
    BY <1>1, <2>1 DEF DeploymentTypes, WriteDeployment
<1>3. chainIdsByCodeHash' \in [AnyCode -> Seq(ChainId)]
  <2>1. Append(chainIdsByCodeHash[c], k) \in Seq(ChainId)
    BY <1>1, PushElems DEF DeploymentTypes
  <2> QED
    BY <1>1, <2>1 DEF DeploymentTypes, WriteDeployment, NoteChain
<1>4. chainIdExists' \subseteq CodeHash \X ChainId
  BY DEF DeploymentTypes, WriteDeployment, NoteChain
<1>5. deploymentExists' \subseteq CodeHash \X ChainId \X Address
  BY DEF DeploymentTypes, WriteDeployment
<1> QED
  BY <1>2, <1>3, <1>4, <1>5 DEF DeploymentTypes

LEMMA ProofEntryType ==
    ASSUME NEW p \in ProofHash, NEW c \in CodeHash, NEW d \in Payload, NEW s \in Sender,
           NEW n \in Nat, NEW i \in Nat
    PROVE  At(ProofBody(p, c, d, s), n, i) \in Entry
BY DEF At, Entry, Body, ProofBody, ProofSubmitted

LEMMA DeploymentEntryType ==
    ASSUME NEW c \in CodeHash, NEW k \in ChainId, NEW a \in Address, NEW s \in Sender,
           NEW n \in Nat, NEW i \in Nat
    PROVE  At(DeploymentBody(c, k, a, s), n, i) \in Entry
BY DEF At, Entry, Body, DeploymentBody, DeploymentRegistered

\* No call stores a value outside its type: no zero hash, chain or address.
THEOREM TypeCorrect == Spec => []TypeOK
<1>1. Init => TypeOK
  <2> SUFFICES ASSUME Init PROVE TypeOK
    OBVIOUS
  <2>1. NoRecord \in Record
    BY DEF NoRecord, Record, AnyCode, AnyPayload
  <2> QED
    BY <2>1, EmptySeq, RegistryBoundAssumption DEF Init, TypeOK
<1>2. TypeOK /\ [Next]_vars => TypeOK'
  <2> SUFFICES ASSUME TypeOK, [Next]_vars PROVE TypeOK'
    OBVIOUS
  <2>0. ProofTypes /\ DeploymentTypes /\ LedgerTypes /\ head \in Nat /\ Building \in Nat
    BY RegistryBoundAssumption
    DEF TypeOK, ProofTypes, DeploymentTypes, LedgerTypes, Building
  <2>1. ASSUME NEW p \in AnyProof, NEW c \in AnyCode, NEW d \in AnyPayload,
               NEW s \in Sender, SubmitProof(p, c, d, s)
        PROVE  TypeOK'
    <3>1. p \in ProofHash /\ c \in CodeHash /\ d \in Payload
      BY <2>1, AcceptedProof DEF SubmitProof
    <3>2. ProofTypes'
      BY <2>0, <2>1, <3>1, WriteProofTypes DEF SubmitProof
    <3>3. DeploymentTypes'
      BY <2>0, <2>1 DEF SubmitProof, deploymentVars, DeploymentTypes
    <3>4. At(ProofBody(p, c, d, s), Building, nextIndex) \in Entry
      BY <2>0, <3>1, ProofEntryType DEF LedgerTypes
    <3>5. LedgerTypes'
      BY <2>0, <2>1, <3>4 DEF SubmitProof, LedgerTypes
    <3> QED
      BY <3>2, <3>3, <3>5 DEF TypeOK, ProofTypes, DeploymentTypes, LedgerTypes
  <2>2. ASSUME NEW c \in AnyCode, NEW k \in AnyChain, NEW a \in AnyAddress,
               NEW s \in Sender, RegisterDeployment(c, k, a, s)
        PROVE  TypeOK'
    <3>1. c \in CodeHash /\ k \in ChainId /\ a \in Address
      BY <2>2, AcceptedDeployment DEF RegisterDeployment
    <3>2. DeploymentTypes'
      BY <2>0, <2>2, <3>1, WriteDeploymentTypes DEF RegisterDeployment
    <3>3. ProofTypes'
      BY <2>0, <2>2 DEF RegisterDeployment, proofVars, ProofTypes
    <3>4. At(DeploymentBody(c, k, a, s), Building, nextIndex) \in Entry
      BY <2>0, <3>1, DeploymentEntryType DEF LedgerTypes
    <3>5. LedgerTypes'
      BY <2>0, <2>2, <3>4 DEF RegisterDeployment, LedgerTypes
    <3> QED
      BY <3>2, <3>3, <3>5 DEF TypeOK, ProofTypes, DeploymentTypes, LedgerTypes
  <2>3. ASSUME NEW p \in AnyProof, NEW c \in AnyCode, NEW d \in AnyPayload,
               NEW k \in AnyChain, NEW a \in AnyAddress, NEW s \in Sender,
               SubmitProofAndRegister(p, c, d, k, a, s)
        PROVE  TypeOK'
    <3>1. /\ p \in ProofHash /\ c \in CodeHash /\ d \in Payload
          /\ k \in ChainId /\ a \in Address
      BY <2>3, AcceptedProof, AcceptedDeployment DEF SubmitProofAndRegister
    <3>2. ProofTypes'
      BY <2>0, <2>3, <3>1, WriteProofTypes DEF SubmitProofAndRegister
    <3>3. DeploymentTypes'
      BY <2>0, <2>3, <3>1, WriteDeploymentTypes DEF SubmitProofAndRegister
    <3>4. /\ At(ProofBody(p, c, d, s), Building, nextIndex) \in Entry
          /\ At(DeploymentBody(c, k, a, s), Building, nextIndex + 1) \in Entry
      BY <2>0, <3>1, ProofEntryType, DeploymentEntryType DEF LedgerTypes
    <3>5. LedgerTypes'
      BY <2>0, <2>3, <3>4 DEF SubmitProofAndRegister, LedgerTypes
    <3> QED
      BY <3>2, <3>3, <3>5 DEF TypeOK, ProofTypes, DeploymentTypes, LedgerTypes
  <2>4. CASE SealBlock
    BY <2>4, RegistryBoundAssumption
    DEF SealBlock, TypeOK, proofVars, deploymentVars
  <2>5. CASE UNCHANGED vars
    BY <2>5 DEF vars, proofVars, deploymentVars, ledgerVars, TypeOK
  <2> QED
    BY <2>1, <2>2, <2>3, <2>4, <2>5 DEF Next
<1> QED
  BY <1>1, <1>2, PTL DEF Spec
-----------------------------------------------------------------------------
(* The storage invariant.  On its own none of the listed properties is        *)
(* inductive: ChainsListed needs the chain flags, the order of the arrays     *)
(* needs the log to tell the storage and its entries to lie before the tip.   *)
ChainFlags ==
    \A c \in AnyCode, k \in AnyChain :
        <<c, k>> \in chainIdExists <=> deploymentsByCodeHash[c][k] # <<>>

EntriesBeforeTip ==
    \A e \in log : /\ e.block =< Building
                   /\ e.block = Building => e.index < nextIndex

StorageInv ==
    /\ TypeOK
    /\ ProofsListed
    /\ DeploymentsListed
    /\ ChainFlags
    /\ ChainsListed
    /\ LogTellsStorage
    /\ EntriesBeforeTip
    /\ ListedInLogOrder

LEMMA WriteProofListed ==
    ASSUME ProofTypes, ProofsListed,
           NEW p \in ProofHash, NEW c \in CodeHash, NEW d \in Payload, NEW s \in Sender,
           ProofAccepted(p, c, d), WriteProof(p, c, d, s)
    PROVE  ProofsListed'
<1>1. p \in AnyProof /\ c \in AnyCode /\ p \notin proofExists
  BY DEF AnyProof, AnyCode, ProofAccepted
<1>2. /\ verificationRecords'[p].codeHash = c
      /\ \A q \in proofExists : verificationRecords'[q] = verificationRecords[q]
      /\ proofExists' = proofExists \cup {p}
  BY <1>1 DEF WriteProof, ProofTypes, AnyProof
<1>3. /\ proofsByCodeHash'[c] = Append(proofsByCodeHash[c], p)
      /\ \A x \in AnyCode : x # c => proofsByCodeHash'[x] = proofsByCodeHash[x]
      /\ proofsByCodeHash[c] \in Seq(ProofHash)
  BY <1>1 DEF WriteProof, ProofTypes
<1> SUFFICES ASSUME NEW x \in AnyCode
             PROVE  /\ Distinct(proofsByCodeHash'[x])
                    /\ Elems(proofsByCodeHash'[x]) =
                          {q \in proofExists' : verificationRecords'[q].codeHash = x}
  BY DEF ProofsListed
<1>4. /\ Distinct(proofsByCodeHash[x])
      /\ Elems(proofsByCodeHash[x]) =
            {q \in proofExists : verificationRecords[q].codeHash = x}
  BY DEF ProofsListed
<1>5. CASE x = c
  <2>1. p \notin Elems(proofsByCodeHash[c]) /\ Distinct(proofsByCodeHash[c])
    BY <1>1, <1>4, <1>5
  <2>2. /\ Elems(Append(proofsByCodeHash[c], p)) = Elems(proofsByCodeHash[c]) \cup {p}
        /\ Distinct(Append(proofsByCodeHash[c], p))
    BY <1>3, <2>1, PushElems
  <2>3. /\ Elems(proofsByCodeHash'[x]) = Elems(proofsByCodeHash[x]) \cup {p}
        /\ Distinct(proofsByCodeHash'[x])
    BY <1>3, <1>5, <2>2
  <2> QED
    BY <1>2, <1>4, <1>5, <2>3
<1>6. CASE x # c
  BY <1>2, <1>3, <1>4, <1>6
<1> QED
  BY <1>5, <1>6

LEMMA WriteDeploymentArrays ==
    ASSUME DeploymentTypes,
           NEW c \in CodeHash, NEW k \in ChainId, NEW a \in Address,
           WriteDeployment(c, k, a)
    PROVE  /\ deploymentsByCodeHash'[c][k] = Append(deploymentsByCodeHash[c][k], a)
           /\ \A x \in AnyCode, y \in AnyChain :
                 x # c \/ y # k => deploymentsByCodeHash'[x][y] = deploymentsByCodeHash[x][y]
           /\ deploymentsByCodeHash[c][k] \in Seq(Address)
           /\ c \in AnyCode /\ k \in AnyChain /\ a \in AnyAddress
<1>1. c \in AnyCode /\ k \in AnyChain /\ a \in AnyAddress
  BY DEF AnyCode, AnyChain, AnyAddress
<1>2. /\ deploymentsByCodeHash \in [AnyCode -> [AnyChain -> Seq(Address)]]
      /\ deploymentsByCodeHash' =
            [deploymentsByCodeHash EXCEPT ![c][k] = Append(@, a)]
  BY DEF DeploymentTypes, WriteDeployment
<1> QED
  BY <1>1, <1>2

LEMMA WriteDeploymentListed ==
    ASSUME DeploymentTypes, DeploymentsListed,
           NEW c \in CodeHash, NEW k \in ChainId, NEW a \in Address,
           DeploymentAccepted(c, k, a), WriteDeployment(c, k, a)
    PROVE  DeploymentsListed'
<1> DEFINE Old(x, y) == deploymentsByCodeHash[x][y]
           New(x, y) == deploymentsByCodeHash'[x][y]
<1>1. /\ New(c, k) = Append(Old(c, k), a)
      /\ \A x \in AnyCode, y \in AnyChain : x # c \/ y # k => New(x, y) = Old(x, y)
      /\ Old(c, k) \in Seq(Address)
      /\ a \in AnyAddress
  BY WriteDeploymentArrays
<1>2. <<c, k, a>> \notin deploymentExists /\ deploymentExists' = deploymentExists \cup {<<c, k, a>>}
  BY DEF DeploymentAccepted, WriteDeployment
<1> SUFFICES ASSUME NEW x \in AnyCode, NEW y \in AnyChain
             PROVE  /\ Distinct(New(x, y))
                    /\ Elems(New(x, y)) = {z \in AnyAddress : <<x, y, z>> \in deploymentExists'}
  BY DEF DeploymentsListed
<1>3. /\ Distinct(Old(x, y))
      /\ Elems(Old(x, y)) = {z \in AnyAddress : <<x, y, z>> \in deploymentExists}
  BY DEF DeploymentsListed
<1> HIDE DEF Old, New
<1>4. CASE x = c /\ y = k
  <2>1. a \notin Elems(Old(c, k)) /\ Distinct(Old(c, k))
    BY <1>2, <1>3, <1>4
  <2>2. Elems(New(c, k)) = Elems(Old(c, k)) \cup {a} /\ Distinct(New(c, k))
    BY <1>1, <2>1, PushElems
  <2> QED
    BY <1>1, <1>2, <1>3, <1>4, <2>2
<1>5. CASE x # c \/ y # k
  BY <1>1, <1>2, <1>3, <1>5
<1> QED
  BY <1>4, <1>5

LEMMA WriteDeploymentFlags ==
    ASSUME DeploymentTypes, ChainFlags,
           NEW c \in CodeHash, NEW k \in ChainId, NEW a \in Address,
           WriteDeployment(c, k, a)
    PROVE  ChainFlags'
<1>1. chainIdExists' = chainIdExists \cup {<<c, k>>}
  BY DEF WriteDeployment, NoteChain
<1>2. /\ deploymentsByCodeHash'[c][k] # <<>>
      /\ \A x \in AnyCode, y \in AnyChain :
            x # c \/ y # k => deploymentsByCodeHash'[x][y] = deploymentsByCodeHash[x][y]
  BY WriteDeploymentArrays, PushElems
<1> QED
  BY <1>1, <1>2 DEF ChainFlags

LEMMA WriteDeploymentChains ==
    ASSUME DeploymentTypes, ChainFlags, ChainsListed,
           NEW c \in CodeHash, NEW k \in ChainId, NEW a \in Address,
           WriteDeployment(c, k, a)
    PROVE  ChainsListed'
<1>1. /\ deploymentsByCodeHash'[c][k] # <<>>
      /\ \A x \in AnyCode, y \in AnyChain :
            x # c \/ y # k => deploymentsByCodeHash'[x][y] = deploymentsByCodeHash[x][y]
      /\ c \in AnyCode /\ k \in AnyChain
  BY WriteDeploymentArrays, PushElems
<1> SUFFICES ASSUME NEW x \in AnyCode
             PROVE  /\ Distinct(chainIdsByCodeHash'[x])
                    /\ Elems(chainIdsByCodeHash'[x]) =
                          {y \in AnyChain : deploymentsByCodeHash'[x][y] # <<>>}
  BY DEF ChainsListed
<1>2. /\ Distinct(chainIdsByCodeHash[x])
      /\ Elems(chainIdsByCodeHash[x]) = {y \in AnyChain : deploymentsByCodeHash[x][y] # <<>>}
      /\ chainIdsByCodeHash[x] \in Seq(ChainId)
  BY DEF ChainsListed, DeploymentTypes
<1>3. CASE <<c, k>> \in chainIdExists
  <2>1. chainIdsByCodeHash' = chainIdsByCodeHash /\ deploymentsByCodeHash[c][k] # <<>>
    BY <1>1, <1>3 DEF WriteDeployment, NoteChain, ChainFlags
  <2> QED
    BY <1>1, <1>2, <2>1
<1>4. CASE <<c, k>> \notin chainIdExists
  <2>1. deploymentsByCodeHash[c][k] = <<>>
    BY <1>1, <1>4 DEF ChainFlags
  <2>2. chainIdsByCodeHash' = [chainIdsByCodeHash EXCEPT ![c] = Append(@, k)]
    BY <1>4 DEF WriteDeployment, NoteChain
  <2>3. CASE x = c
    <3>1. chainIdsByCodeHash'[x] = Append(chainIdsByCodeHash[x], k)
      BY <2>2, <2>3, <1>1 DEF DeploymentTypes
    <3>2. k \notin Elems(chainIdsByCodeHash[x])
      BY <1>2, <2>1, <2>3
    <3>3. /\ Distinct(chainIdsByCodeHash'[x])
          /\ Elems(chainIdsByCodeHash'[x]) = Elems(chainIdsByCodeHash[x]) \cup {k}
      BY <1>2, <3>1, <3>2, PushElems
    <3> QED
      BY <1>1, <1>2, <2>3, <3>3
  <2>4. CASE x # c
    <3>1. chainIdsByCodeHash'[x] = chainIdsByCodeHash[x]
      BY <2>2, <2>4 DEF DeploymentTypes
    <3> QED
      BY <1>1, <1>2, <2>4, <3>1
  <2> QED
    BY <2>3, <2>4
<1> QED
  BY <1>3, <1>4

\* An entry the log held is still told by storage after a proof is written.
LEMMA WriteProofKeepsRecorded ==
    ASSUME TypeOK,
           NEW p \in ProofHash, NEW c \in CodeHash, NEW d \in Payload, NEW s \in Sender,
           ProofAccepted(p, c, d), WriteProof(p, c, d, s),
           deploymentExists \subseteq deploymentExists',
           NEW e \in log, Recorded(e)
    PROVE  Recorded(e)'
<1>1. CASE IsProof(e.body)
  <2>1. e.body.proofHash \in proofExists /\ e.body.proofHash # p
    BY <1>1 DEF Recorded, ProofAccepted
  <2>2. verificationRecords'[e.body.proofHash] = verificationRecords[e.body.proofHash]
    BY <2>1 DEF WriteProof, TypeOK, AnyProof
  <2> QED
    BY <1>1, <2>1, <2>2 DEF Recorded, WriteProof
<1>2. CASE ~IsProof(e.body)
  BY <1>2 DEF Recorded
<1> QED
  BY <1>1, <1>2

LEMMA WrittenProofRecorded ==
    ASSUME TypeOK,
           NEW p \in ProofHash, NEW c \in CodeHash, NEW d \in Payload, NEW s \in Sender,
           WriteProof(p, c, d, s),
           NEW n \in Nat, NEW e, e = At(ProofBody(p, c, d, s), Building, n)
    PROVE  Recorded(e)' /\ IsProof(e.body) /\ e.body.proofHash = p
<1>1. verificationRecords'[p] = [codeHash |-> c, payload |-> d, submitter |-> s,
                                 submittedAt |-> Building]
  BY DEF WriteProof, TypeOK, AnyProof
<1> QED
  BY <1>1 DEF Recorded, At, ProofBody, IsProof, WriteProof

LEMMA WrittenDeploymentRecorded ==
    ASSUME NEW c \in CodeHash, NEW k \in ChainId, NEW a \in Address, NEW s \in Sender,
           WriteDeployment(c, k, a),
           NEW n \in Nat, NEW e, e = At(DeploymentBody(c, k, a, s), Building, n)
    PROVE  Recorded(e)' /\ ~IsProof(e.body) /\ Triple(e.body) = <<c, k, a>>
BY DEF Recorded, At, DeploymentBody, IsProof, Triple, WriteDeployment

LEMMA SubmitProofTells ==
    ASSUME TypeOK, LogTellsStorage,
           NEW p \in ProofHash, NEW c \in CodeHash, NEW d \in Payload, NEW s \in Sender,
           SubmitProof(p, c, d, s)
    PROVE  LogTellsStorage'
<1>x. PICK x : x = At(ProofBody(p, c, d, s), Building, nextIndex)
  OBVIOUS
<1>1. /\ ProofAccepted(p, c, d) /\ WriteProof(p, c, d, s)
      /\ deploymentExists' = deploymentExists
      /\ log' = log \cup {x}
      /\ proofExists' = proofExists \cup {p}
  BY <1>x DEF SubmitProof, deploymentVars, WriteProof
<1>2. Recorded(x)' /\ IsProof(x.body) /\ x.body.proofHash = p
  BY <1>1, <1>x, WrittenProofRecorded DEF TypeOK
<1>3. \A e \in log : Recorded(e)'
  BY <1>1, WriteProofKeepsRecorded DEF LogTellsStorage
<1>4. \A e \in log' : Recorded(e)'
  BY <1>1, <1>2, <1>3
<1>5. \A q \in proofExists' : \E e \in log' : IsProof(e.body) /\ e.body.proofHash = q
  BY <1>1, <1>2 DEF LogTellsStorage
<1>6. \A t \in deploymentExists' : \E e \in log' : ~IsProof(e.body) /\ Triple(e.body) = t
  BY <1>1 DEF LogTellsStorage
<1> QED
  BY <1>4, <1>5, <1>6 DEF LogTellsStorage

LEMMA RegisterDeploymentTells ==
    ASSUME TypeOK, LogTellsStorage,
           NEW c \in CodeHash, NEW k \in ChainId, NEW a \in Address, NEW s \in Sender,
           RegisterDeployment(c, k, a, s)
    PROVE  LogTellsStorage'
<1>y. PICK y : y = At(DeploymentBody(c, k, a, s), Building, nextIndex)
  OBVIOUS
<1>1. /\ WriteDeployment(c, k, a)
      /\ proofExists' = proofExists /\ verificationRecords' = verificationRecords
      /\ log' = log \cup {y}
      /\ deploymentExists' = deploymentExists \cup {<<c, k, a>>}
  BY <1>y DEF RegisterDeployment, proofVars, WriteDeployment
<1>2. Recorded(y)' /\ ~IsProof(y.body) /\ Triple(y.body) = <<c, k, a>>
  BY <1>1, <1>y, WrittenDeploymentRecorded DEF TypeOK
<1>3. \A e \in log : Recorded(e)'
  BY <1>1 DEF LogTellsStorage, Recorded
<1>4. \A e \in log' : Recorded(e)'
  BY <1>1, <1>2, <1>3
<1>5. \A q \in proofExists' : \E e \in log' : IsProof(e.body) /\ e.body.proofHash = q
  BY <1>1 DEF LogTellsStorage
<1>6. \A t \in deploymentExists' : \E e \in log' : ~IsProof(e.body) /\ Triple(e.body) = t
  BY <1>1, <1>2 DEF LogTellsStorage
<1> QED
  BY <1>4, <1>5, <1>6 DEF LogTellsStorage

LEMMA SubmitProofAndRegisterTells ==
    ASSUME TypeOK, LogTellsStorage,
           NEW p \in ProofHash, NEW c \in CodeHash, NEW d \in Payload, NEW s \in Sender,
           NEW k \in ChainId, NEW a \in Address,
           SubmitProofAndRegister(p, c, d, k, a, s)
    PROVE  LogTellsStorage'
<1>x. PICK x : x = At(ProofBody(p, c, d, s), Building, nextIndex)
  OBVIOUS
<1>y. PICK y : y = At(DeploymentBody(c, k, a, s), Building, nextIndex + 1)
  OBVIOUS
<1>1. /\ ProofAccepted(p, c, d) /\ WriteProof(p, c, d, s) /\ WriteDeployment(c, k, a)
      /\ log' = log \cup {x, y}
      /\ proofExists' = proofExists \cup {p}
      /\ deploymentExists' = deploymentExists \cup {<<c, k, a>>}
  BY <1>x, <1>y DEF SubmitProofAndRegister, WriteProof, WriteDeployment
<1>2. Recorded(x)' /\ IsProof(x.body) /\ x.body.proofHash = p
  BY <1>1, <1>x, WrittenProofRecorded DEF TypeOK
<1>3. Recorded(y)' /\ ~IsProof(y.body) /\ Triple(y.body) = <<c, k, a>>
  <2>1. nextIndex + 1 \in Nat
    BY DEF TypeOK
  <2> QED
    BY <1>1, <1>y, <2>1, WrittenDeploymentRecorded
<1>4. \A e \in log : Recorded(e)'
  BY <1>1, WriteProofKeepsRecorded DEF LogTellsStorage
<1>5. \A e \in log' : Recorded(e)'
  BY <1>1, <1>2, <1>3, <1>4
<1>6. \A q \in proofExists' : \E e \in log' : IsProof(e.body) /\ e.body.proofHash = q
  BY <1>1, <1>2 DEF LogTellsStorage
<1>7. \A t \in deploymentExists' : \E e \in log' : ~IsProof(e.body) /\ Triple(e.body) = t
  BY <1>1, <1>3 DEF LogTellsStorage
<1> QED
  BY <1>5, <1>6, <1>7 DEF LogTellsStorage

\* Whatever the block being built appends comes after every entry of the log.
LEMMA NewEntryIsLast ==
    ASSUME TypeOK, EntriesBeforeTip, NEW b, NEW n \in Nat, n >= nextIndex, NEW e \in log
    PROVE  Precedes(e, At(b, Building, n))
<1>1. /\ e.block \in Nat /\ e.index \in Nat /\ nextIndex \in Nat /\ Building \in Nat
      /\ e.block =< Building /\ (e.block = Building => e.index < nextIndex)
  BY RegistryBoundAssumption DEF TypeOK, Entry, EntriesBeforeTip, Building
<1> QED
  BY <1>1 DEF Precedes, At

\* What a transaction appends to the log comes after all it held.
LogGrows ==
    /\ log \subseteq log'
    /\ \A e \in log, g \in log' \ log : Precedes(e, g)

\* Entries at the end of the log leave an array in order.
LEMMA StaysInLogOrder ==
    ASSUME LogGrows, NEW S, NEW s \in Seq(S), NEW L, NEW M, InLogOrder(s, L),
           \A y \in Elems(s) : L[y] \subseteq log /\ M[y] \ L[y] \subseteq log' \ log,
           \A y \in Elems(s) : L[y] \subseteq M[y]
    PROVE  InLogOrder(s, M)
<1> SUFFICES ASSUME NEW i \in DOMAIN s, NEW j \in DOMAIN s, i < j
             PROVE  \E e \in M[s[i]] : \A f \in M[s[j]] : Precedes(e, f)
  BY DEF InLogOrder
<1>1. s[i] \in Elems(s) /\ s[j] \in Elems(s)
  BY DEF Elems
<1>2. PICK e \in L[s[i]] : \A f \in L[s[j]] : Precedes(e, f)
  BY DEF InLogOrder
<1>3. e \in M[s[i]] /\ e \in log
  BY <1>1
<1>4. \A f \in M[s[j]] : f \in L[s[j]] \/ f \in log' \ log
  BY <1>1
<1> QED
  BY <1>2, <1>3, <1>4 DEF LogGrows

\* So does an element nothing in the log was about, pushed to the array.
LEMMA PushedInLogOrder ==
    ASSUME LogGrows, NEW S, NEW s \in Seq(S), NEW x \in S, NEW L, NEW M, InLogOrder(s, L),
           \A y \in Elems(s) : L[y] \subseteq log /\ M[y] \ L[y] \subseteq log' \ log,
           \A y \in Elems(s) : L[y] \subseteq M[y] /\ L[y] # {},
           M[x] \subseteq log' \ log
    PROVE  InLogOrder(Append(s, x), M)
<1> DEFINE t == Append(s, x)
<1>1. /\ DOMAIN s = 1..Len(s) /\ DOMAIN t = 1..(Len(s) + 1) /\ Len(s) \in Nat
      /\ \A m \in 1..Len(s) : t[m] = s[m]
      /\ t[Len(s) + 1] = x
  BY AppendProperties, LenProperties
<1>2. InLogOrder(s, M)
  BY StaysInLogOrder
<1> HIDE DEF t
<1> SUFFICES ASSUME NEW i \in DOMAIN t, NEW j \in DOMAIN t, i < j
             PROVE  \E e \in M[t[i]] : \A f \in M[t[j]] : Precedes(e, f)
  BY DEF InLogOrder, t
<1>3. i \in 1..Len(s) /\ i \in DOMAIN s /\ t[i] = s[i]
  BY <1>1
<1>4. CASE j \in 1..Len(s)
  BY <1>1, <1>2, <1>3, <1>4 DEF InLogOrder
<1>5. CASE j = Len(s) + 1
  <2>1. t[j] = x /\ s[i] \in Elems(s)
    BY <1>1, <1>3, <1>5 DEF Elems
  <2>2. PICK e \in L[s[i]] : TRUE
    BY <2>1
  <2>3. e \in M[t[i]] /\ e \in log
    BY <1>3, <2>1, <2>2
  <2> QED
    BY <2>1, <2>3 DEF LogGrows
<1> QED
  BY <1>1, <1>4, <1>5

\* What the log held about a thing, it still holds; the rest is new.
LEMMA AboutGrows ==
    ASSUME LogGrows
    PROVE  /\ \A p \in ProofHash :
                 /\ AboutProof[p] \subseteq log /\ AboutProof[p] \subseteq AboutProof'[p]
                 /\ AboutProof'[p] \ AboutProof[p] \subseteq log' \ log
           /\ \A c \in AnyCode, k \in AnyChain, a \in Address :
                 /\ AboutDeployment(c, k)[a] \subseteq log
                 /\ AboutDeployment(c, k)[a] \subseteq AboutDeployment(c, k)'[a]
                 /\ AboutDeployment(c, k)'[a] \ AboutDeployment(c, k)[a] \subseteq log' \ log
           /\ \A c \in AnyCode, k \in ChainId :
                 /\ AboutChain(c)[k] \subseteq log
                 /\ AboutChain(c)[k] \subseteq AboutChain(c)'[k]
                 /\ AboutChain(c)'[k] \ AboutChain(c)[k] \subseteq log' \ log
BY DEF LogGrows, AboutProof, AboutDeployment, AboutChain

\* The log has an entry about whatever an array lists.
LEMMA ListedIsAnnounced ==
    ASSUME TypeOK, ProofsListed, DeploymentsListed, ChainsListed, LogTellsStorage
    PROVE  /\ \A c \in AnyCode : \A p \in Elems(proofsByCodeHash[c]) :
                 p \in ProofHash /\ AboutProof[p] # {}
           /\ \A c \in AnyCode, k \in AnyChain : \A a \in Elems(deploymentsByCodeHash[c][k]) :
                 a \in Address /\ AboutDeployment(c, k)[a] # {}
           /\ \A c \in AnyCode : \A k \in Elems(chainIdsByCodeHash[c]) :
                 k \in ChainId /\ AboutChain(c)[k] # {}
<1>1. ASSUME NEW c \in AnyCode, NEW p \in Elems(proofsByCodeHash[c])
      PROVE  p \in ProofHash /\ AboutProof[p] # {}
  <2>1. p \in proofExists /\ p \in ProofHash
    BY <1>1 DEF ProofsListed, TypeOK
  <2> QED
    BY <2>1 DEF LogTellsStorage, AboutProof
<1>2. ASSUME NEW c \in AnyCode, NEW k \in AnyChain,
             NEW a \in Elems(deploymentsByCodeHash[c][k])
      PROVE  /\ a \in Address /\ AboutDeployment(c, k)[a] # {}
             /\ k \in ChainId /\ AboutChain(c)[k] # {}
  <2>1. <<c, k, a>> \in deploymentExists
    BY <1>2 DEF DeploymentsListed
  <2>2. k \in ChainId /\ a \in Address
    BY <2>1 DEF TypeOK
  <2>3. PICK e \in log : ~IsProof(e.body) /\ Triple(e.body) = <<c, k, a>>
    BY <2>1 DEF LogTellsStorage
  <2>4. e.body.codeHash = c /\ e.body.chainId = k
    BY <2>3 DEF Triple
  <2> QED
    BY <2>2, <2>3, <2>4 DEF AboutDeployment, AboutChain
<1>3. ASSUME NEW c \in AnyCode, NEW k \in Elems(chainIdsByCodeHash[c])
      PROVE  k \in ChainId /\ AboutChain(c)[k] # {}
  <2>1. k \in AnyChain /\ deploymentsByCodeHash[c][k] # <<>>
    BY <1>3 DEF ChainsListed
  <2>2. deploymentsByCodeHash[c][k] \in Seq(Address)
    BY <2>1 DEF TypeOK
  <2>3. 1 \in DOMAIN deploymentsByCodeHash[c][k]
    BY <2>1, <2>2, LenProperties, EmptySeq
  <2>4. deploymentsByCodeHash[c][k][1] \in Elems(deploymentsByCodeHash[c][k])
    BY <2>3 DEF Elems
  <2> QED
    BY <1>2, <2>1, <2>4
<1> QED
  BY <1>1, <1>2, <1>3

\* A pushed proof is last in its array and last in the log.
LEMMA WriteProofInLogOrder ==
    ASSUME TypeOK, ProofsListed, DeploymentsListed, ChainsListed, LogTellsStorage,
           ProofsInLogOrder, LogGrows,
           NEW p \in ProofHash, NEW c \in CodeHash, NEW d \in Payload, NEW s \in Sender,
           ProofAccepted(p, c, d), WriteProof(p, c, d, s)
    PROVE  ProofsInLogOrder'
<1> SUFFICES ASSUME NEW z \in AnyCode
             PROVE  InLogOrder(proofsByCodeHash'[z], AboutProof')
  BY DEF ProofsInLogOrder, InLogOrder
<1>1. /\ c \in AnyCode /\ proofsByCodeHash[z] \in Seq(ProofHash)
      /\ proofsByCodeHash'[z] =
            IF z = c THEN Append(proofsByCodeHash[z], p) ELSE proofsByCodeHash[z]
  BY DEF WriteProof, TypeOK, AnyCode
<1>2. \A y \in Elems(proofsByCodeHash[z]) : y \in ProofHash /\ AboutProof[y] # {}
  BY ListedIsAnnounced
<1>3. \A y \in Elems(proofsByCodeHash[z]) :
         /\ AboutProof[y] \subseteq log /\ AboutProof[y] \subseteq AboutProof'[y]
         /\ AboutProof'[y] \ AboutProof[y] \subseteq log' \ log
  <2> TAKE y \in Elems(proofsByCodeHash[z])
  <2> y \in ProofHash
    BY <1>2
  <2> QED
    BY AboutGrows
<1>4. AboutProof'[p] \subseteq log' \ log
  BY DEF AboutProof, LogTellsStorage, Recorded, ProofAccepted
<1>5. InLogOrder(proofsByCodeHash[z], AboutProof)
  BY DEF ProofsInLogOrder
<1>6. CASE z = c
  <2>1. InLogOrder(Append(proofsByCodeHash[z], p), AboutProof')
    BY <1>1, <1>2, <1>3, <1>4, <1>5, PushedInLogOrder
  <2> QED
    BY <1>1, <1>6, <2>1
<1>7. CASE z # c
  <2>1. InLogOrder(proofsByCodeHash[z], AboutProof')
    BY <1>1, <1>3, <1>5, StaysInLogOrder
  <2> QED
    BY <1>1, <1>7, <2>1
<1> QED
  BY <1>6, <1>7

\* So is a pushed deployment, and a chain pushed with its first deployment.
LEMMA WriteDeploymentInLogOrder ==
    ASSUME TypeOK, ProofsListed, DeploymentsListed, ChainFlags, ChainsListed,
           LogTellsStorage, DeploymentsInLogOrder, ChainsInLogOrder, LogGrows,
           NEW c \in CodeHash, NEW k \in ChainId, NEW a \in Address,
           DeploymentAccepted(c, k, a), WriteDeployment(c, k, a)
    PROVE  DeploymentsInLogOrder' /\ ChainsInLogOrder'
<1>0. DeploymentTypes /\ c \in AnyCode /\ k \in AnyChain
  BY DEF TypeOK, DeploymentTypes, AnyCode, AnyChain
<1>1. ASSUME NEW z \in AnyCode, NEW h \in AnyChain
      PROVE  InLogOrder(deploymentsByCodeHash'[z][h], AboutDeployment(z, h)')
  <2>1. /\ deploymentsByCodeHash[z][h] \in Seq(Address)
        /\ InLogOrder(deploymentsByCodeHash[z][h], AboutDeployment(z, h))
    BY DEF TypeOK, DeploymentsInLogOrder
  <2>2. \A y \in Elems(deploymentsByCodeHash[z][h]) :
           y \in Address /\ AboutDeployment(z, h)[y] # {}
    BY ListedIsAnnounced
  <2>3. \A y \in Elems(deploymentsByCodeHash[z][h]) :
           /\ AboutDeployment(z, h)[y] \subseteq log
           /\ AboutDeployment(z, h)[y] \subseteq AboutDeployment(z, h)'[y]
           /\ AboutDeployment(z, h)'[y] \ AboutDeployment(z, h)[y] \subseteq log' \ log
    <3> TAKE y \in Elems(deploymentsByCodeHash[z][h])
    <3> y \in Address
      BY <2>2
    <3> QED
      BY AboutGrows
  <2>4. CASE z = c /\ h = k
    <3>1. AboutDeployment(z, h)'[a] \subseteq log' \ log
      <4>1. \A e \in log : ~IsProof(e.body) => Triple(e.body) # <<c, k, a>>
        BY DEF LogTellsStorage, Recorded, DeploymentAccepted
      <4> QED
        BY <2>4, <4>1 DEF AboutDeployment
    <3>2. InLogOrder(Append(deploymentsByCodeHash[z][h], a), AboutDeployment(z, h)')
      <4>1. PICK old : old = deploymentsByCodeHash[z][h]
        OBVIOUS
      <4>2. old \in Seq(Address) /\ InLogOrder(old, AboutDeployment(z, h))
        BY <2>1, <4>1
      <4>3. \A y \in Elems(old) :
               /\ AboutDeployment(z, h)[y] \subseteq log
               /\ AboutDeployment(z, h)'[y] \ AboutDeployment(z, h)[y] \subseteq log' \ log
               /\ AboutDeployment(z, h)[y] \subseteq AboutDeployment(z, h)'[y]
               /\ AboutDeployment(z, h)[y] # {}
        BY <2>2, <2>3, <4>1
      <4>4. InLogOrder(Append(old, a), AboutDeployment(z, h)')
        BY <3>1, <4>2, <4>3, PushedInLogOrder
      <4> QED
        BY <4>1, <4>4
    <3> QED
      BY <1>0, <2>4, <3>2, WriteDeploymentArrays
  <2>5. CASE z # c \/ h # k
    <3>1. InLogOrder(deploymentsByCodeHash[z][h], AboutDeployment(z, h)')
      BY <2>1, <2>3, StaysInLogOrder
    <3> QED
      BY <1>0, <2>5, <3>1, WriteDeploymentArrays
  <2> QED
    BY <2>4, <2>5
<1>2. ASSUME NEW z \in AnyCode
      PROVE  InLogOrder(chainIdsByCodeHash'[z], AboutChain(z)')
  <2>1. /\ chainIdsByCodeHash[z] \in Seq(ChainId)
        /\ InLogOrder(chainIdsByCodeHash[z], AboutChain(z))
    BY DEF TypeOK, ChainsInLogOrder
  <2>2. \A y \in Elems(chainIdsByCodeHash[z]) :
           y \in ChainId /\ AboutChain(z)[y] # {}
    BY ListedIsAnnounced
  <2>3. \A y \in Elems(chainIdsByCodeHash[z]) :
           /\ AboutChain(z)[y] \subseteq log
           /\ AboutChain(z)[y] \subseteq AboutChain(z)'[y]
           /\ AboutChain(z)'[y] \ AboutChain(z)[y] \subseteq log' \ log
    <3> TAKE y \in Elems(chainIdsByCodeHash[z])
    <3> y \in ChainId
      BY <2>2
    <3> QED
      BY AboutGrows
  <2>4. CASE z = c /\ <<c, k>> \notin chainIdExists
    <3>1. deploymentsByCodeHash[c][k] = <<>>
      BY <1>0, <2>4 DEF ChainFlags
    <3>2. \A y \in AnyAddress : <<c, k, y>> \notin deploymentExists
      BY <1>0, <3>1, EmptyArray DEF DeploymentsListed
    <3>3. \A e \in log : ~IsProof(e.body) => ~(e.body.codeHash = c /\ e.body.chainId = k)
      <4> SUFFICES ASSUME NEW e \in log, ~IsProof(e.body),
                          e.body.codeHash = c, e.body.chainId = k
                   PROVE  FALSE
        OBVIOUS
      <4>1. <<c, k, e.body.address>> \in deploymentExists
        BY DEF LogTellsStorage, Recorded, Triple
      <4>2. e.body.address \in AnyAddress
        BY <4>1 DEF TypeOK, AnyAddress
      <4> QED
        BY <3>2, <4>1, <4>2
    <3>4. AboutChain(z)'[k] \subseteq log' \ log
      BY <2>4, <3>3 DEF AboutChain
    <3>5. InLogOrder(Append(chainIdsByCodeHash[z], k), AboutChain(z)')
      BY <2>1, <2>2, <2>3, <3>4, PushedInLogOrder
    <3>6. chainIdsByCodeHash'[z] = Append(chainIdsByCodeHash[z], k)
      BY <1>0, <2>4 DEF WriteDeployment, NoteChain, TypeOK
    <3> QED
      BY <3>5, <3>6
  <2>5. CASE z # c \/ <<c, k>> \in chainIdExists
    <3>1. InLogOrder(chainIdsByCodeHash[z], AboutChain(z)')
      BY <2>1, <2>3, StaysInLogOrder
    <3>2. chainIdsByCodeHash'[z] = chainIdsByCodeHash[z]
      BY <1>0, <2>5 DEF WriteDeployment, NoteChain, TypeOK
    <3> QED
      BY <3>1, <3>2
  <2> QED
    BY <2>4, <2>5
<1>3. DeploymentsInLogOrder'
  BY <1>1 DEF DeploymentsInLogOrder, InLogOrder
<1>4. ChainsInLogOrder'
  BY <1>2 DEF ChainsInLogOrder, InLogOrder
<1> QED
  BY <1>3, <1>4

\* A transaction about the one kind leaves the arrays of the other in order.
LEMMA ProofsStayInLogOrder ==
    ASSUME TypeOK, ProofsListed, DeploymentsListed, ChainsListed, LogTellsStorage,
           ProofsInLogOrder, LogGrows, UNCHANGED proofVars
    PROVE  ProofsInLogOrder'
<1> SUFFICES ASSUME NEW z \in AnyCode
             PROVE  InLogOrder(proofsByCodeHash'[z], AboutProof')
  BY DEF ProofsInLogOrder, InLogOrder
<1>1. /\ proofsByCodeHash[z] \in Seq(ProofHash) /\ proofsByCodeHash' = proofsByCodeHash
      /\ InLogOrder(proofsByCodeHash[z], AboutProof)
  BY DEF TypeOK, ProofsInLogOrder, proofVars
<1>2. \A y \in Elems(proofsByCodeHash[z]) :
         /\ AboutProof[y] \subseteq log /\ AboutProof[y] \subseteq AboutProof'[y]
         /\ AboutProof'[y] \ AboutProof[y] \subseteq log' \ log
  <2> TAKE y \in Elems(proofsByCodeHash[z])
  <2> y \in ProofHash
    BY ListedIsAnnounced
  <2> QED
    BY AboutGrows
<1>3. InLogOrder(proofsByCodeHash[z], AboutProof')
  BY <1>1, <1>2, StaysInLogOrder
<1> QED
  BY <1>1, <1>3

LEMMA DeploymentsStayInLogOrder ==
    ASSUME TypeOK, ProofsListed, DeploymentsListed, ChainsListed, LogTellsStorage,
           DeploymentsInLogOrder, ChainsInLogOrder, LogGrows, UNCHANGED deploymentVars
    PROVE  DeploymentsInLogOrder' /\ ChainsInLogOrder'
<1>1. ASSUME NEW z \in AnyCode, NEW h \in AnyChain
      PROVE  InLogOrder(deploymentsByCodeHash'[z][h], AboutDeployment(z, h)')
  <2>1. /\ deploymentsByCodeHash[z][h] \in Seq(Address)
        /\ deploymentsByCodeHash' = deploymentsByCodeHash
        /\ InLogOrder(deploymentsByCodeHash[z][h], AboutDeployment(z, h))
    BY DEF TypeOK, DeploymentsInLogOrder, deploymentVars
  <2>2. \A y \in Elems(deploymentsByCodeHash[z][h]) :
           /\ AboutDeployment(z, h)[y] \subseteq log
           /\ AboutDeployment(z, h)[y] \subseteq AboutDeployment(z, h)'[y]
           /\ AboutDeployment(z, h)'[y] \ AboutDeployment(z, h)[y] \subseteq log' \ log
    <3> TAKE y \in Elems(deploymentsByCodeHash[z][h])
    <3> y \in Address
      BY ListedIsAnnounced
    <3> QED
      BY AboutGrows
  <2>3. InLogOrder(deploymentsByCodeHash[z][h], AboutDeployment(z, h)')
    BY <2>1, <2>2, StaysInLogOrder
  <2> QED
    BY <2>1, <2>3
<1>2. ASSUME NEW z \in AnyCode
      PROVE  InLogOrder(chainIdsByCodeHash'[z], AboutChain(z)')
  <2>1. /\ chainIdsByCodeHash[z] \in Seq(ChainId)
        /\ chainIdsByCodeHash' = chainIdsByCodeHash
        /\ InLogOrder(chainIdsByCodeHash[z], AboutChain(z))
    BY DEF TypeOK, ChainsInLogOrder, deploymentVars
  <2>2. \A y \in Elems(chainIdsByCodeHash[z]) :
           /\ AboutChain(z)[y] \subseteq log
           /\ AboutChain(z)[y] \subseteq AboutChain(z)'[y]
           /\ AboutChain(z)'[y] \ AboutChain(z)[y] \subseteq log' \ log
    <3> TAKE y \in Elems(chainIdsByCodeHash[z])
    <3> y \in ChainId
      BY ListedIsAnnounced
    <3> QED
      BY AboutGrows
  <2>3. InLogOrder(chainIdsByCodeHash[z], AboutChain(z)')
    BY <2>1, <2>2, StaysInLogOrder
  <2> QED
    BY <2>1, <2>3
<1>3. DeploymentsInLogOrder'
  BY <1>1 DEF DeploymentsInLogOrder, InLogOrder
<1>4. ChainsInLogOrder'
  BY <1>2 DEF ChainsInLogOrder, InLogOrder
<1> QED
  BY <1>3, <1>4

LEMMA SameOrder ==
    ASSUME ListedInLogOrder,
           UNCHANGED <<proofsByCodeHash, deploymentsByCodeHash, chainIdsByCodeHash, log>>
    PROVE  ListedInLogOrder'
<1>1. ProofsInLogOrder'
  <2>1. AboutProof' = AboutProof
    BY DEF AboutProof
  <2> QED
    BY <2>1 DEF ListedInLogOrder, ProofsInLogOrder, InLogOrder
<1>2. DeploymentsInLogOrder'
  <2>1. \A c \in AnyCode, k \in AnyChain : AboutDeployment(c, k)' = AboutDeployment(c, k)
    BY DEF AboutDeployment
  <2> QED
    BY <2>1 DEF ListedInLogOrder, DeploymentsInLogOrder, InLogOrder
<1>3. ChainsInLogOrder'
  <2>1. \A c \in AnyCode : AboutChain(c)' = AboutChain(c)
    BY DEF AboutChain
  <2> QED
    BY <2>1 DEF ListedInLogOrder, ChainsInLogOrder, InLogOrder
<1> QED
  BY <1>1, <1>2, <1>3 DEF ListedInLogOrder

\* The theorem behind every answer the getters give.
THEOREM StorageConsistent == Spec => []StorageInv
<1>1. Init => StorageInv
  <2> SUFFICES ASSUME Init PROVE StorageInv
    OBVIOUS
  <2>1. NoRecord \in Record
    BY DEF NoRecord, Record, AnyCode, AnyPayload
  <2>2. TypeOK
    BY <2>1, EmptySeq, RegistryBoundAssumption DEF Init, TypeOK
  <2>3. ProofsListed /\ DeploymentsListed /\ ChainFlags /\ ChainsListed
    BY EmptyArray
    DEF Init, ProofsListed, DeploymentsListed, ChainFlags, ChainsListed
  <2>4. LogTellsStorage /\ EntriesBeforeTip
    BY DEF Init, LogTellsStorage, EntriesBeforeTip
  <2>5. ListedInLogOrder
    BY EmptySeq
    DEF Init, ListedInLogOrder, ProofsInLogOrder, DeploymentsInLogOrder,
        ChainsInLogOrder, InLogOrder
  <2> QED
    BY <2>2, <2>3, <2>4, <2>5 DEF StorageInv
<1>2. StorageInv /\ TypeOK' /\ [Next]_vars => StorageInv'
  <2> SUFFICES ASSUME StorageInv, TypeOK', [Next]_vars PROVE StorageInv'
    OBVIOUS
  <2>0. /\ TypeOK /\ ProofTypes /\ DeploymentTypes
        /\ nextIndex \in Nat /\ head \in Nat /\ Building \in Nat
    BY RegistryBoundAssumption
    DEF StorageInv, TypeOK, ProofTypes, DeploymentTypes, Building
  <2>1. ASSUME NEW p \in AnyProof, NEW c \in AnyCode, NEW d \in AnyPayload,
               NEW s \in Sender, SubmitProof(p, c, d, s)
        PROVE  StorageInv'
    <3>1. /\ p \in ProofHash /\ c \in CodeHash /\ d \in Payload
          /\ ProofAccepted(p, c, d) /\ WriteProof(p, c, d, s)
          /\ log' = log \cup {At(ProofBody(p, c, d, s), Building, nextIndex)}
      BY <2>1, AcceptedProof DEF SubmitProof
    <3>2. ProofsListed'
      BY <2>0, <3>1, WriteProofListed DEF StorageInv
    <3>3. DeploymentsListed' /\ ChainFlags' /\ ChainsListed'
      BY <2>1 DEF SubmitProof, deploymentVars, StorageInv, DeploymentsListed,
                  ChainFlags, ChainsListed
    <3>4. LogTellsStorage'
      BY <2>0, <2>1, <3>1, SubmitProofTells DEF StorageInv
    <3>5. ListedInLogOrder'
      <4>1. LogGrows
        BY <2>0, <3>1, NewEntryIsLast DEF StorageInv, LogGrows
      <4>2. ProofsInLogOrder'
        BY <2>0, <3>1, <4>1, WriteProofInLogOrder DEF StorageInv, ListedInLogOrder
      <4>3. DeploymentsInLogOrder' /\ ChainsInLogOrder'
        BY <2>0, <2>1, <4>1, DeploymentsStayInLogOrder
        DEF SubmitProof, StorageInv, ListedInLogOrder
      <4> QED
        BY <4>2, <4>3 DEF ListedInLogOrder
    <3>6. EntriesBeforeTip'
      BY <2>0, <2>1 DEF SubmitProof, At, StorageInv, EntriesBeforeTip, Building, TypeOK, Entry
    <3> QED
      BY <3>2, <3>3, <3>4, <3>5, <3>6 DEF StorageInv
  <2>2. ASSUME NEW c \in AnyCode, NEW k \in AnyChain, NEW a \in AnyAddress,
               NEW s \in Sender, RegisterDeployment(c, k, a, s)
        PROVE  StorageInv'
    <3>1. /\ c \in CodeHash /\ k \in ChainId /\ a \in Address
          /\ DeploymentAccepted(c, k, a) /\ WriteDeployment(c, k, a)
          /\ log' = log \cup {At(DeploymentBody(c, k, a, s), Building, nextIndex)}
      BY <2>2, AcceptedDeployment DEF RegisterDeployment
    <3>2. ProofsListed'
      BY <2>2 DEF RegisterDeployment, proofVars, StorageInv, ProofsListed
    <3>3. DeploymentsListed' /\ ChainFlags' /\ ChainsListed'
      BY <2>0, <3>1, WriteDeploymentListed, WriteDeploymentFlags, WriteDeploymentChains
      DEF StorageInv
    <3>4. LogTellsStorage'
      BY <2>0, <2>2, <3>1, RegisterDeploymentTells DEF StorageInv
    <3>5. EntriesBeforeTip'
      BY <2>0, <2>2 DEF RegisterDeployment, At, StorageInv, EntriesBeforeTip, Building,
                        TypeOK, Entry
    <3>6. ListedInLogOrder'
      <4>1. LogGrows
        BY <2>0, <3>1, NewEntryIsLast DEF StorageInv, LogGrows
      <4>2. DeploymentsInLogOrder' /\ ChainsInLogOrder'
        BY <2>0, <3>1, <4>1, WriteDeploymentInLogOrder DEF StorageInv, ListedInLogOrder
      <4>3. ProofsInLogOrder'
        BY <2>0, <2>2, <4>1, ProofsStayInLogOrder
        DEF RegisterDeployment, StorageInv, ListedInLogOrder
      <4> QED
        BY <4>2, <4>3 DEF ListedInLogOrder
    <3> QED
      BY <3>2, <3>3, <3>4, <3>5, <3>6 DEF StorageInv
  <2>3. ASSUME NEW p \in AnyProof, NEW c \in AnyCode, NEW d \in AnyPayload,
               NEW k \in AnyChain, NEW a \in AnyAddress, NEW s \in Sender,
               SubmitProofAndRegister(p, c, d, k, a, s)
        PROVE  StorageInv'
    <3>1. /\ p \in ProofHash /\ c \in CodeHash /\ d \in Payload
          /\ k \in ChainId /\ a \in Address
          /\ ProofAccepted(p, c, d) /\ WriteProof(p, c, d, s)
          /\ DeploymentAccepted(c, k, a) /\ WriteDeployment(c, k, a)
      BY <2>3, AcceptedProof, AcceptedDeployment DEF SubmitProofAndRegister
    <3>2. ProofsListed'
      BY <2>0, <3>1, WriteProofListed DEF StorageInv
    <3>3. DeploymentsListed' /\ ChainFlags' /\ ChainsListed'
      BY <2>0, <3>1, WriteDeploymentListed, WriteDeploymentFlags, WriteDeploymentChains
      DEF StorageInv
    <3>4. LogTellsStorage'
      BY <2>0, <2>3, <3>1, SubmitProofAndRegisterTells DEF StorageInv
    <3>5. ListedInLogOrder'
      <4>1. /\ log' = log \cup {At(ProofBody(p, c, d, s), Building, nextIndex),
                                At(DeploymentBody(c, k, a, s), Building, nextIndex + 1)}
            /\ nextIndex + 1 \in Nat /\ nextIndex + 1 >= nextIndex
        BY <2>0, <2>3 DEF SubmitProofAndRegister
      <4>2. LogGrows
        BY <2>0, <4>1, NewEntryIsLast DEF StorageInv, LogGrows
      <4>3. ProofsInLogOrder'
        BY <2>0, <3>1, <4>2, WriteProofInLogOrder DEF StorageInv, ListedInLogOrder
      <4>4. DeploymentsInLogOrder' /\ ChainsInLogOrder'
        BY <2>0, <3>1, <4>2, WriteDeploymentInLogOrder DEF StorageInv, ListedInLogOrder
      <4> QED
        BY <4>3, <4>4 DEF ListedInLogOrder
    <3>6. EntriesBeforeTip'
      BY <2>0, <2>3 DEF SubmitProofAndRegister, At, StorageInv, EntriesBeforeTip, Building,
                        TypeOK, Entry
    <3> QED
      BY <3>2, <3>3, <3>4, <3>5, <3>6 DEF StorageInv
  <2>4. CASE SealBlock
    <3>1. UNCHANGED <<proofVars, deploymentVars, log>> /\ head' = head + 1
      BY <2>4 DEF SealBlock
    <3>2. EntriesBeforeTip'
      BY <2>0, <3>1 DEF StorageInv, EntriesBeforeTip, Building, TypeOK, Entry
    <3>3. ProofsListed' /\ DeploymentsListed' /\ ChainFlags' /\ ChainsListed'
      BY <3>1 DEF StorageInv, proofVars, deploymentVars, ProofsListed, DeploymentsListed,
                  ChainFlags, ChainsListed
    <3>4. LogTellsStorage'
      BY <3>1 DEF StorageInv, proofVars, deploymentVars, LogTellsStorage, Recorded
    <3>5. ListedInLogOrder'
      BY <3>1, SameOrder DEF StorageInv, proofVars, deploymentVars
    <3> QED
      BY <3>2, <3>3, <3>4, <3>5 DEF StorageInv
  <2>5. CASE UNCHANGED vars
    <3>1. ListedInLogOrder'
      BY <2>5, SameOrder
      DEF vars, proofVars, deploymentVars, ledgerVars, StorageInv
    <3> QED
      BY <2>5, <3>1
      DEF vars, proofVars, deploymentVars, ledgerVars, StorageInv, ProofsListed,
          DeploymentsListed, ChainFlags, ChainsListed, LogTellsStorage, Recorded,
          EntriesBeforeTip, Building
  <2> QED
    BY <2>1, <2>2, <2>3, <2>4, <2>5 DEF Next
<1> QED
  BY <1>1, <1>2, TypeCorrect, PTL DEF Spec

\* The arrays of the getters agree with the existence flags.
THEOREM ArraysConsistent == Spec => []ArraysListed
BY StorageConsistent, PTL DEF StorageInv, ArraysListed

\* Storage and log agree: nothing is announced that is not stored, and nothing
\* is stored unannounced, field by field.
THEOREM LogConsistent == Spec => []LogTellsStorage
BY StorageConsistent, PTL DEF StorageInv

\* Each array a getter returns is in the order of the log: the proofs of a
\* bytecode, its deployments on a chain, and its chains by their first
\* deployment, however the transactions of the senders interleave.
THEOREM ListedInOrder == Spec => []ListedInLogOrder
BY StorageConsistent, PTL DEF StorageInv

-----------------------------------------------------------------------------
(* Immutability. *)
ImmutableStep ==
    /\ \A p \in proofExists :
          p \in proofExists' /\ verificationRecords'[p] = verificationRecords[p]
    /\ deploymentExists \subseteq deploymentExists'
    /\ \A c \in AnyCode :
          /\ Extends(proofsByCodeHash'[c], proofsByCodeHash[c])
          /\ Extends(chainIdsByCodeHash'[c], chainIdsByCodeHash[c])
          /\ \A k \in AnyChain :
                Extends(deploymentsByCodeHash'[c][k], deploymentsByCodeHash[c][k])

ProofsKept ==
    /\ \A p \in proofExists :
          p \in proofExists' /\ verificationRecords'[p] = verificationRecords[p]
    /\ \A c \in AnyCode : Extends(proofsByCodeHash'[c], proofsByCodeHash[c])

DeploymentsKept ==
    /\ deploymentExists \subseteq deploymentExists'
    /\ \A c \in AnyCode :
          /\ Extends(chainIdsByCodeHash'[c], chainIdsByCodeHash[c])
          /\ \A k \in AnyChain :
                Extends(deploymentsByCodeHash'[c][k], deploymentsByCodeHash[c][k])

LEMMA UntouchedKept ==
    ASSUME TypeOK
    PROVE  (UNCHANGED proofVars => ProofsKept) /\ (UNCHANGED deploymentVars => DeploymentsKept)
<1>1. ASSUME UNCHANGED proofVars PROVE ProofsKept
  <2>1. \A c \in AnyCode : Extends(proofsByCodeHash[c], proofsByCodeHash[c])
    BY ExtendsItself DEF TypeOK
  <2> QED
    BY <1>1, <2>1 DEF proofVars, ProofsKept
<1>2. ASSUME UNCHANGED deploymentVars PROVE DeploymentsKept
  <2>1. \A c \in AnyCode :
           /\ Extends(chainIdsByCodeHash[c], chainIdsByCodeHash[c])
           /\ \A k \in AnyChain :
                 Extends(deploymentsByCodeHash[c][k], deploymentsByCodeHash[c][k])
    BY ExtendsItself DEF TypeOK
  <2> QED
    BY <1>2, <2>1 DEF deploymentVars, DeploymentsKept
<1> QED
  BY <1>1, <1>2

LEMMA WriteProofKeeps ==
    ASSUME TypeOK,
           NEW p \in ProofHash, NEW c \in CodeHash, NEW d \in Payload, NEW s \in Sender,
           ProofAccepted(p, c, d), WriteProof(p, c, d, s)
    PROVE  ProofsKept
<1>1. p \notin proofExists /\ proofExists' = proofExists \cup {p}
  BY DEF ProofAccepted, WriteProof
<1>2. \A q \in proofExists : verificationRecords'[q] = verificationRecords[q]
  BY <1>1 DEF WriteProof, TypeOK, AnyProof
<1>3. ASSUME NEW x \in AnyCode PROVE Extends(proofsByCodeHash'[x], proofsByCodeHash[x])
  <2>1. proofsByCodeHash[x] \in Seq(ProofHash)
    BY DEF TypeOK
  <2>2. CASE x = c
    <3>1. proofsByCodeHash'[x] = Append(proofsByCodeHash[x], p)
      BY <2>2 DEF WriteProof, TypeOK
    <3> QED
      BY <2>1, <3>1, PushElems
  <2>3. CASE x # c
    <3>1. proofsByCodeHash'[x] = proofsByCodeHash[x]
      BY <2>3 DEF WriteProof, TypeOK
    <3> QED
      BY <2>1, <3>1, ExtendsItself
  <2> QED
    BY <2>2, <2>3
<1> QED
  BY <1>1, <1>2, <1>3 DEF ProofsKept

LEMMA WriteDeploymentKeeps ==
    ASSUME TypeOK,
           NEW c \in CodeHash, NEW k \in ChainId, NEW a \in Address,
           WriteDeployment(c, k, a)
    PROVE  DeploymentsKept
<1>0. DeploymentTypes
  BY DEF TypeOK, DeploymentTypes
<1>1. deploymentExists \subseteq deploymentExists'
  BY DEF WriteDeployment
<1>2. ASSUME NEW x \in AnyCode PROVE Extends(chainIdsByCodeHash'[x], chainIdsByCodeHash[x])
  <2>1. chainIdsByCodeHash[x] \in Seq(ChainId)
    BY DEF TypeOK
  <2>2. CASE x = c /\ <<c, k>> \notin chainIdExists
    <3>1. chainIdsByCodeHash'[x] = Append(chainIdsByCodeHash[x], k)
      BY <2>2 DEF WriteDeployment, NoteChain, TypeOK
    <3> QED
      BY <2>1, <3>1, PushElems
  <2>3. CASE x # c \/ <<c, k>> \in chainIdExists
    <3>1. chainIdsByCodeHash'[x] = chainIdsByCodeHash[x]
      BY <2>3 DEF WriteDeployment, NoteChain, TypeOK
    <3> QED
      BY <2>1, <3>1, ExtendsItself
  <2> QED
    BY <2>2, <2>3
<1>3. ASSUME NEW x \in AnyCode, NEW y \in AnyChain
      PROVE  Extends(deploymentsByCodeHash'[x][y], deploymentsByCodeHash[x][y])
  <2>1. /\ deploymentsByCodeHash'[c][k] = Append(deploymentsByCodeHash[c][k], a)
        /\ x # c \/ y # k => deploymentsByCodeHash'[x][y] = deploymentsByCodeHash[x][y]
        /\ deploymentsByCodeHash[c][k] \in Seq(Address)
    BY <1>0, WriteDeploymentArrays
  <2>2. deploymentsByCodeHash[x][y] \in Seq(Address)
    BY DEF TypeOK
  <2>3. CASE x = c /\ y = k
    <3>1. Extends(deploymentsByCodeHash'[c][k], deploymentsByCodeHash[c][k])
      BY <2>1, PushElems
    <3> QED
      BY <2>3, <3>1
  <2>4. CASE x # c \/ y # k
    BY <2>1, <2>2, <2>4, ExtendsItself
  <2> QED
    BY <2>3, <2>4
<1> QED
  BY <1>1, <1>2, <1>3 DEF DeploymentsKept

\* Each of the three transactions only adds.
LEMMA StepKeeps == TypeOK /\ [Next]_vars => [ImmutableStep]_vars
<1> SUFFICES ASSUME TypeOK, Next PROVE ProofsKept /\ DeploymentsKept
  BY DEF ImmutableStep, ProofsKept, DeploymentsKept
<1>1. ASSUME NEW p \in AnyProof, NEW c \in AnyCode, NEW d \in AnyPayload,
             NEW s \in Sender, SubmitProof(p, c, d, s)
      PROVE  ProofsKept /\ DeploymentsKept
  BY <1>1, AcceptedProof, WriteProofKeeps, UntouchedKept DEF SubmitProof
<1>2. ASSUME NEW c \in AnyCode, NEW k \in AnyChain, NEW a \in AnyAddress,
             NEW s \in Sender, RegisterDeployment(c, k, a, s)
      PROVE  ProofsKept /\ DeploymentsKept
  BY <1>2, AcceptedDeployment, WriteDeploymentKeeps, UntouchedKept DEF RegisterDeployment
<1>3. ASSUME NEW p \in AnyProof, NEW c \in AnyCode, NEW d \in AnyPayload,
             NEW k \in AnyChain, NEW a \in AnyAddress, NEW s \in Sender,
             SubmitProofAndRegister(p, c, d, k, a, s)
      PROVE  ProofsKept /\ DeploymentsKept
  BY <1>3, AcceptedProof, AcceptedDeployment, WriteProofKeeps, WriteDeploymentKeeps
  DEF SubmitProofAndRegister
<1>4. CASE SealBlock
  BY <1>4, UntouchedKept DEF SealBlock
<1> QED
  BY <1>1, <1>2, <1>3, <1>4 DEF Next

\* No later call, by anyone, changes a record, unlists an element or reorders
\* an array (docs/spec/protocol.md:14-15).
THEOREM NothingIsRewritten == Spec => Immutable
BY StepKeeps, TypeCorrect, PTL DEF Spec, Immutable, ImmutableStep

-----------------------------------------------------------------------------
(* Refinement of EventLog: what remains to show of a step is that the events   *)
(* it emits are new, which the require on the existence flags gives through    *)
(* LogTellsStorage.                                                            *)
LEMMA AcceptedProofIsNew ==
    ASSUME LogTellsStorage,
           NEW p \in ProofHash, NEW c \in CodeHash, NEW d \in Payload, NEW s \in Sender,
           ProofAccepted(p, c, d)
    PROVE  Ledger!IsNew(ProofBody(p, c, d, s))
<1>1. \A e \in log : IsProof(e.body) => e.body.proofHash # p
  BY DEF LogTellsStorage, Recorded, ProofAccepted
<1> QED
  BY <1>1 DEF Ledger!IsNew, Ledger!SameSubject, Ledger!IsProof, ProofBody, IsProof

LEMMA AcceptedDeploymentIsNew ==
    ASSUME LogTellsStorage,
           NEW c \in CodeHash, NEW k \in ChainId, NEW a \in Address, NEW s \in Sender,
           DeploymentAccepted(c, k, a)
    PROVE  Ledger!IsNew(DeploymentBody(c, k, a, s))
<1>1. \A e \in log : ~IsProof(e.body) => Triple(e.body) # <<c, k, a>>
  BY DEF LogTellsStorage, Recorded, DeploymentAccepted
<1> QED
  BY <1>1 DEF Ledger!IsNew, Ledger!SameSubject, Ledger!IsProof, DeploymentBody, IsProof, Triple

\* The contract implements the event log its readers rely on.
THEOREM RegistryImplementsEventLog == Spec => ImplementsEventLog
<1>1. Init => Ledger!ChainInit
  BY DEF Init, Ledger!ChainInit
<1>2. StorageInv /\ [Next]_vars => [Ledger!ChainNext]_(Ledger!chainVars)
  <2> SUFFICES ASSUME StorageInv, [Next]_vars
               PROVE  Ledger!ChainNext \/ UNCHANGED Ledger!chainVars
    OBVIOUS
  <2>0. LogTellsStorage
    BY DEF StorageInv
  <2>1. ASSUME NEW p \in AnyProof, NEW c \in AnyCode, NEW d \in AnyPayload,
               NEW s \in Sender, SubmitProof(p, c, d, s)
        PROVE  Ledger!ChainNext
    <3>1. p \in ProofHash /\ c \in CodeHash /\ d \in Payload /\ ProofAccepted(p, c, d)
      BY <2>1, AcceptedProof DEF SubmitProof
    <3>2. ProofBody(p, c, d, s) \in Body /\ Ledger!IsNew(ProofBody(p, c, d, s))
      BY <2>0, <3>1, AcceptedProofIsNew DEF ProofBody, Body, ProofSubmitted
    <3>3. Ledger!Transact(1) /\ Ledger!EmitOne(ProofBody(p, c, d, s))
      BY <2>1, <3>2 DEF SubmitProof, CanMine, Ledger!Transact, Ledger!EmitOne,
                        Ledger!Building, Building, Ledger!At, At
    <3> QED
      BY <3>2, <3>3 DEF Ledger!ChainNext, Ledger!EmitSome, Ledger!Body,
                        Ledger!ProofSubmitted, Ledger!DeploymentRegistered,
                        Body, ProofSubmitted, DeploymentRegistered
  <2>2. ASSUME NEW c \in AnyCode, NEW k \in AnyChain, NEW a \in AnyAddress,
               NEW s \in Sender, RegisterDeployment(c, k, a, s)
        PROVE  Ledger!ChainNext
    <3>1. c \in CodeHash /\ k \in ChainId /\ a \in Address /\ DeploymentAccepted(c, k, a)
      BY <2>2, AcceptedDeployment DEF RegisterDeployment
    <3>2. DeploymentBody(c, k, a, s) \in Body /\ Ledger!IsNew(DeploymentBody(c, k, a, s))
      BY <2>0, <3>1, AcceptedDeploymentIsNew DEF DeploymentBody, Body, DeploymentRegistered
    <3>3. Ledger!Transact(1) /\ Ledger!EmitOne(DeploymentBody(c, k, a, s))
      BY <2>2, <3>2 DEF RegisterDeployment, CanMine, Ledger!Transact, Ledger!EmitOne,
                        Ledger!Building, Building, Ledger!At, At
    <3> QED
      BY <3>2, <3>3 DEF Ledger!ChainNext, Ledger!EmitSome, Ledger!Body,
                        Ledger!ProofSubmitted, Ledger!DeploymentRegistered,
                        Body, ProofSubmitted, DeploymentRegistered
  <2>3. ASSUME NEW p \in AnyProof, NEW c \in AnyCode, NEW d \in AnyPayload,
               NEW k \in AnyChain, NEW a \in AnyAddress, NEW s \in Sender,
               SubmitProofAndRegister(p, c, d, k, a, s)
        PROVE  Ledger!ChainNext
    <3> DEFINE b == ProofBody(p, c, d, s)
               f == DeploymentBody(c, k, a, s)
    <3>1. /\ p \in ProofHash /\ c \in CodeHash /\ d \in Payload
          /\ k \in ChainId /\ a \in Address
          /\ ProofAccepted(p, c, d) /\ DeploymentAccepted(c, k, a)
      BY <2>3, AcceptedProof, AcceptedDeployment DEF SubmitProofAndRegister
    <3>2. /\ b \in ProofSubmitted /\ f \in DeploymentRegistered
          /\ b.codeHash = f.codeHash /\ b.submitter = f.submitter
      BY <3>1 DEF ProofBody, DeploymentBody, ProofSubmitted, DeploymentRegistered
    <3>3. Ledger!IsNew(b) /\ Ledger!IsNew(f)
      BY <2>0, <3>1, AcceptedProofIsNew, AcceptedDeploymentIsNew
    <3> HIDE DEF b, f
    <3>4. Ledger!Transact(2) /\ Ledger!EmitBoth(b, f)
      BY <2>3, <3>3 DEF SubmitProofAndRegister, CanMine, Ledger!Transact, Ledger!EmitBoth,
                        Ledger!Building, Building, Ledger!At, At, b, f
    <3> QED
      BY <3>2, <3>4 DEF Ledger!ChainNext, Ledger!EmitSome,
                        Ledger!ProofSubmitted, Ledger!DeploymentRegistered,
                        ProofSubmitted, DeploymentRegistered
  <2>4. CASE SealBlock
    BY <2>4 DEF SealBlock, Ledger!SealBlock, Ledger!ChainNext
  <2>5. CASE UNCHANGED vars
    BY <2>5 DEF vars, ledgerVars, Ledger!chainVars
  <2> QED
    BY <2>1, <2>2, <2>3, <2>4, <2>5 DEF Next
<1> QED
  BY <1>1, <1>2, StorageConsistent, PTL
  DEF Spec, ImplementsEventLog, Ledger!ChainSpec
=============================================================================

--------------------------- MODULE EventLogProofs ---------------------------
(* The log's well-formedness, for every set of hashes, chains and accounts. *)
EXTENDS EventLog, TLAPS

ChainInv == ChainTypeOK /\ WithinTip /\ SubjectsUnique /\ PositionsUnique

\* An event is its own subject's only holder once it is new: adding the entry
\* of a new event at a free position keeps subjects and positions unique.
LEMMA AddEntry ==
    ASSUME ChainInv, NEW b \in Body, NEW n \in Nat, n >= nextIndex, IsNew(b)
    PROVE  LET L == log \cup {At(b, Building, n)}
           IN  /\ L \subseteq Entry
               /\ \A e, f \in L : SameSubject(e.body, f.body) => e = f
               /\ \A e, f \in L : e.block = f.block /\ e.index = f.index => e = f
               /\ \A e \in L : /\ e.block \in 1..Building
                               /\ e.block = Building => e.index < n + 1
<1> DEFINE x == At(b, Building, n)
           L == log \cup {x}
<1>1. x \in Entry /\ x.body = b /\ x.block = Building /\ x.index = n
  BY MaxHeadAssumption DEF ChainInv, ChainTypeOK, Entry, At, Building
<1>2. \A e \in log : /\ e \in Entry /\ e.body \in Body /\ e.index \in Nat
                     /\ e.block \in 1..Building
                     /\ e.block = Building => e.index < nextIndex
  BY DEF ChainInv, ChainTypeOK, WithinTip, Entry
<1>3. \A e \in log : ~SameSubject(e.body, b) /\ ~SameSubject(b, e.body)
  BY DEF IsNew, SameSubject
<1>4. \A e \in log : e.block = x.block => e.index # x.index
  <2> SUFFICES ASSUME NEW e \in log, e.block = x.block, e.index = x.index
               PROVE  FALSE
    OBVIOUS
  <2>1. e.index < nextIndex /\ e.index \in Nat /\ e.index = n
    BY <1>1, <1>2
  <2> QED
    BY <2>1 DEF ChainInv, ChainTypeOK
<1>5. L \subseteq Entry
  BY <1>1, <1>2
<1>6. \A e, f \in L : SameSubject(e.body, f.body) => e = f
  BY <1>1, <1>3 DEF ChainInv, SubjectsUnique
<1>7. \A e, f \in L : e.block = f.block /\ e.index = f.index => e = f
  BY <1>4 DEF ChainInv, PositionsUnique
<1>8. \A e \in L : e.block \in 1..Building /\ (e.block = Building => e.index < n + 1)
  <2>1. nextIndex \in Nat /\ Building \in 1..Building
    BY MaxHeadAssumption DEF ChainInv, ChainTypeOK, Building
  <2> QED
    BY <1>1, <1>2, <2>1
<1> QED
  BY <1>5, <1>6, <1>7, <1>8

\* One event: submitProof or registerDeployment.
LEMMA EmitOneInv ==
    ASSUME ChainInv, NEW b \in Body, Transact(1), EmitOne(b)
    PROVE  ChainInv'
<1>1. nextIndex \in Nat /\ head \in 0..MaxHead
  BY DEF ChainInv, ChainTypeOK
<1> HIDE DEF ChainInv
<1>2. /\ log' \subseteq Entry
      /\ \A e, f \in log' : SameSubject(e.body, f.body) => e = f
      /\ \A e, f \in log' : e.block = f.block /\ e.index = f.index => e = f
      /\ \A e \in log' : /\ e.block \in 1..Building
                         /\ e.block = Building => e.index < nextIndex'
  BY <1>1, AddEntry DEF EmitOne, Transact
<1>3. head' = head /\ nextIndex' \in Nat /\ Building' = Building
  BY <1>1 DEF EmitOne, Transact, Building
<1> QED
  BY <1>1, <1>2, <1>3
  DEF ChainInv, ChainTypeOK, WithinTip, SubjectsUnique, PositionsUnique

\* Two events of one transaction, the proof's first.
LEMMA EmitBothInv ==
    ASSUME ChainInv, NEW b \in ProofSubmitted, NEW d \in DeploymentRegistered,
           Transact(2), EmitBoth(b, d)
    PROVE  ChainInv'
<1> DEFINE x == At(b, Building, nextIndex)
           y == At(d, Building, nextIndex + 1)
<1>1. nextIndex \in Nat /\ head \in 0..MaxHead /\ MaxHead \in Nat
  BY MaxHeadAssumption DEF ChainInv, ChainTypeOK
<1>2. b \in Body /\ d \in Body /\ IsProof(b) /\ ~IsProof(d)
  BY DEF Body, ProofSubmitted, DeploymentRegistered, IsProof
<1>3. ~SameSubject(b, d) /\ ~SameSubject(d, b)
  BY <1>2 DEF SameSubject
<1>4. /\ log \cup {x} \subseteq Entry
      /\ \A e, f \in log \cup {x} : SameSubject(e.body, f.body) => e = f
      /\ \A e, f \in log \cup {x} : e.block = f.block /\ e.index = f.index => e = f
      /\ \A e \in log \cup {x} : /\ e.block \in 1..Building
                                 /\ e.block = Building => e.index < nextIndex + 1
  BY <1>1, <1>2, AddEntry DEF EmitBoth, Transact
<1>5. /\ log \cup {y} \subseteq Entry
      /\ \A e, f \in log \cup {y} : SameSubject(e.body, f.body) => e = f
      /\ \A e, f \in log \cup {y} : e.block = f.block /\ e.index = f.index => e = f
      /\ \A e \in log \cup {y} : /\ e.block \in 1..Building
                                 /\ e.block = Building => e.index < nextIndex + 2
  BY <1>1, <1>2, AddEntry DEF EmitBoth, Transact
<1>6. log' = (log \cup {x}) \cup {y} /\ head' = head /\ nextIndex' = nextIndex + 2
  BY DEF EmitBoth, Transact
<1>7. x.body = b /\ y.body = d /\ x.index # y.index /\ Building' = Building
  BY <1>1, <1>6 DEF At, Building
<1>8. log' \subseteq Entry
  BY <1>4, <1>5, <1>6
<1>9. \A e, f \in log' : SameSubject(e.body, f.body) => e = f
  BY <1>3, <1>4, <1>5, <1>6, <1>7
<1>10. \A e, f \in log' : e.block = f.block /\ e.index = f.index => e = f
  BY <1>4, <1>5, <1>6, <1>7
<1>11. \A e \in log' : e.block \in 1..Building /\ (e.block = Building => e.index < nextIndex')
  <2> SUFFICES ASSUME NEW e \in log'
               PROVE  e.block \in 1..Building /\ (e.block = Building => e.index < nextIndex + 2)
    BY <1>6
  <2>1. e.index \in Nat
    BY <1>8 DEF Entry
  <2>2. CASE e \in log \cup {x}
    BY <2>1, <2>2, <1>1, <1>4
  <2>3. CASE e \in log \cup {y}
    BY <2>3, <1>5
  <2> QED
    BY <2>2, <2>3, <1>6
<1> QED
  BY <1>1, <1>6, <1>7, <1>8, <1>9, <1>10, <1>11
  DEF ChainInv, ChainTypeOK, WithinTip, SubjectsUnique, PositionsUnique

LEMMA SealBlockInv == ChainInv /\ SealBlock => ChainInv'
<1> SUFFICES ASSUME ChainInv, SealBlock PROVE ChainInv'
  OBVIOUS
<1>1. head' \in 0..MaxHead /\ Building' = Building + 1 /\ Building \in Nat
  BY MaxHeadAssumption DEF ChainInv, ChainTypeOK, SealBlock, Building
<1>2. \A e \in log' : e.block \in 1..Building
  BY DEF ChainInv, WithinTip, SealBlock
<1>3. WithinTip'
  BY <1>1, <1>2 DEF WithinTip
<1> QED
  BY <1>1, <1>3
  DEF ChainInv, ChainTypeOK, SubjectsUnique, PositionsUnique, SealBlock

\* Every reachable log has unique subjects and positions.
THEOREM LogWellFormed == ChainSpec => []ChainInv
<1>1. ChainInit => ChainInv
  BY MaxHeadAssumption
  DEF ChainInit, ChainInv, ChainTypeOK, WithinTip, SubjectsUnique, PositionsUnique
<1>2. ChainInv /\ [ChainNext]_chainVars => ChainInv'
  <2> SUFFICES ASSUME ChainInv, [ChainNext]_chainVars PROVE ChainInv'
    OBVIOUS
  <2>1. CASE EmitSome
    BY <2>1, EmitOneInv, EmitBothInv DEF EmitSome
  <2>2. CASE SealBlock
    BY <2>2, SealBlockInv
  <2>3. CASE UNCHANGED chainVars
    BY <2>3 DEF chainVars, ChainInv, ChainTypeOK, WithinTip, SubjectsUnique,
                PositionsUnique, Building
  <2> QED
    BY <2>1, <2>2, <2>3 DEF ChainNext
<1> QED
  BY <1>1, <1>2, PTL DEF ChainSpec

\* A step of the chain leaves what was mined as it was.
THEOREM MinedNeverChanges == ChainSpec => MinedIsFinal
<1>1. ChainInv /\ [ChainNext]_chainVars
      => [/\ log \subseteq log'
          /\ \A e \in log' \ log : e.block > head]_chainVars
  <2> SUFFICES ASSUME ChainInv, ChainNext
               PROVE  log \subseteq log' /\ \A e \in log' \ log : e.block > head
    BY DEF chainVars
  <2>1. head \in Nat /\ Building > head
    BY MaxHeadAssumption DEF ChainInv, ChainTypeOK, Building
  <2>2. \A e \in log' \ log : e.block = Building
    BY DEF ChainNext, EmitSome, Transact, EmitOne, EmitBoth, SealBlock, At
  <2>3. log \subseteq log'
    BY DEF ChainNext, EmitSome, Transact, EmitOne, EmitBoth, SealBlock
  <2> QED
    BY <2>1, <2>2, <2>3
<1> QED
  BY <1>1, LogWellFormed, PTL DEF ChainSpec, MinedIsFinal
=============================================================================

---------------------------- MODULE IndexerProofs ---------------------------
(***************************************************************************)
(* The indexer, for every chain, batch size, start block and number of     *)
(* faults: its types; its cursor never passes an event it has not stored   *)
(* unless a fault took that event from a batch, and is the block of a row; *)
(* live rows are announced, and proofs come before deployments.            *)
(***************************************************************************)
EXTENDS Indexer, EventLogProofs

\* The indexer only reads the chain.
LEMMA IndexerReadsChain == Spec => ChainSpec
<1>1. Init => ChainInit
  BY DEF Init
<1>2. [Next]_vars => [ChainNext]_chainVars
  BY DEF Next, vars, Chain, Sync, BeginSync, QueryBatch, Apply, ApplyInMemory,
         InsertRow, AdvanceCursor, NextBatch, Fault, RpcFailure, StoreThrows,
         Reject, Crash, Stop, Restart
<1> QED
  BY <1>1, <1>2, PTL DEF Spec, ChainSpec

LEMMA IndexerChainInv == Spec => []ChainInv
BY IndexerReadsChain, LogWellFormed, PTL

-----------------------------------------------------------------------------
LEMMA BatchIsPositive == BatchSize \in Nat /\ BatchSize >= 1
BY IndexerAssumption DEF BatchSize

LEMMA AppendEntry ==
    ASSUME NEW s \in Seq(Entry), NEW e \in Entry PROVE Append(s, e) \in Seq(Entry)
OBVIOUS

\* The steps of a call keep the types.
LEMMA SyncTypes ==
    ASSUME TypeOK, Sync PROVE TypeOK'
<1>0. /\ head \in Nat /\ cursor \in Nat /\ start \in Nat /\ log \subseteq Entry
      /\ BatchSize \in Nat /\ FromBlock \in Nat /\ MaxLag \in Nat
      /\ \A e \in Mined : e \in Entry /\ e.block \in Nat /\ e.block =< head
  BY MaxHeadAssumption, BatchIsPositive, IndexerAssumption
  DEF TypeOK, ChainTypeOK, Mined, Entry
<1>1. CASE BeginSync
  <2>1. FirstBlock \in Nat
    BY <1>0 DEF FirstBlock
  <2> QED
    BY <1>0, <1>1, <2>1
    DEF BeginSync, Return, TypeOK, ChainTypeOK, Mined, chainVars, storeVars, faultVars
<1>2. CASE QueryBatch
  <2>1. PICK p \in (head - MaxLag)..head, d \in (head - MaxLag)..head :
            pending' = {e \in InBatch : e.block =< IF IsProof(e.body) THEN p ELSE d}
    BY <1>2 DEF QueryBatch
  <2>2. ASSUME NEW e \in pending' PROVE e \in Mined
    <3>1. e \in log /\ e.block =< (IF IsProof(e.body) THEN p ELSE d)
      BY <2>1 DEF InBatch
    <3>2. e.block \in Nat
      BY <1>0, <3>1 DEF Entry
    <3>3. e.block =< head
      BY <1>0, <3>1, <3>2
    <3> QED
      BY <3>1, <3>3 DEF Mined
  <2>3. excused' \subseteq Entry
    BY <1>0, <1>2 DEF QueryBatch, InBatch, TypeOK
  <2> QED
    BY <1>2, <2>2, <2>3
    DEF QueryBatch, TypeOK, ChainTypeOK, Mined, chainVars, storeVars, faultVars
<1>3. ASSUME NEW e \in pending, ApplyInMemory(e) PROVE TypeOK'
  <2>1. e \in Entry /\ e.block \in Nat /\ e.block =< head
    BY <1>0 DEF TypeOK
  <2>2. feed' \in Seq(Entry)
    BY <1>3, <2>1, AppendEntry DEF ApplyInMemory, Announce, TypeOK
  <2>3. rows' \subseteq Entry /\ cursor' \in 0..head
    BY <1>0, <1>3, <2>1 DEF ApplyInMemory, storeVars, MaxOf, TypeOK
  <2> QED
    BY <1>3, <2>2, <2>3
    DEF ApplyInMemory, TypeOK, ChainTypeOK, Mined, chainVars, faultVars
<1>4. ASSUME NEW e \in pending, InsertRow(e) PROVE TypeOK'
  <2>1. rows' \subseteq Entry
    BY <1>0, <1>4 DEF InsertRow, TypeOK
  <2> QED
    BY <1>4, <2>1 DEF InsertRow, TypeOK, ChainTypeOK, Mined, chainVars, faultVars
<1>5. ASSUME NEW e \in pending, AdvanceCursor(e) PROVE TypeOK'
  <2>1. e \in Entry /\ e.block \in Nat /\ e.block =< head
    BY <1>0 DEF TypeOK
  <2>2. feed' \in Seq(Entry)
    BY <1>5, <2>1, AppendEntry DEF AdvanceCursor, Announce, TypeOK
  <2>3. cursor' \in 0..head
    BY <1>0, <1>5, <2>1 DEF AdvanceCursor, MaxOf, TypeOK
  <2> QED
    BY <1>5, <2>2, <2>3
    DEF AdvanceCursor, TypeOK, ChainTypeOK, Mined, chainVars, faultVars
<1>6. CASE NextBatch
  <2>1. start' \in Nat
    BY <1>0, <1>6 DEF NextBatch
  <2> QED
    BY <1>6, <2>1
    DEF NextBatch, Return, TypeOK, ChainTypeOK, Mined, chainVars, storeVars, faultVars
<1> QED
  BY <1>1, <1>2, <1>3, <1>4, <1>5, <1>6 DEF Sync, Apply

LEMMA RejectTypes ==
    ASSUME TypeOK, Reject,
           rpcFailures' \in 0..MaxRpcFailures, throws' \in 0..MaxThrows,
           crashes' \in 0..MaxCrashes, excused' \subseteq Entry
    PROVE  TypeOK'
BY DEF Reject, TypeOK, ChainTypeOK, Mined, chainVars, storeVars

LEMMA OtherTypes ==
    ASSUME TypeOK, Fault \/ Stop \/ Restart PROVE TypeOK'
<1>0. /\ MaxRpcFailures \in Nat /\ MaxThrows \in Nat /\ MaxCrashes \in Nat
      /\ rpcFailures \in Nat /\ throws \in Nat /\ crashes \in Nat
  BY IndexerAssumption DEF TypeOK
<1>1. CASE RpcFailure
  <2>1. /\ rpcFailures' \in 0..MaxRpcFailures
        /\ throws' = throws /\ crashes' = crashes /\ excused' = excused
    BY <1>0, <1>1 DEF RpcFailure
  <2> QED
    BY <1>1, <2>1, RejectTypes DEF RpcFailure, TypeOK
<1>2. CASE StoreThrows
  <2>1. /\ throws' \in 0..MaxThrows
        /\ rpcFailures' = rpcFailures /\ crashes' = crashes /\ excused' \subseteq Entry
    BY <1>0, <1>2 DEF StoreThrows, TypeOK, ChainTypeOK, Mined
  <2> QED
    BY <1>2, <2>1, RejectTypes DEF StoreThrows, TypeOK
<1>3. CASE Crash
  <2>1. crashes' \in 0..MaxCrashes /\ excused' \subseteq Entry
    BY <1>0, <1>3 DEF Crash, TypeOK, ChainTypeOK, Mined
  <2>2. rows' \subseteq Entry /\ cursor' \in 0..head
    BY <1>3, MaxHeadAssumption DEF Crash, storeVars, TypeOK, ChainTypeOK
  <2> QED
    BY <1>3, <2>1, <2>2 DEF Crash, TypeOK, ChainTypeOK, Mined, chainVars
<1>4. CASE Stop
  BY <1>4
  DEF Stop, TypeOK, ChainTypeOK, Mined, chainVars, storeVars, callVars, faultVars
<1>5. CASE Restart
  BY <1>5
  DEF Restart, TypeOK, ChainTypeOK, Mined, chainVars, storeVars, callVars, faultVars
<1> QED
  BY <1>1, <1>2, <1>3, <1>4, <1>5 DEF Fault

\* Every variable keeps its type, the cursor and the events of a batch are of
\* mined blocks, and a batch is held only while it is applied.
THEOREM TypeCorrect == Spec => []TypeOK
<1>1. Init /\ ChainInv => TypeOK
  BY IndexerAssumption, MaxHeadAssumption DEF Init, ChainInit, ChainInv, TypeOK
<1>2. TypeOK /\ ChainInv' /\ [Next]_vars => TypeOK'
  <2> SUFFICES ASSUME TypeOK, ChainInv', [Next]_vars PROVE TypeOK'
    OBVIOUS
  <2>1. CASE Chain
    <3>1. head \in Nat /\ \A e \in log : e.block \in Nat
      BY MaxHeadAssumption DEF TypeOK, ChainTypeOK, Entry
    <3>2. head' \in Nat /\ head =< head' /\ log \subseteq log'
      BY <2>1, <3>1
      DEF Chain, ChainNext, EmitSome, Transact, EmitOne, EmitBoth, SealBlock
    <3>3. Mined \subseteq Mined' /\ 0..head \subseteq 0..head'
      BY <3>1, <3>2 DEF Mined
    <3> QED
      BY <2>1, <3>3 DEF Chain, ChainInv, indexerVars, storeVars, callVars, faultVars, TypeOK
  <2>2. CASE Sync
    BY <2>2, SyncTypes
  <2>3. CASE Fault \/ Stop \/ Restart
    BY <2>3, OtherTypes
  <2>4. CASE UNCHANGED vars
    BY <2>4 DEF vars, chainVars, indexerVars, storeVars, callVars, faultVars, TypeOK,
                ChainTypeOK, Mined
  <2> QED
    BY <2>1, <2>2, <2>3, <2>4 DEF Next
<1> QED
  BY <1>1, <1>2, IndexerChainInv, PTL DEF Spec

-----------------------------------------------------------------------------
(* The cursor never passes an event that is missing for no reason, whatever    *)
(* fails; and when nothing can leave a batch half applied for good, it never   *)
(* passes a missing event at all.                                              *)

\* Every event from Base up to block n is stored, or a fault explains it.
Covered(n) == \A e \in log : e.block \in Base..n => e \in rows \cup excused

Applying == pc \in {"apply", "advanceNew", "advanceOld"}

\* The next call of syncToHead resumes after the cursor: a tick always does, an
\* initial sync does when FROM_BLOCK is not set.
Resumes == mode = "live" \/ ~HasFromBlock

\* The store holds mined events of the log, and the cursor is a mined block.
StoreInv ==
    /\ rows \subseteq log
    /\ cursor =< head

\* A call works below the head it read; its batch is of the log's events in
\* start..End; blocks before start are done; what the batch has shed is stored.
CallInv ==
    /\ pc # "idle" => start =< target /\ target =< head /\ cursor =< target
    /\ \A e \in pending : e \in log /\ e.block \in start..End
    /\ pc = "query" => Covered(start - 1)
    /\ Applying =>
          \A e \in log : e.block \in Base..End => e \in rows \cup pending \cup excused
    /\ pc \in {"advanceNew", "advanceOld"} => \A e \in pending : IsNext(e) => e \in rows

\* The cursor of a call that resumed stays inside what is covered, and so does
\* the cursor the next one will resume from.
ResumeInv ==
    /\ Resumes /\ pc = "query" => cursor < start
    /\ Resumes /\ Applying => cursor =< End
    /\ Resumes /\ pc = "idle" => Covered(cursor)

GapInv == StoreInv /\ CallInv /\ ResumeInv

LEMMA EndBounds ==
    ASSUME TypeOK, start =< target
    PROVE  /\ start =< End /\ End =< target /\ End \in Nat
           /\ start + BatchSize =< target => End = start + BatchSize - 1
           /\ ~(start + BatchSize =< target) => End = target
<1>1. start \in Nat /\ target \in Nat /\ BatchSize \in Nat /\ BatchSize >= 1
  BY BatchIsPositive DEF TypeOK
<1> QED
  BY <1>1 DEF End

LEMMA BaseIsNat == Base \in Nat
BY IndexerAssumption DEF Base

\* The next event to apply is one: the order of application is strict.
LEMMA NextIsUnique ==
    ASSUME TypeOK, NEW e \in pending, NEW f \in pending, IsNext(e), IsNext(f)
    PROVE  e = f
<1>1. e.block \in Nat /\ e.index \in Nat /\ f.block \in Nat /\ f.index \in Nat
  BY DEF TypeOK, ChainTypeOK, Mined, Entry
<1> SUFFICES ASSUME e # f PROVE FALSE
  OBVIOUS
<1>2. AppliedBefore(e, f) /\ AppliedBefore(f, e)
  BY DEF IsNext
<1>3. Precedes(e, f) /\ Precedes(f, e)
  BY <1>2 DEF AppliedBefore
<1> QED
  BY <1>1, <1>3 DEF Precedes

\* A stored subject is the event itself: no other event has it.
LEMMA StoredIsRow ==
    ASSUME ChainInv, StoreInv, NEW e \in log, IsStored(e)
    PROVE  e \in rows
BY DEF ChainInv, SubjectsUnique, StoreInv, IsStored

\* A block more, an event more: nothing below the old head changes.
LEMMA ChainKeepsGapInv ==
    ASSUME TypeOK, ChainInv, GapInv, Chain PROVE GapInv'
<1>1. head \in Nat /\ cursor \in Nat /\ start \in Nat /\ target \in Nat
  BY MaxHeadAssumption DEF TypeOK, ChainTypeOK
<1>2. /\ log \subseteq log' /\ head =< head' /\ head' \in Nat
      /\ \A e \in log' \ log : e.block = head + 1
  BY <1>1 DEF Chain, ChainNext, EmitSome, Transact, EmitOne, EmitBoth, SealBlock, At, Building
<1>3. UNCHANGED indexerVars
  BY DEF Chain
<1>4. /\ rows' = rows /\ cursor' = cursor /\ mode' = mode /\ pc' = pc /\ start' = start
      /\ target' = target /\ pending' = pending /\ End' = End /\ excused' = excused
  BY <1>3 DEF indexerVars, storeVars, callVars, faultVars, End, BatchSize
<1>5. StoreInv'
  BY <1>1, <1>2, <1>4 DEF GapInv, StoreInv
<1>6. ASSUME NEW n \in Nat, n =< head, Covered(n), NEW e \in log', e.block \in Base..n
      PROVE  e \in rows \cup excused
  <2>1. e \in log
    BY <1>1, <1>2, <1>6, BaseIsNat
  <2> QED
    BY <1>6, <2>1 DEF Covered
<1>7. ResumeInv'
  <2>1. Resumes /\ pc = "idle" =>
            \A e \in log' : e.block \in Base..cursor => e \in rows \cup excused
    BY <1>1, <1>6 DEF GapInv, ResumeInv, StoreInv
  <2> QED
    BY <1>4, <2>1 DEF GapInv, ResumeInv, Resumes, Applying, Covered, Base
<1>8. CallInv'
  <2>1. pc # "idle" => start =< target /\ target =< head' /\ cursor =< target
    BY <1>1, <1>2 DEF GapInv, CallInv
  <2>2. \A e \in pending : e \in log' /\ e.block \in start..End
    BY <1>2 DEF GapInv, CallInv
  <2>3. ASSUME pc = "query", NEW e \in log', e.block \in Base..(start - 1)
        PROVE  e \in rows \cup excused
    <3>1. start - 1 \in Nat
      BY <1>1, <2>3, BaseIsNat
    <3>2. start - 1 =< head /\ Covered(start - 1)
      BY <1>1, <2>3 DEF GapInv, CallInv
    <3> QED
      BY <1>6, <2>3, <3>1, <3>2
  <2>4. ASSUME Applying, NEW e \in log', e.block \in Base..End
        PROVE  e \in rows \cup pending \cup excused
    <3>1. End =< target /\ End \in Nat /\ target =< head
      BY <2>4, EndBounds DEF GapInv, CallInv, Applying
    <3>2. e \in log
      BY <1>1, <1>2, <2>4, <3>1, BaseIsNat
    <3> QED
      BY <2>4, <3>2 DEF GapInv, CallInv
  <2>5. pc \in {"advanceNew", "advanceOld"} => \A e \in pending : IsNext(e) => e \in rows
    BY DEF GapInv, CallInv
  <2> QED
    BY <1>4, <2>1, <2>2, <2>3, <2>4, <2>5 DEF CallInv, Covered, Applying, IsNext, Base
<1> QED
  BY <1>5, <1>7, <1>8 DEF GapInv

LEMMA BeginSyncKeepsGapInv ==
    ASSUME TypeOK, ChainInv, GapInv, BeginSync PROVE GapInv'
<1>1. head \in Nat /\ cursor \in Nat /\ start \in Nat /\ target \in Nat /\ Base \in Nat
  BY MaxHeadAssumption, BaseIsNat DEF TypeOK, ChainTypeOK
<1>2. /\ rows' = rows /\ cursor' = cursor /\ log' = log /\ head' = head
      /\ excused' = excused /\ pending' = pending /\ pc = "idle" /\ pending = {}
  BY DEF BeginSync, storeVars, chainVars, faultVars, TypeOK
<1>3. Covered(FirstBlock - 1) /\ FirstBlock \in Nat
  <2>1. CASE mode = "boot" /\ HasFromBlock
    <3>1. FirstBlock = Base
      BY <2>1 DEF FirstBlock, Base
    <3> QED
      BY <1>1, <3>1 DEF Covered
  <2>2. CASE ~(mode = "boot" /\ HasFromBlock)
    <3>1. FirstBlock = cursor + 1 /\ Resumes
      BY <2>2 DEF FirstBlock, Resumes, BeginSync
    <3>2. Covered(cursor)
      BY <1>2, <3>1 DEF GapInv, ResumeInv
    <3>3. FirstBlock - 1 = cursor
      BY <1>1, <3>1
    <3> QED
      BY <1>1, <3>1, <3>2, <3>3
  <2> QED
    BY <2>1, <2>2
<1>4. CASE FirstBlock > head
  <2>1. pc' = "idle" /\ mode' = "live"
    BY <1>4 DEF BeginSync, Return
  <2>2. Covered(cursor)'
    <3> SUFFICES ASSUME NEW e \in log, e.block \in Base..cursor PROVE e \in rows \cup excused
      BY <1>2 DEF Covered, Base
    <3>1. e.block \in Base..(FirstBlock - 1)
      BY <1>1, <1>3, <1>4 DEF GapInv, StoreInv
    <3> QED
      BY <1>3, <3>1 DEF Covered
  <2>3. StoreInv' /\ ResumeInv'
    BY <1>2, <2>1, <2>2 DEF GapInv, StoreInv, ResumeInv, Applying
  <2>4. CallInv'
    BY <1>2, <2>1 DEF CallInv, Applying
  <2> QED
    BY <2>3, <2>4 DEF GapInv
<1>5. CASE ~(FirstBlock > head)
  <2>1. pc' = "query" /\ mode' = mode /\ start' = FirstBlock /\ target' = head
    BY <1>5 DEF BeginSync
  <2>2. StoreInv'
    BY <1>2 DEF GapInv, StoreInv
  <2>3. ResumeInv'
    <3> SUFFICES ASSUME Resumes PROVE cursor < FirstBlock
      BY <1>2, <2>1 DEF ResumeInv, Resumes, Applying
    <3> QED
      BY <1>1 DEF FirstBlock, Resumes
  <2>4. CallInv'
    <3>1. FirstBlock =< head /\ cursor =< head
      BY <1>1, <1>3, <1>5 DEF GapInv, StoreInv
    <3>2. Covered(start - 1)'
      BY <1>2, <1>3, <2>1 DEF Covered, Base
    <3> QED
      BY <1>1, <1>2, <2>1, <3>1, <3>2 DEF CallInv, Applying
  <2> QED
    BY <2>2, <2>3, <2>4 DEF GapInv
<1> QED
  BY <1>4, <1>5

LEMMA QueryBatchKeepsGapInv ==
    ASSUME TypeOK, ChainInv, GapInv, QueryBatch PROVE GapInv'
<1>1. /\ head \in Nat /\ cursor \in Nat /\ start \in Nat /\ target \in Nat /\ Base \in Nat
      /\ \A e \in log : e.block \in Nat
  BY MaxHeadAssumption, BaseIsNat DEF TypeOK, ChainTypeOK, Entry
<1>2. /\ rows' = rows /\ cursor' = cursor /\ log' = log /\ head' = head /\ mode' = mode
      /\ start' = start /\ target' = target /\ End' = End /\ pc = "query" /\ pc' = "apply"
  BY DEF QueryBatch, storeVars, chainVars, End, BatchSize
<1>3. /\ start =< target /\ target =< head /\ cursor =< target /\ Covered(start - 1)
      /\ start =< End /\ End =< target /\ End \in Nat
  BY <1>2, EndBounds DEF GapInv, CallInv
<1>4. pending' \subseteq InBatch /\ InBatch \subseteq pending' \cup excused'
      /\ excused \subseteq excused'
  BY DEF QueryBatch
<1>5. StoreInv'
  BY <1>2 DEF GapInv, StoreInv
<1>6. ResumeInv'
  BY <1>1, <1>2, <1>3 DEF GapInv, ResumeInv, Resumes
<1>7. CallInv'
  <2>1. \A e \in log : e.block \in Base..End => e \in rows \cup pending' \cup excused'
    <3> SUFFICES ASSUME NEW e \in log, e.block \in Base..End
                 PROVE  e \in rows \cup pending' \cup excused'
      OBVIOUS
    <3>1. CASE e.block < start
      <4>1. e.block \in Base..(start - 1)
        BY <1>1, <1>3, <3>1
      <4> QED
        BY <1>3, <1>4, <4>1 DEF Covered
    <3>2. CASE ~(e.block < start)
      <4>1. e \in InBatch
        BY <1>1, <1>3, <3>2 DEF InBatch
      <4> QED
        BY <1>4, <4>1
    <3> QED
      BY <3>1, <3>2
  <2> QED
    BY <1>2, <1>3, <1>4, <2>1 DEF CallInv, Applying, Base, InBatch
<1> QED
  BY <1>5, <1>6, <1>7 DEF GapInv

\* Applying one event, whichever store: it is in the store and out of the batch.
LEMMA AppliedKeepsGapInv ==
    ASSUME TypeOK, ChainInv, GapInv, Applying, NEW e \in pending, IsNext(e),
           rows' = rows \cup {e},
           cursor' = cursor \/ cursor' = MaxOf(cursor, e.block),
           pending' = pending \ {e},
           pc' = "apply",
           UNCHANGED <<chainVars, mode, start, target, excused>>
    PROVE  GapInv'
<1>1. /\ head \in Nat /\ cursor \in Nat /\ start \in Nat /\ target \in Nat
      /\ e.block \in Nat /\ e \in log /\ e.block \in start..End
  BY MaxHeadAssumption DEF TypeOK, ChainTypeOK, Entry, GapInv, CallInv
<1>2. /\ log' = log /\ head' = head /\ mode' = mode /\ start' = start /\ target' = target
      /\ End' = End /\ excused' = excused
  BY DEF chainVars, End, BatchSize
<1>3. /\ start =< target /\ target =< head /\ cursor =< target
      /\ start =< End /\ End =< target /\ End \in Nat
  BY EndBounds DEF GapInv, CallInv, Applying
<1>4. cursor' =< target /\ (Resumes => cursor' =< End)
  BY <1>1, <1>3 DEF MaxOf, GapInv, ResumeInv
<1>5. StoreInv' /\ ResumeInv'
  BY <1>1, <1>2, <1>3, <1>4 DEF GapInv, StoreInv, ResumeInv, Resumes, MaxOf, Applying
<1>6. CallInv'
  BY <1>2, <1>3, <1>4 DEF GapInv, CallInv, Applying, Base
<1> QED
  BY <1>5, <1>6 DEF GapInv

LEMMA ApplyInMemoryKeepsGapInv ==
    ASSUME TypeOK, ChainInv, GapInv, NEW e \in pending, ApplyInMemory(e) PROVE GapInv'
<1>1. /\ Applying /\ IsNext(e) /\ pending' = pending \ {e} /\ pc' = "apply"
      /\ UNCHANGED <<chainVars, mode, start, target, excused>>
      /\ cursor' = cursor \/ cursor' = MaxOf(cursor, e.block)
  BY DEF ApplyInMemory, Applying, storeVars, faultVars
<1>2. e \in log
  BY DEF GapInv, CallInv
<1>3. rows' = rows \cup {e}
  <2>1. CASE IsStored(e)
    BY <1>2, <2>1, StoredIsRow DEF ApplyInMemory, storeVars, GapInv
  <2>2. CASE ~IsStored(e)
    BY <2>2 DEF ApplyInMemory
  <2> QED
    BY <2>1, <2>2
<1> QED
  BY <1>1, <1>3, AppliedKeepsGapInv

LEMMA InsertRowKeepsGapInv ==
    ASSUME TypeOK, ChainInv, GapInv, NEW e \in pending, InsertRow(e) PROVE GapInv'
<1>1. /\ IsNext(e) /\ pc = "apply" /\ pc' \in {"advanceNew", "advanceOld"}
      /\ cursor' = cursor /\ pending' = pending /\ log' = log /\ head' = head
      /\ mode' = mode /\ start' = start /\ target' = target /\ End' = End
      /\ excused' = excused
  BY DEF InsertRow, chainVars, faultVars, End, BatchSize
<1>2. rows' = rows \cup {e} /\ e \in log
  <2>1. e \in log
    BY DEF GapInv, CallInv
  <2>2. IsStored(e) => e \in rows
    BY <2>1, StoredIsRow DEF GapInv
  <2> QED
    BY <2>1, <2>2 DEF InsertRow
<1>3. \A f \in pending : IsNext(f)' => f \in rows'
  BY <1>1, <1>2, NextIsUnique DEF IsNext
<1>4. StoreInv' /\ ResumeInv'
  BY <1>1, <1>2 DEF GapInv, StoreInv, ResumeInv, Resumes, Applying
<1>5. CallInv'
  BY <1>1, <1>2, <1>3 DEF GapInv, CallInv, Applying, Base
<1> QED
  BY <1>4, <1>5 DEF GapInv

LEMMA AdvanceCursorKeepsGapInv ==
    ASSUME TypeOK, ChainInv, GapInv, NEW e \in pending, AdvanceCursor(e) PROVE GapInv'
<1>1. /\ Applying /\ IsNext(e) /\ pending' = pending \ {e} /\ pc' = "apply"
      /\ UNCHANGED <<chainVars, mode, start, target, excused>>
      /\ cursor' = MaxOf(cursor, e.block)
  BY DEF AdvanceCursor, Applying, faultVars
<1>2. rows' = rows \cup {e}
  BY DEF AdvanceCursor, GapInv, CallInv
<1> QED
  BY <1>1, <1>2, AppliedKeepsGapInv

LEMMA NextBatchKeepsGapInv ==
    ASSUME TypeOK, ChainInv, GapInv, NextBatch PROVE GapInv'
<1>1. /\ head \in Nat /\ cursor \in Nat /\ start \in Nat /\ target \in Nat /\ Base \in Nat
      /\ BatchSize \in Nat /\ BatchSize >= 1
  BY MaxHeadAssumption, BaseIsNat, BatchIsPositive DEF TypeOK, ChainTypeOK
<1>2. /\ rows' = rows /\ cursor' = cursor /\ log' = log /\ head' = head
      /\ excused' = excused /\ pending' = pending /\ pending = {} /\ target' = target
      /\ pc = "apply" /\ start' = start + BatchSize
  BY DEF NextBatch, storeVars, chainVars, faultVars
<1>3. /\ start =< target /\ target =< head /\ cursor =< target
      /\ Covered(End) /\ (Resumes => cursor =< End)
      /\ start + BatchSize =< target => End = start + BatchSize - 1
      /\ ~(start + BatchSize =< target) => End = target
  BY <1>2, EndBounds DEF GapInv, CallInv, ResumeInv, Applying, Covered
<1>4. StoreInv'
  BY <1>2 DEF GapInv, StoreInv
<1>5. CASE start + BatchSize =< target
  <2>1. pc' = "query" /\ mode' = mode
    BY <1>2, <1>5 DEF NextBatch
  <2>2. ResumeInv'
    BY <1>1, <1>2, <1>3, <1>5, <2>1 DEF ResumeInv, Resumes, Applying
  <2>3. Covered(start - 1)'
    BY <1>1, <1>2, <1>3, <1>5 DEF Covered, Base
  <2>4. CallInv'
    BY <1>1, <1>2, <1>3, <1>5, <2>1, <2>3 DEF CallInv, Applying
  <2> QED
    BY <1>4, <2>2, <2>4 DEF GapInv
<1>6. CASE ~(start + BatchSize =< target)
  <2>1. pc' = "idle" /\ mode' = "live"
    BY <1>2, <1>6 DEF NextBatch, Return
  <2>2. Covered(cursor)'
    <3> SUFFICES ASSUME NEW e \in log, e.block \in Base..cursor PROVE e \in rows \cup excused
      BY <1>2 DEF Covered, Base
    <3>1. e.block \in Base..End
      BY <1>1, <1>3, <1>6
    <3> QED
      BY <1>3, <3>1 DEF Covered
  <2>3. ResumeInv' /\ CallInv'
    BY <1>2, <2>1, <2>2 DEF ResumeInv, CallInv, Applying
  <2> QED
    BY <1>4, <2>3 DEF GapInv
<1> QED
  BY <1>5, <1>6

\* A call that rejects, in a live sync or not, leaves the blocks up to the
\* cursor as covered as its batch was: what was pending is excused.
LEMMA RejectKeepsGapInv ==
    ASSUME TypeOK, ChainInv, GapInv, Reject, excused' = excused \cup pending
    PROVE  GapInv'
<1>1. /\ rows' = rows /\ cursor' = cursor /\ log' = log /\ head' = head
      /\ pending' = {} /\ pc' = "idle"
      /\ (mode' = "live" => mode = "live")
      /\ cursor \in Nat /\ start \in Nat /\ target \in Nat /\ Base \in Nat
  BY BaseIsNat DEF Reject, storeVars, chainVars, TypeOK
<1>2. ASSUME Resumes, NEW e \in log, e.block \in Base..cursor PROVE e \in rows \cup excused'
  <2>1. CASE pc = "idle"
    BY <1>2, <2>1 DEF GapInv, ResumeInv, Covered, Applying
  <2>2. CASE pc = "query"
    <3>1. cursor < start /\ Covered(start - 1)
      BY <1>2, <2>2 DEF GapInv, ResumeInv, CallInv, Applying
    <3>2. e.block \in Base..(start - 1)
      BY <1>1, <1>2, <3>1
    <3> QED
      BY <3>1, <3>2 DEF Covered
  <2>3. CASE Applying
    <3>1. cursor =< End /\ End \in Nat
      BY <1>2, <2>3, EndBounds DEF GapInv, ResumeInv, CallInv, Applying
    <3>2. e.block \in Base..End
      BY <1>1, <1>2, <3>1
    <3> QED
      BY <2>3, <3>1, <3>2 DEF GapInv, CallInv
  <2> QED
    BY <2>1, <2>2, <2>3 DEF TypeOK, Applying
<1>3. StoreInv' /\ CallInv'
  BY <1>1 DEF GapInv, StoreInv, CallInv, Applying
<1>4. ResumeInv'
  BY <1>1, <1>2 DEF ResumeInv, Resumes, Covered, Applying, Base
<1> QED
  BY <1>3, <1>4 DEF GapInv

LEMMA RpcFailureKeepsGapInv ==
    ASSUME TypeOK, ChainInv, GapInv, RpcFailure PROVE GapInv'
<1>1. Reject /\ excused' = excused \cup pending
  BY DEF RpcFailure, TypeOK
<1> QED
  BY <1>1, RejectKeepsGapInv

LEMMA StoreThrowsKeepsGapInv ==
    ASSUME TypeOK, ChainInv, GapInv, StoreThrows PROVE GapInv'
<1>1. Reject /\ excused' = excused \cup pending
  BY DEF StoreThrows
<1> QED
  BY <1>1, RejectKeepsGapInv

\* Memory starts again from nothing; a file with FROM_BLOCK is rescanned; a
\* file without it resumes where it was, what was pending being excused.
LEMMA CrashKeepsGapInv ==
    ASSUME TypeOK, ChainInv, GapInv, Crash PROVE GapInv'
<1>1. /\ log' = log /\ head' = head /\ pending' = {} /\ pc' = "idle" /\ mode' = "down"
      /\ cursor \in Nat /\ start \in Nat /\ target \in Nat /\ Base \in Nat
      /\ \A e \in log : e.block \in Nat
  BY BaseIsNat DEF Crash, chainVars, TypeOK, ChainTypeOK, Entry
<1>2. StoreInv'
  <2>1. head \in Nat
    BY MaxHeadAssumption DEF TypeOK, ChainTypeOK
  <2> QED
    BY <1>1, <2>1 DEF Crash, storeVars, GapInv, StoreInv
<1>3. CallInv'
  BY <1>1 DEF CallInv, Applying
<1>4. ResumeInv'
  <2> SUFFICES ASSUME ~HasFromBlock, NEW e \in log, e.block \in Base..cursor'
               PROVE  e \in rows' \cup excused'
    BY <1>1 DEF ResumeInv, Resumes, Covered, Applying, Base
  <2>1. CASE ~Persistent
    <3>1. cursor' = 0 /\ Base = 1
      BY <2>1 DEF Crash, Base
    <3> QED
      BY <1>1, <3>1
  <2>2. CASE Persistent
    <3>1. rows' = rows /\ cursor' = cursor /\ excused' = excused \cup pending /\ Resumes
      BY <2>2 DEF Crash, storeVars, Resumes
    <3>2. CASE pc = "idle"
      BY <3>1, <3>2 DEF GapInv, ResumeInv, Covered
    <3>3. CASE pc = "query"
      <4>1. cursor < start /\ Covered(start - 1)
        BY <3>1, <3>3 DEF GapInv, ResumeInv, CallInv
      <4>2. e.block \in Base..(start - 1)
        BY <1>1, <3>1, <4>1
      <4> QED
        BY <3>1, <4>1, <4>2 DEF Covered
    <3>4. CASE Applying
      <4>1. cursor =< End /\ End \in Nat
        BY <3>1, <3>4, EndBounds DEF GapInv, ResumeInv, CallInv, Applying
      <4>2. e.block \in Base..End
        BY <1>1, <3>1, <4>1
      <4> QED
        BY <3>1, <3>4, <4>2 DEF GapInv, CallInv
    <3> QED
      BY <3>2, <3>3, <3>4 DEF TypeOK, Applying
  <2> QED
    BY <2>1, <2>2
<1> QED
  BY <1>2, <1>3, <1>4 DEF GapInv

LEMMA GapInvHolds == Spec => []GapInv
<1>1. Init => GapInv
  <2> SUFFICES ASSUME Init PROVE GapInv
    OBVIOUS
  <2>1. head = 0 /\ log = {} /\ rows = {} /\ cursor = 0 /\ pending = {} /\ pc = "idle"
        /\ mode = "boot"
    BY DEF Init, ChainInit
  <2> QED
    BY <2>1 DEF GapInv, StoreInv, CallInv, ResumeInv, Covered, Applying
<1>2. TypeOK /\ ChainInv /\ GapInv /\ [Next]_vars => GapInv'
  <2> SUFFICES ASSUME TypeOK, ChainInv, GapInv, [Next]_vars PROVE GapInv'
    OBVIOUS
  <2>1. CASE Chain
    BY <2>1, ChainKeepsGapInv
  <2>2. CASE BeginSync
    BY <2>2, BeginSyncKeepsGapInv
  <2>3. CASE QueryBatch
    BY <2>3, QueryBatchKeepsGapInv
  <2>4. CASE Apply
    BY <2>4, ApplyInMemoryKeepsGapInv, InsertRowKeepsGapInv, AdvanceCursorKeepsGapInv
    DEF Apply
  <2>5. CASE NextBatch
    BY <2>5, NextBatchKeepsGapInv
  <2>6. CASE RpcFailure
    BY <2>6, RpcFailureKeepsGapInv
  <2>7. CASE StoreThrows
    BY <2>7, StoreThrowsKeepsGapInv
  <2>8. CASE Crash
    BY <2>8, CrashKeepsGapInv
  <2>9. CASE Stop
    BY <2>9 DEF Stop, chainVars, storeVars, callVars, faultVars, GapInv, StoreInv, CallInv,
                ResumeInv, Resumes, Applying, Covered, IsNext, End, BatchSize, Base
  <2>10. CASE Restart
    BY <2>10 DEF Restart, chainVars, storeVars, callVars, faultVars, TypeOK, GapInv,
                 StoreInv, CallInv, ResumeInv, Resumes, Applying, Covered, Base
  <2>11. CASE UNCHANGED vars
    BY <2>11 DEF vars, indexerVars, chainVars, storeVars, callVars, faultVars, GapInv,
                 StoreInv, CallInv, ResumeInv, Resumes, Applying, Covered, IsNext, End,
                 BatchSize, Base
  <2> QED
    BY <2>1, <2>2, <2>3, <2>4, <2>5, <2>6, <2>7, <2>8, <2>9, <2>10, <2>11
    DEF Next, Sync, Fault
<1> QED
  BY <1>1, <1>2, TypeCorrect, IndexerChainInv, PTL DEF Spec

\* Whatever fails and however often, an event at or before the cursor that is
\* not stored was left out by a lagging node or was in a batch that died half
\* applied: no choice of batch size, start block or schedule skips another.
THEOREM NoUnexplainedGap == Spec => []SkippedOnlyByFaults
<1>1. GapInv => SkippedOnlyByFaults
  BY DEF GapInv, ResumeInv, Resumes, Covered, SkippedOnlyByFaults, AtRest
<1> QED
  BY <1>1, GapInvHolds, PTL

\* Nodes agree on the chain, no statement throws, and a file left by a crash is
\* rescanned: then no batch is left half applied for good.
Benign ==
    /\ MaxLag = 0
    /\ Persistent => MaxThrows = 0 /\ (HasFromBlock \/ MaxCrashes = 0)

\* Then nothing is ever excused.
LEMMA NothingExcused == Benign => (Spec => [](excused = {}))
<1> SUFFICES ASSUME Benign PROVE Spec => [](excused = {})
  OBVIOUS
<1>1. Init => excused = {}
  BY DEF Init
<1>2. TypeOK /\ GapInv /\ excused = {} /\ [Next]_vars => (excused = {})'
  <2> SUFFICES ASSUME TypeOK, GapInv, excused = {}, [Next]_vars PROVE excused' = {}
    OBVIOUS
  <2>1. CASE QueryBatch
    <3>1. head \in Nat /\ pc = "query"
      BY <2>1, MaxHeadAssumption DEF TypeOK, ChainTypeOK, QueryBatch
    <3>2. \A e \in InBatch : e.block =< head
      BY <3>1, EndBounds DEF InBatch, GapInv, CallInv, TypeOK, ChainTypeOK, Entry
    <3>3. PICK p \in (head - MaxLag)..head, d \in (head - MaxLag)..head :
             pending' = {e \in InBatch : e.block =< IF IsProof(e.body) THEN p ELSE d}
      BY <2>1 DEF QueryBatch
    <3>4. p = head /\ d = head
      BY <3>1 DEF Benign
    <3>5. pending' = InBatch
      BY <3>2, <3>3, <3>4
    <3> QED
      BY <2>1, <3>5 DEF QueryBatch
  <2>2. CASE StoreThrows
    BY <2>2, IndexerAssumption DEF StoreThrows, Benign, TypeOK
  <2>3. CASE Crash
    BY <2>3, IndexerAssumption DEF Crash, Benign, TypeOK
  <2>4. CASE ~(QueryBatch \/ StoreThrows \/ Crash)
    BY <2>4 DEF Next, Chain, Sync, BeginSync, Apply, ApplyInMemory, InsertRow,
                AdvanceCursor, NextBatch, Fault, RpcFailure, Stop, Restart, vars,
                indexerVars, faultVars
  <2> QED
    BY <2>1, <2>2, <2>3, <2>4
<1> QED
  BY <1>1, <1>2, TypeCorrect, GapInvHolds, PTL DEF Spec

\* Between calls no event at or before the cursor is missing: a tick, which
\* resumes after the cursor, skips none.
THEOREM NoEventIsSkipped == Benign => (Spec => []NoGap)
<1>1. SkippedOnlyByFaults /\ excused = {} => NoGap
  BY DEF SkippedOnlyByFaults, NoGap
<1> QED
  BY <1>1, NothingExcused, NoUnexplainedGap, PTL

-----------------------------------------------------------------------------
(* The refinement of Stream.                                               *)
\* The event to be applied next is one.
LEMMA OneNext ==
    ASSUME TypeOK, NEW e, NEW f, IsNext(e), IsNext(f) PROVE e = f
<1>1. e \in Entry /\ f \in Entry
  BY DEF TypeOK, ChainTypeOK, Mined, IsNext
<1>2. e.block \in Nat /\ f.block \in Nat /\ e.index \in Nat /\ f.index \in Nat
  BY <1>1 DEF Entry
<1>3. ASSUME e # f PROVE FALSE
  <2>1. AppliedBefore(e, f) /\ AppliedBefore(f, e)
    BY <1>3 DEF IsNext
  <2>2. Precedes(e, f) /\ Precedes(f, e)
    BY <2>1 DEF AppliedBefore
  <2> QED
    BY <1>2, <2>2 DEF Precedes
<1> QED
  BY <1>3

LEMMA StoredIsStored ==
    ASSUME NEW e, ~IsStored(e) PROVE e \notin rows
<1>1. SameSubject(e.body, e.body)
  BY DEF SameSubject
<1> QED
  BY <1>1 DEF IsStored

\* Nothing is owed but between the two commits of a row stored live.
LEMMA OwedWhere ==
    ASSUME TypeOK, NEW e, IsNext(e), mode = "live", pc = "advanceNew"
    PROVE  Owed = {e}
BY OneNext DEF Owed, IsNext

LEMMA OwedNowhere ==
    ASSUME mode # "live" \/ pc # "advanceNew" PROVE Owed = {}
BY DEF Owed

\* A step of the live sync stores and announces as Stream says.
LEMMA SyncKeepsPromise ==
    ASSUME TypeOK, TypeOK', Sync
    PROVE  Promise!StreamNext \/ UNCHANGED Promise!streamVars
<1> USE DEF Promise!StreamNext, Promise!streamVars
<1>0. pc' # "advanceNew" => Owed' = {}
  BY DEF Owed
<1>1. CASE BeginSync
  <2>1. Owed = {} /\ Owed' = {} /\ UNCHANGED <<rows, feed, excused>>
    BY <1>0, <1>1, OwedNowhere DEF BeginSync, Return, storeVars, faultVars
  <2>2. mode' = mode \/ (mode # "live" /\ mode' = "live")
    BY <1>1 DEF BeginSync, Return, TypeOK
  <2> QED
    BY <2>1, <2>2 DEF Promise!GoLive
<1>2. CASE QueryBatch
  <2>1. Owed = {} /\ Owed' = {} /\ UNCHANGED <<rows, feed, mode>>
    BY <1>0, <1>2, OwedNowhere DEF QueryBatch, storeVars
  <2>2. excused \subseteq excused'
    BY <1>2 DEF QueryBatch
  <2> QED
    BY <2>1, <2>2 DEF Promise!Forgive
<1>3. ASSUME NEW e \in pending, ApplyInMemory(e)
      PROVE  Promise!StreamNext \/ UNCHANGED Promise!streamVars
  <2>1. e \in Entry /\ Owed = {} /\ Owed' = {} /\ UNCHANGED <<mode, excused>>
    BY <1>0, <1>3, OwedNowhere
    DEF ApplyInMemory, TypeOK, ChainTypeOK, Mined, faultVars
  <2>2. CASE IsStored(e)
    BY <1>3, <2>1, <2>2 DEF ApplyInMemory, Announce, storeVars
  <2>3. CASE ~IsStored(e)
    <3>1. e \notin rows /\ rows' = rows \cup {e}
      BY <1>3, <2>3, StoredIsStored DEF ApplyInMemory
    <3>2. feed' = IF mode = "live" THEN Append(feed, e) ELSE feed
      BY <1>3, <2>3 DEF ApplyInMemory, Announce
    <3>3. Promise!Store(e)
      BY <2>1, <3>1, <3>2 DEF Promise!Store
    <3> QED
      BY <3>1, <3>3
  <2> QED
    BY <2>2, <2>3
<1>4. ASSUME NEW e \in pending, InsertRow(e)
      PROVE  Promise!StreamNext \/ UNCHANGED Promise!streamVars
  <2>1. e \in Entry /\ Owed = {} /\ UNCHANGED <<mode, excused, feed, pending>>
    BY <1>4, OwedNowhere DEF InsertRow, TypeOK, ChainTypeOK, Mined, faultVars
  <2>2. IsNext(e)'
    BY <1>4, <2>1 DEF InsertRow, IsNext, AppliedBefore, Precedes
  <2>3. CASE IsStored(e)
    BY <1>0, <1>4, <2>1, <2>3 DEF InsertRow
  <2>4. CASE ~IsStored(e)
    <3>1. e \notin rows /\ rows' = rows \cup {e} /\ pc' = "advanceNew"
      BY <1>4, <2>4, StoredIsStored DEF InsertRow
    <3>2. Owed' = IF mode = "live" THEN {e} ELSE {}
      <4>1. \A f : IsNext(f)' => f = e
        <5>1. \A f : IsNext(f)' => IsNext(f)
          BY <2>1 DEF IsNext
        <5>2. IsNext(e)
          BY <1>4 DEF InsertRow
        <5> QED
          BY <5>1, <5>2, OneNext
      <4> QED
        BY <2>1, <2>2, <3>1, <4>1 DEF Owed, IsNext
    <3>3. Promise!Store(e)
      BY <2>1, <3>1, <3>2 DEF Promise!Store
    <3> QED
      BY <3>1, <3>3
  <2> QED
    BY <2>3, <2>4
<1>5. ASSUME NEW e \in pending, AdvanceCursor(e)
      PROVE  Promise!StreamNext \/ UNCHANGED Promise!streamVars
  <2>1. Owed' = {} /\ UNCHANGED <<rows, mode, excused>> /\ IsNext(e)
    BY <1>0, <1>5 DEF AdvanceCursor, faultVars
  <2>2. CASE mode = "live" /\ pc = "advanceNew"
    <3>1. Owed = {e} /\ feed' = Append(feed, e)
      BY <1>5, <2>1, <2>2, OwedWhere DEF AdvanceCursor, Announce
    <3> QED
      BY <2>1, <3>1 DEF Promise!Tell
  <2>3. CASE ~(mode = "live" /\ pc = "advanceNew")
    BY <1>5, <2>1, <2>3, OwedNowhere DEF AdvanceCursor, Announce
  <2> QED
    BY <2>2, <2>3
<1>6. CASE NextBatch
  <2>1. Owed = {} /\ Owed' = {} /\ UNCHANGED <<rows, feed, excused>>
    BY <1>0, <1>6, OwedNowhere DEF NextBatch, Return, storeVars, faultVars
  <2>2. mode' = mode \/ (mode # "live" /\ mode' = "live")
    BY <1>6 DEF NextBatch, Return
  <2> QED
    BY <2>1, <2>2 DEF Promise!GoLive
<1> QED
  BY <1>1, <1>2, <1>3, <1>4, <1>5, <1>6 DEF Sync, Apply

\* Whatever fails, whatever the batch sizes and however far nodes lag, the
\* listeners of the indexer are told what Stream promises them.
THEOREM IndexerImplementsStream == Spec => ImplementsStream
<1>1. Init => Promise!StreamInit
  BY DEF Init, Promise!StreamInit, Owed
<1>2. TypeOK /\ TypeOK' /\ [Next]_vars => [Promise!StreamNext]_Promise!streamVars
  <2> SUFFICES ASSUME TypeOK, TypeOK', [Next]_vars
               PROVE  Promise!StreamNext \/ UNCHANGED Promise!streamVars
    OBVIOUS
  <2> USE DEF Promise!StreamNext, Promise!streamVars
  <2>0. pc' # "advanceNew" => Owed' = {}
    BY DEF Owed
  <2>1. CASE Chain
    BY <2>1 DEF Chain, indexerVars, storeVars, callVars, faultVars, Owed, IsNext,
                AppliedBefore, Precedes
  <2>2. CASE Sync
    BY <2>2, SyncKeepsPromise
  <2>3. CASE RpcFailure
    <3>1. Owed = {} /\ Owed' = {} /\ UNCHANGED <<rows, feed, excused>>
      BY <2>0, <2>3, OwedNowhere DEF RpcFailure, Reject, storeVars
    <3>2. (mode = "live") = (mode' = "live")
      BY <2>3 DEF RpcFailure, Reject
    <3> QED
      BY <3>1, <3>2
  <2>4. CASE StoreThrows
    <3>1. /\ Owed' = {} /\ Owed \subseteq pending
          /\ excused' = excused \cup pending
          /\ UNCHANGED <<rows, feed>>
      BY <2>0, <2>4 DEF StoreThrows, Reject, storeVars, Owed
    <3>2. (mode = "live") = (mode' = "live")
      BY <2>4 DEF StoreThrows, Reject
    <3> QED
      BY <3>1, <3>2 DEF Promise!Forgive
  <2>5. CASE Crash
    BY <2>0, <2>5 DEF Crash, storeVars, Promise!Begin
  <2>6. CASE Stop
    BY <2>6 DEF Stop, storeVars, callVars, faultVars, Owed, IsNext, AppliedBefore, Precedes
  <2>7. CASE Restart
    BY <2>0, <2>7, OwedNowhere DEF Restart, storeVars, callVars, faultVars, TypeOK
  <2>8. CASE UNCHANGED vars
    BY <2>8 DEF vars, indexerVars, storeVars, callVars, faultVars, Owed, IsNext,
                AppliedBefore, Precedes
  <2> QED
    BY <2>1, <2>2, <2>3, <2>4, <2>5, <2>6, <2>7, <2>8 DEF Next, Fault
<1> QED
  BY <1>1, <1>2, TypeCorrect, PTL DEF Spec, ImplementsStream, Promise!StreamSpec

-----------------------------------------------------------------------------
(* The cursor and the rows.                                                *)

\* The steps that touch neither the rows nor the cursor, or clear both.
LEMMA CursorStays ==
    ASSUME CursorOnRow,
           UNCHANGED storeVars \/ cursor' = 0
    PROVE  CursorOnRow'
BY DEF CursorOnRow, storeVars

\* The cursor moves to the block of an event that is in the store.
LEMMA CursorMoves ==
    ASSUME CursorOnRow, NEW e \in rows', rows \subseteq rows',
           cursor' \in {cursor, MaxOf(cursor, e.block)}
    PROVE  CursorOnRow'
BY DEF CursorOnRow, MaxOf

\* lastBlockNumber is the block of a stored event whatever fails: SQLite's INSERT
\* commits before its UPDATE, and a statement that throws leaves it where it was.
THEOREM CursorFollowsRows == Spec => []CursorOnRow
<1>1. Init => CursorOnRow
  BY DEF Init, CursorOnRow
<1>2. TypeOK /\ GapInv /\ CursorOnRow /\ [Next]_vars => CursorOnRow'
  <2> SUFFICES ASSUME TypeOK, GapInv, CursorOnRow, [Next]_vars PROVE CursorOnRow'
    OBVIOUS
  <2>1. ASSUME NEW e \in pending, ApplyInMemory(e) PROVE CursorOnRow'
    <3>1. CASE IsStored(e)
      BY <2>1, <3>1, CursorStays DEF ApplyInMemory
    <3>2. CASE ~IsStored(e)
      BY <2>1, <3>2, CursorMoves DEF ApplyInMemory
    <3> QED
      BY <3>1, <3>2
  <2>2. ASSUME NEW e \in pending, InsertRow(e) PROVE CursorOnRow'
    BY <2>2 DEF InsertRow, CursorOnRow
  <2>3. ASSUME NEW e \in pending, AdvanceCursor(e) PROVE CursorOnRow'
    <3>1. e \in rows
      BY <2>3 DEF AdvanceCursor, GapInv, CallInv
    <3> QED
      BY <2>3, <3>1, CursorMoves DEF AdvanceCursor
  <2>4. CASE Crash
    BY <2>4, CursorStays DEF Crash
  <2>5. CASE ~(Apply \/ Crash)
    BY <2>5, CursorStays
    DEF Next, Chain, Sync, BeginSync, QueryBatch, NextBatch, Fault, RpcFailure,
        StoreThrows, Reject, Stop, Restart, vars, indexerVars
  <2> QED
    BY <2>1, <2>2, <2>3, <2>4, <2>5 DEF Apply
<1> QED
  BY <1>1, <1>2, TypeCorrect, GapInvHolds, PTL DEF Spec

-----------------------------------------------------------------------------
(* What the live sync stored has been announced.                           *)

\* A row stored live was announced, is about to be, or its second statement threw.
AnnounceInv ==
    mode = "live" => rows \ bootRows \subseteq Announced \cup excused \cup Owed

LEMMA AppendedIsAnnounced ==
    ASSUME TypeOK, NEW e, feed' = Append(feed, e)
    PROVE  Announced' = Announced \cup {e}
<1>1. feed \in Seq(Entry) /\ Len(feed) \in Nat
  BY DEF TypeOK
<1>2. /\ DOMAIN feed' = 1..Len(feed) + 1
      /\ \A i \in 1..Len(feed) : feed'[i] = feed[i]
      /\ feed'[Len(feed) + 1] = e
  BY <1>1
<1>3. DOMAIN feed = 1..Len(feed)
  BY <1>1
<1>4. ASSUME NEW x \in Announced' PROVE x \in Announced \cup {e}
  <2>1. PICK i \in 1..Len(feed) + 1 : x = feed'[i]
    BY <1>2 DEF Announced
  <2>2. i \in 1..Len(feed) \/ i = Len(feed) + 1
    BY <1>1
  <2> QED
    BY <1>2, <1>3, <2>1, <2>2 DEF Announced
<1>5. ASSUME NEW x \in Announced \cup {e} PROVE x \in Announced'
  <2>1. CASE x = e
    <3>1. Len(feed) + 1 \in 1..Len(feed) + 1
      BY <1>1
    <3> QED
      BY <1>2, <2>1, <3>1 DEF Announced
  <2>2. CASE x \in Announced
    <3>1. PICK i \in 1..Len(feed) : x = feed[i]
      BY <1>3, <2>2 DEF Announced
    <3>2. i \in 1..Len(feed) + 1
      BY <1>1
    <3> QED
      BY <1>2, <3>1, <3>2 DEF Announced
  <2> QED
    BY <2>1, <2>2
<1> QED
  BY <1>4, <1>5

\* The steps of a call.
LEMMA SyncKeepsAnnounceInv ==
    ASSUME TypeOK, AnnounceInv, Sync PROVE AnnounceInv'
<1>1. CASE BeginSync \/ NextBatch
  <2>1. Owed = {} /\ UNCHANGED <<rows, feed, excused>>
    BY <1>1, OwedNowhere DEF BeginSync, NextBatch, storeVars, faultVars
  <2>2. mode' = "live" => bootRows' = rows \/ (mode = "live" /\ bootRows' = bootRows)
    BY <1>1 DEF BeginSync, NextBatch, Return, TypeOK
  <2> QED
    BY <2>1, <2>2 DEF AnnounceInv, Announced
<1>2. CASE QueryBatch
  <2>1. Owed = {} /\ UNCHANGED <<rows, feed, mode, bootRows>> /\ excused \subseteq excused'
    BY <1>2, OwedNowhere DEF QueryBatch, storeVars
  <2> QED
    BY <2>1 DEF AnnounceInv, Announced
<1>3. ASSUME NEW e \in pending, ApplyInMemory(e) PROVE AnnounceInv'
  <2>1. Owed = {} /\ UNCHANGED <<mode, bootRows, excused>>
    BY <1>3, OwedNowhere DEF ApplyInMemory, faultVars
  <2>2. CASE IsStored(e)
    <3>1. UNCHANGED <<rows, feed>>
      BY <1>3, <2>2 DEF ApplyInMemory, Announce, storeVars
    <3> QED
      BY <2>1, <3>1 DEF AnnounceInv, Announced
  <2>3. CASE ~IsStored(e)
    <3> SUFFICES ASSUME mode = "live" PROVE AnnounceInv'
      BY <2>1 DEF AnnounceInv
    <3>1. rows' = rows \cup {e} /\ feed' = Append(feed, e)
      BY <1>3, <2>3 DEF ApplyInMemory, Announce
    <3>2. Announced' = Announced \cup {e}
      BY <3>1, AppendedIsAnnounced
    <3> QED
      BY <2>1, <3>1, <3>2 DEF AnnounceInv
  <2> QED
    BY <2>2, <2>3
<1>4. ASSUME NEW e \in pending, InsertRow(e) PROVE AnnounceInv'
  <2>1. Owed = {} /\ UNCHANGED <<mode, bootRows, excused, feed, pending>> /\ IsNext(e)'
    BY <1>4, OwedNowhere DEF InsertRow, faultVars, IsNext, AppliedBefore, Precedes
  <2>2. CASE IsStored(e)
    <3>1. rows' = rows
      BY <1>4, <2>2 DEF InsertRow
    <3> QED
      BY <2>1, <3>1 DEF AnnounceInv, Announced
  <2>3. CASE ~IsStored(e)
    <3>1. rows' = rows \cup {e} /\ (mode' = "live" => e \in Owed')
      BY <1>4, <2>1, <2>3 DEF InsertRow, Owed
    <3> QED
      BY <2>1, <3>1 DEF AnnounceInv, Announced
  <2> QED
    BY <2>2, <2>3
<1>5. ASSUME NEW e \in pending, AdvanceCursor(e) PROVE AnnounceInv'
  <2>1. UNCHANGED <<rows, mode, bootRows, excused>> /\ IsNext(e)
    BY <1>5 DEF AdvanceCursor, faultVars
  <2>2. CASE mode = "live" /\ pc = "advanceNew"
    <3>1. Owed = {e} /\ feed' = Append(feed, e)
      BY <1>5, <2>1, <2>2, OwedWhere DEF AdvanceCursor, Announce
    <3>2. Announced' = Announced \cup {e}
      BY <3>1, AppendedIsAnnounced
    <3> QED
      BY <2>1, <3>1, <3>2 DEF AnnounceInv
  <2>3. CASE ~(mode = "live" /\ pc = "advanceNew")
    <3>1. Owed = {} /\ feed' = feed
      BY <1>5, <2>3, OwedNowhere DEF AdvanceCursor, Announce
    <3> QED
      BY <2>1, <3>1 DEF AnnounceInv, Announced
  <2> QED
    BY <2>2, <2>3
<1> QED
  BY <1>1, <1>2, <1>3, <1>4, <1>5 DEF Sync, Apply

\* Between ticks a row that the live sync stored has been handed to the callbacks,
\* or it is one whose second statement threw and whose batch was abandoned: the
\* failed tick never leaves another one unannounced.
THEOREM LiveRowsAreAnnounced == Spec => []LiveRowsAnnounced
<1>1. Init => AnnounceInv
  BY DEF Init, AnnounceInv
<1>2. TypeOK /\ AnnounceInv /\ [Next]_vars => AnnounceInv'
  <2> SUFFICES ASSUME TypeOK, AnnounceInv, [Next]_vars PROVE AnnounceInv'
    OBVIOUS
  <2>1. CASE Sync
    BY <2>1, SyncKeepsAnnounceInv
  <2>2. CASE StoreThrows
    <3>1. Owed \subseteq excused' /\ excused \subseteq excused'
      BY <2>2 DEF StoreThrows, Owed
    <3>2. UNCHANGED <<rows, feed, bootRows>> /\ (mode' = "live" => mode = "live")
      BY <2>2 DEF StoreThrows, Reject, storeVars
    <3> QED
      BY <3>1, <3>2 DEF AnnounceInv, Announced
  <2>3. CASE RpcFailure
    <3>1. Owed = {}
      BY <2>3, OwedNowhere DEF RpcFailure
    <3>2. UNCHANGED <<rows, feed, bootRows, excused>> /\ (mode' = "live" => mode = "live")
      BY <2>3 DEF RpcFailure, Reject, storeVars
    <3> QED
      BY <3>1, <3>2 DEF AnnounceInv, Announced
  <2>4. CASE Crash \/ Restart
    BY <2>4 DEF Crash, Restart, AnnounceInv
  <2>5. CASE Chain \/ Stop \/ UNCHANGED vars
    <3>1. UNCHANGED <<rows, feed, bootRows, excused, mode, pc, pending>>
      BY <2>5 DEF Chain, Stop, vars, indexerVars, storeVars, callVars, faultVars
    <3> QED
      BY <3>1 DEF AnnounceInv, Announced, Owed, IsNext
  <2> QED
    BY <2>1, <2>2, <2>3, <2>4, <2>5 DEF Next, Fault
<1>3. AnnounceInv => LiveRowsAnnounced
  BY OwedNowhere DEF AnnounceInv, LiveRowsAnnounced, AtRest
<1> QED
  BY <1>1, <1>2, <1>3, TypeCorrect, PTL DEF Spec

-----------------------------------------------------------------------------
(* A deployment is stored after the proofs that precede it.                *)

\* What is stored was mined, in every mode of the process; the proofs that
\* precede a stored deployment are stored, or a fault explains each of them.
RowsMined == \A r \in rows : r.block =< head

ProofsFirst ==
    \A d \in rows, e \in log :
        /\ ~IsProof(d.body)
        /\ IsProof(e.body)
        /\ Precedes(e, d)
        /\ e.block >= Base
        => e \in rows \cup excused

OrderInv == RowsMined /\ ProofsFirst

\* Steps that store nothing, or forget all rows.
LEMMA NothingStoredKeepsOrder ==
    ASSUME OrderInv, UNCHANGED chainVars, rows' \in {rows, {}}, excused \subseteq excused'
    PROVE  OrderInv'
<1>1. CASE rows' = rows
  BY <1>1 DEF OrderInv, RowsMined, ProofsFirst, chainVars, Base
<1>2. CASE rows' = {}
  BY <1>2 DEF OrderInv, RowsMined, ProofsFirst
<1> QED
  BY <1>1, <1>2

\* The next event of the batch is stored: if it is a deployment, no proof is left
\* in the batch, and the batch holds what is not stored yet of the blocks up to End.
LEMMA StoringKeepsOrder ==
    ASSUME TypeOK, GapInv, OrderInv, pc = "apply", NEW e \in pending, IsNext(e),
           rows' = rows \cup {e}, UNCHANGED <<chainVars, excused>>
    PROVE  OrderInv'
<1>1. /\ head \in Nat /\ target \in Nat /\ start \in Nat
      /\ log' = log /\ head' = head /\ excused' = excused
      /\ e \in log /\ e.block \in start..End /\ e.block \in Nat
  BY MaxHeadAssumption DEF TypeOK, ChainTypeOK, Entry, GapInv, CallInv, chainVars
<1>2. End \in Nat /\ End =< head
  BY <1>1, EndBounds DEF GapInv, CallInv
<1>3. RowsMined'
  BY <1>1, <1>2 DEF OrderInv, RowsMined
<1>4. ASSUME ~IsProof(e.body), NEW f \in log, IsProof(f.body), Precedes(f, e),
             f.block >= Base
      PROVE  f \in rows' \cup excused
  <2>1. f.block \in Nat
    BY DEF TypeOK, ChainTypeOK, Entry
  <2>2. f.block \in Base..End
    BY <1>1, <1>2, <1>4, <2>1, BaseIsNat DEF Precedes
  <2>3. f \notin pending
    BY <1>4 DEF IsNext, AppliedBefore
  <2> QED
    BY <2>2, <2>3 DEF GapInv, CallInv, Applying
<1>5. ProofsFirst'
  BY <1>1, <1>4 DEF OrderInv, ProofsFirst, Base
<1> QED
  BY <1>3, <1>5 DEF OrderInv

\* A new event is in the block being built: it precedes nothing that is mined.
LEMMA ChainKeepsOrder ==
    ASSUME TypeOK, OrderInv, Chain PROVE OrderInv'
<1>1. head \in Nat /\ rows \subseteq Entry
  BY MaxHeadAssumption DEF TypeOK, ChainTypeOK
<1>2. /\ head =< head' /\ head' \in Nat
      /\ \A e \in log' \ log : e.block = head + 1
  BY <1>1 DEF Chain, ChainNext, EmitSome, Transact, EmitOne, EmitBoth, SealBlock, At, Building
<1>3. rows' = rows /\ excused' = excused
  BY DEF Chain, indexerVars, storeVars, faultVars
<1>4. \A r \in rows : r.block \in Nat
  BY <1>1 DEF Entry
<1>5. \A d \in rows, e \in log' \ log : ~Precedes(e, d)
  BY <1>1, <1>2, <1>4 DEF OrderInv, RowsMined, Precedes
<1> QED
  BY <1>1, <1>2, <1>3, <1>4, <1>5 DEF OrderInv, RowsMined, ProofsFirst, Base

\* Whatever fails, a deployment is never stored before a proof that precedes it,
\* but for the proofs that a lagging node or an abandoned batch left out.
LEMMA OrderInvHolds == Spec => []OrderInv
<1>1. Init => OrderInv
  BY DEF Init, OrderInv, RowsMined, ProofsFirst
<1>2. TypeOK /\ ChainInv /\ GapInv /\ OrderInv /\ [Next]_vars => OrderInv'
  <2> SUFFICES ASSUME TypeOK, ChainInv, GapInv, OrderInv, [Next]_vars PROVE OrderInv'
    OBVIOUS
  <2>1. CASE Chain
    BY <2>1, ChainKeepsOrder
  <2>2. ASSUME NEW e \in pending, ApplyInMemory(e) \/ InsertRow(e) PROVE OrderInv'
    <3>1. pc = "apply" /\ IsNext(e) /\ UNCHANGED <<chainVars, excused>>
      BY <2>2 DEF ApplyInMemory, InsertRow, faultVars
    <3>2. rows' = rows \/ rows' = rows \cup {e}
      BY <2>2 DEF ApplyInMemory, InsertRow, storeVars
    <3> QED
      BY <3>1, <3>2, StoringKeepsOrder, NothingStoredKeepsOrder
  <2>3. ASSUME NEW e \in pending, AdvanceCursor(e) PROVE OrderInv'
    BY <2>3, NothingStoredKeepsOrder DEF AdvanceCursor, faultVars
  <2>4. CASE ~(Chain \/ Apply)
    BY <2>4, NothingStoredKeepsOrder
    DEF Next, Sync, BeginSync, QueryBatch, NextBatch, Fault, RpcFailure, StoreThrows,
        Reject, Crash, Stop, Restart, vars, indexerVars, storeVars, faultVars
  <2> QED
    BY <2>1, <2>2, <2>3, <2>4 DEF Apply
<1> QED
  BY <1>1, <1>2, TypeCorrect, IndexerChainInv, GapInvHolds, PTL DEF Spec

\* A deployment is never served while a proof that precedes it in the log is
\* missing: syncToHead applies the proofs of a batch before its deployments.
THEOREM ProofsComeFirst == Benign => (Spec => []ProofsBeforeDeployments)
<1>1. OrderInv /\ excused = {} => ProofsBeforeDeployments
  BY DEF OrderInv, ProofsFirst, ProofsBeforeDeployments
<1> QED
  BY <1>1, NothingExcused, OrderInvHolds, PTL
=============================================================================

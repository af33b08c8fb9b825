------------------------------ MODULE EventLog ------------------------------
(***************************************************************************)
(* What the registry promises to whoever reads its events: an append-only  *)
(* log in which every proof hash and every (bytecode, chain, address) is    *)
(* announced at most once, positions are unique, and blocks up to head are  *)
(* final.  Registry implements this specification; Indexer reads it.        *)
(***************************************************************************)
EXTENDS Events

CONSTANTS
    MaxHead,  \* bound: no block after this one is produced
    MaxLogs   \* bound: the registry's logs that fit in one block

ASSUME MaxHeadAssumption == MaxHead \in Nat

VARIABLES
    head,       \* number of the latest block, what eth_blockNumber returns
    log,        \* entries of blocks 1..head and of the block being built
    nextIndex   \* log index the block being built gives its next event

chainVars == <<head, log, nextIndex>>

Building == head + 1

IsNew(b) == \A e \in log : ~SameSubject(e.body, b)

\* A transaction with n events, for which the block being built has room.
Transact(n) ==
    /\ head < MaxHead
    /\ nextIndex + n =< MaxLogs
    /\ nextIndex' = nextIndex + n
    /\ UNCHANGED head

EmitOne(b) ==
    /\ IsNew(b)
    /\ log' = log \cup {At(b, Building, nextIndex)}

\* submitProofAndRegister: both events of one transaction, or neither.
EmitBoth(b, d) ==
    /\ IsNew(b)
    /\ IsNew(d)
    /\ log' = log \cup {At(b, Building, nextIndex), At(d, Building, nextIndex + 1)}

SealBlock ==
    /\ head < MaxHead
    /\ head' = head + 1
    /\ nextIndex' = 0
    /\ UNCHANGED log

ChainInit ==
    /\ head = 0
    /\ log = {}
    /\ nextIndex = 0

EmitSome ==
    \/ Transact(1) /\ \E b \in Body : EmitOne(b)
    \/ /\ Transact(2)
       /\ \E b \in ProofSubmitted, d \in DeploymentRegistered :
             /\ b.codeHash = d.codeHash
             /\ b.submitter = d.submitter
             /\ EmitBoth(b, d)

ChainNext == EmitSome \/ SealBlock

ChainSpec == ChainInit /\ [][ChainNext]_chainVars

-----------------------------------------------------------------------------
(* The mined part of the log, all that a node answers a query with. *)
Mined == {e \in log : e.block =< head}

ChainTypeOK ==
    /\ head \in 0..MaxHead
    /\ log \subseteq Entry
    /\ nextIndex \in Nat

\* Every entry belongs to a mined block or to the one being built, whose
\* indices are handed out in order.
WithinTip ==
    \A e \in log : /\ e.block \in 1..Building
                   /\ e.block = Building => e.index < nextIndex

\* A proof hash or a deployment appears in one entry: the promise
\* IndexStore's primary keys and its INSERT OR IGNORE rely on.
SubjectsUnique == \A e, f \in log : SameSubject(e.body, f.body) => e = f

\* No two entries share a position.
PositionsUnique ==
    \A e, f \in log : e.block = f.block /\ e.index = f.index => e = f

\* A step adds entries to the block being built only: what a query over mined
\* blocks returned once, it returns for ever.
MinedIsFinal ==
    [][/\ log \subseteq log'
       /\ \A e \in log' \ log : e.block > head]_chainVars
=============================================================================

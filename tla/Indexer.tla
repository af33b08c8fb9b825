------------------------------- MODULE Indexer ------------------------------
(***************************************************************************)
(* The event indexer as the resolver runs it: one initial syncToHead, then *)
(* startLiveSync's ticks, over the in-memory or the SQLite store.          *)
(*                                                                         *)
(* syncToHead applies a batch without awaiting anything, so no request is  *)
(* served in the middle of one.  With SQLite each statement commits on its *)
(* own: between the INSERT of a row and the UPDATE of lastBlockNumber the  *)
(* process may die or the second statement may throw, and the file keeps   *)
(* the first.  Nothing of the memory store survives, or fails.             *)
(*                                                                         *)
(* Environment: the chain of EventLog, and faults, each with a budget.     *)
(***************************************************************************)
EXTENDS EventLog, Sequences

CONSTANTS
    Persistent,    \* SQLITE_PATH is set
    HasFromBlock,  \* FROM_BLOCK is set, to
    FromBlock,
    BootBatch,     \* indexerBatchSize, used by the initial sync only
    LiveBatch,     \* the default batch size of the ticks
    MaxRpcFailures, MaxThrows, MaxCrashes,  \* fault budgets
    MaxLag         \* blocks a log query may miss behind eth_blockNumber

ASSUME IndexerAssumption ==
    /\ Persistent \in BOOLEAN
    /\ HasFromBlock \in BOOLEAN
    /\ FromBlock \in Nat
    /\ BootBatch \in Nat \ {0}
    /\ LiveBatch \in Nat \ {0}
    /\ MaxRpcFailures \in Nat
    /\ MaxThrows \in Nat
    /\ MaxCrashes \in Nat
    /\ MaxLag \in Nat

VARIABLES
    \* the store; on disk when Persistent
    rows,       \* entries of the tables proofs and deployments
    cursor,     \* lastBlockNumber
    \* the process
    mode,       \* "boot": initial sync; "live"; "off": initial sync failed; "down"
    running,    \* startLiveSync's flag, cleared by stop()
    pc,         \* where syncToHead stands
    start,      \* loop variable of syncToHead
    target,     \* headBlock of this call of syncToHead
    pending,    \* events of the batch still to be applied
    feed,       \* events handed to onProof and onDeployment since the process started
    bootRows,   \* history: the rows there were when the live sync started
    \* faults so far
    rpcFailures, throws, crashes,
    excused     \* history: events of batches that a fault kept from being applied

storeVars == <<rows, cursor>>
callVars  == <<pc, start, target, pending>>
faultVars == <<rpcFailures, throws, crashes, excused>>
indexerVars ==
    <<storeVars, mode, running, callVars, feed, bootRows, faultVars>>
vars == <<chainVars, indexerVars>>

BatchSize == IF mode = "boot" THEN BootBatch ELSE LiveBatch

\* Math.min(start + batchSize - 1, headBlock)
End == IF start + BatchSize - 1 < target THEN start + BatchSize - 1 ELSE target

\* The events of the blocks start..end.
InBatch == {e \in log : e.block \in start..End}

MaxOf(m, n) == IF m < n THEN n ELSE m

\* All proofs of a batch are applied before its deployments, each kind in log order.
\* Mutant: the two loops of syncToHead swapped.
AppliedAfter(e, f) ==
    \/ ~IsProof(e.body) /\ IsProof(f.body)
    \/ (IsProof(e.body) <=> IsProof(f.body)) /\ Precedes(e, f)

AppliedBefore(e, f) ==
    \/ IsProof(e.body) /\ ~IsProof(f.body)
    \/ (IsProof(e.body) <=> IsProof(f.body)) /\ Precedes(e, f)

IsNext(e) == e \in pending /\ \A f \in pending \ {e} : AppliedBefore(e, f)

\* The row of e's primary key is there already.  (sync.ts:67 stores the chain id
\* as a Number: the ids of the model are those a double holds exactly, below 2^53.)
IsStored(e) == \E r \in rows : SameSubject(r.body, e.body)

-----------------------------------------------------------------------------
(* syncToHead *)

\* The server's calls: fromBlock comes from the configuration in the initial
\* sync only; without one, syncToHead continues after the store's last block.
\* Mutant: FROM_BLOCK ignored.
FirstBlockAfterCursor == cursor + 1

FirstBlock == IF mode = "boot" /\ HasFromBlock THEN FromBlock ELSE cursor + 1

\* syncToHead returned: the initial sync's then() starts the live sync.
Return ==
    /\ pc' = "idle"
    /\ mode' = "live"
    /\ bootRows' = IF mode = "boot" THEN rows ELSE bootRows

\* A tick, or the initial call: read the store's cursor and the head.
BeginSync ==
    /\ pc = "idle"
    /\ mode = "boot" \/ (mode = "live" /\ running)
    /\ IF FirstBlock > head
       THEN Return /\ UNCHANGED <<start, target>>
       ELSE /\ start' = FirstBlock
            /\ target' = head
            /\ pc' = "query"
            /\ UNCHANGED <<mode, bootRows>>
    /\ UNCHANGED <<chainVars, storeVars, running, pending, feed, faultVars>>

\* The two queryFilter calls run in parallel and may be answered by different
\* nodes behind one URL: each sees the chain up to its own block.
QueryBatch ==
    /\ pc = "query"
    /\ \E p, d \in (head - MaxLag)..head :
          pending' = {e \in InBatch : e.block =< IF IsProof(e.body) THEN p ELSE d}
    /\ excused' = excused \cup (InBatch \ pending')
    /\ pc' = "apply"
    /\ UNCHANGED <<chainVars, storeVars, mode, running, start, target, feed,
                   bootRows, rpcFailures, throws, crashes>>

\* The callback of an event that was not stored before; the server passes
\* none to the initial sync.
Announce(e, new) ==
    feed' = IF new /\ mode = "live" THEN Append(feed, e) ELSE feed

\* Mutant: wasNew read after addProof, when nothing is new any more.
ApplyInMemoryThenLook(e) ==
    /\ ~Persistent
    /\ pc = "apply"
    /\ IsNext(e)
    /\ IF IsStored(e)
       THEN UNCHANGED storeVars
       ELSE /\ rows' = rows \cup {e}
            /\ cursor' = MaxOf(cursor, e.block)
    /\ Announce(e, FALSE)
    /\ pending' = pending \ {e}
    /\ UNCHANGED <<chainVars, mode, running, pc, start, target, bootRows, faultVars>>

\* addProof / addDeployment of the memory store, and the callback.  A
\* duplicate leaves the cursor alone.
ApplyInMemory(e) ==
    /\ ~Persistent
    /\ pc = "apply"
    /\ IsNext(e)
    /\ IF IsStored(e)
       THEN UNCHANGED storeVars
       ELSE /\ rows' = rows \cup {e}
            /\ cursor' = MaxOf(cursor, e.block)
    /\ Announce(e, ~IsStored(e))
    /\ pending' = pending \ {e}
    /\ UNCHANGED <<chainVars, mode, running, pc, start, target, bootRows, faultVars>>

\* addProof / addDeployment of the SQLite store: INSERT OR IGNORE ...
InsertRow(e) ==
    /\ Persistent
    /\ pc = "apply"
    /\ IsNext(e)
    /\ rows' = IF IsStored(e) THEN rows ELSE rows \cup {e}
    /\ pc' = IF IsStored(e) THEN "advanceOld" ELSE "advanceNew"
    /\ UNCHANGED <<chainVars, cursor, mode, running, start, target, pending, feed,
                   bootRows, faultVars>>

\* Three mutants: the callback forgotten; the head of the call noted instead of
\* the event's block; the batch's nominal end, not cut at the head, noted.
AdvanceCursorSilent(e) ==
    /\ pc \in {"advanceNew", "advanceOld"}
    /\ IsNext(e)
    /\ cursor' = MaxOf(cursor, e.block)
    /\ pending' = pending \ {e}
    /\ pc' = "apply"
    /\ UNCHANGED <<chainVars, rows, mode, running, start, target, feed, bootRows,
                   faultVars>>

AdvanceCursorToTarget(e) ==
    /\ pc \in {"advanceNew", "advanceOld"}
    /\ IsNext(e)
    /\ cursor' = MaxOf(cursor, target)
    /\ Announce(e, pc = "advanceNew")
    /\ pending' = pending \ {e}
    /\ pc' = "apply"
    /\ UNCHANGED <<chainVars, rows, mode, running, start, target, bootRows, faultVars>>

AdvanceCursorToBatchEnd(e) ==
    /\ pc \in {"advanceNew", "advanceOld"}
    /\ IsNext(e)
    /\ cursor' = MaxOf(cursor, start + BatchSize - 1)
    /\ Announce(e, pc = "advanceNew")
    /\ pending' = pending \ {e}
    /\ pc' = "apply"
    /\ UNCHANGED <<chainVars, rows, mode, running, start, target, bootRows, faultVars>>

\* ... then _updateLastBlock, whether or not the row was new, and the callback.
AdvanceCursor(e) ==
    /\ pc \in {"advanceNew", "advanceOld"}
    /\ IsNext(e)
    /\ cursor' = MaxOf(cursor, e.block)
    /\ Announce(e, pc = "advanceNew")
    /\ pending' = pending \ {e}
    /\ pc' = "apply"
    /\ UNCHANGED <<chainVars, rows, mode, running, start, target, bootRows, faultVars>>

\* Mutant: one block skipped between batches.
NextBatchSkips ==
    /\ pc = "apply"
    /\ pending = {}
    /\ start' = start + BatchSize + 1
    /\ IF start' =< target
       THEN pc' = "query" /\ UNCHANGED <<mode, bootRows>>
       ELSE Return
    /\ UNCHANGED <<chainVars, storeVars, running, target, pending, feed, faultVars>>

\* start += batchSize, and the loop's test.
NextBatch ==
    /\ pc = "apply"
    /\ pending = {}
    /\ start' = start + BatchSize
    /\ IF start' =< target
       THEN pc' = "query" /\ UNCHANGED <<mode, bootRows>>
       ELSE Return
    /\ UNCHANGED <<chainVars, storeVars, running, target, pending, feed, faultVars>>

-----------------------------------------------------------------------------
(* Failures of a call *)

\* The promise of syncToHead rejects: the initial one is logged and nothing
\* follows it, a tick's is swallowed and the next tick is scheduled.
Reject ==
    /\ pc' = "idle"
    /\ pending' = {}
    /\ mode' = IF mode = "boot" THEN "off" ELSE mode
    /\ UNCHANGED <<chainVars, storeVars, running, start, target, feed, bootRows>>

\* getBlockNumber or queryFilter fails.
RpcFailure ==
    /\ rpcFailures < MaxRpcFailures
    /\ \/ pc = "idle" /\ (mode = "boot" \/ (mode = "live" /\ running))
       \/ pc = "query"
    /\ rpcFailures' = rpcFailures + 1
    /\ Reject
    /\ UNCHANGED <<throws, crashes, excused>>

\* A SQLite statement throws (disk full, file locked by another process).
StoreThrows ==
    /\ throws < MaxThrows
    /\ Persistent
    /\ pc \in {"apply", "advanceNew", "advanceOld"}
    /\ pending # {}
    /\ throws' = throws + 1
    /\ excused' = excused \cup pending
    /\ Reject
    /\ UNCHANGED <<rpcFailures, crashes>>

\* stop() of the handle startLiveSync returns.
Stop ==
    /\ mode = "live"
    /\ running
    /\ running' = FALSE
    /\ UNCHANGED <<chainVars, storeVars, mode, callVars, feed, bootRows, faultVars>>

\* A file that is not rescanned from FROM_BLOCK keeps what the batch lacked.
Crash ==
    /\ crashes < MaxCrashes
    /\ mode # "down"
    /\ crashes' = crashes + 1
    /\ mode' = "down"
    /\ pc' = "idle"
    /\ pending' = {}
    /\ feed' = <<>>
    /\ running' = TRUE
    /\ excused' = IF Persistent /\ ~HasFromBlock THEN excused \cup pending ELSE excused
    /\ IF Persistent
       THEN UNCHANGED storeVars
       ELSE rows' = {} /\ cursor' = 0
    /\ UNCHANGED <<chainVars, start, target, bootRows, rpcFailures, throws>>

\* createResolverApp calls syncToHead at once.
Restart ==
    /\ mode = "down"
    /\ mode' = "boot"
    /\ UNCHANGED <<chainVars, storeVars, running, callVars, feed, bootRows, faultVars>>

-----------------------------------------------------------------------------
Init ==
    /\ ChainInit
    /\ rows = {}
    /\ cursor = 0
    /\ mode = "boot"
    /\ running = TRUE
    /\ pc = "idle"
    /\ start = 0
    /\ target = 0
    /\ pending = {}
    /\ feed = <<>>
    /\ bootRows = {}
    /\ rpcFailures = 0
    /\ throws = 0
    /\ crashes = 0
    /\ excused = {}

Chain == ChainNext /\ UNCHANGED indexerVars

Apply ==
    \E e \in pending : ApplyInMemory(e) \/ InsertRow(e) \/ AdvanceCursor(e)

Sync == BeginSync \/ QueryBatch \/ Apply \/ NextBatch

Fault == RpcFailure \/ StoreThrows \/ Crash

Next == Chain \/ Sync \/ Fault \/ Stop \/ Restart

Spec == Init /\ [][Next]_vars

\* setTimeout fires, RPC calls return, a supervisor restarts the process
\* (restart: unless-stopped in docker-compose), and blocks are produced.
Fairness == WF_vars(Sync) /\ WF_vars(Restart) /\ WF_vars(SealBlock /\ UNCHANGED indexerVars)

FairSpec == Spec /\ Fairness

-----------------------------------------------------------------------------
\* lastBlockNumber and the events of a batch are of mined blocks, and a batch is
\* held only while it is applied.
TypeOK ==
    /\ ChainTypeOK
    /\ rows \subseteq Entry
    /\ cursor \in 0..head
    /\ mode \in {"boot", "live", "off", "down"}
    /\ running \in BOOLEAN
    /\ pc \in {"idle", "query", "apply", "advanceNew", "advanceOld"}
    /\ mode \in {"off", "down"} => pc = "idle"
    /\ start \in Nat
    /\ target \in Nat
    /\ pending \subseteq Mined
    /\ pc \in {"idle", "query"} => pending = {}
    /\ feed \in Seq(Entry)
    /\ bootRows \subseteq Entry
    /\ rpcFailures \in 0..MaxRpcFailures
    /\ throws \in 0..MaxThrows
    /\ crashes \in 0..MaxCrashes
    /\ excused \subseteq Entry

\* The first block whose events the configuration asks for.
Base == IF HasFromBlock THEN FromBlock ELSE 1

AtRest == mode = "live" /\ pc = "idle"

Announced == {feed[i] : i \in DOMAIN feed}

\* README.md:209: the indexer syncs historical events and live-polls for new
\* ones.  Ticks resume after lastBlockNumber, so an event at or before it that
\* is not stored is never read again: between calls there must be none.
NoGap ==
    AtRest => \A e \in log : e.block \in Base..cursor => e \in rows

\* With faults, the gaps are no more than the faults explain: what a lagging
\* node left out, and the batch that was being applied when a statement threw or
\* a process without FROM_BLOCK died.  Nothing else is ever skipped.
SkippedOnlyByFaults ==
    AtRest => \A e \in log : e.block \in Base..cursor => e \in rows \cup excused

\* lastBlockNumber is the block of a stored event, never of one still to come:
\* whatever fails, the cursor does not run ahead of the rows.
CursorOnRow == cursor # 0 => \E r \in rows : r.block = cursor

\* Between ticks every row the live sync stored has been announced, but for one
\* whose second statement threw.
LiveRowsAnnounced == AtRest => rows \ bootRows \subseteq Announced \cup excused

\* A deployment is never served while a proof that precedes it in the log is
\* missing: the batch's proofs are all applied first.
ProofsBeforeDeployments ==
    mode = "live" =>
        \A d \in rows, e \in log :
            /\ ~IsProof(d.body)
            /\ IsProof(e.body)
            /\ Precedes(e, d)
            /\ e.block >= Base
            => e \in rows

\* The indexer keeps the promise of Stream: SQLite's two commits, the two loops
\* of a batch, the boot that announces nothing and every fault are steps of it.
Owed == IF mode = "live" /\ pc = "advanceNew" THEN {e \in pending : IsNext(e)} ELSE {}

Promise ==
    INSTANCE Stream WITH
        Item <- Entry, stored <- rows, announced <- feed, owed <- Owed,
        live <- mode = "live", forgiven <- excused

ImplementsStream == Promise!StreamSpec

\* Every event of a mined block at or after Base is eventually stored, unless
\* the live sync was stopped or never started; it says of a failed tick what
\* sync.ts:102 says: "Retry on next tick."
IsMined(b)   == \E e \in Mined : e.body = b /\ e.block >= Base
IsIndexed(b) == \E r \in rows : r.body = b
EventuallyIndexed ==
    \A b \in Body : IsMined(b) ~> IsIndexed(b) \/ ~running \/ mode = "off"

\* README.md:209, of the process: once started, it gets to live-poll.
LivePollingStarts == (mode = "boot") ~> (mode = "live")
=============================================================================

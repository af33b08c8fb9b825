# A verification of cross-l2-verify

TLA+ modules that model the parts of cross-l2-verify that carry its logic, TLC
configurations that check them on small instances, and TLAPS proofs of the
results that matter most. Paths are relative to the repository's root; `PK`
stands for `packages`.

1. The system · 2. Modules · 3. Runs · 4. Fairness · 5. What the runs found ·
6. Proofs · 7. Not modelled · 8. Plan

## 1. The system

cross-l2-verify anchors proofs of source verification of EVM bytecode on L1 and
lets deployments of the same bytecode on other chains reuse them. A user's hook
or CLI compiles a source, compares it with deployed code, pins a payload on IPFS
and anchors its hash in a registry contract on L1 (`verify`); other deployments
of that bytecode are then registered without a new proof (`propagate`). A
resolver process indexes the registry's events and serves them over HTTP; a
dashboard page reads the resolver and follows its event stream.

| Component | State it keeps | Operations | Interacts through |
|---|---|---|---|
| Registry contract, `PK/contracts` | records by proof hash; arrays of proofs, chains and deployments by code hash; existence flags | `submitProof`, `submitProofAndRegister`, `registerDeployment`, getters | events `ProofSubmitted`, `DeploymentRegistered` |
| SDK submission, `PK/sdk/src/sdk.ts` | none of its own: a call's local variables over its awaits | `verify`, `verifyOrPropagate`, `propagate` | L1 and L2 RPC, IPFS, solc |
| Batch propagation, `PK/sdk/src/batch.ts`, `PK/cli` | queue and results of one batch | `batchPropagate`, `propagate-batch` | the SDK, one account |
| SDK reads | none | `lookup`, `getProofByHash`, proxy detection, re-verification, source import | L1 and L2 RPC, IPFS, Etherscan |
| Indexer, `PK/indexer` | rows of proofs and deployments, `lastBlockNumber`, in memory or in SQLite | `syncToHead`, `startLiveSync`, stop, queries | L1 RPC, callbacks |
| Resolver, `PK/resolver-api` | the index, SSE clients, webhook subscriptions, IPFS cache, rate-limit windows, metrics | HTTP routes, broadcast, status poll | indexer callbacks, HTTP, SSE |
| Dashboard, `PK/dashboard` | event source, activity list, statistics, timers, search | connect, stream handlers, backfill, refresh, search | HTTP and SSE of the resolver |
| Hooks and tooling, `PK/foundry`, `hardhat`, `tooling`, `cli/src/hooks.ts` | none | choose chain, address and contract path, then one SDK call | SDK |
| Bulk importer and demos, `PK/integration` | a NonceManager, the counters of an import | import in batches | Blockscout, IPFS, the registry |
| Explorer client, `PK/explorer-client` | none | one request per call | resolver |

What is hard in each, and what makes it correct:

- **Contract.** Transactions of any senders in any order; arrays, flags and
  records are separate writes, and one transaction makes two state changes.
  Correct: arrays list exactly what the flags and records hold, once, in log
  order; nothing is rewritten; the log tells the same story as the storage.
- **SDK submission.** Every await is a place where the world changes: another
  call, a stranger's transaction, an error whose cause (sent or not?) is unknown.
  Correct: what a call reports is so; nothing is anchored that IPFS does not
  have; no deployment is registered without a proof or under other code; a
  retry does not win twice.
- **Batch.** Workers share a queue and an account. Correct: each target is taken
  once and answered once, a success is on record, one failing target costs no
  other.
- **Indexer.** RPC calls fail or are answered by nodes that disagree; a batch is
  many SQLite commits and the process can die between two. Correct: no event
  at or before the cursor is missing, the cursor is backed by a row, the stream
  carries each stored event once, everything mined is eventually indexed.
- **Event stream and page.** Connections break and are replaced, answers arrive
  late, the list is bounded. Correct: events are announced once, in order;
  what is missing is only what could not be heard; the numbers catch up.
- **Lookups and their cache.** An answer is put together from many requests while
  others register, through a cache that concurrent misses fill. Correct: nothing
  that was on record at the start is missing, as far as a chain id survives its
  conversion to a number; every proof named resolves; a failure has a reason; the
  cache keeps what was used last.
- **Queries.** Two stores, one of which leaves the order within a block to a
  query plan, and pages of a list that grows. Correct: both give one answer, a
  client that pages to the end has seen everything.
- **Rate limit.** Fixed windows and a timer. Correct: who keeps to the limit is
  never refused, who comes back when told is served.
- **Webhooks.** Replies that settle a delivery or call for another attempt,
  subscriptions that come and go. Correct: one delivery per subscription, which
  ends at the first reply that settles it or at the limit, and results that tell
  what happened.
- **Importer.** A NonceManager hands out nonces before the transaction is known
  to be accepted. Correct: the summary tells what is on record, every gap in the
  nonces has a reason, and the import ends.
- **Hooks and proxy detection.** Values with several sources each, and slots
  read one by one. Correct: what is submitted belongs together, and a refusal
  has something that is missing; an answer is explained by what the slots held,
  and every slot can be read.

The hazards list of PROJECT.json names each of these at its line.

## 2. Modules

| Module | Models | Extends |
|---|---|---|
| `Events` | the two events, their order and the data types of the registry | |
| `EventLog` | abstract: what the contract promises a reader of its events | `Events` |
| `Stream` | abstract: what an index promises whoever listens to it | |
| `Registry` | `VerificationRegistry.sol` | `Events`; implements `EventLog` |
| `Indexer` | `sync.ts`, the write side of `store.ts` and `sqlite-store.ts`, the boot of `server.ts` | `EventLog`; implements `Stream` |
| `Submission` | `verify`, `verifyOrPropagate`, `propagate` of `sdk.ts` | `Registry` |
| `Batch` | `batch.ts`, `propagate-batch` of the CLI | `Submission` |
| `IpfsCache` | `cache.ts`, as operators | |
| `Lookup` | `lookup`, `getProofByHash`, `validateProofAgainstRecord` of `sdk.ts`, `cached-ipfs.ts`, the routes and commands that call them | `Registry`, `IpfsCache` |
| `Queries` | the read queries of both stores and the pages of `/codehash/:codeHash/deployments` | |
| `RateLimit` | `rateLimit` of `middleware.ts` | |
| `Webhooks` | `webhooks.ts` | |
| `Feed` | `/events`, `/indexer/status`, `/indexer/recent` and a dashboard page | |
| `Importer` | `bulk-import.ts`, and the checks of `reverify.ts` on what it anchors | `Registry` |
| `Hooks` | `tooling/src/hooks.ts` and its copy in the CLI, `submit.ts`, `foundry`, `hardhat`, `import-etherscan` with `etherscan.ts` | |
| `Proxy` | `proxy.ts`, `detect-proxy` of the CLI | |
| `EventLogProofs`, `RegistryProofs`, `StreamProofs`, `IndexerProofs`, `SubmissionProofs`, `BatchProofs` | theorems | the module of that name |
| `ResolverProofs` | theorems about `Lookup` with its cache, `Webhooks`, `RateLimit` and `Queries` | these, `RegistryProofs` |
| `ClientProofs` | theorems about `Importer`, `Proxy`, `Hooks` and `Feed` | these |
| `MCIndexer`, `MCSubmission`, `MCBatch`, `MCResolver`, `MCClients`, `MCImporter` | values and symmetry for TLC | their modules |

`Registry` implements `EventLog` (a property of the run `resolver` and a
theorem), and `Indexer` has `EventLog` as its environment: what holds of the
indexer over that log holds over the contract. `Indexer` implements `Stream` the
same way (a property of the run `indexer_faults` and a theorem): what `Feed`
takes for granted of the events it broadcasts. `Submission`, `Lookup` and
`Importer` call the actions of `Registry` themselves, and `Batch` those of
`Submission`. The contract by itself, under any calls, is the load of `Lookup`
that has no readers. Parts that share no state with each other (the four of
`MCResolver`, the four of `MCClients`) are checked in one run, one of them in each
behaviour; their interleavings would show nothing.

### Registry

A mapping to bool is the set of keys that map to true, the other mappings are
functions over every key a caller may pass, the zero value included. A call
whose `require` fails changes nothing and is not a step. `submittedAt` is the
number of the block: only its order matters. The three strings of a record are
one payload; one of them empty is `Zero`. Hashes are model values. A transaction
is one step, whether it announces one event or two, so a reader never sees half
of `submitProofAndRegister`; in `EventLog`, `Transact` counts its events in the
block being built and `EmitOne` or `EmitBoth` adds them to the log.
`ListedInLogOrder` relates the order of all three kinds of arrays to the log: the
proofs of a bytecode, its deployments on a chain, and its chains, which come in
the order of their first deployments.

### Indexer

`syncToHead` reads the cursor and the head (`BeginSync`), queries a batch
(`QueryBatch`) and applies it event by event, proofs before deployments
(`ApplyInMemory`; or `InsertRow` and `AdvanceCursor`, the two commits of SQLite).
The callbacks append to `feed`. The initial call uses FROM_BLOCK and has no
callbacks; the live sync starts when it resolves and never when it rejects
(`mode = "off"`). `MaxLag` lets each of the two log queries of a batch be
answered by a node some blocks behind the one that told the head. The cursor is
the number of a mined block (`TypeOK`), which the two-block batches of the ticks
make a claim: the nominal end of a batch may lie beyond the head.

Chain ids are those a double holds exactly (`sync.ts:67` stores `Number(chainId)`;
two ids of 2^53 and more may share a row), and the strings of a log are UTF-8
(ethers throws at `sync.ts:41` for one that is not, each time the log is read):
logs with others are outside the model.

`excused` is a history variable: the events a fault kept from being applied, and
nothing else. What a lagging answer left out, what was pending when a statement
threw, and what was pending when a process without FROM_BLOCK died enter it.
An RPC failure excuses nothing, nor does a crash of a process that rescans.
The refinement of `Stream` maps `feed` to what is announced, `excused` to what is
forgiven, and the row that is inserted and not yet broadcast to what is owed.

### Submission

A call is a record with the step it stands at; each await of the code is one
step of `Advance`. ethers' `Wallet` reads the account's pending nonce, estimates
the gas against the mined state (a call that would revert throws the `require`'s
reason) and broadcasts, so these are `ReadNonce` and `SendProof` or
`SendDeployment`. The pool holds what is broadcast; a node refuses a nonce that
is used or pending; a block takes an account's transactions in nonce order.
`verifyOrPropagate` absorbs "proof exists" by propagating, and "deployment exists"
of that propagation by reading the code once more (`Reread`); it rethrows all else. `IoError` ends a call at any await, its transaction sent or not;
a retry is another call. `Reanchor` lets strangers submit a pinned proof
themselves. keccak256 over canonical JSON is injective, so a proof hash and a CID
are the payload they are made of; `createdAt` is part of it.

### Batch

`Begin` starts the workers (`Crew`: no more than there are targets), which take
one target each before their first await;
`Collect` pushes a result and, with no await in between, takes the next target.
The propagations themselves are the steps of `Submission`. Targets carry no
`expectedCodeHash` here (Submission's tasks do).

### Feed

An event is its place in the log, one per block. A tick of the live sync stores
and broadcasts a run of events with no request served in between, proofs first,
because the code awaits nothing there; the batches of the initial sync broadcast
nothing. A request is read by the server in one step and its answer handled by
the page in a later one, so answers overtake each other and the stream. `Drop`
breaks a connection, and the EventSource reconnects by itself without a
backfill. `lost` is history: what was stored or under way while the page had no
open stream. RecentLimit = 1 and ListCap = 2 stand for 50 and 200.

### Lookup and IpfsCache

A reader is the local variables of one call; a step is what the code does from
one answer to its next request, and the requests of a `Promise.all` are answered
in any order. A lookup that has failed goes on with its other proofs, as their
promises do, and fills the cache. Between any two steps the registry grows by any
transaction of any sender. A payload says of itself what `validateProofAgainstRecord`
compares; `Content` is what the gateway serves and never changes, as a CID is a
hash. `getRecord` reverts for a hash that is not on record (`RecordMissing`), and
nothing is fetched. The cache is the sequence of its keys: a Map iterates in
insertion order.

`sdk.ts:277-286` takes every chain id, a uint256, through `Number` and back. `Numbered`
is that conversion, a constant function: the identity on what a double holds, and
for the rest a neighbour, which may be 2^256, the id of no chain, whose encoding
fails. So `LookupCovers` says of an answer that it has the *number* of every chain
that was on record, and the addresses of the chains whose numbers are their own;
`Object.fromEntries` keeps one list for ids with one number (`Kept`).
`LookupExplained` has a chain without an encodable number among the reasons of a
failure. In the run ids have three bits and doubles two: 4 and 6 are their own numbers,
5 becomes 4, and 7 becomes 8, which no word of three bits holds.

### Queries

A row is its place in the log. Batches end with whole blocks and are stored with
no request served in between; a fault may keep the end of one, which a rescan
stores later, behind what came since. SQLite's order within a block is any of
the three its plans give: by rowid, by primary key, or chain by chain along
`idx_deployments_chain`. An answer is a set of rows and the order its query gives
them, put in a list by `InOrder`. The routes have pages; who asks for one after
the other is a client outside this repository (`PK/explorer-client` asks for the
first only). Only deployments are modelled: the queries for proofs have the same
form. A memory store that restarts between two pages, and so begins with an empty
list, is outside the model.

`late` is history: a row was stored after another of its block, or of a later
one. After that a page may repeat a row, before that none does. The proof of
`PagesCover` showed that the second half of this matters: a rescan that adds a
row to a block of which others are stored moves them in the order by primary
key, which a log with two rows a block cannot show, and one with three does.

### RateLimit and Webhooks

Time is a counter; the cleanup timer may fire at any time. A delivery is its
loop: each turn is a request and its reply. No reply but a 2xx says whether the
receiver processed the request, so nothing here claims that a request that is
repeated was not: a delivery has no id a receiver could know it by. What
`DispatchExplained` claims is about the loop: a turn follows only a timeout, a 5xx
or a 429, the first reply that settles the delivery ends it, and the result says
so. The delays between turns are left out.

### Importer

Contracts are listings with what comes of compiling them; a bytecode is words of
which the last counts the words of metadata before it. `PinProof` ends with the
NonceManager handing out the nonce, `Estimate` is the gas estimate that may refuse,
`Send` puts the transaction into the pool, where it waits until its nonce is
next, and `MineImport` runs it on `Registry`. A proof hash is the place of the
contract in the import, since the payload carries the time. `tally` has the
counters in all and those of each chain, which main sets to zero when it comes
to the chain, also when it comes to it again.

### Hooks and Proxy

Addresses, chains and paths are small numbers, 0 for what is absent; of a file
only the fields the code reads are kept. `FirstOf` is a chain of `??`; an address
that is malformed ends the command where it is found, and no later source is
asked. Address and chain of a broadcast are taken from one creation, its last,
which may be one without a name that created another contract: `HookTargetRight`
says so in its definition of the last creation, and names for a refusal what was
missing, command by command.

In `Proxy` the contract and its beacon may be upgraded between any two requests,
and `held` remembers what each slot held during the call. `ProxyExplained` is about
answers. A detection that fails is the business of `EverySlotCanBeRead`, which
the code does not keep (section 5). A call of the beacon that fails is caught,
and the answer is then that of the third slot: `PassedOver` names this case.

## 3. Runs

| Run | Bounds | Question |
|---|---|---|
| `indexer_memory` | 3 blocks, 2 logs each; 2 proofs, 2 addresses; 1 RPC failure, 1 crash | memory store: no gap, all announced, proofs first, everything indexed eventually |
| `indexer_faults` | as above with SQLite and FROM_BLOCK; 1 RPC failure, 1 throw, 1 crash, lag 1 | are gaps only those a fault explains |
| `indexer_throw_gap` | SQLite, 1 throwing statement | violation |
| `indexer_boot_failure` | memory, 1 RPC failure | violation |
| `submission` | 2 calls of any kind, 2 accounts, 2 chains, 2 bytecodes of which one has no source, 2 milliseconds | is what calls report and leave behind right under every interleaving |
| `submission_hook_fallback` | 2 calls, 1 account, 2 chains | violation |
| `batch` | 3 targets of which two are equal, 1 or 2 workers, I/O errors | taken once, answered once, successes on record; with one worker none that is ready is refused; the batch ends |
| `batch_parallel` | 2 targets, 2 workers, 3 chains | violation |
| `resolver` | contract: 2 proofs, bytecodes, chains and addresses, 1 sender, 2 blocks of 2 logs, zero arguments; lookups: 2 proofs, 1 bytecode, 4 chains of which two have one number and one has none, 1 reader of any kind with 3 logs, a cache of 2 and failures, or 2 with 2 logs and a cache of 2, 1 or 0; rate limit: 2 addresses, 3 requests each, windows of 3 ticks and 2 ticks a second; webhooks: 3 subscriptions, 1 dispatch, 1 retry; queries: 5 rows, three of them in one block, pages of 2 | are storage, log and arrays one story under every order of calls; what readers and subscribers are told |
| `clients` | page: 2 or 3 events, 1 or 2 connects, 1 failure, refreshes (the records of `MCBudgets`); importer: 13 kinds of contracts, up to 3 in a list, batches of 1 or 2, a chain listed twice or unknown or none at all, 1 fault, 1 stranger; hooks: every input of `MCHookInputs`; proxy: every content of the slots, 2 upgrades | the page's order, completeness and freshness; the importer's summary, nonces and proofs; what hooks submit; what proxy detection says |
| `proxy_dirty_slot` | every content of the slots, no upgrade | violation |
| `importer_stall` | 2 contracts in one batch, 1 stranger, no fault | violation |

Why the bounds are enough. Registry: two of everything give equal and different
keys in each mapping; an argument that is zero fails every `require`; the sender
is stored and announced and never compared. Indexer: a
boot batch of one block and a live batch of two over three blocks give calls
with several batches and a partial last one; two logs in a block and both kinds
give a batch whose proofs lie after its deployments. Submission: two calls race
for one target, or one retries the other. Batch: three targets and two workers
are the smallest batch with a queue. Feed: three events make the list of two
overflow; two connects overlap; a behaviour with two connects has two events
and one with refreshes has one connect, to keep the run small. Lookup: one proof
that resolves and one that may not, two readers that miss one CID together, a
cache that is full after one; a chain id of each kind, kept, rounded and lost. Rate limit: a window that is not a whole number of
seconds makes the rounding matter, seven ticks hold two boundaries. Webhooks: one
subscription that goes and two that stay make an id that repeats visible.
Queries: three rows in a block, of which a fault may store one or two, a page
boundary inside it, chains out of order.
Importer: two chains, and three contracts in batches of two. Interchangeable
model values are declared symmetric, except in runs that check liveness.

Deadlock is not checked: chains, calls and events are bounded, so every model
may come to its end.

Every property of a passing run has a mutant in the modules: a definition
changed the way a slip in that code would change it (the comment above each says
how), under which the property fails.

## 4. Fairness

- `Indexer!FairSpec`: WF of `Sync` (the timer fires and RPC calls return), of
  `Restart` (`restart: unless-stopped` in `docker-compose.yml`) and of
  `SealBlock` (blocks are produced). Faults have budgets and are never owed.
- `BatchFairSpec`: WF of each call's `Advance` (the event loop runs a call whose
  request was answered), of `Mine` (miners include what is next), of `Collect` and
  `Answer`. Nothing makes an I/O error or a stranger fair. A pending transaction
  is assumed never to be dropped by the nodes; `tx.wait` has no timeout, so
  without that `BatchAnswers` is false.
- `ImportFairSpec`: WF of the importer's steps (every request is answered) and of
  mining the next nonce. `ImportEnds` is false all the same.
- `FeedFairness`: WF of the timers, of the server's answers and of the page's
  handlers. Failures have a budget. `StatsCatchUp` is conditional on the
  automatic refresh staying on: without it, a late answer to a manual refresh
  may stay on the screen until the next event.

## 5. What the runs found

Each is a run that expects a violation and a finding in PROJECT.json.

- `indexer_throw_gap` (`sync.ts:101`): a statement that throws in a tick is
  answered with "Retry on next tick", which resumes after the cursor and not
  where the tick began.
- `indexer_boot_failure` (`server.ts:96`): one RPC failure in the initial sync and
  the live sync is never started.
- `submission_hook_fallback` (`sdk.ts:233`): the fallback needs an equal proof
  hash, which covers the target and the time; a hook for a bytecode with a proof
  on L1 therefore anchors another proof instead of falling back.
- `batch_parallel` (`cli/src/index.ts:258`): parallel propagations from one plain
  `Wallet` read the same pending nonce; targets with which nothing is wrong fail.
- `proxy_dirty_slot` (`proxy.ts:98`): a slot in use for something else, whose upper
  twelve bytes are not zero, makes `toBeHex` throw outside the `try`, where the
  comment takes the last 20 bytes: detection rejects with no failed request.
- `importer_stall` (`bulk-import.ts:494`): an import that finds its contract already
  registered has a nonce and never sends it; every later transaction of the
  importer's account waits behind the gap, and `tx.wait` has no timeout.

Observed and not a run:

- Without FROM_BLOCK, as `README.md:190` starts the resolver, a crash in the
  middle of a SQLite batch (`sqlite-store.ts:74`) leaves a cursor past events
  that were not stored and are never read again. With it they are, which
  `indexer_faults` checks.
- The server never calls `WebhookManager.dispatch`. A delivery given up at a 4xx
  reports maxRetries + 1 attempts though it made one (`webhooks.ts:137`).
- One proof on record that does not resolve, which any sender may anchor, fails
  the lookup of every proof of its bytecode (`sdk.ts:290`); `LookupExplained` names it
  among the reasons of a failure.
- A beacon call that merely failed counts as no beacon, so `detectProxy` may call
  a proxy none (`proxy.ts:57`).
- A deployment on a chain whose id a double does not hold is looked up under a
  neighbouring id; an id next to 2^256 fails the lookup of its bytecode
  (`sdk.ts:278-286`). `LookupCovers` and `LookupExplained` say exactly this much.
- A hook given an address and no chain takes the chain of the last deployment in
  the broadcast, whatever its address (`hooks.ts:50`).
- The importer's partial matches, and those of another compiler, never pass
  `reverify` (`ImportedReverifies`); metadata as long as the bytecode strips it to
  nothing, so two such bytecodes match in part (`bulk-import.ts:100`); a chain
  listed twice in CHAIN_IDS has its first counters overwritten (`:339`).
- The index's routes compare the code hash as it is written, `lookup` normalises
  it first (`server.ts:152`, `sdk.ts:274`).
- The `fromBlock` and `tipBlock` the dashboard's progress bar reads are never sent.

## 6. Proofs

`EventLogProofs`. `LogWellFormed`: subjects and positions of the log are unique.
`MinedNeverChanges`: no step changes its mined part.

`RegistryProofs`. `TypeCorrect`; `StorageConsistent` proves `StorageInv`, the
checked invariants plus what makes them inductive: a chain's flag means a
non-empty array, and all log entries lie before the tip, so a new one is last.
`ArraysConsistent`, `LogConsistent` and `ListedInOrder` are its parts, the last for
all three arrays: entries at the end of the log leave an array in order
(`StaysInLogOrder`), and so does an element pushed that the log said nothing about
(`PushedInLogOrder`).
`NothingIsRewritten` and `RegistryImplementsEventLog` follow from it. Assumption:
zero is no element of the data types, and the bound on blocks is a number.

`IndexerProofs`. `TypeCorrect`, by which the cursor never passes the head and a
batch holds mined events only, has no assumption beyond the types of the
constants, and neither has `NoUnexplainedGap` (`SkippedOnlyByFaults`): whatever
fails, for every batch size, lag and FROM_BLOCK. `SkippedOnlyByFaults` speaks of the
state between two calls and is not inductive. `GapInv` says what a call knows
while it runs: the store below `start` is complete but for `excused` (`CallInv`),
in the batch being applied what is neither pending nor excused is a row, the
cursor lies below `start` or in the batch (`StoreInv`), and a call that will
resume after the cursor finds everything up to it (`ResumeInv`). The last part
needs the distinction `Resumes`: an initial sync with FROM_BLOCK does not resume, so a
crash may leave holes below the cursor for it to fill, and it goes live only
when it has. `NoEventIsSkipped` is the corollary under `Benign`: nodes agree, no
statement throws and a SQLite file is rescanned; then `excused` stays empty and
the strict `NoGap` holds. `IndexerImplementsStream` has no assumption beyond the
types either: each step of the indexer, faults and restarts included, is a step
of `Stream` or a stutter.

`CursorFollowsRows` is `CursorOnRow`, inductive with the types. `LiveRowsAreAnnounced` is
`LiveRowsAnnounced` from `AnnounceInv`: a row that the boot did not store is announced,
excused, or owed, which is the one row inserted and not yet broadcast.
`ProofsComeFirst` (`ProofsBeforeDeployments`) is a corollary under `Benign` again:
`OrderInv` says for every deployment stored that all proofs logged before it are
stored or excused. In the batch being applied it takes the order of the batch,
before the batch it takes `CallInv`: the store is complete below `start`.

`StreamProofs`. `ListenersHearOnce`: in `Stream` what is announced is stored and not
owed, an invariant that makes "no item twice" inductive. With the refinement it
holds of the indexer with either store.

`SubmissionProofs`. `SubTypeCorrect` follows from `SubTypes`: `Carries` says what a
call holds at each of its steps (a chain, an address and a sender once it has
started, a source unless it propagates), `PoolTyped` that a transaction in the
pool belongs to a call that waits for it or has ended, so that no call changes
under its own transaction; `Moves` names what every step of a call respects.
`SubmissionUsesRegistry` shows that every step of the SDK, of a miner or of a
stranger is a step of `Registry` or leaves it alone: all theorems of
`RegistryProofs` hold under the SDK. `OnlyProvenDeployed` is `DeploymentsProven`.
propagate checks for a proof several awaits before its transaction is mined, so
`ProvenInv` carries the check along: a call past it, and a `registerDeployment` in
the pool, have their bytecode proven (`Checked`, `PoolChecked`). It stays proven
because `NothingIsRewritten` holds of the registry below, and because a call's
code hash is not touched while a transaction of it may be under way
(`KeepsChecked`). Assumptions: `Compiles` maps sources to non-zero hashes,
`MaxTime` is a number, and a proof hash stands for its payload (`HashAssumption`).

`ReportsAreTrue` (`OutcomeTruthful`), `AnchoredProofsResolve` (`ProofsResolve`),
`RegisteredCodeRuns` (`DeploymentsRunTheCode`) and `AtMostOneWinner` (`OneWinner`) are
parts of one invariant, `TruthInv`, as none of them is inductive alone. It says
what a call has established at each step (`CallSound`: the code it read is that of
its target, its payload is pinned before it asks for a nonce, a call that reads
again was refused because the deployment is on record) and the same of every
transaction in the pool, whose call may be long over (`PoolSound`). That two calls
cannot both report to have registered one deployment follows from the contract:
the second transaction finds it on record and reverts. The error paths make this
less obvious than it sounds, since a call that an error ended reports nothing and
its transaction may be mined all the same.

`BatchProofs`. A step of the batch is a step of `Submission`, or concerns the queue
alone, so `TruthInv` holds under the batch. `BatchInv` is about the queue: the
targets are those in the results, in the hands of the workers and in the queue,
each in one of these (`HandsApart`, `NoneLost`); the queue is the end of the list, in
order; a worker rests only when it is empty. `HandedOutOnce`, `EveryTargetAnswered`
and `ReportedSuccessRegistered` follow for any list, any number of workers and any
failures. `SerialBatchRegisters` needs more, for the claim is that nothing goes
wrong: `AccountInv` bounds every nonce read by the pending nonce of its account and
says that the pool has transactions of the batch only (the verify before it is
over), and `SerialInv` that one call at a time is under way, that its nonce is the
next, and that no target that was ready has ceased to be (`StillReady`).

`ResolverProofs`. Lookups only read the registry, so `NothingIsRewritten` holds while
they wait. `LookupsCoverTheRecord` (`LookupCovers`) and `LookupsAreExplained`
(`LookupExplained`) come from `LookupInv`, which says of each reader what its answers
so far have in common with the registry: the hashes are a prefix of the array
(`HashesSound`), each number stands for a chain that was listed, and every chain on
record when the call began has its number there (`ChainsSound`), a list found is
a prefix of the list of the chain asked for, and is empty only if another chain
has its number (`FoundSound`), and of a proof judged, that it resolves, or that the
contract reverted because it was unknown, or what else failed (`ProofSound`).
`Numbered` is any function of chain ids that leaves its own values alone. `CacheKeepsRecent` (`RecentlyUsedKept`) is `CacheInv`: the cache is the end of
the sequence of keys used, without repetition, of the length the code allows,
which is one if it is to hold none. `DispatchesAreExplained` (`DispatchExplained`):
`HookInv` says that the map holds the subscriptions made and not ended and that no
id is given twice (`Enrolment`), that one delivery exists for each subscriber of the
event at the dispatch (`DispatchCounted`), and of each loop that all its replies but
the last called for a retry and that it is over with the first that did not, or
with the last retry (`DeliverySound`). `LimitIsFair` (`RateFair`) is proved for every window, limit, clients
and timing of the requests: `WindowInv` says that the current window counts all
requests since it opened and that the one before it let at most the limit through,
which bounds any interval of that length by twice the limit.

`PagesAreComplete` (`PagesCover`) and `StoresAnswerAlike` (`StoresAgree`) hold for every
log, both stores and all three orders of SQLite. The lemmas are about sets put in
order: an element stands behind as many as come before it (`PlaceInOrder`), an order
carried over by a one-to-one function gives the same list (`OrderIsMapped`),
elements that join push the others back and never forward, and move nothing if
they all come later (`PlacesGrow`). With `RowsInv`, no row is stored twice and what is
scanned ends with a block, this gives for every list of the route that `Scan` only
appends to it and that `Rescan` loses nothing. `PagerInv` then says of the client
that what was there when it began is seen or ahead of its offset, and, unless
`late`, that what it has seen is behind it, once. That the stores agree block by
block is a counting argument (`LevelsMeet`): in two orders that both rise with the
block, the element at a place cannot be of a lower block in one than in the other.

`ClientProofs`. `NoncesExplained` is `NonceGapsExplained`, for any listing, environment
and number of faults and strangers. `NonceInv` makes it inductive: a job has a
nonce once it has pinned and no two share one (`JobNonces`), those that hold one
and have not sent it hold one that is not mined, the pool holds nonces of jobs
that wait or gave up (`PoolNonces`), every nonce between the mined and the handed
out is covered (`GapsCovered`), and what main has not started is idle (`Ahead`),
so that a batch never starts a job over. `ImportsReverify` (`ImportedReverifies`) carries
the match from the compilation to the record (`PinInv`). `SummaryIsRight`
(`StatsAddUp`): `TallyInv` equates each counter with the number of jobs under its
verdict, `ShareInv` does so for each chain if CHAIN_IDS lists none twice, `RecordInv`
says that what counts as imported is registered and that without a fault nothing
else of the importer's is, and `PlaceInv` where the loop stands. Assumptions: LIMIT
and CONCURRENCY are positive, and filtering a listing gives a listing, which the
proof system cannot derive from `SelectSeq` and the run evaluates.

`DetectionsAreExplained` (`ProxyExplained`): `ProxyInv` keeps, for each slot already
passed, that it held nothing of use at some time during the call, or a beacon
whose call failed (`PassedOver`). It is about answers; that a detection ends in one
is `EverySlotCanBeRead`, which is false. `HooksSubmitRight` (`HookTargetRight`): the target
is worked out once (`ToolInv`), the first place of a list that fits exists and is
least, which is proved from the well-foundedness of the numbers, and a refusal
names what was missing, command by command. `ToastsKeepOrder` (`ToastsInOrder`) and `NothingElseIsMissing`
(`MissingOnlyWhatWasLost`) hold for any number of events, connects, failures and
refreshes, and any caps. `FeedInv` has four parts: the types; at most one stream is
open, the page's own, and only it carries messages (`OneStream`); what was shown as a
toast, followed by what the stream carries, is a subsequence of what the server
announced, and nothing shown is still under way (`OrderSound`); each event stored
is shown, lost or under way (`Accounted`).

Every invariant and action property that a passing run checks is thus proved.
Only model-checked: liveness, `EventuallyIndexed`, `BatchAnswers` and `StatsCatchUp`.
Temporal reasoning under fairness and ENABLED are beyond the proof system used,
and so is induction with a predicate for a parameter: what a recursive function
computes is proved only as far as an invariant, a choice of a least place or a
count of elements can stand for the induction. RECURSIVE operators there are none.

## 7. Not modelled

- Reorganisations of L1: nothing in the code reads confirmations or removes
  rows, so a reorganised event would simply stay in the index.
- Transactions dropped or replaced in the pool, and code that is destroyed and
  redeployed (`Reread` would then name a hash that is not on record).
- Metrics, CORS, `/health`, estimates of gas, option parsing, the settings
  rebuilt from an Etherscan entry, canonical JSON, the schema, the compiler, the
  dashboard's search and layout, the demos, the deployment scripts.
  PROJECT.json gives a reason for each.
- Restarts of the resolver as the page sees them, and a page that changes
  resolvers while connecting.

## 8. Plan

The order is by how much can go wrong that a test would not reach.

Done: every module of section 2, and the proofs of section 6.

Left to model: the page's search with its overlapping answers, the order of the
activity list against the comment at `index.html:1501`, two resolvers behind one
page, and a restart of the resolver as the page sees it.

------------------------------- MODULE Lookup -------------------------------
(***************************************************************************)
(* lookup and getProofByHash of the SDK, as the resolver's routes, the CLI *)
(* and the explorer client call them, over a registry that grows between   *)
(* any two of their requests.  A step is what the code does from one       *)
(* answer to its next request.  The resolver's readers share its cache of  *)
(* payloads; a request may fail at any time.                               *)
(***************************************************************************)
EXTENDS Registry, IpfsCache

CONSTANTS
    Reader,   \* requests, each served once
    Content,  \* CID -> the document the gateway serves under it
    Numbered, \* chain id -> BigInt(Number(id)), the nearest that a double holds
    Loads     \* bounds: who asks for what, the calls of the contract and their
              \* logs and blocks, the size of the cache, whether requests fail

\* The strings of a record, and what a fetched document says of itself: the
\* hashes it claims and those computed from its sources and its canonical form.
ASSUME LookupAssumption ==
    /\ \A d \in Payload : DOMAIN d = {"source", "version", "cid"}
    /\ \A i \in DOMAIN Content :
          DOMAIN Content[i] =
             {"codeHash", "source", "bundle", "version", "claimed", "hash"}
    /\ \A l \in Loads : l.size \in Nat

\* A number that is none of ChainId is no uint256: ids next to 2^256 round up
\* to it.  What a double holds is its own number.
ASSUME NumberedAssumption ==
    /\ DOMAIN Numbered = ChainId
    /\ \A k \in ChainId : Numbered[k] \in ChainId => Numbered[Numbered[k]] = Numbered[k]

VARIABLES
    reader,   \* reader -> the local variables of its call
    cache,    \* keys of the cache, as in IpfsCache
    recent,   \* history: every key set or found, the most recent last
    load      \* the bounds of this behaviour; load.size is ipfsCacheSize

lookupOnly == <<reader, cache, recent, load>>
lookupVars == <<vars, lookupOnly>>

Kind == {"codeHash", "address"}

Idle ==
    [kind |-> "none", step |-> "idle", code |-> Zero, hashes |-> <<>>,
     chains |-> <<>>, found |-> <<>>, proofs |-> <<>>, answer |-> "none",
     fault |-> FALSE, began |-> [proofs |-> {}, deployments |-> {}]]

OnRecordNow == [proofs |-> proofExists, deployments |-> deploymentExists]

-----------------------------------------------------------------------------
(* validateProofAgainstRecord: document d for record r of proof hash p. *)
\* Mutant: the requested hash not compared with the document's.
ValidatesAny(p, r, d) ==
    /\ r.codeHash = d.codeHash
    /\ r.payload.source = d.bundle
    /\ d.source = d.bundle
    /\ d.claimed = d.hash
    /\ d.version = r.payload.version

Validates(p, r, d) ==
    /\ r.codeHash = d.codeHash
    /\ r.payload.source = d.bundle
    /\ d.source = d.bundle
    /\ d.claimed = d.hash
    /\ p = d.hash
    /\ d.version = r.payload.version

\* The gateway has what the record names.
Served(r) == r.payload.cid \in DOMAIN Content

Accepts(p, r) == Served(r) /\ Validates(p, r, Content[r.payload.cid])

-----------------------------------------------------------------------------
Asked(n) == [i \in 1..n |-> [stage |-> "asked", record |-> NoRecord]]

\* Promise.all over the proofs: all of them, or the first that rejects.
Answered(q) ==
    IF q.answer # "none" \/ q.step # "proofs" THEN q
    ELSE IF \E i \in DOMAIN q.proofs : q.proofs[i].stage = "bad"
         THEN [q EXCEPT !.answer = "failed"]
         ELSE IF \A i \in DOMAIN q.proofs : q.proofs[i].stage = "valid"
              THEN [q EXCEPT !.answer = "ok"]
              ELSE q

\* Promise.all over the chains.  Mutant: the first answer is enough.
AllFoundFirst(q) == q.chains = <<>> \/ DOMAIN q.found # {}

AllFound(q) == DOMAIN q.found = DOMAIN q.chains

\* With the deployments of every chain in hand, all records are asked for.
Proceed(q) ==
    IF AllFound(q)
    THEN Answered([q EXCEPT !.step = "proofs", !.proofs = Asked(Len(q.hashes))])
    ELSE q

Becomes(x, q) ==
    /\ reader' = [reader EXCEPT ![x] = q]
    /\ UNCHANGED <<vars, load>>

\* An address of the CLI or of a route is resolved to its code hash first.
Ask(x, k, c) ==
    /\ reader[x].step = "idle"
    /\ Becomes(x, [Idle EXCEPT !.kind = k, !.began = OnRecordNow,
                               !.step = IF k = "codeHash" THEN "hashes" ELSE "code",
                               !.code = IF k = "codeHash" THEN c ELSE Zero])
    /\ UNCHANGED <<cache, recent>>

\* getProofByHash on its own, the route /proofs/:proofHash.
AskProof(x, p) ==
    /\ reader[x].step = "idle"
    /\ Becomes(x, [Idle EXCEPT !.kind = "proof", !.step = "proofs",
                               !.began = OnRecordNow, !.hashes = <<p>>,
                               !.proofs = Asked(1)])
    /\ UNCHANGED <<cache, recent>>

\* resolveRuntimeBytecode; Zero is "0x", no code at the address.
ReadCode(x, c) ==
    /\ reader[x].step = "code"
    /\ reader[x].answer = "none"
    /\ Becomes(x, IF c = Zero
                  THEN [reader[x] EXCEPT !.answer = "failed"]
                  ELSE [reader[x] EXCEPT !.step = "hashes", !.code = c])
    /\ UNCHANGED <<cache, recent>>

ReadHashes(x) ==
    /\ reader[x].step = "hashes"
    /\ reader[x].answer = "none"
    /\ Becomes(x, [reader[x] EXCEPT !.step = "chains",
                                    !.hashes = proofsByCodeHash[reader[x].code]])
    /\ UNCHANGED <<cache, recent>>

\* Every id becomes a Number, and the deployments of each number are asked for at
\* once.  A number that is no uint256 cannot be encoded: Promise.all rejects.
ReadChains(x) ==
    LET q == reader[x]
        ids == chainIdsByCodeHash[q.code]
        r == [q EXCEPT !.step = "deployments",
                       !.chains = [i \in DOMAIN ids |-> Numbered[ids[i]]]]
    IN  /\ q.step = "chains"
        /\ q.answer = "none"
        /\ Becomes(x, IF Elems(r.chains) \subseteq ChainId
                      THEN Proceed(r)
                      ELSE [r EXCEPT !.answer = "failed"])
        /\ UNCHANGED <<cache, recent>>

\* The answer for place i of chains, two of which may hold one number.
ReadDeployments(x, i) ==
    LET q == reader[x]
    IN  /\ q.step = "deployments"
        /\ q.answer = "none"
        /\ i \in DOMAIN q.chains \ DOMAIN q.found
        /\ Becomes(x, Proceed([q EXCEPT !.found =
              [j \in DOMAIN q.found \cup {i} |->
                  IF j = i THEN deploymentsByCodeHash[q.code][q.chains[i]]
                  ELSE q.found[j]]]))
        /\ UNCHANGED <<cache, recent>>

Stage(q, i, s, r) ==
    Answered([q EXCEPT !.proofs[i] = [stage |-> s, record |-> r]])

Verdict(p, r) == IF Accepts(p, r) THEN "valid" ELSE "bad"

\* getRecord reverts on a hash that nobody submitted.
RecordMissing(x, i) ==
    LET q == reader[x]
    IN  /\ q.step = "proofs"
        /\ q.proofs[i].stage = "asked"
        /\ q.hashes[i] \notin proofExists
        /\ Becomes(x, Stage(q, i, "bad", NoRecord))
        /\ UNCHANGED <<cache, recent>>

\* The record arrives; the payload comes from the cache without another await,
\* or is asked for.  A lookup that has failed goes on with its other proofs.
ReadRecord(x, i) ==
    LET q == reader[x]
        r == verificationRecords[q.hashes[i]]
        hit == Served(r) /\ Has(cache, r.payload.cid)
    IN  /\ q.step = "proofs"
        /\ q.proofs[i].stage = "asked"
        /\ q.hashes[i] \in proofExists
        /\ Becomes(x, Stage(q, i, IF hit THEN Verdict(q.hashes[i], r) ELSE "fetching", r))
        /\ IF hit
           THEN /\ cache' = Get(cache, r.payload.cid)
                /\ recent' = Append(Without(recent, r.payload.cid), r.payload.cid)
           ELSE UNCHANGED <<cache, recent>>

\* The gateway answers: what it serves is cached before it is validated.
Fetched(x, i) ==
    LET q == reader[x]
        r == q.proofs[i].record
    IN  /\ q.step = "proofs"
        /\ q.proofs[i].stage = "fetching"
        /\ Becomes(x, Stage(q, i, Verdict(q.hashes[i], r), r))
        /\ IF Served(r)
           THEN /\ cache' = Set(cache, r.payload.cid, load.size)
                /\ recent' = Append(Without(recent, r.payload.cid), r.payload.cid)
           ELSE UNCHANGED <<cache, recent>>

\* A request that fails: the call is rejected, and its proofs' other requests
\* go on.
RequestFails(x) ==
    LET q == reader[x]
    IN  /\ load.failures
        /\ \/ /\ q.step \in {"code", "hashes", "chains", "deployments"}
              /\ q.answer = "none"
              /\ Becomes(x, [q EXCEPT !.answer = "failed", !.fault = TRUE])
           \/ /\ q.step = "proofs"
              /\ \E i \in DOMAIN q.proofs :
                    /\ q.proofs[i].stage \in {"asked", "fetching"}
                    /\ Becomes(x, [Stage(q, i, "bad", q.proofs[i].record)
                                     EXCEPT !.fault = TRUE])
        /\ UNCHANGED <<cache, recent>>

-----------------------------------------------------------------------------
LookupInit ==
    /\ Init
    /\ reader = [x \in Reader |-> Idle]
    /\ cache = <<>>
    /\ recent = <<>>
    /\ load \in Loads

Read(x) ==
    \/ \E k \in Kind \cap load.kinds, c \in CodeHash : Ask(x, k, c)
    \/ "proof" \in load.kinds /\ \E p \in ProofHash : AskProof(x, p)
    \/ \E c \in AnyCode : ReadCode(x, c)
    \/ ReadHashes(x)
    \/ ReadChains(x)
    \/ \E i \in DOMAIN reader[x].chains : ReadDeployments(x, i)
    \/ \E i \in DOMAIN reader[x].proofs :
          RecordMissing(x, i) \/ ReadRecord(x, i) \/ Fetched(x, i)
    \/ RequestFails(x)

LookupNext ==
    \/ /\ Next
       /\ nextIndex' =< load.logs /\ head' < load.blocks
       /\ \A e \in log' : e.body \in load.bodies
       /\ UNCHANGED lookupOnly
    \/ \E x \in load.readers : Read(x)

LookupSpec == LookupInit /\ [][LookupNext]_lookupVars

-----------------------------------------------------------------------------
\* Object.fromEntries: of the entries with one key the last is kept.
Kept(q) == {i \in DOMAIN q.found :
               \A j \in DOMAIN q.found : q.chains[j] = q.chains[i] => j =< i}

\* Number n stands for a chain id of set S on which code c is deployed.
StandsFor(n, c, S) ==
    \E k \in S : Numbered[k] = n /\ deploymentsByCodeHash[c][k] # <<>>

\* An answer is no state the registry ever had: proofs, chains and deployments
\* are read one after the other while others register.  Still it has every proof
\* that was on record when the call began, the number of every chain, and every
\* address on a chain whose id a double holds; it invents nothing, and a list is
\* empty only under the number of another chain's id.
LookupCovers ==
    \A x \in Reader :
        LET q == reader[x]
        IN  q.answer = "ok" /\ q.kind # "proof" =>
            /\ Extends(proofsByCodeHash[q.code], q.hashes)
            /\ \A p \in q.began.proofs :
                  verificationRecords[p].codeHash = q.code => p \in Elems(q.hashes)
            /\ \A t \in q.began.deployments :
                  t[1] = q.code =>
                     /\ Numbered[t[2]] \in {q.chains[i] : i \in DOMAIN q.found}
                     /\ \A i \in Kept(q) : q.chains[i] = t[2] => t[3] \in Elems(q.found[i])
            /\ \A i \in Kept(q) :
                  LET n == q.chains[i]
                  IN  /\ StandsFor(n, q.code, ChainId)
                      /\ q.found[i] = <<>> => StandsFor(n, q.code, ChainId \ {n})
                      /\ Extends(deploymentsByCodeHash[q.code][n], q.found[i])

\* On record, and resolving to a payload that says what the record says.
Faithful(p) ==
    LET r == verificationRecords[p]
    IN  /\ p \in proofExists
        /\ Served(r)
        /\ LET d == Content[r.payload.cid]
           IN  /\ d.hash = p /\ d.claimed = p
               /\ <<d.codeHash, d.version>> = <<r.codeHash, r.payload.version>>
               /\ {d.source, d.bundle} = {r.payload.source}

\* isVerified of the explorer client: a lookup of the address that names a proof.
IsVerified(q) == q.answer = "ok" /\ q.hashes # <<>>

\* Every proof of an answer is on record and resolves to a payload that matches
\* it, whoever else reads or fills the cache; isVerified says so of nothing
\* else.  A call that fails had a request fail, no code, a hash that was unknown
\* when it began, a deployment on a chain whose number is no uint256, or a proof
\* on record that does not resolve.  Any sender may register the last two: each
\* costs the bytecode all its proofs.
LookupExplained ==
    \A x \in Reader :
        LET q == reader[x]
        IN  /\ q.answer = "ok" => \A i \in DOMAIN q.hashes : Faithful(q.hashes[i])
            /\ IsVerified(q) => \E p \in ProofHash :
                                   /\ Faithful(p)
                                   /\ q.kind # "proof" =>
                                         verificationRecords[p].codeHash = q.code
            /\ q.answer = "failed" =>
                  \/ q.fault
                  \/ q.step = "code"
                  \/ /\ q.step = "deployments"
                     /\ \E k \in ChainId : /\ Numbered[k] \notin ChainId
                                           /\ deploymentsByCodeHash[q.code][k] # <<>>
                  \/ \E i \in DOMAIN q.hashes :
                        /\ q.proofs[i].stage = "bad"
                        /\ \/ q.kind = "proof" /\ q.hashes[i] \notin q.began.proofs
                           \/ q.hashes[i] \in proofExists /\ ~Faithful(q.hashes[i])

\* The cache holds the payloads used last, as many as it may, and one if it may
\* hold none: concurrent misses of one CID neither store it twice nor evict
\* another key for it.
RecentlyUsedKept ==
    LET room == IF load.size = 0 THEN 1 ELSE load.size
        n == IF Len(recent) < room THEN Len(recent) ELSE room
    IN  cache = SubSeq(recent, Len(recent) - n + 1, Len(recent))
=============================================================================

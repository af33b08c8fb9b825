------------------------------ MODULE Queries -------------------------------
(***************************************************************************)
(* What the two stores answer from the same rows, and a client that pages  *)
(* through /codehash/:codeHash/deployments while the index grows.  A batch *)
(* of the indexer is stored with no request served in between.  Rows a     *)
(* faulty batch left out are stored when a SQLite file is rescanned.       *)
(***************************************************************************)
EXTENDS Integers, Sequences, FiniteSets

CONSTANTS
    Logged,        \* the deployments in log order: code, chain, rank, block
    DefaultLimit,  \* 100, for a limit below 1
    MaxLimit       \* 1000

\* The log is ordered by block; a row's rank is its place by chain and address,
\* which no two deployments share.
ASSUME QueryAssumption ==
    /\ Logged \in Seq([code : Nat, chain : Nat, rank : Nat, block : Nat])
    /\ \A i, j \in DOMAIN Logged : Logged[i].rank = Logged[j].rank => i = j
    /\ \A i, j \in DOMAIN Logged : i < j => Logged[i].block =< Logged[j].block
    /\ MaxLimit \in Nat /\ DefaultLimit \in 1..MaxLimit

VARIABLES
    rows,     \* places in Logged, in the order the store received them
    scanned,  \* the last place whose batch is over
    store,    \* "memory", or SQLite with the order it gives a block's rows
    late,     \* history: a row was stored after another of its block, or of a later one
    pager     \* the client's state

queryVars == <<rows, scanned, store, late, pager>>

Stored == {rows[n] : n \in DOMAIN rows}

\* The elements of S in the order R, a set of pairs.
InOrder(S, R) ==
    [n \in 1..Cardinality(S) |->
        CHOOSE e \in S : Cardinality({f \in S : <<f, e>> \in R}) = n - 1]

Ascent(S)  == {p \in S \X S : p[1] < p[2]}
Descent(S) == {p \in S \X S : p[1] > p[2]}

-----------------------------------------------------------------------------
(* MemoryIndexStore: lists in the order of arrival. *)
AtPlaces(S) ==
    LET s == InOrder(S, Ascent(S)) IN [n \in DOMAIN s |-> rows[s[n]]]

MemoryByCode(c) == AtPlaces({n \in DOMAIN rows : Logged[rows[n]].code = c})

MemoryByChain(c, k) ==
    AtPlaces({n \in DOMAIN rows : Logged[rows[n]].code = c /\ Logged[rows[n]].chain = k})

\* A Set keeps the order of insertion.  Mutant: one entry for each deployment.
MemoryChainsAll(c) ==
    LET s == MemoryByCode(c) IN [n \in DOMAIN s |-> Logged[s[n]].chain]

MemoryChains(c) ==
    LET s == MemoryByCode(c)
        first == {n \in DOMAIN s : \A m \in 1..n - 1 : Logged[s[m]].chain # Logged[s[n]].chain}
        t == InOrder(first, Ascent(first))
    IN  [n \in DOMAIN t |-> Logged[s[t[n]]].chain]

MemoryRecent(limit) ==
    LET s == InOrder(DOMAIN rows,
                     {p \in (DOMAIN rows) \X (DOMAIN rows) : rows[p[1]] > rows[p[2]]})
        all == [n \in DOMAIN s |-> rows[s[n]]]
    IN  SubSeq(all, 1, IF limit < Len(all) THEN limit ELSE Len(all))

(* SqliteIndexStore.  ORDER BY block_number leaves the order within a block to
   the plan: by rowid, by the primary key, or chain by chain along
   idx_deployments_chain and by rowid within a chain. *)
Came(i, j) == \E n, m \in DOMAIN rows : n < m /\ rows[n] = i /\ rows[m] = j

InBlock(i, j) ==
    CASE store = "sqlite by key" -> Logged[i].rank < Logged[j].rank
      [] store = "sqlite by chain" ->
            \/ Logged[i].chain < Logged[j].chain
            \/ Logged[i].chain = Logged[j].chain /\ Came(i, j)
      [] OTHER -> Came(i, j)

ByBlock(S) ==
    {p \in S \X S :
        \/ Logged[p[1]].block < Logged[p[2]].block
        \/ Logged[p[1]].block = Logged[p[2]].block /\ InBlock(p[1], p[2])}

Ordered(S) == InOrder(S, ByBlock(S))

SqliteByCode(c) == Ordered({i \in Stored : Logged[i].code = c})

SqliteByChain(c, k) == Ordered({i \in Stored : Logged[i].code = c /\ Logged[i].chain = k})

SqliteChains(c) ==
    LET chains == {Logged[i].chain : i \in {j \in Stored : Logged[j].code = c}}
    IN  InOrder(chains, Ascent(chains))

SqliteRecent(limit) ==
    LET newest == {i \in Stored : Cardinality({j \in Stored : j > i}) < limit}
    IN  InOrder(newest, Descent(newest))

-----------------------------------------------------------------------------
\* The route's list; chain 0 stands for no chainId in the query.
Listed(c, k) ==
    CASE store = "memory" /\ k = 0 -> MemoryByCode(c)
      [] store = "memory" /\ k # 0 -> MemoryByChain(c, k)
      [] store # "memory" /\ k = 0 -> SqliteByCode(c)
      [] store # "memory" /\ k # 0 -> SqliteByChain(c, k)

\* parsePagination.
Limit(raw) ==
    IF raw < 1 THEN DefaultLimit ELSE IF raw > MaxLimit THEN MaxLimit ELSE raw

\* Mutant: the page's end counted from the start of the list.
PageShort(list, offset, limit) ==
    SubSeq(list, offset + 1, IF limit < Len(list) THEN limit ELSE Len(list))

Page(list, offset, limit) ==
    SubSeq(list, offset + 1,
           IF offset + limit < Len(list) THEN offset + limit ELSE Len(list))

NoPager == [step |-> "idle", code |-> 0, chain |-> 0, raw |-> 0, offset |-> 0,
            seen |-> <<>>, before |-> {}]

StartPaging(c, k, raw) ==
    /\ pager.step = "idle"
    /\ pager' = [NoPager EXCEPT !.step = "paging", !.code = c, !.chain = k, !.raw = raw,
                    !.before = {Listed(c, k)[n] : n \in DOMAIN Listed(c, k)}]
    /\ UNCHANGED <<rows, scanned, store, late>>

\* The next page begins where the answer says this one ended.
AskPage ==
    LET list == Listed(pager.code, pager.chain)
        next == pager.offset + Limit(pager.raw)
    IN  /\ pager.step = "paging"
        /\ pager' = [pager EXCEPT
              !.seen = @ \o Page(list, pager.offset, Limit(pager.raw)),
              !.offset = next,
              !.step = IF next >= Len(list) THEN "done" ELSE "paging"]
        /\ UNCHANGED <<rows, scanned, store, late>>

-----------------------------------------------------------------------------
\* A batch ends with a whole block.  A fault may keep what comes after its first
\* rows, see Indexer; the next batch goes on behind it.
Scan(last, kept) ==
    /\ last \in scanned + 1..Len(Logged)
    /\ last < Len(Logged) => Logged[last].block < Logged[last + 1].block
    /\ kept \in scanned..last
    /\ rows' = rows \o [n \in 1..kept - scanned |-> scanned + n]
    /\ scanned' = last
    /\ UNCHANGED <<store, late, pager>>

\* A process started again with FROM_BLOCK stores what is missing, batch by
\* batch, while it answers requests.
Rescan(last) ==
    LET missing == (1..last) \ Stored
    IN  /\ store # "memory"
        /\ last \in 1..scanned
        /\ missing # {}
        /\ last < scanned => Logged[last].block < Logged[last + 1].block
        /\ rows' = rows \o InOrder(missing, Ascent(missing))
        /\ late' = (late \/ \E i \in Stored, m \in missing :
                               Logged[m].block =< Logged[i].block)
        /\ UNCHANGED <<scanned, store, pager>>

QueryInit ==
    /\ rows = <<>>
    /\ scanned = 0
    /\ store \in {"memory", "sqlite by rowid", "sqlite by key", "sqlite by chain"}
    /\ late = FALSE
    /\ pager = NoPager

Codes == {Logged[i].code : i \in DOMAIN Logged}
Chains == {Logged[i].chain : i \in DOMAIN Logged}

QueryNext ==
    \/ \E last, kept \in 0..Len(Logged) : Scan(last, kept)
    \/ \E last \in DOMAIN Logged : Rescan(last)
    \/ \E c \in Codes, k \in Chains \cup {0}, raw \in 0..MaxLimit + 1 :
          StartPaging(c, k, raw)
    \/ AskPage

QuerySpec == QueryInit /\ [][QueryNext]_queryVars

-----------------------------------------------------------------------------
Seen == {pager.seen[n] : n \in DOMAIN pager.seen}

\* A client that pages to the end has seen every deployment that was there when
\* it began, though the list grew meanwhile, and none twice unless a rescan put
\* a row before the page it was at.
PagesCover ==
    pager.step = "done" =>
        /\ pager.before \subseteq Seen
        /\ ~late => Len(pager.seen) = Cardinality(Seen)

Blocks(s) == [n \in DOMAIN s |-> Logged[s[n]].block]
Members(s) == {s[n] : n \in DOMAIN s}
Same(s, t) == Members(s) = Members(t) /\ Blocks(s) = Blocks(t)

\* From rows that came in log order both stores give the same answers; the rows
\* of one block, and chains, may come in another order.
StoresAgree ==
    (\A n, m \in DOMAIN rows : n < m => rows[n] < rows[m]) =>
        /\ \A c \in Codes :
              /\ Same(MemoryByCode(c), SqliteByCode(c))
              /\ \A k \in Chains : Same(MemoryByChain(c, k), SqliteByChain(c, k))
              /\ Members(MemoryChains(c)) = Members(SqliteChains(c))
              /\ Len(MemoryChains(c)) = Len(SqliteChains(c))
        /\ \A n \in 0..Len(Logged) : MemoryRecent(n) = SqliteRecent(n)
=============================================================================

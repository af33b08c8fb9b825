-------------------------------- MODULE Feed --------------------------------
(***************************************************************************)
(* The event stream: the resolver's /events, /indexer/status and           *)
(* /indexer/recent, and one dashboard page that reads them.                *)
(*                                                                         *)
(* An event is its place in the log, one per block; a tick of the live     *)
(* sync stores and announces a run of them without serving a request in    *)
(* between, proofs before deployments.  The initial sync announces none.   *)
(* Each connect() of the page is a call k with up to one status request,   *)
(* one EventSource and one backfill; a request is read by the server in    *)
(* one step and its answer handled by the page in another.                 *)
(*                                                                         *)
(* Left out: several resolvers, restarts of the resolver, the badge, the   *)
(* filter and the text of the page.                                        *)
(***************************************************************************)
EXTENDS Integers, Sequences, FiniteSets

CONSTANTS
    MaxEvents,    \* events that are ever indexed
    Proofs,       \* which of them are proofs; the others are deployments
    RecentLimit,  \* the limit of the backfill, 50 in the code
    ListCap,      \* the length of the activity list, 200 in the code
    MaxCalls,     \* calls of connect()
    Budgets       \* the bounds of a behaviour, one of these records

ASSUME FeedAssumption ==
    /\ MaxEvents \in Nat \ {0}
    /\ Proofs \subseteq 1..MaxEvents
    /\ RecentLimit \in Nat \ {0}
    /\ ListCap \in Nat \ {0}
    /\ MaxCalls \in Nat \ {0}
    /\ Budgets \subseteq
          [events : 0..MaxEvents,     \* events indexed
           calls : 0..MaxCalls,       \* connect() calls
           failures : Nat,            \* failed requests and dropped connections
           refresh : BOOLEAN]         \* whether statistics are refreshed

Event == 1..MaxEvents
Call  == 1..MaxCalls

VARIABLES
    \* the resolver
    indexed,   \* events 1..indexed are stored; also lastBlockNumber
    live,      \* the initial sync is over
    clients,   \* sseClients
    lastBlock, \* of each client, what its last status said
    \* the network
    wire,      \* of each EventSource, what is on its way to the page
    failures,
    budget,
    \* the page
    call,      \* of each connect(), how far it got, with the answer it waits to handle
    source,    \* eventSource: the call that made it, or 0
    sse,       \* of each call, its EventSource
    fill,      \* of each call, its backfill, with its answer
    refresh,   \* refreshStats: asked for, answered or neither
    timer,     \* refreshTimer is set; its checkbox stays checked
    stats,     \* lastBlock as displayed
    list,      \* activityEvents, newest first
    \* history
    announced, \* what the live sync announced, in order
    toasted,   \* what the page announced to its user, in order
    shown,     \* events that have been in the list
    lost,      \* events stored while the page could not hear of them
    filledAt   \* what was indexed when the last backfill was read

serverVars  == <<indexed, live, clients, lastBlock>>
statsVars   == <<refresh, timer, stats>>
listVars    == <<list, toasted, shown>>
historyVars == <<announced, lost, filledAt>>
netVars     == <<failures, budget>>
feedVars == <<serverVars, wire, netVars, call, source, sse, fill, statsVars,
          listVars, historyVars>>

None == [at |-> "none", value |-> 0]
Asked == [at |-> "asked", value |-> 0]
Answered(n) == [at |-> "answered", value |-> n]
Done == [at |-> "done", value |-> 0]

Status(n) == [type |-> "status", value |-> n]
Live(e)   == [type |-> "event", value |-> e]

\* The place of an event is the number of those up to it.
Ascending(S) ==
    [i \in 1..Cardinality(S) |-> CHOOSE e \in S : Cardinality({f \in S : f =< e}) = i]

\* The events of a sequence of messages.
Carried(w) == {e \in Event : \E i \in DOMAIN w : w[i] = Live(e)}

\* recentProofs(limit) and recentDeployments(limit) when 1..n is stored.
Newest(S)  == {e \in S : Cardinality({f \in S : f > e}) < RecentLimit}
Recents(n) == Newest((1..n) \cap Proofs) \cup Newest((1..n) \ Proofs)

-----------------------------------------------------------------------------
(* The resolver *)

\* What a client is written arrives only if the page still holds the connection.
Written(c, messages) ==
    IF c \in clients /\ sse[c] = "open" THEN wire[c] \o messages ELSE wire[c]

\* broadcast() of each event of a batch to every client.
Broadcast(batch) ==
    wire' = [c \in Call |-> Written(c, [i \in DOMAIN batch |-> Live(batch[i])])]

\* The page hears of what is stored now.
Listening == source # 0 /\ sse[source] = "open"

\* A batch of the initial sync: no callback.
StoreQuietly(n) ==
    /\ ~live
    /\ n \in indexed + 1..budget.events
    /\ indexed' = n
    /\ lost' = lost \cup (indexed + 1..n)
    /\ UNCHANGED <<live, clients, lastBlock, wire, netVars, call, source, sse, fill,
                   statsVars, listVars, announced, filledAt>>

GoLive ==
    /\ ~live
    /\ live' = TRUE
    /\ UNCHANGED <<indexed, clients, lastBlock, wire, netVars, call, source, sse, fill,
                   statsVars, listVars, historyVars>>

\* A batch of a tick.
StoreAndAnnounce(n) ==
    /\ live
    /\ n \in indexed + 1..budget.events
    /\ indexed' = n
    /\ LET stored == indexed + 1..n
           batch  == Ascending(stored \cap Proofs) \o Ascending(stored \ Proofs)
       IN  /\ Broadcast(batch)
           /\ announced' = announced \o batch
           /\ lost' = IF Listening THEN lost ELSE lost \cup stored
    /\ UNCHANGED <<live, clients, lastBlock, netVars, call, source, sse, fill,
                   statsVars, listVars, filledAt>>

\* GET /events: the client is registered and told the status at once.
Register(k) ==
    /\ sse[k] = "opening"
    /\ sse' = [sse EXCEPT ![k] = "open"]
    /\ clients' = clients \cup {k}
    /\ lastBlock' = [lastBlock EXCEPT ![k] = indexed]
    /\ wire' = [wire EXCEPT ![k] = Append(@, Status(indexed))]
    /\ UNCHANGED <<indexed, live, netVars, call, source, fill, statsVars, listVars,
                   historyVars>>

\* The interval of 12 s of one client.
Poll(k) ==
    /\ k \in clients
    /\ lastBlock[k] # indexed
    /\ lastBlock' = [lastBlock EXCEPT ![k] = indexed]
    /\ wire' = [wire EXCEPT ![k] = Written(k, <<Status(indexed)>>)]
    /\ UNCHANGED <<indexed, live, clients, netVars, call, source, sse, fill, statsVars,
                   listVars, historyVars>>

\* Mutant: the close of one connection empties the set.
UnregisterAll(k) ==
    /\ clients' = {}
    /\ lastBlock' = [lastBlock EXCEPT ![k] = 0]

\* The 'close' handler of a client.
Unregister(k) ==
    /\ clients' = clients \ {k}
    /\ lastBlock' = [lastBlock EXCEPT ![k] = 0]

\* It runs some time after the page closed the connection.
Hangup(k) ==
    /\ k \in clients
    /\ sse[k] = "closed"
    /\ Unregister(k)
    /\ UNCHANGED <<indexed, live, wire, netVars, call, source, sse, fill, statsVars,
                   listVars, historyVars>>

\* The three routes read the index and answer in one step.
ServeStatus(k) ==
    /\ call[k] = Asked
    /\ call' = [call EXCEPT ![k] = Answered(indexed)]
    /\ UNCHANGED <<serverVars, wire, netVars, source, sse, fill, statsVars, listVars,
                   historyVars>>

ServeRecent(k) ==
    /\ fill[k] = Asked
    /\ fill' = [fill EXCEPT ![k] = Answered(indexed)]
    /\ UNCHANGED <<serverVars, wire, netVars, call, source, sse, statsVars, listVars,
                   historyVars>>

ServeRefresh ==
    /\ refresh = Asked
    /\ refresh' = Answered(indexed)
    /\ UNCHANGED <<serverVars, wire, netVars, call, source, sse, fill, timer,
                   stats, listVars, historyVars>>

-----------------------------------------------------------------------------
(* The page: connect() *)

Connect(k) ==
    /\ call[k] = None
    /\ k =< budget.calls
    /\ k > 1 => call[k - 1] # None
    /\ call' = [call EXCEPT ![k] = Asked]
    /\ UNCHANGED <<serverVars, wire, netVars, source, sse, fill, statsVars, listVars,
                   historyVars>>

\* Mutant: the former EventSource is left open.
ReplaceSourceOpen(k) ==
    /\ source' = k
    /\ sse' = [sse EXCEPT ![k] = "opening"]
    /\ UNCHANGED <<wire, lost>>

\* connectSSE: close the former EventSource, open another.
ReplaceSource(k) ==
    /\ source' = k
    /\ IF source = 0
       THEN /\ sse' = [sse EXCEPT ![k] = "opening"]
            /\ UNCHANGED <<wire, lost>>
       ELSE /\ sse' = [sse EXCEPT ![k] = "opening", ![source] = "closed"]
            /\ wire' = [wire EXCEPT ![source] = <<>>]
            /\ lost' = lost \cup Carried(wire[source])

\* The status came: updateStats, startAutoRefresh, connectSSE, backfillActivity.
Connected(k) ==
    /\ call[k].at = "answered"
    /\ stats' = call[k].value
    /\ call' = [call EXCEPT ![k] = Done]
    /\ timer' = TRUE
    /\ ReplaceSource(k)
    /\ fill' = [fill EXCEPT ![k] = Asked]
    /\ UNCHANGED <<serverVars, netVars, refresh, listVars, announced, filledAt>>

\* It did not: stopAutoRefresh; a former stream stays open.
ConnectFails(k) ==
    /\ call[k] = Asked
    /\ failures < budget.failures
    /\ failures' = failures + 1
    /\ call' = [call EXCEPT ![k] = Done]
    /\ timer' = FALSE
    /\ UNCHANGED <<budget, serverVars, wire, source, sse, fill, refresh, stats, listVars,
                   historyVars>>

-----------------------------------------------------------------------------
(* The page: the activity list *)

\* addActivity, the list's part: an event in the list is not added again, and
\* the oldest entry goes when there are too many.
InList(l, e) == \E i \in DOMAIN l : l[i] = e

Added(l, e) ==
    IF InList(l, e) THEN l
    ELSE <<e>> \o SubSeq(l, 1, IF Len(l) = ListCap THEN Len(l) - 1 ELSE Len(l))

\* One after the other.
AddAll(l, s) ==
    LET after[n \in 0..Len(s)] == IF n = 0 THEN l ELSE Added(after[n - 1], s[n])
    IN  after[Len(s)]

\* A message of the stream: a status, or an event with a toast.
Receive(k) ==
    /\ wire[k] # <<>>
    /\ wire' = [wire EXCEPT ![k] = Tail(@)]
    /\ LET m == Head(wire[k]) IN
       IF m.type = "status"
       THEN stats' = m.value /\ UNCHANGED listVars
       ELSE /\ list' = Added(list, m.value)
            /\ toasted' = IF InList(list, m.value) THEN toasted
                                                   ELSE Append(toasted, m.value)
            /\ shown' = shown \cup {m.value}
            /\ UNCHANGED stats
    /\ UNCHANGED <<serverVars, netVars, call, source, sse, fill, refresh, timer,
                   historyVars>>

\* backfillActivity: the answer, oldest first, without toasts.
Backfill(k) ==
    /\ fill[k].at = "answered"
    /\ fill' = [fill EXCEPT ![k] = Done]
    /\ list' = AddAll(list, Ascending(Recents(fill[k].value)))
    /\ shown' = shown \cup Recents(fill[k].value)
    /\ filledAt' = fill[k].value
    /\ UNCHANGED <<serverVars, wire, netVars, call, source, sse, statsVars, toasted,
                   announced, lost>>

\* A failed backfill is not tried again.
BackfillFails(k) ==
    /\ fill[k] = Asked
    /\ failures < budget.failures
    /\ failures' = failures + 1
    /\ fill' = [fill EXCEPT ![k] = Done]
    /\ UNCHANGED <<budget, serverVars, wire, call, source, sse, statsVars, listVars, historyVars>>

\* clearActivity, by the user.
Clear ==
    /\ list # <<>>
    /\ list' = <<>>
    /\ UNCHANGED <<serverVars, wire, netVars, call, source, sse, fill, statsVars, toasted,
                   shown, historyVars>>

\* The connection breaks: what is under way is lost, and the EventSource
\* reconnects by itself, without a backfill.
Drop(k) ==
    /\ sse[k] = "open"
    /\ failures < budget.failures
    /\ failures' = failures + 1
    /\ sse' = [sse EXCEPT ![k] = "opening"]
    /\ Unregister(k)
    /\ wire' = [wire EXCEPT ![k] = <<>>]
    /\ lost' = lost \cup Carried(wire[k])
    /\ UNCHANGED <<budget, indexed, live, call, source, fill, statsVars, listVars,
                   announced, filledAt>>

-----------------------------------------------------------------------------
(* The page: the statistics.  At most one refresh is under way at a time *)

AskRefresh ==
    /\ \E k \in Call : call[k] # None
    /\ budget.refresh
    /\ refresh = None
    /\ refresh' = Asked
    /\ UNCHANGED <<serverVars, wire, netVars, call, source, sse, fill, timer,
                   stats, listVars, historyVars>>

\* Mutant: the timer spares the request while the stream is up.
RefreshByTimerUnlessLive == timer /\ ~Listening /\ AskRefresh

RefreshByTimer == timer /\ AskRefresh

RefreshByHand == AskRefresh

Refreshed ==
    /\ refresh.at = "answered"
    /\ refresh' = None
    /\ stats' = refresh.value
    /\ UNCHANGED <<serverVars, wire, netVars, call, source, sse, fill, timer,
                   listVars, historyVars>>

RefreshFails ==
    /\ refresh = Asked
    /\ failures < budget.failures
    /\ failures' = failures + 1
    /\ refresh' = None
    /\ UNCHANGED <<budget, serverVars, wire, call, source, sse, fill, timer, stats,
                   listVars, historyVars>>

-----------------------------------------------------------------------------
FeedInit ==
    /\ indexed = 0
    /\ live = FALSE
    /\ clients = {}
    /\ lastBlock = [k \in Call |-> 0]
    /\ wire = [k \in Call |-> <<>>]
    /\ failures = 0
    /\ budget \in Budgets
    /\ call = [k \in Call |-> None]
    /\ source = 0
    /\ sse = [k \in Call |-> "none"]
    /\ fill = [k \in Call |-> None]
    /\ refresh = None
    /\ timer = FALSE
    /\ stats = 0
    /\ list = <<>>
    /\ announced = <<>>
    /\ toasted = <<>>
    /\ shown = {}
    /\ lost = {}
    /\ filledAt = 0

Store == GoLive \/ \E n \in Event : StoreQuietly(n) \/ StoreAndAnnounce(n)

Serve ==
    \/ ServeRefresh
    \/ \E k \in Call : Register(k) \/ Poll(k) \/ Hangup(k) \/ ServeStatus(k) \/ ServeRecent(k)

Handle == Refreshed \/ \E k \in Call : Connected(k) \/ Receive(k) \/ Backfill(k)

User == Clear \/ RefreshByHand \/ \E k \in Call : Connect(k)

Failure ==
    \/ RefreshFails
    \/ \E k \in Call : ConnectFails(k) \/ BackfillFails(k) \/ Drop(k)

FeedNext == Store \/ Serve \/ Handle \/ User \/ RefreshByTimer \/ Failure

FeedSpec == FeedInit /\ [][FeedNext]_feedVars

\* Timers fire, the server answers, answers arrive and are handled.
FeedFairness ==
    /\ WF_feedVars(ServeRefresh)
    /\ WF_feedVars(Refreshed)
    /\ WF_feedVars(RefreshByTimer)
    /\ \A k \in Call :
          /\ WF_feedVars(Register(k) \/ Poll(k))
          /\ WF_feedVars(ServeStatus(k))
          /\ WF_feedVars(Connected(k))
          /\ WF_feedVars(Receive(k))

FeedFairSpec == FeedSpec /\ FeedFairness

-----------------------------------------------------------------------------
\* The page announces events in the order in which the server did, each once,
\* over reconnects, several connects, backfills and clears.
IsSubsequence(s, t) ==
    \E f \in [DOMAIN s -> DOMAIN t] :
        /\ \A i \in DOMAIN s : s[i] = t[f[i]]
        /\ \A i, j \in DOMAIN s : i < j => f[i] < f[j]
ToastsInOrder == IsSubsequence(toasted, announced)

\* Once nothing is under way, an event the page has never shown was stored
\* while the page could not hear of it (by the initial sync, before the stream
\* was registered or while it was broken), and was not among the most recent
\* ones when the last backfill was read.
AtRest ==
    /\ Listening
    /\ wire[source] = <<>>
    /\ \A k \in Call : fill[k].at \in {"none", "done"}
MissingOnlyWhatWasLost ==
    AtRest => (1..indexed) \ shown \subseteq lost \ Recents(filledAt)

\* Whatever answer comes late, the statistics catch up with the index if the
\* automatic refresh stays on.
StatsCatchUp == <>[]timer => <>[](stats = indexed)
=============================================================================

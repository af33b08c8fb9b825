------------------------------ MODULE Webhooks ------------------------------
(***************************************************************************)
(* WebhookManager and its routes: subscriptions that come and go, and the  *)
(* deliveries of a dispatch, each a loop of its own over sleeps and        *)
(* requests.  Nothing in the repository calls dispatch; whoever does gets  *)
(* the results this module describes.                                      *)
(***************************************************************************)
EXTENDS Integers, Sequences, FiniteSets

CONSTANTS
    WebhookEvent,   \* the events the route accepts
    MaxRetries,
    MaxSubscribed,  \* bound: subscriptions ever made
    MaxDispatched   \* bound: dispatches

ASSUME WebhookAssumption == MaxRetries \in Nat

VARIABLES
    subscribers,  \* id -> events
    counter,
    deliveries,   \* <<dispatch, id>> -> the local variables of its loop
    enrolled,     \* history: who subscribed and did not unsubscribe
    owed          \* history: dispatch -> how many were enrolled for its event

hookVars == <<subscribers, counter, deliveries, enrolled, owed>>

\* "none": the request failed or its 10 s were over; "client": a 4xx other than
\* 429; "busy": any other answer not ok.  Only "ok" says what the receiver did with
\* the request: it, or a proxy before it, may send the others after processing it.
Reply == {"ok", "client", "busy", "none"}

Fresh == [over |-> FALSE, replies |-> <<>>, success |-> FALSE, attempts |-> 0]

\* The id ends in the counter.  Mutant: in the number of subscriptions.
NextIdSized == Cardinality(DOMAIN subscribers) + 1

NextId == counter + 1

\* POST /webhooks, with at least one event and only events it knows.
Subscribe(events) ==
    /\ counter < MaxSubscribed
    /\ events # {}
    /\ counter' = counter + 1
    /\ subscribers' = [i \in DOMAIN subscribers \cup {NextId} |->
                          IF i = NextId THEN events ELSE subscribers[i]]
    /\ enrolled' = enrolled \cup {[nth |-> counter + 1, id |-> NextId, events |-> events]}
    /\ UNCHANGED <<deliveries, owed>>

\* DELETE /webhooks/:id, which leaves the deliveries under way alone.
Unsubscribe(id) ==
    /\ id \in DOMAIN subscribers
    /\ subscribers' = [i \in DOMAIN subscribers \ {id} |-> subscribers[i]]
    /\ enrolled' = {s \in enrolled : s.id # id}
    /\ UNCHANGED <<counter, deliveries, owed>>

Targets(event) == {i \in DOMAIN subscribers : event \in subscribers[i]}

\* A delivery for each subscription of this moment.
Dispatch(event) ==
    LET d == Len(owed) + 1
        new == {<<d, i>> : i \in Targets(event)}
    IN  /\ d =< MaxDispatched
        /\ deliveries' = [k \in DOMAIN deliveries \cup new |->
                             IF k \in new THEN Fresh ELSE deliveries[k]]
        /\ owed' = Append(owed, Cardinality({s \in enrolled : event \in s.events}))
        /\ UNCHANGED <<subscribers, counter, enrolled>>

\* A 4xx other than 429 ends the loop.
GivesUp(reply) == reply = "client"

\* One turn of the loop: the sleep before a retry, the request and its reply.
\* Of a delivery given up at a 4xx, too, maxRetries + 1 attempts are reported.
Attempt(k, reply) ==
    LET d == deliveries[k]
        n == Len(d.replies) + 1
        failed == GivesUp(reply) \/ n = MaxRetries + 1
    IN  /\ ~d.over
        /\ deliveries' = [deliveries EXCEPT ![k] =
              [over |-> reply = "ok" \/ failed,
               replies |-> Append(d.replies, reply),
               success |-> reply = "ok",
               attempts |-> IF reply = "ok" THEN n
                            ELSE IF failed THEN MaxRetries + 1 ELSE 0]]
        /\ UNCHANGED <<subscribers, counter, enrolled, owed>>

HookInit ==
    /\ subscribers = <<>>
    /\ counter = 0
    /\ deliveries = <<>>
    /\ enrolled = {}
    /\ owed = <<>>

HookNext ==
    \/ \E events \in SUBSET WebhookEvent : Subscribe(events)
    \/ \E id \in 1..MaxSubscribed : Unsubscribe(id)
    \/ \E event \in WebhookEvent : Dispatch(event)
    \/ \E k \in DOMAIN deliveries, reply \in Reply : Attempt(k, reply)

HookSpec == HookInit /\ [][HookNext]_hookVars

-----------------------------------------------------------------------------
Got(d, replies) == \E n \in DOMAIN d.replies : d.replies[n] \in replies

\* A dispatch has one delivery for each subscription that stood when it began,
\* whatever was subscribed and unsubscribed before.  A delivery repeats its request
\* only after a reply that leaves it open, at most maxRetries times, and is over at
\* the first that settles it; it succeeds exactly with an ok.  What it reports is
\* the requests it made, except at a 4xx.  That a receiver processes one delivery
\* once is no part of it: the replies that are retried do not tell.
DispatchExplained ==
    /\ \A n \in DOMAIN owed :
          Cardinality({k \in DOMAIN deliveries : k[1] = n}) = owed[n]
    /\ \A k \in DOMAIN deliveries :
          LET d == deliveries[k]
              n == Len(d.replies)
          IN  /\ n =< MaxRetries + 1
              /\ \A m \in 1..n - 1 : d.replies[m] \in {"busy", "none"}
              /\ d.over <=> Got(d, {"ok", "client"}) \/ n = MaxRetries + 1
              /\ d.success <=> Got(d, {"ok"})
              /\ d.over => d.attempts = n \/ Got(d, {"client"})
=============================================================================

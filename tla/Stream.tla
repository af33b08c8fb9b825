------------------------------- MODULE Stream -------------------------------
(***************************************************************************)
(* What an index promises whoever listens to it.  An item is stored once.  *)
(* One stored while the stream is live is announced once and before the    *)
(* next is stored; only a fault that is accounted for may swallow the      *)
(* announcement.  One stored before the stream was live is not announced.  *)
(* A restart begins a new stream.  Indexer implements this specification.  *)
(***************************************************************************)
EXTENDS Sequences

CONSTANT Item

VARIABLES
    stored,     \* items of the index
    announced,  \* items in the order in which they were announced
    owed,       \* the item stored and not yet announced, if there is one
    live,       \* whether stored items are announced
    forgiven    \* items a fault is known to have taken

streamVars == <<stored, announced, owed, live, forgiven>>

StreamInit ==
    /\ stored = {}
    /\ announced = <<>>
    /\ owed = {}
    /\ live = FALSE
    /\ forgiven = {}

\* A new item, which a live stream announces at once or owes.
Store(i) ==
    /\ i \in Item \ stored
    /\ owed = {}
    /\ stored' = stored \cup {i}
    /\ \/ ~live /\ UNCHANGED <<announced, owed>>
       \/ live /\ announced' = Append(announced, i) /\ UNCHANGED owed
       \/ live /\ owed' = {i} /\ UNCHANGED announced
    /\ UNCHANGED <<live, forgiven>>

Tell(i) ==
    /\ owed = {i}
    /\ owed' = {}
    /\ announced' = Append(announced, i)
    /\ UNCHANGED <<stored, live, forgiven>>

\* A fault is accounted for, and may take what is owed.
Forgive ==
    /\ forgiven \subseteq forgiven'
    /\ \/ UNCHANGED owed
       \/ owed' = {} /\ owed \subseteq forgiven'
    /\ UNCHANGED <<stored, announced, live>>

GoLive ==
    /\ ~live
    /\ live' = TRUE
    /\ UNCHANGED <<stored, announced, owed, forgiven>>

\* The process ends: its listeners are gone, and a store it kept in memory.
Begin ==
    /\ stored' \in {stored, {}}
    /\ announced' = <<>>
    /\ owed' = {}
    /\ live' = FALSE
    /\ forgiven \subseteq forgiven'

StreamNext ==
    \/ \E i \in stored' : Store(i)
    \/ \E i \in owed : Tell(i)
    \/ Forgive
    \/ GoLive
    \/ Begin

StreamSpec == StreamInit /\ [][StreamNext]_streamVars
=============================================================================

----------------------------- MODULE BatchProofs -----------------------------
(* Theorems about Batch, for every list of targets and every number of workers. *)
EXTENDS Batch, SubmissionProofs

-----------------------------------------------------------------------------
(* The calls of the workers are calls of the SDK *)

LEMMA ItemsAreCalls == Item \subseteq Call /\ 0 \in Call /\ 0 \notin Item
BY BatchAssumption DEF Item

LEMMA CrewFits ==
    ASSUME NEW n \in 1..Concurrency
    PROVE  Crew(n) \in 0..Targets /\ Workers(n) = 1..Crew(n) /\ Workers(n) \subseteq Item
BY BatchAssumption DEF Crew, Workers, Item

LEMMA PropagationIsCall ==
    ASSUME NEW target \in ChainId \X Address, NEW s \in Sender
    PROVE  LET r == Propagation(target, s)
           IN  /\ r \in CallState
               /\ r.op = "propagate" /\ r.step = "readCode" /\ r.outcome = "none"
               /\ r.chain = target[1] /\ r.address = target[2] /\ r.sender = s
               /\ r.expected = Zero
               /\ r.chain \in ChainId /\ r.address \in Address
BY MaxTimeAssumption DEF Propagation, Started, CallState, Step, Outcome

\* A step that starts calls, or hands a target to one, and does no more.
StartsCalls ==
    /\ UNCHANGED <<registryVars, offChain, mempool>>
    /\ call' \in [Call -> CallState]
    /\ \A y \in Call :
          \/ call'[y] = call[y]
          \/ /\ call[y].step = "idle"
             /\ call'[y].op = "propagate"
             /\ call'[y].step \in {"idle", "readCode"}
             /\ call'[y].outcome = "none"
             /\ call'[y].chain \in ChainId
             /\ call'[y].address \in Address
             /\ call'[y].sender \in Sender

LEMMA StartsTypes ==
    ASSUME SubTypes, StartsCalls
    PROVE  SubTypes'
<1>1. \A y \in Call : Carries(y)'
      BY DEF SubTypes, StartsCalls, Carries
<1>2. \A t \in pool : t.call \in Call /\ call'[t.call] = call[t.call]
      BY DEF SubTypes, PoolTyped, Tx, StartsCalls
<1>3. PoolTyped'
      BY <1>2 DEF SubTypes, PoolTyped, StartsCalls, mempool
<1> QED
    BY <1>1, <1>3 DEF SubTypes, StartsCalls, CallsTyped, offChain, mempool

LEMMA StartsTruth ==
    ASSUME SubTypes, TypeOK, TruthInv, StartsCalls
    PROVE  TruthInv'
BY QuietTruth DEF StartsCalls, offChain, mempool

\* The initial value of the calls of the list, and what a worker's step does
\* to the next of them.
LEMMA BeginStarts ==
    ASSUME SubTypes, \A i \in Item : call[i].step = "idle",
           NEW f \in Lists, NEW s \in Sender, NEW n \in 1..Concurrency, Begin(f, s, n)
    PROVE  /\ StartsCalls
           /\ \A i \in Item :
                 /\ call'[i].step = IF i \in Workers(n) THEN "readCode" ELSE "idle"
                 /\ call'[i].op = "propagate" /\ call'[i].outcome = "none"
                 /\ call'[i].chain = f[i][1] /\ call'[i].address = f[i][2]
                 /\ call'[i].sender = s /\ call'[i].expected = Zero
           /\ call'[0] = call[0]
<1>1. \A i \in Item : f[i] \in ChainId \X Address
      BY BatchAssumption DEF Item
<1>2. call' = [x \in Call |->
                  IF x \in Workers(n) THEN Propagation(f[x], s)
                  ELSE IF x \in Item
                       THEN [Propagation(f[x], s) EXCEPT !.step = "idle"]
                       ELSE call[x]]
      BY DEF Begin
<1>3. ASSUME NEW i \in Item
      PROVE  /\ call'[i] \in CallState
             /\ call'[i].step = IF i \in Workers(n) THEN "readCode" ELSE "idle"
             /\ call'[i].op = "propagate" /\ call'[i].outcome = "none"
             /\ call'[i].chain = f[i][1] /\ call'[i].address = f[i][2]
             /\ call'[i].sender = s /\ call'[i].expected = Zero
             /\ call'[i].chain \in ChainId /\ call'[i].address \in Address
  <2> DEFINE r == Propagation(f[i], s)
  <2>1. /\ r \in CallState
        /\ r.op = "propagate" /\ r.step = "readCode" /\ r.outcome = "none"
        /\ r.chain = f[i][1] /\ r.address = f[i][2] /\ r.sender = s /\ r.expected = Zero
        /\ r.chain \in ChainId /\ r.address \in Address
        BY <1>1, PropagationIsCall
  <2>2. call'[i] = IF i \in Workers(n) THEN r ELSE [r EXCEPT !.step = "idle"]
        BY <1>2, ItemsAreCalls
  <2> HIDE DEF r
  <2>3. [r EXCEPT !.step = "idle"] \in CallState
        BY <2>1 DEF CallState, Step
  <2> QED
      BY <2>1, <2>2, <2>3 DEF CallState
<1>4. \A x \in Call : x \notin Item => call'[x] = call[x]
      BY <1>2, CrewFits
<1>5. call' \in [Call -> CallState]
  <2>1. \A x \in Call : call'[x] \in CallState
        BY <1>3, <1>4 DEF SubTypes, CallsTyped
  <2> QED
      BY <1>2, <2>1
<1>6. StartsCalls
      BY <1>3, <1>4, <1>5 DEF StartsCalls, Begin
<1> QED
    BY <1>3, <1>4, <1>6, ItemsAreCalls

\* What a step of the calls and the world may do to the propagations.
LEMMA CallsKeep ==
    ASSUME SubTypes, Calls, NEW i \in Item
    PROVE  /\ SameCall(i)
           /\ call[i].step \in {"idle", "done"} => call'[i] = call[i]
           /\ call[i].step # "idle" => call'[i].step # "idle"
<1>0. i \in Call /\ i # 0 /\ 0 \in Call
      BY ItemsAreCalls
<1>1. CASE \E t \in Task : Verifying(t)
  <2>1. call'[i] = call[i]
        BY <1>0, <1>1 DEF Verifying, Start, SubTypes, CallsTyped
  <2> QED
      BY <2>1 DEF SameCall
<1>2. ASSUME NEW x \in Call, Advance(x) \/ IoError(x)
      PROVE  /\ SameCall(i)
             /\ call[i].step \in {"idle", "done"} => call'[i] = call[i]
             /\ call[i].step # "idle" => call'[i].step # "idle"
  <2>1. Moves(x)
        BY <1>2, AdvanceTypes
  <2>2. call[x].step \notin {"idle", "done"}
        BY <1>2 DEF Advance, IoError, Inspect, Pin, ReadNonce, SendProof, ReadCode,
                    CheckProofs, SendDeployment, Reread, IsAt
  <2>3. CASE i = x
        BY <2>1, <2>2, <2>3 DEF Moves
  <2>4. CASE i # x
        BY <1>0, <2>1, <2>4 DEF Moves, OthersSame, SameCall
  <2> QED
      BY <2>3, <2>4
<1>3. ASSUME NEW t \in pool, MineProof(t) \/ MineDeployment(t)
      PROVE  /\ SameCall(i)
             /\ call[i].step \in {"idle", "done"} => call'[i] = call[i]
             /\ call[i].step # "idle" => call'[i].step # "idle"
  <2>1. /\ SameFields(i)
        /\ call'[i].step \in {call[i].step, "done"}
        /\ i # t.call => call'[i] = call[i]
        BY <1>0, <1>3, MineCalls
  <2>2. call[t.call].step \in {"proofWait", "deployWait", "done"}
        BY DEF SubTypes, PoolTyped
  <2>3. call[t.call].step = "done" => call' = call
        BY <1>3 DEF MineProof, MineDeployment, Settle, IsAt
  <2> QED
      BY <2>1, <2>2, <2>3 DEF SameFields
<1>4. CASE World
      BY <1>4 DEF World, Reanchor, DeployContract, Tick, SameCall
<1> QED
    BY <1>1, <1>2, <1>3, <1>4 DEF Calls, Mine

-----------------------------------------------------------------------------
(* Queue, workers and results *)

\* How many targets were taken: the first so many of the list.
Dispatched == Targets - Len(queue)

Listed ==
    \A i \in Item :
        /\ call[i].op = "propagate"
        /\ call[i].chain \in ChainId
        /\ call[i].address \in Address
        /\ call[i].sender \in Sender
        /\ call[i].expected = Zero

QueueInOrder ==
    /\ queue \in Seq(Item)
    /\ Len(queue) =< Targets
    /\ \A n \in 1..Len(queue) : queue[n] = Dispatched + n
    /\ \A i \in Item : i > Dispatched => call[i].step = "idle"

HandsApart ==
    /\ doing \in [Worker -> 0..Targets]
    /\ \A v, w \in Worker : doing[v] = doing[w] /\ doing[v] # 0 => v = w
    /\ \A w \in Worker : doing[w] =< Dispatched

\* A result is of a call that has ended, and is the only one of its target.
ResultsFinal ==
    /\ results \in Seq(Item \X BOOLEAN)
    /\ \A n \in 1..Len(results) :
          LET i == results[n][1]
          IN  /\ i =< Dispatched
              /\ call[i].step = "done"
              /\ results[n][2] = Succeeded(i)
              /\ \A w \in Worker : doing[w] # i
              /\ \A m \in 1..Len(results) : results[m][1] = i => m = n

NoneLost ==
    \A i \in Item :
        i =< Dispatched => \/ \E w \in Worker : doing[w] = i
                           \/ \E n \in 1..Len(results) : results[n][1] = i

\* A worker returns only when nothing is left to take.
RestAtTheEnd == Worker = {} \/ (\E w \in Worker : doing[w] = 0) => Len(queue) = 0

WorkInv ==
    Listed /\ QueueInOrder /\ HandsApart /\ ResultsFinal /\ NoneLost /\ RestAtTheEnd

BatchInv ==
    /\ phase \in {"before", "running", "answered"}
    /\ phase = "before" => /\ queue = <<>> /\ doing = <<>> /\ results = <<>>
                           /\ \A i \in Item : call[i].step = "idle"
    /\ phase # "before" => WorkInv
    /\ phase = "answered" => \A w \in Worker : doing[w] = 0

LEMMA CallsKeepWork ==
    ASSUME SubTypes, WorkInv, Calls
    PROVE  WorkInv'
<1>1. /\ UNCHANGED <<queue, doing, results, phase>>
      /\ Worker' = Worker /\ Dispatched' = Dispatched
      BY DEF Calls, batchOnly, Worker, Dispatched
<1>2. \A i \in Item :
         /\ SameCall(i)
         /\ call[i].step \in {"idle", "done"} => call'[i] = call[i]
      BY CallsKeep
<1>3. Listed'
      BY <1>2 DEF WorkInv, Listed, SameCall
<1>4. QueueInOrder'
  <2>1. \A i \in Item : call[i].step = "idle" => call'[i].step = "idle"
        BY <1>2
  <2> QED
      BY <1>1, <2>1 DEF WorkInv, QueueInOrder
<1>5. HandsApart' /\ NoneLost' /\ RestAtTheEnd'
      BY <1>1 DEF WorkInv, HandsApart, NoneLost, RestAtTheEnd
<1>6. ResultsFinal'
  <2>1. ASSUME NEW n \in 1..Len(results)
        PROVE  /\ call'[results[n][1]].step = "done"
               /\ results[n][2] = (call'[results[n][1]].outcome = "propagated")
    <3>1. /\ results[n][1] \in Item /\ call[results[n][1]].step = "done"
          /\ results[n][2] = (call[results[n][1]].outcome = "propagated")
          BY DEF WorkInv, ResultsFinal, Succeeded
    <3>2. call'[results[n][1]] = call[results[n][1]]
          BY <1>2, <3>1
    <3> QED
        BY <3>1, <3>2
  <2> QED
      BY <1>1, <2>1 DEF WorkInv, ResultsFinal, Succeeded
<1> QED
    BY <1>3, <1>4, <1>5, <1>6 DEF WorkInv

\* The workers take the first targets, the rest is queued in order.
LEMMA RestOfList ==
    ASSUME NEW m \in 0..Targets
    PROVE  LET q == SubSeq([i \in Item |-> i], m + 1, Targets)
           IN  /\ q \in Seq(Item)
               /\ Len(q) = Targets - m
               /\ \A n \in 1..Len(q) : q[n] = m + n
<1> DEFINE list == [i \in Item |-> i]
<1>1. list \in Seq(Item) /\ Len(list) = Targets /\ \A i \in Item : list[i] = i
      BY BatchAssumption DEF Item
<1> HIDE DEF list
<1>2. m \in Nat /\ Targets \in Nat /\ m =< Targets
      BY BatchAssumption
<1>3. /\ SubSeq(list, m + 1, Targets) \in Seq(Item)
      /\ Len(SubSeq(list, m + 1, Targets)) = Targets - m
      /\ \A n \in 1..(Targets - m) : SubSeq(list, m + 1, Targets)[n] = list[m + n]
      BY <1>1, <1>2, SubSeqProperties
<1>4. \A n \in 1..(Targets - m) : list[m + n] = m + n
      BY <1>1, <1>2 DEF Item
<1> QED
    BY <1>3, <1>4 DEF list

LEMMA BeginWork ==
    ASSUME SubTypes, BatchInv, NEW f \in Lists, NEW s \in Sender, NEW n \in 1..Concurrency,
           Begin(f, s, n)
    PROVE  WorkInv' /\ StartsCalls /\ phase' = "running"
<1>1. /\ \A i \in Item : call[i].step = "idle"
      /\ results = <<>> /\ results' = results
      /\ doing' = [w \in Workers(n) |-> w] /\ phase' = "running"
      /\ queue' = SubSeq([i \in Item |-> i], Crew(n) + 1, Targets)
      BY DEF Begin, BatchInv
<1>2. /\ Crew(n) \in 0..Targets /\ Workers(n) = 1..Crew(n) /\ Workers(n) \subseteq Item
      /\ Targets \in Nat
      BY CrewFits, BatchAssumption
<1>3. /\ queue' \in Seq(Item)
      /\ Len(queue') = Targets - Crew(n)
      /\ \A m \in 1..Len(queue') : queue'[m] = Crew(n) + m
      BY <1>1, <1>2, RestOfList
<1>4. Dispatched' = Crew(n) /\ Worker' = Workers(n)
      BY <1>1, <1>2, <1>3 DEF Dispatched, Worker
<1>5. StartsCalls /\ Listed'
      /\ \A i \in Item : call'[i].step = IF i \in Workers(n) THEN "readCode" ELSE "idle"
  <2>1. \A i \in Item : f[i] \in ChainId \X Address
        BY BatchAssumption DEF Item
  <2> QED
      BY <1>1, <2>1, BeginStarts DEF Listed
<1>6. QueueInOrder'
      BY <1>2, <1>3, <1>4, <1>5 DEF QueueInOrder, Item
<1>7. HandsApart'
      BY <1>1, <1>2, <1>4 DEF HandsApart
<1>8. ResultsFinal'
      BY <1>1 DEF ResultsFinal
<1>9. NoneLost'
      BY <1>1, <1>2, <1>4 DEF NoneLost, Item
<1>10. RestAtTheEnd'
  <2>1. \A w \in Worker' : doing'[w] # 0
        BY <1>1, <1>2, <1>4
  <2>2. Worker' = {} => Crew(n) = 0
        BY <1>2, <1>4
  <2>3. Crew(n) = 0 => Targets = 0
        BY <1>2, BatchAssumption DEF Crew
  <2> QED
      BY <1>2, <1>3, <2>1, <2>2, <2>3 DEF RestAtTheEnd
<1> QED
    BY <1>1, <1>5, <1>6, <1>7, <1>8, <1>9, <1>10 DEF WorkInv

\* What a worker takes is the first target of the queue, whose call nobody
\* started, or nothing when the queue is empty.
LEMMA TakeNext ==
    ASSUME SubTypes, WorkInv, NEW w \in Worker, Take(w)
    PROVE  \/ /\ Len(queue) = 0
              /\ queue' = queue /\ call' = call
              /\ doing' = [doing EXCEPT ![w] = 0]
           \/ /\ Len(queue) > 0
              /\ Dispatched + 1 \in Item
              /\ call[Dispatched + 1].step = "idle"
              /\ call' = [call EXCEPT ![Dispatched + 1].step = "readCode"]
              /\ doing' = [doing EXCEPT ![w] = Dispatched + 1]
              /\ queue' \in Seq(Item)
              /\ Len(queue') = Len(queue) - 1
              /\ \A n \in 1..Len(queue') : queue'[n] = Dispatched + 1 + n
<1>1. /\ queue \in Seq(Item) /\ Len(queue) \in Nat /\ Len(queue) =< Targets
      /\ Targets \in Nat
      /\ \A n \in 1..Len(queue) : queue[n] = Dispatched + n
      /\ \A i \in Item : i > Dispatched => call[i].step = "idle"
      BY BatchAssumption DEF WorkInv, QueueInOrder
<1>2. CASE queue = <<>>
      BY <1>2 DEF Take
<1>3. CASE queue # <<>>
  <2>1. /\ Len(queue) > 0
        /\ Head(queue) = queue[1]
        /\ Tail(queue) \in Seq(Item)
        /\ Len(Tail(queue)) = Len(queue) - 1
        /\ \A n \in 1..(Len(queue) - 1) : Tail(queue)[n] = queue[n + 1]
        BY <1>1, <1>3, HeadTailProperties
  <2>2. Head(queue) = Dispatched + 1 /\ Dispatched + 1 \in Item
        BY <1>1, <2>1 DEF Dispatched, Item
  <2>3. call[Dispatched + 1].step = "idle"
        BY <1>1, <2>2 DEF Dispatched, Item
  <2>4. \A n \in 1..(Len(queue) - 1) : queue[n + 1] = Dispatched + 1 + n
        BY <1>1 DEF Dispatched
  <2> QED
      BY <1>3, <2>1, <2>2, <2>3, <2>4 DEF Take
<1> QED
    BY <1>2, <1>3

LEMMA TakeStarts ==
    ASSUME SubTypes, WorkInv, NEW w \in Worker, Take(w),
           UNCHANGED <<registryVars, offChain, mempool>>
    PROVE  StartsCalls /\ Listed'
<1>1. CASE Len(queue) = 0
  <2>1. call' = call
        BY <1>1, TakeNext
  <2> QED
      BY <2>1 DEF StartsCalls, Listed, WorkInv, SubTypes, CallsTyped
<1>2. CASE Len(queue) > 0
  <2>1. /\ Dispatched + 1 \in Item /\ call[Dispatched + 1].step = "idle"
        /\ call' = [call EXCEPT ![Dispatched + 1].step = "readCode"]
        BY <1>2, TakeNext
  <2>2. PICK h \in Item : h = Dispatched + 1
        BY <2>1
  <2>3. /\ h \in Call /\ call[h].step = "idle" /\ call[h].outcome = "none"
        /\ call[h] \in CallState
        /\ call' = [call EXCEPT ![h] = [call[h] EXCEPT !.step = "readCode"]]
        BY <2>1, <2>2, ItemsAreCalls DEF SubTypes, CallsTyped, Carries
  <2>4. [call[h] EXCEPT !.step = "readCode"] \in CallState
        BY <2>3 DEF CallState, Step
  <2>5. /\ call' \in [Call -> CallState]
        /\ \A y \in Call : y # h => call'[y] = call[y]
        /\ SameCall(h) /\ call'[h].step = "readCode" /\ call'[h].outcome = "none"
        BY <2>3, <2>4 DEF SubTypes, CallsTyped, CallState, SameCall
  <2>6. Listed'
        BY <2>5, ItemsAreCalls DEF WorkInv, Listed, SameCall
  <2>7. /\ call'[h].op = "propagate" /\ call'[h].chain \in ChainId
        /\ call'[h].address \in Address /\ call'[h].sender \in Sender
        BY <2>6 DEF Listed
  <2> QED
      BY <2>3, <2>5, <2>6, <2>7 DEF StartsCalls
<1> QED
    BY <1>1, <1>2 DEF WorkInv, QueueInOrder

LEMMA CollectWork ==
    ASSUME SubTypes, WorkInv, NEW w \in Item, Collect(w)
    PROVE  WorkInv' /\ StartsCalls
<1>0. /\ w \in Worker /\ doing[w] # 0 /\ call[doing[w]].step = "done"
      /\ Push(doing[w]) /\ Take(w)
      /\ UNCHANGED <<registryVars, offChain, mempool, phase, ready>>
      BY DEF Collect
<1>1. StartsCalls /\ Listed'
      BY <1>0, TakeStarts
<1> DEFINE i == doing[w]
           N == Len(results)
<1>2. i \in Item /\ i =< Dispatched /\ Dispatched \in Nat /\ Len(queue) \in Nat
      /\ Targets \in Nat
      BY <1>0, BatchAssumption DEF WorkInv, HandsApart, QueueInOrder, Dispatched, Item
<1>3. \E g \in 0..Targets :
         /\ doing' = [doing EXCEPT ![w] = g]
         /\ \/ g = 0 /\ Len(queue) = 0 /\ Dispatched' = Dispatched
            \/ g = Dispatched + 1 /\ Dispatched' = g
         /\ \A j \in Item : j =< Dispatched \/ j > Dispatched' => call'[j] = call[j]
         /\ queue' \in Seq(Item) /\ Len(queue') =< Targets
         /\ \A n \in 1..Len(queue') : queue'[n] = Dispatched' + n
         /\ Len(queue) = 0 => Len(queue') = 0
  <2>1. CASE Len(queue) = 0
    <3>1. queue' = queue /\ call' = call /\ doing' = [doing EXCEPT ![w] = 0]
          BY <1>0, <2>1, TakeNext
    <3>2. 0 \in 0..Targets
          BY <1>2
    <3>3. Dispatched' = Dispatched /\ Len(queue') = 0 /\ Len(queue') =< Targets
          BY <1>2, <2>1, <3>1 DEF Dispatched
    <3>4. queue' \in Seq(Item) /\ \A n \in 1..Len(queue') : queue'[n] = Dispatched' + n
          BY <3>1, <3>3 DEF WorkInv, QueueInOrder
    <3> QED
        BY <2>1, <3>1, <3>2, <3>3, <3>4
  <2>2. CASE Len(queue) > 0
    <3>1. /\ Dispatched + 1 \in Item
          /\ call' = [call EXCEPT ![Dispatched + 1].step = "readCode"]
          /\ doing' = [doing EXCEPT ![w] = Dispatched + 1]
          /\ queue' \in Seq(Item)
          /\ Len(queue') = Len(queue) - 1
          /\ \A n \in 1..Len(queue') : queue'[n] = Dispatched + 1 + n
          BY <1>0, <2>2, TakeNext
    <3>2. Dispatched' = Dispatched + 1 /\ Dispatched + 1 \in 0..Targets
          BY <1>2, <3>1 DEF Dispatched, Item
    <3>3. \A j \in Item : j # Dispatched + 1 => call'[j] = call[j]
          BY <3>1, ItemsAreCalls DEF SubTypes, CallsTyped
    <3>4. \A j \in Item : j =< Dispatched \/ j > Dispatched' => call'[j] = call[j]
          BY <1>2, <3>2, <3>3 DEF Item
    <3>5. Len(queue') =< Targets
          BY <1>2, <3>1 DEF WorkInv, QueueInOrder
    <3>6. /\ \A n \in 1..Len(queue') : queue'[n] = Dispatched' + n
          /\ Len(queue) # 0
          BY <2>2, <3>1, <3>2
    <3>7. Dispatched + 1 \in 0..Targets
          BY <3>2
    <3> HIDE DEF i, N
    <3> WITNESS Dispatched + 1 \in 0..Targets
    <3> QED
        BY <3>1, <3>2, <3>4, <3>5, <3>6
  <2> QED
      BY <1>2, <2>1, <2>2
<1>4. PICK g \in 0..Targets :
         /\ doing' = [doing EXCEPT ![w] = g]
         /\ \/ g = 0 /\ Len(queue) = 0 /\ Dispatched' = Dispatched
            \/ g = Dispatched + 1 /\ Dispatched' = g
         /\ \A j \in Item : j =< Dispatched \/ j > Dispatched' => call'[j] = call[j]
         /\ queue' \in Seq(Item) /\ Len(queue') =< Targets
         /\ \A n \in 1..Len(queue') : queue'[n] = Dispatched' + n
         /\ Len(queue) = 0 => Len(queue') = 0
      BY <1>3
<1>5. /\ doing \in [Worker -> 0..Targets] /\ Worker' = Worker
      /\ doing' \in [Worker -> 0..Targets]
      /\ doing'[w] = g
      /\ \A v \in Worker : v # w => doing'[v] = doing[v] /\ doing'[v] # i
      BY <1>0, <1>4 DEF WorkInv, HandsApart, Worker
<1>6. /\ N \in Nat /\ Len(results') = N + 1
      /\ results' \in Seq(Item \X BOOLEAN)
      /\ \A n \in 1..N : results'[n] = results[n]
      /\ results'[N + 1] = <<i, Succeeded(i)>>
  <2>1. results \in Seq(Item \X BOOLEAN) /\ <<i, Succeeded(i)>> \in Item \X BOOLEAN
        BY <1>2 DEF WorkInv, ResultsFinal, Succeeded
  <2>2. results' = Append(results, <<i, Succeeded(i)>>)
        BY <1>0 DEF Push
  <2> QED
      BY <2>1, <2>2, AppendProperties, LenProperties
<1>7. Dispatched' \in Nat /\ Dispatched' >= Dispatched /\ Dispatched' \in {Dispatched, Dispatched + 1}
      BY <1>2, <1>4
<1>8. QueueInOrder'
  <2>1. \A j \in Item : j > Dispatched' => j > Dispatched
        BY <1>2, <1>7 DEF Item
  <2> QED
      BY <1>4, <2>1 DEF WorkInv, QueueInOrder
<1> HIDE DEF i, N
<1>9. HandsApart'
  <2>1. \A v \in Worker : v # w => doing[v] =< Dispatched /\ doing[v] \in Nat
        BY <1>5 DEF WorkInv, HandsApart
  <2>2. \A v \in Worker : v # w => doing'[v] # g \/ g = 0
        BY <1>2, <1>4, <1>5, <2>1
  <2>3. \A v \in Worker : doing'[v] =< Dispatched'
        BY <1>2, <1>4, <1>5, <1>7, <2>1
  <2>4. \A u, v \in Worker : u # w /\ v # w /\ doing'[u] = doing'[v] /\ doing'[u] # 0 => u = v
        BY <1>5 DEF WorkInv, HandsApart
  <2>5. \A u, v \in Worker : doing'[u] = doing'[v] /\ doing'[u] # 0 => u = v
        BY <1>5, <2>2, <2>4
  <2> QED
      BY <1>5, <2>3, <2>5 DEF HandsApart
<1>10. i = doing[w]
      BY DEF i
<1>11. ResultsFinal'
  <2> SUFFICES ASSUME NEW n \in 1..(N + 1)
               PROVE  /\ results'[n][1] =< Dispatched'
                      /\ call'[results'[n][1]].step = "done"
                      /\ results'[n][2] = (call'[results'[n][1]].outcome = "propagated")
                      /\ \A v \in Worker : doing'[v] # results'[n][1]
                      /\ \A m \in 1..(N + 1) : results'[m][1] = results'[n][1] => m = n
      BY <1>5, <1>6 DEF ResultsFinal, Succeeded
  <2>1. \A m \in 1..N : /\ results[m][1] \in Item
                        /\ results[m][1] =< Dispatched
                        /\ results[m][1] # i
                        /\ call[results[m][1]].step = "done"
                        /\ results[m][2] = (call[results[m][1]].outcome = "propagated")
                        /\ \A v \in Worker : doing[v] # results[m][1]
                        /\ \A k \in 1..N : results[k][1] = results[m][1] => k = m
        BY <1>0, <1>10 DEF WorkInv, ResultsFinal, Succeeded, N
  <2>2. CASE n \in 1..N
    <3>1. results'[n] = results[n] /\ results[n][1] \in Item /\ results[n][1] =< Dispatched
          BY <1>6, <2>1, <2>2
    <3>2. call'[results[n][1]] = call[results[n][1]]
          BY <1>4, <3>1
    <3>3. \A v \in Worker : doing'[v] # results[n][1]
      <4>1. g # results[n][1]
            BY <1>2, <1>4, <3>1 DEF Item
      <4> QED
          BY <1>5, <2>1, <2>2, <4>1
    <3>4. \A m \in 1..(N + 1) : results'[m][1] = results'[n][1] => m = n
          BY <1>6, <2>1, <2>2
    <3>5. results[n][1] =< Dispatched'
          BY <1>2, <1>7, <3>1 DEF Item
    <3> QED
        BY <2>1, <2>2, <3>1, <3>2, <3>3, <3>4, <3>5
  <2>3. CASE n = N + 1
    <3>1. results'[n] = <<i, Succeeded(i)>> /\ results'[n][1] = i
          BY <1>6, <2>3
    <3>2. call'[i] = call[i]
          BY <1>2, <1>4
    <3>3. \A v \in Worker : doing'[v] # i
      <4>1. g # i
            BY <1>2, <1>4 DEF Item
      <4> QED
          BY <1>5, <4>1
    <3>4. \A m \in 1..(N + 1) : results'[m][1] = i => m = n
          BY <1>6, <2>1, <2>3
    <3>5. i =< Dispatched'
          BY <1>2, <1>7 DEF Item
    <3> QED
        BY <1>0, <1>10, <3>1, <3>2, <3>3, <3>4, <3>5 DEF Succeeded
  <2> QED
      BY <1>6, <2>2, <2>3
<1>12. NoneLost'
  <2> SUFFICES ASSUME NEW j \in Item, j =< Dispatched'
               PROVE  \/ \E v \in Worker : doing'[v] = j
                      \/ \E n \in 1..(N + 1) : results'[n][1] = j
      BY <1>5, <1>6 DEF NoneLost
  <2>1. CASE j = g
        BY <1>0, <1>5, <2>1
  <2>2. CASE j = i
        BY <1>6, <2>2
  <2>3. CASE j # g /\ j # i
    <3>1. j =< Dispatched
          BY <1>2, <1>4, <2>3 DEF Item
    <3>2. \/ \E v \in Worker : doing[v] = j
          \/ \E n \in 1..N : results[n][1] = j
          BY <3>1 DEF WorkInv, NoneLost, N
    <3>3. CASE \E v \in Worker : doing[v] = j
      <4>1. PICK v \in Worker : doing[v] = j
            BY <3>3
      <4>2. v # w
            BY <1>10, <2>3, <4>1
      <4> QED
          BY <1>5, <4>1, <4>2
    <3>4. CASE \E n \in 1..N : results[n][1] = j
          BY <1>6, <3>4
    <3> QED
        BY <3>2, <3>3, <3>4
  <2> QED
      BY <2>1, <2>2, <2>3
<1>13. RestAtTheEnd'
  <2>1. CASE Len(queue) = 0
        BY <1>4, <2>1 DEF RestAtTheEnd
  <2>2. CASE Len(queue) # 0
    <3>1. g # 0
          BY <1>4, <2>2, <1>2
    <3>2. \A v \in Worker : doing[v] # 0
          BY <2>2 DEF WorkInv, RestAtTheEnd
    <3>3. \A v \in Worker : doing'[v] # 0
          BY <1>5, <3>1, <3>2
    <3> QED
        BY <1>0, <1>5, <3>3 DEF RestAtTheEnd
  <2> QED
      BY <2>1, <2>2
<1> QED
    BY <1>1, <1>8, <1>9, <1>11, <1>12, <1>13 DEF WorkInv

\* One step of the batch keeps its invariant, and is for the calls below it
\* either a step of Submission or one that only starts some of them.
LEMMA BatchStep ==
    ASSUME SubTypes, BatchInv, [Batching \/ Calls]_batchVars
    PROVE  BatchInv' /\ (StartsCalls \/ [SubNext]_subVars)
<1>1. ASSUME NEW f \in Lists, NEW s \in Sender, NEW n \in 1..Concurrency, Begin(f, s, n)
      PROVE  BatchInv' /\ StartsCalls
      BY <1>1, BeginWork DEF BatchInv
<1>2. ASSUME NEW w \in Item, Collect(w)
      PROVE  BatchInv' /\ StartsCalls
  <2>1. phase = "running" /\ phase' = "running" /\ WorkInv
        BY <1>2 DEF Collect, BatchInv
  <2> QED
      BY <1>2, <2>1, CollectWork DEF BatchInv
<1>3. CASE Answer
  <2>1. /\ UNCHANGED <<call, queue, doing, results>> /\ Worker' = Worker
        /\ Dispatched' = Dispatched
        /\ phase = "running" /\ phase' = "answered"
        /\ \A w \in Worker : doing[w] = 0
        BY <1>3 DEF Answer, subVars, Worker, Dispatched
  <2>2. WorkInv
        BY <2>1 DEF BatchInv
  <2>3. WorkInv'
        BY <2>1, <2>2 DEF WorkInv, Listed, QueueInOrder, HandsApart, ResultsFinal, Succeeded,
                          NoneLost, RestAtTheEnd
  <2> QED
      BY <1>3, <2>1, <2>3 DEF BatchInv, Answer
<1>4. CASE Calls
  <2>1. UNCHANGED <<queue, doing, results, phase>> /\ Worker' = Worker
        BY <1>4 DEF Calls, batchOnly, Worker
  <2>2. SubNext
        BY <1>4, ItemsAreCalls DEF Calls, Verifying, SubNext
  <2>3. phase = "before" => \A i \in Item : call'[i].step = "idle"
        BY <1>4, CallsKeep DEF BatchInv
  <2>4. phase # "before" => WorkInv'
        BY <1>4, CallsKeepWork DEF BatchInv
  <2> QED
      BY <2>1, <2>2, <2>3, <2>4 DEF BatchInv
<1>5. CASE UNCHANGED batchVars
  <2>1. UNCHANGED <<call, queue, doing, results, phase>> /\ Worker' = Worker
        /\ Dispatched' = Dispatched
        BY <1>5 DEF batchVars, batchOnly, subVars, Worker, Dispatched
  <2>2. BatchInv'
        BY <2>1 DEF BatchInv, WorkInv, Listed, QueueInOrder, HandsApart, ResultsFinal,
                    Succeeded, NoneLost, RestAtTheEnd
  <2> QED
      BY <1>5, <2>2 DEF batchVars
<1> QED
    BY <1>1, <1>2, <1>3, <1>4, <1>5 DEF Batching

LEMMA BatchTypesHold == BatchSpec => [](SubTypes /\ BatchInv)
<1>1. BatchInit => SubTypes /\ BatchInv
  <2>1. BatchInit => BatchInv
        BY ItemsAreCalls DEF BatchInit, BatchInv, SubInit, Idle
  <2> QED
      BY <2>1, InitTypes DEF BatchInit
<1>2. SubTypes /\ BatchInv /\ [Batching \/ Calls]_batchVars => (SubTypes /\ BatchInv)'
      BY BatchStep, StartsTypes, StepTypes
<1> QED
    BY <1>1, <1>2, PTL DEF BatchSpec

\* The workers, too, use the registry only by its transactions.
LEMMA BatchUsesRegistry == BatchSpec => Spec
<1>1. BatchInit => Init
      BY DEF BatchInit, SubInit
<1>2. SubTypes /\ BatchInv /\ [Batching \/ Calls]_batchVars => [Next]_vars
      BY BatchStep, StepsRegistry DEF StartsCalls, registryVars
<1> QED
    BY <1>1, <1>2, BatchTypesHold, PTL DEF BatchSpec, Spec

LEMMA BatchTruth == BatchSpec => []TruthInv
<1>1. BatchInit => TruthInv
      BY InitTruth DEF BatchInit
<1>2. /\ SubTypes /\ BatchInv /\ TypeOK /\ [ImmutableStep]_vars /\ TruthInv
      /\ [Batching \/ Calls]_batchVars
      => TruthInv'
      BY BatchStep, StartsTruth, StepTruth
<1>3. BatchSpec => []TypeOK /\ [][ImmutableStep]_vars
      BY BatchUsesRegistry, TypeCorrect, NothingIsRewritten, PTL DEF Immutable, ImmutableStep
<1> QED
    BY <1>1, <1>2, <1>3, BatchTypesHold, PTL DEF BatchSpec

-----------------------------------------------------------------------------
(* What the answer of a batch is worth *)

\* However many workers shift targets off the one queue, no target is handed
\* out twice, nor is one that was answered handed out again.
THEOREM HandedOutOnce == BatchSpec => []NoTargetTwice
<1>1. BatchInv => NoTargetTwice
  <2> SUFFICES ASSUME BatchInv PROVE NoTargetTwice
      OBVIOUS
  <2>1. CASE phase = "before"
        BY <2>1 DEF BatchInv, NoTargetTwice, Worker
  <2>2. CASE phase # "before"
    <3>1. \A n \in DOMAIN queue : n \in 1..Len(queue) /\ queue[n] = Dispatched + n
          /\ Dispatched \in Nat
          BY <2>2, BatchAssumption DEF BatchInv, WorkInv, QueueInOrder, Dispatched
    <3>2. \A n \in DOMAIN queue : \A w \in Worker : queue[n] # doing[w]
          BY <2>2, <3>1, BatchAssumption DEF BatchInv, WorkInv, HandsApart
    <3> QED
        BY <2>2, <3>2 DEF BatchInv, WorkInv, HandsApart, ResultsFinal, NoTargetTwice
  <2> QED
      BY <2>1, <2>2
<1> QED
    BY <1>1, BatchTypesHold, PTL

\* A success that is reported is a deployment on record, under the bytecode the
\* call found, whatever happened to the target's neighbours.
THEOREM ReportedSuccessRegistered == BatchSpec => []SuccessIsRegistered
<1>1. SubTypes /\ BatchInv /\ TruthInv => SuccessIsRegistered
  <2> SUFFICES ASSUME SubTypes, BatchInv, TruthInv,
                      NEW n \in DOMAIN results, results[n][2]
               PROVE  OnRecord(results[n][1])
      BY DEF SuccessIsRegistered
  <2>1. phase # "before"
        BY DEF BatchInv
  <2>2. results[n][1] \in Item /\ Succeeded(results[n][1])
        BY <2>1 DEF BatchInv, WorkInv, ResultsFinal
  <2> QED
      BY <2>2, ItemsAreCalls DEF TruthInv, OutcomeTruthful, Succeeded
<1> QED
    BY <1>1, BatchTypesHold, BatchTruth, PTL

\* total = succeeded + failed: the answer of a batch has one result for each
\* target, and no more.
THEOREM EveryTargetAnswered == BatchSpec => []EachTargetAnswered
<1>1. BatchInv => EachTargetAnswered
  <2> SUFFICES ASSUME BatchInv, phase = "answered"
               PROVE  /\ Len(results) = Targets
                      /\ \A i \in Item : \E n \in DOMAIN results : results[n][1] = i
      BY DEF EachTargetAnswered
  <2>1. WorkInv /\ \A w \in Worker : doing[w] = 0
        BY DEF BatchInv
  <2>2. Len(queue) = 0 /\ Dispatched = Targets /\ Targets \in Nat
        BY <2>1, BatchAssumption DEF WorkInv, RestAtTheEnd, Dispatched
  <2>3. \A i \in Item : i =< Dispatched /\ i # 0
        BY <2>2 DEF Item
  <2>4. \A i \in Item : \E n \in 1..Len(results) : results[n][1] = i
        BY <2>1, <2>3 DEF WorkInv, NoneLost
  <2>5. /\ results \in Seq(Item \X BOOLEAN) /\ Len(results) \in Nat
        /\ DOMAIN results = 1..Len(results)
        BY <2>1 DEF WorkInv, ResultsFinal
  <2> DEFINE N == Len(results)
             first == [n \in 1..N |-> results[n][1]]
  <2>6. first \in [1..N -> Item]
        BY <2>5
  <2>7. first \in Injection(1..N, Item)
        BY <2>1, <2>6 DEF Injection, IsInjective, WorkInv, ResultsFinal
  <2>8. first \in Surjection(1..N, Item)
        BY <2>4, <2>6 DEF Surjection
  <2>9. /\ IsFiniteSet(Item) /\ Cardinality(Item) = Targets
        /\ Cardinality(1..N) = N
    <3>1. ASSUME NEW m \in Nat PROVE IsFiniteSet(1..m) /\ Cardinality(1..m) = m
      <4>1. /\ IsFiniteSet(1..m)
            /\ Cardinality(1..m) = IF 1 > m THEN 0 ELSE m - 1 + 1
            BY FS_Interval
      <4> QED
          BY <4>1
    <3> QED
        BY <2>2, <2>5, <3>1 DEF Item
  <2> HIDE DEF first
  <2>10. Cardinality(1..N) = Cardinality(Item)
        BY <2>7, <2>8, <2>9, FS_Injection
  <2> QED
      BY <2>4, <2>5, <2>9, <2>10
<1> QED
    BY <1>1, BatchTypesHold, PTL

-----------------------------------------------------------------------------
(* One worker at a time: the nonces *)

\* The next nonce of an account is above those of its transactions in the pool,
\* and no call that is about to send read a larger one.
NonceInv ==
    \A s \in Sender :
        /\ \A t \in pool : t.sender = s => t.nonce < PendingNonce(s)
        /\ \A x \in Call :
              /\ call[x].step \in {"proofSend", "deploySend"}
              /\ call[x].sender = s
              => call[x].nonce =< PendingNonce(s)

TxOf(x, to) ==
    [call |-> x, sender |-> call[x].sender, nonce |-> call[x].nonce, to |-> to]

\* A step of a call that puts a transaction into the pool, and one that does not.
Sends(x) ==
    /\ NodeTakes(x)
    /\ \/ /\ call[x].step = "proofSend" /\ call'[x].step = "proofWait"
          /\ pool' = pool \cup {TxOf(x, "submitProofAndRegister")}
       \/ /\ call[x].step = "deploySend" /\ call'[x].step = "deployWait"
          /\ pool' = pool \cup {TxOf(x, "registerDeployment")}

LEMMA AdvanceSends ==
    ASSUME SubTypes, NEW x \in Call, Advance(x) \/ IoError(x)
    PROVE  \/ Sends(x)
           \/ /\ UNCHANGED pool
              /\ call'[x].step \in {"proofSend", "deploySend"}
                    => call'[x].nonce = PendingNonce(call[x].sender)
<1>0. CallsTyped /\ call[x] \in CallState
      BY DEF SubTypes, CallsTyped
<1>1. CASE SendProof(x)
      BY <1>0, <1>1, GotoFields, FinishFields
      DEF SendProof, Broadcast, Sends, TxOf, IsAt, Step, Outcome
<1>2. CASE SendDeployment(x)
      BY <1>0, <1>2, GotoFields, FinishFields
      DEF SendDeployment, Broadcast, Sends, TxOf, IsAt, Step, Outcome
<1>3. CASE \/ ReadNonce(x, "proofNonce", "proofSend")
           \/ ReadNonce(x, "deployNonce", "deploySend")
      BY <1>0, <1>3 DEF ReadNonce, CallsTyped, CallState, mempool
<1>4. CASE Inspect(x)
      BY <1>0, <1>4, FinishFields DEF Inspect, IsAt, CallsTyped, CallState, Outcome, mempool
<1>5. CASE Pin(x)
      BY <1>0, <1>5, GotoFields DEF Pin, Step, mempool
<1>6. CASE ReadCode(x)
      BY <1>0, <1>6, FinishFields DEF ReadCode, IsAt, CallsTyped, CallState, Outcome, mempool
<1>7. CASE CheckProofs(x)
      BY <1>0, <1>7, GotoFields, FinishFields DEF CheckProofs, Step, Outcome, mempool
<1>8. CASE Reread(x)
      BY <1>0, <1>8, FinishFields DEF Reread, IsAt, CallsTyped, CallState, Outcome, mempool
<1>9. CASE IoError(x)
      BY <1>0, <1>9, FinishFields DEF IoError, Outcome, mempool
<1> QED
    BY <1>1, <1>2, <1>3, <1>4, <1>5, <1>6, <1>7, <1>8, <1>9 DEF Advance

\* A transaction broadcast takes one nonce of its account; one mined only moves
\* from the pending to the used.
LEMMA SendsTakesNonce ==
    ASSUME SubTypes, NEW x \in Call, Sends(x), call[x].sender \in Sender,
           nonce' = nonce, NEW s \in Sender
    PROVE  PendingNonce(s)' = IF s = call[x].sender THEN PendingNonce(s) + 1
                              ELSE PendingNonce(s)
<1>0. PICK to : pool' = pool \cup {TxOf(x, to)}
      BY DEF Sends
<1> DEFINE tx == TxOf(x, to)
<1>1. /\ pool' = pool \cup {tx}
      /\ tx.sender = call[x].sender /\ tx.nonce = call[x].nonce
      BY <1>0 DEF TxOf
<1> HIDE DEF tx
<1>2. tx \notin pool
      BY <1>1 DEF Sends, NodeTakes, PoolOf
<1>3. IsFiniteSet(PoolOf(s)) /\ Cardinality(PoolOf(s)) \in Nat /\ nonce[s] \in Nat
      BY FS_Subset, FS_CardinalityType DEF SubTypes, PoolTyped, PoolOf
<1>4. CASE s = call[x].sender
  <2>1. PoolOf(s)' = PoolOf(s) \cup {tx} /\ tx \notin PoolOf(s)
        BY <1>1, <1>2, <1>4 DEF PoolOf
  <2>2. Cardinality(PoolOf(s)') = Cardinality(PoolOf(s)) + 1
        BY <1>3, <2>1, FS_AddElement
  <2> QED
      BY <1>3, <1>4, <2>2 DEF PendingNonce
<1>5. CASE s # call[x].sender
  <2>1. PoolOf(s)' = PoolOf(s)
        BY <1>1, <1>5 DEF PoolOf
  <2> QED
      BY <1>5, <2>1 DEF PendingNonce
<1> QED
    BY <1>4, <1>5

LEMMA MineKeepsPending ==
    ASSUME SubTypes, NEW t \in pool, MineProof(t) \/ MineDeployment(t), NEW s \in Sender
    PROVE  PendingNonce(s)' = PendingNonce(s)
<1>1. /\ pool' = pool \ {t}
      /\ nonce' = [nonce EXCEPT ![t.sender] = @ + 1]
      /\ t.sender \in Sender
      BY TxIsTyped DEF MineProof, MineDeployment, Leaves
<1>2. IsFiniteSet(PoolOf(s)) /\ Cardinality(PoolOf(s)) \in Nat /\ nonce[s] \in Nat
      BY FS_Subset, FS_CardinalityType DEF SubTypes, PoolTyped, PoolOf
<1>3. CASE s = t.sender
  <2>1. PoolOf(s)' = PoolOf(s) \ {t} /\ t \in PoolOf(s)
        BY <1>1, <1>3 DEF PoolOf
  <2>2. Cardinality(PoolOf(s)') = Cardinality(PoolOf(s)) - 1
        BY <1>2, <2>1, FS_RemoveElement
  <2>3. nonce'[s] = nonce[s] + 1
        BY <1>1, <1>3 DEF SubTypes
  <2> QED
      BY <1>2, <2>2, <2>3 DEF PendingNonce
<1>4. CASE s # t.sender
  <2>1. PoolOf(s)' = PoolOf(s) /\ nonce'[s] = nonce[s]
        BY <1>1, <1>4 DEF PoolOf, SubTypes
  <2> QED
      BY <2>1 DEF PendingNonce
<1> QED
    BY <1>3, <1>4

LEMMA AdvanceNonces ==
    ASSUME SubTypes, NonceInv, NEW x \in Call, Advance(x) \/ IoError(x)
    PROVE  NonceInv'
<1>1. Moves(x) /\ UNCHANGED nonce
      BY AdvanceTypes
<1>2. call[x].sender \in Sender /\ call'[x].sender = call[x].sender
      BY <1>1 DEF Moves, SameCall, SubTypes, Carries
<1>3. \A y \in Call : y # x => call'[y] = call[y]
      BY <1>1 DEF Moves, OthersSame
<1> SUFFICES ASSUME NEW s \in Sender
             PROVE  /\ \A t \in pool' : t.sender = s => t.nonce < PendingNonce(s)'
                    /\ \A y \in Call :
                          /\ call'[y].step \in {"proofSend", "deploySend"}
                          /\ call'[y].sender = s
                          => call'[y].nonce =< PendingNonce(s)'
    BY DEF NonceInv
<1>4. /\ \A t \in pool : t.nonce \in Nat
      /\ PendingNonce(s) \in Nat
      /\ \A y \in Call : call[y].nonce \in Nat
      BY NonceIsNat DEF SubTypes, PoolTyped, Tx, CallsTyped, CallState
<1>5. CASE UNCHANGED pool /\ (call'[x].step \in {"proofSend", "deploySend"}
                                 => call'[x].nonce = PendingNonce(call[x].sender))
  <2>1. PendingNonce(s)' = PendingNonce(s)
        BY <1>1, <1>5 DEF PendingNonce, PoolOf
  <2> QED
      BY <1>2, <1>3, <1>4, <1>5, <2>1 DEF NonceInv
<1>6. CASE Sends(x)
  <2>1. PendingNonce(s)' = IF s = call[x].sender THEN PendingNonce(s) + 1
                           ELSE PendingNonce(s)
        BY <1>1, <1>2, <1>6, SendsTakesNonce
  <2>2. PICK to : pool' = pool \cup {TxOf(x, to)}
        BY <1>6 DEF Sends
  <2>3. /\ TxOf(x, to).sender = call[x].sender
        /\ TxOf(x, to).nonce = call[x].nonce
        /\ call[x].sender = s => call[x].nonce =< PendingNonce(s)
        BY <1>6 DEF TxOf, Sends, NonceInv
  <2>4. call'[x].step \notin {"proofSend", "deploySend"}
        BY <1>6 DEF Sends
  <2>5. \A t \in pool' : t.sender = s => t.nonce < PendingNonce(s)'
        BY <1>4, <2>1, <2>2, <2>3 DEF NonceInv
  <2>6. \A y \in Call :
           /\ call'[y].step \in {"proofSend", "deploySend"}
           /\ call'[y].sender = s
           => call'[y].nonce =< PendingNonce(s)'
        BY <1>3, <1>4, <2>1, <2>4 DEF NonceInv
  <2> QED
      BY <2>5, <2>6
<1> QED
    BY <1>5, <1>6, AdvanceSends

LEMMA MineNonces ==
    ASSUME SubTypes, NonceInv, NEW t \in pool, MineProof(t) \/ MineDeployment(t)
    PROVE  NonceInv'
<1>1. \A s \in Sender : PendingNonce(s)' = PendingNonce(s)
      BY MineKeepsPending
<1>2. /\ pool' \subseteq pool
      /\ \A y \in Call : /\ call'[y].step \in {call[y].step, "done"}
                         /\ y # t.call => call'[y] = call[y]
      BY MineCalls
<1>3. call[t.call].step \notin {"proofSend", "deploySend"}
      BY DEF SubTypes, PoolTyped
<1>4. \A y \in Call : call'[y] = call[y] \/ call'[y].step \notin {"proofSend", "deploySend"}
      BY <1>2, <1>3
<1> QED
    BY <1>1, <1>2, <1>4 DEF NonceInv

LEMMA QuietNonces ==
    ASSUME SubTypes, NonceInv, UNCHANGED mempool,
           \A y \in Call :
               call'[y] = call[y] \/ call'[y].step \notin {"proofSend", "deploySend"}
    PROVE  NonceInv'
<1>1. \A s \in Sender : PendingNonce(s)' = PendingNonce(s)
      BY DEF mempool, PendingNonce, PoolOf
<1> QED
    BY <1>1 DEF NonceInv, mempool

-----------------------------------------------------------------------------
(* One worker at a time: the verify before the batch *)

\* The one verify: it registers by submitProofAndRegister, has pinned no proof
\* but its own, and is over when the batch begins.
VerifyInv ==
    /\ call[0].step \in {"idle", "inspect", "pin", "proofNonce", "proofSend", "proofWait",
                         "done"}
    /\ call[0].step # "idle" => call[0].op = "verify"
    /\ phase # "before" => call[0].step = "done"
    /\ pinned \subseteq {ProofOf(0)}
    /\ call[0].step \in {"idle", "inspect", "pin"} => pinned = {}
    /\ \A t \in pool : t.to = "registerDeployment" => t.call \in Item

PropagationStep ==
    {"idle", "readCode", "checkProofs", "deployNonce", "deploySend", "deployWait", "done"}

\* What the calls of the workers may be doing.
PropagationSteps ==
    \A i \in Item : call[i].op = "propagate" /\ call[i].step \in PropagationStep

LEMMA AdvancePropagation ==
    ASSUME SubTypes, PropagationSteps, NEW i \in Item, Advance(i) \/ IoError(i)
    PROVE  /\ PropagationSteps'
           /\ UNCHANGED <<registryVars, code, pinned, nonce>>
           /\ \A y \in Call : y # i => call'[y] = call[y]
           /\ SameCall(i)
           /\ pool' = pool \/ pool' = pool \cup {TxOf(i, "registerDeployment")}
<1>0. /\ i \in Call /\ CallsTyped
      /\ call[i].step \in PropagationStep /\ call[i].op = "propagate"
      BY ItemsAreCalls DEF SubTypes, PropagationSteps
<1>1. /\ UNCHANGED <<registryVars, code, nonce>>
      /\ SameCall(i)
      /\ \A y \in Call : y # i => call'[y] = call[y]
      BY <1>0, AdvanceTypes DEF Moves, OthersSame
<1>2. /\ call'[i].step \in PropagationStep
      /\ pinned' = pinned
      /\ pool' = pool \/ pool' = pool \cup {TxOf(i, "registerDeployment")}
  <2>1. CASE ReadCode(i) \/ CheckProofs(i) \/ IoError(i)
        BY <1>0, <2>1, FinishFields, GotoFields
        DEF ReadCode, CheckProofs, IoError, CallsTyped, CallState, Outcome, Step,
            PropagationStep, offChain, mempool
  <2>2. CASE ReadNonce(i, "deployNonce", "deploySend")
        BY <1>0, <2>2 DEF ReadNonce, CallsTyped, CallState, PropagationStep, offChain, mempool
  <2>3. CASE SendDeployment(i)
        BY <1>0, <2>3, FinishFields, GotoFields
        DEF SendDeployment, Broadcast, TxOf, Outcome, Step, PropagationStep, offChain
  <2>4. CASE \/ Inspect(i) \/ Pin(i) \/ SendProof(i) \/ Reread(i)
             \/ ReadNonce(i, "proofNonce", "proofSend")
        BY <1>0, <2>4 DEF Inspect, Pin, SendProof, Reread, ReadNonce, IsAt, PropagationStep
  <2> QED
      BY <2>1, <2>2, <2>3, <2>4 DEF Advance
<1>3. PropagationSteps'
      BY <1>0, <1>1, <1>2, ItemsAreCalls DEF PropagationSteps, SameCall
<1> QED
    BY <1>1, <1>2, <1>3

LEMMA AdvanceVerify ==
    ASSUME SubTypes, VerifyInv, Advance(0) \/ IoError(0), UNCHANGED phase
    PROVE  VerifyInv'
<1>0. 0 \in Call /\ 0 \notin Item /\ CallsTyped
      BY ItemsAreCalls DEF SubTypes
<1>1. call[0].step \notin {"idle", "done"} /\ call[0].op = "verify" /\ call'[0].op = "verify"
  <2>1. call[0].step \notin {"idle", "done"}
        BY DEF Advance, IoError, Inspect, Pin, ReadNonce, SendProof, ReadCode,
               CheckProofs, SendDeployment, Reread, IsAt
  <2> QED
      BY <1>0, <2>1, AdvanceTypes DEF Moves, SameCall, VerifyInv
<1>2. phase = "before"
      BY <1>1 DEF VerifyInv
<1>3. CASE Inspect(0)
  <2>1. call[0].step = "inspect" /\ pinned = {} /\ UNCHANGED <<pinned, pool>>
        BY <1>3 DEF Inspect, IsAt, VerifyInv, offChain, mempool
  <2>2. call'[0].step \in {"pin", "done"}
        BY <1>0, <1>3, FinishFields DEF Inspect, CallsTyped, CallState, Outcome
  <2> QED
      BY <1>1, <1>2, <2>1, <2>2 DEF VerifyInv
<1>4. ASSUME call'[0].step \in {"proofNonce", "proofSend", "proofWait", "done"},
             ProofOf(0)' = ProofOf(0), pinned' \subseteq pinned \cup {ProofOf(0)},
             \A t \in pool' : t \in pool \/ t.to = "submitProofAndRegister"
      PROVE  VerifyInv'
  <2>1. pinned' \subseteq {ProofOf(0)'}
        BY <1>4 DEF VerifyInv
  <2>2. \A t \in pool' : t.to = "registerDeployment" => t.call \in Item
        BY <1>4 DEF VerifyInv
  <2> QED
      BY <1>1, <1>2, <1>4, <2>1, <2>2 DEF VerifyInv
<1>5. CASE Pin(0)
  <2>1. call'[0].step = "proofNonce" /\ ProofOf(0)' = ProofOf(0)
        BY <1>0, <1>5, GotoFields DEF Pin, Step, ProofOf, SameCall
  <2>2. pinned' = pinned \cup {ProofOf(0)} /\ pool' = pool
        BY <1>5 DEF Pin, mempool
  <2> QED
      BY <1>4, <2>1, <2>2
<1>6. CASE ReadNonce(0, "proofNonce", "proofSend")
  <2>1. call'[0].step = "proofSend" /\ ProofOf(0)' = ProofOf(0)
        BY <1>0, <1>6 DEF ReadNonce, CallsTyped, CallState, ProofOf
  <2> QED
      BY <1>4, <1>6, <2>1 DEF ReadNonce, offChain, mempool
<1>7. CASE SendProof(0)
  <2>1. /\ call'[0].step \in {"proofWait", "done"} /\ ProofOf(0)' = ProofOf(0)
        /\ pool' = pool \/ pool' = pool \cup {TxOf(0, "submitProofAndRegister")}
        BY <1>0, <1>1, <1>7, FinishFields, GotoFields
        DEF SendProof, Broadcast, TxOf, Outcome, Step, ProofOf, SameCall
  <2>2. \A t \in pool' : t \in pool \/ t.to = "submitProofAndRegister"
        BY <2>1 DEF TxOf
  <2> QED
      BY <1>4, <1>7, <2>1, <2>2 DEF SendProof, offChain
<1>8. CASE IoError(0)
  <2>1. call'[0].step = "done" /\ SameCall(0) /\ call'[0].created = call[0].created
        BY <1>0, <1>8, FinishFields DEF IoError, Outcome
  <2>2. pinned' = pinned /\ pool' = pool
        BY <1>8 DEF IoError, offChain, mempool
  <2>3. CASE call[0].step \in {"inspect", "pin"}
        BY <1>1, <1>2, <2>1, <2>2, <2>3 DEF VerifyInv
  <2>4. ProofOf(0)' = ProofOf(0)
        BY <2>1 DEF SameCall, ProofOf
  <2> QED
      BY <1>4, <2>1, <2>2, <2>4
<1>9. CASE \/ ReadCode(0) \/ CheckProofs(0) \/ SendDeployment(0) \/ Reread(0)
           \/ ReadNonce(0, "deployNonce", "deploySend")
      BY <1>9 DEF ReadCode, CheckProofs, SendDeployment, Reread, ReadNonce, IsAt, VerifyInv
<1> QED
    BY <1>3, <1>5, <1>6, <1>7, <1>8, <1>9 DEF Advance

\* Nonces, the verify and the propagations, in a batch of any width.
AccountInv == NonceInv /\ VerifyInv /\ PropagationSteps

LEMMA StartsAccount ==
    ASSUME SubTypes, AccountInv, StartsCalls, call[0].step = "done"
    PROVE  AccountInv'
<1>0. 0 \in Call /\ Item \subseteq Call
      BY ItemsAreCalls
<1>1. call'[0] = call[0] /\ UNCHANGED <<pinned, pool, nonce>>
      BY <1>0 DEF StartsCalls, offChain, mempool
<1>2. \A y \in Call :
         call'[y] = call[y] \/ call'[y].step \notin {"proofSend", "deploySend"}
      BY DEF StartsCalls
<1>3. NonceInv'
      BY <1>1, <1>2, QuietNonces DEF AccountInv, mempool
<1>4. ProofOf(0)' = ProofOf(0)
      BY <1>1 DEF ProofOf
<1>5. VerifyInv'
      BY <1>1, <1>4 DEF AccountInv, VerifyInv
<1>6. PropagationSteps'
      BY <1>0 DEF AccountInv, PropagationSteps, StartsCalls, PropagationStep
<1> QED
    BY <1>3, <1>5, <1>6 DEF AccountInv

LEMMA CallsAccount ==
    ASSUME SubTypes, AccountInv, Calls
    PROVE  AccountInv'
<1>0. 0 \in Call /\ Item \subseteq Call /\ 0 \notin Item
      BY ItemsAreCalls
<1>1. UNCHANGED phase
      BY DEF Calls, batchOnly
<1>2. ASSUME NEW t \in Task, Verifying(t)
      PROVE  AccountInv'
  <2>1. /\ call[0].step = "idle" /\ phase = "before" /\ pinned = {}
        /\ call' = [call EXCEPT ![0] = Started(t)]
        /\ t.op = "verify" /\ UNCHANGED <<pinned, pool, mempool>>
        BY <1>2 DEF Verifying, Start, IsAt, AccountInv, VerifyInv, offChain, mempool
  <2>2. call'[0].op = "verify" /\ call'[0].step = "inspect"
        BY <1>0, <2>1 DEF Started, SubTypes, CallsTyped
  <2>3. \A y \in Call : y # 0 => call'[y] = call[y]
        BY <2>1 DEF SubTypes, CallsTyped
  <2>4. NonceInv'
        BY <2>1, <2>2, <2>3, QuietNonces DEF AccountInv
  <2>5. VerifyInv'
        BY <1>1, <2>1, <2>2 DEF AccountInv, VerifyInv
  <2>6. PropagationSteps'
        BY <1>0, <2>3 DEF AccountInv, PropagationSteps
  <2> QED
      BY <2>4, <2>5, <2>6 DEF AccountInv
<1>3. CASE Advance(0) \/ IoError(0)
  <2>1. \A i \in Item : call'[i] = call[i]
        BY <1>0, <1>3, AdvanceTypes DEF Moves, OthersSame
  <2>2. PropagationSteps'
        BY <2>1 DEF AccountInv, PropagationSteps
  <2> QED
      BY <1>0, <1>1, <1>3, <2>2, AdvanceNonces, AdvanceVerify DEF AccountInv
<1>4. ASSUME NEW i \in Item, Advance(i) \/ IoError(i)
      PROVE  AccountInv'
  <2>1. /\ PropagationSteps' /\ UNCHANGED pinned /\ call'[0] = call[0]
        /\ pool' = pool \/ pool' = pool \cup {TxOf(i, "registerDeployment")}
        BY <1>0, <1>4, AdvancePropagation DEF AccountInv
  <2>2. ProofOf(0)' = ProofOf(0)
        BY <2>1 DEF ProofOf
  <2>3. \A t \in pool' : t.to = "registerDeployment" => t.call \in Item
        BY <2>1 DEF TxOf, AccountInv, VerifyInv
  <2>4. VerifyInv'
        BY <1>1, <2>1, <2>2, <2>3 DEF AccountInv, VerifyInv
  <2> QED
      BY <1>0, <1>4, <2>1, <2>4, AdvanceNonces DEF AccountInv
<1>5. ASSUME NEW t \in pool, MineProof(t) \/ MineDeployment(t)
      PROVE  AccountInv'
  <2>1. /\ \A y \in Call : SameFields(y) /\ call'[y].step \in {call[y].step, "done"}
        /\ UNCHANGED pinned /\ pool' \subseteq pool
        BY <1>5, MineCalls
  <2>2. ProofOf(0)' = ProofOf(0) /\ call'[0].op = call[0].op
        BY <1>0, <2>1 DEF ProofOf, SameFields, SameCall
  <2>3. t.call \in Call /\ call[t.call].step \in {"proofWait", "deployWait", "done"}
        BY TxIsTyped DEF SubTypes, PoolTyped
  <2>4. call'[0].step = call[0].step \/ call[0].step \in {"proofWait", "done"}
    <3>1. CASE t.call = 0
          BY <2>3, <3>1 DEF AccountInv, VerifyInv
    <3>2. CASE t.call # 0
          BY <1>0, <1>5, <3>2, MineCalls
    <3> QED
        BY <3>1, <3>2
  <2>5. VerifyInv'
        BY <1>0, <1>1, <2>1, <2>2, <2>4 DEF AccountInv, VerifyInv
  <2>6. PropagationSteps'
        BY <1>0, <2>1 DEF AccountInv, PropagationSteps, SameFields, SameCall, PropagationStep
  <2> QED
      BY <1>5, <2>5, <2>6, MineNonces DEF AccountInv
<1>6. CASE World
  <2>1. UNCHANGED <<call, pinned, pool, mempool>>
        BY <1>6 DEF World, Reanchor, DeployContract, Tick, offChain, mempool
  <2>2. ProofOf(0)' = ProofOf(0)
        BY <2>1 DEF ProofOf
  <2>3. NonceInv'
        BY <2>1, QuietNonces DEF AccountInv
  <2> QED
      BY <1>1, <2>1, <2>2, <2>3 DEF AccountInv, VerifyInv, PropagationSteps
<1>7. \A x \in Call : x = 0 \/ x \in Item
      BY BatchAssumption DEF Item
<1> QED
    BY <1>2, <1>3, <1>4, <1>5, <1>6, <1>7 DEF Calls, Mine

LEMMA AccountHolds == BatchSpec => []AccountInv
<1>1. BatchInit => AccountInv
  <2>1. BatchInit => pool = {} /\ pinned = {} /\ phase = "before" /\ call = [x \in Call |-> Idle]
        BY DEF BatchInit, SubInit
  <2>2. Idle.step = "idle" /\ Idle.op = "propagate"
        BY DEF Idle
  <2> QED
      BY <2>1, <2>2, ItemsAreCalls
      DEF AccountInv, NonceInv, VerifyInv, PropagationSteps, PropagationStep
<1>2. /\ SubTypes /\ BatchInv /\ AccountInv /\ [Batching \/ Calls]_batchVars
      => AccountInv'
  <2> SUFFICES ASSUME SubTypes, BatchInv, AccountInv, [Batching \/ Calls]_batchVars
               PROVE  AccountInv'
      OBVIOUS
  <2>1. ASSUME NEW f \in Lists, NEW s \in Sender, NEW n \in 1..Concurrency, Begin(f, s, n)
        PROVE  AccountInv'
    <3>1. call[0].step = "done" /\ StartsCalls
          BY <2>1, BeginWork DEF Begin
    <3> QED
        BY <3>1, StartsAccount
  <2>2. ASSUME NEW w \in Item, Collect(w)
        PROVE  AccountInv'
    <3>1. phase = "running" /\ WorkInv
          BY <2>2 DEF Collect, BatchInv
    <3>2. call[0].step = "done" /\ StartsCalls
          BY <2>2, <3>1, CollectWork DEF AccountInv, VerifyInv
    <3> QED
        BY <3>2, StartsAccount
  <2>3. CASE Answer \/ UNCHANGED batchVars
    <3>1. /\ UNCHANGED <<call, pinned, pool, nonce>>
          /\ phase' # "before" => phase # "before"
          BY <2>3 DEF Answer, batchVars, batchOnly, subVars, offChain, mempool
    <3>2. ProofOf(0)' = ProofOf(0)
          BY <3>1 DEF ProofOf
    <3>3. NonceInv'
          BY <3>1, QuietNonces DEF AccountInv, mempool
    <3> QED
        BY <3>1, <3>2, <3>3 DEF AccountInv, VerifyInv, PropagationSteps
  <2> QED
      BY <2>1, <2>2, <2>3, CallsAccount DEF Batching
<1> QED
    BY <1>1, <1>2, BatchTypesHold, PTL DEF BatchSpec

-----------------------------------------------------------------------------
(* One worker at a time: the ready targets *)

\* Only the target in the worker's hands moves, and what it is about to send
\* carries the next nonce of its account.
OneAtATime ==
    \A i \in Item :
        /\ call[i].step \notin {"idle", "done"} => doing[1] = i
        /\ \A s \in Sender :
              call[i].step = "deploySend" /\ call[i].sender = s
                 => call[i].nonce = PendingNonce(s)

\* What made target i ready stays so until its own call ends.
StillReady(i) ==
    /\ Deployed(i) # Zero
    /\ Proven(Deployed(i))
    /\ call[i].step # "done"
          => <<Deployed(i), call[i].chain, call[i].address>> \notin deploymentExists
    /\ call[i].outcome # "refused"
    /\ \A j \in Item :
          call[j].chain = call[i].chain /\ call[j].address = call[i].address => j = i

SerialInv ==
    Worker = {1} /\ phase # "before" =>
        /\ OneAtATime
        /\ ready \subseteq Item
        /\ \A i \in ready : StillReady(i)

LEMMA BeginSerial ==
    ASSUME SubTypes, BatchInv, NEW f \in Lists, NEW s \in Sender, NEW n \in 1..Concurrency,
           Begin(f, s, n)
    PROVE  SerialInv'
<1> SUFFICES ASSUME Worker' = {1}
             PROVE  OneAtATime' /\ ready' \subseteq Item /\ \A i \in ready' : StillReady(i)'
    BY DEF SerialInv
<1>1. /\ \A i \in Item : call[i].step = "idle"
      /\ doing' = [w \in Workers(n) |-> w]
      /\ ready' = {i \in Item : IsReady(f, i)}
      /\ UNCHANGED <<code, proofsByCodeHash, deploymentExists>>
      BY DEF Begin, BatchInv, registryVars, vars, proofVars, deploymentVars, offChain
<1>2. \A i \in Item :
         /\ call'[i].step = IF i \in Workers(n) THEN "readCode" ELSE "idle"
         /\ call'[i].outcome = "none"
         /\ call'[i].chain = f[i][1] /\ call'[i].address = f[i][2]
      BY <1>1, BeginStarts
<1>3. Workers(n) = {1}
      BY <1>1 DEF Worker
<1>4. OneAtATime'
      BY <1>1, <1>2, <1>3 DEF OneAtATime
<1>5. ASSUME NEW i \in Item, IsReady(f, i)
      PROVE  StillReady(i)'
  <2>1. \A j \in Item : f[j] \in ChainId \X Address
        BY BatchAssumption DEF Item
  <2>2. Deployed(i)' = code[f[i][1]][f[i][2]]
        BY <1>1, <1>2 DEF Deployed
  <2>3. \A j \in Item : call'[j].chain = call'[i].chain /\ call'[j].address = call'[i].address
                           => f[j] = f[i]
        BY <1>2, <2>1
  <2> QED
      BY <1>1, <1>2, <1>5, <2>2, <2>3 DEF StillReady, IsReady, Proven
<1> QED
    BY <1>1, <1>4, <1>5

LEMMA CollectSerial ==
    ASSUME SubTypes, BatchInv, SerialInv, NEW w \in Item, Collect(w)
    PROVE  SerialInv'
<1>0. /\ w \in Worker /\ call[doing[w]].step = "done" /\ Take(w) /\ phase = "running"
      /\ UNCHANGED <<code, proofsByCodeHash, deploymentExists, pool, nonce, ready>>
      BY DEF Collect, registryVars, vars, proofVars, deploymentVars, offChain, mempool
<1>1. WorkInv
      BY <1>0 DEF BatchInv
<1>2. DOMAIN doing' = Worker
      BY <1>0 DEF Take, Worker
<1> SUFFICES ASSUME Worker = {1}
             PROVE  OneAtATime' /\ ready' \subseteq Item /\ \A i \in ready' : StillReady(i)'
    BY <1>2 DEF SerialInv, Worker
<1>3. /\ w = 1 /\ OneAtATime /\ ready \subseteq Item
      /\ \A i \in ready : StillReady(i)
      BY <1>0 DEF SerialInv
<1>4. Item \subseteq Call /\ CallsTyped /\ doing \in [Worker -> 0..Targets]
      BY <1>1, ItemsAreCalls DEF SubTypes, WorkInv, HandsApart
<1>5. \A i \in Item :
         \/ call'[i] = call[i] /\ call[i].step \in {"idle", "done"}
         \/ /\ call[i].step = "idle"
            /\ call' = [call EXCEPT ![i].step = "readCode"]
            /\ doing' = [doing EXCEPT ![1] = i]
  <2>1. \A i \in Item : call[i].step \in {"idle", "done"}
        BY <1>0, <1>3 DEF OneAtATime
  <2> QED
      BY <1>0, <1>1, <1>3, <1>4, <2>1, TakeNext DEF CallsTyped
<1>6. ASSUME NEW i \in Item
      PROVE  /\ call'[i].chain = call[i].chain /\ call'[i].address = call[i].address
             /\ call'[i].outcome = call[i].outcome /\ call'[i].sender = call[i].sender
             /\ call'[i].step = "done" <=> call[i].step = "done"
             /\ \/ call'[i].step \in {"idle", "done"}
                \/ call'[i].step = "readCode" /\ doing'[1] = i
  <2>1. CASE call'[i] = call[i] /\ call[i].step \in {"idle", "done"}
        BY <2>1
  <2>2. CASE /\ call[i].step = "idle"
             /\ call' = [call EXCEPT ![i].step = "readCode"]
             /\ doing' = [doing EXCEPT ![1] = i]
    <3>1. /\ call'[i] = [call[i] EXCEPT !.step = "readCode"]
          /\ call[i] \in CallState
          BY <1>4, <2>2 DEF CallsTyped
    <3>2. doing'[1] = i
          BY <1>0, <1>3, <1>4, <2>2
    <3> QED
        BY <2>2, <3>1, <3>2 DEF CallState
  <2> QED
      BY <1>5, <2>1, <2>2
<1>7. OneAtATime'
      BY <1>6 DEF OneAtATime
<1>8. ASSUME NEW i \in ready
      PROVE  StillReady(i)'
  <2>1. i \in Item /\ StillReady(i)
        BY <1>3
  <2>2. Deployed(i)' = Deployed(i)
        BY <1>0, <1>6, <2>1 DEF Deployed
  <2> QED
      BY <1>0, <1>6, <2>1, <2>2 DEF StillReady, Proven
<1> QED
    BY <1>0, <1>3, <1>7, <1>8

\* A ready target's call, whose requests are answered, is refused at no step.
LEMMA ReadyAdvances ==
    ASSUME SubTypes, TruthInv, AccountInv, OneAtATime, NEW i \in Item, StillReady(i),
           call[i].expected = Zero, Advance(i) \/ IoError(i)
    PROVE  call'[i].outcome # "refused"
<1>0. /\ i \in Call /\ CallsTyped /\ call[i] \in CallState
      /\ call[i].step \in PropagationStep /\ CallSound(i)
      /\ call[i].outcome # "refused"
      BY ItemsAreCalls
      DEF SubTypes, CallsTyped, AccountInv, PropagationSteps, TruthInv, StillReady
<1>1. call[i].step \notin {"idle", "done"}
      BY DEF Advance, IoError, Inspect, Pin, ReadNonce, SendProof, ReadCode,
             CheckProofs, SendDeployment, Reread, IsAt
<1>2. CASE ReadCode(i)
      BY <1>0, <1>2 DEF ReadCode, StillReady, CallsTyped, CallState
<1>3. CASE CheckProofs(i)
  <2>1. call[i].codeHash = Deployed(i)
        BY <1>0, <1>3 DEF CheckProofs, IsAt, CallSound, Grounded
  <2>2. Goto(i, "deployNonce")
        BY <1>3, <2>1 DEF CheckProofs, StillReady, Proven
  <2> QED
      BY <1>0, <2>2, GotoFields DEF Step
<1>4. CASE ReadNonce(i, "deployNonce", "deploySend")
      BY <1>0, <1>4 DEF ReadNonce, CallsTyped, CallState
<1>5. CASE SendDeployment(i)
  <2>1. call[i].step = "deploySend" /\ call[i].codeHash = Deployed(i)
        BY <1>0, <1>5 DEF SendDeployment, IsAt, CallSound, Grounded
  <2>2. /\ call[i].chain \in ChainId /\ call[i].address \in Address
        /\ call[i].sender \in Sender
        BY <1>0, <1>1 DEF SubTypes, Carries
  <2>3. TakesDeployment(i)
        BY <2>1, <2>2, ZeroAssumption
        DEF TakesDeployment, DeploymentAccepted, StillReady
  <2>4. NodeTakes(i)
    <3>1. PICK s \in Sender : s = call[i].sender
          BY <2>2
    <3>2. call[i].nonce = PendingNonce(s) /\ PendingNonce(s) \in Nat
          BY <2>1, <3>1, NonceIsNat DEF OneAtATime
    <3>3. \A t \in PoolOf(s) : t.nonce \in Nat /\ t.nonce < PendingNonce(s)
          BY DEF AccountInv, NonceInv, PoolOf, SubTypes, PoolTyped, Tx
    <3>4. PendingNonce(s) >= nonce[s]
      <4>1. IsFiniteSet(PoolOf(s))
            BY FS_Subset DEF SubTypes, PoolTyped, PoolOf
      <4>2. Cardinality(PoolOf(s)) \in Nat /\ nonce[s] \in Nat
            BY <4>1, FS_CardinalityType DEF SubTypes
      <4> QED
          BY <4>2 DEF PendingNonce
    <3> QED
        BY <3>1, <3>2, <3>3, <3>4 DEF NodeTakes
  <2>5. Goto(i, "deployWait")
        BY <1>5, <2>3, <2>4 DEF SendDeployment, Broadcast
  <2> QED
      BY <1>0, <2>5, GotoFields DEF Step
<1>6. CASE IoError(i)
      BY <1>0, <1>6, FinishFields DEF IoError, Outcome
<1>7. CASE \/ Inspect(i) \/ Pin(i) \/ SendProof(i) \/ Reread(i)
           \/ ReadNonce(i, "proofNonce", "proofSend")
      BY <1>0, <1>7 DEF Inspect, Pin, SendProof, Reread, ReadNonce, IsAt, PropagationStep
<1> QED
    BY <1>2, <1>3, <1>4, <1>5, <1>6, <1>7 DEF Advance

\* Readiness survives a step that neither ends nor refuses the call, and
\* registers nothing at its target.
LEMMA ReadyStays ==
    ASSUME SubTypes, TypeOK, [ImmutableStep]_vars, WorldGrows, NEW i \in Item, StillReady(i),
           call[i].chain \in ChainId, call[i].address \in Address,
           \A j \in Item : SameCall(j),
           call'[i].outcome # "refused",
           call'[i].step # "done" =>
               /\ call[i].step # "done"
               /\ <<Deployed(i), call[i].chain, call[i].address>> \notin deploymentExists'
    PROVE  StillReady(i)'
<1>1. Deployed(i)' = Deployed(i)
      BY DEF Deployed, WorldGrows, StillReady, SameCall
<1>2. Deployed(i) \in AnyCode
      BY DEF Deployed, SubTypes, AnyCode
<1>3. Proven(Deployed(i))'
  <2> PICK c \in AnyCode : c = Deployed(i)
      BY <1>2
  <2>1. Proven(c)'
        BY ProvenStays DEF StillReady
  <2> QED
      BY <1>1, <2>1 DEF Proven
<1>4. call'[i].chain = call[i].chain /\ call'[i].address = call[i].address
      BY DEF SameCall
<1>5. call'[i].step # "done" =>
         <<Deployed(i)', call'[i].chain, call'[i].address>> \notin deploymentExists'
      BY <1>1, <1>4
<1>6. \A j \in Item :
         call'[j].chain = call'[i].chain /\ call'[j].address = call'[i].address => j = i
      BY DEF StillReady, SameCall
<1> QED
    BY <1>1, <1>3, <1>5, <1>6 DEF StillReady

\* If some target is ready, the proof of the verify is the one anchored: its
\* transaction, given up on and still pending, will revert.
LEMMA ReadyMeansAnchored ==
    ASSUME SubTypes, StorageInv, TruthInv, AccountInv, NEW i \in Item, StillReady(i),
           call[i].chain \in ChainId, call[i].address \in Address
    PROVE  ProofOf(0) \in proofExists
<1>1. PICK c \in AnyCode : c = Deployed(i) /\ proofsByCodeHash[c] # <<>>
  <2>1. Deployed(i) \in AnyCode
        BY DEF SubTypes, Deployed, AnyCode
  <2> QED
      BY <2>1 DEF StillReady, Proven
<1>2. proofsByCodeHash[c] \in Seq(ProofHash)
      BY DEF StorageInv, TypeOK
<1>3. 1 \in DOMAIN proofsByCodeHash[c]
      BY <1>1, <1>2
<1>4. proofsByCodeHash[c][1] \in proofExists
      BY <1>3 DEF StorageInv, ProofsListed, Elems
<1> QED
    BY <1>4 DEF TruthInv, ProofsResolve, AccountInv, VerifyInv

LEMMA AdvanceSerial ==
    ASSUME SubTypes, TypeOK, [ImmutableStep]_vars, TruthInv, AccountInv, Listed,
           OneAtATime, ready \subseteq Item, \A i \in ready : StillReady(i),
           NEW x \in Item, Advance(x) \/ IoError(x), UNCHANGED <<doing, ready>>
    PROVE  OneAtATime' /\ \A i \in ready : StillReady(i)'
<1>0. x \in Call /\ Item \subseteq Call
      BY ItemsAreCalls
<1>1. /\ UNCHANGED <<registryVars, code, pinned, nonce>>
      /\ \A y \in Call : y # x => call'[y] = call[y]
      /\ SameCall(x)
      /\ call[x].step \notin {"idle", "done"}
  <2>1. call[x].step \notin {"idle", "done"}
        BY DEF Advance, IoError, Inspect, Pin, ReadNonce, SendProof, ReadCode,
               CheckProofs, SendDeployment, Reread, IsAt
  <2> QED
      BY <2>1, AdvancePropagation DEF AccountInv
<1>2. /\ doing[1] = x
      /\ \A i \in Item : i # x => call[i].step \in {"idle", "done"}
      BY <1>1 DEF OneAtATime
<1>3. ASSUME NEW s \in Sender, call'[x].step = "deploySend", call'[x].sender = s
      PROVE  call'[x].nonce = PendingNonce(s)'
  <2>1. ~Sends(x)
        BY <1>3 DEF Sends
  <2>2. pool' = pool /\ call'[x].nonce = PendingNonce(call[x].sender) /\ call[x].sender = s
        BY <1>0, <1>1, <1>3, <2>1, AdvanceSends DEF SameCall
  <2> QED
      BY <1>1, <2>2 DEF PendingNonce, PoolOf
<1>4. OneAtATime'
  <2>1. \A i \in Item : i # x => call'[i].step \in {"idle", "done"}
        BY <1>0, <1>1, <1>2
  <2> QED
      BY <1>2, <1>3, <2>1 DEF OneAtATime
<1>5. ASSUME NEW i \in ready
      PROVE  StillReady(i)'
  <2>1. i \in Item /\ StillReady(i)
        BY <1>5
  <2>2. \A j \in Item : SameCall(j)
        BY <1>0, <1>1 DEF SameCall
  <2>3. call'[i].outcome # "refused"
    <3>1. CASE i = x
          BY <2>1, <3>1, ReadyAdvances DEF Listed
    <3>2. CASE i # x
          BY <1>0, <1>1, <2>1, <3>2 DEF StillReady
    <3> QED
        BY <3>1, <3>2
  <2>4. call'[i].step # "done" => call[i].step # "done"
        BY <1>0, <1>1, <2>1
  <2>5. WorldGrows /\ deploymentExists' = deploymentExists
        BY <1>1 DEF WorldGrows, registryVars, vars, deploymentVars
  <2> QED
      BY <2>1, <2>2, <2>3, <2>4, <2>5, ReadyStays DEF Listed, StillReady
<1> QED
    BY <1>4, <1>5

LEMMA MineSerial ==
    ASSUME SubTypes, StorageInv, [ImmutableStep]_vars, TruthInv, AccountInv, Listed,
           OneAtATime, ready \subseteq Item, \A i \in ready : StillReady(i),
           NEW t \in pool, MineProof(t) \/ MineDeployment(t), UNCHANGED <<doing, ready>>
    PROVE  OneAtATime' /\ \A i \in ready : StillReady(i)'
<1>0. Item \subseteq Call /\ 0 \notin Item /\ \A x \in Call : x = 0 \/ x \in Item
      BY ItemsAreCalls, BatchAssumption DEF Item
<1>1. /\ \A y \in Call : /\ SameFields(y)
                         /\ call'[y].step \in {call[y].step, "done"}
                         /\ y # t.call => call'[y] = call[y]
      /\ UNCHANGED <<code, pinned>>
      BY MineCalls
<1>2. OneAtATime'
  <2>1. \A s \in Sender : PendingNonce(s)' = PendingNonce(s)
        BY MineKeepsPending
  <2>2. call[t.call].step \notin {"idle", "deploySend"}
        BY DEF SubTypes, PoolTyped
  <2>3. \A i \in Item : /\ call'[i].step = "deploySend" => call'[i] = call[i]
                        /\ call'[i].step \notin {"idle", "done"}
                              => call[i].step \notin {"idle", "done"}
        BY <1>0, <1>1, <2>2
  <2> QED
      BY <2>1, <2>3 DEF OneAtATime
<1>3. ASSUME NEW i \in ready
      PROVE  StillReady(i)'
  <2>1. /\ i \in Item /\ i \in Call /\ StillReady(i)
        /\ call[i].chain \in ChainId /\ call[i].address \in Address
        BY <1>0 DEF Listed
  <2>2. \A j \in Item : SameCall(j)
        BY <1>0, <1>1 DEF SameFields
  <2>3. call'[i].step # "done" => call[i].step # "done"
        BY <1>1, <2>1
  <2>4. WorldGrows /\ TypeOK
        BY <1>1 DEF WorldGrows, StorageInv
  <2>5. call'[i].outcome # "refused"
        /\ (call'[i].step # "done" =>
              <<Deployed(i), call[i].chain, call[i].address>> \notin deploymentExists')
    <3>1. CASE t.to = "submitProofAndRegister"
      <4>1. t.call = 0
        <5>1. call[t.call].op # "propagate" /\ t.call \in Call
              BY <3>1, TxIsTyped DEF SubTypes, PoolTyped
        <5> QED
            BY <1>0, <5>1 DEF AccountInv, PropagationSteps
      <4>2. ProofOf(0) \in proofExists
            BY <2>1, ReadyMeansAnchored
      <4>3. ~TakesProof(t.call)
            BY <4>1, <4>2 DEF TakesProof, ProofAccepted
      <4>4. UNCHANGED registryVars
            BY <2>4, <3>1, <4>3, MineContents DEF Lands
      <4>5. call'[i] = call[i]
            BY <1>0, <1>1, <2>1, <4>1
      <4> QED
          BY <2>1, <4>4, <4>5 DEF StillReady, registryVars, vars, deploymentVars
    <3>2. CASE t.to = "registerDeployment" /\ t.call = i
      <4>1. /\ call[i].step \in {"deployWait", "done"}
            /\ call[i].codeHash = Deployed(i)
        <5>1. /\ call[t.call].step \in {"proofWait", "deployWait", "done"}
              /\ Grounded(t.call)
              BY DEF SubTypes, PoolTyped, TruthInv, PoolSound
        <5>2. call[i].step \in PropagationStep
              BY <2>1 DEF AccountInv, PropagationSteps
        <5> QED
            BY <3>2, <5>1, <5>2 DEF PropagationStep, Grounded
      <4>2. Settle(i, "deployWait", "propagated", TakesDeployment(i))
            BY <3>2 DEF MineDeployment, MineProof
      <4>3. CASE call[i].step = "done"
        <5>1. call' = call
              BY <4>2, <4>3 DEF Settle, IsAt
        <5> QED
            BY <2>1, <4>3, <5>1 DEF StillReady
      <4>4. CASE call[i].step = "deployWait"
        <5>1. TakesDeployment(i)
              BY <2>1, <4>1, <4>4, ZeroAssumption
              DEF TakesDeployment, DeploymentAccepted, StillReady
        <5>2. Finish(i, "propagated")
              BY <4>2, <4>4, <5>1 DEF Settle, IsAt
        <5> QED
            BY <2>1, <5>2, FinishFields DEF SubTypes, Outcome
      <4> QED
          BY <4>1, <4>3, <4>4
    <3>3. CASE t.to = "registerDeployment" /\ t.call # i
      <4>1. PICK j \in Item : j = t.call
            BY <3>3 DEF AccountInv, VerifyInv
      <4>2. ~(call[j].chain = call[i].chain /\ call[j].address = call[i].address)
            BY <2>1, <3>3, <4>1 DEF StillReady
      <4>3. /\ ~Lands(t) => UNCHANGED registryVars
            /\ Lands(t) => deploymentExists' = deploymentExists
                              \cup {<<call[j].codeHash, call[j].chain, call[j].address>>}
            BY <2>4, <4>1, MineContents
      <4>4. call'[i] = call[i]
            BY <1>1, <2>1, <3>3
      <4>5. call[i].step # "done" =>
               <<Deployed(i), call[i].chain, call[i].address>> \notin deploymentExists'
            BY <2>1, <4>2, <4>3 DEF StillReady, registryVars, vars, deploymentVars
      <4> QED
          BY <2>1, <4>4, <4>5 DEF StillReady
    <3> QED
        BY <3>1, <3>2, <3>3 DEF MineProof, MineDeployment
  <2> QED
      BY <2>1, <2>2, <2>3, <2>4, <2>5, ReadyStays
<1> QED
    BY <1>2, <1>3

LEMMA CallsSerial ==
    ASSUME SubTypes, StorageInv, [ImmutableStep]_vars, TruthInv, AccountInv, BatchInv,
           SerialInv, Calls
    PROVE  SerialInv'
<1>1. UNCHANGED <<doing, ready, phase>> /\ Worker' = Worker
      BY DEF Calls, batchOnly, Worker
<1> SUFFICES ASSUME Worker = {1}, phase # "before"
             PROVE  OneAtATime' /\ \A i \in ready : StillReady(i)'
    BY <1>1 DEF SerialInv
<1>2. /\ OneAtATime /\ ready \subseteq Item /\ \A i \in ready : StillReady(i)
      /\ Listed /\ TypeOK /\ call[0].step = "done"
      BY DEF SerialInv, BatchInv, WorkInv, AccountInv, VerifyInv, StorageInv
<1>3. \A x \in Call : x = 0 \/ x \in Item
      BY BatchAssumption DEF Item
<1>4. ASSUME NEW t \in Task
      PROVE  ~Verifying(t)
      BY <1>2 DEF Verifying, Start, IsAt
<1>5. ~(Advance(0) \/ IoError(0))
      BY <1>2 DEF Advance, IoError, Inspect, Pin, ReadNonce, SendProof, ReadCode,
                  CheckProofs, SendDeployment, Reread, IsAt
<1>6. CASE World
  <2>1. /\ UNCHANGED <<call, pool, nonce>> /\ deploymentExists' = deploymentExists
        /\ WorldGrows
        BY <1>6, WorldStepGrows
        DEF World, Reanchor, DeployContract, Tick, SubmitProof, offChain, mempool,
            registryVars, vars, deploymentVars
  <2>2. OneAtATime'
        BY <1>1, <1>2, <2>1 DEF OneAtATime, PendingNonce, PoolOf
  <2>3. \A j \in Item : SameCall(j)
        BY <2>1 DEF SameCall
  <2>4. ASSUME NEW i \in ready
        PROVE  StillReady(i)'
    <3>1. /\ i \in Item /\ StillReady(i)
          /\ call[i].chain \in ChainId /\ call[i].address \in Address
          BY <1>2 DEF Listed
    <3> QED
        BY <1>2, <2>1, <2>3, <3>1, ReadyStays DEF StillReady
  <2> QED
      BY <2>2, <2>4
<1>7. ASSUME NEW x \in Call, Advance(x) \/ IoError(x)
      PROVE  OneAtATime' /\ \A i \in ready : StillReady(i)'
      BY <1>1, <1>2, <1>3, <1>5, <1>7, AdvanceSerial
<1>8. ASSUME NEW t \in pool, MineProof(t) \/ MineDeployment(t)
      PROVE  OneAtATime' /\ \A i \in ready : StillReady(i)'
      BY <1>1, <1>2, <1>8, MineSerial
<1> QED
    BY <1>4, <1>6, <1>7, <1>8 DEF Calls, Mine

\* With one worker a ready target is never refused: between the reading of a
\* nonce and its use no other transaction of the account is sent, one given up
\* on included, and nothing else registers the target.
THEOREM SerialBatchRegisters == BatchSpec => []ReadyTargetsRegisterSerially
<1>1. BatchInit => SerialInv
      BY DEF BatchInit, SerialInv
<1>2. /\ SubTypes /\ StorageInv /\ [ImmutableStep]_vars /\ TruthInv /\ AccountInv
      /\ BatchInv /\ SerialInv /\ [Batching \/ Calls]_batchVars
      => SerialInv'
  <2> SUFFICES ASSUME SubTypes, StorageInv, [ImmutableStep]_vars, TruthInv, AccountInv,
                      BatchInv, SerialInv, [Batching \/ Calls]_batchVars
               PROVE  SerialInv'
      OBVIOUS
  <2>1. CASE Answer \/ UNCHANGED batchVars
    <3>1. /\ UNCHANGED <<call, code, proofsByCodeHash, deploymentExists, pool, nonce,
                         doing, ready>>
          /\ Worker' = Worker
          /\ phase' # "before" => phase # "before"
          BY <2>1 DEF Answer, batchVars, batchOnly, subVars, offChain, mempool,
                      registryVars, vars, proofVars, deploymentVars, Worker
    <3> QED
        BY <3>1 DEF SerialInv, OneAtATime, StillReady, Deployed, Proven, PendingNonce, PoolOf
  <2> QED
      BY <2>1, BeginSerial, CollectSerial, CallsSerial DEF Batching
<1>3. BatchSpec => []StorageInv /\ [][ImmutableStep]_vars
      BY BatchUsesRegistry, StorageConsistent, NothingIsRewritten, PTL
      DEF Immutable, ImmutableStep
<1>4. BatchInv /\ SerialInv => ReadyTargetsRegisterSerially
  <2> SUFFICES ASSUME BatchInv, SerialInv, Worker = {1},
                      NEW n \in DOMAIN results, results[n][1] \in ready
               PROVE  call[results[n][1]].outcome # "refused"
      BY DEF ReadyTargetsRegisterSerially, ReadyTargetsRegister
  <2>1. phase # "before"
        BY DEF BatchInv, Worker
  <2> QED
      BY <2>1 DEF SerialInv, StillReady
<1> QED
    BY <1>1, <1>2, <1>3, <1>4, BatchTypesHold, BatchTruth, AccountHolds, PTL DEF BatchSpec
====

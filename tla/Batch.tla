------------------------------- MODULE Batch --------------------------------
(***************************************************************************)
(* batchPropagate and the CLI's propagate-batch, which is the same code:   *)
(* workers of one process take targets from a shared queue and propagate   *)
(* each with the one account they were given.  The propagations are calls  *)
(* of Submission; call 0 is the verify that came before.                   *)
(***************************************************************************)
EXTENDS Submission

CONSTANTS
    Targets,     \* the length of a list of targets
    Lists,       \* the lists of targets tried, as functions
    Concurrency  \* the --concurrency values tried are 1..Concurrency

ASSUME BatchAssumption ==
    /\ Targets \in Nat /\ Concurrency \in Nat
    /\ Call = 0..Targets
    /\ Lists \subseteq [1..Targets -> ChainId \X Address]

VARIABLES
    queue,    \* targets no worker has taken
    doing,    \* running worker -> the target it propagates, 0 when it has returned
    results,  \* <<target, success>> in the order they were pushed
    phase,    \* "before", "running", "answered"
    ready     \* history: the targets for which all was right at the start

batchOnly == <<queue, doing, results, phase, ready>>
batchVars == <<subVars, batchOnly>>

Item == 1..Targets

\* Array.from starts as many workers as there are targets for.
Crew(n) == IF n < Targets THEN n ELSE Targets

Workers(n) == 1..Crew(n)

Worker == DOMAIN doing

Propagation(target, s) ==
    Started([op |-> "propagate", source |-> Zero, chain |-> target[1],
             address |-> target[2], sender |-> s, expected |-> Zero])

\* Its bytecode is deployed and proven, nothing else of the list or of the
\* registry registers it.
IsReady(f, i) ==
    LET c == code[f[i][1]][f[i][2]]
    IN  /\ c # Zero
        /\ proofsByCodeHash[c] # <<>>
        /\ <<c, f[i][1], f[i][2]>> \notin deploymentExists
        /\ \A j \in Item : f[j] = f[i] => j = i

\* Every worker takes a target before its first await.
Begin(f, s, n) ==
    /\ phase = "before"
    /\ call[0].step = "done"
    /\ phase' = "running"
    /\ doing' = [w \in Workers(n) |-> w]
    /\ queue' = SubSeq([i \in Item |-> i], Crew(n) + 1, Targets)
    /\ call' = [x \in Call |->
                  IF x \in Workers(n) THEN Propagation(f[x], s)
                  ELSE IF x \in Item
                       THEN [Propagation(f[x], s) EXCEPT !.step = "idle"]
                       ELSE call[x]]
    /\ ready' = {i \in Item : IsReady(f, i)}
    /\ UNCHANGED <<registryVars, offChain, mempool, results>>

Succeeded(x) == call[x].outcome = "propagated"

\* The worker's loop: take the next target, or return.
\* Mutant: the target read but not shifted.
TakeUnshifted(w) ==
    IF queue # <<>>
    THEN /\ doing' = [doing EXCEPT ![w] = Head(queue)]
         /\ call' = [call EXCEPT ![Head(queue)].step = "readCode"]
         /\ UNCHANGED queue
    ELSE /\ doing' = [doing EXCEPT ![w] = 0]
         /\ UNCHANGED <<queue, call>>

Take(w) ==
    IF queue # <<>>
    THEN /\ doing' = [doing EXCEPT ![w] = Head(queue)]
         /\ call' = [call EXCEPT ![Head(queue)].step = "readCode"]
         /\ queue' = Tail(queue)
    ELSE /\ doing' = [doing EXCEPT ![w] = 0]
         /\ UNCHANGED <<queue, call>>

\* Two mutants of Push: a failed target not counted, or counted as done.
PushSucceeded(i) ==
    results' = IF Succeeded(i) THEN Append(results, <<i, TRUE>>) ELSE results

PushDone(i) == results' = Append(results, <<i, TRUE>>)

Push(i) == results' = Append(results, <<i, Succeeded(i)>>)

\* Mutant: no catch, a target that throws ends its worker.
CollectUncaught(w) ==
    /\ phase = "running"
    /\ w \in Worker
    /\ doing[w] # 0
    /\ call[doing[w]].step = "done"
    /\ Succeeded(doing[w])
    /\ Push(doing[w])
    /\ Take(w)
    /\ UNCHANGED <<registryVars, offChain, mempool, phase, ready>>

\* A worker pushes the result of its target and, with no await between, takes
\* the next one or returns.
Collect(w) ==
    /\ phase = "running"
    /\ w \in Worker
    /\ doing[w] # 0
    /\ call[doing[w]].step = "done"
    /\ Push(doing[w])
    /\ Take(w)
    /\ UNCHANGED <<registryVars, offChain, mempool, phase, ready>>

\* Promise.all over the workers.
Answer ==
    /\ phase = "running"
    /\ \A w \in Worker : doing[w] = 0
    /\ phase' = "answered"
    /\ UNCHANGED <<subVars, queue, doing, results, ready>>

BatchInit ==
    /\ SubInit
    /\ queue = <<>>
    /\ doing = <<>>
    /\ results = <<>>
    /\ phase = "before"
    /\ ready = {}

Verifying(t) == t.op = "verify" /\ Start(0, t)

Calls ==
    /\ \/ \E t \in Task : Verifying(t)
       \/ \E x \in Call : Advance(x)
       \/ \E x \in Call : IoError(x)
       \/ Mine
       \/ World
    /\ UNCHANGED batchOnly

Batching ==
    \/ \E f \in Lists, s \in Sender, n \in 1..Concurrency :
          Begin(f, s, n)
    \/ \E w \in Item : Collect(w)
    \/ Answer

BatchSpec == BatchInit /\ [][Batching \/ Calls]_batchVars

\* The event loop runs a call whose request was answered, and miners include
\* what pays: an I/O error is never owed.
BatchFairSpec ==
    /\ BatchSpec
    /\ \A x \in Call : WF_batchVars(Advance(x) /\ UNCHANGED batchOnly)
    /\ WF_batchVars(Mine /\ UNCHANGED batchOnly)
    /\ \A w \in Item : WF_batchVars(Collect(w))
    /\ WF_batchVars(Answer)

-----------------------------------------------------------------------------
\* total = succeeded + failed, and more: the answer has one result for every
\* target of the list, duplicates and failures included.
EachTargetAnswered ==
    phase = "answered" =>
        /\ Len(results) = Targets
        /\ \A i \in Item : \E n \in DOMAIN results : results[n][1] = i

\* No target is in two workers' hands, or in one's and in the queue.
NoTargetTwice ==
    /\ \A v, w \in Worker : doing[v] = doing[w] /\ doing[v] # 0 => v = w
    /\ \A n \in DOMAIN queue : \A w \in Worker : queue[n] # doing[w]
    /\ \A n \in DOMAIN results : \A w \in Worker : results[n][1] # doing[w]

\* A success means the registry lists the target, under the bytecode found.
SuccessIsRegistered ==
    \A n \in DOMAIN results : results[n][2] => OnRecord(results[n][1])

\* cli/src/index.ts:247 and 254: the command registers a deployment "across
\* multiple L2 chains in one command", with "Max parallel propagations" set by
\* --concurrency: a target for which all is right, and whose requests were all
\* answered, is not refused.
ReadyTargetsRegister ==
    \A n \in DOMAIN results :
        LET i == results[n][1]
        IN  i \in ready => call[i].outcome # "refused"

\* One worker at a time keeps that promise: each transaction of the account is
\* mined, or given up, before the next reads the pending nonce.
ReadyTargetsRegisterSerially == Worker = {1} => ReadyTargetsRegister

\* The command returns: no target waits behind another for ever.
BatchAnswers == phase = "running" ~> phase = "answered"
=============================================================================

--------------------------- MODULE ClientProofs -----------------------------
(***************************************************************************)
(* The importer, for any listing, environment, number of faults and of     *)
(* strangers: its nonces are accounted for, what it pins says what it      *)
(* reverifies as, and its summary is right.  Proxy detection, for any      *)
(* content of the slots and any number of upgrades while it reads them.    *)
(* The hooks, for every input.  The page, for any number of events,        *)
(* connections, failures and refreshes: what it announces and what it      *)
(* misses.                                                                 *)
(***************************************************************************)
EXTENDS Importer, Proxy, Hooks, Feed, FiniteSetTheorems, WellFoundedInduction, TLAPS

NoNonce == {"idle", "detail", "code", "pin"}
Holding == {"estimate", "send"}
Matched == {"pin", "estimate", "send", "wait"}
Step == NoNonce \cup Holding \cup {"wait"} \cup Verdict

Local ==
    [step : Step, contract : Contract \cup {Zero}, match : {"none", "full", "partial"},
     nonce : Int]

ImportTypes ==
    /\ listing \in Listings
    /\ options \in Options
    /\ run \in [step : {"list", "import", "done"}, place : Nat,
                contracts : Seq(Contract), next : Nat]
    /\ run.next =< Len(run.contracts)
    /\ run.step = "list" => run.next = 0
    /\ job \in [Job -> Local]
    /\ \A j \in Job : job[j].step \in Matched => job[j].match \in {"full", "partial"}
    /\ handed \in Nat
    /\ minedNonce \in Nat
    /\ minedNonce =< handed

\* What main has not started is idle.
Ahead ==
    \A j \in Job :
        j[1] > run.place \/ (j[1] = run.place /\ j[2] > run.next) => job[j].step = "idle"

\* A job has a nonce once it has pinned, and no two have the same.
JobNonces ==
    /\ \A j \in Job : job[j].step \in NoNonce => job[j].nonce = -1
    /\ \A j \in Job : job[j].nonce \in -1..handed - 1
    /\ \A i, j \in Job : job[i].nonce = job[j].nonce => i = j \/ job[i].nonce = -1
    /\ \A j \in Job : job[j].step \in Holding => job[j].nonce >= minedNonce

\* The mempool holds nonces of jobs that wait, or have given up.
PoolNonces ==
    \A t \in sent :
        /\ t.job \in Job
        /\ t = [job |-> t.job, nonce |-> job[t.job].nonce]
        /\ job[t.job].step \in {"wait", "failed"}
        /\ t.nonce \in minedNonce..handed - 1

GapsCovered ==
    \A n \in minedNonce..handed - 1 :
        \E j \in Job :
            /\ job[j].nonce = n
            /\ \/ [job |-> j, nonce |-> n] \in sent
               \/ job[j].step \in Holding \cup {"skipped", "failed"}

NonceInv == ImportTypes /\ Ahead /\ JobNonces /\ PoolNonces /\ GapsCovered

-----------------------------------------------------------------------------
\* NonceInv says what NonceGapsExplained says.
LEMMA NonceInvExplains == NonceInv => NonceGapsExplained
BY DEF NonceInv, JobNonces, PoolNonces, GapsCovered, NonceGapsExplained, Holding

\* Initially nothing is handed out.
LEMMA NonceInvInit == ImportInit => NonceInv
<1> SUFFICES ASSUME ImportInit PROVE NonceInv
    OBVIOUS
<1>1. ImportTypes
    BY ImporterAssumption
       DEF ImportInit, ChainFrom, ImportTypes, NoJob, Local, Step, NoNonce, Matched
<1>2. \A j \in Job : job[j].step = "idle" /\ job[j].nonce = -1
    BY DEF ImportInit, NoJob
<1>3. Ahead /\ JobNonces /\ PoolNonces /\ GapsCovered
    BY <1>2 DEF ImportInit, Ahead, JobNonces, PoolNonces, GapsCovered, Holding
<1> QED  BY <1>1, <1>3 DEF NonceInv

\* A step of one job that neither takes a nonce nor sends one.
LEMMA JobMoves ==
    ASSUME NonceInv, NEW j \in Job, NEW q \in Local,
           job' = [job EXCEPT ![j] = q],
           q.nonce = job[j].nonce,
           q.step \in Matched => q.match \in {"full", "partial"},
           job[j].step # "idle",
           q.step \in NoNonce => job[j].step \in NoNonce,
           q.step \in Holding => job[j].step \in Holding,
           job[j].step \in Holding => q.step \in Holding \cup {"skipped", "failed"},
           job[j].step \in {"skipped", "failed", "wait"} => q.step = "failed",
           UNCHANGED <<listing, options, run, handed, sent, minedNonce>>
    PROVE  NonceInv'
<1> USE DEF NonceInv
<1>2. \A i \in Job : job'[i] = IF i = j THEN q ELSE job[i]
    BY DEF ImportTypes
<1>1. ImportTypes'
    <2>1. job' \in [Job -> Local]
        BY DEF ImportTypes
    <2>2. \A i \in Job : job'[i].step \in Matched => job'[i].match \in {"full", "partial"}
        BY <1>2 DEF ImportTypes
    <2> QED  BY <2>1, <2>2 DEF ImportTypes
<1>3. \A i \in Job : job'[i].nonce = job[i].nonce
    BY <1>2
<1>4. Ahead'
    BY <1>2 DEF Ahead
<1>5. JobNonces'
    BY <1>2, <1>3 DEF JobNonces
<1>6. PoolNonces'
    BY <1>2, <1>3 DEF PoolNonces
<1>7. GapsCovered'
    <2> SUFFICES ASSUME NEW n \in minedNonce..handed - 1
                 PROVE  \E i \in Job :
                            /\ job'[i].nonce = n
                            /\ \/ [job |-> i, nonce |-> n] \in sent
                               \/ job'[i].step \in Holding \cup {"skipped", "failed"}
        BY DEF GapsCovered
    <2>1. PICK i \in Job :
             /\ job[i].nonce = n
             /\ \/ [job |-> i, nonce |-> n] \in sent
                \/ job[i].step \in Holding \cup {"skipped", "failed"}
        BY DEF GapsCovered
    <2> QED  BY <1>2, <1>3, <2>1
<1> QED  BY <1>1, <1>4, <1>5, <1>6, <1>7

\* A step that leaves the nonces, the mempool and the jobs alone.
LEMMA NoncesStay ==
    ASSUME JobNonces, PoolNonces, GapsCovered,
           UNCHANGED <<job, handed, sent, minedNonce>>
    PROVE  JobNonces' /\ PoolNonces' /\ GapsCovered'
<1>1. JobNonces'
    BY DEF JobNonces
<1>2. PoolNonces'
    BY DEF PoolNonces
<1>3. GapsCovered'
    <2> SUFFICES ASSUME NEW n \in minedNonce..handed - 1
                 PROVE  \E i \in Job :
                            /\ job[i].nonce = n
                            /\ \/ [job |-> i, nonce |-> n] \in sent
                               \/ job[i].step \in Holding \cup {"skipped", "failed"}
        BY DEF GapsCovered
    <2> QED  BY DEF GapsCovered
<1> QED  BY <1>1, <1>2, <1>3

\* A verdict, or that the proof is to be pinned.
LEMMA JudgedTypes ==
    ASSUME NEW c, options \in Options
    PROVE  /\ Judged(c) \in {"full", "partial", "skipped", "failed", "pin"}
           /\ MatchOf(c) \in {"none", "full", "partial"}
<1>1. MatchOf(c) \in {"none", "full", "partial"}
    BY DEF MatchOf, Match
<1>2. Judged(c) \in {"full", "partial", "skipped", "failed", "pin"}
    BY <1>1 DEF Judged
<1> QED  BY <1>1, <1>2

\* A chain is listed, passed over, or its list fails.
LEMMA ListChainKeeps == NonceInv /\ ListChain => NonceInv'
<1> SUFFICES ASSUME NonceInv, ListChain PROVE NonceInv'
    OBVIOUS
<1> USE DEF NonceInv
<1>1. UNCHANGED <<listing, options, job, handed, sent, minedNonce>>
    BY DEF ListChain
<1>2. \/ run' = NextChain
      \/ /\ options.chains[run.place] \in DOMAIN listing
         /\ run' = [run EXCEPT !.step = "import",
                               !.contracts = Listed(options.chains[run.place])]
    BY DEF ListChain
<1>3. JobNonces' /\ PoolNonces' /\ GapsCovered'
    BY <1>1, NoncesStay
<1>4. CASE run' = NextChain
    <2>1. ImportTypes'
        BY <1>1, <1>4 DEF ImportTypes, NextChain, ChainFrom
    <2>2. Ahead'
        BY <1>1, <1>4, ImporterAssumption DEF Ahead, NextChain, ChainFrom, ImportTypes, Job
    <2> QED  BY <1>3, <2>1, <2>2
<1>5. CASE /\ options.chains[run.place] \in DOMAIN listing
           /\ run' = [run EXCEPT !.step = "import",
                                 !.contracts = Listed(options.chains[run.place])]
    <2> DEFINE all == SolidityOf(listing[options.chains[run.place]])
    <2>1. all \in Seq(Contract) /\ options.limit \in Nat \ {0}
        BY <1>5, ImporterAssumption DEF ImportTypes
    <2>2. Listed(options.chains[run.place]) \in Seq(Contract)
        BY <2>1 DEF Listed
    <2>3. run.next = 0
        BY DEF ListChain, ImportTypes
    <2>4. ImportTypes'
        <3> DEFINE chosen == Listed(options.chains[run.place])
        <3>1. run' = [run EXCEPT !.step = "import", !.contracts = chosen]
            BY <1>5
        <3>2. chosen \in Seq(Contract) /\ Len(chosen) \in Nat
            BY <2>2
        <3> HIDE DEF chosen
        <3>3. /\ run' \in [step : {"list", "import", "done"}, place : Nat,
                            contracts : Seq(Contract), next : Nat]
              /\ run'.next = 0 /\ run'.contracts = chosen
            BY <2>3, <3>1, <3>2 DEF ImportTypes
        <3> QED  BY <1>1, <3>2, <3>3 DEF ImportTypes
    <2>5. Ahead'
        BY <1>1, <1>5 DEF Ahead, ImportTypes
    <2> QED  BY <1>3, <2>4, <2>5
<1> QED  BY <1>2, <1>4, <1>5

\* The jobs of the next batch, as they begin.
Begins(j) == j[1] = run.place /\ j[2] \in run.next + 1..LastOfBatch
Fresh(j) == [NoJob EXCEPT !.step = "detail", !.contract = run.contracts[j[2]]]

\* They were idle before.
LEMMA BatchBegins ==
    ASSUME NonceInv, StartBatch, run.next # Len(run.contracts)
    PROVE  /\ run' = [run EXCEPT !.next = LastOfBatch]
           /\ job' = [j \in Job |-> IF Begins(j) THEN Fresh(j) ELSE job[j]]
           /\ LastOfBatch \in Nat
           /\ run.next =< LastOfBatch
           /\ LastOfBatch =< Len(run.contracts)
           /\ \A j \in Job : j[1] \in Nat /\ j[2] \in Nat
           /\ \A j \in Job : Begins(j) => /\ job[j].step = "idle"
                                         /\ Fresh(j) \in Local
                                         /\ Fresh(j).step = "detail"
                                         /\ Fresh(j).nonce = -1
                                         /\ Fresh(j).match = "none"
<1> USE DEF NonceInv
<1>1. /\ run' = [run EXCEPT !.next = LastOfBatch]
      /\ job' = [j \in Job |-> IF Begins(j) THEN Fresh(j) ELSE job[j]]
    BY DEF StartBatch, Begins, Fresh
<1>2. /\ LastOfBatch \in Nat
      /\ run.next =< LastOfBatch
      /\ LastOfBatch =< Len(run.contracts)
    <2>1. options.concurrency \in Nat \ {0} /\ run.next \in Nat
          /\ run.contracts \in Seq(Contract) /\ run.next =< Len(run.contracts)
        BY ImporterAssumption DEF ImportTypes
    <2>2. Len(run.contracts) \in Nat
        BY <2>1
    <2> QED  BY <2>1, <2>2 DEF LastOfBatch
<1>3. \A j \in Job : j[1] \in Nat /\ j[2] \in Nat
    BY ImporterAssumption DEF Job
<1>4. ASSUME NEW j \in Job, Begins(j)
      PROVE  /\ job[j].step = "idle"
             /\ Fresh(j) \in Local
             /\ Fresh(j).step = "detail"
             /\ Fresh(j).nonce = -1
             /\ Fresh(j).match = "none"
    <2>1. job[j].step = "idle"
        <3>1. run.next \in Nat
            BY DEF ImportTypes
        <3>2. j[1] = run.place /\ j[2] > run.next
            BY <1>2, <1>3, <1>4, <3>1 DEF Begins
        <3> QED  BY <3>2 DEF Ahead
    <2>2. run.contracts[j[2]] \in Contract
        <3>1. run.contracts \in Seq(Contract) /\ run.next \in Nat
            BY DEF ImportTypes
        <3>2. j[2] \in 1..Len(run.contracts)
            BY <1>2, <1>3, <1>4, <3>1 DEF Begins
        <3> QED  BY <3>1, <3>2
    <2>3. NoJob \in Local /\ NoJob.nonce = -1 /\ NoJob.match = "none"
        BY DEF NoJob, Local, Step, NoNonce
    <2>4. Fresh(j) \in Local
        BY <2>2, <2>3 DEF Fresh, Local, Step, NoNonce
    <2>5. Fresh(j).step = "detail" /\ Fresh(j).nonce = -1 /\ Fresh(j).match = "none"
        BY <2>3 DEF Fresh, Local
    <2> QED  BY <2>1, <2>4, <2>5
<1> QED  BY <1>1, <1>2, <1>3, <1>4

\* The next batch: jobs that were idle begin.
LEMMA StartBatchKeeps == NonceInv /\ StartBatch => NonceInv'
<1> SUFFICES ASSUME NonceInv, StartBatch PROVE NonceInv'
    OBVIOUS
<1> USE DEF NonceInv
<1>1. UNCHANGED <<listing, options, handed, sent, minedNonce>>
    BY DEF StartBatch
<1>2. CASE run.next = Len(run.contracts)
    <2>1. run' = NextChain /\ job' = job
        BY <1>2 DEF StartBatch
    <2>2. ImportTypes'
        BY <1>1, <2>1 DEF ImportTypes, NextChain, ChainFrom
    <2>3. Ahead'
        BY <2>1, ImporterAssumption DEF Ahead, NextChain, ChainFrom, ImportTypes, Job
    <2>4. JobNonces' /\ PoolNonces' /\ GapsCovered'
        BY <1>1, <2>1, NoncesStay
    <2> QED  BY <2>2, <2>3, <2>4
<1>3. CASE run.next # Len(run.contracts)
    <2>1. /\ run' = [run EXCEPT !.next = LastOfBatch]
          /\ job' = [j \in Job |-> IF Begins(j) THEN Fresh(j) ELSE job[j]]
        BY <1>3, BatchBegins DEF NonceInv
    <2>2. /\ LastOfBatch \in Nat
          /\ run.next =< LastOfBatch
          /\ LastOfBatch =< Len(run.contracts)
        BY <1>3, BatchBegins DEF NonceInv
    <2>3. \A j \in Job : j[1] \in Nat /\ j[2] \in Nat
        BY ImporterAssumption DEF Job
    <2>4. \A j \in Job : Begins(j) => /\ job[j].step = "idle"
                                      /\ Fresh(j) \in Local
                                      /\ Fresh(j).step = "detail"
                                      /\ Fresh(j).nonce = -1
        BY <1>3, BatchBegins DEF NonceInv
    <2>5. ImportTypes'
        <3>1. job' \in [Job -> Local]
            BY <2>1, <2>4 DEF ImportTypes
        <3>2. \A j \in Job : job'[j].step \in Matched => job'[j].match \in {"full", "partial"}
            BY <2>1, <2>4 DEF ImportTypes, Matched
        <3>3. run.step = "import"
            BY DEF StartBatch
        <3> QED  BY <1>1, <2>1, <2>2, <3>1, <3>2, <3>3 DEF ImportTypes
    <2>6. \A j \in Job : /\ job'[j] = job[j] \/ (/\ job[j].step = "idle"
                                                 /\ job'[j].step = "detail"
                                                 /\ job'[j].nonce = -1)
                         /\ job'[j].nonce = job[j].nonce
        BY <2>1, <2>4 DEF JobNonces, NoNonce
    <2>7. Ahead'
        <3> SUFFICES ASSUME NEW j \in Job,
                            j[1] > run.place \/ (j[1] = run.place /\ j[2] > LastOfBatch)
                     PROVE  job'[j].step = "idle"
            BY <2>1 DEF Ahead, ImportTypes
        <3>1. ~Begins(j)
            BY <2>2, <2>3 DEF ImportTypes, Begins
        <3>2. job[j].step = "idle"
            BY <2>2, <2>3 DEF Ahead, ImportTypes
        <3> QED  BY <2>1, <3>1, <3>2
    <2>8. JobNonces'
        BY <1>1, <2>6 DEF JobNonces, NoNonce, Holding
    <2>9. PoolNonces'
        BY <1>1, <2>6 DEF PoolNonces
    <2>10. GapsCovered'
        <3> SUFFICES ASSUME NEW n \in minedNonce..handed - 1
                     PROVE  \E i \in Job :
                                /\ job'[i].nonce = n
                                /\ \/ [job |-> i, nonce |-> n] \in sent
                                   \/ job'[i].step \in Holding \cup {"skipped", "failed"}
            BY <1>1 DEF GapsCovered
        <3>1. PICK i \in Job :
                 /\ job[i].nonce = n
                 /\ \/ [job |-> i, nonce |-> n] \in sent
                    \/ job[i].step \in Holding \cup {"skipped", "failed"}
            BY DEF GapsCovered
        <3> QED  BY <2>6, <3>1 DEF Holding
    <2> QED  BY <2>5, <2>7, <2>8, <2>9, <2>10
<1> QED  BY <1>2, <1>3

\* A step of one job that changes nothing but its step.
LEMMA StepMoves ==
    ASSUME NonceInv, NEW j \in Job, NEW v \in Step,
           job' = [job EXCEPT ![j].step = v],
           job[j].step # "idle",
           v \in Matched => job[j].step \in Matched,
           v \in NoNonce => job[j].step \in NoNonce,
           v \in Holding => job[j].step \in Holding,
           job[j].step \in Holding => v \in Holding \cup {"skipped", "failed"},
           job[j].step \in {"skipped", "failed", "wait"} => v = "failed",
           UNCHANGED <<listing, options, run, handed, sent, minedNonce>>
    PROVE  NonceInv'
<1> DEFINE q == [job[j] EXCEPT !.step = v]
<1>1. job[j] \in Local /\ (job[j].step \in Matched => job[j].match \in {"full", "partial"})
    BY DEF NonceInv, ImportTypes
<1>2. q \in Local /\ q.step = v /\ q.nonce = job[j].nonce /\ q.match = job[j].match
    BY <1>1 DEF Local
<1>3. job' = [job EXCEPT ![j] = q]
    OBVIOUS
<1> HIDE DEF q
<1> QED  BY <1>1, <1>2, <1>3, JobMoves

\* The details of a contract are read.
LEMMA ReadDetailKeeps == \A j \in Job : NonceInv /\ ReadDetail(j) => NonceInv'
<1> SUFFICES ASSUME NEW j \in Job, NonceInv, ReadDetail(j) PROVE NonceInv'
    OBVIOUS
<1>1. job[j].step = "detail" /\ UNCHANGED <<listing, options, run, handed, sent, minedNonce>>
    BY DEF ReadDetail
<1>2. PICK v \in {"skipped", "failed", "code"} : job' = [job EXCEPT ![j].step = v]
    BY DEF ReadDetail, Settle, Goes
<1>3. v \in Step
    BY DEF Step, NoNonce, Verdict
<1> QED  BY <1>1, <1>2, <1>3, StepMoves DEF Holding, Matched, NoNonce

\* The deployed code is compared with what the sources compile to.
LEMMA CompileKeeps == \A j \in Job : NonceInv /\ Compile(j) => NonceInv'
<1> SUFFICES ASSUME NEW j \in Job, NonceInv, Compile(j) PROVE NonceInv'
    OBVIOUS
<1> DEFINE c == job[j].contract
<1>1. job[j].step = "code" /\ UNCHANGED <<listing, options, run, handed, sent, minedNonce>>
    BY DEF Compile
<1>2. options \in Options /\ job[j] \in Local
    BY DEF NonceInv, ImportTypes
<1>3. /\ Judged(c) \in {"full", "partial", "skipped", "failed", "pin"}
      /\ MatchOf(c) \in {"none", "full", "partial"}
    BY <1>2, JudgedTypes
<1>4. CASE Judged(c) = "pin"
    <2>1. job' = [job EXCEPT ![j].step = "pin", ![j].match = MatchOf(c)]
        BY <1>4 DEF Compile
    <2>2. MatchOf(c) # "none"
        BY <1>4 DEF Judged
    <2> DEFINE m == MatchOf(c)
               q == [job[j] EXCEPT !.step = "pin", !.match = m]
    <2>3. m \in {"full", "partial"}
        BY <1>3, <2>2
    <2>4. job' = [job EXCEPT ![j] = q]
        BY <2>1
    <2> HIDE DEF m
    <2>5. "pin" \in Step
        BY DEF Step, NoNonce
    <2>6. q \in Local /\ q.step = "pin" /\ q.match = m /\ q.nonce = job[j].nonce
        BY <1>2, <2>3, <2>5 DEF Local
    <2> HIDE DEF q
    <2> QED  BY <1>1, <2>3, <2>4, <2>6, JobMoves DEF Holding, NoNonce
<1>5. CASE Judged(c) # "pin"
    <2>1. job' = [job EXCEPT ![j].step = Judged(c)]
        BY <1>5 DEF Compile, Settle
    <2>2. Judged(c) \in Verdict
        BY <1>3, <1>5 DEF Verdict
    <2>3. Judged(c) \in Step
        BY <2>2 DEF Step
    <2> QED  BY <1>1, <2>1, <2>2, <2>3, StepMoves DEF Holding, Matched, NoNonce, Verdict
<1> QED  BY <1>4, <1>5

\* A refused gas estimate drops the nonce with the import.
LEMMA EstimateKeeps == \A j \in Job : NonceInv /\ Estimate(j) => NonceInv'
<1> SUFFICES ASSUME NEW j \in Job, NonceInv, Estimate(j) PROVE NonceInv'
    OBVIOUS
<1>1. job[j].step = "estimate" /\ UNCHANGED <<listing, options, run, handed, sent, minedNonce>>
    BY DEF Estimate
<1>2. PICK v \in {"skipped", "send"} : job' = [job EXCEPT ![j].step = v]
    BY DEF Estimate, Settle, Goes
<1>3. v \in Step
    BY DEF Step, Holding, Verdict
<1> QED  BY <1>1, <1>2, <1>3, StepMoves DEF Holding, Matched, NoNonce

\* A pinned proof takes the next nonce.
LEMMA PinProofKeeps == \A j \in Job : NonceInv /\ PinProof(j) => NonceInv'
<1> SUFFICES ASSUME NEW j \in Job, NonceInv, PinProof(j) PROVE NonceInv'
    OBVIOUS
<1> USE DEF NonceInv
<1> DEFINE q == [job[j] EXCEPT !.step = "estimate", !.nonce = handed]
<1>1. /\ job[j].step = "pin" /\ job' = [job EXCEPT ![j] = q] /\ handed' = handed + 1
      /\ UNCHANGED <<listing, options, run, sent, minedNonce>>
    BY DEF PinProof
<1>2. job[j] \in Local /\ handed \in Nat /\ minedNonce \in Nat
    BY DEF ImportTypes
<1>3. "estimate" \in Step
    BY DEF Step, Holding
<1>4. q \in Local /\ q.step = "estimate" /\ q.nonce = handed /\ q.match = job[j].match
    <2> DEFINE e == "estimate"
               p == [job[j] EXCEPT !.step = e]
    <2>1. p \in Local /\ p.step = "estimate" /\ p.match = job[j].match
        BY <1>2, <1>3 DEF Local
    <2>2. q = [p EXCEPT !.nonce = handed]
        OBVIOUS
    <2> HIDE DEF p
    <2>3. handed \in Int
        BY <1>2
    <2> QED  BY <2>1, <2>2, <2>3 DEF Local
<1> HIDE DEF q
<1>5. \A i \in Job : job'[i] = IF i = j THEN q ELSE job[i]
    BY <1>1 DEF ImportTypes
<1>6. job[j].nonce = -1
    BY <1>1 DEF JobNonces, NoNonce
<1>7. minedNonce =< handed
    BY DEF ImportTypes
<1>8. ImportTypes'
    <2>1. job' \in [Job -> Local]
        BY <1>1, <1>4 DEF ImportTypes
    <2>2. \A i \in Job : job'[i].step \in Matched => job'[i].match \in {"full", "partial"}
        BY <1>1, <1>4, <1>5 DEF ImportTypes, Matched
    <2> QED  BY <1>1, <1>2, <2>1, <2>2 DEF ImportTypes
<1>9. Ahead'
    BY <1>1, <1>5 DEF Ahead
<1>10. JobNonces'
    BY <1>1, <1>2, <1>4, <1>5, <1>7 DEF JobNonces, NoNonce
<1>11. PoolNonces'
    BY <1>1, <1>2, <1>5 DEF PoolNonces
<1>12. GapsCovered'
    <2> SUFFICES ASSUME NEW n \in (minedNonce..handed - 1)'
                 PROVE  \E i \in Job :
                            /\ job'[i].nonce = n
                            /\ \/ [job |-> i, nonce |-> n] \in sent
                               \/ job'[i].step \in Holding \cup {"skipped", "failed"}
        BY <1>1 DEF GapsCovered
    <2>4. n \in minedNonce..handed
        BY <1>1, <1>2
    <2>1. CASE n = handed
        BY <1>4, <1>5, <2>1 DEF Holding
    <2>2. CASE n # handed
        <3>1. n \in minedNonce..handed - 1
            BY <1>2, <2>2, <2>4
        <3>2. PICK i \in Job :
                 /\ job[i].nonce = n
                 /\ \/ [job |-> i, nonce |-> n] \in sent
                    \/ job[i].step \in Holding \cup {"skipped", "failed"}
            BY <3>1 DEF GapsCovered
        <3>3. i # j
            BY <1>2, <1>6, <3>1, <3>2
        <3> QED  BY <1>5, <3>2, <3>3
    <2> QED  BY <2>1, <2>2
<1> QED  BY <1>8, <1>9, <1>10, <1>11, <1>12

\* A transaction reaches the mempool, whether its import hears of it or not.
LEMMA SendingKeeps ==
    ASSUME NonceInv, NEW j \in Job, NEW v \in {"wait", "failed"},
           job[j].step = "send",
           job' = [job EXCEPT ![j].step = v],
           sent' = sent \cup {[job |-> j, nonce |-> job[j].nonce]},
           UNCHANGED <<listing, options, run, handed, minedNonce>>
    PROVE  NonceInv'
<1> USE DEF NonceInv
<1> DEFINE q == [job[j] EXCEPT !.step = v]
<1>1. job[j] \in Local /\ handed \in Nat /\ minedNonce \in Nat
    BY DEF ImportTypes
<1>2. v \in Step
    BY DEF Step, Verdict
<1>3. q \in Local /\ q.step = v /\ q.nonce = job[j].nonce /\ q.match = job[j].match
    BY <1>1, <1>2 DEF Local
<1>4. job' = [job EXCEPT ![j] = q]
    OBVIOUS
<1> HIDE DEF q
<1>5. \A i \in Job : job'[i] = IF i = j THEN q ELSE job[i]
    BY <1>4 DEF ImportTypes
<1>6. \A i \in Job : job'[i].nonce = job[i].nonce
    BY <1>3, <1>5
<1>7. ImportTypes'
    <2>1. job' \in [Job -> Local]
        BY <1>3, <1>4 DEF ImportTypes
    <2>2. \A i \in Job : job'[i].step \in Matched => job'[i].match \in {"full", "partial"}
        BY <1>3, <1>5 DEF ImportTypes, Matched
    <2> QED  BY <2>1, <2>2 DEF ImportTypes
<1>8. Ahead'
    BY <1>5 DEF Ahead
<1>9. JobNonces'
    BY <1>3, <1>5, <1>6 DEF JobNonces, NoNonce, Holding
<1>10. PoolNonces'
    <2>1. job[j].nonce \in minedNonce..handed - 1
        BY <1>1 DEF JobNonces, Holding
    <2> SUFFICES ASSUME NEW t \in sent'
                 PROVE  /\ t.job \in Job
                        /\ t = [job |-> t.job, nonce |-> job'[t.job].nonce]
                        /\ job'[t.job].step \in {"wait", "failed"}
                        /\ t.nonce \in minedNonce..handed - 1
        BY DEF PoolNonces
    <2>2. CASE t \in sent
        BY <1>3, <1>5, <1>6, <2>2 DEF PoolNonces
    <2>3. CASE t = [job |-> j, nonce |-> job[j].nonce]
        BY <1>3, <1>5, <1>6, <2>1, <2>3
    <2> QED  BY <2>2, <2>3
<1>11. GapsCovered'
    <2> SUFFICES ASSUME NEW n \in minedNonce..handed - 1
                 PROVE  \E i \in Job :
                            /\ job'[i].nonce = n
                            /\ \/ [job |-> i, nonce |-> n] \in sent'
                               \/ job'[i].step \in Holding \cup {"skipped", "failed"}
        BY DEF GapsCovered
    <2>1. PICK i \in Job :
             /\ job[i].nonce = n
             /\ \/ [job |-> i, nonce |-> n] \in sent
                \/ job[i].step \in Holding \cup {"skipped", "failed"}
        BY DEF GapsCovered
    <2>2. CASE i = j
        BY <1>6, <2>1, <2>2
    <2>3. CASE i # j
        BY <1>5, <1>6, <2>1, <2>3
    <2> QED  BY <2>2, <2>3
<1> QED  BY <1>7, <1>8, <1>9, <1>10, <1>11

\* A transaction is sent, and its import waits for it.
LEMMA SendKeeps == \A j \in Job : NonceInv /\ Send(j) => NonceInv'
<1> SUFFICES ASSUME NEW j \in Job, NonceInv, Send(j) PROVE NonceInv'
    OBVIOUS
<1> QED  BY SendingKeeps DEF Send, Goes

\* An import fails, with or without its transaction sent.
LEMMA ImportFailsKeeps == \A j \in Job : NonceInv /\ ImportFails(j) => NonceInv'
<1> SUFFICES ASSUME NEW j \in Job, NonceInv, ImportFails(j) PROVE NonceInv'
    OBVIOUS
<1>1. /\ job' = [job EXCEPT ![j].step = "failed"]
      /\ job[j].step \notin Verdict \cup {"idle"}
      /\ UNCHANGED <<listing, options, run, handed, minedNonce>>
    BY DEF ImportFails, Settle, Running
<1>2. CASE UNCHANGED sent
    <2>1. "failed" \in Step
        BY DEF Step, Verdict
    <2> QED  BY <1>1, <1>2, <2>1, StepMoves DEF Matched, NoNonce, Holding
<1>3. CASE /\ job[j].step = "send"
           /\ sent' = sent \cup {[job |-> j, nonce |-> job[j].nonce]}
    BY <1>1, <1>3, SendingKeeps
<1> QED  BY <1>2, <1>3 DEF ImportFails

\* The next transaction is mined, whether the contract takes it or reverts.
LEMMA MineImportKeeps == \A t \in sent : NonceInv /\ MineImport(t) => NonceInv'
<1> SUFFICES ASSUME NEW t \in sent, NonceInv, MineImport(t) PROVE NonceInv'
    OBVIOUS
<1> USE DEF NonceInv
<1> DEFINE j == t.job
<1>1. /\ t.nonce = minedNonce /\ minedNonce' = minedNonce + 1 /\ sent' = sent \ {t}
      /\ UNCHANGED <<listing, options, run, handed>>
    BY DEF MineImport
<1>2. /\ j \in Job /\ t = [job |-> j, nonce |-> job[j].nonce]
      /\ job[j].step \in {"wait", "failed"} /\ t.nonce \in minedNonce..handed - 1
    BY DEF PoolNonces
<1>3. job[j] \in Local /\ handed \in Nat /\ minedNonce \in Nat
    BY <1>2 DEF ImportTypes
<1>4. job[j].nonce = minedNonce
    BY <1>1, <1>2
<1>5. PICK q \in Local :
         /\ job' = [job EXCEPT ![j] = q]
         /\ q.nonce = job[j].nonce
         /\ q.step \in {"full", "partial", "failed"}
    <2>1. CASE job[j].step = "wait"
        <3>1. job[j].match \in {"full", "partial"}
            BY <1>2, <2>1 DEF ImportTypes, Matched
        <3>2. PICK v \in {"full", "partial", "failed"} : job' = [job EXCEPT ![j].step = v]
            BY <2>1, <3>1 DEF MineImport, Receipt, Settle
        <3> DEFINE q == [job[j] EXCEPT !.step = v]
        <3>3. v \in Step
            BY DEF Step, Verdict
        <3>4. q \in Local /\ q.nonce = job[j].nonce /\ q.step = v
            BY <1>3, <3>3 DEF Local
        <3>5. job' = [job EXCEPT ![j] = q]
            BY <3>2
        <3> QED  BY <3>4, <3>5
    <2>2. CASE job[j].step # "wait"
        <3>1. job' = job
            BY <2>2 DEF MineImport, Receipt
        <3>2. job' = [job EXCEPT ![j] = job[j]]
            BY <3>1 DEF ImportTypes
        <3>3. job[j].step = "failed"
            BY <1>2, <2>2
        <3> QED  BY <1>3, <3>2, <3>3
    <2> QED  BY <2>1, <2>2
<1>6. \A i \in Job : job'[i] = IF i = j THEN q ELSE job[i]
    BY <1>5 DEF ImportTypes
<1>7. \A i \in Job : job'[i].nonce = job[i].nonce
    BY <1>5, <1>6
<1>8. \A i \in Job : job[i].nonce = minedNonce => i = j
    BY <1>2, <1>3, <1>4 DEF JobNonces
<1>9. ImportTypes'
    <2>1. job' \in [Job -> Local]
        BY <1>5 DEF ImportTypes
    <2>2. \A i \in Job : job'[i].step \in Matched => job'[i].match \in {"full", "partial"}
        BY <1>5, <1>6 DEF ImportTypes, Matched
    <2>3. minedNonce' \in Nat /\ minedNonce' =< handed'
        BY <1>1, <1>2, <1>3
    <2> QED  BY <1>1, <2>1, <2>2, <2>3 DEF ImportTypes
<1>10. Ahead'
    BY <1>1, <1>2, <1>6 DEF Ahead
<1>11. JobNonces'
    <2>1. \A i \in Job : job'[i].step \in NoNonce => job'[i].nonce = -1
        BY <1>5, <1>6 DEF JobNonces, NoNonce
    <2>2. \A i \in Job : job'[i].nonce \in -1..handed - 1
        BY <1>7 DEF JobNonces
    <2>3. \A i, k \in Job : job'[i].nonce = job'[k].nonce => i = k \/ job'[i].nonce = -1
        BY <1>7 DEF JobNonces
    <2>4. \A i \in Job : job'[i].step \in Holding => job'[i].nonce >= minedNonce + 1
        <3> SUFFICES ASSUME NEW i \in Job, job'[i].step \in Holding
                     PROVE  job'[i].nonce >= minedNonce + 1
            OBVIOUS
        <3>1. i # j /\ job[i].step \in Holding
            BY <1>5, <1>6 DEF Holding
        <3>2. job[i].nonce >= minedNonce /\ job[i].nonce \in Int /\ job[i].nonce # minedNonce
            BY <1>3, <1>8, <3>1 DEF JobNonces
        <3> QED  BY <1>3, <1>7, <3>2
    <2> QED  BY <1>1, <2>1, <2>2, <2>3, <2>4 DEF JobNonces
<1>12. PoolNonces'
    <2> SUFFICES ASSUME NEW u \in sent'
                 PROVE  /\ u.job \in Job
                        /\ u = [job |-> u.job, nonce |-> job'[u.job].nonce]
                        /\ job'[u.job].step \in {"wait", "failed"}
                        /\ u.nonce \in minedNonce + 1..handed - 1
        BY <1>1 DEF PoolNonces
    <2>1. u \in sent /\ u # t
        BY <1>1
    <2>2. /\ u.job \in Job /\ u = [job |-> u.job, nonce |-> job[u.job].nonce]
          /\ job[u.job].step \in {"wait", "failed"} /\ u.nonce \in minedNonce..handed - 1
        BY <2>1 DEF PoolNonces
    <2>3. u.job # j
        BY <1>2, <2>1, <2>2
    <2>4. u.nonce # minedNonce
        BY <1>8, <2>2, <2>3
    <2> QED  BY <1>3, <1>6, <2>2, <2>3, <2>4
<1>13. GapsCovered'
    <2> SUFFICES ASSUME NEW n \in (minedNonce..handed - 1)'
                 PROVE  \E i \in Job :
                            /\ job'[i].nonce = n
                            /\ \/ [job |-> i, nonce |-> n] \in sent'
                               \/ job'[i].step \in Holding \cup {"skipped", "failed"}
        BY <1>1 DEF GapsCovered
    <2>1. n \in minedNonce..handed - 1 /\ n # minedNonce
        BY <1>1, <1>3
    <2>2. PICK i \in Job :
             /\ job[i].nonce = n
             /\ \/ [job |-> i, nonce |-> n] \in sent
                \/ job[i].step \in Holding \cup {"skipped", "failed"}
        BY <2>1 DEF GapsCovered
    <2>3. i # j
        BY <1>4, <2>1, <2>2
    <2>4. [job |-> i, nonce |-> n] # t
        BY <1>2, <2>3
    <2> QED  BY <1>1, <1>6, <2>2, <2>3, <2>4
<1> QED  BY <1>9, <1>10, <1>11, <1>12, <1>13

\* A registration by another sender touches nothing of the importer.
LEMMA OthersKeep == NonceInv /\ UNCHANGED importOnly => NonceInv'
<1> SUFFICES ASSUME NonceInv, UNCHANGED importOnly PROVE NonceInv'
    OBVIOUS
<1> USE DEF NonceInv
<1>1. UNCHANGED <<listing, options, run, job, handed, sent, minedNonce>>
    BY DEF importOnly
<1>2. JobNonces' /\ PoolNonces' /\ GapsCovered'
    BY <1>1, NoncesStay
<1>3. ImportTypes'
    BY <1>1 DEF ImportTypes
<1>4. Ahead'
    BY <1>1 DEF Ahead
<1> QED  BY <1>2, <1>3, <1>4

\* Every step keeps it.
LEMMA NonceInvNext == NonceInv /\ [ImportNext]_importVars => NonceInv'
<1> SUFFICES ASSUME NonceInv, [ImportNext]_importVars PROVE NonceInv'
    OBVIOUS
<1>1. CASE ListChain
    BY <1>1, ListChainKeeps
<1>2. CASE StartBatch
    BY <1>2, StartBatchKeeps
<1>3. ASSUME NEW j \in Job, ImportStep(j) PROVE NonceInv'
    BY <1>3, ReadDetailKeeps, CompileKeeps, PinProofKeeps, EstimateKeeps, SendKeeps
       DEF ImportStep
<1>4. ASSUME NEW j \in Job, ImportFails(j) PROVE NonceInv'
    BY <1>4, ImportFailsKeeps
<1>5. ASSUME NEW t \in sent, MineImport(t) PROVE NonceInv'
    BY <1>5, MineImportKeeps
<1>6. CASE \E c \in CodeHash, k \in ChainId, a \in Address, s \in Sender :
              StrangerRegisters(c, k, a, s)
    BY <1>6, OthersKeep DEF StrangerRegisters
<1>7. CASE UNCHANGED importVars
    BY <1>7, OthersKeep DEF importVars
<1> QED  BY <1>1, <1>2, <1>3, <1>4, <1>5, <1>6, <1>7 DEF ImportNext

LEMMA NonceInvHolds == ImportSpec => []NonceInv
BY NonceInvInit, NonceInvNext, PTL DEF ImportSpec

\* Of the nonces handed out and not mined, each belongs to one import, and is in
\* the mempool, on its way there, or lost with an import that was refused or
\* failed (getNextNonce and submitProofManually in bulk-import.ts), whatever is
\* listed and whatever others register.
THEOREM NoncesExplained == ImportSpec => []NonceGapsExplained
BY NonceInvHolds, NonceInvExplains, PTL

-----------------------------------------------------------------------------
(* What the importer pins.                                                 *)

\* What importContract found of a contract before it went on to pin a proof.
Sound(j) ==
    /\ job[j].contract.code # <<>>
    /\ job[j].match = MatchOf(job[j].contract)
    /\ job[j].match = "partial" => ~options.fullOnly
    /\ ~options.dry

Early == {"idle", "detail", "code"}

\* A job has a match from the moment its proof is to be pinned; only such a job
\* is sent, or on record.
PinInv ==
    /\ \A j \in Job : job[j].match # "none" => Sound(j) /\ job[j].step \notin Early
    /\ \A t \in sent : t.job \in Job /\ job[t.job].match # "none"
    /\ \A j \in proofExists : j \in Job /\ job[j].match # "none"

\* A step that gives no job a match.
LEMMA MatchesStay ==
    ASSUME PinInv, options' = options,
           \A i \in Job : /\ job'[i].match = job[i].match
                          /\ job[i].match # "none" =>
                                /\ job'[i].contract = job[i].contract
                                /\ job'[i].step \notin Early,
           \A t \in sent' : t \in sent \/ (t.job \in Job /\ job[t.job].match # "none"),
           \A j \in proofExists' :
               j \in proofExists \/ (j \in Job /\ job[j].match # "none")
    PROVE  PinInv'
<1>1. ASSUME NEW i \in Job, job'[i].match # "none"
      PROVE  Sound(i)' /\ job'[i].step \notin Early
    <2>1. /\ job'[i].match = job[i].match /\ job'[i].contract = job[i].contract
          /\ job'[i].step \notin Early /\ Sound(i)
        BY <1>1 DEF PinInv
    <2> QED  BY <2>1 DEF Sound, MatchOf
<1>2. \A t \in sent' : t.job \in Job /\ job'[t.job].match # "none"
    BY DEF PinInv
<1>3. \A j \in proofExists' : j \in Job /\ job'[j].match # "none"
    BY DEF PinInv
<1> QED  BY <1>1, <1>2, <1>3 DEF PinInv, Early

\* ... among them the steps of one job.
LEMMA OneJobSteps ==
    ASSUME NonceInv, NEW j \in Job, NEW v,
           job' = [job EXCEPT ![j].step = v]
    PROVE  /\ job'[j].step = v
           /\ job'[j].match = job[j].match
           /\ job'[j].contract = job[j].contract
           /\ \A i \in Job \ {j} : job'[i] = job[i]
<1>1. job[j] \in Local
    BY DEF NonceInv, ImportTypes
<1>2. /\ [job[j] EXCEPT !.step = v].step = v
      /\ [job[j] EXCEPT !.step = v].match = job[j].match
      /\ [job[j] EXCEPT !.step = v].contract = job[j].contract
    BY <1>1 DEF Local
<1>3. job'[j] = [job[j] EXCEPT !.step = v] /\ \A i \in Job \ {j} : job'[i] = job[i]
    BY DEF NonceInv, ImportTypes
<1> QED  BY <1>2, <1>3

LEMMA StepPins ==
    ASSUME NonceInv, PinInv, options' = options, NEW j \in Job, NEW v,
           job' = [job EXCEPT ![j].step = v],
           v \in Early => job[j].match = "none",
           \A t \in sent' : t \in sent \/ (t.job \in Job /\ job[t.job].match # "none"),
           \A i \in proofExists' :
               i \in proofExists \/ (i \in Job /\ job[i].match # "none")
    PROVE  PinInv'
<1>1. \A i \in Job : /\ job'[i].match = job[i].match
                     /\ job[i].match # "none" =>
                           /\ job'[i].contract = job[i].contract
                           /\ job'[i].step \notin Early
    BY OneJobSteps DEF PinInv
<1> QED  BY <1>1, MatchesStay

LEMMA StartBatchPins == NonceInv /\ PinInv /\ StartBatch => PinInv'
<1> SUFFICES ASSUME NonceInv, PinInv, StartBatch PROVE PinInv'
    OBVIOUS
<1>1. UNCHANGED <<options, sent, proofExists>>
    BY DEF StartBatch, vars, proofVars
<1>2. CASE run.next = Len(run.contracts)
    BY <1>1, <1>2, MatchesStay DEF StartBatch, PinInv
<1>3. CASE run.next # Len(run.contracts)
    <2>1. \A i \in Job : job'[i] = IF Begins(i) THEN Fresh(i) ELSE job[i]
        BY <1>3, BatchBegins
    <2>2. \A i \in Job : Begins(i) => Fresh(i).match = "none" /\ job[i].step = "idle"
        BY <1>3, BatchBegins
    <2>3. \A i \in Job : Begins(i) => job[i].match = "none"
        BY <2>2 DEF PinInv, Early
    <2> QED  BY <1>1, <2>1, <2>2, <2>3, MatchesStay DEF PinInv
<1> QED  BY <1>2, <1>3

LEMMA ReadDetailPins == \A j \in Job : NonceInv /\ PinInv /\ ReadDetail(j) => PinInv'
<1> SUFFICES ASSUME NEW j \in Job, NonceInv, PinInv, ReadDetail(j) PROVE PinInv'
    OBVIOUS
<1>1. job[j].step = "detail" /\ UNCHANGED <<options, sent, proofExists>>
    BY DEF ReadDetail, vars, proofVars
<1>2. PICK v : job' = [job EXCEPT ![j].step = v]
    BY DEF ReadDetail, Settle, Goes
<1>3. job[j].match = "none"
    BY <1>1 DEF PinInv, Early
<1> QED  BY <1>1, <1>2, <1>3, StepPins

\* What it takes to go on and pin a proof.
LEMMA PinIsSound ==
    ASSUME NEW c, Judged(c) = "pin"
    PROVE  /\ c.code # <<>> /\ MatchOf(c) # "none"
           /\ MatchOf(c) = "partial" => ~options.fullOnly
           /\ ~options.dry
<1> DEFINE m == MatchOf(c)
           last == CASE m = "none" -> "skipped"
                     [] m = "partial" /\ options.fullOnly -> "skipped"
                     [] OTHER -> IF options.dry THEN m ELSE "pin"
<1>1. m # "pin"
    BY DEF MatchOf, Match
<1> HIDE DEF m
<1>2. CASE c.code = <<>>
    <2>1. Judged(c) = "skipped"
        BY <1>2 DEF Judged
    <2> QED  BY <2>1
<1>3. CASE c.code # <<>>
    <2>1. Judged(c) = last
        BY <1>3 DEF Judged, m
    <2>2. m # "none" /\ (m = "partial" => ~options.fullOnly) /\ ~options.dry
        BY <1>1, <2>1
    <2> QED  BY <1>3, <2>2 DEF m
<1> QED  BY <1>2, <1>3

\* The only step that gives a job its match.
LEMMA CompilePins == \A j \in Job : NonceInv /\ PinInv /\ Compile(j) => PinInv'
<1> SUFFICES ASSUME NEW j \in Job, NonceInv, PinInv, Compile(j) PROVE PinInv'
    OBVIOUS
<1> DEFINE c == job[j].contract
<1>1. job[j].step = "code" /\ UNCHANGED <<options, sent, proofExists>>
    BY DEF Compile, vars, proofVars
<1>2. job[j].match = "none"
    BY <1>1 DEF PinInv, Early
<1>3. CASE Judged(c) # "pin"
    <2>1. PICK v : job' = [job EXCEPT ![j].step = v]
        BY <1>3 DEF Compile, Settle
    <2> QED  BY <1>1, <1>2, <2>1, StepPins
<1>4. CASE Judged(c) = "pin"
    <2>1. /\ c.code # <<>> /\ MatchOf(c) # "none"
          /\ MatchOf(c) = "partial" => ~options.fullOnly
          /\ ~options.dry
        BY <1>4, PinIsSound
    <2> DEFINE m == MatchOf(c)
               q == [job[j] EXCEPT !.step = "pin", !.match = m]
    <2>2. job' = [job EXCEPT ![j] = q]
        BY <1>4 DEF Compile
    <2> HIDE DEF m
    <2>3. job[j] \in Local
        BY DEF NonceInv, ImportTypes
    <2>4. q.step = "pin" /\ q.match = m /\ q.contract = job[j].contract
        BY <2>3 DEF Local
    <2> HIDE DEF q
    <2>5. \A i \in Job : job'[i] = IF i = j THEN q ELSE job[i]
        BY <2>2 DEF NonceInv, ImportTypes
    <2>6. ASSUME NEW i \in Job, job'[i].match # "none"
          PROVE  Sound(i)' /\ job'[i].step \notin Early
        <3>1. CASE i = j
            BY <1>1, <2>1, <2>4, <2>5, <3>1 DEF Sound, MatchOf, Early, m
        <3>2. CASE i # j
            BY <1>1, <2>5, <2>6, <3>2 DEF Sound, MatchOf, PinInv
        <3> QED  BY <3>1, <3>2
    <2>7. \A i \in Job : job[i].match # "none" => job'[i].match # "none"
        BY <1>2, <2>5
    <2> QED  BY <1>1, <2>6, <2>7 DEF PinInv, Early
<1> QED  BY <1>3, <1>4

LEMMA PinProofPins == \A j \in Job : NonceInv /\ PinInv /\ PinProof(j) => PinInv'
<1> SUFFICES ASSUME NEW j \in Job, NonceInv, PinInv, PinProof(j) PROVE PinInv'
    OBVIOUS
<1> DEFINE p == [job[j] EXCEPT !.step = "estimate"]
           q == [p EXCEPT !.nonce = handed]
<1>1. job' = [job EXCEPT ![j] = q] /\ UNCHANGED <<options, sent, proofExists>>
    BY DEF PinProof, vars, proofVars
<1>2. job[j] \in Local
    BY DEF NonceInv, ImportTypes
<1>3. p \in Local /\ p.step = "estimate" /\ p.match = job[j].match
      /\ p.contract = job[j].contract
    BY <1>2 DEF Local, Step, Holding
<1> HIDE DEF p
<1>4. q.step = "estimate" /\ q.match = job[j].match /\ q.contract = job[j].contract
    BY <1>3 DEF Local
<1> HIDE DEF q
<1>5. \A i \in Job : job'[i] = IF i = j THEN q ELSE job[i]
    BY <1>1 DEF NonceInv, ImportTypes
<1>6. \A i \in Job : /\ job'[i].match = job[i].match
                     /\ job[i].match # "none" =>
                           /\ job'[i].contract = job[i].contract
                           /\ job'[i].step \notin Early
    BY <1>4, <1>5 DEF PinInv, Early
<1> QED  BY <1>1, <1>6, MatchesStay

LEMMA EstimatePins == \A j \in Job : NonceInv /\ PinInv /\ Estimate(j) => PinInv'
<1> SUFFICES ASSUME NEW j \in Job, NonceInv, PinInv, Estimate(j) PROVE PinInv'
    OBVIOUS
<1>1. UNCHANGED <<options, sent, proofExists>>
    BY DEF Estimate, vars, proofVars
<1>2. PICK v \in {"send", "skipped"} : job' = [job EXCEPT ![j].step = v]
    BY DEF Estimate, Settle, Goes
<1> QED  BY <1>1, <1>2, StepPins DEF Early

\* A job on its way to the mempool has a match.
LEMMA SendingHasMatch ==
    ASSUME NonceInv, NEW j \in Job, job[j].step = "send"
    PROVE  job[j].match # "none"
BY DEF NonceInv, ImportTypes, Matched

LEMMA SendPins == \A j \in Job : NonceInv /\ PinInv /\ Send(j) => PinInv'
<1> SUFFICES ASSUME NEW j \in Job, NonceInv, PinInv, Send(j) PROVE PinInv'
    OBVIOUS
<1>1. /\ UNCHANGED <<options, proofExists>> /\ job' = [job EXCEPT ![j].step = "wait"]
      /\ sent' = sent \cup {[job |-> j, nonce |-> job[j].nonce]}
    BY DEF Send, Goes, vars, proofVars
<1>2. job[j].match # "none"
    BY SendingHasMatch DEF Send
<1>3. \A t \in sent' : t \in sent \/ (t.job \in Job /\ job[t.job].match # "none")
    BY <1>1, <1>2
<1> QED  BY <1>1, <1>3, StepPins DEF Early

LEMMA ImportFailsPins == \A j \in Job : NonceInv /\ PinInv /\ ImportFails(j) => PinInv'
<1> SUFFICES ASSUME NEW j \in Job, NonceInv, PinInv, ImportFails(j) PROVE PinInv'
    OBVIOUS
<1>1. /\ UNCHANGED <<options, proofExists>> /\ job' = [job EXCEPT ![j].step = "failed"]
      /\ \/ sent' = sent
         \/ job[j].step = "send" /\ sent' = sent \cup {[job |-> j, nonce |-> job[j].nonce]}
    BY DEF ImportFails, Settle, vars, proofVars
<1>2. \A t \in sent' : t \in sent \/ (t.job \in Job /\ job[t.job].match # "none")
    BY <1>1, SendingHasMatch
<1> QED  BY <1>1, <1>2, StepPins DEF Early

\* Only the import whose transaction is mined gets on record.
LEMMA MineImportPins == \A t \in sent : NonceInv /\ PinInv /\ MineImport(t) => PinInv'
<1> SUFFICES ASSUME NEW t \in sent, NonceInv, PinInv, MineImport(t) PROVE PinInv'
    OBVIOUS
<1> DEFINE j == t.job
<1>1. j \in Job /\ job[j].match # "none"
    BY DEF PinInv
<1>2. options' = options /\ sent' \subseteq sent
    BY DEF MineImport
<1>3. proofExists' \subseteq proofExists \cup {j}
    BY DEF MineImport, SubmitProofAndRegister, WriteProof, vars, proofVars
<1>4. CASE job[j].step = "wait"
    <2>1. PICK v : v \in {job[j].match, "failed"} /\ job' = [job EXCEPT ![j].step = v]
        BY <1>4 DEF MineImport, Receipt, Settle
    <2>2. v \notin Early
        BY <1>1, <1>4, <2>1 DEF NonceInv, ImportTypes, Matched, Early
    <2> QED  BY <1>1, <1>2, <1>3, <2>1, <2>2, StepPins
<1>5. CASE job[j].step # "wait"
    <2>1. job' = job
        BY <1>5 DEF MineImport, Receipt
    <2> QED  BY <1>1, <1>2, <1>3, <2>1, MatchesStay DEF PinInv
<1> QED  BY <1>4, <1>5

LEMMA PinInvHolds == ImportSpec => []PinInv
<1>1. ImportInit => PinInv
    BY DEF ImportInit, Init, NoJob, PinInv
<1>2. NonceInv /\ PinInv /\ [ImportNext]_importVars => PinInv'
    <2> SUFFICES ASSUME NonceInv, PinInv, [ImportNext]_importVars PROVE PinInv'
        OBVIOUS
    <2>1. CASE ListChain
        BY <2>1, MatchesStay DEF ListChain, vars, proofVars, PinInv
    <2>2. CASE StartBatch
        BY <2>2, StartBatchPins
    <2>3. ASSUME NEW j \in Job, ImportStep(j) \/ ImportFails(j) PROVE PinInv'
        BY <2>3, ReadDetailPins, CompilePins, PinProofPins, EstimatePins, SendPins,
           ImportFailsPins DEF ImportStep
    <2>4. ASSUME NEW t \in sent, MineImport(t) PROVE PinInv'
        BY <2>4, MineImportPins
    <2>5. CASE \E c \in CodeHash, k \in ChainId, a \in Address, s \in Sender :
                  StrangerRegisters(c, k, a, s)
        <3>1. UNCHANGED <<options, job, sent, proofExists>>
            BY <2>5 DEF StrangerRegisters, RegisterDeployment, importOnly, proofVars
        <3> QED  BY <3>1, MatchesStay DEF PinInv
    <2>6. CASE UNCHANGED importVars
        <3>1. UNCHANGED <<options, job, sent, proofExists>>
            BY <2>6 DEF importVars, importOnly, vars, proofVars
        <3> QED  BY <3>1, MatchesStay DEF PinInv
    <2> QED  BY <2>1, <2>2, <2>3, <2>4, <2>5, <2>6 DEF ImportNext
<1> QED  BY <1>1, <1>2, NonceInvHolds, PTL DEF ImportSpec

\* Recompiling confirms a proof of the importer exactly if it was a full match,
\* whatever Blockscout lists: a proof is only made of deployed code that is there,
\* a match is what the comparison found, and FULL_ONLY lets no other through.
THEOREM ImportsReverify == ImportSpec => []ImportedReverifies
<1>1. PinInv => ImportedReverifies
    <2> SUFFICES ASSUME PinInv, NEW j \in proofExists
                 PROVE  /\ Reverifies(PayloadOf(j)) <=> job[j].match = "full"
                        /\ options.fullOnly => job[j].match = "full"
        BY DEF ImportedReverifies
    <2> DEFINE c == job[j].contract
    <2>1. Sound(j) /\ job[j].match # "none"
        BY DEF PinInv
    <2>2. job[j].match \in {"full", "partial"}
        BY <2>1 DEF Sound, MatchOf, Match
    <2>3. CASE c.compiler = "version"
        <3>1. job[j].match = "partial" /\ c.code # <<>>
            BY <2>1, <2>3 DEF Sound, MatchOf
        <3>2. Reverifies(PayloadOf(j)) => c.code = c.compiled /\ <<>> = c.compiled
            BY <2>3 DEF Reverifies, PayloadOf
        <3> QED  BY <2>1, <3>1, <3>2 DEF Sound
    <2>4. CASE c.compiler # "version"
        <3>1. job[j].match = "full" <=> c.compiled = c.code
            BY <2>1, <2>4 DEF Sound, MatchOf, Match
        <3>2. Reverifies(PayloadOf(j)) <=> c.code = c.compiled
            BY <2>4 DEF Reverifies, PayloadOf
        <3> QED  BY <2>1, <2>2, <3>1, <3>2 DEF Sound
    <2> QED  BY <2>3, <2>4
<1> QED  BY <1>1, PinInvHolds, PTL

-----------------------------------------------------------------------------
(* What the summary counts.                                                *)

\* The loop over CHAIN_IDS is at a chain of the list, and imports from what was
\* listed of it.
PlaceInv ==
    /\ run.place >= 1
    /\ run.step # "done" => run.place =< Len(options.chains)
    /\ run.step = "import" =>
          /\ options.chains[run.place] \in DOMAIN listing
          /\ Len(run.contracts) =< Len(SolidityOf(listing[options.chains[run.place]]))

LEMMA PlaceInvHolds == ImportSpec => []PlaceInv
<1>1. NonceInv /\ ImportInit => PlaceInv
    <2> SUFFICES ASSUME NonceInv, ImportInit PROVE PlaceInv
        OBVIOUS
    <2>1. Len(options.chains) \in Nat /\ run = ChainFrom(1)
        BY ImporterAssumption DEF ImportInit
    <2> QED  BY <2>1 DEF ChainFrom, PlaceInv
<1>2. NonceInv /\ PlaceInv /\ [ImportNext]_importVars => PlaceInv'
    <2> SUFFICES ASSUME NonceInv, PlaceInv, [ImportNext]_importVars PROVE PlaceInv'
        OBVIOUS
    <2>1. /\ Len(options.chains) \in Nat /\ run.place \in Nat
          /\ run \in [step : {"list", "import", "done"}, place : Nat,
                      contracts : Seq(Contract), next : Nat]
        BY ImporterAssumption DEF NonceInv, ImportTypes
    <2>2. ASSUME run' = NextChain, options' = options PROVE PlaceInv'
        BY <2>1, <2>2 DEF PlaceInv, NextChain, ChainFrom
    <2>3. CASE ListChain
        <3> DEFINE k == options.chains[run.place]
                   all == SolidityOf(listing[k])
                   chosen == Listed(k)
        <3>1. CASE run' = NextChain
            BY <2>2, <2>3, <3>1 DEF ListChain
        <3>2. CASE run' = [run EXCEPT !.step = "import", !.contracts = chosen]
                   /\ k \in DOMAIN listing
            <4>1. all \in Seq(Contract) /\ Len(all) \in Nat /\ options.limit \in Nat
                BY <3>2, ImporterAssumption DEF NonceInv, ImportTypes
            <4>2. Len(chosen) =< Len(all)
                BY <4>1 DEF Listed
            <4>3. /\ run'.step = "import" /\ run'.place = run.place
                  /\ run'.contracts = chosen /\ run.step = "list"
                <5> HIDE DEF chosen
                <5> QED  BY <2>1, <2>3, <3>2 DEF ListChain
            <4>4. UNCHANGED <<options, listing>>
                BY <2>3 DEF ListChain
            <4> HIDE DEF chosen
            <4> QED  BY <3>2, <4>2, <4>3, <4>4 DEF PlaceInv
        <3> QED  BY <2>3, <3>1, <3>2 DEF ListChain
    <2>4. CASE StartBatch
        <3>1. CASE run' = NextChain
            BY <2>2, <2>4, <3>1 DEF StartBatch
        <3>2. CASE run' = [run EXCEPT !.next = LastOfBatch]
            <4>1. /\ run'.step = run.step /\ run'.place = run.place
                  /\ run'.contracts = run.contracts
                BY <2>1, <3>2
            <4> QED  BY <2>4, <4>1 DEF StartBatch, PlaceInv
        <3> QED  BY <2>4, <3>1, <3>2 DEF StartBatch
    <2>5. CASE ~(ListChain \/ StartBatch)
        <3>1. UNCHANGED <<run, options, listing>>
            BY <2>5 DEF ImportNext, ImportStep, ReadDetail, Compile, PinProof, Estimate, Send,
                        ImportFails, MineImport, StrangerRegisters, importVars, importOnly
        <3> QED  BY <3>1 DEF PlaceInv
    <2> QED  BY <2>3, <2>4, <2>5
<1> QED  BY <1>1, <1>2, NonceInvInit, NonceInvHolds, PTL DEF ImportSpec

With(v) == {j \in Job : job[j].step = v}
Started == {j \in Job : job[j].step # "idle"}

TallyInv ==
    /\ tally = [total |-> tally.total, all |-> tally.all, chains |-> tally.chains]
    /\ tally.all \in [Verdict -> Nat]
    /\ \A v \in Verdict : IsFiniteSet(With(v)) /\ tally.all[v] = Cardinality(With(v))
    /\ IsFiniteSet(Started) /\ tally.total = Cardinality(Started)

SettlesNone ==
    \A i \in Job : \A v \in Verdict \cup {"idle"} :
        job'[i].step = v <=> job[i].step = v

\* A step that settles and starts no job.
LEMMA CountsStay ==
    ASSUME TallyInv, SettlesNone,
           tally'.total = tally.total, tally'.all = tally.all,
           tally' = [total |-> tally'.total, all |-> tally'.all, chains |-> tally'.chains]
    PROVE  TallyInv'
<1>1. \A v \in Verdict : With(v)' = With(v)
    BY DEF With, SettlesNone
<1>2. Started' = Started
    BY DEF Started, SettlesNone
<1> QED  BY <1>1, <1>2 DEF TallyInv

\* A verdict is counted for a job that had none.
LEMMA SettlingCounts ==
    ASSUME NonceInv, TallyInv, NEW j \in Job, NEW v \in Verdict, Settle(j, v),
           job[j].step \notin Verdict \cup {"idle"}
    PROVE  TallyInv'
<1>1. /\ job'[j].step = v
      /\ \A i \in Job \ {j} : job'[i] = job[i]
    BY OneJobSteps DEF Settle
<1>2. /\ tally'.total = tally.total
      /\ tally'.all = [tally.all EXCEPT ![v] = @ + 1]
      /\ tally' = [total |-> tally'.total, all |-> tally'.all, chains |-> tally'.chains]
    <2> DEFINE T == tally.total
               A == tally.all
               C == tally.chains
               B == [A EXCEPT ![v] = @ + 1]
               D == [C EXCEPT ![Chain(j)][v] = @ + 1]
    <2>1. tally = [total |-> T, all |-> A, chains |-> C]
        BY DEF TallyInv
    <2>2. tally' = [tally EXCEPT !.all = B, !.chains = D]
        BY DEF Settle, Count
    <2> HIDE DEF T, A, C, B, D
    <2>3. tally' = [total |-> T, all |-> B, chains |-> D]
        BY <2>1, <2>2
    <2> QED  BY <2>3 DEF T, A, B
<1>3. \A w \in Verdict \ {v} : With(w)' = With(w)
    BY <1>1 DEF With
<1>4. With(v)' = With(v) \cup {j} /\ j \notin With(v)
    BY <1>1 DEF With
<1>5. Started' = Started
    <2>1. "idle" \notin Verdict
        BY DEF Verdict
    <2> QED  BY <1>1, <2>1 DEF Started
<1>6. IsFiniteSet(With(v))' /\ Cardinality(With(v))' = Cardinality(With(v)) + 1
    <2>1. IsFiniteSet(With(v))
        BY DEF TallyInv
    <2> DEFINE S == With(v)
    <2> HIDE DEF S
    <2>2. /\ IsFiniteSet(S \cup {j})
          /\ j \notin S => Cardinality(S \cup {j}) = Cardinality(S) + 1
        <3>1. IsFiniteSet(S)
            BY <2>1 DEF S
        <3> QED  BY <3>1, FS_AddElement
    <2> QED  BY <1>4, <2>2 DEF S
<1>7. tally'.all \in [Verdict -> Nat]
    BY <1>2 DEF TallyInv
<1>8. tally'.all[v] = tally.all[v] + 1 /\ \A w \in Verdict \ {v} : tally'.all[w] = tally.all[w]
    BY <1>2 DEF TallyInv
<1>9. \A w \in Verdict : IsFiniteSet(With(w))' /\ tally'.all[w] = Cardinality(With(w))'
    BY <1>3, <1>6, <1>8 DEF TallyInv
<1>10. IsFiniteSet(Started)' /\ tally'.total = Cardinality(Started)'
    BY <1>2, <1>5 DEF TallyInv
<1> QED  BY <1>2, <1>7, <1>9, <1>10 DEF TallyInv

\* A batch starts as many jobs as it has places: each of them is a job.
LEMMA StartBatchCounts == NonceInv /\ PlaceInv /\ TallyInv /\ StartBatch => TallyInv'
<1> SUFFICES ASSUME NonceInv, PlaceInv, TallyInv, StartBatch PROVE TallyInv'
    OBVIOUS
<1>1. CASE run.next = Len(run.contracts)
    BY <1>1, CountsStay DEF StartBatch, TallyInv, SettlesNone
<1>2. CASE run.next # Len(run.contracts)
    <2> DEFINE a == run.next + 1
               b == LastOfBatch
               New == {run.place} \X (a..b)
    <2>1. /\ \A j \in Job : job'[j] = IF Begins(j) THEN Fresh(j) ELSE job[j]
          /\ b \in Nat /\ run.next \in Nat /\ run.next =< b /\ b =< Len(run.contracts)
          /\ \A j \in Job : Begins(j) => job[j].step = "idle" /\ Fresh(j).step = "detail"
        BY <1>2, BatchBegins DEF NonceInv, ImportTypes
    <2>2. New \subseteq Job
        <3> DEFINE k == options.chains[run.place]
                   all == SolidityOf(listing[k])
        <3>1. /\ run.place \in DOMAIN options.chains /\ k \in DOMAIN listing
              /\ Len(run.contracts) =< Len(all)
              /\ options \in Options /\ listing \in Listings
            <4>1. /\ DOMAIN options.chains = 1..Len(options.chains)
                  /\ Len(options.chains) \in Nat /\ run.place \in Nat /\ options \in Options
                  /\ listing \in Listings
                BY ImporterAssumption DEF NonceInv, ImportTypes
            <4>2. run.step = "import"
                BY DEF StartBatch
            <4>3. /\ run.place >= 1 /\ run.place =< Len(options.chains)
                  /\ k \in DOMAIN listing /\ Len(run.contracts) =< Len(all)
                BY <4>2 DEF PlaceInv
            <4>4. run.place \in DOMAIN options.chains
                BY <4>1, <4>3
            <4> QED  BY <4>1, <4>3, <4>4
        <3>2. {run.place} \X (1..Len(all)) \subseteq ProofHash
            BY <3>1, ImporterAssumption
        <3>3. Len(all) \in Nat /\ Len(run.contracts) \in Nat
            <4>1. all \in Seq(Contract) /\ run.contracts \in Seq(Contract)
                BY <3>1, ImporterAssumption DEF NonceInv, ImportTypes
            <4> QED  BY <4>1
        <3>4. a..b \subseteq 1..Len(all)
            BY <2>1, <3>1, <3>3
        <3> HIDE DEF a, b, all
        <3> QED  BY <3>2, <3>4 DEF Job
    <2>3. \A j \in Job : Begins(j) <=> j \in New
        BY ImporterAssumption DEF Begins, Job
    <2>4. Started' = Started \cup New /\ Started \cap New = {}
        <3> HIDE DEF New
        <3> QED  BY <2>1, <2>2, <2>3 DEF Started
    <2>5. IsFiniteSet(New) /\ Cardinality(New) = b - run.next
        <3>1. a \in Int /\ b \in Int /\ a =< b + 1
            BY <2>1
        <3>2. IsFiniteSet(a..b) /\ Cardinality(a..b) = b - run.next
            <4>1. /\ IsFiniteSet(a..b)
                  /\ Cardinality(a..b) = IF a > b THEN 0 ELSE b - a + 1
                BY <3>1, FS_Interval
            <4> QED  BY <2>1, <4>1
        <3>3. IsFiniteSet({run.place}) /\ Cardinality({run.place}) = 1
            BY FS_Singleton
        <3> DEFINE P == {run.place}
                   I == a..b
        <3> HIDE DEF P, I
        <3>4. /\ IsFiniteSet(P \X I)
              /\ Cardinality(P \X I) = Cardinality(P) * Cardinality(I)
            BY <3>2, <3>3, FS_Product DEF P, I
        <3>5. Cardinality(P) = 1 /\ Cardinality(I) = b - run.next /\ b - run.next \in Int
            BY <2>1, <3>2, <3>3 DEF P, I
        <3>6. Cardinality(P \X I) = b - run.next
            BY <3>4, <3>5
        <3> QED  BY <3>4, <3>6 DEF P, I
    <2> HIDE DEF New
    <2>6. IsFiniteSet(Started)' /\ Cardinality(Started)' = Cardinality(Started) + (b - run.next)
        <3>1. /\ IsFiniteSet(Started \cup New)
              /\ Cardinality(Started \cup New) =
                    Cardinality(Started) + Cardinality(New) - Cardinality(Started \cap New)
            BY <2>5, FS_Union DEF TallyInv
        <3>2. Cardinality(Started \cap New) = 0 /\ Cardinality(Started) \in Nat
            BY <2>4, FS_EmptySet, FS_CardinalityType DEF TallyInv
        <3>3. Cardinality(Started \cup New) = Cardinality(Started) + (b - run.next)
            BY <2>1, <2>5, <3>1, <3>2
        <3> QED  BY <2>4, <3>1, <3>3
    <2>7. /\ tally'.total = tally.total + b - run.next
          /\ tally'.all = tally.all
          /\ tally' = [total |-> tally'.total, all |-> tally'.all, chains |-> tally'.chains]
        <3> DEFINE T == tally.total
                   A == tally.all
                   C == tally.chains
                   N == T + b - run.next
        <3>1. tally = [total |-> T, all |-> A, chains |-> C]
            BY DEF TallyInv
        <3>2. tally' = [tally EXCEPT !.total = N]
            BY <1>2 DEF StartBatch
        <3> HIDE DEF T, A, C, N
        <3>3. tally' = [total |-> N, all |-> A, chains |-> C]
            BY <3>1, <3>2
        <3> QED  BY <3>3 DEF T, A, N
    <2>8. \A v \in Verdict : With(v)' = With(v)
        <3>1. "idle" \notin Verdict /\ "detail" \notin Verdict
            BY DEF Verdict
        <3> QED  BY <2>1, <3>1 DEF With
    <2>9. tally'.total = Cardinality(Started)'
        <3>1. Cardinality(Started) \in Nat /\ tally.total = Cardinality(Started)
            BY FS_CardinalityType DEF TallyInv
        <3> QED  BY <2>1, <2>6, <2>7, <3>1
    <2> QED  BY <2>6, <2>7, <2>8, <2>9 DEF TallyInv
<1> QED  BY <1>1, <1>2

\* What the steps of an import, and the failed ones, are to the counters: a
\* verdict for a job that is running, or nothing.
Settles(j) ==
    \/ \E v \in Verdict : Settle(j, v) /\ job[j].step \notin Verdict \cup {"idle"}
    \/ SettlesNone /\ UNCHANGED tally

LEMMA MovingSettlesNone ==
    ASSUME NonceInv, NEW j \in Job, NEW v, job' = [job EXCEPT ![j].step = v],
           v \notin Verdict \cup {"idle"}, job[j].step \notin Verdict \cup {"idle"}
    PROVE  SettlesNone
BY OneJobSteps DEF SettlesNone

LEMMA ImportSettles ==
    \A j \in Job : NonceInv /\ (ImportStep(j) \/ ImportFails(j)) => Settles(j)
<1> SUFFICES ASSUME NEW j \in Job, NonceInv, ImportStep(j) \/ ImportFails(j)
             PROVE  Settles(j)
    OBVIOUS
<1>0. "idle" \notin Verdict /\ {"detail", "code", "pin", "estimate", "send", "wait"} \cap Verdict = {}
    BY DEF Verdict
<1>1. CASE ReadDetail(j)
    <2>1. job[j].step \notin Verdict \cup {"idle"}
        BY <1>0, <1>1 DEF ReadDetail
    <2>2. \/ \E v \in Verdict : Settle(j, v)
          \/ Goes(j, "code")
        BY <1>1 DEF ReadDetail, Verdict
    <2> QED  BY <1>0, <2>1, <2>2, MovingSettlesNone DEF Goes, Settles
<1>2. CASE Compile(j)
    <2> DEFINE c == job[j].contract
    <2>1. job[j].step \notin Verdict \cup {"idle"}
        BY <1>0, <1>2 DEF Compile
    <2>2. CASE Judged(c) # "pin"
        <3>1. Judged(c) \in Verdict
            BY <2>2, JudgedTypes DEF NonceInv, ImportTypes, Verdict
        <3> QED  BY <1>2, <2>1, <2>2, <3>1, JudgedTypes DEF Compile, Settles
    <2>3. CASE Judged(c) = "pin"
        <3> DEFINE m == MatchOf(c)
                   q == [job[j] EXCEPT !.step = "pin", !.match = m]
        <3>1. job' = [job EXCEPT ![j] = q] /\ UNCHANGED tally
            BY <1>2, <2>3 DEF Compile
        <3> HIDE DEF m
        <3>2. q.step = "pin"
            BY DEF NonceInv, ImportTypes, Local
        <3> HIDE DEF q
        <3>3. \A i \in Job : job'[i] = IF i = j THEN q ELSE job[i]
            BY <3>1 DEF NonceInv, ImportTypes
        <3>4. SettlesNone
            BY <1>0, <2>1, <3>2, <3>3 DEF SettlesNone
        <3> QED  BY <3>1, <3>4 DEF Settles
    <2> QED  BY <2>2, <2>3
<1>3. CASE PinProof(j)
    <2> DEFINE p == [job[j] EXCEPT !.step = "estimate"]
               q == [p EXCEPT !.nonce = handed]
    <2>1. job' = [job EXCEPT ![j] = q] /\ UNCHANGED tally /\ job[j].step = "pin"
        BY <1>3 DEF PinProof
    <2>2. p \in Local /\ p.step = "estimate"
        BY DEF NonceInv, ImportTypes, Local, Step, Holding
    <2> HIDE DEF p
    <2>3. q.step = "estimate"
        BY <2>2 DEF Local
    <2> HIDE DEF q
    <2>4. \A i \in Job : job'[i] = IF i = j THEN q ELSE job[i]
        BY <2>1 DEF NonceInv, ImportTypes
    <2>5. SettlesNone
        BY <1>0, <2>1, <2>3, <2>4 DEF SettlesNone
    <2> QED  BY <2>1, <2>5 DEF Settles
<1>4. CASE Estimate(j)
    <2>1. job[j].step \notin Verdict \cup {"idle"} /\ "skipped" \in Verdict
        BY <1>0, <1>4 DEF Estimate, Verdict
    <2>2. Settle(j, "skipped") \/ Goes(j, "send")
        BY <1>4 DEF Estimate
    <2>3. CASE Settle(j, "skipped")
        BY <2>1, <2>3 DEF Settles
    <2>4. CASE Goes(j, "send")
        <3>1. "send" \notin Verdict \cup {"idle"}
            BY <1>0
        <3>2. job' = [job EXCEPT ![j].step = "send"] /\ UNCHANGED tally
            BY <2>4 DEF Goes
        <3> QED  BY <2>1, <3>1, <3>2, MovingSettlesNone DEF Settles
    <2> QED  BY <2>2, <2>3, <2>4
<1>5. CASE Send(j)
    <2>1. job[j].step \notin Verdict \cup {"idle"} /\ "wait" \notin Verdict \cup {"idle"}
        BY <1>0, <1>5 DEF Send
    <2>2. job' = [job EXCEPT ![j].step = "wait"] /\ UNCHANGED tally
        BY <1>5 DEF Send, Goes
    <2> QED  BY <2>1, <2>2, MovingSettlesNone DEF Settles
<1>6. CASE ImportFails(j)
    <2>1. job[j].step \notin Verdict \cup {"idle"} /\ Settle(j, "failed")
          /\ "failed" \in Verdict
        BY <1>6 DEF ImportFails, Running, Verdict
    <2> QED  BY <2>1 DEF Settles
<1> QED  BY <1>1, <1>2, <1>3, <1>4, <1>5, <1>6 DEF ImportStep

LEMMA MiningSettles == \A t \in sent : NonceInv /\ MineImport(t) => Settles(t.job)
<1> SUFFICES ASSUME NEW t \in sent, NonceInv, MineImport(t) PROVE Settles(t.job)
    OBVIOUS
<1> DEFINE j == t.job
<1>1. j \in Job
    BY DEF NonceInv, PoolNonces
<1>2. CASE job[j].step = "wait"
    <2>1. \E v \in Verdict : Settle(j, v)
        BY <1>1, <1>2 DEF MineImport, Receipt, NonceInv, ImportTypes, Matched, Verdict
    <2>2. job[j].step \notin Verdict \cup {"idle"}
        BY <1>2 DEF Verdict
    <2> QED  BY <2>1, <2>2 DEF Settles
<1>3. CASE job[j].step # "wait"
    BY <1>3 DEF MineImport, Receipt, Settles, SettlesNone
<1> QED  BY <1>2, <1>3

LEMMA SettlingJobsCount ==
    ASSUME NonceInv, TallyInv, NEW j \in Job, Settles(j) PROVE TallyInv'
<1>1. ASSUME SettlesNone, UNCHANGED tally PROVE TallyInv'
    BY <1>1, CountsStay DEF TallyInv
<1> QED  BY <1>1, SettlingCounts DEF Settles

LEMMA TallyInvHolds == ImportSpec => []TallyInv
<1>1. ImportInit => TallyInv
    <2> SUFFICES ASSUME ImportInit PROVE TallyInv
        OBVIOUS
    <2>1. \A j \in Job : job[j].step = "idle"
        BY DEF ImportInit, NoJob
    <2>2. Started = {} /\ \A v \in Verdict : With(v) = {}
        BY <2>1 DEF Started, With, Verdict
    <2>3. tally = [total |-> 0, all |-> Zeroes, chains |-> <<>>]
        BY DEF ImportInit
    <2> QED  BY <2>2, <2>3, FS_EmptySet DEF TallyInv, Zeroes
<1>2. NonceInv /\ PlaceInv /\ TallyInv /\ [ImportNext]_importVars => TallyInv'
    <2> SUFFICES ASSUME NonceInv, PlaceInv, TallyInv, [ImportNext]_importVars PROVE TallyInv'
        OBVIOUS
    <2>1. CASE ListChain
        <3> DEFINE T == tally.total
                   A == tally.all
                   C == tally.chains
        <3>1. tally = [total |-> T, all |-> A, chains |-> C]
            BY DEF TallyInv
        <3>2. job' = job /\ (tally' = tally \/ \E D : tally' = [tally EXCEPT !.chains = D])
            BY <2>1 DEF ListChain
        <3> HIDE DEF T, A, C
        <3>3. \E D : tally' = [total |-> T, all |-> A, chains |-> D]
            BY <3>1, <3>2
        <3>4. /\ tally'.total = tally.total /\ tally'.all = tally.all
              /\ tally' = [total |-> tally'.total, all |-> tally'.all,
                           chains |-> tally'.chains]
            BY <3>3 DEF T, A
        <3> QED  BY <3>2, <3>4, CountsStay DEF SettlesNone
    <2>2. CASE StartBatch
        BY <2>2, StartBatchCounts
    <2>3. ASSUME NEW j \in Job, ImportStep(j) \/ ImportFails(j) PROVE TallyInv'
        BY <2>3, ImportSettles, SettlingJobsCount
    <2>4. ASSUME NEW t \in sent, MineImport(t) PROVE TallyInv'
        <3>1. t.job \in Job
            BY DEF NonceInv, PoolNonces
        <3> QED  BY <2>4, <3>1, MiningSettles, SettlingJobsCount
    <2>5. CASE \E c \in CodeHash, k \in ChainId, a \in Address, s \in Sender :
                  StrangerRegisters(c, k, a, s)
        BY <2>5, CountsStay DEF StrangerRegisters, importOnly, TallyInv, SettlesNone
    <2>6. CASE UNCHANGED importVars
        BY <2>6, CountsStay DEF importVars, importOnly, TallyInv, SettlesNone
    <2> QED  BY <2>1, <2>2, <2>3, <2>4, <2>5, <2>6 DEF ImportNext
<1> QED  BY <1>1, <1>2, NonceInvHolds, PlaceInvHolds, PTL DEF ImportSpec

\* Every import is counted once, when it starts, and under one verdict, when it
\* ends, in whatever order the imports of a batch settle: with a batch cut short
\* by the end of the list, an import refused, reverted or failed.
LEMMA ImportsAreCounted == ImportSpec => []Counted
<1>1. TallyInv => Counted
    BY DEF TallyInv, Counted, With, Started
<1> QED  BY <1>1, TallyInvHolds, PTL

-----------------------------------------------------------------------------
(* The counters of each chain.                                             *)

Of(k, v) == {j \in With(v) : Chain(j) = k}

\* The chains with counters are those main has reached, one of which it imports.
Opened ==
    /\ \A k \in DOMAIN tally.chains : \E i \in DOMAIN options.chains :
          k = options.chains[i] /\ i =< run.place /\ (i = run.place => run.step = "import")
    /\ run.step = "import" => options.chains[run.place] \in DOMAIN tally.chains
    /\ \A j \in Job : job[j].step # "idle" => Chain(j) \in DOMAIN tally.chains

ChainsCounted ==
    /\ tally.chains \in [DOMAIN tally.chains -> [Verdict -> Nat]]
    /\ \A k \in DOMAIN tally.chains, v \in Verdict : tally.chains[k][v] = Cardinality(Of(k, v))

ShareInv == Distinct(options.chains) => Opened /\ ChainsCounted

\* A chain of which nothing was imported yet is opened, or passed over.
LEMMA ListChainShares ==
    NonceInv /\ PlaceInv /\ TallyInv /\ ShareInv /\ ListChain => ShareInv'
<1> SUFFICES ASSUME NonceInv, PlaceInv, TallyInv, ShareInv, ListChain,
                    Distinct(options.chains)
             PROVE  Opened' /\ ChainsCounted'
    BY DEF ListChain, ShareInv
<1> DEFINE k == options.chains[run.place]
           C == tally.chains
           D == [c \in DOMAIN C \cup {k} |-> IF c = k THEN Zeroes ELSE C[c]]
<1>1. /\ run.place \in DOMAIN options.chains /\ run.place \in Nat
      /\ DOMAIN options.chains \subseteq Nat
      /\ Len(options.chains) \in Nat
    <2>1. /\ options \in Options /\ run.place \in Nat /\ run.step = "list"
        BY DEF ListChain, NonceInv, ImportTypes
    <2>2. DOMAIN options.chains = 1..Len(options.chains) /\ Len(options.chains) \in Nat
        BY <2>1, ImporterAssumption
    <2> QED  BY <2>1, <2>2 DEF PlaceInv
<1>2. k \notin DOMAIN C
    BY <1>1 DEF ShareInv, Opened, Distinct, ListChain
<1>3. \A v \in Verdict : Of(k, v) = {}
    BY <1>2 DEF ShareInv, Opened, Of, With, Verdict
<1>4. UNCHANGED <<job, options>> /\ \A c, v : Of(c, v)' = Of(c, v)
    BY DEF ListChain, Of, With, Chain
<1>5. \/ tally' = tally /\ run' = NextChain
      \/ tally' = [tally EXCEPT !.chains = D]
         /\ (run' = NextChain \/ run' = [run EXCEPT !.step = "import", !.contracts = Listed(k)])
    BY DEF ListChain
<1>6. tally'.chains = C \/ tally'.chains = D
    <2> DEFINE T == tally.total
               A == tally.all
    <2>1. tally = [total |-> T, all |-> A, chains |-> C]
        BY DEF TallyInv
    <2> HIDE DEF T, A, C, D
    <2>2. tally' = [tally EXCEPT !.chains = D] => tally'.chains = D
        BY <2>1
    <2> QED  BY <1>5, <2>2 DEF C
<1>7. \/ run'.place = run.place + 1 /\ run'.step # "import" /\ run' = NextChain
      \/ run'.place = run.place /\ run'.step = "import" /\ tally'.chains = D
    <2> DEFINE chosen == Listed(k)
    <2>1. run \in [step : {"list", "import", "done"}, place : Nat,
                   contracts : Seq(Contract), next : Nat]
        BY DEF NonceInv, ImportTypes
    <2>2. CASE run' = NextChain
        BY <2>2 DEF NextChain, ChainFrom
    <2>3. CASE run' = [run EXCEPT !.step = "import", !.contracts = chosen]
               /\ tally' = [tally EXCEPT !.chains = D]
        <3>1. run'.place = run.place /\ run'.step = "import"
            <4> HIDE DEF chosen
            <4> QED  BY <2>1, <2>3
        <3>2. tally'.chains = D
            <4> DEFINE T == tally.total
                       A == tally.all
            <4>1. tally = [total |-> T, all |-> A, chains |-> C]
                BY DEF TallyInv
            <4> HIDE DEF T, A, C, D
            <4> QED  BY <2>3, <4>1
        <3> QED  BY <3>1, <3>2
    <2> QED  BY <1>5, <2>2, <2>3
<1>8. DOMAIN D = DOMAIN C \cup {k} /\ D[k] = Zeroes /\ \A c \in DOMAIN C : D[c] = C[c]
    BY <1>2
<1> HIDE DEF D
<1>9. Opened'
    <2>1. ASSUME NEW c \in DOMAIN (tally'.chains)
          PROVE  \E i \in DOMAIN options.chains : c = options.chains[i] /\ i =< run'.place
                                         /\ (i = run'.place => run'.step = "import")
        <3>1. CASE c \in DOMAIN C
            <4>1. PICK i \in DOMAIN options.chains :
                      c = options.chains[i] /\ i =< run.place
                      /\ (i = run.place => run.step = "import")
                BY <3>1 DEF ShareInv, Opened
            <4>2. i < run.place
                BY <1>1, <4>1 DEF ListChain
            <4> QED  BY <1>1, <1>7, <4>1, <4>2
        <3>2. CASE c = k
            BY <1>1, <1>7, <3>2
        <3> QED  BY <1>6, <1>8, <3>1, <3>2
    <2>2. run'.step = "import" => options.chains[run'.place] \in DOMAIN (tally'.chains)
        BY <1>7, <1>8
    <2>3. \A j \in Job : job[j].step # "idle" => Chain(j) \in DOMAIN (tally'.chains)
        BY <1>6, <1>8 DEF ShareInv, Opened
    <2> HIDE DEF k, C
    <2> QED  BY <1>4, <2>1, <2>2, <2>3 DEF Opened, Chain
<1>10. ChainsCounted'
    <2>1. C \in [DOMAIN C -> [Verdict -> Nat]]
          /\ \A c \in DOMAIN C, v \in Verdict : C[c][v] = Cardinality(Of(c, v))
        BY DEF ShareInv, ChainsCounted
    <2>2. \A v \in Verdict : Zeroes[v] = Cardinality(Of(k, v))
        BY <1>3, FS_EmptySet DEF Zeroes
    <2>3. Zeroes \in [Verdict -> Nat]
        BY DEF Zeroes
    <2>4. D \in [DOMAIN D -> [Verdict -> Nat]]
        <3>1. D = [c \in DOMAIN D |-> D[c]]
            BY DEF D
        <3>2. \A c \in DOMAIN D : D[c] \in [Verdict -> Nat]
            BY <1>8, <2>1, <2>3
        <3> QED  BY <3>1, <3>2
    <2>5. \A c \in DOMAIN D, v \in Verdict : D[c][v] = Cardinality(Of(c, v))
        BY <1>8, <2>1, <2>2
    <2> HIDE DEF k, C
    <2> QED  BY <1>4, <1>6, <2>1, <2>4, <2>5 DEF ChainsCounted, C
<1> QED  BY <1>9, <1>10

LEMMA StartBatchShares ==
    NonceInv /\ PlaceInv /\ ShareInv /\ TallyInv /\ StartBatch => ShareInv'
<1> SUFFICES ASSUME NonceInv, PlaceInv, ShareInv, TallyInv, StartBatch,
                    Distinct(options.chains)
             PROVE  Opened' /\ ChainsCounted'
    BY DEF StartBatch, ShareInv
<1>1. UNCHANGED options /\ tally'.chains = tally.chains
    <2> DEFINE T == tally.total
               A == tally.all
               C == tally.chains
               N == T + LastOfBatch - run.next
    <2>1. tally = [total |-> T, all |-> A, chains |-> C]
        BY DEF TallyInv
    <2>2. UNCHANGED options /\ (tally' = tally \/ tally' = [tally EXCEPT !.total = N])
        BY DEF StartBatch
    <2> HIDE DEF T, A, C, N
    <2>3. tally' = [tally EXCEPT !.total = N] => tally'.chains = C
        BY <2>1
    <2> QED  BY <2>2, <2>3 DEF C
<1>2. \/ run' = NextChain /\ run'.place = run.place + 1 /\ run'.step # "import" /\ job' = job
      \/ /\ run'.place = run.place /\ run'.step = "import" /\ run.next # Len(run.contracts)
         /\ run.step = "import"
    <2>1. run \in [step : {"list", "import", "done"}, place : Nat,
                   contracts : Seq(Contract), next : Nat]
        BY DEF NonceInv, ImportTypes
    <2>2. CASE run.next = Len(run.contracts)
        BY <2>2 DEF StartBatch, NextChain, ChainFrom
    <2>3. CASE run.next # Len(run.contracts)
        <3>1. run' = [run EXCEPT !.next = LastOfBatch]
            BY <2>3 DEF StartBatch
        <3>2. run'.place = run.place /\ run'.step = run.step
            BY <2>1, <3>1
        <3> QED  BY <2>3, <3>2 DEF StartBatch
    <2> QED  BY <2>2, <2>3
<1>3. /\ \A j \in Job : job'[j].step # "idle" => Chain(j) \in DOMAIN tally.chains
      /\ \A j \in Job : \A v \in Verdict : job'[j].step = v <=> job[j].step = v
    <2>1. CASE job' = job
        BY <2>1 DEF ShareInv, Opened
    <2>2. CASE run.step = "import" /\ run.next # Len(run.contracts)
        <3>1. /\ \A j \in Job : job'[j] = IF Begins(j) THEN Fresh(j) ELSE job[j]
              /\ \A j \in Job : Begins(j) => job[j].step = "idle" /\ Fresh(j).step = "detail"
            BY <2>2, BatchBegins
        <3>2. "idle" \notin Verdict /\ "detail" \notin Verdict
            BY DEF Verdict
        <3>3. \A j \in Job : Begins(j) => Chain(j) \in DOMAIN tally.chains
            BY <2>2 DEF Begins, Chain, ShareInv, Opened
        <3> QED  BY <3>1, <3>2, <3>3 DEF ShareInv, Opened
    <2> QED  BY <1>2, <2>1, <2>2
<1>4. \A c : \A v \in Verdict : Of(c, v)' = Of(c, v)
    BY <1>1, <1>3 DEF Of, With, Chain
<1>5. run.place \in Nat /\ DOMAIN options.chains \subseteq Nat
    BY ImporterAssumption DEF NonceInv, ImportTypes
<1>6. ASSUME NEW c \in DOMAIN tally.chains
      PROVE  \E i \in DOMAIN options.chains : c = options.chains[i] /\ i =< run'.place
                                         /\ (i = run'.place => run'.step = "import")
    <2>1. PICK i \in DOMAIN options.chains : c = options.chains[i] /\ i =< run.place
        BY DEF ShareInv, Opened
    <2> QED  BY <1>2, <1>5, <2>1
<1>7. run'.step = "import" => options.chains[run'.place] \in DOMAIN tally.chains
    BY <1>2 DEF ShareInv, Opened
<1>8. Opened'
    BY <1>1, <1>3, <1>6, <1>7 DEF Opened, Chain
<1>9. ChainsCounted'
    BY <1>1, <1>4 DEF ShareInv, ChainsCounted
<1> QED  BY <1>8, <1>9

\* A step of a job is counted for its chain.
LEMMA SettlingShares ==
    ASSUME NonceInv, TallyInv, ShareInv, NEW j \in Job, Settles(j), UNCHANGED <<run, options>>
    PROVE  ShareInv'
<1> SUFFICES ASSUME Distinct(options.chains) PROVE Opened' /\ ChainsCounted'
    BY DEF ShareInv
<1>1. CASE SettlesNone /\ UNCHANGED tally
    <2>1. \A c : \A v \in Verdict : Of(c, v)' = Of(c, v)
        BY <1>1 DEF SettlesNone, Of, With, Chain
    <2>2. \A i \in Job : job'[i].step # "idle" => job[i].step # "idle"
        BY <1>1 DEF SettlesNone
    <2> QED  BY <1>1, <2>1, <2>2 DEF ShareInv, Opened, ChainsCounted, Chain
<1>2. ASSUME NEW v \in Verdict, Settle(j, v), job[j].step \notin Verdict \cup {"idle"}
      PROVE  Opened' /\ ChainsCounted'
    <2> DEFINE k == Chain(j)
               C == tally.chains
               D == [C EXCEPT ![k][v] = @ + 1]
    <2>1. job'[j].step = v /\ \A i \in Job \ {j} : job'[i] = job[i]
        BY <1>2, OneJobSteps DEF Settle
    <2>2. tally'.chains = D
        <3> DEFINE T == tally.total
                   A == tally.all
                   B == [A EXCEPT ![v] = @ + 1]
        <3>1. tally = [total |-> T, all |-> A, chains |-> C]
            BY DEF TallyInv
        <3>2. tally' = [tally EXCEPT !.all = B, !.chains = D]
            BY <1>2 DEF Settle, Count
        <3> HIDE DEF T, A, B, C, D
        <3> QED  BY <3>1, <3>2
    <2>3. k \in DOMAIN C /\ C \in [DOMAIN C -> [Verdict -> Nat]]
        BY <1>2 DEF ShareInv, Opened, ChainsCounted
    <2>4. /\ DOMAIN D = DOMAIN C /\ D \in [DOMAIN C -> [Verdict -> Nat]]
          /\ D[k][v] = C[k][v] + 1
          /\ \A c \in DOMAIN C, w \in Verdict : c # k \/ w # v => D[c][w] = C[c][w]
        <3> HIDE DEF C, k
        <3> QED  BY <2>3
    <2>5. UNCHANGED Chain(j) /\ \A i \in Job : UNCHANGED Chain(i)
        BY DEF Chain
    <2>6. \A c : \A w \in Verdict : c # k \/ w # v => Of(c, w)' = Of(c, w)
        BY <1>2, <2>1, <2>5 DEF Of, With
    <2>7. \A c : c = k => Of(c, v)' = Of(c, v) \cup {j} /\ j \notin Of(c, v)
        BY <1>2, <2>1, <2>5 DEF Of, With
    <2>8. ASSUME NEW c, c = k
          PROVE  Cardinality(Of(c, v) \cup {j}) = Cardinality(Of(c, v)) + 1
        <3>1. IsFiniteSet(Of(c, v))
            <4>1. IsFiniteSet(With(v)) /\ Of(c, v) \subseteq With(v)
                BY DEF TallyInv, Of
            <4> QED  BY <4>1, FS_Subset
        <3> QED  BY <2>7, <2>8, <3>1, FS_AddElement
    <2>9. \A c \in DOMAIN C, w \in Verdict : D[c][w] = Cardinality(Of(c, w)')
        <3>1. \A c \in DOMAIN C, w \in Verdict : C[c][w] = Cardinality(Of(c, w))
            BY DEF ShareInv, ChainsCounted
        <3> HIDE DEF D, C, k
        <3> QED  BY <2>3, <2>4, <2>6, <2>7, <2>8, <3>1
    <2>10. \A i \in Job : job'[i].step # "idle" => Chain(i) \in DOMAIN C
        BY <2>1, <2>3 DEF ShareInv, Opened
    <2> HIDE DEF D, k
    <2>11. ChainsCounted'
        BY <2>2, <2>4, <2>9 DEF ChainsCounted
    <2>12. Opened'
        BY <2>2, <2>4, <2>10 DEF ShareInv, Opened, Chain
    <2> QED  BY <2>11, <2>12
<1> QED  BY <1>1, <1>2 DEF Settles

LEMMA ShareInvHolds == ImportSpec => []ShareInv
<1>1. ImportInit => ShareInv
    BY DEF ImportInit, ChainFrom, NoJob, ShareInv, Opened, ChainsCounted
<1>2. NonceInv /\ PlaceInv /\ TallyInv /\ ShareInv /\ [ImportNext]_importVars => ShareInv'
    <2> SUFFICES ASSUME NonceInv, PlaceInv, TallyInv, ShareInv, [ImportNext]_importVars
                 PROVE  ShareInv'
        OBVIOUS
    <2>1. CASE ListChain
        BY <2>1, ListChainShares
    <2>2. CASE StartBatch
        BY <2>2, StartBatchShares
    <2>3. ASSUME NEW j \in Job, ImportStep(j) \/ ImportFails(j) PROVE ShareInv'
        <3>1. UNCHANGED <<run, options>>
            BY <2>3 DEF ImportStep, ReadDetail, Compile, PinProof, Estimate, Send, ImportFails
        <3> QED  BY <2>3, <3>1, ImportSettles, SettlingShares
    <2>4. ASSUME NEW t \in sent, MineImport(t) PROVE ShareInv'
        <3>1. t.job \in Job /\ UNCHANGED <<run, options>>
            BY <2>4 DEF NonceInv, PoolNonces, MineImport
        <3> QED  BY <2>4, <3>1, MiningSettles, SettlingShares
    <2>5. CASE UNCHANGED importOnly
        BY <2>5 DEF importOnly, ShareInv, Opened, ChainsCounted, Of, With, Chain
    <2> QED  BY <2>1, <2>2, <2>3, <2>4, <2>5
             DEF ImportNext, StrangerRegisters, importVars, importOnly
<1> QED  BY <1>1, <1>2, NonceInvHolds, PlaceInvHolds, TallyInvHolds, PTL DEF ImportSpec

-----------------------------------------------------------------------------
(* What the summary calls imported is on record.                           *)

Registered(j) ==
    /\ j \in proofExists
    /\ <<job[j].contract.code, Chain(j), job[j].contract.address>> \in deploymentExists

RecordInv ==
    /\ ~options.dry => \A j \in Job : Imported(j) => Registered(j)
    /\ faults \in Nat
    /\ faults = 0 => /\ \A j \in proofExists : j \in Job /\ Imported(j)
                     /\ \A t \in sent : job[t.job].step = "wait"

\* A step of the importer in which no import ends well: the contract keeps what it
\* has, and no job that waits or is imported moves.
LEMMA RecordStays ==
    ASSUME NonceInv, RecordInv, options' = options, UNCHANGED proofExists,
           deploymentExists \subseteq deploymentExists', faults' \in Nat, faults =< faults',
           \A i \in Job : Imported(i) =>
               job'[i].step = job[i].step /\ job'[i].contract = job[i].contract,
           \A i \in Job : Imported(i)' => Imported(i) \/ options.dry,
           faults' = 0 => \A t \in sent' : job'[t.job].step = "wait"
    PROVE  RecordInv'
<1>1. faults' = 0 => faults = 0
    BY DEF RecordInv
<1>2. ~options.dry => \A i \in Job : Imported(i)' => Registered(i)'
    BY DEF RecordInv, Registered, Chain
<1>3. faults' = 0 => \A i \in proofExists : i \in Job /\ Imported(i)'
    BY <1>1 DEF RecordInv, Imported
<1> QED  BY <1>1, <1>2, <1>3 DEF RecordInv

\* ... among them the steps of one job before its transaction is sent.
LEMMA StepRecords ==
    ASSUME NonceInv, RecordInv, NEW j \in Job, NEW v,
           job' = [job EXCEPT ![j].step = v],
           UNCHANGED <<options, proofExists, deploymentExists, faults, sent>>,
           job[j].step \notin {"full", "partial", "wait"},
           v \in {"full", "partial"} => options.dry
    PROVE  RecordInv'
<1>1. /\ job'[j].step = v
      /\ \A i \in Job \ {j} : job'[i] = job[i]
    BY OneJobSteps
<1>2. \A i \in Job : Imported(i) =>
          job'[i].step = job[i].step /\ job'[i].contract = job[i].contract
    BY <1>1 DEF Imported
<1>3. \A i \in Job : Imported(i)' => Imported(i) \/ options.dry
    BY <1>1 DEF Imported
<1>4. faults' = 0 => \A t \in sent' : job'[t.job].step = "wait"
    BY <1>1 DEF RecordInv, NonceInv, PoolNonces
<1>5. faults' \in Nat /\ faults =< faults'
    BY DEF RecordInv
<1> QED  BY <1>2, <1>3, <1>4, <1>5, RecordStays

LEMMA StartBatchRecords == NonceInv /\ RecordInv /\ StartBatch => RecordInv'
<1> SUFFICES ASSUME NonceInv, RecordInv, StartBatch PROVE RecordInv'
    OBVIOUS
<1>1. UNCHANGED <<options, proofExists, deploymentExists, faults, sent>>
    BY DEF StartBatch, vars, proofVars, deploymentVars
<1>2. \A i \in Job :
          \/ job'[i] = job[i]
          \/ job[i].step = "idle" /\ job'[i].step = "detail"
    BY BatchBegins DEF StartBatch
<1>3. /\ \A i \in Job : Imported(i) =>
             job'[i].step = job[i].step /\ job'[i].contract = job[i].contract
      /\ \A i \in Job : Imported(i)' => Imported(i)
    BY <1>2 DEF Imported
<1>4. faults' = 0 => \A t \in sent' : job'[t.job].step = "wait"
    BY <1>1, <1>2 DEF RecordInv, NonceInv, PoolNonces
<1>5. faults' \in Nat /\ faults =< faults'
    BY <1>1 DEF RecordInv
<1> QED  BY <1>1, <1>3, <1>4, <1>5, RecordStays

\* A dry run ends where another would pin.
LEMMA ImportStepRecords ==
    \A j \in Job : NonceInv /\ RecordInv /\ ImportStep(j) => RecordInv'
<1> SUFFICES ASSUME NEW j \in Job, NonceInv, RecordInv, ImportStep(j) PROVE RecordInv'
    OBVIOUS
<1>0. UNCHANGED <<options, proofExists, deploymentExists, faults>>
    BY DEF ImportStep, ReadDetail, Compile, PinProof, Estimate, Send, vars, proofVars,
           deploymentVars
<1>1. CASE ReadDetail(j)
    <2>1. PICK v \in {"skipped", "failed", "code"} : job' = [job EXCEPT ![j].step = v]
        BY <1>1 DEF ReadDetail, Settle, Goes
    <2> QED  BY <1>0, <1>1, <2>1, StepRecords DEF ReadDetail
<1>2. CASE Compile(j)
    <2> DEFINE c == job[j].contract
    <2>1. CASE Judged(c) # "pin"
        <3>1. job' = [job EXCEPT ![j].step = Judged(c)]
            BY <1>2, <2>1 DEF Compile, Settle
        <3>2. Judged(c) \in {"full", "partial"} => options.dry
            BY DEF Judged
        <3> QED  BY <1>0, <1>2, <3>1, <3>2, StepRecords DEF Compile
    <2>2. CASE Judged(c) = "pin"
        <3> DEFINE m == MatchOf(c)
                   q == [job[j] EXCEPT !.step = "pin", !.match = m]
        <3>1. job' = [job EXCEPT ![j] = q]
            BY <1>2, <2>2 DEF Compile
        <3> HIDE DEF m
        <3>2. q.step = "pin"
            BY DEF NonceInv, ImportTypes, Local
        <3> HIDE DEF q
        <3>3. \A i \in Job : job'[i] = IF i = j THEN q ELSE job[i]
            BY <3>1 DEF NonceInv, ImportTypes
        <3>4. job[j].step = "code" /\ sent' = sent
            BY <1>2 DEF Compile
        <3>5. /\ \A i \in Job : Imported(i) =>
                     job'[i].step = job[i].step /\ job'[i].contract = job[i].contract
              /\ \A i \in Job : Imported(i)' => Imported(i)
            BY <3>2, <3>3, <3>4 DEF Imported
        <3>6. faults' = 0 => \A t \in sent' : job'[t.job].step = "wait"
            BY <1>0, <3>2, <3>3, <3>4 DEF RecordInv, NonceInv, PoolNonces
        <3>7. faults' \in Nat /\ faults =< faults'
            BY <1>0 DEF RecordInv
        <3> QED  BY <1>0, <3>5, <3>6, <3>7, RecordStays
    <2> QED  BY <2>1, <2>2
<1>3. CASE PinProof(j)
    <2> DEFINE p == [job[j] EXCEPT !.step = "estimate"]
               q == [p EXCEPT !.nonce = handed]
    <2>1. job' = [job EXCEPT ![j] = q] /\ job[j].step = "pin" /\ sent' = sent
        BY <1>3 DEF PinProof
    <2>2. p \in Local /\ p.step = "estimate"
        BY DEF NonceInv, ImportTypes, Local, Step, Holding
    <2> HIDE DEF p
    <2>3. q.step = "estimate"
        BY <2>2 DEF Local
    <2> HIDE DEF q
    <2>4. \A i \in Job : job'[i] = IF i = j THEN q ELSE job[i]
        BY <2>1 DEF NonceInv, ImportTypes
    <2>5. /\ \A i \in Job : Imported(i) =>
                 job'[i].step = job[i].step /\ job'[i].contract = job[i].contract
          /\ \A i \in Job : Imported(i)' => Imported(i)
        BY <2>1, <2>3, <2>4 DEF Imported
    <2>6. faults' = 0 => \A t \in sent' : job'[t.job].step = "wait"
        BY <1>0, <2>1, <2>3, <2>4 DEF RecordInv, NonceInv, PoolNonces
    <2>7. faults' \in Nat /\ faults =< faults'
        BY <1>0 DEF RecordInv
    <2> QED  BY <1>0, <2>5, <2>6, <2>7, RecordStays
<1>4. CASE Estimate(j)
    <2>1. PICK v \in {"skipped", "send"} : job' = [job EXCEPT ![j].step = v]
        BY <1>4 DEF Estimate, Settle, Goes
    <2> QED  BY <1>0, <1>4, <2>1, StepRecords DEF Estimate
<1>5. CASE Send(j)
    <2>1. /\ job' = [job EXCEPT ![j].step = "wait"] /\ job[j].step = "send"
          /\ sent' = sent \cup {[job |-> j, nonce |-> job[j].nonce]}
        BY <1>5 DEF Send, Goes
    <2>2. job'[j].step = "wait" /\ \A i \in Job \ {j} : job'[i] = job[i]
        BY <2>1, OneJobSteps
    <2>3. /\ \A i \in Job : Imported(i) =>
                 job'[i].step = job[i].step /\ job'[i].contract = job[i].contract
          /\ \A i \in Job : Imported(i)' => Imported(i)
        BY <2>1, <2>2 DEF Imported
    <2>4. faults' = 0 => \A t \in sent' : job'[t.job].step = "wait"
        <3> SUFFICES ASSUME faults = 0, NEW t \in sent' PROVE job'[t.job].step = "wait"
            BY <1>0
        <3>1. t \in sent => t.job \in Job /\ job[t.job].step = "wait"
            BY DEF RecordInv, NonceInv, PoolNonces
        <3>2. t \notin sent => t.job = j
            BY <2>1
        <3> QED  BY <2>2, <3>1, <3>2
    <2>5. faults' \in Nat /\ faults =< faults'
        BY <1>0 DEF RecordInv
    <2> QED  BY <1>0, <2>3, <2>4, <2>5, RecordStays
<1> QED  BY <1>1, <1>2, <1>3, <1>4, <1>5 DEF ImportStep

LEMMA ImportFailsRecords ==
    \A j \in Job : NonceInv /\ RecordInv /\ ImportFails(j) => RecordInv'
<1> SUFFICES ASSUME NEW j \in Job, NonceInv, RecordInv, ImportFails(j) PROVE RecordInv'
    OBVIOUS
<1>1. /\ UNCHANGED <<options, proofExists, deploymentExists>>
      /\ job' = [job EXCEPT ![j].step = "failed"] /\ faults' = faults + 1
      /\ job[j].step \notin Verdict
    BY DEF ImportFails, Settle, Running, vars, proofVars, deploymentVars
<1>2. job'[j].step = "failed" /\ \A i \in Job \ {j} : job'[i] = job[i]
    BY <1>1, OneJobSteps
<1>3. /\ \A i \in Job : Imported(i) =>
             job'[i].step = job[i].step /\ job'[i].contract = job[i].contract
      /\ \A i \in Job : Imported(i)' => Imported(i)
    BY <1>1, <1>2 DEF Imported, Verdict
<1>4. faults' \in Nat /\ faults =< faults' /\ faults' # 0
    BY <1>1 DEF RecordInv
<1> QED  BY <1>1, <1>3, <1>4, RecordStays

\* The transaction lands: its import waits for it, or has failed before.
LEMMA MineImportRecords ==
    \A t \in sent : NonceInv /\ PinInv /\ RecordInv /\ MineImport(t) => RecordInv'
<1> SUFFICES ASSUME NEW t \in sent, NonceInv, PinInv, RecordInv, MineImport(t)
             PROVE  RecordInv'
    OBVIOUS
<1> DEFINE j == t.job
           c == job[j].contract
<1>1. /\ j \in Job /\ t = [job |-> j, nonce |-> job[j].nonce]
      /\ job[j].step \in {"wait", "failed"}
    BY DEF NonceInv, PoolNonces
<1>2. /\ UNCHANGED <<options, faults>> /\ sent' = sent \ {t} /\ faults' \in Nat
    BY DEF MineImport, RecordInv
<1>3. \A u \in sent' : u \in sent /\ u.job \in Job /\ u.job # j
    BY <1>1, <1>2 DEF NonceInv, PoolNonces
<1>4. CASE ~TakesImport(j)
    <2>1. UNCHANGED <<proofExists, deploymentExists>>
        BY <1>4 DEF MineImport, vars, proofVars, deploymentVars
    <2>2. \A i \in Job :
              \/ job'[i] = job[i]
              \/ i = j /\ job[i].step = "wait" /\ job'[i].step = "failed"
        <3>1. CASE job[j].step = "wait"
            <4>1. job' = [job EXCEPT ![j].step = "failed"]
                BY <1>4, <3>1 DEF MineImport, Receipt, Settle
            <4> QED  BY <1>1, <3>1, <4>1, OneJobSteps
        <3>2. CASE job[j].step # "wait"
            BY <3>2 DEF MineImport, Receipt
        <3> QED  BY <3>1, <3>2
    <2>3. /\ \A i \in Job : Imported(i) =>
                 job'[i].step = job[i].step /\ job'[i].contract = job[i].contract
          /\ \A i \in Job : Imported(i)' => Imported(i)
        BY <2>2 DEF Imported
    <2>4. faults' = 0 => \A u \in sent' : job'[u.job].step = "wait"
        BY <1>2, <1>3, <2>2 DEF RecordInv
    <2>5. faults =< faults'
        BY <1>2 DEF RecordInv
    <2> QED  BY <1>2, <2>1, <2>3, <2>4, <2>5, RecordStays
<1>5. CASE TakesImport(j)
    <2>1. /\ proofExists' = proofExists \cup {j}
          /\ deploymentExists' = deploymentExists \cup {<<c.code, Chain(j), c.address>>}
        BY <1>5 DEF MineImport, SubmitProofAndRegister, WriteProof, WriteDeployment
    <2>2. CASE job[j].step = "wait"
        <3>1. job[j].match \in {"full", "partial"}
            BY <1>1, <2>2 DEF NonceInv, ImportTypes, Matched
        <3>2. job' = [job EXCEPT ![j].step = job[j].match]
            BY <1>5, <2>2 DEF MineImport, Receipt, Settle
        <3>3. /\ job'[j].step = job[j].match /\ job'[j].contract = job[j].contract
              /\ \A i \in Job \ {j} : job'[i] = job[i]
            BY <1>1, <3>2, OneJobSteps
        <3>4. Imported(j)' /\ Registered(j)'
            BY <1>2, <2>1, <3>1, <3>3 DEF Imported, Registered, Chain
        <3>5. ASSUME ~options.dry, NEW i \in Job, Imported(i)' PROVE Registered(i)'
            <4>1. CASE i # j
                BY <1>2, <2>1, <3>3, <3>5, <4>1 DEF RecordInv, Imported, Registered, Chain
            <4> QED  BY <3>4, <4>1
        <3>6. ASSUME faults = 0, NEW i \in proofExists' PROVE i \in Job /\ Imported(i)'
            <4>1. CASE i # j
                <5>1. i \in Job /\ Imported(i)
                    BY <2>1, <3>6, <4>1 DEF RecordInv
                <5> QED  BY <3>3, <4>1, <5>1 DEF Imported
            <4> QED  BY <1>1, <3>4, <4>1
        <3>7. ASSUME faults = 0, NEW u \in sent' PROVE job'[u.job].step = "wait"
            BY <1>3, <3>3, <3>7 DEF RecordInv
        <3> QED  BY <1>2, <3>5, <3>6, <3>7 DEF RecordInv
    <2>3. CASE job[j].step = "failed"
        <3>1. job' = job /\ faults # 0
            BY <2>3 DEF MineImport, Receipt, RecordInv
        <3>2. ~options.dry => \A i \in Job : Imported(i)' => Registered(i)'
            BY <1>2, <2>1, <3>1 DEF RecordInv, Imported, Registered, Chain
        <3> QED  BY <1>2, <3>1, <3>2 DEF RecordInv
    <2> QED  BY <1>1, <2>2, <2>3
<1> QED  BY <1>4, <1>5

LEMMA RecordInvHolds == ImportSpec => []RecordInv
<1>1. ImportInit => RecordInv
    BY DEF ImportInit, Init, NoJob, RecordInv, Imported
<1>2. NonceInv /\ PinInv /\ RecordInv /\ [ImportNext]_importVars => RecordInv'
    <2> SUFFICES ASSUME NonceInv, PinInv, RecordInv, [ImportNext]_importVars
                 PROVE  RecordInv'
        OBVIOUS
    <2>0. ASSUME UNCHANGED <<options, job, sent, proofExists>>,
                 deploymentExists \subseteq deploymentExists', faults' \in Nat,
                 faults =< faults'
          PROVE  RecordInv'
        <3>1. faults' = 0 => \A t \in sent' : job'[t.job].step = "wait"
            BY <2>0 DEF RecordInv
        <3>2. \A i \in Job : Imported(i)' => Imported(i)
            BY <2>0 DEF Imported
        <3> QED  BY <2>0, <3>1, <3>2, RecordStays
    <2>1. CASE ListChain
        <3>1. UNCHANGED <<options, job, sent, proofExists, deploymentExists>>
            BY <2>1 DEF ListChain, vars, proofVars, deploymentVars
        <3>2. faults' \in Nat /\ faults =< faults'
            BY <2>1 DEF ListChain, RecordInv
        <3> QED  BY <2>0, <3>1, <3>2
    <2>2. CASE StartBatch
        BY <2>2, StartBatchRecords
    <2>3. ASSUME NEW j \in Job, ImportStep(j) \/ ImportFails(j) PROVE RecordInv'
        BY <2>3, ImportStepRecords, ImportFailsRecords
    <2>4. ASSUME NEW t \in sent, MineImport(t) PROVE RecordInv'
        BY <2>4, MineImportRecords
    <2>5. CASE \E c \in CodeHash, k \in ChainId, a \in Address, s \in Sender :
                  StrangerRegisters(c, k, a, s)
        <3>1. /\ UNCHANGED <<options, job, sent, faults, proofExists>>
              /\ deploymentExists \subseteq deploymentExists'
            BY <2>5 DEF StrangerRegisters, RegisterDeployment, WriteDeployment, importOnly,
                        proofVars
        <3> QED  BY <2>0, <3>1 DEF RecordInv
    <2>6. CASE UNCHANGED importVars
        <3>1. UNCHANGED <<options, job, sent, faults, proofExists, deploymentExists>>
            BY <2>6 DEF importVars, importOnly, vars, proofVars, deploymentVars
        <3> QED  BY <2>0, <3>1 DEF RecordInv
    <2> QED  BY <2>1, <2>2, <2>3, <2>4, <2>5, <2>6 DEF ImportNext
<1> QED  BY <1>1, <1>2, NonceInvHolds, PinInvHolds, PTL DEF ImportSpec

\* What the summary counts as imported has its proof and its deployment in the
\* contract, whatever other senders register meanwhile; when no request failed the
\* contract holds no other proof of the importer, and after a dry run it holds none.
LEMMA ImportsAreOnRecord == ImportSpec => []OnRecord
<1>1. PinInv /\ RecordInv => OnRecord
    <2> SUFFICES ASSUME PinInv, RecordInv PROVE OnRecord
        OBVIOUS
    <2>1. options.dry => proofExists = {}
        BY DEF PinInv, Sound
    <2> QED  BY <2>1 DEF RecordInv, OnRecord, Registered
<1> QED  BY <1>1, PinInvHolds, RecordInvHolds, PTL

\* The summary of an import tells what happened, for any listing, environment,
\* faults and strangers: every import is counted once, under one verdict, in all
\* and for its chain; what counts as imported is on record with its deployment,
\* and in a run without a failed request nothing else is.
THEOREM SummaryIsRight == ImportSpec => []StatsAddUp
<1>1. TallyInv /\ ShareInv => ChainsAddUp
    <2> SUFFICES ASSUME TallyInv, ShareInv, Distinct(options.chains) PROVE ChainsAddUp
        BY DEF ChainsAddUp
    <2>1. \A j \in Job : Settled(j) => Chain(j) \in DOMAIN tally.chains
        BY DEF Settled, Verdict, ShareInv, Opened
    <2>2. \A k, v : Of(k, v) = {j \in Job : job[j].step = v /\ Chain(j) = k}
        BY DEF Of, With
    <2> QED  BY <2>1, <2>2 DEF ChainsAddUp, ShareInv, ChainsCounted
<1> QED  BY <1>1, TallyInvHolds, ShareInvHolds, ImportsAreCounted, ImportsAreOnRecord, PTL
         DEF StatsAddUp

-----------------------------------------------------------------------------
(* Proxy detection.                                                        *)

Questions == Slot \cup {"implementation()", "done"}
Answers == {"none", "failed", "not a proxy"} \cup Slot

\* What the slots and the beacon hold is among what they held during the call.
HeldInv ==
    /\ slots \in [Slot -> Content]
    /\ beacon \in Content
    /\ held \in [Slot \cup {"beacon"} -> SUBSET Content]
    /\ \A s \in Slot : slots[s] \in held[s]
    /\ beacon \in held["beacon"]

\* A call that has come to a slot found the slots before it of no use.
AskedInv ==
    /\ detection \in [step : Questions, answer : Answers, address : Content,
                      fault : BOOLEAN]
    /\ detection.step \in {"erc1967-beacon", "implementation()", "erc1822"} =>
          PassedOver("erc1967")
    /\ detection.step = "implementation()" =>
          held["erc1967-beacon"] \cap Implementation # {}
    /\ detection.step = "erc1822" => PassedOver("erc1967-beacon")

\* An answer is given at the end of the call.
AnswerInv ==
    /\ ProxyExplained
    /\ detection.step # "done" => detection.answer = "none"

ProxyInv == HeldInv /\ AskedInv /\ AnswerInv

\* A step of the call that asks the next question.
LEMMA AskingKeeps ==
    ASSUME ProxyInv, NEW q \in Questions \ {"done"}, Continues(q),
           UNCHANGED <<slots, beacon, held>>,
           q \in {"erc1967-beacon", "implementation()", "erc1822"} => PassedOver("erc1967"),
           q = "implementation()" => held["erc1967-beacon"] \cap Implementation # {},
           q = "erc1822" => PassedOver("erc1967-beacon"), detection.step # "done"
    PROVE  ProxyInv'
<1>1. /\ detection'.step = q /\ detection'.fault = detection.fault
      /\ detection' \in [step : Questions, answer : Answers, address : Content,
                         fault : BOOLEAN]
    BY DEF ProxyInv, AskedInv, Continues
<1>2. \A s \in Slot : PassedOver(s)' <=> PassedOver(s)
    BY <1>1 DEF PassedOver
<1>3. {"erc1967", "erc1967-beacon"} \subseteq Slot
    BY DEF Slot
<1>4. detection.step # "done" /\ detection'.answer = detection.answer
    BY DEF ProxyInv, AskedInv, Continues
<1>5. HeldInv' /\ AskedInv'
    BY <1>1, <1>2, <1>3 DEF ProxyInv, HeldInv, AskedInv
<1>6. detection'.answer = "none"
    BY <1>4 DEF ProxyInv, AnswerInv
<1>7. AnswerInv'
    BY <1>6 DEF AnswerInv, ProxyExplained
<1> QED  BY <1>5, <1>7 DEF ProxyInv

\* A step of the call that ends it.
LEMMA EndingKeeps ==
    ASSUME ProxyInv, NEW a \in Answers \ {"none"}, NEW v \in Content, Ends(a, v),
           UNCHANGED <<slots, beacon, held>>,
           a = "erc1967" => v \in held["erc1967"],
           a = "erc1967-beacon" =>
              /\ v \in held["beacon"]
              /\ PassedOver("erc1967")
              /\ held["erc1967-beacon"] \cap Implementation # {},
           a = "erc1822" =>
              /\ v \in held["erc1822"]
              /\ PassedOver("erc1967") /\ PassedOver("erc1967-beacon"),
           a = "not a proxy" => \A s \in Slot : PassedOver(s)
    PROVE  ProxyInv'
<1>1. /\ detection'.step = "done" /\ detection'.answer = a /\ detection'.address = v
      /\ detection'.fault = detection.fault
      /\ detection' \in [step : Questions, answer : Answers, address : Content,
                         fault : BOOLEAN]
    BY DEF ProxyInv, AskedInv, Ends, Questions
<1>2. \A s \in Slot : PassedOver(s)' <=> PassedOver(s)
    BY <1>1 DEF PassedOver
<1>3. {"erc1967", "erc1967-beacon"} \subseteq Slot
    BY DEF Slot
<1>4. HeldInv'
    BY DEF ProxyInv, HeldInv
<1>5. AskedInv'
    BY <1>1 DEF AskedInv
<1>6. AnswerInv'
    BY <1>1, <1>2, <1>3 DEF AnswerInv, ProxyExplained
<1> QED  BY <1>4, <1>5, <1>6 DEF ProxyInv

LEMMA ReadSlotKeeps == \A s \in Slot : ProxyInv /\ ReadSlot(s) => ProxyInv'
<1> SUFFICES ASSUME NEW s \in Slot, ProxyInv, ReadSlot(s) PROVE ProxyInv'
    OBVIOUS
<1>1. /\ detection.step = s /\ UNCHANGED <<slots, beacon, held>>
      /\ slots[s] \in held[s] /\ slots[s] \in Content
      /\ s \in {"erc1967", "erc1967-beacon", "erc1822"}
    BY DEF ReadSlot, ProxyInv, HeldInv, Slot
<1>2. /\ s \in {"erc1967-beacon", "erc1822"} => PassedOver("erc1967")
      /\ s = "erc1822" => PassedOver("erc1967-beacon")
    BY <1>1 DEF ProxyInv, AskedInv
<1>3. 0 \in Content /\ {"failed", "not a proxy"} \cup Slot \subseteq Answers \ {"none"}
    BY DEF Content, Answers, Slot
<1>4. CASE slots[s] = Dirty /\ Ends("failed", 0)
    <2> QED  BY <1>1, <1>3, <1>4, EndingKeeps
<1>5. CASE slots[s] = 0 /\ s = "erc1822" /\ Ends("not a proxy", 0)
    <2>1. \A x \in Slot : PassedOver(x)
        BY <1>1, <1>2, <1>5 DEF Slot, PassedOver
    <2> QED  BY <1>1, <1>3, <1>5, <2>1, EndingKeeps
<1>6. CASE slots[s] = 0 /\ s # "erc1822" /\ Continues(After(s))
    <2>1. PassedOver(s)
        BY <1>1, <1>6 DEF PassedOver
    <2>2. /\ After(s) \in {"erc1967-beacon", "erc1822"}
          /\ After(s) = "erc1967-beacon" => s = "erc1967"
          /\ After(s) = "erc1822" => s = "erc1967-beacon"
        BY <1>1, <1>6 DEF After
    <2>3. After(s) \in Questions \ {"done"}
        BY <2>2 DEF Questions, Slot
    <2> QED  BY <1>1, <1>2, <1>6, <2>1, <2>2, <2>3, AskingKeeps
<1>7. CASE Holds(slots[s]) /\ s = "erc1967-beacon" /\ Continues("implementation()")
    <2>1. held["erc1967-beacon"] \cap Implementation # {}
        BY <1>1, <1>7 DEF Holds
    <2>2. "implementation()" \in Questions \ {"done"}
        BY DEF Questions
    <2> QED  BY <1>1, <1>2, <1>7, <2>1, <2>2, AskingKeeps
<1>8. CASE Holds(slots[s]) /\ s # "erc1967-beacon" /\ Ends(s, slots[s])
    <2>1. s \in Answers \ {"none"} /\ s # "failed" /\ s # "not a proxy"
        BY <1>1, <1>3
    <2> QED  BY <1>1, <1>2, <1>8, <2>1, EndingKeeps
<1> QED  BY <1>4, <1>5, <1>6, <1>7, <1>8 DEF ReadSlot

LEMMA AskBeaconKeeps == ProxyInv /\ AskBeacon => ProxyInv'
<1> SUFFICES ASSUME ProxyInv, AskBeacon PROVE ProxyInv'
    OBVIOUS
<1>1. /\ detection.step = "implementation()" /\ UNCHANGED <<slots, beacon, held>>
      /\ beacon \in held["beacon"] /\ beacon \in Content
    BY DEF AskBeacon, ProxyInv, HeldInv
<1>2. PassedOver("erc1967") /\ held["erc1967-beacon"] \cap Implementation # {}
    BY <1>1 DEF ProxyInv, AskedInv
<1>3. CASE Holds(beacon)
    <2>1. Ends("erc1967-beacon", beacon)
        BY <1>3 DEF AskBeacon
    <2>2. "erc1967-beacon" \in Answers \ {"none"}
        BY DEF Answers, Slot
    <2> QED  BY <1>1, <1>2, <2>1, <2>2, EndingKeeps
<1>4. CASE ~Holds(beacon)
    <2>1. Continues("erc1822")
        BY <1>4 DEF AskBeacon
    <2>3. beacon \in held["beacon"] \cap {0, Dirty}
        BY <1>1, <1>4 DEF Holds, Content
    <2>4. PassedOver("erc1967-beacon")
        BY <1>2, <2>3 DEF PassedOver
    <2>2. "erc1822" \in Questions \ {"done"}
        BY DEF Questions, Slot
    <2> QED  BY <1>1, <1>2, <2>1, <2>2, <2>4, AskingKeeps
<1> QED  BY <1>3, <1>4

LEMMA ReadFailsKeeps == ProxyInv /\ ReadFails => ProxyInv'
<1> SUFFICES ASSUME ProxyInv, ReadFails PROVE ProxyInv'
    OBVIOUS
<1>1. UNCHANGED <<slots, beacon, held>>
    BY DEF ReadFails
<1>2. HeldInv'
    BY <1>1 DEF ProxyInv, HeldInv
<1>3. CASE detection.step = "implementation()"
    <2>1. /\ detection' = [detection EXCEPT !.step = "erc1822", !.fault = TRUE]
          /\ PassedOver("erc1967") /\ held["erc1967-beacon"] \cap Implementation # {}
        BY <1>3 DEF ReadFails, ProxyInv, AskedInv
    <2>2. /\ detection'.step = "erc1822" /\ detection'.fault
          /\ detection' \in [step : Questions, answer : Answers, address : Content,
                             fault : BOOLEAN]
        BY <2>1 DEF ProxyInv, AskedInv, Questions, Slot
    <2>3. PassedOver("erc1967")' /\ PassedOver("erc1967-beacon")'
        BY <1>1, <2>1, <2>2 DEF PassedOver
    <2>4. detection'.answer = "none"
        BY <1>3, <2>1 DEF ProxyInv, AskedInv, AnswerInv
    <2>5. AnswerInv'
        BY <2>4 DEF AnswerInv, ProxyExplained
    <2> QED  BY <1>2, <2>2, <2>3, <2>5 DEF ProxyInv, AskedInv
<1>4. CASE detection.step # "implementation()"
    <2>1. detection' = [detection EXCEPT !.step = "done", !.answer = "failed", !.fault = TRUE]
        BY <1>4 DEF ReadFails
    <2>2. /\ detection'.step = "done" /\ detection'.answer = "failed" /\ detection'.fault
          /\ detection' \in [step : Questions, answer : Answers, address : Content,
                             fault : BOOLEAN]
        BY <2>1 DEF ProxyInv, AskedInv, Questions, Answers
    <2> QED  BY <1>2, <2>2 DEF ProxyInv, AskedInv, AnswerInv, ProxyExplained
<1> QED  BY <1>3, <1>4

\* An upgrade only adds to what was held.
LEMMA UpgradeKeeps ==
    ASSUME ProxyInv, UNCHANGED detection, HeldInv',
           \A x \in Slot \cup {"beacon"} : held[x] \subseteq held'[x]
    PROVE  ProxyInv'
<1>1. {"erc1967", "erc1967-beacon", "erc1822"} \subseteq Slot
    BY DEF Slot
<1>2. \A s \in Slot : PassedOver(s) => PassedOver(s)'
    BY DEF PassedOver
<1>3. AskedInv'
    BY <1>1, <1>2 DEF ProxyInv, AskedInv
<1>4. AnswerInv'
    BY <1>1, <1>2 DEF ProxyInv, AnswerInv, ProxyExplained
<1> QED  BY <1>3, <1>4 DEF ProxyInv

\* detectProxy's answer is explained by what the slots and the beacon held during
\* the call, however often the contract or its beacon is upgraded between the reads
\* and whatever request fails.
THEOREM DetectionsAreExplained == ProxySpec => []ProxyExplained
<1>1. ProxyInit => ProxyInv
    <2> SUFFICES ASSUME ProxyInit PROVE ProxyInv
        OBVIOUS
    <2>1. /\ detection = [step |-> "erc1967", answer |-> "none", address |-> 0,
                          fault |-> FALSE]
          /\ "erc1967" \in Questions /\ "none" \in Answers /\ 0 \in Content
        BY DEF ProxyInit, Questions, Answers, Slot, Content
    <2>2. AskedInv /\ AnswerInv
        BY <2>1 DEF AskedInv, AnswerInv, ProxyExplained
    <2>3. HeldInv
        BY DEF ProxyInit, HeldInv, Slot
    <2> QED  BY <2>2, <2>3 DEF ProxyInv
<1>2. ProxyInv /\ [ProxyNext]_proxyVars => ProxyInv'
    <2> SUFFICES ASSUME ProxyInv, [ProxyNext]_proxyVars PROVE ProxyInv'
        OBVIOUS
    <2>1. ASSUME NEW s \in Slot, ReadSlot(s) PROVE ProxyInv'
        BY <2>1, ReadSlotKeeps
    <2>2. CASE AskBeacon
        BY <2>2, AskBeaconKeeps
    <2>3. CASE ReadFails
        BY <2>3, ReadFailsKeeps
    <2>4. ASSUME NEW s \in Slot, NEW v \in Content, UpgradeSlot(s, v) PROVE ProxyInv'
        <3>1. "beacon" \notin Slot
            BY DEF Slot
        <3>2. /\ UNCHANGED <<beacon, detection>> /\ slots' = [slots EXCEPT ![s] = v]
              /\ held' = [held EXCEPT ![s] = @ \cup {v}]
            BY <2>4 DEF UpgradeSlot
        <3>3. HeldInv'
            BY <3>1, <3>2 DEF ProxyInv, HeldInv
        <3>4. \A x \in Slot \cup {"beacon"} : held[x] \subseteq held'[x]
            BY <3>2 DEF ProxyInv, HeldInv
        <3> QED  BY <3>2, <3>3, <3>4, UpgradeKeeps
    <2>5. ASSUME NEW v \in Content, UpgradeBeacon(v) PROVE ProxyInv'
        <3>1. /\ UNCHANGED <<slots, detection>> /\ beacon' = v
              /\ held' = [held EXCEPT !["beacon"] = @ \cup {v}]
            BY <2>5 DEF UpgradeBeacon
        <3>2. HeldInv'
            BY <3>1 DEF ProxyInv, HeldInv
        <3>3. \A x \in Slot \cup {"beacon"} : held[x] \subseteq held'[x]
            BY <3>1 DEF ProxyInv, HeldInv
        <3> QED  BY <3>1, <3>2, <3>3, UpgradeKeeps
    <2>6. CASE UNCHANGED proxyVars
        <3>1. UNCHANGED <<slots, beacon, detection, held>>
            BY <2>6 DEF proxyVars
        <3>2. HeldInv'
            BY <3>1 DEF ProxyInv, HeldInv
        <3> QED  BY <3>1, <3>2, UpgradeKeeps
    <2> QED  BY <2>1, <2>2, <2>3, <2>4, <2>5, <2>6 DEF ProxyNext
<1>3. ProxyInv => ProxyExplained
    BY DEF ProxyInv, AnswerInv
<1> QED  BY <1>1, <1>2, <1>3, PTL DEF ProxySpec

-----------------------------------------------------------------------------
(* The hooks. *)

\* A non-empty set of numbers has a least one.
LEMMA LeastPlace ==
    ASSUME NEW S \in SUBSET Nat, S # {}
    PROVE  FirstPlace(S) \in S /\ \A j \in S : FirstPlace(S) =< j
<1> DEFINE R == {ss \in Nat \X Nat : ss[1] < ss[2]}
<1>1. R = OpToRel(<, Nat)
      BY DEF OpToRel
<1>2. IsWellFoundedOn(R, Nat)
      BY <1>1, NatLessThanWellFounded, Zenon
<1>3. PICK i \in S : \A j \in S : ~(<<j, i>> \in R)
  <2> HIDE DEF R
  <2> QED
      BY <1>2, WFMin
<1>4. \A j \in S : i =< j
  <2> TAKE j \in S
  <2>1. j \in Nat /\ i \in Nat
        OBVIOUS
  <2>2. ~(j < i)
        BY <1>3, <2>1
  <2> QED
      BY <2>1, <2>2
<1> QED
    BY <1>4 DEF FirstPlace

\* What a chain of ?? gives: 0 only if all its sources are absent, the first
\* of them if that is there.
LEMMA FirstGiven ==
    ASSUME NEW S, 0 \in S, NEW s \in Seq(S)
    PROVE  /\ FirstOf(s) \in S
           /\ s # <<>> /\ s[1] # 0 => FirstOf(s) = s[1]
           /\ \A n \in DOMAIN s : (s[n] # 0 /\ \A m \in DOMAIN s : m < n => s[m] = 0) => FirstOf(s) = s[n]
<1> DEFINE given == {i \in DOMAIN s : s[i] # 0}
<1>1. /\ given \in SUBSET Nat /\ given \subseteq DOMAIN s
      /\ DOMAIN s = 1..Len(s) /\ Len(s) \in Nat
      /\ \A n \in DOMAIN s : s[n] \in S
      OBVIOUS
<1>2. FirstOf(s) = IF given = {} THEN 0 ELSE s[FirstPlace(given)]
      BY DEF FirstOf
<1>3. given # {} => /\ FirstPlace(given) \in given
                    /\ \A j \in given : FirstPlace(given) =< j
      BY <1>1, LeastPlace
<1>4. FirstOf(s) \in S
      BY <1>1, <1>2, <1>3
<1>5. ASSUME NEW n \in DOMAIN s, s[n] # 0, \A m \in DOMAIN s : m < n => s[m] = 0
      PROVE  FirstOf(s) = s[n]
  <2>1. n \in given
        BY <1>5
  <2>2. FirstPlace(given) \in given /\ FirstPlace(given) =< n
        BY <1>3, <2>1
  <2>3. FirstPlace(given) = n
        BY <1>1, <1>5, <2>2
  <2> QED
      BY <1>2, <2>1, <2>3
<1>6. s # <<>> /\ s[1] # 0 => FirstOf(s) = s[1]
  <2> SUFFICES ASSUME s # <<>>, s[1] # 0 PROVE FirstOf(s) = s[1]
      OBVIOUS
  <2>1. 1 \in DOMAIN s /\ \A m \in DOMAIN s : ~(m < 1)
        BY <1>1
  <2> QED
      BY <1>5, <2>1
<1> QED
    BY <1>4, <1>5, <1>6

\* It takes nothing only if nothing is given; otherwise one with nothing before it.
LEMMA FirstFound ==
    ASSUME NEW s, DOMAIN s \in SUBSET Nat
    PROVE  \/ FirstOf(s) = 0 /\ \A n \in DOMAIN s : s[n] = 0
           \/ \E n \in DOMAIN s : /\ s[n] # 0 /\ FirstOf(s) = s[n]
                                  /\ \A m \in DOMAIN s : m < n => s[m] = 0
<1> DEFINE given == {i \in DOMAIN s : s[i] # 0}
           p == FirstPlace(given)
<1>1. FirstOf(s) = IF given = {} THEN 0 ELSE s[p]
      BY DEF FirstOf
<1>2. given \in SUBSET Nat /\ \A m \in DOMAIN s : m \in given <=> s[m] # 0
      OBVIOUS
<1>3. given \subseteq DOMAIN s
      OBVIOUS
<1> HIDE DEF given
<1>4. CASE given = {}
      BY <1>1, <1>2, <1>4
<1>5. CASE given # {}
  <2>1. p \in given /\ \A j \in given : p =< j
        BY <1>2, <1>5, LeastPlace
  <2> HIDE DEF p
  <2>2. p \in Nat /\ p \in DOMAIN s /\ s[p] # 0 /\ FirstOf(s) = s[p]
        BY <1>1, <1>2, <1>3, <1>5, <2>1
  <2>3. ASSUME NEW m \in DOMAIN s, m < p, s[m] # 0
        PROVE  FALSE
    <3>1. m \in Nat /\ p =< m
          BY <1>2, <2>1, <2>3
    <3> QED
        BY <2>2, <2>3, <3>1
  <2> QED
      BY <2>2, <2>3
<1> QED
    BY <1>4, <1>5

\* Of two, it takes the first unless that is absent.
LEMMA FirstOfTwo ==
    ASSUME NEW S, NEW x \in S, NEW y \in S
    PROVE  FirstOf(<<x, y>>) = IF x # 0 THEN x ELSE y
<1> DEFINE s == <<x, y>>
<1>1. DOMAIN s = 1..2 /\ s[1] = x /\ s[2] = y
      OBVIOUS
<1> HIDE DEF s
<1>2. DOMAIN s \in SUBSET Nat /\ \A n \in DOMAIN s : n = 1 \/ n = 2
      BY <1>1
<1>3. 1 \in DOMAIN s /\ 2 \in DOMAIN s
      BY <1>1
<1>4. CASE FirstOf(s) = 0 /\ \A n \in DOMAIN s : s[n] = 0
      BY <1>1, <1>3, <1>4 DEF s
<1>5. CASE \E n \in DOMAIN s : /\ s[n] # 0 /\ FirstOf(s) = s[n]
                              /\ \A m \in DOMAIN s : m < n => s[m] = 0
  <2>1. PICK n \in DOMAIN s : /\ s[n] # 0 /\ FirstOf(s) = s[n]
                              /\ \A m \in DOMAIN s : m < n => s[m] = 0
        BY <1>5
  <2>2. CASE n = 1
        BY <1>1, <2>1, <2>2 DEF s
  <2>3. CASE n = 2
    <3>1. s[1] = 0
          BY <1>3, <2>1, <2>3
    <3> QED
        BY <1>1, <2>1, <2>3, <3>1 DEF s
  <2> QED
      BY <1>2, <2>2, <2>3
<1> QED
    BY <1>2, <1>4, <1>5, FirstFound

\* The first candidate of the reversed list is the last creation that is, or may
\* be, the contract's; there is at most one.
LEMMA CandidateIsLast ==
    ASSUME NEW txs \in Seq(Transaction)
    PROVE  /\ \/ Candidate(txs) = NoTransaction /\ \A i \in DOMAIN txs : ~IsLastCreation(txs, i)
              \/ \E i \in DOMAIN txs : IsLastCreation(txs, i) /\ Candidate(txs) = txs[i]
           /\ \A i, j \in DOMAIN txs :
                 IsLastCreation(txs, i) /\ IsLastCreation(txs, j) => i = j
<1> DEFINE back == [i \in DOMAIN txs |-> txs[Len(txs) + 1 - i]]
           fit == {i \in DOMAIN back : IsCandidate(back[i])}
           p == FirstPlace(fit)
           n == Len(txs) + 1 - p
           last == Creations(txs, "mine") \cup Creations(txs, "")
<1>1. /\ DOMAIN back = DOMAIN txs /\ DOMAIN txs = 1..Len(txs) /\ Len(txs) \in Nat
      /\ fit \in SUBSET Nat
      /\ \A i \in 1..Len(txs) : back[i] = txs[Len(txs) + 1 - i]
      /\ \A i : i \in fit <=> i \in 1..Len(txs) /\ IsCandidate(back[i])
      OBVIOUS
<1>2. Candidate(txs) = IF fit = {} THEN NoTransaction ELSE back[p]
      BY DEF Candidate, Found
<1>3. \A i : i \in last <=> i \in 1..Len(txs) /\ IsCandidate(txs[i])
      BY <1>1 DEF Creations, IsCandidate
<1>4. \A i : IsLastCreation(txs, i) <=> i \in last /\ \A j \in last : j =< i
      BY DEF IsLastCreation
<1> HIDE DEF back, fit, last
<1>5. ASSUME NEW i, NEW j, IsLastCreation(txs, i), IsLastCreation(txs, j)
      PROVE  i = j
  <2>1. i \in last /\ j \in last /\ i =< j /\ j =< i
        BY <1>4, <1>5
  <2>2. i \in Nat /\ j \in Nat
        BY <1>1, <1>3, <2>1
  <2> QED
      BY <2>1, <2>2
<1>6. CASE fit = {}
  <2>1. ASSUME NEW i \in last PROVE FALSE
    <3> DEFINE q == Len(txs) + 1 - i
    <3>1. q \in 1..Len(txs) /\ Len(txs) + 1 - q = i
          BY <1>1, <1>3, <2>1
    <3>2. q \in fit
          BY <1>1, <1>3, <2>1, <3>1
    <3> QED
        BY <1>6, <3>2
  <2> QED
      BY <1>2, <1>4, <1>5, <1>6, <2>1
<1>7. CASE fit # {}
  <2>1. p \in fit /\ \A j \in fit : p =< j
        BY <1>1, <1>7, LeastPlace
  <2>2. /\ p \in 1..Len(txs) /\ n \in 1..Len(txs) /\ back[p] = txs[n]
        /\ IsCandidate(back[p]) /\ n \in last
        BY <1>1, <1>3, <2>1
  <2>3. ASSUME NEW j \in last, ~(j =< n)
        PROVE  FALSE
    <3> DEFINE q == Len(txs) + 1 - j
    <3>1. j \in 1..Len(txs) /\ j > n
          BY <1>1, <1>3, <2>2, <2>3
    <3>2. q \in 1..Len(txs) /\ q < p /\ Len(txs) + 1 - q = j
          BY <1>1, <2>2, <3>1
    <3>3. q \in fit
          BY <1>1, <1>3, <2>3, <3>2
    <3> QED
        BY <1>1, <2>1, <3>2, <3>3
  <2>4. IsLastCreation(txs, n)
        BY <1>4, <2>2, <2>3
  <2> QED
      BY <1>1, <1>2, <1>5, <1>7, <2>2, <2>4
<1> QED
    BY <1>6, <1>7

\* What a foundry hook verifies, and when it lacks something.
LEMMA FoundryTargetRight ==
    ASSUME HookAssumption, NEW in \in HookInputs, in.command = "hook:foundry",
           NEW t, t = FoundryTarget(in)
    PROVE  /\ t.address \in Int /\ t.chain \in Nat /\ t.path \in Nat \ {0}
           /\ in.address # 0 => t.address = in.address
           /\ in.chain # 0 => t.chain = in.chain
           /\ t.address # 0 => FoundryRight(in, t)
           /\ t.address =< 0 => LacksAddress(in)
           /\ t.chain = 0 => LacksChain(in)
<1> DEFINE c == Candidate(in.transactions)
<1>1. /\ in.address \in Int /\ in.chain \in Nat /\ in.path \in Nat \ {0}
      /\ in.transactions \in Seq(Transaction) /\ in.broadcastChains \in Seq(Nat)
      BY DEF HookAssumption
<1>2. \/ c = NoTransaction /\ \A i \in DOMAIN in.transactions : ~IsLastCreation(in.transactions, i)
      \/ \E i \in DOMAIN in.transactions :
            IsLastCreation(in.transactions, i) /\ c = in.transactions[i]
      BY <1>1, CandidateIsLast
<1>3. c.address \in Int /\ c.chain \in Nat /\ NoTransaction.address = 0
  <2>1. \A i \in DOMAIN in.transactions : in.transactions[i] \in Transaction
        BY <1>1
  <2>2. c = NoTransaction \/ c \in Transaction
    <3> HIDE DEF c
    <3> QED
        BY <1>2, <2>1
  <2>3. NoTransaction.address = 0 /\ NoTransaction.chain = 0
        BY DEF NoTransaction
  <2>4. \A x \in Transaction : x.address \in Int /\ x.chain \in Nat
        BY DEF Transaction
  <2> HIDE DEF c
  <2> QED
      BY <2>2, <2>3, <2>4
<1>4. /\ t.address = FirstOf(<<in.address, c.address>>)
      /\ t.chain = FirstOf(<<in.chain, c.chain>> \o in.broadcastChains)
      /\ t.path = in.path
      BY DEF FoundryTarget
<1>5. \A i \in DOMAIN in.transactions : IsLastCreation(in.transactions, i) => c = in.transactions[i]
  <2>1. \A i, j \in DOMAIN in.transactions :
           IsLastCreation(in.transactions, i) /\ IsLastCreation(in.transactions, j) => i = j
        BY <1>1, CandidateIsLast
  <2> HIDE DEF c
  <2> QED
      BY <1>2, <2>1
<1> HIDE DEF c
<1>6. /\ t.address \in Int
      /\ in.address # 0 => t.address = in.address
      /\ in.address = 0 => t.address = c.address
  <2>1. FirstOf(<<in.address, c.address>>) = IF in.address # 0 THEN in.address ELSE c.address
        BY <1>1, <1>3, FirstOfTwo
  <2> QED
      BY <1>1, <1>3, <1>4, <2>1
<1>7. /\ t.chain \in Nat
      /\ in.chain # 0 => t.chain = in.chain
      /\ in.chain = 0 /\ c.chain # 0 => t.chain = c.chain
      /\ t.chain = 0 => /\ in.chain = 0 /\ c.chain = 0
                        /\ \A i \in DOMAIN in.broadcastChains : in.broadcastChains[i] = 0
  <2> DEFINE s == <<in.chain, c.chain>> \o in.broadcastChains
  <2>1. /\ s \in Seq(Nat) /\ s # <<>> /\ 1 \in DOMAIN s /\ 2 \in DOMAIN s
        /\ s[1] = in.chain /\ s[2] = c.chain
        /\ \A m \in DOMAIN s : m \in Nat /\ (m < 2 => m = 1)
        /\ \A i \in DOMAIN in.broadcastChains : 2 + i \in DOMAIN s /\ s[2 + i] = in.broadcastChains[i]
    <3> DEFINE b == in.broadcastChains
    <3>1. PICK x, y \in Nat : x = in.chain /\ y = c.chain
          BY <1>1, <1>3
    <3>2. b \in Seq(Nat)
          BY <1>1
    <3> HIDE DEF b
    <3>3. /\ <<x, y>> \o b \in Seq(Nat) /\ Len(<<x, y>> \o b) = 2 + Len(b) /\ Len(b) \in Nat
          /\ DOMAIN b = 1..Len(b)
          /\ \A n \in 1..(2 + Len(b)) :
                (<<x, y>> \o b)[n] = IF n =< 2 THEN <<x, y>>[n] ELSE b[n - 2]
          BY <3>2
    <3>4. \A i \in 1..Len(b) : (<<x, y>> \o b)[2 + i] = b[i]
      <4> TAKE i \in 1..Len(b)
      <4>1. 2 + i \in 1..(2 + Len(b)) /\ ~(2 + i =< 2) /\ (2 + i) - 2 = i
            BY <3>3
      <4> QED
          BY <3>3, <4>1
    <3>5. DOMAIN (<<x, y>> \o b) = 1..(2 + Len(b)) /\ <<x, y>> \o b # <<>>
          BY <3>3
    <3>6. s = <<x, y>> \o b
          BY <3>1 DEF b
    <3> HIDE DEF s
    <3>7. s[1] = x /\ s[2] = y
      <4>1. 1 \in 1..(2 + Len(b)) /\ 2 \in 1..(2 + Len(b)) /\ <<x, y>>[1] = x /\ <<x, y>>[2] = y
            BY <3>3
      <4> QED
          BY <3>3, <3>6, <4>1
    <3>8. s \in Seq(Nat) /\ s # <<>> /\ 1 \in DOMAIN s /\ 2 \in DOMAIN s
          BY <3>3, <3>5, <3>6
    <3>9. \A m \in DOMAIN s : m \in Nat /\ (m < 2 => m = 1)
          BY <3>3, <3>5, <3>6
    <3>10. \A i \in DOMAIN b : 2 + i \in DOMAIN s /\ s[2 + i] = b[i]
          BY <3>3, <3>4, <3>5, <3>6
    <3> QED
        BY <3>1, <3>7, <3>8, <3>9, <3>10 DEF b
  <2> HIDE DEF s
  <2>2. FirstOf(s) \in Nat /\ (in.chain # 0 => FirstOf(s) = in.chain)
        BY <2>1, FirstGiven
  <2>3. in.chain = 0 /\ c.chain # 0 => FirstOf(s) = c.chain
        BY <2>1, FirstGiven
  <2>4. FirstOf(s) = 0 => \A n \in DOMAIN s : s[n] = 0
        BY <2>1, FirstFound
  <2>5. FirstOf(s) = 0 => \A i \in DOMAIN in.broadcastChains : in.broadcastChains[i] = 0
        BY <2>1, <2>4
  <2> QED
      BY <1>4, <2>1, <2>2, <2>3, <2>4, <2>5 DEF s
<1>8. t.address # 0 => FoundryRight(in, t)
  <2> SUFFICES ASSUME t.address # 0, in.address = 0
               PROVE  \E i \in DOMAIN in.transactions :
                         /\ IsLastCreation(in.transactions, i)
                         /\ t.address = in.transactions[i].address
                         /\ in.chain = 0 /\ in.transactions[i].chain > 0 =>
                               t.chain = in.transactions[i].chain
      BY DEF FoundryRight
  <2>1. c # NoTransaction
        BY <1>3, <1>6
  <2>2. PICK i \in DOMAIN in.transactions :
                IsLastCreation(in.transactions, i) /\ c = in.transactions[i]
        BY <1>2, <2>1
  <2>3. in.chain = 0 /\ in.transactions[i].chain > 0 => t.chain = in.transactions[i].chain
        BY <1>3, <1>7, <2>2
  <2> QED
      BY <1>6, <2>2, <2>3
<1>9. t.address =< 0 => LacksAddress(in)
  <2> SUFFICES ASSUME t.address =< 0, in.address = 0,
                      NEW i \in DOMAIN in.transactions, IsLastCreation(in.transactions, i)
               PROVE  in.transactions[i].address < 0
      BY <1>1, <1>6 DEF LacksAddress
  <2>1. c = in.transactions[i]
        BY <1>5
  <2>2. in.transactions[i].address # 0
        BY DEF IsLastCreation, Creations
  <2> QED
      BY <1>3, <1>6, <2>1, <2>2
<1>10. t.chain = 0 => LacksChain(in)
  <2> SUFFICES ASSUME t.chain = 0 PROVE LacksChain(in)
      OBVIOUS
  <2>1. \A i \in DOMAIN in.transactions :
           IsLastCreation(in.transactions, i) => in.transactions[i].chain = 0
        BY <1>5, <1>7
  <2> QED
      BY <1>7, <2>1 DEF LacksChain
<1> QED
    BY <1>1, <1>4, <1>6, <1>7, <1>8, <1>9, <1>10

\* An option put before the values of the files.
LEMMA Prepended ==
    ASSUME NEW S, NEW x \in S, NEW s \in Seq(S), NEW b, b = <<x>> \o s
    PROVE  /\ b \in Seq(S) /\ b # <<>> /\ b[1] = x /\ 1 \in DOMAIN b
           /\ \A n \in DOMAIN b : /\ n \in Nat /\ n >= 1
                                 /\ n > 1 => n - 1 \in DOMAIN s /\ b[n] = s[n - 1]
           /\ \A i \in DOMAIN s : 1 + i \in DOMAIN b /\ b[1 + i] = s[i] /\ i \in Nat
<1>1. /\ <<x>> \in Seq(S) /\ Len(<<x>>) = 1 /\ <<x>>[1] = x
      /\ Len(s) \in Nat /\ DOMAIN s = 1..Len(s)
      OBVIOUS
<1>2. /\ b \in Seq(S) /\ Len(b) = 1 + Len(s)
      /\ \A n \in 1..Len(b) : b[n] = IF n =< 1 THEN <<x>>[n] ELSE s[n - 1]
      BY <1>1
<1>3. DOMAIN b = 1..(1 + Len(s))
      BY <1>2
<1>4. b[1] = x /\ 1 \in DOMAIN b /\ b # <<>>
      BY <1>1, <1>2, <1>3
<1>5. \A n \in DOMAIN b : n \in Nat /\ n >= 1
      BY <1>1, <1>3
<1>6. \A n \in DOMAIN b : n > 1 => n - 1 \in DOMAIN s /\ b[n] = s[n - 1]
      BY <1>1, <1>2, <1>3
<1>7. \A i \in DOMAIN s : 1 + i \in DOMAIN b /\ b[1 + i] = s[i] /\ i \in Nat
      BY <1>1, <1>2, <1>3
<1> QED
    BY <1>2, <1>4, <1>5, <1>6, <1>7

\* What a hardhat hook verifies, and when it lacks something.
LEMMA HardhatTargetRight ==
    ASSUME HookAssumption, NEW in \in HookInputs, in.command = "hook:hardhat",
           NEW t, t = HardhatTarget(in)
    PROVE  /\ t.address \in Int /\ t.chain \in Nat /\ t.path \in Nat
           /\ in.address # 0 => t.address = in.address
           /\ in.chain # 0 => t.chain = in.chain
           /\ t.path # 0 => HardhatRight(in, t)
           /\ t.address =< 0 => LacksAddress(in)
           /\ t.chain = 0 => LacksChain(in)
           /\ t.path = 0 => LacksPath(in)
<1>1. /\ in.address \in Int /\ in.chain \in Nat /\ in.path \in Nat
      /\ in.paths \subseteq Nat \ {0}
      /\ in.recordAddresses \in Seq(Int) /\ in.recordChains \in Seq(Nat)
      BY DEF HookAssumption
<1> DEFINE u == UniquePath(in.paths)
           path == FirstOf(<<in.path, u>>)
           a == <<in.address>> \o in.recordAddresses
           k == <<in.chain>> \o in.recordChains
<1>2. /\ t.address = FirstOf(a) /\ t.chain = FirstOf(k)
      /\ t.path = IF path \in in.paths THEN path ELSE 0
      BY DEF HardhatTarget
<1>3. /\ a \in Seq(Int) /\ a # <<>> /\ a[1] = in.address /\ 1 \in DOMAIN a
      /\ \A n \in DOMAIN a : /\ n \in Nat /\ n >= 1
                            /\ n > 1 => n - 1 \in DOMAIN in.recordAddresses
                                        /\ a[n] = in.recordAddresses[n - 1]
      /\ \A i \in DOMAIN in.recordAddresses :
            1 + i \in DOMAIN a /\ a[1 + i] = in.recordAddresses[i] /\ i \in Nat
  <2> DEFINE x == in.address
             r == in.recordAddresses
  <2>1. x \in Int /\ r \in Seq(Int)
        BY <1>1
  <2>2. a = <<x>> \o r
        OBVIOUS
  <2> HIDE DEF x, r, a
  <2>3. /\ a \in Seq(Int) /\ a # <<>> /\ a[1] = x /\ 1 \in DOMAIN a
        /\ \A n \in DOMAIN a : /\ n \in Nat /\ n >= 1
                              /\ n > 1 => n - 1 \in DOMAIN r /\ a[n] = r[n - 1]
        /\ \A i \in DOMAIN r : 1 + i \in DOMAIN a /\ a[1 + i] = r[i] /\ i \in Nat
        BY <2>1, <2>2, Prepended
  <2> QED
      BY <2>3 DEF x, r
<1>4. /\ k \in Seq(Nat) /\ k # <<>> /\ k[1] = in.chain /\ 1 \in DOMAIN k
      /\ \A i \in DOMAIN in.recordChains : 1 + i \in DOMAIN k /\ k[1 + i] = in.recordChains[i]
                                           /\ i \in Nat
  <2> DEFINE x == in.chain
             r == in.recordChains
  <2>1. x \in Nat /\ r \in Seq(Nat)
        BY <1>1
  <2>2. k = <<x>> \o r
        OBVIOUS
  <2> HIDE DEF x, r, k
  <2>3. /\ k \in Seq(Nat) /\ k # <<>> /\ k[1] = x /\ 1 \in DOMAIN k
        /\ \A i \in DOMAIN r : 1 + i \in DOMAIN k /\ k[1 + i] = r[i] /\ i \in Nat
        BY <2>1, <2>2, Prepended
  <2> QED
      BY <2>3 DEF x, r
<1>5. \/ u = 0 /\ \A p \in in.paths : in.paths # {p}
      \/ in.paths = {u} /\ u \in Nat \ {0}
      BY <1>1 DEF UniquePath
<1>6. /\ path \in Nat
      /\ in.path # 0 => path = in.path
      /\ in.path = 0 => path = u
  <2>1. u \in Nat
        BY <1>5
  <2> HIDE DEF u
  <2>2. FirstOf(<<in.path, u>>) = IF in.path # 0 THEN in.path ELSE u
        BY <1>1, <2>1, FirstOfTwo
  <2> QED
      BY <1>1, <2>1, <2>2
<1> HIDE DEF a, k, path, u
<1>7. /\ t.address \in Int /\ t.chain \in Nat
      /\ in.address # 0 => t.address = in.address
      /\ in.chain # 0 => t.chain = in.chain
  <2>1. FirstOf(a) \in Int /\ (in.address # 0 => FirstOf(a) = in.address)
        BY <1>3, FirstGiven
  <2>2. FirstOf(k) \in Nat /\ (in.chain # 0 => FirstOf(k) = in.chain)
        BY <1>4, FirstGiven
  <2> QED
      BY <1>2, <2>1, <2>2
<1>8. t.path # 0 => HardhatRight(in, t)
      BY <1>1, <1>2, <1>5, <1>6 DEF HardhatRight
<1>9. t.address =< 0 => LacksAddress(in)
  <2> SUFFICES ASSUME t.address =< 0, in.address = 0,
                      NEW i \in DOMAIN in.recordAddresses, ~(in.recordAddresses[i] =< 0)
               PROVE  \E j \in DOMAIN in.recordAddresses :
                         j < i /\ in.recordAddresses[j] # 0
      BY <1>1, <1>7 DEF LacksAddress
  <2>1. 1 + i \in DOMAIN a /\ a[1 + i] = in.recordAddresses[i] /\ i \in Nat
        BY <1>3
  <2>2. in.recordAddresses[i] \in Int
        BY <1>1
  <2>3. PICK n \in DOMAIN a : /\ a[n] # 0 /\ FirstOf(a) = a[n]
                              /\ \A m \in DOMAIN a : m < n => a[m] = 0
    <3>1. DOMAIN a \in SUBSET Nat
          BY <1>3
    <3>2. \/ FirstOf(a) = 0 /\ \A n \in DOMAIN a : a[n] = 0
          \/ \E n \in DOMAIN a : /\ a[n] # 0 /\ FirstOf(a) = a[n]
                                 /\ \A m \in DOMAIN a : m < n => a[m] = 0
          BY <3>1, FirstFound
    <3>3. ~(\A n \in DOMAIN a : a[n] = 0)
          BY <2>1, <2>2
    <3> QED
        BY <3>2, <3>3
  <2>4. n # 1 /\ n # 1 + i /\ n \in Nat /\ n >= 1
        BY <1>2, <1>3, <2>1, <2>2, <2>3
  <2>5. ~(1 + i < n)
        BY <2>1, <2>2, <2>3
  <2>6. n - 1 \in DOMAIN in.recordAddresses /\ a[n] = in.recordAddresses[n - 1] /\ n - 1 < i
        BY <1>3, <2>1, <2>3, <2>4, <2>5
  <2> QED
      BY <2>3, <2>6
<1>10. t.chain = 0 => LacksChain(in)
  <2> SUFFICES ASSUME t.chain = 0 PROVE LacksChain(in)
      OBVIOUS
  <2>1. DOMAIN k \in SUBSET Nat
        BY <1>4
  <2>2. \A n \in DOMAIN k : k[n] = 0
        BY <1>2, <2>1, FirstFound
  <2> QED
      BY <1>4, <2>2 DEF LacksChain
<1>11. t.path = 0 => LacksPath(in)
  <2> SUFFICES ASSUME t.path = 0 PROVE LacksPath(in)
      OBVIOUS
  <2>1. path \notin in.paths
        BY <1>1, <1>2
  <2> QED
      BY <1>5, <1>6, <2>1 DEF LacksPath
<1> QED
    BY <1>1, <1>2, <1>6, <1>7, <1>8, <1>9, <1>10, <1>11

\* What import-etherscan verifies.
LEMMA EtherscanTargetRight ==
    ASSUME HookAssumption, NEW in \in HookInputs, in.command = "import-etherscan",
           NEW t, t = EtherscanTarget(in)
    PROVE  /\ t.address = in.address /\ t.chain = in.chain /\ t.path \in Nat
           /\ t.address \in Int /\ t.chain \in Nat
           /\ EtherscanRight(in, t)
           /\ t.path = 0 => LacksPath(in)
<1>1. in.address \in Int /\ in.chain \in Nat /\ in.named \in Seq(BOOLEAN)
      BY DEF HookAssumption
<1> DEFINE fit == {i \in DOMAIN in.named : in.named[i]}
<1>2. t.address = in.address /\ t.chain = in.chain /\ t.path = EtherscanPath(in.named)
      BY DEF EtherscanTarget
<1>3. fit \in SUBSET Nat /\ DOMAIN in.named = 1..Len(in.named) /\ Len(in.named) \in Nat
      BY <1>1
<1>4. fit # {} => FirstPlace(fit) \in fit
      BY <1>3, LeastPlace
<1>5. EtherscanPath(in.named) =
        IF in.named = <<>> THEN 0 ELSE IF fit = {} THEN 1 ELSE FirstPlace(fit)
      BY DEF EtherscanPath
<1> HIDE DEF EtherscanPath
<1>6. t.path \in Nat /\ (in.named # <<>> => t.path > 0)
      BY <1>2, <1>3, <1>4, <1>5
<1>7. ASSUME fit # {}
      PROVE  in.named[t.path]
  <2>1. in.named # <<>>
        BY <1>3, <1>7
  <2> QED
      BY <1>2, <1>4, <1>5, <1>7, <2>1
<1>8. EtherscanRight(in, t)
      BY <1>7 DEF EtherscanRight
<1>9. t.path = 0 => LacksPath(in)
      BY <1>6 DEF LacksPath
<1> QED
    BY <1>1, <1>2, <1>6, <1>8, <1>9

Blank == [address |-> 0, chain |-> 0, path |-> 0]

\* The target is worked out once; a command submits only one that is complete.
ToolInv ==
    /\ hook \in [input : HookInputs, fault : BOOLEAN,
                 step : {"reading", "read", "resolved", "submitted", "rejected"},
                 target : {Blank, Target(hook.input)}]
    /\ hook.step \in {"resolved", "submitted"} =>
          hook.target = Target(hook.input) /\ IsComplete(hook.target)
    /\ hook.step = "submitted" => hook.input.hasKey
    /\ hook.step = "rejected" =>
          \/ hook.fault
          \/ ~hook.input.hasKey
          \/ hook.target = Target(hook.input) /\ ~IsComplete(hook.target)

LEMMA ToolStep ==
    ASSUME ToolInv, [ToolNext]_hook
    PROVE  ToolInv'
<1>1. PICK h : h = hook
      OBVIOUS
<1>2. PICK g : g = Target(h.input)
      OBVIOUS
<1>3. /\ h \in [input : HookInputs, fault : BOOLEAN,
                step : {"reading", "read", "resolved", "submitted", "rejected"},
                target : {Blank, g}]
      /\ h.step \in {"resolved", "submitted"} => h.target = g /\ IsComplete(h.target)
      /\ h.step = "submitted" => h.input.hasKey
      /\ h.step = "rejected" =>
            \/ h.fault
            \/ ~h.input.hasKey
            \/ h.target = g /\ ~IsComplete(h.target)
      BY <1>1, <1>2 DEF ToolInv
<1>4. /\ hook' \in [input : HookInputs, fault : BOOLEAN,
                    step : {"reading", "read", "resolved", "submitted", "rejected"},
                    target : {Blank, g}]
      /\ hook'.input = h.input
      /\ hook'.step \in {"resolved", "submitted"} =>
            hook'.target = g /\ IsComplete(hook'.target)
      /\ hook'.step = "submitted" => hook'.input.hasKey
      /\ hook'.step = "rejected" =>
            \/ hook'.fault
            \/ ~hook'.input.hasKey
            \/ hook'.target = g /\ ~IsComplete(hook'.target)
  <2>1. CASE ReadInput
        BY <1>1, <1>3, <2>1 DEF ReadInput
  <2>2. CASE Resolve
    <3>1. /\ h.step = "read"
          /\ hook' = [h EXCEPT !.target = g,
                              !.step = IF IsComplete(g) THEN "resolved" ELSE "rejected"]
          BY <1>1, <1>2, <2>2 DEF Resolve
    <3> QED
        BY <1>3, <3>1
  <2>3. CASE Submit
    <3>1. /\ h.step = "resolved"
          /\ hook' = [h EXCEPT !.step = IF h.input.hasKey THEN "submitted" ELSE "rejected"]
          BY <1>1, <2>3 DEF Submit
    <3> QED
        BY <1>3, <3>1
  <2>4. CASE UNCHANGED hook
        BY <1>1, <1>3, <2>4
  <2> QED
      BY <2>1, <2>2, <2>3, <2>4 DEF ToolNext
<1>5. g = Target(hook'.input)
      BY <1>2, <1>4
<1> QED
    BY <1>4, <1>5 DEF ToolInv

\* For every input, whatever the options leave to the files: what a hook or
\* import-etherscan submits belongs together, and it refuses for a reason.
THEOREM HooksSubmitRight == ToolSpec => []HookTargetRight
<1>1. ToolInit => ToolInv
  <2> SUFFICES ASSUME NEW in \in HookInputs,
                      hook = [input |-> in, step |-> "reading", fault |-> FALSE,
                              target |-> [address |-> 0, chain |-> 0, path |-> 0]]
               PROVE  ToolInv
      BY DEF ToolInit
  <2> QED
      BY DEF ToolInv, Blank
<1>2. ToolInv /\ [ToolNext]_hook => ToolInv'
      BY ToolStep
<1>3. ToolInv => HookTargetRight
  <2> SUFFICES ASSUME ToolInv PROVE HookTargetRight
      OBVIOUS
  <2>1. PICK in, t : in = hook.input /\ t = hook.target
        OBVIOUS
  <2>2. /\ in \in HookInputs /\ in.hasKey \in BOOLEAN /\ hook.fault \in BOOLEAN
        /\ hook.step = "submitted" => t = Target(in) /\ IsComplete(t) /\ in.hasKey
        /\ hook.step = "rejected" =>
              hook.fault \/ ~in.hasKey \/ (t = Target(in) /\ ~IsComplete(t))
    <3>1. in \in HookInputs /\ hook.fault \in BOOLEAN
          BY <2>1 DEF ToolInv
    <3>2. in.hasKey \in BOOLEAN
          BY <3>1, HookAssumption DEF HookAssumption
    <3> QED
        BY <2>1, <3>1, <3>2 DEF ToolInv
  <2>3. CASE in.command = "hook:foundry"
    <3>1. ASSUME t = Target(in)
          PROVE  /\ t.address \in Int /\ t.chain \in Nat /\ t.path \in Nat \ {0}
                 /\ in.address # 0 => t.address = in.address
                 /\ in.chain # 0 => t.chain = in.chain
                 /\ t.address # 0 => FoundryRight(in, t)
                 /\ t.address =< 0 => LacksAddress(in)
                 /\ t.chain = 0 => LacksChain(in)
      <4>1. t = FoundryTarget(in)
            BY <2>3, <3>1 DEF Target
      <4> QED
          BY <2>2, <2>3, <4>1, HookAssumption, FoundryTargetRight
    <3>2. hook.step = "submitted" =>
             /\ in.address > 0 => t.address = in.address
             /\ in.chain > 0 => t.chain = in.chain
             /\ FoundryRight(in, t)
          BY <2>2, <3>1 DEF IsComplete
    <3>3. hook.step = "rejected" =>
             hook.fault \/ ~in.hasKey \/ LacksAddress(in) \/ LacksChain(in)
          BY <2>2, <3>1 DEF IsComplete
    <3> QED
        BY <2>1, <2>2, <2>3, <3>2, <3>3 DEF HookTargetRight
  <2>4. CASE in.command = "hook:hardhat"
    <3>1. ASSUME t = Target(in)
          PROVE  /\ t.address \in Int /\ t.chain \in Nat /\ t.path \in Nat
                 /\ in.address # 0 => t.address = in.address
                 /\ in.chain # 0 => t.chain = in.chain
                 /\ t.path # 0 => HardhatRight(in, t)
                 /\ t.address =< 0 => LacksAddress(in)
                 /\ t.chain = 0 => LacksChain(in)
                 /\ t.path = 0 => LacksPath(in)
      <4>1. t = HardhatTarget(in)
            BY <2>4, <3>1 DEF Target
      <4> QED
          BY <2>2, <2>4, <4>1, HookAssumption, HardhatTargetRight
    <3>2. hook.step = "submitted" =>
             /\ in.address > 0 => t.address = in.address
             /\ in.chain > 0 => t.chain = in.chain
             /\ HardhatRight(in, t)
          BY <2>2, <3>1 DEF IsComplete
    <3>3. hook.step = "rejected" =>
             \/ hook.fault \/ ~in.hasKey
             \/ LacksAddress(in) \/ LacksChain(in) \/ LacksPath(in)
          BY <2>2, <3>1 DEF IsComplete
    <3> QED
        BY <2>1, <2>2, <2>4, <3>2, <3>3 DEF HookTargetRight
  <2>5. CASE in.command = "import-etherscan"
    <3>1. ASSUME t = Target(in)
          PROVE  /\ t.address = in.address /\ t.chain = in.chain /\ t.path \in Nat
                 /\ t.address \in Int /\ t.chain \in Nat
                 /\ EtherscanRight(in, t)
                 /\ t.path = 0 => LacksPath(in)
      <4>1. t = EtherscanTarget(in)
            BY <2>5, <3>1 DEF Target
      <4> QED
          BY <2>2, <2>5, <4>1, HookAssumption, EtherscanTargetRight
    <3>2. hook.step = "submitted" =>
             t.address = in.address /\ t.chain = in.chain /\ EtherscanRight(in, t)
          BY <2>2, <3>1
    <3>3. /\ in.address =< 0 => LacksAddress(in)
          /\ in.chain = 0 => LacksChain(in)
      <4>1. in.address \in Int
            BY <2>2, HookAssumption DEF HookAssumption
      <4> QED
          BY <2>5, <4>1 DEF LacksAddress, LacksChain
    <3>4. hook.step = "rejected" =>
             \/ hook.fault \/ ~in.hasKey
             \/ LacksAddress(in) \/ LacksChain(in) \/ LacksPath(in)
          BY <2>2, <3>1, <3>3 DEF IsComplete
    <3> QED
        BY <2>1, <2>2, <2>5, <3>2, <3>4 DEF HookTargetRight
  <2> QED
      BY <2>2, <2>3, <2>4, <2>5, HookAssumption DEF HookAssumption
<1> QED
    BY <1>1, <1>2, <1>3, PTL DEF ToolSpec

-----------------------------------------------------------------------------
(* The page and its stream. *)

\* The places of the events of a set: one for each, and each place taken.
LEMMA PlacesAreTaken ==
    ASSUME NEW S \in SUBSET Nat, IsFiniteSet(S)
    PROVE  \E r \in [S -> 1..Cardinality(S)] :
              /\ \A e \in S : r[e] = Cardinality({f \in S : f =< e})
              /\ \A e, g \in S : r[e] = r[g] => e = g
              /\ \A n \in 1..Cardinality(S) : \E e \in S : r[e] = n
<1> DEFINE upTo(e) == {f \in S : f =< e}
           r == [e \in S |-> Cardinality(upTo(e))]
           N == Cardinality(S)
<1>1. N \in Nat /\ IsFiniteSet(1..N) /\ Cardinality(1..N) = N
  <2>1. N \in Nat
        BY FS_CardinalityType
  <2> HIDE DEF N
  <2> QED
      BY <2>1, FS_Interval
<1>2. \A e \in S : /\ IsFiniteSet(upTo(e)) /\ Cardinality(upTo(e)) \in Nat
                   /\ Cardinality(upTo(e)) =< N
  <2> TAKE e \in S
  <2>1. upTo(e) \in SUBSET S
        OBVIOUS
  <2> HIDE DEF upTo
  <2> QED
      BY <2>1, FS_Subset, FS_CardinalityType
<1>3. \A e \in S : r[e] = Cardinality(upTo(e)) /\ r[e] \in 1..N
  <2> TAKE e \in S
  <2>1. e \in upTo(e)
        OBVIOUS
  <2>2. Cardinality(upTo(e)) # 0
    <3> HIDE DEF upTo
    <3> QED
        BY <1>2, <2>1, FS_EmptySet
  <2>3. r[e] = Cardinality(upTo(e))
        OBVIOUS
  <2> HIDE DEF upTo, N, r
  <2> QED
      BY <1>1, <1>2, <2>2, <2>3
<1>4. ASSUME NEW e \in S, NEW g \in S, e < g
      PROVE  r[e] # r[g]
  <2>1. upTo(e) \in SUBSET upTo(g) /\ g \in upTo(g) /\ g \notin upTo(e)
    <3>1. e \in Nat /\ g \in Nat /\ \A f \in S : f \in Nat
          OBVIOUS
    <3>2. \A f \in S : f =< e => f =< g
          BY <1>4, <3>1
    <3>3. ~(g =< e) /\ g =< g
          BY <1>4, <3>1
    <3> QED
        BY <3>2, <3>3
  <2> HIDE DEF upTo
  <2>2. Cardinality(upTo(e)) # Cardinality(upTo(g))
        BY <1>2, <2>1, FS_Subset
  <2> QED
      BY <1>3, <2>2
<1>5. \A e, g \in S : r[e] = r[g] => e = g
  <2> TAKE e, g \in S
  <2>1. e \in Nat /\ g \in Nat
        OBVIOUS
  <2>2. e < g \/ g < e \/ e = g
        BY <2>1
  <2> HIDE DEF r
  <2> QED
      BY <1>4, <2>2
<1> HIDE DEF N, upTo
<1>6. r \in [S -> 1..N]
      BY <1>3
<1> HIDE DEF r
<1>7. r \in Injection(S, 1..N)
      BY <1>5, <1>6 DEF Injection, IsInjective
<1>8. r \in Surjection(S, 1..N)
  <2>1. Cardinality(S) = Cardinality(1..N)
        BY <1>1 DEF N
  <2> QED
      BY <1>1, <1>7, <2>1, FS_Injection
<1>9. \A n \in 1..N : \E e \in S : r[e] = n
      BY <1>8 DEF Surjection
<1> QED
    BY <1>3, <1>5, <1>6, <1>9 DEF N, upTo

\* A batch in order has each of its events once.
LEMMA AscendingHasAll ==
    ASSUME NEW S \in SUBSET Nat, IsFiniteSet(S)
    PROVE  /\ Ascending(S) \in Seq(S)
           /\ \A i, j \in DOMAIN Ascending(S) : Ascending(S)[i] = Ascending(S)[j] => i = j
           /\ \A e \in S : \E i \in DOMAIN Ascending(S) : Ascending(S)[i] = e
<1>1. PICK r \in [S -> 1..Cardinality(S)] :
              /\ \A e \in S : r[e] = Cardinality({f \in S : f =< e})
              /\ \A e, g \in S : r[e] = r[g] => e = g
              /\ \A n \in 1..Cardinality(S) : \E e \in S : r[e] = n
      BY PlacesAreTaken
<1>2. PICK N, a : N = Cardinality(S) /\ a = Ascending(S)
      OBVIOUS
<1>3. N \in Nat
      BY <1>2, FS_CardinalityType
<1>4. a = [i \in 1..N |-> CHOOSE e \in S : Cardinality({f \in S : f =< e}) = i]
      BY <1>2 DEF Ascending
<1>5. \A i \in 1..N : a[i] \in S /\ r[a[i]] = i
  <2> TAKE i \in 1..N
  <2>1. \E e \in S : Cardinality({f \in S : f =< e}) = i
        BY <1>1, <1>2
  <2>2. a[i] = CHOOSE e \in S : Cardinality({f \in S : f =< e}) = i
        BY <1>4
  <2>3. a[i] \in S /\ Cardinality({f \in S : f =< a[i]}) = i
        BY <2>1, <2>2, Zenon
  <2> QED
      BY <1>1, <2>3
<1>6. a \in Seq(S) /\ DOMAIN a = 1..N
  <2> DEFINE at(i) == CHOOSE e \in S : Cardinality({f \in S : f =< e}) = i
  <2>1. a = [i \in 1..N |-> at(i)]
        BY <1>4
  <2> HIDE DEF at
  <2>2. DOMAIN a = 1..N /\ a = [i \in 1..N |-> a[i]]
        BY <2>1
  <2> QED
      BY <1>3, <1>5, <2>2
<1>7. \A i, j \in DOMAIN a : a[i] = a[j] => i = j
  <2> TAKE i, j \in DOMAIN a
  <2>1. r[a[i]] = i /\ r[a[j]] = j
        BY <1>5, <1>6
  <2> QED
      BY <2>1
<1>8. \A e \in S : \E i \in DOMAIN a : a[i] = e
  <2> TAKE e \in S
  <2>1. r[e] \in 1..N
        BY <1>1, <1>2
  <2>2. a[r[e]] = e
        BY <1>1, <1>5, <2>1
  <2> QED
      BY <1>6, <2>1, <2>2
<1> QED
    BY <1>2, <1>6, <1>7, <1>8

LEMMA Concatenated ==
    ASSUME NEW T, NEW s \in Seq(T), NEW t \in Seq(T)
    PROVE  /\ s \o t \in Seq(T)
           /\ Len(s) \in Nat /\ Len(t) \in Nat
           /\ DOMAIN (s \o t) = 1..Len(s) + Len(t)
           /\ \A i \in 1..Len(s) + Len(t) :
                 (s \o t)[i] = IF i =< Len(s) THEN s[i] ELSE t[i - Len(s)]
<1>1. s \o t \in Seq(T) /\ Len(s \o t) = Len(s) + Len(t)
      OBVIOUS
<1>2. DOMAIN (s \o t) = 1..Len(s \o t)
      BY <1>1
<1> QED
    BY <1>1, <1>2

\* No entry twice.
NoRepeat(s) == \A i, j \in DOMAIN s : s[i] = s[j] => i = j

\* The batch of a tick.
LEMMA BatchHasAll ==
    ASSUME NEW S \in SUBSET Event, NEW P, NEW D, P \cap D = {}, P \cup D = S,
           NEW b, b = Ascending(P) \o Ascending(D)
    PROVE  /\ b \in Seq(S)
           /\ NoRepeat(b)
           /\ \A e \in S : InList(b, e)
<1>1. MaxEvents \in Nat
      BY FeedAssumption DEF FeedAssumption
<1>2. /\ S \in SUBSET Nat /\ P \in SUBSET Nat /\ D \in SUBSET Nat
      /\ IsFiniteSet(P) /\ IsFiniteSet(D)
  <2>1. IsFiniteSet(1..MaxEvents)
        BY <1>1, FS_Interval
  <2>2. P \in SUBSET (1..MaxEvents) /\ D \in SUBSET (1..MaxEvents) /\ S \in SUBSET (1..MaxEvents)
        BY DEF Event
  <2>3. 1..MaxEvents \in SUBSET Nat
        BY <1>1
  <2> QED
      BY <2>1, <2>2, <2>3, FS_Subset
<1>3. PICK p, d : p = Ascending(P) /\ d = Ascending(D)
      OBVIOUS
<1>4. /\ p \in Seq(P) /\ \A i, j \in DOMAIN p : p[i] = p[j] => i = j
      /\ \A e \in P : \E i \in DOMAIN p : p[i] = e
      BY <1>2, <1>3, AscendingHasAll
<1>5. /\ d \in Seq(D) /\ \A i, j \in DOMAIN d : d[i] = d[j] => i = j
      /\ \A e \in D : \E i \in DOMAIN d : d[i] = e
      BY <1>2, <1>3, AscendingHasAll
<1>6. PICK m, n : m = Len(p) /\ n = Len(d)
      OBVIOUS
<1>7. /\ b = p \o d /\ m \in Nat /\ n \in Nat /\ DOMAIN p = 1..m /\ DOMAIN d = 1..n
      /\ \A i \in 1..m : p[i] \in P
      /\ \A i \in 1..n : d[i] \in D
  <2>1. /\ b = p \o d
        BY <1>3
  <2>2. m \in Nat /\ DOMAIN p = 1..m /\ \A i \in 1..m : p[i] \in P
        BY <1>4, <1>6
  <2>3. n \in Nat /\ DOMAIN d = 1..n /\ \A i \in 1..n : d[i] \in D
        BY <1>5, <1>6
  <2> QED
      BY <2>1, <2>2, <2>3
<1>8. /\ b \in Seq(S) /\ DOMAIN b = 1..m + n
      /\ \A i \in 1..m : b[i] = p[i]
      /\ \A i \in 1..n : b[m + i] = d[i]
      /\ \A i \in 1..m + n : i \notin 1..m => i - m \in 1..n /\ b[i] = d[i - m]
  <2>1. p \in Seq(S) /\ d \in Seq(S)
        BY <1>4, <1>5
  <2>2. /\ p \o d \in Seq(S)
        /\ DOMAIN (p \o d) = 1..Len(p) + Len(d)
        /\ \A i \in 1..Len(p) + Len(d) :
              (p \o d)[i] = IF i =< Len(p) THEN p[i] ELSE d[i - Len(p)]
        BY <2>1, Concatenated
  <2>3. /\ b \in Seq(S) /\ DOMAIN b = 1..m + n
        /\ \A i \in 1..m + n : b[i] = IF i =< m THEN p[i] ELSE d[i - m]
        BY <1>6, <1>7, <2>2, Zenon
  <2>4. \A i \in 1..m : i \in 1..m + n /\ i =< m
        BY <1>7
  <2>5. \A i \in 1..n : m + i \in 1..m + n /\ ~(m + i =< m) /\ m + i - m = i
        BY <1>7
  <2>6. \A i \in 1..m + n : i \notin 1..m => ~(i =< m) /\ i - m \in 1..n
        BY <1>7
  <2>7. \A i \in 1..m : b[i] = p[i]
        BY <2>3, <2>4
  <2>8. \A i \in 1..n : b[m + i] = d[i]
    <3> TAKE i \in 1..n
    <3>1. PICK q : q = m + i
          OBVIOUS
    <3>2. q \in 1..m + n /\ ~(q =< m) /\ q - m = i
          BY <1>7, <3>1
    <3>3. b[q] = d[i]
          BY <2>3, <3>2
    <3> QED
        BY <3>1, <3>3
  <2>9. \A i \in 1..m + n : i \notin 1..m => i - m \in 1..n /\ b[i] = d[i - m]
        BY <2>3, <2>6
  <2> QED
      BY <2>3, <2>7, <2>8, <2>9
<1>9. NoRepeat(b)
  <2> SUFFICES ASSUME NEW i \in DOMAIN b, NEW j \in DOMAIN b
               PROVE  b[i] = b[j] => i = j
      BY DEF NoRepeat
  <2>1. CASE i \in 1..m /\ j \in 1..m
        BY <1>4, <1>7, <1>8, <2>1
  <2>2. CASE i \notin 1..m /\ j \notin 1..m
    <3>1. b[i] = d[i - m] /\ b[j] = d[j - m] /\ i - m \in 1..n /\ j - m \in 1..n
          BY <1>8, <2>2
    <3>2. b[i] = b[j] => i - m = j - m
          BY <1>5, <1>7, <3>1
    <3> QED
        BY <1>7, <1>8, <3>2
  <2>3. CASE i \in 1..m /\ j \notin 1..m
    <3>1. b[i] \in P /\ b[j] \in D
          BY <1>7, <1>8, <2>3
    <3> QED
        BY <3>1
  <2>4. CASE i \notin 1..m /\ j \in 1..m
    <3>1. b[j] \in P /\ b[i] \in D
          BY <1>7, <1>8, <2>4
    <3> QED
        BY <3>1
  <2> QED
      BY <2>1, <2>2, <2>3, <2>4
<1>10. \A e \in S : InList(b, e)
  <2> SUFFICES ASSUME NEW e \in S
               PROVE  \E i \in DOMAIN b : b[i] = e
      BY DEF InList
  <2>1. CASE e \in P
    <3>1. PICK i \in 1..m : p[i] = e
          BY <1>4, <1>7, <2>1
    <3>2. i \in DOMAIN b /\ b[i] = e
      <4>1. i \in 1..m + n
            BY <1>7, <3>1
      <4> QED
          BY <1>8, <3>1, <4>1
    <3> QED
        BY <3>2
  <2>2. CASE e \in D
    <3>1. PICK i \in 1..n : d[i] = e
          BY <1>5, <1>7, <2>2
    <3>2. m + i \in DOMAIN b /\ b[m + i] = e
      <4>1. m + i \in 1..m + n
            BY <1>7, <3>1
      <4> QED
          BY <1>8, <3>1, <4>1
    <3> QED
        BY <3>2
  <2> QED
      BY <2>1, <2>2
<1> QED
    BY <1>8, <1>9, <1>10

\* a is announced before b.
Before(s, a, b) == \E i, j \in DOMAIN s : i < j /\ s[i] = a /\ s[j] = b

IsEvent(m) == m.type = "event"

Message == [type : {"status", "event"}, value : Nat]

\* Toasts t keep the order of what was announced, s, each event once.
ToastsSound(s, t) ==
    /\ \A i, j \in DOMAIN s : s[i] = s[j] => i = j
    /\ \A i, j \in DOMAIN t : i < j => Before(s, t[i], t[j])
    /\ \A i \in DOMAIN t : \E n \in DOMAIN s : s[n] = t[i]

\* What is on its way was announced, in this order and after every toast.
WireSound(s, t, w) ==
    /\ \A i \in DOMAIN w : IsEvent(w[i]) => \E n \in DOMAIN s : s[n] = w[i].value
    /\ \A i, j \in DOMAIN w :
          i < j /\ IsEvent(w[i]) /\ IsEvent(w[j]) => Before(s, w[i].value, w[j].value)
    /\ \A i \in DOMAIN t, j \in DOMAIN w : IsEvent(w[j]) => Before(s, t[i], w[j].value)

LEMMA StatusKeepsWire ==
    ASSUME NEW s, NEW t, NEW w \in Seq(Message), WireSound(s, t, w), NEW n \in Nat
    PROVE  /\ WireSound(s, t, Append(w, Status(n)))
           /\ w \o <<Status(n)>> = Append(w, Status(n))
           /\ Append(w, Status(n)) \in Seq(Message)
           /\ Carried(w) \subseteq Carried(Append(w, Status(n)))
<1>1. PICK m : m = Status(n)
      OBVIOUS
<1>2. m \in Message /\ ~IsEvent(m)
      BY <1>1 DEF Status, Message, IsEvent
<1>3. PICK v : v = Append(w, m)
      OBVIOUS
<1>4. /\ v \in Seq(Message) /\ w \o <<m>> = v
      /\ \A i \in DOMAIN v : v[i] = m \/ (i \in DOMAIN w /\ v[i] = w[i])
      BY <1>2, <1>3
<1>5. \A i \in DOMAIN v : IsEvent(v[i]) => i \in DOMAIN w /\ v[i] = w[i]
      BY <1>2, <1>4
<1>6. WireSound(s, t, v)
      BY <1>5 DEF WireSound
<1>7. \A i \in DOMAIN w : i \in DOMAIN v /\ v[i] = w[i]
      BY <1>2, <1>3
<1> QED
    BY <1>1, <1>3, <1>4, <1>6, <1>7 DEF Carried

LEMMA ReceivedKeepsWire ==
    ASSUME NEW s, NEW t \in Seq(Nat), NEW w \in Seq(Message), w # <<>>,
           ToastsSound(s, t), WireSound(s, t, w)
    PROVE  /\ Tail(w) \in Seq(Message) /\ Head(w) \in Message
           /\ WireSound(s, t, Tail(w))
           /\ IsEvent(Head(w)) =>
                 /\ WireSound(s, Append(t, Head(w).value), Tail(w))
                 /\ ToastsSound(s, Append(t, Head(w).value))
<1>1. PICK h, r : h = Head(w) /\ r = Tail(w)
      OBVIOUS
<1>2. /\ h \in Message /\ h = w[1] /\ r \in Seq(Message) /\ 1 \in DOMAIN w
      /\ \A i \in DOMAIN r : i \in Nat /\ i + 1 \in DOMAIN w /\ r[i] = w[i + 1] /\ 1 < i + 1
      BY <1>1
<1>3. WireSound(s, t, r)
  <2>1. \A i, j \in DOMAIN r : i < j => i + 1 < j + 1
        BY <1>2
  <2> QED
      BY <1>2, <2>1 DEF WireSound
<1>4. ASSUME IsEvent(h)
      PROVE  WireSound(s, Append(t, h.value), r) /\ ToastsSound(s, Append(t, h.value))
  <2>1. PICK u : u = Append(t, h.value)
        OBVIOUS
  <2>2. h.value \in Nat
        BY <1>2 DEF Message
  <2>3. /\ \A i \in DOMAIN u : i \in 1..Len(t) + 1
        /\ \A i \in 1..Len(t) : i \in DOMAIN t /\ u[i] = t[i]
        /\ u[Len(t) + 1] = h.value /\ Len(t) \in Nat
        BY <2>1, <2>2
  <2>4. \A i \in DOMAIN u : (i \in DOMAIN t /\ u[i] = t[i]) \/ (i = Len(t) + 1 /\ u[i] = h.value)
        BY <2>3
  <2>5. \A j \in DOMAIN r : IsEvent(r[j]) => Before(s, h.value, r[j].value)
        BY <1>2, <1>4 DEF WireSound
  <2>6. WireSound(s, u, r)
        BY <1>3, <2>4, <2>5 DEF WireSound
  <2>7. \A i \in DOMAIN t : Before(s, t[i], h.value)
        BY <1>2, <1>4 DEF WireSound
  <2>8. \E n \in DOMAIN s : s[n] = h.value
        BY <1>2, <1>4 DEF WireSound
  <2>9. \A i, j \in DOMAIN u : i < j => Before(s, u[i], u[j])
    <3> TAKE i, j \in DOMAIN u
    <3> HAVE i < j
    <3>1. i \in DOMAIN t /\ u[i] = t[i]
          BY <2>3, <2>4
    <3>2. CASE j \in DOMAIN t /\ u[j] = t[j]
          BY <3>1, <3>2 DEF ToastsSound
    <3>3. CASE u[j] = h.value
          BY <2>7, <3>1, <3>3
    <3> QED
        BY <2>4, <3>2, <3>3
  <2>10. \A i \in DOMAIN u : \E n \in DOMAIN s : s[n] = u[i]
        BY <2>4, <2>8 DEF ToastsSound
  <2>11. ToastsSound(s, u)
        BY <2>9, <2>10 DEF ToastsSound
  <2> QED
      BY <2>1, <2>6, <2>11
<1> QED
    BY <1>1, <1>2, <1>3, <1>4

\* A batch of new events is announced, and written to a client or not.
LEMMA BatchKeepsWire ==
    ASSUME NEW T, NEW R, NEW s \in Seq(T), NEW t, NEW b \in Seq(R), ToastsSound(s, t),
           R \subseteq Nat, T \cap R = {}, \A i, j \in DOMAIN b : b[i] = b[j] => i = j
    PROVE  /\ ToastsSound(s \o b, t)
           /\ \A w \in Seq(Message) : WireSound(s, t, w) =>
                 /\ WireSound(s \o b, t, w)
                 /\ w \o [i \in DOMAIN b |-> Live(b[i])] \in Seq(Message)
                 /\ WireSound(s \o b, t, w \o [i \in DOMAIN b |-> Live(b[i])])
<1>1. PICK u, m, n : u = s \o b /\ m = Len(s) /\ n = Len(b)
      OBVIOUS
<1>2. /\ m \in Nat /\ n \in Nat /\ DOMAIN s = 1..m /\ DOMAIN b = 1..n
      /\ \A i \in 1..m : s[i] \in T
      /\ \A i \in 1..n : b[i] \in R
      BY <1>1
<1>3. /\ DOMAIN u = 1..m + n
      /\ \A i \in 1..m + n : u[i] = IF i =< m THEN s[i] ELSE b[i - m]
  <2>1. s \in Seq(T \cup R) /\ b \in Seq(T \cup R)
        OBVIOUS
  <2>2. /\ DOMAIN (s \o b) = 1..Len(s) + Len(b)
        /\ \A i \in 1..Len(s) + Len(b) :
              (s \o b)[i] = IF i =< Len(s) THEN s[i] ELSE b[i - Len(s)]
        BY <2>1, Concatenated
  <2> QED
      BY <1>1, <2>2, Zenon
<1>4. /\ \A i \in 1..m : i \in DOMAIN u /\ u[i] = s[i]
      /\ \A i \in 1..n : m + i \in DOMAIN u /\ u[m + i] = b[i]
  <2>1. \A i \in 1..m : i \in 1..m + n /\ i =< m
        BY <1>2
  <2>2. ASSUME NEW i \in 1..n
        PROVE  m + i \in DOMAIN u /\ u[m + i] = b[i]
    <3>1. PICK q : q = m + i
          OBVIOUS
    <3>2. q \in 1..m + n /\ ~(q =< m) /\ q - m = i
          BY <1>2, <3>1
    <3> QED
        BY <1>3, <3>1, <3>2
  <2> QED
      BY <1>3, <2>1, <2>2
<1>5. \A x, y : Before(s, x, y) => Before(u, x, y)
      BY <1>2, <1>4 DEF Before
<1>6. \A i \in DOMAIN s, j \in DOMAIN b : Before(u, s[i], b[j])
  <2> TAKE i \in DOMAIN s, j \in DOMAIN b
  <2>1. i < m + j
        BY <1>2
  <2> QED
      BY <1>2, <1>4, <2>1 DEF Before
<1>7. \A i, j \in DOMAIN b : i < j => Before(u, b[i], b[j])
  <2> TAKE i, j \in DOMAIN b
  <2> HAVE i < j
  <2>1. m + i < m + j
        BY <1>2
  <2> QED
      BY <1>2, <1>4, <2>1 DEF Before
<1>8. \A i, j \in DOMAIN u : u[i] = u[j] => i = j
  <2>1. \A i \in DOMAIN u : \/ i \in 1..m /\ u[i] = s[i] /\ u[i] \in T
                            \/ ~(i =< m) /\ i - m \in 1..n /\ u[i] = b[i - m] /\ u[i] \in R
    <3> TAKE i \in DOMAIN u
    <3>1. CASE i =< m
          BY <1>2, <1>3, <3>1
    <3>2. CASE ~(i =< m)
      <4>1. i - m \in 1..n
            BY <1>2, <1>3, <3>2
      <4> QED
          BY <1>2, <1>3, <3>2, <4>1
    <3> QED
        BY <3>1, <3>2
  <2> TAKE i, j \in DOMAIN u
  <2> HAVE u[i] = u[j]
  <2>2. CASE i \in 1..m /\ u[i] = s[i] /\ u[i] \in T
    <3>1. j \in 1..m /\ u[j] = s[j]
          BY <2>1, <2>2
    <3> QED
        BY <1>2, <2>2, <3>1 DEF ToastsSound
  <2>3. CASE ~(i =< m) /\ i - m \in 1..n /\ u[i] = b[i - m] /\ u[i] \in R
    <3>1. j - m \in 1..n /\ u[j] = b[j - m]
          BY <2>1, <2>3
    <3>2. i - m = j - m
          BY <1>2, <2>3, <3>1
    <3> QED
        BY <1>2, <1>3, <3>2
  <2> QED
      BY <2>1, <2>2, <2>3
<1>9. ToastsSound(u, t)
      BY <1>2, <1>4, <1>5, <1>8 DEF ToastsSound
<1>10. ASSUME NEW w \in Seq(Message), WireSound(s, t, w)
       PROVE  WireSound(u, t, w)
       BY <1>2, <1>4, <1>5, <1>10 DEF WireSound
<1>11. ASSUME NEW w \in Seq(Message), WireSound(s, t, w), NEW l,
              l = [i \in DOMAIN b |-> Live(b[i])]
       PROVE  w \o l \in Seq(Message) /\ WireSound(u, t, w \o l)
  <2>1. /\ l \in Seq(Message) /\ DOMAIN l = 1..n
        /\ \A i \in 1..n : l[i].value = b[i]
    <3>1. \A i \in 1..n : Live(b[i]) \in Message /\ Live(b[i]).value = b[i]
          BY <1>2 DEF Live, Message
    <3> QED
        BY <1>2, <1>11, <3>1
  <2>2. PICK v, z : v = w \o l /\ z = Len(w)
        OBVIOUS
  <2>3. z \in Nat /\ DOMAIN w = 1..z /\ Len(l) = n
        BY <1>2, <2>1, <2>2
  <2>4. /\ v \in Seq(Message) /\ DOMAIN v = 1..z + n
        /\ \A i \in 1..z + n : v[i] = IF i =< z THEN w[i] ELSE l[i - z]
    <3>1. /\ w \o l \in Seq(Message) /\ DOMAIN (w \o l) = 1..Len(w) + Len(l)
          /\ \A i \in 1..Len(w) + Len(l) :
                (w \o l)[i] = IF i =< Len(w) THEN w[i] ELSE l[i - Len(w)]
          BY <2>1, Concatenated
    <3> QED
        BY <2>2, <2>3, <3>1, Zenon
  <2>5. \A i \in DOMAIN v : \/ i \in DOMAIN w /\ v[i] = w[i]
                            \/ ~(i =< z) /\ i - z \in DOMAIN b /\ v[i].value = b[i - z]
    <3> TAKE i \in DOMAIN v
    <3>1. CASE i =< z
          BY <2>3, <2>4, <3>1
    <3>2. CASE ~(i =< z)
      <4>1. i - z \in 1..n
            BY <1>2, <2>3, <2>4, <3>2
      <4>2. v[i] = l[i - z]
            BY <2>4, <3>2
      <4> QED
          BY <1>2, <2>1, <3>2, <4>1, <4>2
    <3> QED
        BY <3>1, <3>2
  <2>6. \A i \in DOMAIN v : IsEvent(v[i]) => \E k \in DOMAIN u : u[k] = v[i].value
    <3> TAKE i \in DOMAIN v
    <3> HAVE IsEvent(v[i])
    <3>1. CASE i \in DOMAIN w /\ v[i] = w[i]
          BY <1>2, <1>4, <1>11, <3>1 DEF WireSound
    <3>2. CASE i - z \in DOMAIN b /\ v[i].value = b[i - z]
          BY <1>2, <1>4, <3>2
    <3> QED
        BY <2>5, <3>1, <3>2
  <2>7. ASSUME NEW x, \E k \in DOMAIN s : s[k] = x, NEW j \in DOMAIN b
        PROVE  Before(u, x, b[j])
        BY <1>6, <2>7
  <2>8. \A i, j \in DOMAIN v :
           i < j /\ IsEvent(v[i]) /\ IsEvent(v[j]) => Before(u, v[i].value, v[j].value)
    <3> TAKE i, j \in DOMAIN v
    <3> HAVE i < j /\ IsEvent(v[i]) /\ IsEvent(v[j])
    <3>1. CASE i \in DOMAIN w /\ v[i] = w[i] /\ j \in DOMAIN w /\ v[j] = w[j]
          BY <1>5, <1>11, <3>1 DEF WireSound
    <3>2. CASE /\ i \in DOMAIN w /\ v[i] = w[i]
               /\ ~(j =< z) /\ j - z \in DOMAIN b /\ v[j].value = b[j - z]
      <4>1. \E k \in DOMAIN s : s[k] = v[i].value
            BY <1>11, <3>2 DEF WireSound
      <4> QED
          BY <2>7, <3>2, <4>1
    <3>3. CASE ~(i =< z) /\ i - z \in DOMAIN b /\ v[i].value = b[i - z]
      <4>1. ~(j =< z) /\ i - z < j - z
            BY <2>3, <2>4, <3>3
      <4>2. j - z \in DOMAIN b /\ v[j].value = b[j - z]
            BY <2>3, <2>5, <4>1
      <4> QED
          BY <1>7, <3>3, <4>1, <4>2
    <3> QED
        BY <2>5, <3>1, <3>2, <3>3
  <2>9. \A i \in DOMAIN t, j \in DOMAIN v : IsEvent(v[j]) => Before(u, t[i], v[j].value)
    <3> TAKE i \in DOMAIN t, j \in DOMAIN v
    <3> HAVE IsEvent(v[j])
    <3>1. CASE j \in DOMAIN w /\ v[j] = w[j]
          BY <1>5, <1>11, <3>1 DEF WireSound
    <3>2. CASE j - z \in DOMAIN b /\ v[j].value = b[j - z]
          BY <2>7, <3>2 DEF ToastsSound
    <3> QED
        BY <2>5, <3>1, <3>2
  <2>10. WireSound(u, t, v)
        BY <2>6, <2>8, <2>9 DEF WireSound
  <2> QED
      BY <2>2, <2>4, <2>10
<1> QED
    BY <1>1, <1>9, <1>10, <1>11

LEMMA SeqGrows ==
    ASSUME NEW A, NEW B, A \subseteq B, NEW s \in Seq(A)
    PROVE  s \in Seq(B)
    OBVIOUS

\* What is written is on its way with what was.
LEMMA WrittenIsCarried ==
    ASSUME NEW w \in Seq(Message), NEW b \in Seq(Event), NEW l, MaxEvents \in Nat,
           l = [i \in DOMAIN b |-> Live(b[i])]
    PROVE  /\ Carried(w) \subseteq Carried(w \o l)
           /\ \A i \in DOMAIN b : b[i] \in Carried(w \o l)
<1>1. PICK v, z, n : v = w \o l /\ z = Len(w) /\ n = Len(b)
      OBVIOUS
<1>2. z \in Nat /\ DOMAIN w = 1..z /\ n \in Nat /\ DOMAIN b = 1..n
      BY <1>1
<1>3. /\ l \in Seq(Message) /\ DOMAIN l = 1..n /\ Len(l) = n
      /\ \A i \in 1..n : l[i] = Live(b[i])
  <2>1. \A i \in 1..n : b[i] \in Nat
        BY <1>2 DEF Event
  <2>2. \A i \in 1..n : Live(b[i]) \in Message
        BY <2>1 DEF Live, Message
  <2> QED
      BY <1>2, <2>2
<1>4. /\ DOMAIN v = 1..z + n
      /\ \A i \in 1..z + n : v[i] = IF i =< z THEN w[i] ELSE l[i - z]
  <2>1. /\ DOMAIN (w \o l) = 1..Len(w) + Len(l)
        /\ \A i \in 1..Len(w) + Len(l) :
              (w \o l)[i] = IF i =< Len(w) THEN w[i] ELSE l[i - Len(w)]
        BY <1>3, Concatenated
  <2> QED
      BY <1>1, <1>3, <2>1, Zenon
<1>5. \A i \in 1..z : i \in DOMAIN v /\ v[i] = w[i]
  <2>1. \A i \in 1..z : i \in 1..z + n /\ i =< z
        BY <1>2
  <2> QED
      BY <1>4, <2>1
<1>6. ASSUME NEW i \in 1..n
      PROVE  b[i] \in Carried(v)
  <2>1. PICK q : q = z + i
        OBVIOUS
  <2>2. q \in 1..z + n /\ ~(q =< z) /\ q - z = i
        BY <1>2, <2>1
  <2>3. q \in DOMAIN v /\ v[q] = Live(b[i])
        BY <1>3, <1>4, <2>2
  <2>4. b[i] \in Event
        BY <1>2
  <2> QED
      BY <2>3, <2>4 DEF Carried
<1> QED
    BY <1>1, <1>2, <1>5, <1>6 DEF Carried

Progress == [at : {"none", "asked", "answered", "done"}, value : Int]

FeedTypes ==
    /\ indexed \in 0..MaxEvents
    /\ budget \in Budgets
    /\ clients \subseteq Call
    /\ wire \in [Call -> Seq(Message)]
    /\ call \in [Call -> Progress]
    /\ sse \in [Call -> {"none", "opening", "open", "closed"}]
    /\ source \in {0} \cup Call
    /\ announced \in Seq(1..indexed)
    /\ toasted \in Seq(Nat)

\* One EventSource at a time is not closed; what the server writes reaches the
\* page only over it, and the server writes to it.
OneStream ==
    /\ \A k \in Call : k = source <=> sse[k] \in {"opening", "open"}
    /\ \A k \in Call : sse[k] = "open" => k \in clients
    /\ \A k \in Call : wire[k] # <<>> => sse[k] = "open"
    /\ \A k \in Call : call[k].at # "done" => sse[k] = "none"

\* What the page is told, and has told, is in the order of the announcements.
OrderSound ==
    /\ ToastsSound(announced, toasted)
    /\ \A k \in Call : WireSound(announced, toasted, wire[k])

\* What is stored was shown, is lost or is under way.
Accounted ==
    \A e \in 1..indexed :
        \/ e \in shown \cup lost
        \/ \E k \in Call : k = source /\ e \in Carried(wire[k])

FeedInv ==
    /\ FeedTypes
    /\ OneStream
    /\ OrderSound
    /\ Accounted
    /\ Recents(filledAt) \subseteq shown

LEMMA FeedConstants ==
    /\ MaxEvents \in Nat
    /\ 0 \notin Call /\ Call \subseteq Nat
    /\ \A b \in Budgets : b.events \in 0..MaxEvents
    /\ Event = 1..MaxEvents
    BY FeedAssumption DEF FeedAssumption, Call, Event

\* Steps that leave the stream and the list alone.
LEMMA ElsewhereKeeps ==
    ASSUME FeedInv, call' \in [Call -> Progress],
           \A k \in Call : call[k].at = "done" => call'[k].at = "done",
           UNCHANGED <<indexed, budget, clients, wire, sse, source, announced, toasted,
                       shown, lost, filledAt>>
    PROVE  FeedInv'
<1>1. FeedTypes'
      BY DEF FeedInv, FeedTypes
<1>2. OneStream'
  <2>1. \A k \in Call : call'[k].at # "done" => call[k].at # "done"
        OBVIOUS
  <2> QED
      BY <2>1 DEF FeedInv, OneStream
<1>3. OrderSound'
      BY DEF FeedInv, OrderSound, ToastsSound, WireSound, Before
<1>4. Accounted' /\ (Recents(filledAt) \subseteq shown)'
      BY DEF FeedInv, Accounted
<1> QED
    BY <1>1, <1>2, <1>3, <1>4 DEF FeedInv

LEMMA PrimedOrder ==
    ASSUME NEW s, NEW t, s = announced', t = toasted', ToastsSound(s, t),
           \A k \in Call : WireSound(s, t, wire'[k])
    PROVE  OrderSound'
    BY DEF OrderSound, ToastsSound, WireSound, Before

LEMMA QuietKeeps ==
    ASSUME FeedInv, NEW n \in Event, StoreQuietly(n)
    PROVE  FeedInv'
<1>1. /\ n \in indexed + 1..budget.events /\ indexed' = n /\ lost' = lost \cup (indexed + 1..n)
      /\ UNCHANGED <<clients, wire, call, source, sse, budget, announced, toasted, shown,
                     filledAt>>
      BY DEF StoreQuietly, serverVars, netVars, statsVars, listVars
<1>2. indexed \in 0..MaxEvents /\ n \in 0..MaxEvents /\ 1..indexed \subseteq 1..n
      BY <1>1, FeedConstants DEF FeedInv, FeedTypes
<1>3. announced \in Seq(1..n)
      BY <1>2, SeqGrows DEF FeedInv, FeedTypes
<1>4. FeedTypes'
      BY <1>1, <1>2, <1>3 DEF FeedInv, FeedTypes
<1>5. OneStream' /\ OrderSound'
      BY <1>1 DEF FeedInv, OneStream, OrderSound, ToastsSound, WireSound, Before
<1>6. Accounted'
  <2>1. \A e \in 1..n : e \in 1..indexed \/ e \in indexed + 1..n
        BY <1>2
  <2> QED
      BY <1>1, <2>1 DEF FeedInv, Accounted
<1> QED
    BY <1>1, <1>4, <1>5, <1>6 DEF FeedInv

LEMMA AnnounceKeeps ==
    ASSUME FeedInv, NEW n \in Event, StoreAndAnnounce(n)
    PROVE  FeedInv'
<1>1. PICK S, P, D, b, l :
                     /\ S = indexed + 1..n /\ P = S \cap Proofs /\ D = S \ Proofs
                     /\ b = Ascending(P) \o Ascending(D)
                     /\ l = [i \in DOMAIN b |-> Live(b[i])]
      OBVIOUS
<1>2. /\ n \in indexed + 1..budget.events /\ indexed' = n
      /\ wire' = [c \in Call |-> Written(c, l)]
      /\ announced' = announced \o b
      /\ lost' = IF Listening THEN lost ELSE lost \cup S
      /\ UNCHANGED <<clients, call, source, sse, budget, toasted, shown, filledAt>>
      BY <1>1 DEF StoreAndAnnounce, Broadcast, netVars, statsVars, listVars
<1>3. /\ indexed \in 0..MaxEvents /\ n \in 0..MaxEvents /\ 1..indexed \subseteq 1..n
      /\ S \subseteq Event /\ S \subseteq Nat /\ S \cap (1..indexed) = {} /\ S \subseteq 1..n
      /\ \A e \in 1..n : e \in 1..indexed \/ e \in S
      BY <1>1, <1>2, FeedConstants DEF FeedInv, FeedTypes
<1>4. /\ b \in Seq(S)
      /\ \A i, j \in DOMAIN b : b[i] = b[j] => i = j
      /\ \A e \in S : \E i \in DOMAIN b : b[i] = e
  <2>1. S \in SUBSET Event /\ P \cap D = {} /\ P \cup D = S
        BY <1>1, <1>3
  <2>2. b = Ascending(P) \o Ascending(D)
        BY <1>1
  <2>3. b \in Seq(S)
        BY <2>1, <2>2, BatchHasAll
  <2>4. NoRepeat(b)
        BY <2>1, <2>2, BatchHasAll
  <2>5. \A e \in S : InList(b, e)
        BY <2>1, <2>2, BatchHasAll
  <2> QED
      BY <2>3, <2>4, <2>5 DEF InList, NoRepeat
<1>5. PICK s, t, w : s = announced /\ t = toasted /\ w = wire
      OBVIOUS
<1>6. /\ s \in Seq(1..indexed) /\ t \in Seq(Nat) /\ w \in [Call -> Seq(Message)]
      /\ ToastsSound(s, t) /\ \A k \in Call : WireSound(s, t, w[k])
      BY <1>5 DEF FeedInv, FeedTypes, OrderSound
<1>7. /\ ToastsSound(s \o b, t)
      /\ \A v \in Seq(Message) : WireSound(s, t, v) =>
            /\ WireSound(s \o b, t, v)
            /\ v \o l \in Seq(Message)
            /\ WireSound(s \o b, t, v \o l)
  <2>1. (1..indexed) \cap S = {}
        BY <1>3
  <2>2. /\ ToastsSound(s \o b, t)
        /\ \A v \in Seq(Message) : WireSound(s, t, v) =>
              /\ WireSound(s \o b, t, v)
              /\ v \o [i \in DOMAIN b |-> Live(b[i])] \in Seq(Message)
              /\ WireSound(s \o b, t, v \o [i \in DOMAIN b |-> Live(b[i])])
        BY <1>3, <1>4, <1>6, <2>1, BatchKeepsWire
  <2> QED
      BY <1>1, <2>2
<1>8. \A k \in Call : /\ wire'[k] = (IF k \in clients /\ sse[k] = "open" THEN w[k] \o l ELSE w[k])
                      /\ wire'[k] \in Seq(Message) /\ WireSound(s \o b, t, wire'[k])
  <2>1. \A k \in Call :
           wire'[k] = (IF k \in clients /\ sse[k] = "open" THEN w[k] \o l ELSE w[k])
        BY <1>2, <1>5 DEF Written
  <2> QED
      BY <1>6, <1>7, <2>1
<1>9. FeedTypes'
  <2>1. announced' \in Seq(1..n)
    <3>1. s \in Seq(1..n) /\ b \in Seq(1..n)
          BY <1>3, <1>4, <1>6, SeqGrows
    <3> QED
        BY <1>2, <1>5, <3>1
  <2>2. wire' \in [Call -> Seq(Message)]
        BY <1>2, <1>8
  <2> QED
      BY <1>2, <1>3, <2>1, <2>2 DEF FeedInv, FeedTypes
<1>10. OneStream'
  <2>1. \A k \in Call : wire'[k] # <<>> => sse[k] = "open"
        BY <1>5, <1>8 DEF FeedInv, OneStream
  <2> QED
      BY <1>2, <2>1 DEF FeedInv, OneStream
<1>11. OrderSound'
      BY <1>2, <1>5, <1>7, <1>8, PrimedOrder
<1>12. Accounted'
  <2> SUFFICES ASSUME NEW e \in 1..n, e \notin shown, e \notin lost'
               PROVE  \E k \in Call : k = source /\ e \in Carried(wire'[k])
      BY <1>2 DEF Accounted
  <2>1. /\ b \in Seq(Event) /\ MaxEvents \in Nat
        /\ \A v \in Seq(Message) : /\ Carried(v) \subseteq Carried(v \o l)
                                   /\ \A i \in DOMAIN b : b[i] \in Carried(v \o l)
    <3>1. b \in Seq(Event)
          BY <1>3, <1>4, SeqGrows
    <3> QED
        BY <1>1, <3>1, FeedConstants, WrittenIsCarried
  <2>2. CASE e \in 1..indexed
    <3>1. PICK k \in Call : k = source /\ e \in Carried(w[k])
          BY <1>2, <1>5, <2>2 DEF FeedInv, Accounted
    <3>2. e \in Carried(wire'[k])
          BY <1>6, <1>8, <2>1, <3>1
    <3> QED
        BY <3>1, <3>2
  <2>3. CASE e \in S
    <3>1. Listening /\ source \in Call /\ sse[source] = "open"
          BY <1>2, <2>3, FeedConstants DEF Listening, FeedInv, FeedTypes
    <3>2. wire'[source] = w[source] \o l
          BY <1>8, <3>1 DEF FeedInv, OneStream
    <3>3. PICK i \in DOMAIN b : b[i] = e
          BY <1>4, <2>3
    <3>4. e \in Carried(wire'[source])
          BY <1>6, <2>1, <3>1, <3>2, <3>3
    <3> QED
        BY <3>1, <3>4
  <2> QED
      BY <1>3, <2>2, <2>3
<1> QED
    BY <1>2, <1>9, <1>10, <1>11, <1>12 DEF FeedInv

LEMMA EmptiedKeepsOrder ==
    ASSUME OrderSound, UNCHANGED <<announced, toasted>>,
           \A k \in Call : wire'[k] = wire[k] \/ wire'[k] = <<>>
    PROVE  OrderSound'
<1>1. PICK s, t, w : s = announced /\ t = toasted /\ w = wire
      OBVIOUS
<1>2. \A k \in Call : WireSound(s, t, wire'[k])
  <2> TAKE k \in Call
  <2>1. CASE wire'[k] = w[k]
        BY <1>1, <2>1 DEF OrderSound
  <2>2. CASE wire'[k] = <<>>
        BY <2>2 DEF WireSound
  <2> QED
      BY <1>1, <2>1, <2>2
<1> QED
    BY <1>1, <1>2, PrimedOrder DEF OrderSound

\* A page that gives up its former stream loses what was on its way.
LEMMA ConnectedKeeps ==
    ASSUME FeedInv, NEW k \in Call, Connected(k)
    PROVE  FeedInv'
<1>1. /\ call[k].at = "answered"
      /\ call' = [call EXCEPT ![k] = Done]
      /\ ReplaceSource(k)
      /\ UNCHANGED <<indexed, clients, budget, announced, toasted, shown, filledAt>>
      BY DEF Connected, serverVars, netVars, listVars
<1>2. source' = k /\ sse[k] = "none" /\ k # source /\ k # 0 /\ wire[k] = <<>>
      BY <1>1, FeedConstants DEF ReplaceSource, FeedInv, OneStream
<1>3. /\ sse' \in [Call -> {"none", "opening", "open", "closed"}]
      /\ sse'[k] = "opening"
      /\ \A j \in Call : j # k => /\ sse'[j] \notin {"opening", "open"}
                                  /\ sse[j] = "none" => sse'[j] = "none"
      /\ wire' \in [Call -> Seq(Message)]
      /\ \A j \in Call : wire'[j] = <<>>
  <2>1. /\ sse \in [Call -> {"none", "opening", "open", "closed"}]
        /\ wire \in [Call -> Seq(Message)] /\ source \in {0} \cup Call
        /\ \A j \in Call : j # source => sse[j] \notin {"opening", "open"}
        /\ \A j \in Call : j # source => wire[j] = <<>>
        BY DEF FeedInv, FeedTypes, OneStream
  <2>2. CASE source = 0
        BY <1>1, <1>2, <2>1, <2>2, FeedConstants DEF ReplaceSource
  <2>3. CASE source # 0
    <3>1. /\ source \in Call /\ sse[source] # "none"
          /\ sse' = [sse EXCEPT ![k] = "opening", ![source] = "closed"]
          /\ wire' = [wire EXCEPT ![source] = <<>>]
          BY <1>1, <2>1, <2>3 DEF ReplaceSource, FeedInv, OneStream
    <3>2. /\ sse' \in [Call -> {"none", "opening", "open", "closed"}]
          /\ sse'[k] = "opening" /\ sse'[source] = "closed"
          /\ \A j \in Call : j # k /\ j # source => sse'[j] = sse[j]
          BY <1>2, <2>1, <3>1
    <3>3. /\ wire' \in [Call -> Seq(Message)] /\ wire'[source] = <<>>
          /\ \A j \in Call : j # source => wire'[j] = <<>>
          BY <2>1, <3>1
    <3> QED
        BY <2>1, <3>1, <3>2, <3>3
  <2> QED
      BY <2>2, <2>3
<1>4. /\ call' \in [Call -> Progress]
      /\ call'[k].at = "done"
      /\ \A j \in Call : j # k => call'[j] = call[j]
  <2>1. Done \in Progress /\ Done.at = "done"
        BY DEF Done, Progress
  <2> QED
      BY <1>1, <2>1 DEF FeedInv, FeedTypes
<1>5. FeedTypes'
      BY <1>1, <1>2, <1>3, <1>4 DEF FeedInv, FeedTypes
<1>6. OneStream'
  <2>1. \A j \in Call : j = source' <=> sse'[j] \in {"opening", "open"}
        BY <1>2, <1>3
  <2>2. \A j \in Call : sse'[j] # "open" /\ wire'[j] = <<>>
        BY <1>3
  <2>3. \A j \in Call : call'[j].at # "done" => sse'[j] = "none"
        BY <1>3, <1>4 DEF FeedInv, OneStream
  <2> QED
      BY <2>1, <2>2, <2>3 DEF OneStream
<1>7. OrderSound'
      BY <1>1, <1>3, EmptiedKeepsOrder DEF FeedInv
<1>8. Accounted'
  <2>1. \A j \in Call : j = source => Carried(wire[j]) \subseteq lost'
        BY <1>1, FeedConstants DEF ReplaceSource
  <2>2. lost \subseteq lost'
        BY <1>1 DEF ReplaceSource
  <2> QED
      BY <1>1, <2>1, <2>2 DEF FeedInv, Accounted
<1> QED
    BY <1>1, <1>5, <1>6, <1>7, <1>8 DEF FeedInv

\* A status is written to one EventSource.
LEMMA ToldKeepsOrder ==
    ASSUME FeedInv, NEW k \in Call, UNCHANGED <<announced, toasted, indexed, source, shown, lost>>,
           wire' = [wire EXCEPT ![k] = Append(@, Status(indexed))]
    PROVE  /\ wire' \in [Call -> Seq(Message)]
           /\ OrderSound'
           /\ Accounted'
<1>1. PICK s, t, w, n : s = announced /\ t = toasted /\ w = wire /\ n = indexed
      OBVIOUS
<1>2. /\ w \in [Call -> Seq(Message)] /\ n \in Nat
      /\ ToastsSound(s, t) /\ \A j \in Call : WireSound(s, t, w[j])
      BY <1>1, FeedConstants DEF FeedInv, FeedTypes, OrderSound
<1>3. \A j \in Call : j # k => wire'[j] = w[j]
      BY <1>1, <1>2
<1>4. /\ wire'[k] = Append(w[k], Status(n))
      /\ wire'[k] \in Seq(Message)
      /\ WireSound(s, t, wire'[k])
      /\ Carried(w[k]) \subseteq Carried(wire'[k])
  <2>1. wire'[k] = Append(w[k], Status(n))
        BY <1>1, <1>2
  <2>2. PICK v : v = w[k]
        OBVIOUS
  <2>3. v \in Seq(Message) /\ WireSound(s, t, v)
        BY <1>2, <2>2
  <2>4. /\ WireSound(s, t, Append(v, Status(n)))
        /\ Append(v, Status(n)) \in Seq(Message)
        /\ Carried(v) \subseteq Carried(Append(v, Status(n)))
        BY <1>2, <2>3, StatusKeepsWire
  <2> QED
      BY <2>1, <2>2, <2>4
<1>5. \A j \in Call : /\ wire'[j] \in Seq(Message) /\ WireSound(s, t, wire'[j])
                      /\ Carried(w[j]) \subseteq Carried(wire'[j])
      BY <1>2, <1>3, <1>4
<1>6. wire' \in [Call -> Seq(Message)]
      BY <1>1, <1>2, <1>5
<1>7. OrderSound'
      BY <1>1, <1>2, <1>5, PrimedOrder
<1>8. Accounted'
      BY <1>1, <1>5 DEF FeedInv, Accounted
<1> QED
    BY <1>6, <1>7, <1>8

LEMMA RegisterKeeps ==
    ASSUME FeedInv, NEW k \in Call, Register(k)
    PROVE  FeedInv'
<1>1. /\ sse[k] = "opening"
      /\ sse' = [sse EXCEPT ![k] = "open"]
      /\ clients' = clients \cup {k}
      /\ wire' = [wire EXCEPT ![k] = Append(@, Status(indexed))]
      /\ UNCHANGED <<indexed, budget, call, source, announced, toasted, shown, lost, filledAt>>
      BY DEF Register, netVars, listVars, historyVars
<1>2. /\ wire' \in [Call -> Seq(Message)]
      /\ OrderSound'
      /\ Accounted'
      BY <1>1, ToldKeepsOrder
<1>3. /\ sse' \in [Call -> {"none", "opening", "open", "closed"}]
      /\ sse'[k] = "open"
      /\ \A j \in Call : j # k => sse'[j] = sse[j] /\ wire'[j] = wire[j]
      BY <1>1 DEF FeedInv, FeedTypes
<1>4. FeedTypes'
      BY <1>1, <1>2, <1>3 DEF FeedInv, FeedTypes
<1>5. OneStream'
  <2>1. k = source /\ call[k].at = "done"
        BY <1>1 DEF FeedInv, OneStream
  <2>2. \A j \in Call : j = source <=> sse'[j] \in {"opening", "open"}
        BY <1>3, <2>1 DEF FeedInv, OneStream
  <2>3. \A j \in Call : /\ sse'[j] = "open" => j \in clients \cup {k}
                        /\ wire'[j] # <<>> => sse'[j] = "open"
                        /\ call[j].at # "done" => sse'[j] = "none"
        BY <1>3, <2>1 DEF FeedInv, OneStream
  <2> QED
      BY <1>1, <2>2, <2>3 DEF OneStream
<1> QED
    BY <1>1, <1>2, <1>4, <1>5 DEF FeedInv

LEMMA PollKeeps ==
    ASSUME FeedInv, NEW k \in Call, Poll(k)
    PROVE  FeedInv'
<1>1. /\ k \in clients
      /\ wire' = [wire EXCEPT ![k] = Written(k, <<Status(indexed)>>)]
      /\ UNCHANGED <<indexed, clients, budget, call, source, sse, announced, toasted,
                     shown, lost, filledAt>>
      BY DEF Poll, netVars, listVars, historyVars
<1>2. wire \in [Call -> Seq(Message)] /\ indexed \in Nat
      BY FeedConstants DEF FeedInv, FeedTypes
<1>3. CASE sse[k] # "open"
  <2>1. wire' = wire
        BY <1>1, <1>2, <1>3 DEF Written
  <2> QED
      BY <1>1, <2>1, ElsewhereKeeps DEF FeedInv, FeedTypes
<1>4. CASE sse[k] = "open"
  <2>1. wire[k] \o <<Status(indexed)>> = Append(wire[k], Status(indexed))
    <3>1. Status(indexed) \in Message /\ wire[k] \in Seq(Message)
          BY <1>2 DEF Status, Message
    <3> QED
        BY <3>1
  <2>2. wire' = [wire EXCEPT ![k] = Append(@, Status(indexed))]
        BY <1>1, <1>4, <2>1 DEF Written
  <2>3. /\ wire' \in [Call -> Seq(Message)]
        /\ OrderSound'
        /\ Accounted'
        BY <1>1, <2>2, ToldKeepsOrder
  <2>4. FeedTypes'
        BY <1>1, <2>3 DEF FeedInv, FeedTypes
  <2>5. OneStream'
    <3>1. \A j \in Call : j # k => wire'[j] = wire[j]
          BY <1>2, <2>2
    <3>2. \A j \in Call : wire'[j] # <<>> => sse[j] = "open"
          BY <1>4, <3>1 DEF FeedInv, OneStream
    <3> QED
        BY <1>1, <3>2 DEF FeedInv, OneStream
  <2> QED
      BY <1>1, <2>3, <2>4, <2>5 DEF FeedInv
<1> QED
    BY <1>3, <1>4

LEMMA HangupKeeps ==
    ASSUME FeedInv, NEW k \in Call, Hangup(k)
    PROVE  FeedInv'
<1>1. /\ sse[k] = "closed" /\ clients' = clients \ {k}
      /\ UNCHANGED <<indexed, budget, wire, call, source, sse, announced, toasted,
                     shown, lost, filledAt>>
      BY DEF Hangup, Unregister, netVars, listVars, historyVars
<1>2. FeedTypes'
      BY <1>1 DEF FeedInv, FeedTypes
<1>3. OneStream'
      BY <1>1 DEF FeedInv, OneStream
<1>4. OrderSound'
      BY <1>1, EmptiedKeepsOrder DEF FeedInv
<1>5. Accounted'
      BY <1>1 DEF FeedInv, Accounted
<1> QED
    BY <1>1, <1>2, <1>3, <1>4, <1>5 DEF FeedInv

\* A message reaches the page: an event leaves the wire and is shown.
LEMMA ReceiveKeeps ==
    ASSUME FeedInv, NEW k \in Call, Receive(k)
    PROVE  FeedInv'
<1>1. PICK s, t, w, m :
         s = announced /\ t = toasted /\ w = wire /\ m = Head(wire[k])
      OBVIOUS
<1>2. /\ w[k] # <<>>
      /\ wire' = [w EXCEPT ![k] = Tail(w[k])]
      /\ IF m.type = "status"
         THEN toasted' = t /\ shown' = shown
         ELSE /\ toasted' \in {t, Append(t, m.value)}
              /\ shown' = shown \cup {m.value}
      /\ UNCHANGED <<indexed, clients, budget, call, source, sse, announced, lost, filledAt>>
      BY <1>1 DEF Receive, serverVars, netVars, listVars, historyVars
<1>3. /\ w \in [Call -> Seq(Message)] /\ s \in Seq(1..indexed) /\ t \in Seq(Nat)
      /\ ToastsSound(s, t) /\ \A j \in Call : WireSound(s, t, w[j])
      /\ sse[k] = "open" /\ k = source
      /\ \A j \in Call : j # k => w[j] = <<>>
      BY <1>1, <1>2 DEF FeedInv, FeedTypes, OrderSound, OneStream
<1>4. /\ Tail(w[k]) \in Seq(Message) /\ m \in Message
      /\ WireSound(s, t, Tail(w[k]))
      /\ IsEvent(m) => /\ WireSound(s, Append(t, m.value), Tail(w[k]))
                       /\ ToastsSound(s, Append(t, m.value))
  <2>1. w[k] \in Seq(Message) /\ w[k] # <<>> /\ WireSound(s, t, w[k])
        BY <1>2, <1>3
  <2> QED
      BY <1>1, <1>3, <2>1, ReceivedKeepsWire
<1>5. /\ wire'[k] = Tail(w[k])
      /\ \A j \in Call : j # k => wire'[j] = <<>>
      /\ wire' \in [Call -> Seq(Message)]
      BY <1>2, <1>3, <1>4
<1>6. PICK u : u = toasted'
      OBVIOUS
<1>7. u \in Seq(Nat) /\ ToastsSound(s, u) /\ WireSound(s, u, Tail(w[k]))
  <2>1. m.value \in Nat /\ (IsEvent(m) <=> m.type # "status")
        BY <1>4 DEF Message, IsEvent
  <2>2. Append(t, m.value) \in Seq(Nat)
        BY <1>3, <2>1
  <2> QED
      BY <1>2, <1>3, <1>4, <1>6, <2>1, <2>2
<1>8. FeedTypes'
      BY <1>2, <1>5, <1>6, <1>7 DEF FeedInv, FeedTypes
<1>9. OneStream'
      BY <1>2, <1>3, <1>5 DEF FeedInv, OneStream
<1>10. OrderSound'
  <2>1. WireSound(s, u, <<>>)
        BY DEF WireSound
  <2>2. \A j \in Call : WireSound(s, u, wire'[j])
        BY <1>5, <1>7, <2>1
  <2> QED
      BY <1>1, <1>2, <1>6, <1>7, <2>2, PrimedOrder
<1>11. Accounted'
  <2>1. \A e \in Carried(w[k]) : e \in shown' \/ e \in Carried(Tail(w[k]))
    <3> TAKE e \in Carried(w[k])
    <3>1. PICK i \in DOMAIN w[k] : w[k][i] = Live(e) /\ e \in Event
          BY DEF Carried
    <3>2. CASE i = 1
      <4>1. m = Live(e)
            BY <1>1, <1>2, <1>3, <3>1, <3>2
      <4>2. m.type # "status" /\ m.value = e
            BY <4>1 DEF Live
      <4> QED
          BY <1>2, <4>2
    <3>3. CASE i # 1
      <4>1. i - 1 \in DOMAIN Tail(w[k]) /\ Tail(w[k])[i - 1] = w[k][i]
            BY <1>2, <1>3, <3>1, <3>3
      <4> QED
          BY <3>1, <4>1 DEF Carried
    <3> QED
        BY <3>2, <3>3
  <2>2. shown \subseteq shown'
        BY <1>2
  <2> QED
      BY <1>1, <1>2, <1>3, <1>5, <2>1, <2>2 DEF FeedInv, Accounted
<1> QED
    BY <1>2, <1>8, <1>9, <1>10, <1>11 DEF FeedInv

LEMMA BackfillKeeps ==
    ASSUME FeedInv, NEW k \in Call, Backfill(k)
    PROVE  FeedInv'
<1>1. PICK n : n = fill[k].value
      OBVIOUS
<1>2. /\ shown' = shown \cup Recents(n) /\ filledAt' = n
      /\ UNCHANGED <<indexed, clients, budget, wire, call, source, sse, announced, toasted,
                     lost>>
      BY <1>1 DEF Backfill, serverVars, netVars
<1>3. FeedTypes' /\ OneStream'
      BY <1>2 DEF FeedInv, FeedTypes, OneStream
<1>4. OrderSound'
      BY <1>2, EmptiedKeepsOrder DEF FeedInv
<1>5. Accounted'
      BY <1>2 DEF FeedInv, Accounted
<1>6. (Recents(filledAt) \subseteq shown)'
      BY <1>2
<1> QED
    BY <1>3, <1>4, <1>5, <1>6 DEF FeedInv

LEMMA DropKeeps ==
    ASSUME FeedInv, NEW k \in Call, Drop(k)
    PROVE  FeedInv'
<1>1. /\ sse[k] = "open"
      /\ sse' = [sse EXCEPT ![k] = "opening"]
      /\ clients' = clients \ {k}
      /\ wire' = [wire EXCEPT ![k] = <<>>]
      /\ lost' = lost \cup Carried(wire[k])
      /\ UNCHANGED <<indexed, budget, call, source, announced, toasted, shown, filledAt>>
      BY DEF Drop, Unregister, listVars
<1>2. /\ sse' \in [Call -> {"none", "opening", "open", "closed"}]
      /\ sse'[k] = "opening" /\ k = source /\ call[k].at = "done"
      /\ wire' \in [Call -> Seq(Message)] /\ wire'[k] = <<>>
      /\ \A j \in Call : j # k => sse'[j] = sse[j] /\ wire'[j] = wire[j]
      BY <1>1 DEF FeedInv, FeedTypes, OneStream
<1>3. FeedTypes'
      BY <1>1, <1>2 DEF FeedInv, FeedTypes
<1>4. OneStream'
  <2>1. \A j \in Call : j = source <=> sse'[j] \in {"opening", "open"}
        BY <1>2 DEF FeedInv, OneStream
  <2>2. \A j \in Call : /\ sse'[j] = "open" => j \in clients \ {k}
                        /\ wire'[j] # <<>> => sse'[j] = "open"
                        /\ call[j].at # "done" => sse'[j] = "none"
        BY <1>2 DEF FeedInv, OneStream
  <2> QED
      BY <1>1, <2>1, <2>2 DEF OneStream
<1>5. OrderSound'
      BY <1>1, <1>2, EmptiedKeepsOrder DEF FeedInv
<1>6. Accounted'
      BY <1>1, <1>2 DEF FeedInv, Accounted
<1> QED
    BY <1>1, <1>3, <1>4, <1>5, <1>6 DEF FeedInv

LEMMA FeedStarts == FeedInit => FeedInv
<1> SUFFICES ASSUME FeedInit
             PROVE  FeedInv
    OBVIOUS
<1>1. FeedTypes
  <2>1. None \in Progress
        BY DEF None, Progress
  <2> QED
      BY <2>1, FeedConstants DEF FeedInit, FeedTypes
<1>2. OneStream
      BY FeedConstants DEF FeedInit, OneStream
<1>3. OrderSound
      BY DEF FeedInit, OrderSound, ToastsSound, WireSound
<1>4. Accounted
      BY DEF FeedInit, Accounted
<1>5. Recents(filledAt) \subseteq shown
  <2>1. 1..filledAt = {}
        BY DEF FeedInit
  <2> QED
      BY <2>1 DEF Recents, Newest
<1> QED
    BY <1>1, <1>2, <1>3, <1>4, <1>5 DEF FeedInv

LEMMA FeedStep == FeedInv /\ [FeedNext]_feedVars => FeedInv'
<1> SUFFICES ASSUME FeedInv, [FeedNext]_feedVars
             PROVE  FeedInv'
    OBVIOUS
<1> USE DEF serverVars, netVars, statsVars, listVars, historyVars
<1>1. call \in [Call -> Progress] /\ Asked \in Progress /\ Done \in Progress
      /\ \A n : Answered(n).at # "done" /\ (n \in Nat => Answered(n) \in Progress)
      /\ indexed \in Nat
  <2>1. call \in [Call -> Progress]
        BY DEF FeedInv, FeedTypes
  <2>2. Asked \in Progress /\ Done \in Progress
        BY DEF Asked, Done, Progress
  <2>3. \A n : Answered(n).at # "done" /\ (n \in Nat => Answered(n) \in Progress)
        BY DEF Answered, Progress
  <2>4. indexed \in Nat
        BY FeedConstants DEF FeedInv, FeedTypes
  <2> QED
      BY <2>1, <2>2, <2>3, <2>4
<1>2. ASSUME UNCHANGED <<indexed, budget, clients, wire, call, sse, source, announced,
                         toasted, shown, lost, filledAt>>
      PROVE  FeedInv'
      BY <1>1, <1>2, ElsewhereKeeps
<1>3. CASE UNCHANGED feedVars
      BY <1>2, <1>3 DEF feedVars
<1>4. CASE Store
  <2>1. CASE GoLive
        BY <1>2, <2>1 DEF GoLive
  <2> QED
      BY <1>4, <2>1, QuietKeeps, AnnounceKeeps DEF Store
<1>5. CASE Serve
  <2>1. CASE ServeRefresh
        BY <1>2, <2>1 DEF ServeRefresh
  <2>2. ASSUME NEW k \in Call, ServeStatus(k)
        PROVE  FeedInv'
    <3>1. /\ call[k].at = "asked" /\ call' = [call EXCEPT ![k] = Answered(indexed)]
          /\ UNCHANGED <<indexed, budget, clients, wire, sse, source, announced,
                         toasted, shown, lost, filledAt>>
          BY <2>2 DEF ServeStatus, Asked
    <3>2. /\ call' \in [Call -> Progress]
          /\ \A j \in Call : call[j].at = "done" => call'[j].at = "done"
          BY <1>1, <3>1
    <3> QED
        BY <3>1, <3>2, ElsewhereKeeps
  <2>3. ASSUME NEW k \in Call, ServeRecent(k)
        PROVE  FeedInv'
        BY <1>2, <2>3 DEF ServeRecent
  <2> QED
      BY <1>5, <2>1, <2>2, <2>3, RegisterKeeps, PollKeeps, HangupKeeps DEF Serve
<1>6. CASE Handle
  <2>1. CASE Refreshed
        BY <1>2, <2>1 DEF Refreshed
  <2> QED
      BY <1>6, <2>1, ConnectedKeeps, ReceiveKeeps, BackfillKeeps DEF Handle
<1>7. ASSUME AskRefresh
      PROVE  FeedInv'
      BY <1>2, <1>7 DEF AskRefresh
<1>8. CASE User
  <2>1. CASE Clear
        BY <1>2, <2>1 DEF Clear
  <2>2. ASSUME NEW k \in Call, Connect(k)
        PROVE  FeedInv'
    <3>1. /\ call[k].at = "none" /\ call' = [call EXCEPT ![k] = Asked]
          /\ UNCHANGED <<indexed, budget, clients, wire, sse, source, announced,
                         toasted, shown, lost, filledAt>>
          BY <2>2 DEF Connect, None
    <3>2. /\ call' \in [Call -> Progress]
          /\ \A j \in Call : call[j].at = "done" => call'[j].at = "done"
          BY <1>1, <3>1
    <3> QED
        BY <3>1, <3>2, ElsewhereKeeps
  <2> QED
      BY <1>7, <1>8, <2>1, <2>2 DEF User, RefreshByHand
<1>9. CASE Failure
  <2>1. CASE RefreshFails
        BY <1>2, <2>1 DEF RefreshFails
  <2>2. ASSUME NEW k \in Call, ConnectFails(k)
        PROVE  FeedInv'
    <3>1. /\ call' = [call EXCEPT ![k] = Done]
          /\ UNCHANGED <<indexed, budget, clients, wire, sse, source, announced,
                         toasted, shown, lost, filledAt>>
          BY <2>2 DEF ConnectFails
    <3>2. /\ call' \in [Call -> Progress]
          /\ \A j \in Call : call[j].at = "done" => call'[j].at = "done"
          BY <1>1, <3>1 DEF Done
    <3> QED
        BY <3>1, <3>2, ElsewhereKeeps
  <2>3. ASSUME NEW k \in Call, BackfillFails(k)
        PROVE  FeedInv'
        BY <1>2, <2>3 DEF BackfillFails
  <2> QED
      BY <1>9, <2>1, <2>2, <2>3, DropKeeps DEF Failure
<1> QED
    BY <1>3, <1>4, <1>5, <1>6, <1>7, <1>8, <1>9 DEF FeedNext, RefreshByTimer

\* Over reconnects, several connects, backfills and clears the page announces
\* events in the order in which the server did, each at most once.
THEOREM ToastsKeepOrder == FeedSpec => []ToastsInOrder
<1>1. FeedInv => ToastsInOrder
  <2> SUFFICES ASSUME FeedInv
               PROVE  ToastsInOrder
      OBVIOUS
  <2>1. /\ ToastsSound(announced, toasted)
        /\ DOMAIN announced \subseteq Nat
        BY FeedConstants DEF FeedInv, FeedTypes, OrderSound
  <2> DEFINE at(i) == CHOOSE n \in DOMAIN announced : announced[n] = toasted[i]
             f == [i \in DOMAIN toasted |-> at(i)]
  <2>2. \A i \in DOMAIN toasted : f[i] \in DOMAIN announced /\ announced[f[i]] = toasted[i]
    <3> TAKE i \in DOMAIN toasted
    <3>1. \E n \in DOMAIN announced : announced[n] = toasted[i]
          BY <2>1 DEF ToastsSound
    <3>2. at(i) \in DOMAIN announced /\ announced[at(i)] = toasted[i]
          BY <3>1
    <3> HIDE DEF at
    <3> QED
        BY <3>2
  <2> HIDE DEF at
  <2>3. f \in [DOMAIN toasted -> DOMAIN announced]
        BY <2>2
  <2> HIDE DEF f
  <2>4. \A i, j \in DOMAIN toasted : i < j => f[i] < f[j]
    <3> TAKE i, j \in DOMAIN toasted
    <3> HAVE i < j
    <3>1. PICK m, n \in DOMAIN announced :
             m < n /\ announced[m] = toasted[i] /\ announced[n] = toasted[j]
          BY <2>1 DEF ToastsSound, Before
    <3>2. f[i] = m /\ f[j] = n
          BY <2>1, <2>2, <3>1 DEF ToastsSound
    <3> QED
        BY <3>1, <3>2
  <2> QED
      BY <2>2, <2>3, <2>4 DEF ToastsInOrder, IsSubsequence
<1> QED
    BY <1>1, FeedStarts, FeedStep, PTL DEF FeedSpec

\* Once nothing is under way, the page misses only events that were stored
\* while it could not hear of them and that its last backfill did not name.
THEOREM NothingElseIsMissing == FeedSpec => []MissingOnlyWhatWasLost
<1>1. FeedInv => MissingOnlyWhatWasLost
  <2> SUFFICES ASSUME FeedInv, AtRest
               PROVE  (1..indexed) \ shown \subseteq lost \ Recents(filledAt)
      BY DEF MissingOnlyWhatWasLost
  <2>1. \A k \in Call : k = source => Carried(wire[k]) = {}
        BY DEF AtRest, Carried
  <2> QED
      BY <2>1 DEF FeedInv, Accounted
<1> QED
    BY <1>1, FeedStarts, FeedStep, PTL DEF FeedSpec
=============================================================================

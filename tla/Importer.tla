------------------------------ MODULE Importer ------------------------------
(***************************************************************************)
(* bulk-import.ts: the contracts Blockscout lists for each chain, imported *)
(* in batches through one account whose nonces a NonceManager hands out,   *)
(* into a registry where others register too.  A step of an import is what *)
(* it does from one answer to its next request.                            *)
(*                                                                         *)
(* Bytecode is a sequence of two-byte words of which the last one counts   *)
(* the words of metadata before it, and is its own hash.  A proof hash is  *)
(* the job <<place of the chain, place in its list>> that made the payload,*)
(* which carries the time, and the payload is the same job.                *)
(***************************************************************************)
EXTENDS Registry

CONSTANTS
    Account,       \* the sender whose PRIVATE_KEY the importer has
    Listings,      \* what Blockscout lists: known chain -> sequence of contracts
    Options,       \* the environments tried
    MaxFaults,     \* bound: failed requests
    MaxStrangers   \* bound: registrations by other senders

\* A listed contract.  usable: verified, with Solidity sources.  compiler: what
\* comes of its input, "ok", "version" (another solc is required), "error", or
\* "input" (none can be built).
Contract ==
    [address : Address, solidity : BOOLEAN, usable : BOOLEAN, code : Seq(Nat),
     compiler : {"ok", "version", "error", "input"}, compiled : Seq(Nat)]

\* The contracts that are worth a request.
SolidityOf(contracts) == SelectSeq(contracts, LAMBDA c : c.solidity)

\* LIMIT and CONCURRENCY are kept above zero if they are numbers, and each listed
\* contract makes a payload.  What SelectSeq returns is a sequence: no prover
\* derives it, every run evaluates it.
ASSUME ImporterAssumption ==
    /\ Account \in Sender
    /\ ProofHash \subseteq Nat \X Nat
    /\ ProofHash \subseteq Payload
    /\ MaxFaults \in Nat /\ MaxStrangers \in Nat
    /\ \A f \in Listings : f \in [DOMAIN f -> Seq(Contract)]
    /\ \A f \in Listings : \A k \in DOMAIN f : SolidityOf(f[k]) \in Seq(Contract)
    /\ \A o \in Options :
          /\ o.limit \in Nat \ {0} /\ o.concurrency \in Nat \ {0}
          /\ Len(o.chains) \in Nat /\ DOMAIN o.chains = 1..Len(o.chains)
    /\ \A f \in Listings, o \in Options : \A i \in DOMAIN o.chains :
          o.chains[i] \in DOMAIN f =>
             {i} \X (1..Len(SolidityOf(f[o.chains[i]]))) \subseteq ProofHash

VARIABLES
    listing,     \* of this behaviour, as is the environment
    options,
    run,         \* main: its step, chain, list and how many it has started
    job,         \* job -> the local variables of its importContract
    tally,       \* stats
    handed,      \* nonces the NonceManager has handed out
    sent,        \* the account's transactions in the mempool
    minedNonce,  \* the account's transactions mined
    faults

importOnly == <<listing, options, run, job, tally, handed, sent, minedNonce, faults>>
importVars == <<vars, importOnly>>

Job == ProofHash
Verdict == {"full", "partial", "skipped", "failed"}

NoJob == [step |-> "idle", contract |-> Zero, match |-> "none", nonce |-> -1]

Zeroes == [v \in Verdict |-> 0]

-----------------------------------------------------------------------------
(* The match *)

\* The bytecode without its metadata, or all of it if that does not fit.
Strip(code) ==
    LET n == Len(code)
    IN  IF n < 2 \/ code[n] < 1 \/ code[n] + 1 > n THEN code
        ELSE SubSeq(code, 1, n - code[n] - 1)

\* Mutant: the metadata stripped before anything is compared.
MatchStripped(compiled, deployed) ==
    IF Strip(compiled) = Strip(deployed) THEN "full" ELSE "none"

Match(compiled, deployed) ==
    IF compiled = deployed THEN "full"
    ELSE IF Strip(compiled) = Strip(deployed) THEN "partial"
    ELSE "none"

\* What another compiler compiled is taken on Blockscout's word.
MatchOf(c) == IF c.compiler = "version" THEN "partial" ELSE Match(c.compiled, c.code)

\* What becomes of an import once it has the deployed code: a verdict, or "pin".
Judged(c) ==
    CASE c.code = <<>> -> "skipped"
      [] c.code # <<>> /\ c.compiler = "error" -> "failed"
      [] c.code # <<>> /\ c.compiler = "ok" /\ c.compiled = <<>> -> "failed"
      [] OTHER -> CASE MatchOf(c) = "none" -> "skipped"
                    [] MatchOf(c) = "partial" /\ options.fullOnly -> "skipped"
                    [] OTHER -> IF options.dry THEN MatchOf(c) ELSE "pin"

-----------------------------------------------------------------------------
(* main *)

Chain(j) == options.chains[j[1]]

\* Pages are read until the limit is reached.
Listed(k) ==
    LET all == SolidityOf(listing[k])
    IN  SubSeq(all, 1, IF options.limit < Len(all) THEN options.limit ELSE Len(all))

ChainFrom(n) == [step |-> IF n > Len(options.chains) THEN "done" ELSE "list",
                 place |-> n, contracts |-> <<>>, next |-> 0]

NextChain == ChainFrom(run.place + 1)

\* A chain without a Blockscout is passed over, and one whose list fails too,
\* with its counters at zero.
ListChain ==
    LET k == options.chains[run.place]
        opened == [tally EXCEPT !.chains = [c \in DOMAIN @ \cup {k} |->
                                              IF c = k THEN Zeroes ELSE @[c]]]
    IN  /\ run.step = "list"
        /\ \/ /\ k \notin DOMAIN listing
              /\ run' = NextChain
              /\ UNCHANGED <<tally, faults>>
           \/ /\ k \in DOMAIN listing
              /\ run' = [run EXCEPT !.step = "import", !.contracts = Listed(k)]
              /\ tally' = opened
              /\ UNCHANGED faults
           \/ /\ k \in DOMAIN listing
              /\ faults < MaxFaults
              /\ faults' = faults + 1
              /\ run' = NextChain
              /\ tally' = opened
        /\ UNCHANGED <<vars, listing, options, job, handed, sent, minedNonce>>

Settled(j) == job[j].step \in Verdict
Running(j) == job[j].step \notin Verdict \cup {"idle"}

LastOfBatch ==
    LET last == run.next + options.concurrency
    IN  IF last < Len(run.contracts) THEN last ELSE Len(run.contracts)

\* Promise.allSettled over the batch before, then the next one, or the next chain.
StartBatch ==
    /\ run.step = "import"
    /\ \A j \in Job : ~Running(j)
    /\ IF run.next = Len(run.contracts)
       THEN /\ run' = NextChain
            /\ UNCHANGED <<job, tally>>
       ELSE /\ run' = [run EXCEPT !.next = LastOfBatch]
            /\ job' = [j \in Job |->
                  IF j[1] = run.place /\ j[2] \in run.next + 1..LastOfBatch
                  THEN [NoJob EXCEPT !.step = "detail", !.contract = run.contracts[j[2]]]
                  ELSE job[j]]
            /\ tally' = [tally EXCEPT !.total = @ + LastOfBatch - run.next]
    /\ UNCHANGED <<vars, listing, options, handed, sent, minedNonce, faults>>

-----------------------------------------------------------------------------
(* importContract and submitProofManually *)

Count(j, v) == tally' = [tally EXCEPT !.all[v] = @ + 1, !.chains[Chain(j)][v] = @ + 1]

Settle(j, v) ==
    /\ job' = [job EXCEPT ![j].step = v]
    /\ Count(j, v)

Goes(j, s) == job' = [job EXCEPT ![j].step = s] /\ UNCHANGED tally

ReadDetail(j) ==
    /\ job[j].step = "detail"
    /\ CASE ~job[j].contract.usable -> Settle(j, "skipped")
         [] job[j].contract.usable /\ job[j].contract.compiler = "input" -> Settle(j, "failed")
         [] OTHER -> Goes(j, "code")
    /\ UNCHANGED <<vars, listing, options, run, handed, sent, minedNonce, faults>>

\* eth_getCode; solc runs without another await.
Compile(j) ==
    LET c == job[j].contract
    IN  /\ job[j].step = "code"
        /\ IF Judged(c) = "pin"
           THEN /\ job' = [job EXCEPT ![j].step = "pin", ![j].match = MatchOf(c)]
                /\ UNCHANGED tally
           ELSE Settle(j, Judged(c))
        /\ UNCHANGED <<vars, listing, options, run, handed, sent, minedNonce, faults>>

\* The CID is there, and the NonceManager hands out the next nonce.
PinProof(j) ==
    /\ job[j].step = "pin"
    /\ job' = [job EXCEPT ![j].step = "estimate", ![j].nonce = handed]
    /\ handed' = handed + 1
    /\ UNCHANGED <<vars, listing, options, run, tally, sent, minedNonce, faults>>

TakesImport(j) ==
    /\ ProofAccepted(j, job[j].contract.code, j)
    /\ DeploymentAccepted(job[j].contract.code, Chain(j), job[j].contract.address)

\* Mutant: a refused submission gives its nonce back.
EstimateReturning(j) ==
    /\ job[j].step = "estimate"
    /\ IF TakesImport(j) THEN Goes(j, "send") /\ UNCHANGED handed
                         ELSE Settle(j, "skipped") /\ handed' = handed - 1
    /\ UNCHANGED <<vars, listing, options, run, sent, minedNonce, faults>>

\* The gas estimate.  Whatever the contract refuses here exists already, which
\* counts as skipped; the nonce is not given back.
Estimate(j) ==
    /\ job[j].step = "estimate"
    /\ IF TakesImport(j) THEN Goes(j, "send") /\ UNCHANGED handed
                         ELSE Settle(j, "skipped") /\ UNCHANGED handed
    /\ UNCHANGED <<vars, listing, options, run, sent, minedNonce, faults>>

\* The node keeps a nonce that is ahead of the account's in its queue.
Send(j) ==
    /\ job[j].step = "send"
    /\ sent' = sent \cup {[job |-> j, nonce |-> job[j].nonce]}
    /\ Goes(j, "wait")
    /\ UNCHANGED <<vars, listing, options, run, handed, minedNonce, faults>>

\* A request of an import fails; a transaction may have been sent all the same.
ImportFails(j) ==
    /\ Running(j)
    /\ faults < MaxFaults
    /\ faults' = faults + 1
    /\ Settle(j, "failed")
    /\ \/ UNCHANGED sent
       \/ /\ job[j].step = "send"
          /\ sent' = sent \cup {[job |-> j, nonce |-> job[j].nonce]}
    /\ UNCHANGED <<vars, listing, options, run, handed, minedNonce>>

\* Mutant: the status of the receipt ignored.
ReceiptAlways(j, landed) ==
    IF job[j].step = "wait" THEN Settle(j, job[j].match) ELSE UNCHANGED <<job, tally>>

\* tx.wait returns, or throws if the transaction reverted.
Receipt(j, landed) ==
    IF job[j].step = "wait"
    THEN Settle(j, IF landed THEN job[j].match ELSE "failed")
    ELSE UNCHANGED <<job, tally>>

MineImport(t) ==
    LET j == t.job
        c == job[j].contract
    IN  /\ t.nonce = minedNonce
        /\ minedNonce' = minedNonce + 1
        /\ sent' = sent \ {t}
        /\ IF TakesImport(j)
           THEN SubmitProofAndRegister(j, c.code, j, Chain(j), c.address, Account)
           ELSE UNCHANGED vars
        /\ Receipt(j, TakesImport(j))
        /\ UNCHANGED <<listing, options, run, handed, faults>>

\* Another sender registers a deployment, of a listed bytecode or not.
StrangerRegisters(c, k, a, s) ==
    /\ s # Account
    /\ Cardinality({e \in log : e.body.submitter # Account}) < MaxStrangers
    /\ RegisterDeployment(c, k, a, s)
    /\ UNCHANGED importOnly

-----------------------------------------------------------------------------
ImportInit ==
    /\ Init
    /\ listing \in Listings
    /\ options \in Options
    /\ run = ChainFrom(1)
    /\ job = [j \in Job |-> NoJob]
    /\ tally = [total |-> 0, all |-> Zeroes, chains |-> <<>>]
    /\ handed = 0
    /\ sent = {}
    /\ minedNonce = 0
    /\ faults = 0

ImportStep(j) == ReadDetail(j) \/ Compile(j) \/ PinProof(j) \/ Estimate(j) \/ Send(j)

ImportNext ==
    \/ ListChain
    \/ StartBatch
    \/ \E j \in Job : ImportStep(j) \/ ImportFails(j)
    \/ \E t \in sent : MineImport(t)
    \/ \E c \in CodeHash, k \in ChainId, a \in Address, s \in Sender :
          StrangerRegisters(c, k, a, s)

ImportSpec == ImportInit /\ [][ImportNext]_importVars

\* Answers are handled, and miners take what is next.
ImportFairSpec ==
    /\ ImportSpec
    /\ WF_importVars(ListChain)
    /\ WF_importVars(StartBatch)
    /\ \A j \in Job : WF_importVars(ImportStep(j))
    /\ WF_importVars(\E t \in sent : MineImport(t))

-----------------------------------------------------------------------------
Imported(j) == job[j].step \in {"full", "partial"}

\* Every import is counted once, under one verdict.
Counted ==
    /\ \A v \in Verdict : tally.all[v] = Cardinality({j \in Job : job[j].step = v})
    /\ tally.total = Cardinality({j \in Job : job[j].step # "idle"})

\* The counters of a chain are of its imports, and so the chains add up to the
\* totals.  A chain listed twice in CHAIN_IDS has its first counters overwritten.
ChainsAddUp ==
    Distinct(options.chains) =>
        /\ \A j \in Job : Settled(j) => Chain(j) \in DOMAIN tally.chains
        /\ \A k \in DOMAIN tally.chains, v \in Verdict :
              tally.chains[k][v] = Cardinality({j \in Job : job[j].step = v /\ Chain(j) = k})

\* What is counted as imported is on record with its deployment; if no request
\* failed, so is nothing else; a dry run leaves no record.
OnRecord ==
    /\ options.dry => proofExists = {}
    /\ ~options.dry =>
          /\ \A j \in Job : Imported(j) =>
                /\ j \in proofExists
                /\ <<job[j].contract.code, Chain(j), job[j].contract.address>>
                      \in deploymentExists
          /\ faults = 0 => \A j \in proofExists : Imported(j)

\* The summary tells what happened: its counters are of the imports, in all
\* and of each chain, and the contract holds what it calls imported.
StatsAddUp == Counted /\ ChainsAddUp /\ OnRecord

\* Of the nonces handed out and not mined, each belongs to one import, and is in
\* the mempool, on its way there, or lost with an import that was refused or
\* failed: an import that waits for ever waits behind one of those, which are
\* never given back.
NonceGapsExplained ==
    /\ \A i, j \in Job : job[i].nonce = job[j].nonce => i = j \/ job[i].nonce = -1
    /\ \A n \in minedNonce..handed - 1 :
          \E j \in Job :
             /\ job[j].nonce = n
             /\ \/ [job |-> j, nonce |-> n] \in sent
                \/ job[j].step \in {"estimate", "send", "skipped", "failed"}
    /\ \A t \in sent : t.nonce \in minedNonce..handed - 1

\* The pinned payload of a job, and the checks of reverifyProof with the
\* compiler the payload asks for: the creation bytecode of a source is told
\* from another's as its runtime bytecode is, and "0x" is <<>>.
PayloadOf(j) ==
    LET c == job[j].contract
    IN  [runtime |-> c.code, codeHash |-> c.code, source |-> c.compiled,
         creation |-> IF c.compiler = "version" THEN <<>> ELSE c.compiled]

Reverifies(d) ==
    /\ d.runtime = d.source
    /\ d.creation = d.source
    /\ d.codeHash = d.source

\* Recompiling confirms a proof of the importer exactly if it was a full match:
\* the summary's partial ones, and those of another compiler, never pass
\* reverify, whatever compiler is used, and with FULL_ONLY all do.
ImportedReverifies ==
    \A j \in proofExists :
        /\ Reverifies(PayloadOf(j)) <=> job[j].match = "full"
        /\ options.fullOnly => Reverifies(PayloadOf(j))

\* bulk-import.ts:2-4 "fetches recently verified contracts [...] then submits
\* each to the cross-l2-verify registry": the import comes to its end if every
\* request is answered.
ImportEnds == <>(run.step = "done")
=============================================================================

----------------------------- MODULE MCResolver -----------------------------
(* The registry with the lookups of the SDK and the resolver's cache, and the
   parts of the resolver that share no state with them, one in each behaviour:
   its rate limit, its webhooks, and the queries of its stores.  Small values of
   each for TLC. *)
EXTENDS Lookup, RateLimit, Webhooks, Queries

CONSTANTS p1, p2, c1, c2, a1, a2, h1, h2, i1, i2, i3, v1, r1, r2

VARIABLE part

\* A payload for each proof, and one that no gateway serves.
MCPayload ==
    {[source |-> h1, version |-> v1, cid |-> i1],
     [source |-> h2, version |-> v1, cid |-> i2],
     [source |-> h1, version |-> v1, cid |-> i3]}

MCServed == {d \in MCPayload : d.cid # i3}

MCDocument(p, h) ==
    [codeHash |-> c1, source |-> h, bundle |-> h, version |-> v1, claimed |-> p,
     hash |-> p]

MCContent == [i \in {i1, i2} |-> IF i = i1 THEN MCDocument(p1, h1) ELSE MCDocument(p2, h2)]

\* What may be announced where lookups are of one bytecode, and where none is.
MCBodies(payloads, chains) ==
    {b \in Body : /\ b.codeHash = c1
                  /\ IF IsProof(b) THEN b.payload \in payloads
                     ELSE b.chainId \in chains /\ b.address = a1}

\* What calls of the contract alone may pass, zero included.
MCContractBodies ==
    {ProofBody(p, c, d, s) :
        p \in AnyProof, c \in AnyCode,
        d \in {e \in Payload : e.cid = i1} \cup {Zero}, s \in Sender}
    \cup
    {DeploymentBody(c, k, a, s) :
        c \in AnyCode, k \in {5, 7, Zero}, a \in AnyAddress, s \in Sender}

\* One reader of every kind while the registry grows and requests fail, two that
\* share a cache with room for two, one or none, or calls of the contract alone,
\* in two blocks.
MCLoads ==
    {[readers |-> {r1}, kinds |-> Kind \cup {"proof"}, logs |-> 3, blocks |-> 1,
      bodies |-> MCBodies(MCServed, ChainId), size |-> 2, failures |-> TRUE],
     [readers |-> {r1, r2}, kinds |-> {"codeHash", "proof"}, logs |-> 2, blocks |-> 1,
      bodies |-> MCBodies(MCServed, {}), size |-> 2, failures |-> FALSE],
     [readers |-> {r1, r2}, kinds |-> {"codeHash", "proof"}, logs |-> 2, blocks |-> 1,
      bodies |-> MCBodies(MCServed, {5}), size |-> 1, failures |-> FALSE],
     [readers |-> {r1, r2}, kinds |-> {"codeHash", "proof"}, logs |-> 2, blocks |-> 1,
      bodies |-> MCBodies(Payload, {}), size |-> 0, failures |-> FALSE],
     [readers |-> {}, kinds |-> {}, logs |-> 2, blocks |-> 2,
      bodies |-> MCContractBodies, size |-> 0, failures |-> FALSE]}

\* A word of three bits, and doubles of two significant bits: from 4 on only the
\* even numbers, a tie going to the even significand.  4 and 5 are both 4, and 7
\* is 8, which no word holds.
MCNumbered ==
    [k \in ChainId |-> IF k < 4 \/ k % 2 = 0 THEN k
                       ELSE IF (k \div 2) % 2 = 0 THEN k - 1 ELSE k + 1]

Row(c, k, r, b) == [code |-> c, chain |-> k, rank |-> r, block |-> b]

\* Two bytecodes, two chains out of order, a block of three rows and two of one.
MCLogged == <<Row(1, 2, 4, 1), Row(1, 1, 2, 1), Row(1, 1, 1, 1), Row(2, 1, 3, 2),
              Row(1, 2, 5, 3)>>

MCInit ==
    /\ LookupInit
    /\ RateInit
    /\ HookInit
    /\ QueryInit
    /\ part \in {"lookup", "rate", "webhooks", "queries"}
    /\ part # "lookup" => load.readers = {}
    /\ part # "queries" => store = "memory"

MCNext ==
    \/ /\ part = "lookup" /\ LookupNext
       /\ \A x \in Reader : reader'[x].code # c2
       /\ UNCHANGED <<rateVars, hookVars, queryVars, part>>
    \/ /\ part = "rate" /\ RateNext
       /\ UNCHANGED <<lookupVars, hookVars, queryVars, part>>
    \/ /\ part = "webhooks" /\ HookNext
       /\ UNCHANGED <<lookupVars, rateVars, queryVars, part>>
    \/ /\ part = "queries" /\ QueryNext
       /\ UNCHANGED <<lookupVars, rateVars, hookVars, part>>

MCSpec ==
    MCInit /\ [][MCNext]_<<lookupVars, rateVars, hookVars, queryVars, part>>
=============================================================================

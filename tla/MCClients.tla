----------------------------- MODULE MCClients ------------------------------
(* The programs that share no state with each other, one in each behaviour:
   the dashboard's page with its stream, the importer, the choices of the
   deployment hooks, and proxy detection.  Small values of each for TLC. *)
EXTENDS Feed, Importer, Hooks, Proxy, TLC

VARIABLE part

CONSTANTS k1, k2, k3

\* The page: a deployment, a proof and a deployment; three events with one
\* connect and a failure, or two of each, or one connect with refreshes.
MCProofs == {2}

NoBudget == [events |-> 0, calls |-> 0, failures |-> 0, refresh |-> FALSE]

MCBudgets ==
    {NoBudget,
     [events |-> 3, calls |-> 1, failures |-> 1, refresh |-> FALSE],
     [events |-> 2, calls |-> 2, failures |-> 1, refresh |-> FALSE],
     [events |-> 2, calls |-> 1, failures |-> 1, refresh |-> TRUE]}

-----------------------------------------------------------------------------
(* The importer. *)
MCJob == (1..3) \X (1..3)

Listing(a, code, compiler, compiled) ==
    [address |-> a, solidity |-> TRUE, usable |-> TRUE, code |-> code,
     compiler |-> compiler, compiled |-> compiled]

\* One word of program, one of metadata, and its length.
MCCode == <<7, 5, 1>>
Same(a) == Listing(a, MCCode, "ok", MCCode)

\* A contract of every kind: the same bytecode, other metadata, another
\* program, a length that does not fit, all metadata, too short, no code.
Kinds ==
    {Same(1),
     Listing(1, MCCode, "ok", <<7, 6, 1>>),
     Listing(1, MCCode, "ok", <<8, 5, 1>>),
     Listing(1, MCCode, "ok", <<7, 5, 3>>),
     Listing(1, MCCode, "ok", <<>>),
     Listing(1, <<5, 1>>, "ok", <<6, 1>>),
     Listing(1, <<1>>, "ok", <<2>>),
     Listing(1, <<>>, "ok", MCCode),
     Listing(1, MCCode, "version", MCCode),
     Listing(1, MCCode, "error", <<>>),
     Listing(1, MCCode, "input", <<>>),
     [Same(1) EXCEPT !.usable = FALSE],
     [Same(1) EXCEPT !.solidity = FALSE]}

MCCodes == {MCCode, <<5, 1>>, <<1>>}

Pair(s, t) == [k \in {k1, k2} |-> IF k = k1 THEN s ELSE t]

Crowded == Pair(<<Same(1), Same(2), Same(1)>>, <<Same(1)>>)

MCListings == {Pair(<<c>>, <<c>>) : c \in Kinds} \cup {Crowded}

Environment(chains, limit, concurrency, dry, fullOnly) ==
    [chains |-> chains, limit |-> limit, concurrency |-> concurrency, dry |-> dry,
     fullOnly |-> fullOnly]

MCOptions ==
    {Environment(ks, 1, 1, d, f) : ks \in {<<k1>>, <<k1, k1>>}, d, f \in BOOLEAN}
    \cup {Environment(<<>>, 1, 1, FALSE, FALSE),
          Environment(<<k1, k3, k2>>, 3, 2, FALSE, FALSE)}

\* The crowded lists go with the last environment.
Fits == listing = Crowded <=> options.concurrency = 2

-----------------------------------------------------------------------------
(* The hooks. *)
Tx(type, name, a, k) == [type |-> type, name |-> name, address |-> a, chain |-> k]

Txs == {Tx("CREATE", "mine", 3, 3), Tx("CREATE2", "", 4, 4), Tx("CREATE", "other", 5, 5),
        Tx("CALL", "mine", 6, 6), Tx("CREATE", "mine", 0, 7), Tx("CREATE", "mine", 8, 0),
        Tx("CREATE", "mine", -1, 3)}

Asks(command) ==
    [command : {command}, address : {0, 1}, chain : {0, 2}, hasKey : BOOLEAN]

Joined(R, S) == {r @@ s : r \in R, s \in S}

MCHookInputs ==
    Joined(Asks("hook:foundry"),
           [transactions : UNION {[1..n -> Txs] : n \in 0..2}, path : {1},
            broadcastChains : {<<0, 0>>, <<0, 9>>, <<8, 9>>}])
    \cup Joined(Asks("hook:hardhat"),
           [path : 0..2, paths : SUBSET (1..2), recordAddresses : [1..3 -> {-1, 0, 3}],
            recordChains : {<<0, 0, 0>>, <<0, 4, 5>>}])
    \cup Joined([command : {"import-etherscan"}, address : {1}, chain : {2}, hasKey : BOOLEAN],
                [named : UNION {[1..n -> BOOLEAN] : n \in 0..3}])

AnyInput == CHOOSE in \in MCHookInputs : in.command = "import-etherscan"

-----------------------------------------------------------------------------
MCInit ==
    /\ part \in {"page", "importer", "hooks", "proxy"}
    /\ FeedInit
    /\ (part = "page") = (budget # NoBudget)
    /\ ImportInit
    /\ IF part = "importer" THEN Fits
       ELSE listing = Crowded /\ options.concurrency = 2
    /\ ToolInit
    /\ part # "hooks" => hook.input = AnyInput
    /\ ProxyInit
    /\ part # "proxy" => beacon = 0 /\ \A s \in Slot : slots[s] = 0

MCNext ==
    \/ /\ part = "page" /\ FeedNext
       /\ UNCHANGED <<importVars, hook, proxyVars, part>>
    \/ /\ part = "importer" /\ ImportNext
       /\ UNCHANGED <<feedVars, hook, proxyVars, part>>
    \/ /\ part = "hooks" /\ ToolNext
       /\ UNCHANGED <<feedVars, importVars, proxyVars, part>>
    \/ /\ part = "proxy" /\ ProxyNext
       /\ UNCHANGED <<feedVars, importVars, hook, part>>

\* Without a connect() nothing of the page is owed.
MCSpec ==
    /\ MCInit
    /\ [][MCNext]_<<feedVars, importVars, hook, proxyVars, part>>
    /\ FeedFairness
=============================================================================

------------------------------- MODULE Hooks --------------------------------
(***************************************************************************)
(* How the deployment hooks and import-etherscan find what to submit:      *)
(* the address, the chain and the path of the contract, from options and   *)
(* from the files a deployment left behind.  What they then call,          *)
(* verifyOrPropagate, is in Submission.  Addresses, chains and paths are   *)
(* positive numbers; 0 stands for what is absent or no positive number,    *)
(* and -1 for an address getAddress refuses: that ends the command, no     *)
(* later source is asked.                                                  *)
(***************************************************************************)
EXTENDS Integers, Sequences

CONSTANT HookInputs  \* the options and files tried

\* What the options' parsers and asRecord leave of an input: a chain or a path is
\* a positive number or absent, an address may also be malformed.
Transaction == [type : STRING, name : STRING, address : Int, chain : Nat]

ASSUME HookAssumption ==
    \A in \in HookInputs :
        /\ in.address \in Int /\ in.chain \in Nat /\ in.hasKey \in BOOLEAN
        /\ \/ /\ in.command = "hook:foundry"
              /\ in.transactions \in Seq(Transaction)
              /\ in.broadcastChains \in Seq(Nat) /\ in.path \in Nat \ {0}
           \/ /\ in.command = "hook:hardhat"
              /\ in.recordAddresses \in Seq(Int) /\ in.recordChains \in Seq(Nat)
              /\ in.path \in Nat /\ in.paths \subseteq Nat \ {0}
           \/ /\ in.command = "import-etherscan"
              /\ in.named \in Seq(BOOLEAN)

VARIABLE hook        \* the running command

\* What find and ?? stop at: the first place among those that fit.
FirstPlace(S) == CHOOSE i \in S : \A j \in S : i =< j

\* a ?? b ?? ... over maybePositiveInteger and maybeNormalizedAddress.
FirstOf(s) ==
    LET given == {i \in DOMAIN s : s[i] # 0}
    IN  IF given = {} THEN 0 ELSE s[FirstPlace(given)]

\* A creation that is the contract's, or that names no contract.
IsCandidate(t) ==
    /\ t.address # 0
    /\ t.type \in {"CREATE", "CREATE2"}
    /\ t.name \in {"", "mine"}

NoTransaction == [type |-> "", name |-> "", address |-> 0, chain |-> 0]

\* The first in the order given.
Found(txs) ==
    LET fit == {i \in DOMAIN txs : IsCandidate(txs[i])}
    IN  IF fit = {} THEN NoTransaction ELSE txs[FirstPlace(fit)]

\* The list is reversed first.  Mutant: it is not.
CandidateFirst(txs) == Found(txs)

Candidate(txs) == Found([i \in DOMAIN txs |-> txs[Len(txs) + 1 - i]])

FoundryTarget(in) ==
    LET c == Candidate(in.transactions)
    IN  [address |-> FirstOf(<<in.address, c.address>>),
         chain |-> FirstOf(<<in.chain, c.chain>> \o in.broadcastChains),
         path |-> in.path]

\* The one path that has the contract, 0 if there are none or several.
UniquePath(paths) == IF \E p \in paths : paths = {p} THEN CHOOSE p \in paths : TRUE ELSE 0

HardhatTarget(in) ==
    LET path == FirstOf(<<in.path, UniquePath(in.paths)>>)
    IN  [address |-> FirstOf(<<in.address>> \o in.recordAddresses),
         chain |-> FirstOf(<<in.chain>> \o in.recordChains),
         path |-> IF path \in in.paths THEN path ELSE 0]

\* findContractPath: the first file named after the contract, or the first.
EtherscanPath(named) ==
    LET fit == {i \in DOMAIN named : named[i]}
    IN  IF named = <<>> THEN 0 ELSE IF fit = {} THEN 1 ELSE FirstPlace(fit)

EtherscanTarget(in) ==
    [address |-> in.address, chain |-> in.chain, path |-> EtherscanPath(in.named)]

Target(in) ==
    CASE in.command = "hook:foundry" -> FoundryTarget(in)
      [] in.command = "hook:hardhat" -> HardhatTarget(in)
      [] in.command = "import-etherscan" -> EtherscanTarget(in)

IsComplete(t) == t.address > 0 /\ t.chain > 0 /\ t.path > 0

\* The files, or Etherscan's answer, are read; any of them may fail.
ReadInput ==
    /\ hook.step = "reading"
    /\ \/ hook' = [hook EXCEPT !.step = "read"]
       \/ hook' = [hook EXCEPT !.step = "rejected", !.fault = TRUE]

Resolve ==
    /\ hook.step = "read"
    /\ hook' = [hook EXCEPT !.target = Target(hook.input),
                            !.step = IF IsComplete(Target(hook.input))
                                     THEN "resolved" ELSE "rejected"]

\* The private key and the JWT are asked for last.
Submit ==
    /\ hook.step = "resolved"
    /\ hook' = [hook EXCEPT !.step = IF hook.input.hasKey THEN "submitted" ELSE "rejected"]

ToolInit ==
    \E in \in HookInputs :
        hook = [input |-> in, step |-> "reading", fault |-> FALSE,
                target |-> [address |-> 0, chain |-> 0, path |-> 0]]

ToolNext == ReadInput \/ Resolve \/ Submit

ToolSpec == ToolInit /\ [][ToolNext]_hook

-----------------------------------------------------------------------------
Creations(txs, name) ==
    {i \in DOMAIN txs : /\ txs[i].type \in {"CREATE", "CREATE2"}
                        /\ txs[i].address # 0
                        /\ txs[i].name = name}

\* Transaction i is the contract's own last creation, with no nameless one after
\* it; or a nameless creation, with none of the contract's own after it.  The
\* second is a guess: it may have created another contract.
IsLastCreation(txs, i) ==
    /\ i \in Creations(txs, "mine") \cup Creations(txs, "")
    /\ \A j \in Creations(txs, "mine") \cup Creations(txs, "") : j =< i

FoundryRight(in, t) ==
    in.address = 0 =>
        \E i \in DOMAIN in.transactions :
           /\ IsLastCreation(in.transactions, i)
           /\ t.address = in.transactions[i].address
           /\ in.chain = 0 /\ in.transactions[i].chain > 0 =>
                 t.chain = in.transactions[i].chain

\* The path the user passed, which has the contract, or the only one that has it.
HardhatRight(in, t) ==
    /\ t.path \in in.paths
    /\ IF in.path = 0 THEN in.paths = {t.path} ELSE t.path = in.path

\* The file named after the contract, if there is one.
EtherscanRight(in, t) == (\E i \in DOMAIN in.named : in.named[i]) => in.named[t.path]

\* No address: none is passed or found, or the first one found is malformed.
LacksAddress(in) ==
    \/ in.address < 0
    \/ /\ in.address = 0
       /\ CASE in.command = "hook:foundry" ->
                 \A i \in DOMAIN in.transactions :
                    IsLastCreation(in.transactions, i) => in.transactions[i].address < 0
            [] in.command = "hook:hardhat" ->
                 \A i \in DOMAIN in.recordAddresses :
                    \/ in.recordAddresses[i] =< 0
                    \/ \E j \in DOMAIN in.recordAddresses :
                          j < i /\ in.recordAddresses[j] # 0
            [] in.command = "import-etherscan" -> TRUE

LacksChain(in) ==
    /\ in.chain = 0
    /\ CASE in.command = "hook:foundry" ->
              /\ \A i \in DOMAIN in.transactions :
                    IsLastCreation(in.transactions, i) => in.transactions[i].chain = 0
              /\ \A i \in DOMAIN in.broadcastChains : in.broadcastChains[i] = 0
         [] in.command = "hook:hardhat" ->
              \A i \in DOMAIN in.recordChains : in.recordChains[i] = 0
         [] in.command = "import-etherscan" -> TRUE

\* The path that is passed does not have the contract; without one, none or
\* several have it; Etherscan has no file at all.
LacksPath(in) ==
    CASE in.command = "hook:foundry" -> FALSE
      [] in.command = "hook:hardhat" ->
            IF in.path = 0 THEN \A p \in in.paths : in.paths # {p}
                           ELSE in.path \notin in.paths
      [] in.command = "import-etherscan" -> in.named = <<>>

\* What a command submits is what the user passed, and for the rest one and the
\* same creation of the broadcast, the last that is or may be the contract's;
\* the one path that has the contract; the file named after it.  It refuses only
\* if a file cannot be read, or the key, every address, every chain or the path
\* is missing.  (An address that is passed without its chain gets the chain of
\* whatever the broadcast created last.)
HookTargetRight ==
    LET in == hook.input
        t == hook.target
    IN  /\ hook.step = "submitted" =>
              /\ IsComplete(t) /\ in.hasKey
              /\ in.address > 0 => t.address = in.address
              /\ in.chain > 0 => t.chain = in.chain
              /\ CASE in.command = "hook:foundry" -> FoundryRight(in, t)
                   [] in.command = "hook:hardhat" -> HardhatRight(in, t)
                   [] in.command = "import-etherscan" -> EtherscanRight(in, t)
        /\ hook.step = "rejected" =>
              \/ hook.fault \/ ~in.hasKey
              \/ LacksAddress(in) \/ LacksChain(in) \/ LacksPath(in)
=============================================================================

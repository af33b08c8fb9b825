----------------------------- MODULE MCImporter -----------------------------
(* Two contracts of one chain, imported side by side, for TLC. *)
EXTENDS Importer

CONSTANT k1

MCJob == {1} \X {1, 2}

MCCode == <<7, 5, 1>>

MCCodes == {MCCode}

MCListings ==
    {[k \in {k1} |->
        [i \in 1..2 |->
            [address |-> i, solidity |-> TRUE, usable |-> TRUE, code |-> MCCode,
             compiler |-> "ok", compiled |-> MCCode]]]}

MCOptions ==
    {[chains |-> <<k1>>, limit |-> 50, concurrency |-> 2, dry |-> FALSE, fullOnly |-> FALSE]}
=============================================================================

------------------------------- MODULE Proxy --------------------------------
(***************************************************************************)
(* detectProxy of the SDK and the CLI's detect-proxy: three storage slots  *)
(* and a call of a beacon, each a request of its own to a contract that    *)
(* may be upgraded meanwhile.  0 is an empty slot, a positive number an    *)
(* address, and Dirty a slot with more in it than an address.              *)
(***************************************************************************)
EXTENDS Integers

CONSTANTS
    Implementation,  \* addresses, positive
    MaxUpgrades      \* bound: changes during a detection

Dirty == -1
Slot == {"erc1967", "erc1967-beacon", "erc1822"}
Content == {0, Dirty} \cup Implementation

VARIABLES
    slots,      \* slot -> its content
    beacon,     \* what implementation() of the beacon returns
    detection,  \* the running call
    upgrades,   \* changes so far
    held        \* history: slot, or "beacon" -> what it held during the call

proxyVars == <<slots, beacon, detection, upgrades, held>>

\* slotToAddress where it is not caught: an address, or nothing.
Holds(v) == v \in Implementation

Ends(answer, v) ==
    detection' = [detection EXCEPT !.step = "done", !.answer = answer, !.address = v]

Continues(step) == detection' = [detection EXCEPT !.step = step]

\* The slots are tried in this order.
After(s) == IF s = "erc1967" THEN "erc1967-beacon" ELSE "erc1822"

\* getStorage of a slot: a dirty one makes toBeHex throw.
ReadSlot(s) ==
    /\ detection.step = s
    /\ \/ slots[s] = Dirty /\ Ends("failed", 0)
       \/ slots[s] = 0 /\ IF s = "erc1822" THEN Ends("not a proxy", 0)
                                           ELSE Continues(After(s))
       \/ Holds(slots[s]) /\ IF s = "erc1967-beacon" THEN Continues("implementation()")
                                                     ELSE Ends(s, slots[s])
    /\ UNCHANGED <<slots, beacon, upgrades, held>>

\* Mutant: what the call throws ends the detection.
AskBeaconOnce ==
    /\ detection.step = "implementation()"
    /\ IF Holds(beacon) THEN Ends("erc1967-beacon", beacon) ELSE Ends("not a proxy", 0)
    /\ UNCHANGED <<slots, beacon, upgrades, held>>

\* implementation() of the beacon: whatever is not an address is passed over.
AskBeacon ==
    /\ detection.step = "implementation()"
    /\ IF Holds(beacon) THEN Ends("erc1967-beacon", beacon) ELSE Continues("erc1822")
    /\ UNCHANGED <<slots, beacon, upgrades, held>>

\* A request fails: the call of the beacon is caught, the others are not.
ReadFails ==
    /\ detection.step # "done"
    /\ ~detection.fault
    /\ detection' =
          IF detection.step = "implementation()"
          THEN [detection EXCEPT !.step = "erc1822", !.fault = TRUE]
          ELSE [detection EXCEPT !.step = "done", !.answer = "failed", !.fault = TRUE]
    /\ UNCHANGED <<slots, beacon, upgrades, held>>

\* The contract, or its beacon, is upgraded.
UpgradeSlot(s, v) ==
    /\ upgrades < MaxUpgrades
    /\ upgrades' = upgrades + 1
    /\ slots' = [slots EXCEPT ![s] = v]
    /\ held' = [held EXCEPT ![s] = @ \cup {v}]
    /\ UNCHANGED <<beacon, detection>>

UpgradeBeacon(v) ==
    /\ upgrades < MaxUpgrades
    /\ upgrades' = upgrades + 1
    /\ beacon' = v
    /\ held' = [held EXCEPT !["beacon"] = @ \cup {v}]
    /\ UNCHANGED <<slots, detection>>

ProxyInit ==
    /\ slots \in [Slot -> Content]
    /\ beacon \in Content
    /\ detection = [step |-> "erc1967", answer |-> "none", address |-> 0, fault |-> FALSE]
    /\ upgrades = 0
    /\ held = [s \in Slot \cup {"beacon"} |-> IF s = "beacon" THEN {beacon} ELSE {slots[s]}]

ProxyNext ==
    \/ \E s \in Slot : ReadSlot(s) \/ \E v \in Content : UpgradeSlot(s, v)
    \/ AskBeacon \/ ReadFails
    \/ \E v \in Content : UpgradeBeacon(v)

ProxySpec == ProxyInit /\ [][ProxyNext]_proxyVars

-----------------------------------------------------------------------------
\* The three reads see no common state, so an answer is explained by what each
\* slot held at some moment of the call.  A slot is passed over if it was empty,
\* or named a beacon that returned no address or whose call failed.
PassedOver(s) ==
    \/ 0 \in held[s]
    \/ /\ s = "erc1967-beacon"
       /\ held[s] \cap Implementation # {}
       /\ held["beacon"] \cap {0, Dirty} # {} \/ detection.fault

\* What detectProxy answers: the implementation it names was in the slot it
\* names, or is what the beacon named there returned, and the slots before were
\* passed over; a contract is no proxy only if all three were.  With no failed
\* request that is the truth of some moment for each slot; a call of the beacon
\* that fails hides the beacon, and the answer is that of the third slot.
ProxyExplained ==
    /\ detection.answer = "erc1967" => detection.address \in held["erc1967"]
    /\ detection.answer = "erc1967-beacon" =>
          /\ detection.address \in held["beacon"]
          /\ held["erc1967-beacon"] \cap Implementation # {}
          /\ PassedOver("erc1967")
    /\ detection.answer = "erc1822" =>
          /\ detection.address \in held["erc1822"]
          /\ PassedOver("erc1967") /\ PassedOver("erc1967-beacon")
    /\ detection.answer = "not a proxy" => \A s \in Slot : PassedOver(s)

\* proxy.ts:97: "Storage slot is 32 bytes, address is the last 20 bytes."  Every
\* slot can be read, whatever its other bytes hold: a detection fails only if a
\* request does.
EverySlotCanBeRead == detection.answer = "failed" => detection.fault
=============================================================================

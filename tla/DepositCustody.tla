--------------------------- MODULE DepositCustody ---------------------------
(***************************************************************************)
(* What the deposit contracts promise a depositor, without contracts,      *)
(* roles, clocks or CCTP: money at a deposit address is held for one       *)
(* recipient.  It leaves only by a settlement that delivers a positive     *)
(* part of it: one by the service, which may charge a bounded fee, once    *)
(* with an entry fee on top, or one by anybody, which is free and limited  *)
(* to a budget set aside earlier.                                          *)
(***************************************************************************)
EXTENDS Integers

CONSTANTS Addresses, Quantum, MaxEntryFee, MaxFlatFee, MaxRate, RateUnit

VARIABLES
    held,        \* money at each address
    delivered,   \* money sent on to the address's recipient
    charged,     \* fees taken from the address
    budget,      \* money set aside for a free settlement, 0 = none
    serviced     \* settlements by the service

custodyVars == <<held, delivered, charged, budget, serviced>>

Init ==
    /\ held = [a \in Addresses |-> 0] /\ delivered = [a \in Addresses |-> 0]
    /\ charged = [a \in Addresses |-> 0] /\ budget = [a \in Addresses |-> 0]
    /\ serviced = [a \in Addresses |-> 0]

Out(a) == delivered'[a] - delivered[a]
Fee(a) == charged'[a] - charged[a]

(* Money arrives, at any addresses.                                        *)
Receive ==
    /\ \A a \in Addresses : held'[a] >= held[a]
    /\ UNCHANGED <<delivered, charged, budget, serviced>>

(* The holder's agent sets everything now at `a` aside.                    *)
SetAside(a) ==
    /\ budget[a] = 0 /\ held[a] >= Quantum
    /\ budget' = [budget EXCEPT ![a] = held[a]]
    /\ UNCHANGED <<held, delivered, charged, serviced>>

(* What remains set aside after `spent` left the address: less than a      *)
(* quantum is not worth keeping.                                           *)
Draw(a, spent) ==
    budget' = [budget EXCEPT ![a] = IF @ - spent < Quantum \/ held'[a] = 0 THEN 0 ELSE @ - spent]

(* Money leaves `a`; part of the fee may land at another address.          *)
Leave(a) ==
    /\ Out(a) > 0
    /\ held'[a] = held[a] - Out(a) - Fee(a)
    /\ \A b \in Addresses \ {a} :
          /\ held'[b] >= held[b] /\ held'[b] <= held[b] + Fee(a)
          /\ delivered'[b] = delivered[b] /\ charged'[b] = charged[b]

(* Only the first settlement by the service pays to enter.                 *)
FlatFee(a) == MaxFlatFee + (IF serviced[a] = 0 THEN MaxEntryFee ELSE 0)

ChargedSettle(a) ==
    /\ Leave(a)
    /\ 0 <= Fee(a) /\ Fee(a) <= FlatFee(a) + ((Out(a) + Fee(a)) * MaxRate) \div RateUnit
    /\ Draw(a, Out(a) + Fee(a))
    /\ serviced' = [serviced EXCEPT ![a] = @ + 1]

FreeSettle(a) ==
    /\ Leave(a)
    /\ Fee(a) = 0
    /\ Out(a) <= budget[a]
    /\ Draw(a, Out(a))
    /\ UNCHANGED serviced

Next == Receive \/ \E a \in Addresses : SetAside(a) \/ ChargedSettle(a) \/ FreeSettle(a)

Spec == Init /\ [][Next]_custodyVars
=============================================================================

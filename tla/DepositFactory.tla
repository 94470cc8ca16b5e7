--------------------------- MODULE DepositFactory ---------------------------
(***************************************************************************)
(* DepositFactory.sol composed with the clones it deploys.  A deposit      *)
(* address is the CREATE2 address of (recipient, index, fast): it can be   *)
(* paid long before anybody deploys the clone, and only then be called.    *)
(* keccak256 and CREATE2 are taken to be collision-free, so an address is  *)
(* modelled as the tuple that is hashed.                                   *)
(***************************************************************************)
EXTENDS DepositForwarder, Sequences

CONSTANTS
    Recipients,    \* Stellar recipients, as byte sequences
    Indices,       \* per-recipient indices
    Factory        \* the DepositFactory contract

VARIABLES
    deployed,  \* clones that have code
    charger    \* history: who sent the latest transaction that charged fees

facVars == <<vars, deployed, charger>>

-----------------------------------------------------------------------------
(* The clone's immutable args, recipient ++ uint8(fast), and its salt.     *)
Args(recipient, fast) == Append(recipient, IF fast THEN 1 ELSE 0)
Salt(recipient, index) == <<recipient, index>>

computeAddress(recipient, index, fast) ==
    <<Implementation, Args(recipient, fast), Salt(recipient, index)>>

(* How a clone reads its own args back.                                    *)
CloneArgs(c) == c[2]
Recipient(c) == SubSeq(CloneArgs(c), 1, Len(CloneArgs(c)) - 1)
Fast(c) == CloneArgs(c)[Len(CloneArgs(c))] # 0

ASSUME FactoryAssumption ==
    /\ Recipients \subseteq Seq(0..255)
    /\ Factory \in WiredFactories \ Users   \* it calls nothing but flush
    /\ Clones \subseteq {computeAddress(r, i, f) : r \in Recipients, i \in Indices, f \in BOOLEAN}
    /\ FastClones = {c \in Clones : Fast(c)}

-----------------------------------------------------------------------------
(* The factory's own effect: the clone has code from now on.               *)
Deploys(c) == deployed' = deployed \cup {c}

(* Slip: an address can be deployed only while somebody operates it.       *)
DeployNeedsOperator(c) ==
    /\ c \notin deployed /\ config.operators # {}
    /\ Deploys(c)
    /\ UNCHANGED <<vars, charger>>

(* deploy: permissionless; a repeated call changes nothing.                *)
deploy(c) ==
    /\ c \notin deployed
    /\ Deploys(c)
    /\ UNCHANGED <<vars, charger>>

(* Slip: the factory relays anybody's flush with its own right.            *)
RelayForAnyone(sender) == TRUE

(* The factory checks its own caller, because the clone sees the factory.  *)
MayRelay(sender) == sender \in config.operators \/ config.publicFlush

(* deployAndFlush: deploy if needed, then flush as the factory, in one     *)
(* transaction; if the flush reverts the deployment does too.              *)
deployAndFlush(sender, c) ==
    /\ MayRelay(sender)
    /\ Deploys(c)
    /\ flush(Factory, c)
    /\ charger' = sender

(* flush, called at the clone itself.                                      *)
flushDirectly(sender, c) ==
    /\ flush(sender, c)
    /\ charger' = sender
    /\ UNCHANGED deployed

FacInit == Init /\ deployed = {} /\ charger = NoAddress

(* Calls reach a clone only once it has code.  The genuine factory calls   *)
(* flush only through deployAndFlush; another contract that merely reports *)
(* the wiring may call it at will.                                         *)
FacNext ==
    \/ \E c \in Clones : deploy(c) \/ \E s \in Users : deployAndFlush(s, c)
    \/ \E c \in deployed, s \in Users \cup (WiredFactories \ {Factory}) : flushDirectly(s, c)
    \/ /\ \/ \E c \in deployed : requestSweep(c) \/ sweep(c)
          \/ \E s \in Users, a \in deployed \cup {Implementation} : rescueERC20(s, a)
          \/ Environment
       /\ UNCHANGED <<deployed, charger>>

FacSpec == FacInit /\ [][FacNext]_facVars

(* Fairness: the depositor (or anyone for him) keeps calling deploy,       *)
(* requestSweep and sweep when they would succeed, and blocks keep coming. *)
(* Nothing is assumed of the operators, the owner or Circle.               *)
FairFacSpec ==
    /\ FacSpec
    /\ WF_facVars(Tick /\ UNCHANGED <<deployed, charger>>)
    /\ \A c \in Clones :
          /\ WF_facVars(deploy(c))
          /\ WF_facVars(c \in deployed /\ requestSweep(c) /\ UNCHANGED <<deployed, charger>>)
          /\ WF_facVars(c \in deployed /\ sweep(c) /\ UNCHANGED <<deployed, charger>>)

-----------------------------------------------------------------------------
(* Who may have fees charged: operators, everybody while flush is public,  *)
(* and a contract the owner named as factory.  The genuine factory sends   *)
(* no transactions of its own.                                             *)
HasFlushRights(sender) ==
    \/ sender \in config.operators
    \/ config.publicFlush
    \/ sender = config.factory /\ sender # Factory

(* Whoever sends a transaction that charges fees has flush rights at that  *)
(* moment, whether it calls the clone or the genuine factory, which lends  *)
(* its own right to nobody, whatever is revoked or granted in between      *)
(* (deployAndFlush, "not operator"; flush sees the factory as its caller). *)
NoConfusedDeputy ==
    [][\A c \in Clones : flushes'[c] > flushes[c] => HasFlushRights(charger')]_facVars

(* The contracts implement the custody promise for every address, deployed *)
(* or not.                                                                 *)
Custody == INSTANCE DepositCustody
             WITH Addresses <- Clones, Quantum <- MIN_SWEEP_AMOUNT,
                  MaxEntryFee <- MaxSetupFee, MaxFlatFee <- MaxBaseFee,
                  MaxRate <- MaxFeePpm, RateUnit <- PPM_DENOM,
                  held <- [c \in Clones |-> usdc[c]],
                  delivered <- [c \in Clones |-> Burned(c)],
                  charged <- fees, budget <- sweepCap, serviced <- flushes
CustodyKept == Custody!Spec
=============================================================================

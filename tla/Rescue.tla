------------------------------- MODULE Rescue -------------------------------
(***************************************************************************)
(* DepositForwarder.sol: rescueNative over the settlement contracts of     *)
(* DepositForwarder, which have rescueERC20 of USDC.  Other tokens have no *)
(* bearing on the money of a deposit and are left out.                     *)
(*                                                                         *)
(* rescueNative hands the whole native balance to the sink with a plain    *)
(* call and judges the result afterwards by the USDC balance.  The sink    *)
(* runs code of its own in between: it may pay money in, call any function *)
(* of any clone that is open to it, and start further rescues.  `frames`   *)
(* is the stack of rescues in progress, each with the snapshot it compares *)
(* against.  A rescue that reverts leaves the state it started from, as    *)
(* any reverting call does: steps inside a rescue that never returns did   *)
(* not happen, and promises are about states at rest.                      *)
(*                                                                         *)
(* On a chain with one ledger for both, USDC is the native balance divided *)
(* by SCALE and `dust` its remainder; elsewhere `dust` is all the native   *)
(* coin.                                                                   *)
(***************************************************************************)
EXTENDS DepositForwarder, Sequences

CONSTANTS
    SCALE,          \* native units in one USDC subunit (10^12 on Arc)
    MaxDust,        \* bound: native coin at one contract of a two-ledger chain
    MaxDepth        \* bound: rescues in progress at once

VARIABLES
    shared,         \* whether the chain has one ledger for native coin and USDC
    dust,           \* native coin of each contract that is not USDC
    frames,
    (* history *)
    taken,          \* USDC that left each contract in native rescues
    lent            \* USDC credited to each clone while a rescue was in progress

ASSUME RescueAssumption ==
    /\ SCALE \in Nat \ {0}
    /\ MaxDust \in Nat /\ MaxDepth \in Nat

coinVars == <<dust, taken, lent>>
rescueVars == <<vars, shared, coinVars, frames>>

AtRest == frames = <<>>
Top == frames[Len(frames)]

(* Slip: the balance is not looked at again after the call.                *)
Unguarded(after, before) == TRUE

(* A rescue may never lower the USDC balance.                              *)
PrincipalGuard(after, before) == after >= before

(* rescueNative up to and including the call of the sink.  The contracts   *)
(* of this repository accept no native coin, so none of them can be the    *)
(* sink of one.                                                            *)
rescueNative(sender, a) ==
    /\ Len(frames) < MaxDepth
    /\ sender \in config.operators
    /\ config.rescueSink \notin Holders \cup {NoAddress}
    /\ config.initialized
    /\ frames' = Append(frames, [at |-> a, usdcBefore |-> usdc[a]])
    /\ dust' = [dust EXCEPT ![a] = 0]
    /\ usdc' = IF shared THEN [usdc EXCEPT ![a] = 0] ELSE usdc
    /\ taken' = IF shared THEN [taken EXCEPT ![a] = @ + usdc[a]] ELSE taken
    /\ UNCHANGED <<circle, config, windowVars, received, burned, fees, flushes, setupFeePaid,
                   now, deposited, shared, lent>>

(* The rest of rescueNative, once the sink has returned.                   *)
RescueReturns ==
    /\ ~AtRest
    /\ PrincipalGuard(usdc[Top.at], Top.usdcBefore)
    /\ frames' = SubSeq(frames, 1, Len(frames) - 1)
    /\ UNCHANGED <<vars, shared, coinVars>>

-----------------------------------------------------------------------------
(* External: native coin forced onto a contract, a unit at a time; SCALE   *)
(* of them are a subunit of USDC where the ledger is shared.               *)
ForceNative(a) ==
    LET carries == shared /\ dust[a] + 1 = SCALE
    IN  /\ dust[a] < MaxDust
        /\ dust' = [dust EXCEPT ![a] = IF carries THEN 0 ELSE @ + 1]
        /\ IF carries THEN Deposit(a, 1) ELSE UNCHANGED vars
        /\ lent' = [c \in Clones |-> lent[c] + IF AtRest THEN 0 ELSE received'[c] - received[c]]
        /\ UNCHANGED <<shared, taken, frames>>

(* What code running inside a rescue can do besides another rescue.        *)
SinkCalls ==
    \/ \E c \in Clones : CloneCall(c)
    \/ \E s \in Users, a \in Holders : rescueERC20(s, a)
    \/ \E a \in Holders, v \in 1..MaxDeposited : Deposit(a, v)

RescueInit ==
    /\ Init
    /\ shared \in BOOLEAN
    /\ dust = [a \in Holders |-> 0] /\ taken = [a \in Holders |-> 0]
    /\ frames = <<>>
    /\ lent = [c \in Clones |-> 0]

RescueNext ==
    \/ AtRest /\ Next /\ UNCHANGED <<shared, coinVars, frames>>
    \/ /\ ~AtRest /\ SinkCalls
       /\ lent' = [c \in Clones |-> lent[c] + received'[c] - received[c]]
       /\ UNCHANGED <<shared, dust, taken, frames>>
    \/ \E s \in Users, a \in Holders : rescueNative(s, a)
    \/ RescueReturns
    \/ \E a \in Holders : ForceNative(a)

RescueSpec == RescueInit /\ [][RescueNext]_rescueVars

-----------------------------------------------------------------------------
(* On either kind of chain, whatever the sink does while it is called and  *)
(* however rescues nest: once they are over, no deposit address has lost   *)
(* more USDC to rescues than was paid into it meanwhile, and every subunit *)
(* is accounted for (rescueNative, "native is USDC").                      *)
RescueTakesNoPrincipal ==
    \A c \in Clones :
        /\ received[c] = usdc[c] + Burned(c) + fees[c] + taken[c]
        /\ AtRest => taken[c] <= lent[c]

(* A rescue drains the address for a moment, in which its window can be    *)
(* armed, drawn down or closed.  Afterwards an armed window is again       *)
(* backed by what the address holds, so its sweep cannot revert for want   *)
(* of funds.                                                               *)
WindowBackedAfterRescue ==
    AtRest => \A c \in Clones : sweepableAt[c] # 0 => sweepCap[c] <= usdc[c]
=============================================================================

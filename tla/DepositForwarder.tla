-------------------------- MODULE DepositForwarder --------------------------
(***************************************************************************)
(* DepositForwarder.sol: the deposit clones of one chain, which settle     *)
(* USDC to the Stellar recipient committed in their address, composed with *)
(* Config and with Circle's CCTP.  A transaction is one atomic step; the   *)
(* nondeterminism is which account sends which call next, when blocks      *)
(* advance, what the owner reconfigures and what Circle changes.           *)
(*                                                                         *)
(* `usdc` is the USDC ledger restricted to the accounts this repository    *)
(* deploys.  A fee paid to any other collector leaves the model.  The last *)
(* group of variables is history: it records what happened and no guard    *)
(* reads it, except the bound on deposits.                                 *)
(***************************************************************************)
EXTENDS Config

CONSTANTS
    Clones,           \* deposit addresses
    FastClones,       \* those whose args commit to fast transfers
    Implementation,   \* the shared implementation contract
    MIN_SWEEP_AMOUNT, \* 2: the least amount burnable under any minimum fee
    MaxDeposited      \* bound: USDC ever sent to the contracts

VARIABLES
    usdc,             \* USDC balance of each clone and of the implementation
    sweepableAt,      \* per clone: deadline of the armed window, 0 = none
    sweepCap,         \* per clone: budget left in the armed window
    setupFeePaid,     \* per clone
    now,              \* block.timestamp
    (* history *)
    deposited,        \* USDC ever sent to the contracts from outside
    received,         \* USDC ever credited to the clone
    burned,           \* USDC burned to the clone's recipient, by finality
    fees,             \* service fees ever taken from the clone
    flushes,          \* fee-charging settlements of the clone
    armedAt,          \* when the open window was armed
    armedReceived     \* received[c] at that moment

Holders == Clones \cup {Implementation}
FINALITY_STANDARD == "standard"
FINALITY_FAST == "fast"
Finality == {FINALITY_STANDARD, FINALITY_FAST}

ASSUME ForwarderAssumption ==
    /\ FastClones \subseteq Clones
    /\ Implementation \notin Clones
    /\ NoAddress \notin Holders
    /\ MIN_SWEEP_AMOUNT = 2
    /\ MaxDeposited \in Nat

windowVars == <<sweepableAt, sweepCap, armedAt, armedReceived>>
ledgerVars == <<usdc, received, burned, fees, flushes, setupFeePaid>>
fwdVars == <<windowVars, ledgerVars, now, deposited>>
vars == <<circle, config, fwdVars>>

TypeOK ==
    /\ circle \in CircleType
    /\ config \in ConfigType
    /\ usdc \in [Holders -> Nat]
    /\ sweepableAt \in [Clones -> Nat] /\ sweepCap \in [Clones -> Nat]
    /\ setupFeePaid \in [Clones -> BOOLEAN]
    /\ now \in Nat \ {0}
    /\ deposited \in Nat
    /\ received \in [Clones -> Nat] /\ fees \in [Clones -> Nat] /\ flushes \in [Clones -> Nat]
    /\ burned \in [Clones -> [Finality -> Nat]]
    /\ armedAt \in [Clones -> Nat] /\ armedReceived \in [Clones -> Nat]

Burned(c) == burned[c][FINALITY_STANDARD] + burned[c][FINALITY_FAST]

-----------------------------------------------------------------------------
(* Fees and the CCTP allowance.                                            *)

(* Slip: the one-time fee is charged on every flush.                       *)
SetupFeeEveryTime(c) == Min2(config.setupFee, MaxSetupFee)

SetupFee(c) == IF setupFeePaid[c] THEN 0 ELSE Min2(config.setupFee, MaxSetupFee)

PerSettleFee(settled) ==
    Min2(config.baseFee, MaxBaseFee)
      + (settled * Min2(config.feePpm, MaxFeePpm)) \div PPM_DENOM

TotalFee(c, settled) == SetupFee(c) + PerSettleFee(settled)

(* Slip: the fee collector may be the settling clone.                      *)
CollectsFromSelf(c, settled) ==
    /\ TotalFee(c, settled) < settled
    /\ TotalFee(c, settled) > 0 => config.feeCollector # NoAddress

(* The conditions under which _collectFees does not revert.                *)
CanCollectFees(c, settled) ==
    /\ TotalFee(c, settled) < settled
    /\ TotalFee(c, settled) > 0 => config.feeCollector \notin {NoAddress, c}

(* The owner's CCTP rate for this kind of burn; _cctpParams clamps it.     *)
CctpRate(useFast) ==
    IF useFast THEN config.cctpFastMaxFeePpm ELSE config.cctpStandardMaxFeePpm

UseFast(c, chargeFees) == chargeFees /\ c \in FastClones /\ config.fastEnabled

-----------------------------------------------------------------------------
(* _settle: collect the fees if asked to, burn the rest to the recipient.  *)

FeeOf(c, amount, chargeFees) == IF chargeFees THEN TotalFee(c, amount) ELSE 0

CanSettle(c, amount, chargeFees) ==
    LET toBurn == amount - FeeOf(c, amount, chargeFees)
    IN  /\ amount > 0 /\ amount <= usdc[c]
        /\ chargeFees => CanCollectFees(c, amount)
        /\ BurnAccepted(toBurn, CctpMaxFee(toBurn, CctpRate(UseFast(c, chargeFees))))

Settle(c, amount, chargeFees) ==
    LET fee == FeeOf(c, amount, chargeFees)
        finality == IF UseFast(c, chargeFees) THEN FINALITY_FAST ELSE FINALITY_STANDARD
        paid(a) == IF a = config.feeCollector THEN fee ELSE 0
    IN  /\ CanSettle(c, amount, chargeFees)
        /\ usdc' = [a \in Holders |-> (IF a = c THEN usdc[a] - amount ELSE usdc[a]) + paid(a)]
        /\ received' = [d \in Clones |-> received[d] + paid(d)]
        /\ burned' = [burned EXCEPT ![c][finality] = @ + (amount - fee)]
        /\ fees' = [fees EXCEPT ![c] = @ + fee]
        /\ setupFeePaid' = [setupFeePaid EXCEPT ![c] = @ \/ chargeFees]
        /\ flushes' = IF chargeFees THEN [flushes EXCEPT ![c] = @ + 1] ELSE flushes

(* Slip: a remainder CCTP cannot burn is kept armed.                       *)
DrawDownKeepsDust(c, amount) ==
    LET remaining == IF sweepCap[c] > amount THEN sweepCap[c] - amount ELSE 0
    IN  /\ sweepCap' = [sweepCap EXCEPT ![c] = remaining]
        /\ sweepableAt' = [sweepableAt EXCEPT ![c] = IF remaining = 0 THEN 0 ELSE @]
        /\ armedAt' = [armedAt EXCEPT ![c] = IF remaining = 0 THEN 0 ELSE @]
        /\ armedReceived' = [armedReceived EXCEPT ![c] = IF remaining = 0 THEN 0 ELSE @]

(* What flush and sweep do to an armed window after settling `amount`:     *)
(* draw the budget down, close once it is below what CCTP can always burn  *)
(* or the address is empty.  The deadline is never moved.                  *)
DrawDown(c, amount) ==
    LET remaining == IF sweepCap[c] > amount THEN sweepCap[c] - amount ELSE 0
        closes == remaining < MIN_SWEEP_AMOUNT \/ usdc'[c] = 0
    IN  \/ sweepableAt[c] = 0 /\ UNCHANGED windowVars
        \/ /\ sweepableAt[c] # 0 /\ closes
           /\ sweepableAt' = [sweepableAt EXCEPT ![c] = 0]
           /\ sweepCap' = [sweepCap EXCEPT ![c] = 0]
           /\ armedAt' = [armedAt EXCEPT ![c] = 0]
           /\ armedReceived' = [armedReceived EXCEPT ![c] = 0]
        \/ /\ sweepableAt[c] # 0 /\ ~closes
           /\ sweepCap' = [sweepCap EXCEPT ![c] = remaining]
           /\ UNCHANGED <<sweepableAt, armedAt, armedReceived>>

-----------------------------------------------------------------------------
(* The external functions of a clone.                                      *)

MayFlush(sender) ==
    sender \in config.operators \/ sender = config.factory \/ config.publicFlush

flush(sender, c) ==
    LET amount == Min2(usdc[c], circle.burnLimit)
    IN  /\ MayFlush(sender)
        /\ config.initialized
        /\ circle.burnLimit > 0
        /\ Settle(c, amount, TRUE)
        /\ DrawDown(c, amount)
        /\ UNCHANGED <<circle, config, now, deposited>>

(* Idempotent while a window is armed: such a call changes nothing.        *)
requestSweep(c) ==
    /\ config.initialized
    /\ usdc[c] >= MIN_SWEEP_AMOUNT
    /\ sweepableAt[c] = 0
    /\ sweepableAt' = [sweepableAt EXCEPT ![c] = now + Min2(config.sweepDelay, MaxSweepDelay)]
    /\ sweepCap' = [sweepCap EXCEPT ![c] = usdc[c]]
    /\ armedAt' = [armedAt EXCEPT ![c] = now]
    /\ armedReceived' = [armedReceived EXCEPT ![c] = received[c]]
    /\ UNCHANGED <<circle, config, ledgerVars, now, deposited>>

(* Slip: a sweep takes whatever is there, not the armed snapshot.          *)
SweepsWholeBalance(c) == Min2(usdc[c], circle.burnLimit)

(* Never beyond the armed snapshot, nor beyond one CCTP message.           *)
SweepAmount(c) == Min2(Min2(usdc[c], sweepCap[c]), circle.burnLimit)

Mature(c) == sweepableAt[c] # 0 /\ now >= sweepableAt[c]

CanSweep(c) ==
    /\ Mature(c)
    /\ config.initialized
    /\ circle.burnLimit > 0
    /\ CanSettle(c, SweepAmount(c), FALSE)

sweep(c) ==
    /\ CanSweep(c)
    /\ Settle(c, SweepAmount(c), FALSE)
    /\ DrawDown(c, SweepAmount(c))
    /\ UNCHANGED <<circle, config, now, deposited>>

(* Slip: the USDC exclusion forgets that only the implementation is exempt. *)
RescuesAnyUSDC(a) == TRUE

(* The exclusion of USDC, for everybody but the implementation, which is   *)
(* no deposit address.  Before Config.init it excludes the zero address,   *)
(* not USDC.                                                               *)
MayRescueUSDC(a) == ~config.initialized \/ a = Implementation

(* Slip: a rescue does not wait for Config.init.                           *)
RescuesBeforeInit == TRUE

(* So every rescue is refused until then.                                  *)
RescueOpen == config.initialized

(* rescueERC20(usdc) on any of the contracts.                              *)
rescueERC20(sender, a) ==
    LET sink == config.rescueSink
    IN  /\ sender \in config.operators
        /\ RescueOpen
        /\ MayRescueUSDC(a)
        /\ sink # NoAddress
        /\ usdc' = [b \in Holders |-> (IF b = a THEN 0 ELSE usdc[b])
                                        + (IF b = sink THEN usdc[a] ELSE 0)]
        /\ received' = [d \in Clones |-> received[d] + IF d = sink THEN usdc[a] ELSE 0]
        /\ UNCHANGED <<circle, config, windowVars, burned, fees, flushes, setupFeePaid, now, deposited>>

-----------------------------------------------------------------------------
(* The environment.                                                        *)

(* Anybody transfers USDC to one of the contracts, MaxDeposited in all.    *)
Deposit(a, v) ==
    /\ deposited + v <= MaxDeposited
    /\ deposited' = deposited + v
    /\ usdc' = [usdc EXCEPT ![a] = @ + v]
    /\ received' = [d \in Clones |-> IF d = a THEN received[d] + v ELSE received[d]]
    /\ UNCHANGED <<circle, config, windowVars, burned, fees, flushes, setupFeePaid, now>>

(* block.timestamp advances.  Only its order relative to the armed         *)
(* deadlines can be observed, so it moves while some window is immature.   *)
Tick ==
    /\ \E c \in Clones : sweepableAt[c] # 0 /\ ~Mature(c)
    /\ now' = now + 1
    /\ UNCHANGED <<circle, config, windowVars, ledgerVars, deposited>>

Init ==
    /\ CircleInit
    /\ ConfigInit
    /\ usdc = [a \in Holders |-> 0]
    /\ sweepableAt = [c \in Clones |-> 0] /\ sweepCap = [c \in Clones |-> 0]
    /\ setupFeePaid = [c \in Clones |-> FALSE]
    /\ now = 1
    /\ deposited = 0
    /\ received = [c \in Clones |-> 0] /\ fees = [c \in Clones |-> 0]
    /\ flushes = [c \in Clones |-> 0]
    /\ burned = [c \in Clones |-> [f \in Finality |-> 0]]
    /\ armedAt = [c \in Clones |-> 0] /\ armedReceived = [c \in Clones |-> 0]

CloneCall(c) ==
    \/ \E s \in Users \cup WiredFactories : flush(s, c)
    \/ requestSweep(c)
    \/ sweep(c)

Environment ==
    \/ \E a \in Holders, v \in 1..MaxDeposited : Deposit(a, v)
    \/ Tick
    \/ CircleNext /\ UNCHANGED <<config, fwdVars>>
    \/ ConfigNext /\ UNCHANGED <<circle, fwdVars>>

Next ==
    \/ \E c \in Clones : CloneCall(c)
    \/ \E s \in Users, a \in Holders : rescueERC20(s, a)
    \/ Environment

Spec == Init /\ [][Next]_vars

-----------------------------------------------------------------------------
(* Properties.                                                             *)

(* An armed window always has a budget that CCTP can burn and that the     *)
(* address really holds; a closed one has none.  So a sweep never          *)
(* underflows, never reverts for want of funds and no free allowance is    *)
(* left behind by flushes, re-arming and owner or Circle changes between.  *)
ArmedWindowBurnable ==
    \A c \in Clones :
        IF sweepableAt[c] = 0
        THEN sweepCap[c] = 0
        ELSE MIN_SWEEP_AMOUNT <= sweepCap[c] /\ sweepCap[c] <= usdc[c]

(* Every subunit ever credited to a deposit address is still there, was    *)
(* burned to its recipient or was taken as a fee: no call of anyone moves  *)
(* principal elsewhere, wherever the collector and the sink point.         *)
PrincipalConserved ==
    \A c \in Clones : received[c] = usdc[c] + Burned(c) + fees[c]

(* Over the whole life of an address the service never takes more than one *)
(* setup fee, one base fee per flush and the proportional fee on what was  *)
(* settled, each at its cap, whatever the owner set in between.            *)
FeesWithinCaps ==
    \A c \in Clones :
        fees[c] <= MaxSetupFee + flushes[c] * MaxBaseFee
                     + ((received[c] - usdc[c]) * MaxFeePpm) \div PPM_DENOM

(* Circle still burns at least the sweep minimum per message and asks for  *)
(* no fee above the immutable cap.                                         *)
CircleServes == circle.burnLimit >= MIN_SWEEP_AMOUNT /\ MinFeeWithinCap

(* While Circle serves, a matured window can be swept at once: no setting  *)
(* of the owner, no earlier flush or partial sweep and no rounding of the  *)
(* allowance makes the escape hatch revert.                                *)
OpenWindowSweepable ==
    CircleServes => \A c \in Clones : Mature(c) => CanSweep(c)

(* A fee-free settlement takes only funds that were at the address when    *)
(* the window was armed, at least MinSweepDelay ago: what was settled in   *)
(* all, first in first out, never reaches past the deposits of that time.  *)
SweepStep(c) == Burned(c)' > Burned(c) /\ flushes'[c] = flushes[c]

SweepPriority ==
    [][\A c \in Clones : SweepStep(c) =>
          /\ now >= armedAt[c] + MinSweepDelay
          /\ Burned(c)' + fees'[c] <= armedReceived[c]]_vars

(* Nobody can move the deadline of an armed window, and no call closes it  *)
(* without taking all of its budget but an unburnable remainder out of the *)
(* address (or emptying it).                                               *)
WindowHonoured ==
    [][\A c \in Clones : sweepableAt[c] # 0 =>
          \/ sweepableAt'[c] = sweepableAt[c]
          \/ /\ sweepableAt'[c] = 0
             /\ \/ usdc'[c] = 0
                \/ usdc[c] - usdc'[c] > sweepCap[c] - MIN_SWEEP_AMOUNT]_vars

(* The escape hatch works without operator or owner: once the chain is     *)
(* wired and Circle keeps serving, every deposit address is eventually     *)
(* emptied down to less than the sweep minimum, for good.                  *)
EscapeHatch ==
    <>[](config.initialized /\ CircleServes) =>
        \A c \in Clones : <>[](usdc[c] < MIN_SWEEP_AMOUNT)
=============================================================================

------------------------------- MODULE CctpV2 -------------------------------
(***************************************************************************)
(* Circle's CCTP V2 contracts on the source chain, as far as the deposit   *)
(* contracts depend on them.  They are not part of this repository: the    *)
(* module states what DepositForwarder and Config assume of them           *)
(* (interfaces.sol, MockTokenMessenger.sol).  Circle may change all of the *)
(* state here at any moment and nobody in this system can prevent it.      *)
(***************************************************************************)
EXTENDS Integers

CONSTANTS
    PPM_DENOM,       \* rates are in millionths (10^6 in the code)
    CircleInputs     \* the values Circle may set: burnLimit, minFee, legacy

VARIABLE
    circle           \* [burnLimit, minFee, legacy]: minter limit, messenger fee floor

(* Circle's MIN_FEE_MULTIPLIER is 10^7, ten times the repository's 10^6.   *)
MIN_FEE_MULTIPLIER == 10 * PPM_DENOM

ASSUME PpmAssumption == PPM_DENOM \in Nat \ {0}

ASSUME CircleInputsAssumption ==
    /\ CircleInputs.burnLimit \subseteq Nat
    /\ CircleInputs.minFee \subseteq Nat
    /\ CircleInputs.legacy \subseteq BOOLEAN

CircleType == [burnLimit : Nat, minFee : Nat, legacy : BOOLEAN]

Min2(a, b) == IF a < b THEN a ELSE b

(* Solidity's (n + PPM_DENOM - 1) / PPM_DENOM: rounded up, in whole        *)
(* subunits.                                                               *)
CeilPpm(n) == (n + PPM_DENOM - 1) \div PPM_DENOM

-----------------------------------------------------------------------------
(* _calcMinFeeAmount: the floor the burn itself is tested against.  Any    *)
(* non-zero rate demands at least one subunit.                             *)
CalcMinFeeAmount(amount) ==
    LET fee == (amount * circle.minFee) \div MIN_FEE_MULTIPLIER
    IN  IF circle.minFee = 0 THEN 0 ELSE IF fee = 0 THEN 1 ELSE fee

(* Whether the public getter answers at all: the selector is absent on the *)
(* older messenger, and the getter refuses amount <= 1 under a minimum.    *)
GetMinFeeAnswers(amount) ==
    /\ ~circle.legacy
    /\ circle.minFee # 0 => amount > 1

(* depositForBurnWithHook does not revert.                                 *)
BurnAccepted(amount, maxFee) ==
    /\ amount > 0
    /\ amount <= circle.burnLimit
    /\ maxFee < amount
    /\ ~circle.legacy => maxFee >= CalcMinFeeAmount(amount)

-----------------------------------------------------------------------------
CircleInit == circle \in [burnLimit : CircleInputs.burnLimit,
                          minFee    : CircleInputs.minFee,
                          legacy    : CircleInputs.legacy]

(* Circle's own governance: per-message limit, minimum fee, implementation *)
(* upgrade (legacy -> minimum-fee capable, or back).                       *)
CircleSetBurnLimit == \E v \in CircleInputs.burnLimit : circle' = [circle EXCEPT !.burnLimit = v]
CircleSetMinFee    == \E v \in CircleInputs.minFee : circle' = [circle EXCEPT !.minFee = v]
CircleUpgrade      == \E v \in CircleInputs.legacy : circle' = [circle EXCEPT !.legacy = v]

CircleNext == CircleSetBurnLimit \/ CircleSetMinFee \/ CircleUpgrade
=============================================================================

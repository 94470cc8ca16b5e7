--------------------------- MODULE CctpAllowance ---------------------------
(***************************************************************************)
(* DepositForwarder._cctpParams and _cctpMinFee: the maxFee a settlement   *)
(* grants Circle on a burn.  The integers are those of the code: subunits  *)
(* of USDC, rates in millionths, Circle's rate in ten-millionths.          *)
(***************************************************************************)
EXTENDS CctpV2

CONSTANT MaxCctpFeePpm   \* the immutable cap on the rate, 10_000 in the code

(* At most half of the amount may go: 2 subunits leave at least one.       *)
ASSUME CctpCapAssumption ==
    MaxCctpFeePpm \in Nat \ {0} /\ 2 * MaxCctpFeePpm <= PPM_DENOM

(* The tolerant probe: an absent or refusing getter counts as no minimum.  *)
CctpMinFee(toBurn) == IF GetMinFeeAnswers(toBurn) THEN CalcMinFeeAmount(toBurn) ELSE 0

(* Slip: the allowance follows the owner's rate only.                      *)
OwnerRateOnly(toBurn, ownerRate) ==
    LET fee == CeilPpm(toBurn * Min2(ownerRate, MaxCctpFeePpm))
    IN  IF fee >= toBurn THEN toBurn - 1 ELSE fee

(* Slip: the cap is rounded down instead of up.                            *)
CapRoundedDown(toBurn, ownerRate) ==
    LET allowed == CeilPpm(toBurn * Min2(ownerRate, MaxCctpFeePpm))
        lifted == IF CctpMinFee(toBurn) > allowed THEN CctpMinFee(toBurn) ELSE allowed
    IN  Min2(lifted, (toBurn * MaxCctpFeePpm) \div PPM_DENOM)

(* Slip: the chain's minimum is applied after the cap.                     *)
MinimumAfterCap(toBurn, ownerRate) ==
    LET allowed == CeilPpm(toBurn * Min2(ownerRate, MaxCctpFeePpm))
        fee == IF CctpMinFee(toBurn) > allowed THEN CctpMinFee(toBurn) ELSE allowed
    IN  IF fee >= toBurn THEN toBurn - 1 ELSE fee

(* The larger of the owner's rate and the messenger's minimum, bounded by  *)
(* the cap, both rounded up, and kept below the amount.                    *)
CctpMaxFee(toBurn, ownerRate) ==
    LET allowed == CeilPpm(toBurn * Min2(ownerRate, MaxCctpFeePpm))
        lifted == IF CctpMinFee(toBurn) > allowed THEN CctpMinFee(toBurn) ELSE allowed
        fee == Min2(lifted, CeilPpm(toBurn * MaxCctpFeePpm))
    IN  IF fee >= toBurn THEN toBurn - 1 ELSE fee

(* Circle asks for no rate above the cap.                                  *)
MinFeeWithinCap == circle.legacy \/ circle.minFee <= 10 * MaxCctpFeePpm
=============================================================================

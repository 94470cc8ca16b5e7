---------------------------- MODULE Config_proofs ----------------------------
(***************************************************************************)
(* What the proofs about the deposit contracts need of Config: that every  *)
(* setter keeps the record in its ranges, and that the CCTP allowance of   *)
(* DepositForwarder._cctpParams is always enough and never too much, for   *)
(* all amounts, rates and caps: integer arithmetic with two roundings up   *)
(* and one down.                                                           *)
(***************************************************************************)
EXTENDS Config, TLAPS

USE PpmAssumption, CircleInputsAssumption, CctpCapAssumption,
    CapsAssumption, ConfigAssumption

(* Circle's governance keeps its parameters natural numbers.               *)
LEMMA CircleStep ==
    ASSUME circle \in CircleType, CircleNext
    PROVE  circle' \in CircleType
BY DEF CircleNext, CircleSetBurnLimit, CircleSetMinFee, CircleUpgrade, CircleType

(* Config keeps its record well-typed and its wiring; a pending proposal   *)
(* changes only by a proposal, or is cleared.                              *)
LEMMA ConfigStep ==
    ASSUME config \in ConfigType, ConfigNext
    PROVE  /\ config' \in ConfigType
           /\ config.initialized => config'.initialized /\ config'.wiring = config.wiring
           /\ \/ config'.pendingOwner = config.pendingOwner /\ config'.owner = config.owner
              \/ config'.pendingOwner = NoAddress
              \/ \E s \in Users, to \in ConfigInputs.heir : transferOwnership(s, to)
<1>1. PICK s \in Users : FeeSetter(s) \/ CctpSetter(s) \/ AccessSetter(s) \/ Governance(s)
  BY DEF ConfigNext
<1>2. CASE FeeSetter(s)
  BY <1>2 DEF FeeSetter, setSetupFee, setBaseFee, setFeePpm, setFeeCollector, ConfigType, Payees
<1>3. CASE CctpSetter(s)
  BY <1>3 DEF CctpSetter, setCctpStandardMaxFeePpm, setCctpFastMaxFeePpm, setFastEnabled, ConfigType
<1>4. CASE AccessSetter(s)
  BY <1>4 DEF AccessSetter, setPublicFlush, setOperator, setFactory, setSweepDelay, setRescueSink,
              ConfigType, Payees
<1>5. CASE Governance(s)
  <2>1. CASE \E w \in ConfigInputs.wiring : init(s, w)
    <3>1. PICK w \in SoundWirings :
             config' = [config EXCEPT !.initialized = TRUE, !.wiring = w]
      BY <2>1 DEF init
    <3>2. config' \in ConfigType
      BY <3>1 DEF ConfigType
    <3>3. ~config.initialized
      BY <2>1 DEF init
    <3>4. config'.pendingOwner = config.pendingOwner /\ config'.owner = config.owner
      BY <3>1 DEF ConfigType
    <3> QED BY <3>2, <3>3, <3>4
  <2>2. CASE \E v \in ConfigInputs.heir : transferOwnership(s, v)
    <3>1. PICK v \in ConfigInputs.heir : transferOwnership(s, v)
      BY <2>2
    <3>2. config' = [config EXCEPT !.pendingOwner = v]
      BY <3>1 DEF transferOwnership
    <3>3. config' \in ConfigType
      BY <3>2 DEF ConfigType
    <3>4. config'.wiring = config.wiring /\ config'.initialized = config.initialized
      BY <3>2 DEF ConfigType
    <3> QED BY <3>1, <3>3, <3>4
  <2>3. CASE acceptOwnership(s)
    BY <2>3 DEF acceptOwnership, ConfigType
  <2> QED BY <1>5, <2>1, <2>2, <2>3 DEF Governance
<1> QED BY <1>1, <1>2, <1>3, <1>4, <1>5

-----------------------------------------------------------------------------

(* Integer division, characterised by multiplication.                      *)
LEMMA DivBounds ==
    ASSUME NEW n \in Nat, NEW k \in Nat \ {0}
    PROVE  /\ n \div k \in Nat
           /\ k * (n \div k) <= n
           /\ n < k * (n \div k) + k
OBVIOUS

LEMMA MulMonotone ==
    ASSUME NEW k \in Nat, NEW a \in Nat, NEW b \in Nat, a <= b
    PROVE  k * a <= k * b
OBVIOUS

(* A product bounded by a multiple of the same positive factor.            *)
LEMMA MulCancel ==
    ASSUME NEW k \in Nat \ {0}, NEW a \in Nat, NEW b \in Nat, k * a < k * b + k
    PROVE  a <= b
<1> SUFFICES ASSUME a > b PROVE FALSE
  OBVIOUS
<1>1. b + 1 <= a /\ b + 1 \in Nat
  OBVIOUS
<1>2. k * (b + 1) <= k * a
  BY <1>1, MulMonotone
<1>3. k * (b + 1) = k * b + k
  OBVIOUS
<1> QED BY <1>2, <1>3

(* Rounding down is monotone, and rounding parts down gives no more than   *)
(* rounding their sum down.                                                *)
LEMMA DivMonotone ==
    ASSUME NEW k \in Nat \ {0}, NEW a \in Nat, NEW b \in Nat, a <= b
    PROVE  a \div k <= b \div k
<1> DEFINE p == a \div k
           q == b \div k
<1>1. p \in Nat /\ k * p <= a /\ q \in Nat /\ b < k * q + k
  BY DivBounds
<1> HIDE DEF p, q
<1>2. k * p < k * q + k
  BY <1>1
<1>3. p <= q
  BY <1>1, <1>2, MulCancel
<1> QED BY <1>3 DEF p, q

LEMMA DivOfSum ==
    ASSUME NEW k \in Nat \ {0}, NEW a \in Nat, NEW b \in Nat
    PROVE  (a \div k) + (b \div k) <= (a + b) \div k
<1> DEFINE p == a \div k
           q == b \div k
           r == (a + b) \div k
<1>1. /\ p \in Nat /\ k * p <= a /\ q \in Nat /\ k * q <= b
      /\ r \in Nat /\ a + b < k * r + k
  BY DivBounds
<1> HIDE DEF p, q, r
<1>2. k * (p + q) = k * p + k * q
  BY <1>1
<1>3. k * (p + q) < k * r + k /\ p + q \in Nat
  BY <1>1, <1>2
<1>4. p + q <= r
  BY <1>1, <1>3, MulCancel
<1> QED BY <1>4 DEF p, q, r

(* The capped allowance, rounded up, is positive and below the amount.     *)
LEMMA CeilingRange ==
    ASSUME NEW t \in Nat, t >= 2
    PROVE  LET ceil == CeilPpm(t * MaxCctpFeePpm)
           IN  ceil \in Nat /\ 1 <= ceil /\ ceil < t
               /\ t * MaxCctpFeePpm <= PPM_DENOM * ceil
<1> DEFINE C == MaxCctpFeePpm
           P == PPM_DENOM
           ceil == CeilPpm(t * C)
<1>1. t * C \in Nat /\ t * C >= 2 /\ t * C + P - 1 \in Nat
  <2>1. t * 1 <= t * C
    BY MulMonotone
  <2> QED BY <2>1
<1>2. /\ ceil \in Nat
      /\ P * ceil <= t * C + P - 1
      /\ t * C + P - 1 < P * ceil + P
  BY <1>1, DivBounds DEF CeilPpm
<1> HIDE DEF ceil
<1>3. P * ceil \in Nat
  BY <1>2
<1>4. t * C <= P * ceil
  BY <1>1, <1>2, <1>3
<1>5. ceil # 0
  BY <1>1, <1>4
<1>6. ceil < t
  <2>1. t * (2 * C) <= t * P
    BY MulMonotone
  <2>2. t * (2 * C) = 2 * (t * C)
    OBVIOUS
  <2>3. 2 * P <= t * P
    BY MulMonotone
  <2>4. t * P \in Nat /\ t * P = P * t
    OBVIOUS
  <2>5. P * ceil < P * t
    BY <1>1, <1>2, <1>3, <2>1, <2>2, <2>3, <2>4
  <2>6. ASSUME t <= ceil PROVE FALSE
    <3>1. P * t <= P * ceil
      BY <1>2, <2>6, MulMonotone
    <3> QED BY <1>3, <2>4, <2>5, <3>1
  <2> QED BY <1>2, <2>6
<1> QED BY <1>2, <1>4, <1>5, <1>6 DEF ceil

(* While Circle's rate is within the cap, its minimum for t subunits is at *)
(* most the capped allowance: the two units and roundings agree.           *)
LEMMA MinimumBelowCeiling ==
    ASSUME circle \in CircleType, NEW t \in Nat, t >= 2,
           circle.minFee <= 10 * MaxCctpFeePpm
    PROVE  /\ CalcMinFeeAmount(t) \in Nat
           /\ CalcMinFeeAmount(t) <= CeilPpm(t * MaxCctpFeePpm)
<1> DEFINE C == MaxCctpFeePpm
           P == PPM_DENOM
           m == circle.minFee
           q == (t * m) \div (10 * P)
           ceil == CeilPpm(t * C)
<1>1. m \in Nat /\ t * m \in Nat /\ 10 * P \in Nat \ {0}
  BY DEF CircleType
<1>2. ceil \in Nat /\ 1 <= ceil /\ t * C <= P * ceil
  BY CeilingRange
<1>3. q \in Nat /\ (10 * P) * q <= t * m
  BY <1>1, DivBounds
<1>4. t * m <= t * (10 * C)
  BY <1>1, MulMonotone
<1> HIDE DEF q, ceil
<1>5. (10 * P) * q = 10 * (P * q) /\ t * (10 * C) = 10 * (t * C) /\ P * q \in Nat /\ t * C \in Nat
  BY <1>3
<1>6. P * q <= t * C
  BY <1>1, <1>3, <1>4, <1>5
<1>7. P * q < P * ceil + P
  <2>1. P * ceil \in Nat
    BY <1>2
  <2> QED BY <1>2, <1>5, <1>6, <2>1
<1>8. q <= ceil
  BY <1>2, <1>3, <1>7, MulCancel
<1>9. CalcMinFeeAmount(t) = IF m = 0 THEN 0 ELSE IF q = 0 THEN 1 ELSE q
  BY DEF CalcMinFeeAmount, MIN_FEE_MULTIPLIER, q
<1> QED BY <1>1, <1>2, <1>3, <1>8, <1>9 DEF ceil

(* The allowance is a natural number below the amount, and within the      *)
(* immutable cap rounded up.                                               *)
LEMMA AllowanceRange ==
    ASSUME circle \in CircleType, NEW rate \in Nat, NEW t \in Nat \ {0}
    PROVE  /\ CctpMaxFee(t, rate) \in Nat /\ CctpMaxFee(t, rate) < t
           /\ CeilPpm(t * MaxCctpFeePpm) \in Nat
           /\ CctpMaxFee(t, rate) <= CeilPpm(t * MaxCctpFeePpm)
<1> DEFINE allowed == CeilPpm(t * Min2(rate, MaxCctpFeePpm))
           min == CctpMinFee(t)
           ceil == CeilPpm(t * MaxCctpFeePpm)
           lifted == IF min > allowed THEN min ELSE allowed
           fee == Min2(lifted, ceil)
<1>1. ASSUME NEW r \in Nat PROVE CeilPpm(t * r) \in Nat
  <2>1. t * r + PPM_DENOM - 1 \in Nat
    <3>1. t * r \in Nat
      OBVIOUS
    <3> QED BY <3>1
  <2> QED BY <2>1, DivBounds DEF CeilPpm
<1>2. Min2(rate, MaxCctpFeePpm) \in Nat
  BY DEF Min2
<1>3. allowed \in Nat /\ ceil \in Nat
  BY <1>1, <1>2
<1>4. min \in Nat
  <2>1. t * circle.minFee \in Nat /\ 10 * PPM_DENOM \in Nat \ {0}
    BY DEF CircleType
  <2>2. (t * circle.minFee) \div (10 * PPM_DENOM) \in Nat
    BY <2>1, DivBounds
  <2> QED BY <2>2 DEF CctpMinFee, CalcMinFeeAmount, MIN_FEE_MULTIPLIER
<1>5. CctpMaxFee(t, rate) = IF fee >= t THEN t - 1 ELSE fee
  BY DEF CctpMaxFee
<1> HIDE DEF allowed, min, ceil
<1>6. fee \in Nat /\ fee <= ceil
  BY <1>3, <1>4 DEF Min2
<1>7. /\ CctpMaxFee(t, rate) \in Nat /\ CctpMaxFee(t, rate) < t
      /\ CctpMaxFee(t, rate) <= ceil
  <2> HIDE DEF fee
  <2> QED BY <1>3, <1>5, <1>6
<1> QED BY <1>3, <1>7 DEF ceil

(* _cctpParams never grants an allowance that Circle rejects, whatever the *)
(* owner's rate: a burn of at least two subunits within the message limit  *)
(* is accepted while Circle's minimum fee is within the immutable cap.     *)
THEOREM AllowanceAccepted ==
    ASSUME circle \in CircleType, MinFeeWithinCap, NEW rate \in Nat,
           NEW t \in Nat, t >= 2, t <= circle.burnLimit
    PROVE  BurnAccepted(t, CctpMaxFee(t, rate))
<1> DEFINE allowed == CeilPpm(t * Min2(rate, MaxCctpFeePpm))
           min == CctpMinFee(t)
           ceil == CeilPpm(t * MaxCctpFeePpm)
           lifted == IF min > allowed THEN min ELSE allowed
           fee == Min2(lifted, ceil)
<1>1. ceil \in Nat /\ ceil < t
  BY CeilingRange
<1>2. allowed \in Nat
  <2>1. t * Min2(rate, MaxCctpFeePpm) + PPM_DENOM - 1 \in Nat
    <3>1. Min2(rate, MaxCctpFeePpm) \in Nat
      BY DEF Min2
    <3>2. t * Min2(rate, MaxCctpFeePpm) \in Nat
      BY <3>1
    <3> QED BY <3>2
  <2> QED BY <2>1, DivBounds DEF CeilPpm
<1>3. CctpMaxFee(t, rate) = IF fee >= t THEN t - 1 ELSE fee
  BY DEF CctpMaxFee
<1>4. CASE circle.legacy
  <2>1. min = 0
    BY <1>4 DEF CctpMinFee, GetMinFeeAnswers
  <2> HIDE DEF allowed, min, ceil
  <2>2. fee \in Nat /\ fee <= ceil
    BY <1>1, <1>2, <2>1 DEF Min2
  <2>3. CctpMaxFee(t, rate) < t
    BY <1>1, <1>3, <2>2
  <2> QED BY <1>4, <2>3 DEF BurnAccepted
<1>5. CASE ~circle.legacy
  <2>1. min = CalcMinFeeAmount(t)
    BY <1>5 DEF CctpMinFee, GetMinFeeAnswers
  <2>2. CalcMinFeeAmount(t) \in Nat /\ CalcMinFeeAmount(t) <= ceil
    BY <1>5, MinimumBelowCeiling DEF MinFeeWithinCap
  <2> HIDE DEF allowed, min, ceil
  <2>3. fee \in Nat /\ fee <= ceil /\ fee >= CalcMinFeeAmount(t)
    BY <1>1, <1>2, <2>1, <2>2 DEF Min2
  <2>4. CctpMaxFee(t, rate) = fee
    BY <1>1, <1>3, <2>3
  <2> QED BY <1>1, <2>3, <2>4 DEF BurnAccepted
<1> QED BY <1>4, <1>5
=============================================================================

----------------------- MODULE DepositForwarder_proofs -----------------------
(***************************************************************************)
(* Safety of the deposit clones for any set of clones, any caps, any       *)
(* behaviour of the owner, of Circle and of the callers.                   *)
(***************************************************************************)
EXTENDS DepositForwarder, Config_proofs, TLAPS

USE PpmAssumption, CircleInputsAssumption, CctpCapAssumption,
    CapsAssumption, ConfigAssumption, ForwarderAssumption

-----------------------------------------------------------------------------
(* The parts of the inductive invariant that the properties do not state.  *)

(* An armed window was armed on a wired chain, its deadline lies between   *)
(* the two delays after that, and what was settled in all plus the budget  *)
(* left is what the address had received when it was armed.                *)
WindowHistory ==
    \A c \in Clones : sweepableAt[c] # 0 =>
        /\ config.initialized
        /\ armedAt[c] + MinSweepDelay <= sweepableAt[c]
        /\ sweepableAt[c] <= armedAt[c] + MaxSweepDelay
        /\ armedReceived[c] = sweepCap[c] + Burned(c) + fees[c]

Inv == TypeOK /\ ArmedWindowBurnable /\ PrincipalConserved /\ WindowHistory

-----------------------------------------------------------------------------
(* The fees are natural numbers.                                           *)
LEMMA FeeType ==
    ASSUME TypeOK, NEW c \in Clones, NEW amount \in Nat, NEW charge \in BOOLEAN
    PROVE  FeeOf(c, amount, charge) \in Nat
<1>1. /\ config.setupFee \in Nat /\ config.baseFee \in Nat /\ config.feePpm \in Nat
  BY DEF TypeOK, ConfigType
<1>2. SetupFee(c) \in Nat
  BY <1>1 DEF SetupFee, Min2
<1> DEFINE rate == Min2(config.feePpm, MaxFeePpm)
<1>3. rate \in Nat
  BY <1>1 DEF Min2
<1> HIDE DEF rate
<1>4. amount * rate \in Nat
  BY <1>3
<1>5. (amount * rate) \div PPM_DENOM \in Nat
  BY <1>4
<1>6. PerSettleFee(amount) \in Nat
  BY <1>1, <1>5 DEF PerSettleFee, Min2, rate
<1> QED BY <1>2, <1>6 DEF FeeOf, TotalFee

(* What a settlement does to the ledger: `amount` leaves the clone, less   *)
(* than all of it as a fee, and the fee reaches no balance but that of     *)
(* another holder, where it counts as received.                            *)
LEMMA SettleEffect ==
    ASSUME TypeOK, NEW c \in Clones, NEW amount \in Nat, NEW charge \in BOOLEAN,
           Settle(c, amount, charge)
    PROVE  /\ 0 < amount /\ amount <= usdc[c]
           /\ usdc' \in [Holders -> Nat] /\ usdc'[c] = usdc[c] - amount
           /\ received' \in [Clones -> Nat] /\ received'[c] = received[c]
           /\ \A d \in Clones \ {c} :
                 received'[d] - received[d] = usdc'[d] - usdc[d] /\ usdc'[d] >= usdc[d]
           /\ setupFeePaid' \in [Clones -> BOOLEAN]
           /\ flushes' \in [Clones -> Nat]
           /\ burned' \in [Clones -> [Finality -> Nat]] /\ fees' \in [Clones -> Nat]
           /\ Burned(c)' + fees'[c] = Burned(c) + fees[c] + amount
           /\ \A d \in Clones \ {c} : Burned(d)' = Burned(d) /\ fees'[d] = fees[d]
<1> DEFINE fee == FeeOf(c, amount, charge)
           finality == IF UseFast(c, charge) THEN FINALITY_FAST ELSE FINALITY_STANDARD
           paid(a) == IF a = config.feeCollector THEN fee ELSE 0
<1>1. fee \in Nat
  BY FeeType
<1>2. 0 < amount /\ amount <= usdc[c] /\ fee < amount
  <2>1. CanSettle(c, amount, charge)
    BY DEF Settle
  <2>2. CASE charge
    BY <2>1, <2>2 DEF CanSettle, CanCollectFees, FeeOf
  <2>3. CASE ~charge
    BY <2>1, <2>3 DEF CanSettle, FeeOf
  <2> QED BY <2>2, <2>3
<1>3. config.feeCollector = c => fee = 0
  <2>1. CanSettle(c, amount, charge)
    BY DEF Settle
  <2>2. CASE charge
    BY <1>1, <2>1, <2>2 DEF CanSettle, CanCollectFees, FeeOf
  <2>3. CASE ~charge
    BY <2>1, <2>3 DEF CanSettle, FeeOf
  <2> QED BY <2>2, <2>3
<1>4. /\ usdc' = [a \in Holders |-> (IF a = c THEN usdc[a] - amount ELSE usdc[a]) + paid(a)]
      /\ received' = [d \in Clones |-> received[d] + paid(d)]
      /\ burned' = [burned EXCEPT ![c][finality] = @ + (amount - fee)]
      /\ fees' = [fees EXCEPT ![c] = @ + fee]
      /\ setupFeePaid' = [setupFeePaid EXCEPT ![c] = @ \/ charge]
      /\ flushes' = IF charge THEN [flushes EXCEPT ![c] = @ + 1] ELSE flushes
  BY DEF Settle
<1>5. finality \in Finality
  BY DEF Finality
<1> HIDE DEF fee, finality
<1>6. /\ usdc' \in [Holders -> Nat] /\ usdc'[c] = usdc[c] - amount
      /\ received' \in [Clones -> Nat] /\ received'[c] = received[c]
      /\ \A d \in Clones \ {c} :
            received'[d] - received[d] = usdc'[d] - usdc[d] /\ usdc'[d] >= usdc[d]
  BY <1>1, <1>2, <1>3, <1>4 DEF TypeOK, Holders
<1>7. burned' \in [Clones -> [Finality -> Nat]] /\ fees' \in [Clones -> Nat]
  BY <1>1, <1>2, <1>4, <1>5 DEF TypeOK
<1>8. Burned(c)' + fees'[c] = Burned(c) + fees[c] + amount
  BY <1>1, <1>2, <1>4, <1>5 DEF TypeOK, Burned, Finality, FINALITY_STANDARD, FINALITY_FAST
<1>9. \A d \in Clones \ {c} : Burned(d)' = Burned(d) /\ fees'[d] = fees[d]
  BY <1>4 DEF TypeOK, Burned
<1>10. flushes' \in [Clones -> Nat]
  BY <1>4 DEF TypeOK
<1>11. setupFeePaid' \in [Clones -> BOOLEAN]
  BY <1>4, Zenon DEF TypeOK
<1> QED BY <1>2, <1>6, <1>7, <1>8, <1>9, <1>10, <1>11

(* What a settlement does to the windows: only c's, and that one is left   *)
(* alone if not armed, closed, or kept with its budget drawn down.         *)
LEMMA DrawDownEffect ==
    ASSUME TypeOK, NEW c \in Clones, NEW amount \in Nat, DrawDown(c, amount)
    PROVE  /\ sweepableAt' \in [Clones -> Nat] /\ sweepCap' \in [Clones -> Nat]
           /\ armedAt' \in [Clones -> Nat] /\ armedReceived' \in [Clones -> Nat]
           /\ \A d \in Clones \ {c} :
                 /\ sweepableAt'[d] = sweepableAt[d] /\ sweepCap'[d] = sweepCap[d]
                 /\ armedAt'[d] = armedAt[d] /\ armedReceived'[d] = armedReceived[d]
           /\ \/ sweepableAt[c] = 0 /\ UNCHANGED windowVars
              \/ /\ sweepableAt[c] # 0 /\ sweepableAt'[c] = 0 /\ sweepCap'[c] = 0
                 /\ usdc'[c] = 0 \/ sweepCap[c] < amount + MIN_SWEEP_AMOUNT
              \/ /\ sweepableAt[c] # 0 /\ sweepableAt'[c] = sweepableAt[c]
                 /\ sweepCap'[c] = sweepCap[c] - amount /\ sweepCap'[c] >= MIN_SWEEP_AMOUNT
                 /\ armedAt'[c] = armedAt[c] /\ armedReceived'[c] = armedReceived[c]
<1> DEFINE remaining == IF sweepCap[c] > amount THEN sweepCap[c] - amount ELSE 0
           closes == remaining < MIN_SWEEP_AMOUNT \/ usdc'[c] = 0
<1>1. CASE sweepableAt[c] = 0 /\ UNCHANGED windowVars
  BY <1>1 DEF windowVars, TypeOK
<1>2. CASE /\ sweepableAt[c] # 0 /\ closes
           /\ sweepableAt' = [sweepableAt EXCEPT ![c] = 0]
           /\ sweepCap' = [sweepCap EXCEPT ![c] = 0]
           /\ armedAt' = [armedAt EXCEPT ![c] = 0]
           /\ armedReceived' = [armedReceived EXCEPT ![c] = 0]
  BY <1>2 DEF TypeOK
<1>3. CASE /\ sweepableAt[c] # 0 /\ ~closes
           /\ sweepCap' = [sweepCap EXCEPT ![c] = remaining]
           /\ UNCHANGED <<sweepableAt, armedAt, armedReceived>>
  BY <1>3 DEF TypeOK
<1> QED BY <1>1, <1>2, <1>3 DEF DrawDown

(* What a settlement charges: nothing without fees; with them at most the  *)
(* setup fee if it was never paid, one base fee and the proportional fee,  *)
(* each at its cap.  Only the settling clone's counters move, and no       *)
(* other clone gains more than the fee.                                    *)
SetupDue(c) == IF setupFeePaid[c] THEN 0 ELSE MaxSetupFee
RateFee(amount) == (amount * MaxFeePpm) \div PPM_DENOM

LEMMA RateFeeType ==
    ASSUME NEW amount \in Nat
    PROVE  RateFee(amount) \in Nat
<1>1. amount * MaxFeePpm \in Nat
  OBVIOUS
<1> QED BY <1>1, DivBounds DEF RateFee

LEMMA FeeBound ==
    ASSUME TypeOK, NEW c \in Clones, NEW amount \in Nat
    PROVE  TotalFee(c, amount) <= SetupDue(c) + MaxBaseFee + RateFee(amount)
<1> DEFINE rate == Min2(config.feePpm, MaxFeePpm)
<1>1. /\ config.setupFee \in Nat /\ config.baseFee \in Nat /\ config.feePpm \in Nat
  BY DEF TypeOK, ConfigType
<1>2. rate \in Nat /\ rate <= MaxFeePpm
  BY <1>1 DEF Min2
<1> HIDE DEF rate
<1>3. amount * rate <= amount * MaxFeePpm /\ amount * rate \in Nat /\ amount * MaxFeePpm \in Nat
  BY <1>2, MulMonotone
<1>4. /\ (amount * rate) \div PPM_DENOM <= RateFee(amount)
      /\ (amount * rate) \div PPM_DENOM \in Nat
  BY <1>3, DivMonotone, DivBounds DEF RateFee
<1>5. PerSettleFee(amount) = Min2(config.baseFee, MaxBaseFee) + (amount * rate) \div PPM_DENOM
  BY DEF PerSettleFee, rate
<1>6. Min2(config.baseFee, MaxBaseFee) \in Nat /\ Min2(config.baseFee, MaxBaseFee) <= MaxBaseFee
  BY <1>1 DEF Min2
<1>7. SetupFee(c) \in Nat /\ SetupDue(c) \in Nat /\ SetupFee(c) <= SetupDue(c)
  BY <1>1 DEF SetupFee, SetupDue, Min2
<1> QED BY <1>4, <1>5, <1>6, <1>7, RateFeeType DEF TotalFee

LEMMA SettleFee ==
    ASSUME TypeOK, NEW c \in Clones, NEW amount \in Nat, NEW charge \in BOOLEAN,
           Settle(c, amount, charge)
    PROVE  /\ fees'[c] - fees[c] \in Nat /\ fees'[c] - fees[c] < amount
           /\ charge => fees'[c] - fees[c] <= SetupDue(c) + MaxBaseFee + RateFee(amount)
           /\ ~charge => fees'[c] = fees[c]
           /\ setupFeePaid'[c] = (setupFeePaid[c] \/ charge)
           /\ flushes'[c] = flushes[c] + (IF charge THEN 1 ELSE 0)
           /\ \A d \in Clones \ {c} :
                 /\ setupFeePaid'[d] = setupFeePaid[d] /\ flushes'[d] = flushes[d]
                 /\ usdc'[d] <= usdc[d] + (fees'[c] - fees[c])
<1> DEFINE fee == FeeOf(c, amount, charge)
<1>1. fee \in Nat
  BY FeeType
<1>2. fee < amount
  <2>1. CanSettle(c, amount, charge)
    BY DEF Settle
  <2>2. CASE charge
    BY <2>1, <2>2 DEF CanSettle, CanCollectFees, FeeOf
  <2>3. CASE ~charge
    BY <2>1, <2>3 DEF CanSettle, FeeOf
  <2> QED BY <2>2, <2>3
<1>3. charge => fee <= SetupDue(c) + MaxBaseFee + RateFee(amount)
  BY FeeBound DEF FeeOf
<1>4. ~charge => fee = 0
  BY DEF FeeOf
<1> HIDE DEF fee
<1>5. /\ fees' = [fees EXCEPT ![c] = @ + fee]
      /\ setupFeePaid' = [setupFeePaid EXCEPT ![c] = @ \/ charge]
      /\ flushes' = IF charge THEN [flushes EXCEPT ![c] = @ + 1] ELSE flushes
  BY DEF Settle, fee
<1>6. fees'[c] = fees[c] + fee /\ fees[c] \in Nat
  BY <1>5 DEF TypeOK
<1>7. /\ setupFeePaid'[c] = (setupFeePaid[c] \/ charge)
      /\ \A d \in Clones \ {c} : setupFeePaid'[d] = setupFeePaid[d]
  BY <1>5, Zenon DEF TypeOK
<1>8. /\ flushes'[c] = flushes[c] + (IF charge THEN 1 ELSE 0)
      /\ \A d \in Clones \ {c} : flushes'[d] = flushes[d]
  BY <1>5 DEF TypeOK
<1>9. \A d \in Clones \ {c} : usdc'[d] <= usdc[d] + fee
  <2>1. usdc' = [a \in Holders |-> (IF a = c THEN usdc[a] - amount ELSE usdc[a])
                                     + (IF a = config.feeCollector THEN fee ELSE 0)]
    BY DEF Settle, fee
  <2> QED BY <1>1, <2>1 DEF TypeOK, Holders
<1> QED BY <1>1, <1>2, <1>3, <1>4, <1>6, <1>7, <1>8, <1>9

-----------------------------------------------------------------------------
(* The amounts that flush and sweep settle.                                *)
LEMMA AmountsSettled ==
    ASSUME TypeOK, NEW c \in Clones
    PROVE  /\ Min2(usdc[c], circle.burnLimit) \in Nat
           /\ SweepAmount(c) \in Nat /\ SweepAmount(c) <= sweepCap[c]
BY DEF TypeOK, CircleType, Holders, Min2, SweepAmount

(* The types are inductive by themselves.                                  *)
LEMMA SettlementType ==
    ASSUME TypeOK, NEW c \in Clones, NEW amount \in Nat, NEW charge \in BOOLEAN,
           Settle(c, amount, charge), DrawDown(c, amount),
           UNCHANGED <<circle, config, now, deposited>>
    PROVE  TypeOK'
<1>1. /\ usdc' \in [Holders -> Nat] /\ received' \in [Clones -> Nat]
      /\ setupFeePaid' \in [Clones -> BOOLEAN] /\ flushes' \in [Clones -> Nat]
      /\ burned' \in [Clones -> [Finality -> Nat]] /\ fees' \in [Clones -> Nat]
  BY SettleEffect
<1>2. /\ sweepableAt' \in [Clones -> Nat] /\ sweepCap' \in [Clones -> Nat]
      /\ armedAt' \in [Clones -> Nat] /\ armedReceived' \in [Clones -> Nat]
  BY DrawDownEffect
<1> QED BY <1>1, <1>2 DEF TypeOK

LEMMA TypeNext == TypeOK /\ [Next]_vars => TypeOK'
<1> SUFFICES ASSUME TypeOK, [Next]_vars PROVE TypeOK'
  OBVIOUS
<1>1. ASSUME NEW c \in Clones, NEW s, flush(s, c) PROVE TypeOK'
  BY <1>1, AmountsSettled, SettlementType DEF flush
<1>2. ASSUME NEW c \in Clones, requestSweep(c) PROVE TypeOK'
  <2>1. /\ usdc[c] \in Nat /\ now \in Nat \ {0} /\ config.sweepDelay \in MinSweepDelay..MaxSweepDelay
        /\ received[c] \in Nat
    BY DEF TypeOK, Holders, ConfigType
  <2>2. Min2(config.sweepDelay, MaxSweepDelay) \in MinSweepDelay..MaxSweepDelay
    BY <2>1 DEF Min2
  <2> QED BY <1>2, <2>1, <2>2 DEF requestSweep, TypeOK, ledgerVars
<1>3. ASSUME NEW c \in Clones, sweep(c) PROVE TypeOK'
  BY <1>3, AmountsSettled, SettlementType DEF sweep
<1>4. ASSUME NEW s, NEW a \in Holders, rescueERC20(s, a) PROVE TypeOK'
  BY <1>4 DEF rescueERC20, RescueOpen, MayRescueUSDC, TypeOK, windowVars, Holders
<1>5. ASSUME NEW a \in Holders, NEW v \in 1..MaxDeposited, Deposit(a, v) PROVE TypeOK'
  BY <1>5 DEF Deposit, TypeOK, windowVars, Holders
<1>6. CASE Tick
  BY <1>6 DEF Tick, TypeOK, windowVars, ledgerVars
<1>7. CASE CircleNext /\ UNCHANGED <<config, fwdVars>>
  <2>1. circle' \in CircleType
    BY <1>7, CircleStep DEF TypeOK
  <2> QED BY <1>7, <2>1 DEF TypeOK, fwdVars, windowVars, ledgerVars
<1>8. CASE ConfigNext /\ UNCHANGED <<circle, fwdVars>>
  <2>1. config' \in ConfigType
    BY <1>8, ConfigStep DEF TypeOK
  <2> QED BY <1>8, <2>1 DEF TypeOK, fwdVars, windowVars, ledgerVars
<1>9. CASE UNCHANGED vars
  BY <1>9 DEF TypeOK, vars, fwdVars, windowVars, ledgerVars
<1> QED BY <1>1, <1>2, <1>3, <1>4, <1>5, <1>6, <1>7, <1>8, <1>9 DEF Next, CloneCall, Environment

-----------------------------------------------------------------------------
LEMMA InitInv == Init => Inv
<1> SUFFICES ASSUME Init PROVE Inv
  OBVIOUS
<1>1. circle \in CircleType
  BY DEF Init, CircleInit, CircleType
<1>2. config \in ConfigType
  BY DEF Init, ConfigInit, ConfigType
<1>3. TypeOK
  BY <1>1, <1>2 DEF Init, TypeOK, Holders
<1>4. ArmedWindowBurnable /\ WindowHistory
  BY DEF Init, ArmedWindowBurnable, WindowHistory
<1>5. PrincipalConserved
  BY DEF Init, PrincipalConserved, Burned, Finality, Holders
<1> QED BY <1>3, <1>4, <1>5 DEF Inv

(* A settlement followed by the draw-down, the common core of flush and    *)
(* sweep, keeps the invariant.                                             *)
LEMMA SettlementInv ==
    ASSUME Inv, NEW c \in Clones, NEW amount \in Nat, NEW charge \in BOOLEAN,
           Settle(c, amount, charge), DrawDown(c, amount),
           UNCHANGED <<circle, config, now, deposited>>
    PROVE  Inv'
<1>1. TypeOK
  BY DEF Inv
<1>2. /\ 0 < amount /\ amount <= usdc[c]
      /\ usdc' \in [Holders -> Nat] /\ usdc'[c] = usdc[c] - amount
      /\ received' \in [Clones -> Nat] /\ received'[c] = received[c]
      /\ \A d \in Clones \ {c} :
            received'[d] - received[d] = usdc'[d] - usdc[d] /\ usdc'[d] >= usdc[d]
      /\ setupFeePaid' \in [Clones -> BOOLEAN] /\ flushes' \in [Clones -> Nat]
      /\ burned' \in [Clones -> [Finality -> Nat]] /\ fees' \in [Clones -> Nat]
      /\ Burned(c)' + fees'[c] = Burned(c) + fees[c] + amount
      /\ \A d \in Clones \ {c} : Burned(d)' = Burned(d) /\ fees'[d] = fees[d]
  BY <1>1, SettleEffect
<1>3. /\ sweepableAt' \in [Clones -> Nat] /\ sweepCap' \in [Clones -> Nat]
      /\ armedAt' \in [Clones -> Nat] /\ armedReceived' \in [Clones -> Nat]
      /\ \A d \in Clones \ {c} :
            /\ sweepableAt'[d] = sweepableAt[d] /\ sweepCap'[d] = sweepCap[d]
            /\ armedAt'[d] = armedAt[d] /\ armedReceived'[d] = armedReceived[d]
      /\ \/ sweepableAt[c] = 0 /\ UNCHANGED windowVars
         \/ /\ sweepableAt[c] # 0 /\ sweepableAt'[c] = 0 /\ sweepCap'[c] = 0
            /\ usdc'[c] = 0 \/ sweepCap[c] < amount + MIN_SWEEP_AMOUNT
         \/ /\ sweepableAt[c] # 0 /\ sweepableAt'[c] = sweepableAt[c]
            /\ sweepCap'[c] = sweepCap[c] - amount /\ sweepCap'[c] >= MIN_SWEEP_AMOUNT
            /\ armedAt'[c] = armedAt[c] /\ armedReceived'[c] = armedReceived[c]
  BY <1>1, DrawDownEffect
<1>4. TypeOK'
  BY <1>1, SettlementType
<1>5. \A d \in Clones : /\ usdc[d] \in Nat /\ sweepCap[d] \in Nat
                         /\ fees[d] \in Nat /\ received[d] \in Nat /\ armedAt[d] \in Nat
                         /\ usdc'[d] \in Nat /\ fees'[d] \in Nat /\ received'[d] \in Nat
  BY <1>1, <1>4 DEF TypeOK, Holders
<1>6. ArmedWindowBurnable'
  <2>1. ASSUME NEW d \in Clones
        PROVE  IF sweepableAt'[d] = 0 THEN sweepCap'[d] = 0
               ELSE MIN_SWEEP_AMOUNT <= sweepCap'[d] /\ sweepCap'[d] <= usdc'[d]
    <3>1. CASE d = c
      BY <1>2, <1>3, <1>5, <3>1 DEF Inv, ArmedWindowBurnable, windowVars
    <3>2. CASE d # c
      BY <1>2, <1>3, <1>5, <3>2 DEF Inv, ArmedWindowBurnable
    <3> QED BY <3>1, <3>2
  <2> QED BY <2>1 DEF ArmedWindowBurnable
<1>7. ASSUME NEW d \in Clones
      PROVE  /\ Burned(d) \in Nat /\ Burned(d)' \in Nat
             /\ Burned(d)' + fees'[d] = Burned(d) + fees[d] + (IF d = c THEN amount ELSE 0)
             /\ received'[d] = received[d] + usdc'[d] - usdc[d] + (IF d = c THEN amount ELSE 0)
  <2>1. Burned(d) \in Nat /\ Burned(d)' \in Nat
    BY <1>1, <1>4 DEF TypeOK, Burned, Finality
  <2>2. CASE d = c
    <3>1. Burned(d)' + fees'[d] = Burned(d) + fees[d] + amount
      BY <1>2, <2>2 DEF Burned
    <3> QED BY <1>2, <1>5, <2>1, <2>2, <3>1
  <2>3. CASE d # c
    <3>1. Burned(d)' = Burned(d)
      BY <1>2, <2>3 DEF Burned
    <3> QED BY <1>2, <1>5, <2>1, <2>3, <3>1
  <2> QED BY <2>2, <2>3, <2>1
<1>8. PrincipalConserved'
  <2>1. ASSUME NEW d \in Clones
        PROVE  received'[d] = usdc'[d] + Burned(d)' + fees'[d]
    <3>1. received[d] = usdc[d] + Burned(d) + fees[d]
      BY DEF Inv, PrincipalConserved
    <3>2. /\ Burned(d) \in Nat /\ Burned(d)' \in Nat
          /\ Burned(d)' + fees'[d] = Burned(d) + fees[d] + (IF d = c THEN amount ELSE 0)
          /\ received'[d] = received[d] + usdc'[d] - usdc[d] + (IF d = c THEN amount ELSE 0)
      BY <1>7
    <3> QED BY <1>5, <3>1, <3>2
  <2> QED BY <2>1 DEF PrincipalConserved
<1>9. WindowHistory'
  <2>1. ASSUME NEW d \in Clones, sweepableAt'[d] # 0
        PROVE  /\ config'.initialized
               /\ armedAt'[d] + MinSweepDelay <= sweepableAt'[d]
               /\ sweepableAt'[d] <= armedAt'[d] + MaxSweepDelay
               /\ armedReceived'[d] = sweepCap'[d] + Burned(d)' + fees'[d]
    <3>1. /\ sweepableAt[d] # 0 /\ sweepableAt'[d] = sweepableAt[d]
          /\ sweepCap'[d] = sweepCap[d] - (IF d = c THEN amount ELSE 0)
          /\ armedAt'[d] = armedAt[d] /\ armedReceived'[d] = armedReceived[d]
      BY <1>3, <1>5, <2>1 DEF windowVars
    <3>2. /\ config.initialized
          /\ armedAt[d] + MinSweepDelay <= sweepableAt[d]
          /\ sweepableAt[d] <= armedAt[d] + MaxSweepDelay
          /\ armedReceived[d] = sweepCap[d] + Burned(d) + fees[d]
      BY <3>1 DEF Inv, WindowHistory
    <3>3. /\ Burned(d) \in Nat /\ Burned(d)' \in Nat
          /\ Burned(d)' + fees'[d] = Burned(d) + fees[d] + (IF d = c THEN amount ELSE 0)
      BY <1>7
    <3> QED BY <1>5, <3>1, <3>2, <3>3
  <2> QED BY <2>1 DEF WindowHistory
<1> QED BY <1>4, <1>6, <1>8, <1>9 DEF Inv

(* A step that leaves windows and settlement history alone, lowers no      *)
(* clone's balance and records every increase as received keeps the        *)
(* invariant: deposits, rescues, the clock, Config and Circle.             *)
LEMMA CreditInv ==
    ASSUME Inv, TypeOK',
           config.initialized => config'.initialized,
           UNCHANGED <<windowVars, burned, fees>>,
           \A d \in Clones : usdc'[d] >= usdc[d] /\ received'[d] - received[d] = usdc'[d] - usdc[d]
    PROVE  Inv'
<1>1. ASSUME NEW d \in Clones
      PROVE  /\ usdc[d] \in Nat /\ usdc'[d] \in Nat /\ received[d] \in Nat /\ received'[d] \in Nat
             /\ fees[d] \in Nat /\ Burned(d) \in Nat /\ Burned(d)' = Burned(d) /\ sweepCap[d] \in Nat
  BY DEF Inv, TypeOK, Holders, Burned, Finality
<1>2. ArmedWindowBurnable'
  BY <1>1 DEF Inv, ArmedWindowBurnable, windowVars
<1>3. PrincipalConserved'
  <2>1. ASSUME NEW d \in Clones
        PROVE  received'[d] = usdc'[d] + Burned(d)' + fees'[d]
    <3>1. /\ usdc[d] \in Nat /\ usdc'[d] \in Nat /\ received[d] \in Nat /\ received'[d] \in Nat
          /\ fees[d] \in Nat /\ Burned(d) \in Nat /\ Burned(d)' = Burned(d)
      BY <1>1
    <3>2. received[d] = usdc[d] + Burned(d) + fees[d]
      BY DEF Inv, PrincipalConserved
    <3> QED BY <3>1, <3>2
  <2> QED BY <2>1 DEF PrincipalConserved
<1>4. WindowHistory'
  BY DEF Inv, WindowHistory, windowVars, Burned
<1> QED BY <1>2, <1>3, <1>4 DEF Inv

LEMMA NextInv == Inv /\ [Next]_vars => Inv'
<1> SUFFICES ASSUME Inv, [Next]_vars PROVE Inv'
  OBVIOUS
<1>0. TypeOK /\ TypeOK'
  BY TypeNext DEF Inv
<1>1. ASSUME NEW c \in Clones, NEW s, flush(s, c) PROVE Inv'
  BY <1>0, <1>1, AmountsSettled, SettlementInv DEF flush
<1>2. ASSUME NEW c \in Clones, requestSweep(c) PROVE Inv'
  <2>1. /\ usdc[c] \in Nat /\ now \in Nat \ {0} /\ config.sweepDelay \in MinSweepDelay..MaxSweepDelay
        /\ received[c] \in Nat
    BY <1>0 DEF TypeOK, Holders, ConfigType
  <2>2. Min2(config.sweepDelay, MaxSweepDelay) \in MinSweepDelay..MaxSweepDelay
    BY <2>1 DEF Min2
  <2>4. ArmedWindowBurnable'
    BY <1>0, <1>2, <2>1, <2>2 DEF requestSweep, TypeOK, ledgerVars, Inv, ArmedWindowBurnable
  <2>5. PrincipalConserved'
    BY <1>2 DEF requestSweep, ledgerVars, Inv, PrincipalConserved, Burned
  <2>6. WindowHistory'
    <3>1. ASSUME NEW d \in Clones, sweepableAt'[d] # 0
          PROVE  /\ config'.initialized
                 /\ armedAt'[d] + MinSweepDelay <= sweepableAt'[d]
                 /\ sweepableAt'[d] <= armedAt'[d] + MaxSweepDelay
                 /\ armedReceived'[d] = sweepCap'[d] + Burned(d)' + fees'[d]
      <4>1. CASE d = c
        <5>1. received[c] = usdc[c] + Burned(c) + fees[c]
          BY DEF Inv, PrincipalConserved
        <5>2. Burned(c)' = Burned(c) /\ fees' = fees
          BY <1>2 DEF requestSweep, ledgerVars, Burned
        <5>3. Burned(d)' = Burned(c)
          BY <4>1, <5>2
        <5>4. /\ config'.initialized /\ sweepCap'[d] = usdc[c] /\ armedAt'[d] = now
              /\ armedReceived'[d] = received[c]
              /\ sweepableAt'[d] = now + Min2(config.sweepDelay, MaxSweepDelay)
          BY <1>0, <1>2, <4>1 DEF requestSweep, TypeOK
        <5> QED BY <2>1, <2>2, <4>1, <5>1, <5>2, <5>3, <5>4
      <4>2. CASE d # c
        <5>1. /\ sweepableAt'[d] = sweepableAt[d] /\ sweepCap'[d] = sweepCap[d]
              /\ armedAt'[d] = armedAt[d] /\ armedReceived'[d] = armedReceived[d]
              /\ Burned(d)' = Burned(d) /\ fees' = fees /\ config' = config
          BY <1>0, <1>2, <4>2 DEF requestSweep, ledgerVars, Burned, TypeOK
        <5> QED BY <3>1, <5>1 DEF Inv, WindowHistory
      <4> QED BY <4>1, <4>2
    <3> QED BY <3>1 DEF WindowHistory
  <2> QED BY <1>0, <2>4, <2>5, <2>6 DEF Inv
<1>3. ASSUME NEW c \in Clones, sweep(c) PROVE Inv'
  BY <1>0, <1>3, AmountsSettled, SettlementInv DEF sweep
<1>4. ASSUME NEW s, NEW a \in Holders, rescueERC20(s, a) PROVE Inv'
  <2>1. a = Implementation
    BY <1>4 DEF rescueERC20, RescueOpen, MayRescueUSDC
  <2>2. \A d \in Clones : usdc'[d] >= usdc[d] /\ received'[d] - received[d] = usdc'[d] - usdc[d]
    BY <1>0, <1>4, <2>1 DEF rescueERC20, TypeOK, Holders
  <2> QED BY <1>0, <1>4, <2>2, CreditInv DEF rescueERC20
<1>5. ASSUME NEW a \in Holders, NEW v \in 1..MaxDeposited, Deposit(a, v) PROVE Inv'
  <2>1. \A d \in Clones : usdc'[d] >= usdc[d] /\ received'[d] - received[d] = usdc'[d] - usdc[d]
    BY <1>0, <1>5 DEF Deposit, TypeOK, Holders
  <2> QED BY <1>0, <1>5, <2>1, CreditInv DEF Deposit
<1>6. CASE Tick
  <2>1. \A d \in Clones : usdc'[d] >= usdc[d] /\ received'[d] - received[d] = usdc'[d] - usdc[d]
    BY <1>0, <1>6 DEF Tick, TypeOK, ledgerVars, Holders
  <2> QED BY <1>0, <1>6, <2>1, CreditInv DEF Tick, ledgerVars
<1>7. CASE CircleNext /\ UNCHANGED <<config, fwdVars>>
  <2>1. \A d \in Clones : usdc'[d] >= usdc[d] /\ received'[d] - received[d] = usdc'[d] - usdc[d]
    BY <1>0, <1>7 DEF TypeOK, fwdVars, ledgerVars, Holders
  <2> QED BY <1>0, <1>7, <2>1, CreditInv DEF fwdVars, ledgerVars
<1>8. CASE ConfigNext /\ UNCHANGED <<circle, fwdVars>>
  <2>1. config.initialized => config'.initialized
    BY <1>0, <1>8, ConfigStep DEF TypeOK
  <2>2. \A d \in Clones : usdc'[d] >= usdc[d] /\ received'[d] - received[d] = usdc'[d] - usdc[d]
    BY <1>0, <1>8 DEF TypeOK, fwdVars, ledgerVars, Holders
  <2> QED BY <1>0, <1>8, <2>1, <2>2, CreditInv DEF fwdVars, ledgerVars
<1>9. CASE UNCHANGED vars
  <2>1. \A d \in Clones : usdc'[d] >= usdc[d] /\ received'[d] - received[d] = usdc'[d] - usdc[d]
    BY <1>0, <1>9 DEF TypeOK, vars, fwdVars, ledgerVars, Holders
  <2> QED BY <1>0, <1>9, <2>1, CreditInv DEF vars, fwdVars, ledgerVars
<1> QED BY <1>1, <1>2, <1>3, <1>4, <1>5, <1>6, <1>7, <1>8, <1>9 DEF Next, CloneCall, Environment

(* The inductive invariant holds throughout.                               *)
THEOREM Invariant == Spec => []Inv
<1> QED BY InitInv, NextInv, PTL DEF Spec

(* Types: in particular every configured fee, rate and delay stays within  *)
(* its cap (Config's setters), and no budget or balance goes negative.     *)
THEOREM TypeCorrect == Spec => []TypeOK
<1>1. Inv => TypeOK
  BY DEF Inv
<1> QED BY <1>1, Invariant, PTL

(* Every armed window of DepositForwarder has a burnable budget backed by  *)
(* the balance, and a closed one none.                                     *)
THEOREM WindowSafe == Spec => []ArmedWindowBurnable
<1>1. Inv => ArmedWindowBurnable
  BY DEF Inv
<1> QED BY <1>1, Invariant, PTL

(* flush, sweep and the rescues lose no principal: all that a deposit      *)
(* address received is there, burned to its recipient or charged as a fee. *)
THEOREM Conservation == Spec => []PrincipalConserved
<1>1. Inv => PrincipalConserved
  BY DEF Inv
<1> QED BY <1>1, Invariant, PTL

-----------------------------------------------------------------------------
LEMMA SweepableFromInv == Inv => OpenWindowSweepable
<1> SUFFICES ASSUME Inv, CircleServes, NEW c \in Clones, Mature(c) PROVE CanSweep(c)
  BY DEF OpenWindowSweepable
<1> DEFINE amount == SweepAmount(c)
<1>1. /\ circle \in CircleType /\ usdc[c] \in Nat /\ sweepCap[c] \in Nat
      /\ circle.burnLimit \in Nat /\ config.cctpStandardMaxFeePpm \in Nat
  BY DEF Inv, TypeOK, CircleType, ConfigType, Holders
<1>2. 2 <= sweepCap[c] /\ sweepCap[c] <= usdc[c] /\ config.initialized
  BY DEF Inv, ArmedWindowBurnable, WindowHistory, Mature
<1>3. amount \in Nat /\ amount >= 2 /\ amount <= usdc[c] /\ amount <= circle.burnLimit
  BY <1>1, <1>2 DEF SweepAmount, Min2, CircleServes
<1> HIDE DEF amount
<1>4. amount - FeeOf(c, amount, FALSE) = amount
  BY <1>3 DEF FeeOf
<1>5. CctpRate(UseFast(c, FALSE)) = config.cctpStandardMaxFeePpm
  BY DEF CctpRate, UseFast
<1>6. BurnAccepted(amount, CctpMaxFee(amount, config.cctpStandardMaxFeePpm))
  BY <1>1, <1>3, AllowanceAccepted DEF CircleServes
<1>7. LET toBurn == amount - FeeOf(c, amount, FALSE)
      IN  BurnAccepted(toBurn, CctpMaxFee(toBurn, CctpRate(UseFast(c, FALSE))))
  BY <1>4, <1>5, <1>6, Zenon
<1>8. amount > 0
  BY <1>3
<1>9. CanSettle(c, amount, FALSE)
  BY <1>3, <1>7, <1>8, Zenon DEF CanSettle
<1>10. circle.burnLimit > 0
  BY <1>1, <1>3, <1>8
<1> QED BY <1>2, <1>9, <1>10, Zenon DEF CanSweep, amount

(* The escape hatch of DepositForwarder.sweep never jams: while Circle     *)
(* serves, every matured window can be swept, whatever the owner's rates.  *)
THEOREM HatchOpen == Spec => []OpenWindowSweepable
<1> QED BY SweepableFromInv, Invariant, PTL

(* A step other than flush and sweep leaves the settlement history alone,  *)
(* and moves no deadline of an armed window.                               *)
LEMMA QuietStep ==
    ASSUME TypeOK, [Next]_vars,
           ~\E c \in Clones : sweep(c) \/ \E s \in Users \cup WiredFactories : flush(s, c)
    PROVE  /\ UNCHANGED <<burned, fees, flushes, setupFeePaid>>
           /\ \A c \in Clones : sweepableAt[c] # 0 => sweepableAt'[c] = sweepableAt[c]
<1> DEFINE history == <<burned, fees, flushes, setupFeePaid>>
<1>1. ASSUME NEW c \in Clones, requestSweep(c)
      PROVE  /\ UNCHANGED history
             /\ \A d \in Clones : sweepableAt[d] # 0 => sweepableAt'[d] = sweepableAt[d]
  BY <1>1 DEF requestSweep, ledgerVars, TypeOK
<1>2. ASSUME \E s \in Users, a \in Holders : rescueERC20(s, a)
      PROVE  UNCHANGED <<history, windowVars>>
  BY <1>2 DEF rescueERC20
<1>3. ASSUME Environment
      PROVE  UNCHANGED <<history, windowVars>>
  BY <1>3 DEF Environment, Deposit, Tick, fwdVars, ledgerVars
<1>4. ASSUME UNCHANGED vars
      PROVE  UNCHANGED <<history, windowVars>>
  BY <1>4 DEF vars, fwdVars, ledgerVars, windowVars
<1>5. UNCHANGED <<history, windowVars>> =>
        /\ UNCHANGED history
        /\ \A c \in Clones : sweepableAt[c] # 0 => sweepableAt'[c] = sweepableAt[c]
  BY DEF windowVars
<1>6. \/ \E c \in Clones : requestSweep(c)
      \/ \E s \in Users, a \in Holders : rescueERC20(s, a)
      \/ Environment
      \/ UNCHANGED vars
  BY DEF Next, CloneCall
<1> QED BY <1>1, <1>2, <1>3, <1>4, <1>5, <1>6

-----------------------------------------------------------------------------
(* The setup fee counts once it was charged; the other fees per flush and  *)
(* per subunit settled.  This bound survives every step because rounding   *)
(* each settlement's proportional fee down never exceeds rounding the      *)
(* total down.                                                             *)
SetupCharged(c) == IF setupFeePaid[c] THEN MaxSetupFee ELSE 0
Settled(c) == Burned(c) + fees[c]

FeeHistory ==
    \A c \in Clones :
        fees[c] <= SetupCharged(c) + flushes[c] * MaxBaseFee + RateFee(Settled(c))

LEMMA InitFeeHistory == Init => FeeHistory
<1> SUFFICES ASSUME Init, NEW c \in Clones
             PROVE  fees[c] <= SetupCharged(c) + flushes[c] * MaxBaseFee + RateFee(Settled(c))
  BY DEF FeeHistory
<1>1. fees[c] = 0 /\ flushes[c] = 0 /\ setupFeePaid[c] = FALSE /\ Burned(c) = 0
  BY DEF Init, Burned, Finality
<1>2. RateFee(0) \in Nat
  BY RateFeeType
<1>3. Settled(c) = 0 /\ SetupCharged(c) = 0
  BY <1>1 DEF Settled, SetupCharged
<1> QED BY <1>1, <1>2, <1>3

LEMMA SettlementFeeHistory ==
    ASSUME Inv, Inv', FeeHistory, NEW c \in Clones, NEW amount \in Nat, NEW charge \in BOOLEAN,
           Settle(c, amount, charge)
    PROVE  FeeHistory'
<1>0. TypeOK /\ TypeOK'
  BY DEF Inv
<1>1. /\ Burned(c)' + fees'[c] = Burned(c) + fees[c] + amount
      /\ \A d \in Clones \ {c} : Burned(d)' = Burned(d) /\ fees'[d] = fees[d]
  BY <1>0, SettleEffect
<1>2. /\ fees'[c] - fees[c] \in Nat
      /\ charge => fees'[c] - fees[c] <= SetupDue(c) + MaxBaseFee + RateFee(amount)
      /\ ~charge => fees'[c] = fees[c]
      /\ setupFeePaid'[c] = (setupFeePaid[c] \/ charge)
      /\ flushes'[c] = flushes[c] + (IF charge THEN 1 ELSE 0)
      /\ \A d \in Clones \ {c} : setupFeePaid'[d] = setupFeePaid[d] /\ flushes'[d] = flushes[d]
  BY <1>0, SettleFee
<1>3. ASSUME NEW d \in Clones
      PROVE  /\ Burned(d) \in Nat /\ fees[d] \in Nat /\ flushes[d] \in Nat
             /\ Settled(d) \in Nat /\ RateFee(Settled(d)) \in Nat
  <2>1. Burned(d) \in Nat /\ fees[d] \in Nat /\ flushes[d] \in Nat
    BY <1>0 DEF TypeOK, Burned, Finality
  <2> QED BY <2>1, RateFeeType DEF Settled
<1>4. ASSUME NEW d \in Clones \ {c}
      PROVE  fees'[d] <= SetupCharged(d)' + flushes'[d] * MaxBaseFee + RateFee(Settled(d)')
  <2>1. fees[d] <= SetupCharged(d) + flushes[d] * MaxBaseFee + RateFee(Settled(d))
    BY DEF FeeHistory
  <2>2. Burned(d)' = Burned(d) /\ fees'[d] = fees[d] /\ flushes'[d] = flushes[d]
    BY <1>1, <1>2 DEF Burned
  <2>3. Settled(d)' = Settled(d) /\ SetupCharged(d)' = SetupCharged(d)
    BY <1>2, <2>2 DEF Settled, SetupCharged
  <2> QED BY <2>1, <2>2, <2>3
<1>5. fees'[c] <= SetupCharged(c)' + flushes'[c] * MaxBaseFee + RateFee(Settled(c)')
  <2> DEFINE base == flushes[c] * MaxBaseFee
             before == RateFee(Settled(c))
             after == RateFee(Settled(c) + amount)
  <2>1. fees[c] <= SetupCharged(c) + base + before
    BY DEF FeeHistory
  <2>2. Settled(c)' = Settled(c) + amount
    <3>1. Settled(c)' = Burned(c)' + fees'[c]
      BY DEF Settled
    <3> QED BY <1>1, <3>1 DEF Settled
  <2>3. before + RateFee(amount) <= after
    <3>1. /\ Settled(c) * MaxFeePpm \in Nat /\ amount * MaxFeePpm \in Nat
          /\ (Settled(c) + amount) * MaxFeePpm = Settled(c) * MaxFeePpm + amount * MaxFeePpm
      BY <1>3
    <3> QED BY <3>1, DivOfSum DEF RateFee
  <2>4. before \in Nat /\ after \in Nat /\ RateFee(amount) \in Nat /\ base \in Nat
    BY <1>3, RateFeeType
  <2>5. flushes'[c] * MaxBaseFee = base + (IF charge THEN MaxBaseFee ELSE 0)
    <3>1. (flushes[c] + 1) * MaxBaseFee = base + MaxBaseFee
      BY <1>3
    <3> QED BY <1>2, <1>3, <3>1
  <2>6. SetupCharged(c) \in Nat
    BY DEF SetupCharged
  <2> HIDE DEF base, before, after
  <2>7. CASE charge
    <3>1. SetupCharged(c)' = SetupCharged(c) + SetupDue(c)
      <4>1. setupFeePaid'[c]
        BY <1>2, <2>7, Zenon
      <4>2. SetupCharged(c)' = MaxSetupFee
        BY <4>1 DEF SetupCharged
      <4> QED BY <4>2 DEF SetupCharged, SetupDue
    <3>2. SetupDue(c) \in Nat
      BY DEF SetupDue
    <3>3. fees'[c] <= fees[c] + SetupDue(c) + MaxBaseFee + RateFee(amount)
      <4>1. fees'[c] \in Int
        BY <1>0 DEF TypeOK
      <4> QED BY <1>2, <1>3, <2>4, <2>7, <3>2, <4>1
    <3>4. fees'[c] <= (SetupCharged(c) + SetupDue(c)) + (base + MaxBaseFee) + after
      <4>1. fees'[c] \in Int
        BY <1>0 DEF TypeOK
      <4> QED BY <1>3, <2>1, <2>3, <2>4, <2>6, <3>2, <3>3, <4>1
    <3> QED BY <2>2, <2>5, <2>7, <3>1, <3>4 DEF after
  <2>8. CASE ~charge
    <3>1. SetupCharged(c)' = SetupCharged(c)
      BY <1>2, <2>8 DEF SetupCharged
    <3>2. fees'[c] <= SetupCharged(c) + base + after
      BY <1>2, <1>3, <2>1, <2>3, <2>4, <2>6, <2>8
    <3> QED BY <2>2, <2>4, <2>5, <2>8, <3>1, <3>2 DEF after
  <2> QED BY <2>7, <2>8
<1> QED BY <1>4, <1>5 DEF FeeHistory

LEMMA NextFeeHistory == Inv /\ Inv' /\ FeeHistory /\ [Next]_vars => FeeHistory'
<1> SUFFICES ASSUME Inv, Inv', FeeHistory, [Next]_vars PROVE FeeHistory'
  OBVIOUS
<1>0. TypeOK
  BY DEF Inv
<1>1. CASE \E c \in Clones : sweep(c) \/ \E s \in Users \cup WiredFactories : flush(s, c)
  BY <1>0, <1>1, AmountsSettled, SettlementFeeHistory DEF sweep, flush
<1>2. CASE ~\E c \in Clones : sweep(c) \/ \E s \in Users \cup WiredFactories : flush(s, c)
  <2>1. UNCHANGED <<burned, fees, flushes, setupFeePaid>>
    BY <1>0, <1>2, QuietStep
  <2> QED BY <2>1 DEF FeeHistory, SetupCharged, Settled, Burned
<1> QED BY <1>1, <1>2

LEMMA CapsFromFeeHistory == Inv /\ FeeHistory => FeesWithinCaps
<1> SUFFICES ASSUME Inv, FeeHistory, NEW c \in Clones
             PROVE  fees[c] <= MaxSetupFee + flushes[c] * MaxBaseFee
                                 + ((received[c] - usdc[c]) * MaxFeePpm) \div PPM_DENOM
  BY DEF FeesWithinCaps
<1>1. /\ received[c] = usdc[c] + Burned(c) + fees[c]
      /\ usdc[c] \in Nat /\ Burned(c) \in Nat /\ fees[c] \in Nat /\ flushes[c] \in Nat
  BY DEF Inv, PrincipalConserved, TypeOK, Holders, Burned, Finality
<1>2. received[c] - usdc[c] = Settled(c) /\ Settled(c) \in Nat
  BY <1>1 DEF Settled
<1>3. fees[c] <= SetupCharged(c) + flushes[c] * MaxBaseFee + RateFee(Settled(c))
  BY DEF FeeHistory
<1>4. SetupCharged(c) <= MaxSetupFee /\ SetupCharged(c) \in Nat
  BY DEF SetupCharged
<1>5. flushes[c] * MaxBaseFee \in Nat /\ RateFee(Settled(c)) \in Nat
  BY <1>1, <1>2, RateFeeType
<1>6. fees[c] <= MaxSetupFee + flushes[c] * MaxBaseFee + RateFee(Settled(c))
  BY <1>1, <1>3, <1>4, <1>5
<1> QED BY <1>2, <1>6 DEF RateFee

(* _collectFees over the life of a deposit address: one setup fee, a base  *)
(* fee per flush and the rate on what was settled, all at the immutable    *)
(* caps, bound what the service ever takes.                                *)
THEOREM FeesBounded == Spec => []FeesWithinCaps
<1>1. Init => Inv /\ FeeHistory
  BY InitInv, InitFeeHistory
<1>2. Inv /\ FeeHistory /\ [Next]_vars => Inv' /\ FeeHistory'
  BY NextInv, NextFeeHistory
<1> QED BY <1>1, <1>2, CapsFromFeeHistory, PTL DEF Spec

-----------------------------------------------------------------------------
(* What any step may do to an address, whatever state its window is in:    *)
(* credits and settlements balance, neither is ever undone, and an armed   *)
(* budget was either just set within the balance or shrank by at least     *)
(* what left the address.                                                  *)
LEMMA StepEffect ==
    ASSUME TypeOK, [Next]_vars, NEW d \in Clones
    PROVE  /\ received'[d] - usdc'[d] - Settled(d)' = received[d] - usdc[d] - Settled(d)
           /\ received'[d] >= received[d] /\ Settled(d)' >= Settled(d)
           /\ sweepableAt'[d] # 0 =>
                \/ sweepCap'[d] <= usdc'[d]
                \/ /\ sweepableAt[d] # 0 /\ sweepCap'[d] <= sweepCap[d]
                   /\ sweepCap[d] - sweepCap'[d] >= usdc[d] - usdc'[d]
<1> DEFINE Balanced == received'[d] - usdc'[d] - Settled(d)' = received[d] - usdc[d] - Settled(d)
           Grows == received'[d] >= received[d] /\ Settled(d)' >= Settled(d)
           Window == sweepableAt'[d] # 0 =>
                       \/ sweepCap'[d] <= usdc'[d]
                       \/ /\ sweepableAt[d] # 0 /\ sweepCap'[d] <= sweepCap[d]
                          /\ sweepCap[d] - sweepCap'[d] >= usdc[d] - usdc'[d]
<1>0. TypeOK'
  BY TypeNext
<1>1. /\ usdc[d] \in Nat /\ received[d] \in Nat /\ Settled(d) \in Nat /\ sweepCap[d] \in Nat
      /\ usdc'[d] \in Nat /\ received'[d] \in Nat /\ Settled(d)' \in Nat
  <2>1. Settled(d) \in Nat
    BY DEF TypeOK, Settled, Burned, Finality
  <2>2. Settled(d)' \in Nat
    BY <1>0 DEF TypeOK, Settled, Burned, Finality
  <2> QED BY <1>0, <2>1, <2>2 DEF TypeOK, Holders
<1>2. ASSUME NEW c \in Clones, NEW amount \in Nat, NEW charge \in BOOLEAN,
             Settle(c, amount, charge), DrawDown(c, amount)
      PROVE  Balanced /\ Grows /\ Window
  <2>1. /\ 0 < amount /\ usdc'[c] = usdc[c] - amount /\ received'[c] = received[c]
        /\ \A e \in Clones \ {c} :
              received'[e] - received[e] = usdc'[e] - usdc[e] /\ usdc'[e] >= usdc[e]
        /\ Burned(c)' + fees'[c] = Burned(c) + fees[c] + amount
        /\ \A e \in Clones \ {c} : Burned(e)' = Burned(e) /\ fees'[e] = fees[e]
    BY <1>2, SettleEffect
  <2>2. /\ \A e \in Clones \ {c} :
              sweepableAt'[e] = sweepableAt[e] /\ sweepCap'[e] = sweepCap[e]
        /\ \/ sweepableAt[c] = 0 /\ UNCHANGED windowVars
           \/ sweepableAt[c] # 0 /\ sweepableAt'[c] = 0
           \/ /\ sweepableAt[c] # 0 /\ sweepCap'[c] = sweepCap[c] - amount
    BY <1>2, DrawDownEffect
  <2>3. CASE d = c
    <3>1. Settled(d)' = Settled(d) + amount
      BY <2>1, <2>3 DEF Settled, Burned
    <3>2. Balanced /\ Grows
      BY <1>1, <2>1, <2>3, <3>1
    <3>3. Window
      BY <1>1, <2>1, <2>2, <2>3 DEF windowVars
    <3> QED BY <3>2, <3>3
  <2>4. CASE d # c
    <3>1. Burned(d)' = Burned(d) /\ fees'[d] = fees[d]
      BY <2>1, <2>4 DEF Burned
    <3>2. Settled(d)' = Settled(d)
      BY <3>1 DEF Settled
    <3>3. Balanced /\ Grows /\ Window
      BY <1>1, <2>1, <2>2, <2>4, <3>2
    <3> QED BY <3>3
  <2> QED BY <2>3, <2>4
<1>3. ASSUME NEW c \in Clones, requestSweep(c) PROVE Balanced /\ Grows /\ Window
  <2>1. UNCHANGED <<usdc, received, burned, fees>>
    BY <1>3 DEF requestSweep, ledgerVars
  <2>2. Settled(d)' = Settled(d)
    BY <2>1 DEF Settled, Burned
  <2>3. Window
    BY <1>1, <1>3, <2>1 DEF requestSweep, TypeOK
  <2> HIDE DEF Window
  <2> QED BY <1>1, <2>1, <2>2, <2>3
<1>4. ASSUME UNCHANGED <<burned, fees, windowVars>>,
             received'[d] - received[d] = usdc'[d] - usdc[d], usdc'[d] >= usdc[d]
      PROVE  Balanced /\ Grows /\ Window
  <2>1. Settled(d)' = Settled(d)
    BY <1>4 DEF Settled, Burned
  <2>2. sweepableAt' = sweepableAt /\ sweepCap' = sweepCap
    BY <1>4 DEF windowVars
  <2> QED BY <1>1, <1>4, <2>1, <2>2
<1>5. ASSUME NEW s, NEW a \in Holders, rescueERC20(s, a) PROVE Balanced /\ Grows /\ Window
  <2>1. received'[d] - received[d] = usdc'[d] - usdc[d] /\ usdc'[d] >= usdc[d]
    BY <1>5 DEF rescueERC20, RescueOpen, MayRescueUSDC, TypeOK, Holders
  <2>2. UNCHANGED <<burned, fees, windowVars>>
    BY <1>5 DEF rescueERC20
  <2> QED BY <1>4, <2>1, <2>2
<1>6. ASSUME NEW a \in Holders, NEW v \in 1..MaxDeposited, Deposit(a, v)
      PROVE  Balanced /\ Grows /\ Window
  <2>1. received'[d] - received[d] = usdc'[d] - usdc[d] /\ usdc'[d] >= usdc[d]
    BY <1>6 DEF Deposit, TypeOK, Holders
  <2>2. UNCHANGED <<burned, fees, windowVars>>
    BY <1>6 DEF Deposit
  <2> QED BY <1>4, <2>1, <2>2
<1>7. ASSUME \/ Tick
             \/ CircleNext /\ UNCHANGED <<config, fwdVars>>
             \/ ConfigNext /\ UNCHANGED <<circle, fwdVars>>
             \/ UNCHANGED vars
      PROVE  Balanced /\ Grows /\ Window
  <2>1. UNCHANGED <<usdc, received, burned, fees, windowVars>>
    BY <1>7 DEF Tick, vars, fwdVars, ledgerVars, windowVars
  <2> QED BY <1>1, <1>4, <2>1
<1>8. ASSUME NEW c \in Clones, NEW s, flush(s, c) PROVE Balanced /\ Grows /\ Window
  <2>1. PICK amount \in Nat : Settle(c, amount, TRUE) /\ DrawDown(c, amount)
    BY <1>8, AmountsSettled DEF flush
  <2> QED BY <1>2, <2>1
<1>9. ASSUME NEW c \in Clones, sweep(c) PROVE Balanced /\ Grows /\ Window
  <2>1. PICK amount \in Nat : Settle(c, amount, FALSE) /\ DrawDown(c, amount)
    BY <1>9, AmountsSettled DEF sweep
  <2> QED BY <1>2, <2>1
<1> HIDE DEF Balanced, Grows, Window
<1>10. Balanced /\ Grows /\ Window
  BY <1>3, <1>5, <1>6, <1>7, <1>8, <1>9 DEF Next, CloneCall, Environment
<1> QED BY <1>10 DEF Balanced, Grows, Window

LEMMA SweepPriorityStep ==
    ASSUME Inv, [Next]_vars, NEW c \in Clones, SweepStep(c)
    PROVE  /\ now >= armedAt[c] + MinSweepDelay
           /\ Burned(c)' + fees'[c] <= armedReceived[c]
<1>0. TypeOK
  BY DEF Inv
<1>1. Burned(c) \in Nat /\ flushes[c] \in Nat /\ fees[c] \in Nat
  BY <1>0 DEF TypeOK, Burned, Finality
<1>2. ASSUME NEW d \in Clones, NEW s, flush(s, d) PROVE FALSE
  <2>1. Min2(usdc[d], circle.burnLimit) \in Nat
    BY <1>0, AmountsSettled
  <2>2. Settle(d, Min2(usdc[d], circle.burnLimit), TRUE)
    BY <1>2 DEF flush
  <2>3. CASE d = c
    <3>1. flushes'[c] = flushes[c] + 1
      BY <1>0, <2>2, <2>3 DEF Settle, TypeOK
    <3> QED BY <1>1, <3>1 DEF SweepStep
  <2>4. CASE d # c
    <3>1. \A e \in Clones \ {d} : Burned(e)' = Burned(e)
      BY <1>0, <2>1, <2>2, SettleEffect
    <3>2. Burned(c)' = Burned(c)
      BY <2>4, <3>1 DEF Burned
    <3> QED BY <1>1, <3>2 DEF SweepStep
  <2> QED BY <2>3, <2>4
<1>3. ~\A d \in Clones : ~sweep(d)
  <2> SUFFICES ASSUME \A d \in Clones : ~sweep(d) PROVE FALSE
    OBVIOUS
  <2>1. UNCHANGED burned
    BY <1>0, <1>2, QuietStep
  <2>2. Burned(c)' = Burned(c)
    BY <2>1 DEF Burned
  <2> QED BY <1>1, <2>2 DEF SweepStep
<1>4. PICK d \in Clones : sweep(d)
  BY <1>3
<1>5. SweepAmount(d) \in Nat /\ SweepAmount(d) <= sweepCap[d]
  BY <1>0, AmountsSettled
<1>6. Settle(d, SweepAmount(d), FALSE)
  BY <1>4 DEF sweep
<1>7. d = c
  <2> SUFFICES ASSUME d # c PROVE FALSE
    OBVIOUS
  <2>1. \A e \in Clones \ {d} : Burned(e)' = Burned(e)
    BY <1>0, <1>5, <1>6, SettleEffect
  <2>2. Burned(c)' = Burned(c)
    BY <2>1 DEF Burned
  <2> QED BY <1>1, <2>2 DEF SweepStep
<1>8. Settle(c, SweepAmount(c), FALSE) /\ SweepAmount(c) \in Nat /\ SweepAmount(c) <= sweepCap[c]
  BY <1>5, <1>6, <1>7
<1>9. Burned(c)' + fees'[c] = Burned(c) + fees[c] + SweepAmount(c)
  BY <1>0, <1>8, SettleEffect
<1>10. sweepableAt[c] # 0 /\ now >= sweepableAt[c]
  BY <1>4, <1>7 DEF sweep, CanSweep, Mature
<1>11. /\ armedAt[c] + MinSweepDelay <= sweepableAt[c]
       /\ armedReceived[c] = sweepCap[c] + Burned(c) + fees[c]
  BY <1>10 DEF Inv, WindowHistory
<1>12. now \in Nat /\ armedAt[c] \in Nat /\ sweepableAt[c] \in Nat /\ sweepCap[c] \in Nat
  BY <1>0 DEF TypeOK
<1> QED BY <1>1, <1>8, <1>9, <1>10, <1>11, <1>12

(* The operator's priority window: DepositForwarder.sweep takes only what  *)
(* was there when requestSweep armed the window, MinSweepDelay ago or      *)
(* more, and never later deposits.                                         *)
THEOREM PriorityKept == Spec => SweepPriority
<1>1. ASSUME Inv, [Next]_vars
      PROVE  [\A c \in Clones : SweepStep(c) =>
                /\ now >= armedAt[c] + MinSweepDelay
                /\ Burned(c)' + fees'[c] <= armedReceived[c]]_vars
  BY <1>1, SweepPriorityStep
<1> QED BY <1>1, Invariant, PTL DEF Spec, SweepPriority

LEMMA WindowHonouredStep ==
    ASSUME Inv, [Next]_vars, NEW c \in Clones, sweepableAt[c] # 0
    PROVE  \/ sweepableAt'[c] = sweepableAt[c]
           \/ /\ sweepableAt'[c] = 0
              /\ \/ usdc'[c] = 0
                 \/ usdc[c] - usdc'[c] > sweepCap[c] - MIN_SWEEP_AMOUNT
<1>0. TypeOK
  BY DEF Inv
<1>1. ASSUME NEW d \in Clones, NEW amount \in Nat, NEW charge \in BOOLEAN,
             Settle(d, amount, charge), DrawDown(d, amount)
      PROVE  \/ sweepableAt'[c] = sweepableAt[c]
             \/ /\ sweepableAt'[c] = 0
                /\ \/ usdc'[c] = 0
                   \/ usdc[c] - usdc'[c] > sweepCap[c] - MIN_SWEEP_AMOUNT
  <2>1. usdc'[d] = usdc[d] - amount /\ usdc[c] \in Nat /\ sweepCap[c] \in Nat
    BY <1>0, <1>1, SettleEffect DEF TypeOK, Holders
  <2>2. /\ \A e \in Clones \ {d} : sweepableAt'[e] = sweepableAt[e]
        /\ \/ sweepableAt[d] = 0
           \/ /\ sweepableAt'[d] = 0
              /\ usdc'[d] = 0 \/ sweepCap[d] < amount + MIN_SWEEP_AMOUNT
           \/ sweepableAt'[d] = sweepableAt[d]
    BY <1>0, <1>1, DrawDownEffect
  <2>3. CASE d = c
    BY <2>1, <2>2, <2>3
  <2>4. CASE d # c
    BY <2>2, <2>4
  <2> QED BY <2>3, <2>4
<1>2. ASSUME NEW d \in Clones, NEW s, flush(s, d)
      PROVE  \E amount \in Nat : Settle(d, amount, TRUE) /\ DrawDown(d, amount)
  BY <1>0, <1>2, AmountsSettled DEF flush
<1>3. ASSUME NEW d \in Clones, sweep(d)
      PROVE  \E amount \in Nat : Settle(d, amount, FALSE) /\ DrawDown(d, amount)
  BY <1>0, <1>3, AmountsSettled DEF sweep
<1>4. CASE \E d \in Clones : sweep(d) \/ \E s \in Users \cup WiredFactories : flush(s, d)
  BY <1>1, <1>2, <1>3, <1>4
<1>5. CASE ~\E d \in Clones : sweep(d) \/ \E s \in Users \cup WiredFactories : flush(s, d)
  BY <1>0, <1>5, QuietStep
<1> QED BY <1>4, <1>5

(* The self-rescue clock: no call of anyone moves the deadline that        *)
(* requestSweep set, and only a settlement that takes the budget closes    *)
(* the window.                                                             *)
THEOREM ClockHonoured == Spec => WindowHonoured
<1>1. ASSUME Inv, [Next]_vars
      PROVE  [\A c \in Clones : sweepableAt[c] # 0 =>
                \/ sweepableAt'[c] = sweepableAt[c]
                \/ /\ sweepableAt'[c] = 0
                   /\ \/ usdc'[c] = 0
                      \/ usdc[c] - usdc'[c] > sweepCap[c] - MIN_SWEEP_AMOUNT]_vars
  BY <1>1, WindowHonouredStep
<1> QED BY <1>1, Invariant, PTL DEF Spec, WindowHonoured
=============================================================================

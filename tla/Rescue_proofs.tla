----------------------------- MODULE Rescue_proofs -----------------------------
(***************************************************************************)
(* Native rescues take no principal and leave every armed window backed,   *)
(* for any set of clones, any depth of rescues inside rescues and anything *)
(* the sink does while it is called.                                       *)
(***************************************************************************)
EXTENDS Rescue, DepositForwarder_proofs, SequenceTheorems, TLAPS

USE PpmAssumption, CircleInputsAssumption, CctpCapAssumption,
    CapsAssumption, ConfigAssumption, ForwarderAssumption, RescueAssumption

-----------------------------------------------------------------------------
(* The inductive invariant.                                                *)
FrameType == [at : Holders, usdcBefore : Nat]

RescueTyped ==
    /\ TypeOK
    /\ shared \in BOOLEAN
    /\ frames \in Seq(FrameType)
    /\ taken \in [Holders -> Nat] /\ lent \in [Clones -> Nat]

Accounted == \A c \in Clones : received[c] = usdc[c] + Settled(c) + taken[c]

(* Some rescue in progress at c will not return before c holds v again.    *)
Restores(fs, c, v) == \E i \in 1..Len(fs) : fs[i].at = c /\ v <= fs[i].usdcBefore

(* What c would hold had it lent nothing and lost nothing to rescues.      *)
Spare(c) == received[c] - Settled(c) - lent[c]

(* What rescues took is covered by what came in meanwhile, or a rescue in  *)
(* progress insists that it will be.                                       *)
TakenCovered == \A c \in Clones : taken[c] <= lent[c] \/ Restores(frames, c, Spare(c))

(* An armed budget is backed, or a rescue in progress insists it will be.  *)
BudgetCovered ==
    \A c \in Clones : sweepableAt[c] # 0 =>
        sweepCap[c] <= usdc[c] \/ Restores(frames, c, sweepCap[c])

RescueInv == RescueTyped /\ Accounted /\ TakenCovered /\ BudgetCovered

-----------------------------------------------------------------------------
(* The stack of rescues: what is promised is kept under another rescue,    *)
(* and lost by a return only if the rescue that returns promised it.       *)
LEMMA RestoresPush ==
    ASSUME NEW fs \in Seq(FrameType), NEW f \in FrameType, NEW c, NEW v
    PROVE  /\ Restores(fs, c, v) => Restores(Append(fs, f), c, v)
           /\ f.at = c /\ v <= f.usdcBefore => Restores(Append(fs, f), c, v)
<1> DEFINE gs == Append(fs, f)
<1>1. /\ Len(gs) = Len(fs) + 1 /\ Len(fs) \in Nat
      /\ \A i \in 1..Len(fs) : gs[i] = fs[i]
      /\ gs[Len(fs) + 1] = f
  BY AppendProperties, LenProperties
<1> HIDE DEF gs
<1>2. ASSUME Restores(fs, c, v) PROVE Restores(gs, c, v)
  <2>1. PICK i \in 1..Len(fs) : fs[i].at = c /\ v <= fs[i].usdcBefore
    BY <1>2 DEF Restores
  <2>2. i \in 1..Len(gs) /\ gs[i] = fs[i]
    BY <1>1
  <2> QED BY <2>1, <2>2 DEF Restores
<1>3. ASSUME f.at = c, v <= f.usdcBefore PROVE Restores(gs, c, v)
  <2>1. Len(gs) \in 1..Len(gs) /\ gs[Len(gs)] = f
    BY <1>1
  <2> QED BY <1>3, <2>1 DEF Restores
<1> QED BY <1>2, <1>3 DEF gs

LEMMA RestoresPop ==
    ASSUME NEW fs \in Seq(FrameType), fs # <<>>, NEW c, NEW v, Restores(fs, c, v)
    PROVE  \/ Restores(SubSeq(fs, 1, Len(fs) - 1), c, v)
           \/ fs[Len(fs)].at = c /\ v <= fs[Len(fs)].usdcBefore
<1> DEFINE gs == SubSeq(fs, 1, Len(fs) - 1)
<1>1. Len(fs) \in Nat \ {0} /\ \A i \in 1..Len(fs) : fs[i] \in FrameType
  BY LenProperties, EmptySeq, ElementOfSeq
<1>2. /\ Len(gs) = Len(fs) - 1
      /\ \A i \in 1..(Len(fs) - 1) : gs[i] = fs[i]
  <2>1. \A i \in 1..(Len(fs) - 1) : fs[i] \in FrameType
    BY <1>1
  <2>2. /\ Len(gs) = IF 1 <= Len(fs) - 1 THEN Len(fs) - 1 - 1 + 1 ELSE 0
        /\ \A i \in 1..(Len(fs) - 1 - 1 + 1) : gs[i] = fs[1 + i - 1]
    BY <1>1, <2>1, SubSeqProperties
  <2> HIDE DEF gs
  <2>3. Len(gs) = Len(fs) - 1
    <3>1. \A n \in Nat \ {0} : (IF 1 <= n - 1 THEN n - 1 - 1 + 1 ELSE 0) = n - 1
      OBVIOUS
    <3> QED BY <1>1, <2>2, <3>1, Zenon
  <2>4. ASSUME NEW i \in 1..(Len(fs) - 1) PROVE gs[i] = fs[i]
    <3>1. i \in 1..(Len(fs) - 1 - 1 + 1) /\ 1 + i - 1 = i
      BY <1>1
    <3> QED BY <2>2, <3>1
  <2> QED BY <2>3, <2>4
<1> HIDE DEF gs
<1>3. PICK i \in 1..Len(fs) : fs[i].at = c /\ v <= fs[i].usdcBefore
  BY DEF Restores
<1>4. CASE i = Len(fs)
  BY <1>3, <1>4
<1>5. CASE i # Len(fs)
  <2>1. i \in 1..Len(gs) /\ gs[i] = fs[i]
    BY <1>1, <1>2, <1>5
  <2>2. Restores(gs, c, v)
    BY <1>3, <2>1 DEF Restores
  <2> QED BY <2>2 DEF gs
<1> QED BY <1>4, <1>5

LEMMA RestoresLess ==
    ASSUME NEW fs \in Seq(FrameType), NEW c, NEW v \in Int, NEW w \in Int, w <= v,
           Restores(fs, c, v)
    PROVE  Restores(fs, c, w)
<1>1. PICK i \in 1..Len(fs) : fs[i].at = c /\ v <= fs[i].usdcBefore
  BY DEF Restores
<1>2. fs[i] \in FrameType
  BY LenProperties, ElementOfSeq
<1>3. w <= fs[i].usdcBefore
  BY <1>1, <1>2 DEF FrameType
<1> QED BY <1>1, <1>3 DEF Restores

LEMMA RestoresNone == \A c, v : ~Restores(<<>>, c, v)
BY DEF Restores

LEMMA Naturals ==
    ASSUME RescueTyped, NEW c \in Clones
    PROVE  /\ usdc[c] \in Nat /\ received[c] \in Nat /\ Settled(c) \in Nat /\ sweepCap[c] \in Nat
           /\ taken[c] \in Nat /\ lent[c] \in Nat /\ Spare(c) \in Int
<1>1. Settled(c) \in Nat
  BY DEF RescueTyped, TypeOK, Settled, Burned, Finality
<1>2. usdc[c] \in Nat /\ received[c] \in Nat /\ sweepCap[c] \in Nat /\ taken[c] \in Nat /\ lent[c] \in Nat
  BY DEF RescueTyped, TypeOK, Holders
<1> QED BY <1>1, <1>2 DEF Spare

-----------------------------------------------------------------------------
LEMMA RescueInitInv == RescueInit => RescueInv
<1> SUFFICES ASSUME RescueInit PROVE RescueInv
  OBVIOUS
<1>1. TypeOK /\ PrincipalConserved /\ ArmedWindowBurnable
  BY InitInv DEF RescueInit, Inv
<1>2. RescueTyped
  BY <1>1, EmptySeq DEF RescueInit, RescueTyped
<1>3. \A c \in Clones : taken[c] = 0 /\ lent[c] = 0
  BY DEF RescueInit, Holders
<1>4. Accounted
  <2>1. ASSUME NEW c \in Clones PROVE received[c] = usdc[c] + Settled(c) + taken[c]
    <3>1. received[c] = usdc[c] + Burned(c) + fees[c]
      BY <1>1 DEF PrincipalConserved
    <3>2. usdc[c] \in Nat /\ Burned(c) \in Nat /\ fees[c] \in Nat
      BY <1>1 DEF TypeOK, Holders, Burned, Finality
    <3> QED BY <1>3, <3>1, <3>2 DEF Settled
  <2> QED BY <2>1 DEF Accounted
<1>5. TakenCovered
  BY <1>3 DEF TakenCovered
<1>6. BudgetCovered
  BY <1>1 DEF BudgetCovered, ArmedWindowBurnable
<1> QED BY <1>2, <1>4, <1>5, <1>6 DEF RescueInv

(* A step of the settlement contracts: at rest, or inside a rescue, when   *)
(* every credit counts as lent.                                            *)
LEMMA ForwarderStepInv ==
    ASSUME RescueInv, [Next]_vars, UNCHANGED <<shared, frames, taken>>,
           lent' \in [Clones -> Int],
           \A c \in Clones : \/ AtRest /\ lent'[c] = lent[c]
                             \/ lent'[c] = lent[c] + received'[c] - received[c]
    PROVE  RescueInv'
<1>0. RescueTyped /\ TypeOK /\ TypeOK'
  BY TypeNext DEF RescueInv, RescueTyped
<1>1. ASSUME NEW c \in Clones
      PROVE  /\ received'[c] - usdc'[c] - Settled(c)' = received[c] - usdc[c] - Settled(c)
             /\ received'[c] >= received[c] /\ Settled(c)' >= Settled(c)
             /\ sweepableAt'[c] # 0 =>
                  \/ sweepCap'[c] <= usdc'[c]
                  \/ /\ sweepableAt[c] # 0 /\ sweepCap'[c] <= sweepCap[c]
                     /\ sweepCap[c] - sweepCap'[c] >= usdc[c] - usdc'[c]
  BY <1>0, StepEffect
<1>2. RescueTyped'
  <2>1. lent' \in [Clones -> Nat]
    <3>1. ASSUME NEW c \in Clones PROVE lent'[c] \in Nat
      <4>1. lent[c] \in Nat /\ received[c] \in Nat /\ received'[c] \in Nat
        BY <1>0 DEF RescueTyped, TypeOK
      <4>2. received'[c] >= received[c]
        BY <1>1
      <4> QED BY <4>1, <4>2
    <3> QED BY <3>1
  <2> QED BY <1>0, <2>1 DEF RescueTyped
<1>3. ASSUME NEW c \in Clones
      PROVE  /\ usdc[c] \in Nat /\ received[c] \in Nat /\ Settled(c) \in Nat /\ sweepCap[c] \in Nat
             /\ taken[c] \in Nat /\ lent[c] \in Nat /\ Spare(c) \in Int
             /\ usdc'[c] \in Nat /\ received'[c] \in Nat /\ Settled(c)' \in Nat /\ sweepCap'[c] \in Nat
             /\ taken'[c] = taken[c] /\ lent'[c] \in Nat
  <2>1. /\ usdc[c] \in Nat /\ received[c] \in Nat /\ Settled(c) \in Nat /\ sweepCap[c] \in Nat
        /\ taken[c] \in Nat /\ lent[c] \in Nat /\ Spare(c) \in Int
    BY <1>0, Naturals
  <2>2. usdc'[c] \in Nat /\ received'[c] \in Nat /\ sweepCap'[c] \in Nat /\ lent'[c] \in Nat
    BY <1>2 DEF RescueTyped, TypeOK, Holders
  <2>3. Settled(c)' \in Nat
    BY <1>2 DEF RescueTyped, TypeOK, Settled, Burned, Finality
  <2> QED BY <2>1, <2>2, <2>3
<1>4. Accounted'
  <2>1. ASSUME NEW c \in Clones PROVE received'[c] = usdc'[c] + Settled(c)' + taken'[c]
    <3>1. received[c] = usdc[c] + Settled(c) + taken[c]
      BY DEF RescueInv, Accounted
    <3> QED BY <1>1, <1>3, <3>1
  <2> QED BY <2>1 DEF Accounted
<1>5. TakenCovered'
  <2>1. ASSUME NEW c \in Clones PROVE taken'[c] <= lent'[c] \/ Restores(frames', c, Spare(c)')
    <3>1. lent'[c] >= lent[c]
      BY <1>1, <1>3
    <3>2. CASE taken[c] <= lent[c]
      BY <1>3, <3>1, <3>2
    <3>3. CASE Restores(frames, c, Spare(c))
      <4>1. ~AtRest
        BY <3>3, RestoresNone DEF AtRest
      <4>2. lent'[c] = lent[c] + received'[c] - received[c]
        BY <4>1
      <4>3. Spare(c)' = received'[c] - Settled(c)' - lent'[c]
        BY DEF Spare
      <4>4. Spare(c)' \in Int /\ Spare(c)' <= Spare(c)
        BY <1>1, <1>3, <4>2, <4>3 DEF Spare
      <4>5. frames \in Seq(FrameType)
        BY <1>0 DEF RescueTyped
      <4>6. Restores(frames, c, Spare(c)')
        BY <1>3, <3>3, <4>4, <4>5, RestoresLess
      <4> QED BY <4>6
    <3> QED BY <3>2, <3>3 DEF RescueInv, TakenCovered
  <2> QED BY <2>1 DEF TakenCovered
<1>6. BudgetCovered'
  <2>1. ASSUME NEW c \in Clones, sweepableAt'[c] # 0
        PROVE  sweepCap'[c] <= usdc'[c] \/ Restores(frames', c, sweepCap'[c])
    <3>1. CASE sweepCap'[c] <= usdc'[c]
      BY <3>1
    <3>2. CASE /\ sweepableAt[c] # 0 /\ sweepCap'[c] <= sweepCap[c]
               /\ sweepCap[c] - sweepCap'[c] >= usdc[c] - usdc'[c]
      <4>1. CASE sweepCap[c] <= usdc[c]
        BY <1>3, <3>2, <4>1
      <4>2. CASE Restores(frames, c, sweepCap[c])
        <5>1. frames \in Seq(FrameType)
          BY <1>0 DEF RescueTyped
        <5>2. Restores(frames, c, sweepCap'[c])
          BY <1>3, <3>2, <4>2, <5>1, RestoresLess
        <5> QED BY <5>2
      <4> QED BY <3>2, <4>1, <4>2 DEF RescueInv, BudgetCovered
    <3> QED BY <1>1, <2>1, <3>1, <3>2
  <2> QED BY <2>1 DEF BudgetCovered
<1> QED BY <1>2, <1>4, <1>5, <1>6 DEF RescueInv

(* A native rescue begins: the address may be drained for a while, but the *)
(* new rescue insists on all that it held.                                 *)
LEMMA RescueNativeInv ==
    ASSUME RescueInv, NEW s, NEW a \in Holders, rescueNative(s, a)
    PROVE  RescueInv'
<1> DEFINE f == [at |-> a, usdcBefore |-> usdc[a]]
<1>0. RescueTyped /\ TypeOK
  BY DEF RescueInv, RescueTyped
<1>1. /\ usdc[a] \in Nat /\ f \in FrameType /\ frames' = Append(frames, f)
      /\ frames \in Seq(FrameType)
  BY <1>0 DEF rescueNative, TypeOK, RescueTyped, FrameType
<1>2. RescueTyped'
  <2>1. frames' \in Seq(FrameType)
    BY <1>1, AppendProperties
  <2>2. usdc' \in [Holders -> Nat] /\ taken' \in [Holders -> Nat]
    BY <1>0, <1>1 DEF rescueNative, TypeOK, RescueTyped
  <2>3. TypeOK'
    BY <1>0, <2>2 DEF rescueNative, TypeOK, windowVars
  <2> QED BY <1>0, <2>1, <2>2, <2>3 DEF rescueNative, RescueTyped
<1>3. ASSUME NEW c \in Clones
      PROVE  /\ received'[c] = received[c] /\ Settled(c)' = Settled(c) /\ lent'[c] = lent[c]
             /\ sweepableAt'[c] = sweepableAt[c] /\ sweepCap'[c] = sweepCap[c]
             /\ Spare(c)' = Spare(c)
             /\ \/ c # a \/ ~shared
                \/ c = a /\ usdc'[c] = 0 /\ taken'[c] = taken[c] + usdc[c]
             /\ c # a \/ ~shared => usdc'[c] = usdc[c] /\ taken'[c] = taken[c]
  <2>1. UNCHANGED <<received, burned, fees, lent, sweepableAt, sweepCap>>
    BY DEF rescueNative, windowVars
  <2>2. Settled(c)' = Settled(c)
    BY <2>1 DEF Settled, Burned
  <2>3. Spare(c)' = Spare(c)
    BY <2>1, <2>2 DEF Spare
  <2>4. /\ usdc' = IF shared THEN [usdc EXCEPT ![a] = 0] ELSE usdc
        /\ taken' = IF shared THEN [taken EXCEPT ![a] = @ + usdc[a]] ELSE taken
    BY DEF rescueNative
  <2> QED BY <1>0, <2>1, <2>2, <2>3, <2>4 DEF TypeOK, RescueTyped, Holders
<1>4. ASSUME NEW c \in Clones
      PROVE  /\ usdc[c] \in Nat /\ received[c] \in Nat /\ Settled(c) \in Nat /\ sweepCap[c] \in Nat
             /\ taken[c] \in Nat /\ lent[c] \in Nat /\ Spare(c) \in Int
  BY <1>0, Naturals
<1>5. ASSUME NEW c \in Clones PROVE received[c] = usdc[c] + Settled(c) + taken[c]
  BY DEF RescueInv, Accounted
<1>6. Accounted'
  <2>1. ASSUME NEW c \in Clones PROVE received'[c] = usdc'[c] + Settled(c)' + taken'[c]
    <3>1. received[c] = usdc[c] + Settled(c) + taken[c]
      BY <1>5
    <3> QED BY <1>3, <1>4, <3>1
  <2> QED BY <2>1 DEF Accounted
<1> HIDE DEF f
<1>7. ASSUME NEW c \in Clones, NEW v
      PROVE  /\ Restores(frames, c, v) => Restores(frames', c, v)
             /\ c = a /\ v <= usdc[c] => Restores(frames', c, v)
  BY <1>1, RestoresPush DEF f
<1>8. TakenCovered'
  <2>1. ASSUME NEW c \in Clones PROVE taken'[c] <= lent'[c] \/ Restores(frames', c, Spare(c)')
    <3>1. CASE Restores(frames, c, Spare(c))
      <4>1. Restores(frames', c, Spare(c))
        BY <1>7, <3>1
      <4> QED BY <1>3, <4>1
    <3>2. CASE taken[c] <= lent[c]
      <4>1. CASE c # a \/ ~shared
        BY <1>3, <3>2, <4>1
      <4>2. CASE ~(c # a \/ ~shared)
        <5>1. received[c] = usdc[c] + Settled(c) + taken[c]
          BY <1>5
        <5>2. Spare(c) <= usdc[c]
          BY <1>4, <3>2, <5>1 DEF Spare
        <5>3. Restores(frames', c, Spare(c))
          BY <1>7, <4>2, <5>2
        <5> QED BY <1>3, <5>3
      <4> QED BY <4>1, <4>2
    <3> QED BY <3>1, <3>2 DEF RescueInv, TakenCovered
  <2> QED BY <2>1 DEF TakenCovered
<1>9. BudgetCovered'
  <2>1. ASSUME NEW c \in Clones, sweepableAt'[c] # 0
        PROVE  sweepCap'[c] <= usdc'[c] \/ Restores(frames', c, sweepCap'[c])
    <3>1. CASE Restores(frames, c, sweepCap[c])
      <4>1. Restores(frames', c, sweepCap[c])
        BY <1>7, <3>1
      <4> QED BY <1>3, <4>1
    <3>2. CASE sweepCap[c] <= usdc[c]
      <4>1. CASE c # a \/ ~shared
        BY <1>3, <3>2, <4>1
      <4>2. CASE ~(c # a \/ ~shared)
        <5>1. Restores(frames', c, sweepCap[c])
          BY <1>7, <3>2, <4>2
        <5> QED BY <1>3, <5>1
      <4> QED BY <4>1, <4>2
    <3> QED BY <1>3, <2>1, <3>1, <3>2 DEF RescueInv, BudgetCovered
  <2> QED BY <2>1 DEF BudgetCovered
<1> QED BY <1>2, <1>6, <1>8, <1>9 DEF RescueInv

(* A native rescue returns: its balance check settles what it promised.    *)
LEMMA RescueReturnsInv ==
    ASSUME RescueInv, RescueReturns
    PROVE  RescueInv'
<1>0. /\ RescueTyped /\ frames \in Seq(FrameType) /\ frames # <<>>
      /\ frames' = SubSeq(frames, 1, Len(frames) - 1)
      /\ usdc[frames[Len(frames)].at] >= frames[Len(frames)].usdcBefore
      /\ UNCHANGED <<vars, shared, taken, lent>>
  BY DEF RescueInv, RescueTyped, RescueReturns, AtRest, PrincipalGuard, Top, coinVars
<1>1. frames[Len(frames)] \in FrameType
  BY <1>0, LenProperties, EmptySeq, ElementOfSeq
<1>2. frames' \in Seq(FrameType)
  <2>1. Len(frames) \in Nat \ {0} /\ \A i \in 1..Len(frames) : frames[i] \in FrameType
    BY <1>0, LenProperties, EmptySeq, ElementOfSeq
  <2>2. \A i \in 1..(Len(frames) - 1) : frames[i] \in FrameType
    BY <2>1
  <2> QED BY <1>0, <2>1, <2>2, SubSeqProperties
<1>3. UNCHANGED <<circle, config, usdc, sweepableAt, sweepCap, setupFeePaid, now, deposited, received,
                  burned, fees, flushes, armedAt, armedReceived>>
  BY <1>0 DEF vars, fwdVars, windowVars, ledgerVars
<1>4. RescueTyped'
  BY <1>0, <1>2, <1>3 DEF RescueTyped, TypeOK
<1>5. ASSUME NEW c \in Clones, NEW v \in Int, Restores(frames, c, v)
      PROVE  Restores(frames', c, v) \/ v <= usdc[c]
  <2>1. CASE Restores(SubSeq(frames, 1, Len(frames) - 1), c, v)
    BY <1>0, <2>1
  <2>2. CASE frames[Len(frames)].at = c /\ v <= frames[Len(frames)].usdcBefore
    <3>1. usdc[c] \in Nat /\ frames[Len(frames)].usdcBefore \in Nat
      BY <1>0, <1>1, Naturals DEF FrameType
    <3>2. usdc[c] >= frames[Len(frames)].usdcBefore
      BY <1>0, <2>2
    <3> QED BY <2>2, <3>1, <3>2
  <2> QED BY <1>0, <1>5, <2>1, <2>2, RestoresPop
<1>6. ASSUME NEW c \in Clones
      PROVE  /\ Settled(c)' = Settled(c) /\ Spare(c)' = Spare(c)
             /\ usdc[c] \in Nat /\ received[c] \in Nat /\ Settled(c) \in Nat /\ sweepCap[c] \in Nat
             /\ taken[c] \in Nat /\ lent[c] \in Nat /\ Spare(c) \in Int
  <2>1. Settled(c)' = Settled(c)
    BY <1>3 DEF Settled, Burned
  <2>2. Spare(c)' = Spare(c)
    BY <1>0, <1>3, <2>1 DEF Spare
  <2> QED BY <1>0, <2>1, <2>2, Naturals
<1>7. Accounted'
  BY <1>0, <1>3, <1>6 DEF RescueInv, Accounted
<1>8. TakenCovered'
  <2>1. ASSUME NEW c \in Clones PROVE taken[c] <= lent[c] \/ Restores(frames', c, Spare(c))
    <3>1. ASSUME Spare(c) <= usdc[c] PROVE taken[c] <= lent[c]
      <4>1. received[c] = usdc[c] + Settled(c) + taken[c]
        BY DEF RescueInv, Accounted
      <4> QED BY <1>6, <3>1, <4>1 DEF Spare
    <3> QED BY <1>5, <1>6, <3>1 DEF RescueInv, TakenCovered
  <2>2. ASSUME NEW c \in Clones PROVE taken'[c] <= lent'[c] \/ Restores(frames', c, Spare(c)')
    BY <1>0, <1>6, <2>1
  <2> QED BY <2>2 DEF TakenCovered
<1>9. BudgetCovered'
  <2>1. ASSUME NEW c \in Clones, sweepableAt[c] # 0
        PROVE  sweepCap[c] <= usdc[c] \/ Restores(frames', c, sweepCap[c])
    BY <1>5, <1>6, <2>1 DEF RescueInv, BudgetCovered
  <2> QED BY <1>3, <2>1 DEF BudgetCovered
<1> QED BY <1>4, <1>7, <1>8, <1>9 DEF RescueInv

LEMMA RescueNextInv == RescueInv /\ [RescueNext]_rescueVars => RescueInv'
<1> SUFFICES ASSUME RescueInv, [RescueNext]_rescueVars PROVE RescueInv'
  OBVIOUS
<1>0. /\ RescueTyped /\ TypeOK
      /\ lent \in [Clones -> Nat] /\ received \in [Clones -> Nat]
  BY DEF RescueInv, RescueTyped, TypeOK
<1>1. ASSUME [Next]_vars, UNCHANGED <<shared, frames, taken>>,
             lent' = [c \in Clones |-> lent[c] + received'[c] - received[c]]
      PROVE  RescueInv'
  <2>1. received' \in [Clones -> Nat]
    BY <1>0, <1>1, TypeNext DEF TypeOK
  <2>2. lent' \in [Clones -> Int]
    BY <1>0, <1>1, <2>1
  <2>3. \A c \in Clones : lent'[c] = lent[c] + received'[c] - received[c]
    BY <1>1
  <2> QED BY <1>1, <2>2, <2>3, ForwarderStepInv
<1>2. ASSUME [Next]_vars, UNCHANGED <<shared, frames, taken, lent>>,
             AtRest \/ received' = received
      PROVE  RescueInv'
  <2>1. lent' \in [Clones -> Int]
    BY <1>0, <1>2
  <2>2. \A c \in Clones : \/ AtRest /\ lent'[c] = lent[c]
                          \/ lent'[c] = lent[c] + received'[c] - received[c]
    BY <1>0, <1>2
  <2> QED BY <1>2, <2>1, <2>2, ForwarderStepInv
<1>3. CASE AtRest /\ Next /\ UNCHANGED <<shared, coinVars, frames>>
  BY <1>2, <1>3 DEF coinVars
<1>4. CASE /\ ~AtRest /\ SinkCalls
           /\ lent' = [c \in Clones |-> lent[c] + received'[c] - received[c]]
           /\ UNCHANGED <<shared, dust, taken, frames>>
  <2>1. Next
    BY <1>4 DEF SinkCalls, Next, Environment
  <2> QED BY <1>1, <1>4, <2>1
<1>5. ASSUME NEW s \in Users, NEW a \in Holders, rescueNative(s, a) PROVE RescueInv'
  BY <1>5, RescueNativeInv
<1>6. CASE RescueReturns
  BY <1>6, RescueReturnsInv
<1>7. ASSUME NEW a \in Holders, ForceNative(a) PROVE RescueInv'
  <2> DEFINE carries == shared /\ dust[a] + 1 = SCALE
  <2>1. /\ IF carries THEN Deposit(a, 1) ELSE UNCHANGED vars
        /\ lent' = [c \in Clones |-> lent[c] + IF AtRest THEN 0 ELSE received'[c] - received[c]]
        /\ UNCHANGED <<shared, taken, frames>>
    BY <1>7 DEF ForceNative
  <2>2. [Next]_vars
    <3>1. ASSUME Deposit(a, 1) PROVE Next
      <4>1. 1 \in 1..MaxDeposited
        BY <1>0, <3>1 DEF Deposit, TypeOK
      <4> QED BY <3>1, <4>1 DEF Next, Environment
    <3> QED BY <2>1, <3>1
  <2>3. received' \in [Clones -> Nat]
    BY <1>0, <2>2, TypeNext DEF TypeOK
  <2> HIDE DEF carries
  <2>4. CASE AtRest
    <3>1. lent' = lent
      BY <1>0, <2>1, <2>4
    <3> QED BY <1>2, <2>1, <2>2, <2>4, <3>1
  <2>5. CASE ~AtRest
    <3>1. lent' = [c \in Clones |-> lent[c] + received'[c] - received[c]]
      BY <1>0, <2>1, <2>3, <2>5
    <3> QED BY <1>1, <2>1, <2>2, <3>1
  <2> QED BY <2>4, <2>5
<1>8. CASE UNCHANGED rescueVars
  <2>1. UNCHANGED <<vars, shared, frames, taken, lent>>
    BY <1>8 DEF rescueVars, coinVars
  <2> QED BY <1>2, <2>1 DEF vars, fwdVars, ledgerVars
<1> QED BY <1>3, <1>4, <1>5, <1>6, <1>7, <1>8 DEF RescueNext

(* The inductive invariant holds throughout.                               *)
THEOREM RescueInvariant == RescueSpec => []RescueInv
<1> QED BY RescueInitInv, RescueNextInv, PTL DEF RescueSpec

(* rescueNative's balance check: whatever the sink does in between and     *)
(* however deep rescues nest, what a rescue took from a deposit address    *)
(* was paid into it before the rescue returned.                            *)
THEOREM NoPrincipalTaken == RescueSpec => []RescueTakesNoPrincipal
<1>1. RescueInv => RescueTakesNoPrincipal
  <2> SUFFICES ASSUME RescueInv, NEW c \in Clones
               PROVE  /\ received[c] = usdc[c] + Burned(c) + fees[c] + taken[c]
                      /\ AtRest => taken[c] <= lent[c]
    BY DEF RescueTakesNoPrincipal
  <2>1. received[c] = usdc[c] + Settled(c) + taken[c]
    BY DEF RescueInv, Accounted
  <2>2. usdc[c] \in Nat /\ Burned(c) \in Nat /\ fees[c] \in Nat /\ taken[c] \in Nat
    BY DEF RescueInv, RescueTyped, TypeOK, Holders, Burned, Finality
  <2>3. AtRest => taken[c] <= lent[c]
    BY RestoresNone DEF RescueInv, TakenCovered, AtRest
  <2> QED BY <2>1, <2>2, <2>3 DEF Settled
<1> QED BY <1>1, RescueInvariant, PTL

(* The same balance check keeps armed windows backed: once every rescue    *)
(* has returned, no budget exceeds the balance.                            *)
THEOREM WindowsBacked == RescueSpec => []WindowBackedAfterRescue
<1>1. RescueInv => WindowBackedAfterRescue
  BY RestoresNone DEF RescueInv, BudgetCovered, AtRest, WindowBackedAfterRescue
<1> QED BY <1>1, RescueInvariant, PTL
=============================================================================

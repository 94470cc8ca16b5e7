----------------------- MODULE Administration_proofs -----------------------
(***************************************************************************)
(* The two ways Config is administered: by the owner's own calls           *)
(* (Governance) and by the deployment script (EvmDeployment).  Config      *)
(* keeps its ranges, its wiring and the order of its ownership transfers,  *)
(* its settings can neither starve Circle nor pay it too much, and a run   *)
(* of the script that ends well has wired the chain: for any users,        *)
(* inputs, caps and burns, and any number of runs, killed or not.          *)
(***************************************************************************)
EXTENDS Governance, EvmDeployment, Config_proofs, TLAPS

USE PpmAssumption, CircleInputsAssumption, CctpCapAssumption,
    CapsAssumption, ConfigAssumption, BurnsAssumption

-----------------------------------------------------------------------------
(* Config in the owner's hands.                                            *)

(* The parts of the invariant that the steps preserve; the two facts about *)
(* the allowance follow from the types in every state.                     *)
Inv == circle \in CircleType /\ ConfigTyped /\ ProposalIsOwners

LEMMA InitInv == GovernedInit => Inv
<1> SUFFICES ASSUME GovernedInit PROVE Inv
  OBVIOUS
<1>1. circle \in CircleType
  BY DEF GovernedInit, CircleInit, CircleType
<1>2. ConfigTyped
  BY DEF GovernedInit, ConfigInit, ConfigTyped, ConfigType
<1>3. ProposalIsOwners
  BY DEF GovernedInit, ConfigInit, ProposalIsOwners
<1> QED BY <1>1, <1>2, <1>3 DEF Inv

LEMMA NextInv == Inv /\ [GovernedNext]_configVars => Inv'
<1> SUFFICES ASSUME Inv, [GovernedNext]_configVars PROVE Inv'
  OBVIOUS
<1>0. circle \in CircleType /\ config \in ConfigType
  BY DEF Inv, ConfigTyped
<1>1. CASE /\ ConfigNext /\ UNCHANGED circle
           /\ proposer' = IF Proposes THEN config.owner ELSE proposer
  <2>1. /\ config' \in ConfigType
        /\ \/ config'.pendingOwner = config.pendingOwner /\ config'.owner = config.owner
           \/ config'.pendingOwner = NoAddress
           \/ Proposes
    BY <1>0, <1>1, ConfigStep DEF Proposes
  <2>2. CASE Proposes
    <3>1. PICK s \in Users, to \in ConfigInputs.heir : transferOwnership(s, to)
      BY <2>2 DEF Proposes
    <3>2. config'.owner = config.owner
      BY <1>0, <3>1 DEF transferOwnership, ConfigType
    <3>3. proposer' = config'.owner
      BY <1>1, <2>2, <3>2
    <3> QED BY <1>0, <1>1, <2>1, <3>3 DEF Inv, ConfigTyped, ProposalIsOwners
  <2>3. CASE ~Proposes
    <3>1. proposer' = proposer
      BY <1>1, <2>3
    <3> QED BY <1>0, <1>1, <2>1, <2>3, <3>1 DEF Inv, ConfigTyped, ProposalIsOwners
  <2> QED BY <2>2, <2>3
<1>2. CASE CircleNext /\ UNCHANGED <<config, proposer>>
  BY <1>0, <1>2, CircleStep DEF Inv, ConfigTyped, ProposalIsOwners
<1>3. CASE UNCHANGED configVars
  BY <1>3 DEF configVars, Inv, ConfigTyped, ProposalIsOwners
<1> QED BY <1>1, <1>2, <1>3 DEF GovernedNext

(* The inductive invariant holds throughout.                               *)
THEOREM GovernedInvariant == GovernedSpec => []Inv
<1> QED BY InitInv, NextInv, PTL DEF GovernedSpec

(* Config's setters keep every tunable in its range, whatever is passed.   *)
THEOREM ConfigInRange == GovernedSpec => []ConfigTyped
<1>1. Inv => ConfigTyped
  BY DEF Inv
<1> QED BY <1>1, GovernedInvariant, PTL

(* transferOwnership and acceptOwnership: a proposal can be accepted only  *)
(* while the owner who made it still is the owner.                         *)
THEOREM ProposalsAreOwners == GovernedSpec => []ProposalIsOwners
<1>1. Inv => ProposalIsOwners
  BY DEF Inv
<1> QED BY <1>1, GovernedInvariant, PTL

(* init is a one-time latch: no later call of anybody changes the wiring.  *)
THEOREM WiredForGood == GovernedSpec => WiringImmutable
<1>1. ASSUME Inv, [GovernedNext]_configVars
      PROVE  [config.initialized => config'.initialized /\ config'.wiring = config.wiring]_configVars
  <2>1. CASE ConfigNext
    BY <1>1, <2>1, ConfigStep DEF Inv, ConfigTyped
  <2>2. CASE UNCHANGED config
    BY <2>2
  <2> QED BY <1>1, <2>1, <2>2 DEF GovernedNext, configVars
<1> QED BY <1>1, GovernedInvariant, PTL DEF GovernedSpec, WiringImmutable

-----------------------------------------------------------------------------
LEMMA RatesAreNat == Inv => Rates \subseteq Nat
BY DEF Inv, ConfigTyped, ConfigType, Rates

(* A single subunit leaves room for no allowance at all, and none is asked *)
(* for when Circle has no minimum.                                         *)
LEMMA SingleSubunit ==
    ASSUME circle \in CircleType, NEW rate \in Nat, 1 <= circle.burnLimit,
           circle.legacy \/ circle.minFee = 0
    PROVE  BurnAccepted(1, CctpMaxFee(1, rate))
<1>1. CctpMaxFee(1, rate) = 0
  BY AllowanceRange
<1>2. ~circle.legacy => CalcMinFeeAmount(1) = 0
  BY DEF CalcMinFeeAmount
<1> QED BY <1>1, <1>2 DEF BurnAccepted

LEMMA SufficesFromInv == Inv => AllowanceSuffices
<1> SUFFICES ASSUME Inv, MinFeeWithinCap, NEW toBurn \in Burns, NEW rate \in Rates,
                    toBurn <= circle.burnLimit,
                    toBurn > 1 \/ circle.legacy \/ circle.minFee = 0
             PROVE  BurnAccepted(toBurn, CctpMaxFee(toBurn, rate))
  BY DEF AllowanceSuffices
<1>1. circle \in CircleType /\ rate \in Nat /\ toBurn \in Nat \ {0}
  BY RatesAreNat DEF Inv
<1>2. CASE toBurn > 1
  BY <1>1, <1>2, AllowanceAccepted
<1>3. CASE toBurn = 1
  <2>1. circle.legacy \/ circle.minFee = 0
    BY <1>3
  <2> QED BY <1>1, <1>3, <2>1, SingleSubunit
<1> QED BY <1>1, <1>2, <1>3

LEMMA CappedFromInv == Inv => AllowanceCapped
<1> SUFFICES ASSUME Inv, NEW toBurn \in Burns, NEW rate \in Rates
             PROVE  LET granted == CctpMaxFee(toBurn, rate)
                        cap == CeilPpm(toBurn * MaxCctpFeePpm)
                    IN  /\ granted < toBurn /\ granted <= cap
                        /\ ~circle.legacy /\ CalcMinFeeAmount(toBurn) > cap
                             => ~BurnAccepted(toBurn, granted)
  BY DEF AllowanceCapped
<1>1. circle \in CircleType /\ rate \in Nat /\ toBurn \in Nat \ {0}
  BY RatesAreNat DEF Inv
<1> DEFINE granted == CctpMaxFee(toBurn, rate)
           cap == CeilPpm(toBurn * MaxCctpFeePpm)
<1>2. granted \in Nat /\ granted < toBurn /\ cap \in Nat /\ granted <= cap
  BY <1>1, AllowanceRange
<1>3. ASSUME ~circle.legacy, CalcMinFeeAmount(toBurn) > cap, BurnAccepted(toBurn, granted)
      PROVE  FALSE
  <2>1. granted >= CalcMinFeeAmount(toBurn)
    BY <1>3 DEF BurnAccepted
  <2>2. CalcMinFeeAmount(toBurn) \in Nat
    <3>1. toBurn * circle.minFee \in Nat /\ 10 * PPM_DENOM \in Nat \ {0}
      BY <1>1 DEF CircleType
    <3> QED BY <3>1, DivBounds DEF CalcMinFeeAmount, MIN_FEE_MULTIPLIER
  <2> HIDE DEF granted, cap
  <2> QED BY <1>2, <1>3, <2>1, <2>2
<1> QED BY <1>2, <1>3

(* Whatever the owner sets, the settlement grants an allowance that Circle *)
(* accepts, for every burn while its minimum is within the immutable cap.  *)
THEOREM NoRateStarvesCircle == GovernedSpec => []AllowanceSuffices
<1> QED BY SufficesFromInv, GovernedInvariant, PTL

(* Whatever the owner sets and Circle demands, the settlement grants no    *)
(* more than the immutable cap, and halts when Circle wants more.          *)
THEOREM NeverAboveCap == GovernedSpec => []AllowanceCapped
<1> QED BY CappedFromInv, GovernedInvariant, PTL

-----------------------------------------------------------------------------
(* The deployment script.                                                  *)

Contracts == {"config", "impl", "factory"}
Fields == {"operator", "factory", "feeCollector"}
StepSet == {Create(c) : c \in Contracts} \cup {Init(w) : w \in Wirings} \cup {Set(f) : f \in Fields}
Transactions == [nonce : Nat, step : StepSet, own : BOOLEAN]

DeployTypes ==
    /\ onchain \subseteq Contracts
    /\ {"owner", "initialized", "wiring", "operators", "factory", "feeCollector"}
         \subseteq DOMAIN config
    /\ mempool \subseteq Transactions
    /\ script = NoScript \/ script \in Scripts

(* One transaction per nonce, and none owned by a run that is over.        *)
MempoolOrder ==
    /\ \A t \in mempool, u \in mempool : t.nonce = u.nonce => t = u
    /\ script = NoScript => Own(mempool) = {}

(* The effect a step is meant to have.                                     *)
InPlace(s) ==
    \/ s.do = "create" /\ s.what \in onchain
    \/ s.do = "init" /\ config.initialized /\ config.wiring = s.wiring
    \/ s = Set("operator") /\ Deployer \in config.operators
    \/ s = Set("factory") /\ config.factory = TheFactory
    \/ s = Set("feeCollector") /\ config.feeCollector # NoAddress

(* Config is there, or is the first thing the run will create: a call of   *)
(* its address before that would succeed and do nothing.                   *)
ConfigFirst ==
    \/ "config" \in onchain
    \/ 1 \in script.plan /\ Own(mempool) = {}
    \/ \E t \in Own(mempool) :
          t.step = Create("config") /\ \A u \in Own(mempool) \ {t} : t.nonce < u.nonce

(* A run that lost nothing and met no other hand has every step behind it, *)
(* before it, or on its way; what it sent comes before what it will send.  *)
OnTrack == script # NoScript /\ ~script.lost /\ ~script.touched

Underway ==
    OnTrack =>
        /\ \A t \in Own(mempool) : t.nonce < script.next
        /\ \A i \in 1..7 : \/ InPlace(Steps(script.wiring)[i])
                           \/ i \in script.plan
                           \/ \E t \in Own(mempool) : t.step = Steps(script.wiring)[i]
        /\ ConfigFirst

DeployInv == DeployTypes /\ MempoolOrder /\ Underway

LEMMA StepsType ==
    ASSUME NEW w \in Wirings
    PROVE  /\ DOMAIN Steps(w) = 1..7
           /\ \A i \in 1..7 : /\ Steps(w)[i] \in StepSet
                              /\ Steps(w)[i].do = "init" => Steps(w)[i].wiring = w
                              /\ Steps(w)[i] = Create("config") => i = 1
           /\ Steps(w)[1] = Create("config") /\ Steps(w)[2] = Init(w)
           /\ Steps(w)[3] = Create("impl") /\ Steps(w)[4] = Create("factory")
           /\ Steps(w)[5] = Set("operator") /\ Steps(w)[6] = Set("factory")
           /\ Steps(w)[7] = Set("feeCollector")
<1>1. /\ DOMAIN Steps(w) = 1..7
      /\ Steps(w)[1] = Create("config") /\ Steps(w)[2] = Init(w)
      /\ Steps(w)[3] = Create("impl") /\ Steps(w)[4] = Create("factory")
      /\ Steps(w)[5] = Set("operator") /\ Steps(w)[6] = Set("factory")
      /\ Steps(w)[7] = Set("feeCollector")
  BY DEF Steps
<1>2. ASSUME NEW i \in 1..7
      PROVE  /\ Steps(w)[i] \in StepSet
             /\ Steps(w)[i].do = "init" => Steps(w)[i].wiring = w
             /\ Steps(w)[i] = Create("config") => i = 1
  <2>1. i = 1 \/ i = 2 \/ i = 3 \/ i = 4 \/ i = 5 \/ i = 6 \/ i = 7
    OBVIOUS
  <2> QED BY <1>1, <2>1 DEF StepSet, Create, Init, Set, Contracts, Fields
<1> QED BY <1>1, <1>2

LEMMA DeployInitInv == DeployInit => DeployInv
BY DEF DeployInit, ConfigInit, DeployInv, DeployTypes, MempoolOrder, Underway, OnTrack, Own

(* A transaction that lands does what it says or changes nothing; then the *)
(* run that sent it is lost.                                               *)
LEMMA LandsEffect ==
    ASSUME NEW tx, Lands(tx)
    PROVE  /\ tx \in mempool /\ tx.nonce = 0
           /\ \/ Call(tx.step) /\ UseNonce(script, FALSE)
              \/ UNCHANGED <<config, onchain>> /\ UseNonce(script, tx.own)
BY DEF Lands

(* Whoever sent it, a step that succeeds undoes nothing that is in place,  *)
(* and has its effect unless Config was not there.                         *)
LEMMA CallEffect ==
    ASSUME DeployTypes, NEW s \in StepSet, Call(s)
    PROVE  /\ DOMAIN config' = DOMAIN config
           /\ onchain \subseteq onchain' /\ onchain' \subseteq Contracts
           /\ \A t \in StepSet : InPlace(t) => InPlace(t)'
           /\ s.do = "create" \/ "config" \in onchain => InPlace(s)'
<1>0. /\ onchain \subseteq Contracts
      /\ {"owner", "initialized", "wiring", "operators", "factory", "feeCollector"} \subseteq DOMAIN config
      /\ Deployer # NoAddress
  BY DEF DeployTypes
<1>1. CASE s.do = "create" /\ Creates(s.what)
  <2>1. s.what \in Contracts
    BY <1>1 DEF StepSet, Create, Init, Set
  <2> QED BY <1>0, <1>1, <2>1 DEF Creates, InPlace
<1>2. CASE s.do # "create" /\ "config" \notin onchain /\ UNCHANGED <<config, onchain>>
  BY <1>0, <1>2 DEF InPlace
<1>3. CASE "config" \in onchain /\ UNCHANGED onchain /\ s.do = "init" /\ init(Deployer, s.wiring)
  <2>1. ~config.initialized /\ config' = [config EXCEPT !.initialized = TRUE, !.wiring = s.wiring]
    BY <1>3 DEF init
  <2> QED BY <1>0, <1>3, <2>1 DEF InPlace
<1>4. CASE /\ "config" \in onchain /\ UNCHANGED onchain
           /\ s = Set("operator") /\ setOperator(Deployer, Deployer, TRUE)
  <2>1. config' = [config EXCEPT !.operators = @ \cup {Deployer}]
    BY <1>4 DEF setOperator
  <2> QED BY <1>0, <1>4, <2>1 DEF InPlace, Set
<1>5. CASE /\ "config" \in onchain /\ UNCHANGED onchain
           /\ s = Set("factory") /\ setFactory(Deployer, TheFactory)
  <2>1. config' = [config EXCEPT !.factory = TheFactory]
    BY <1>5 DEF setFactory
  <2> QED BY <1>0, <1>5, <2>1 DEF InPlace, Set
<1>6. CASE /\ "config" \in onchain /\ UNCHANGED onchain
           /\ s = Set("feeCollector") /\ setFeeCollector(Deployer, Deployer)
  <2>1. config' = [config EXCEPT !.feeCollector = Deployer]
    BY <1>6 DEF setFeeCollector
  <2> QED BY <1>0, <1>6, <2>1 DEF InPlace, Set
<1> QED BY <1>1, <1>2, <1>3, <1>4, <1>5, <1>6 DEF Call

(* The nonces move on: a transaction that waits keeps its turn.            *)
LEMMA UseNonceEffect ==
    ASSUME DeployTypes, MempoolOrder, NEW hit \in BOOLEAN, NEW s \in Scripts \cup {NoScript},
           s = NoScript <=> script = NoScript, UseNonce(s, hit)
    PROVE  /\ mempool' \subseteq Transactions
           /\ MempoolOrder'
           /\ s \in Scripts =>
                /\ script' \in Scripts /\ script' # NoScript
                /\ script' = [s EXCEPT !.next = @ - 1, !.lost = @ \/ hit]
           /\ s = NoScript => script' = NoScript
           /\ \A t \in Own(mempool) : t.nonce > 0 =>
                 \E u \in Own(mempool)' : u.step = t.step /\ u.nonce = t.nonce - 1
           /\ \A u \in Own(mempool)' : \E t \in Own(mempool) :
                 u.step = t.step /\ u.nonce = t.nonce - 1
<1> DEFINE shift(t) == [t EXCEPT !.nonce = @ - 1]
<1>1. mempool \subseteq Transactions /\ mempool' = {shift(t) : t \in {t \in mempool : t.nonce > 0}}
  BY DEF DeployTypes, UseNonce
<1>2. ASSUME NEW t \in mempool, t.nonce > 0
      PROVE  /\ shift(t) \in Transactions /\ shift(t).nonce = t.nonce - 1
             /\ shift(t).step = t.step /\ shift(t).own = t.own
  BY <1>1, <1>2 DEF Transactions
<1>3. \A t \in mempool : t.nonce \in Nat
  BY <1>1 DEF Transactions
<1> HIDE DEF shift
<1>4. mempool' \subseteq Transactions
  BY <1>1, <1>2
<1>5. \A t \in mempool', u \in mempool' : t.nonce = u.nonce => t = u
  <2> SUFFICES ASSUME NEW t \in mempool, NEW u \in mempool, t.nonce > 0, u.nonce > 0,
                      shift(t).nonce = shift(u).nonce
               PROVE  shift(t) = shift(u)
    BY <1>1
  <2>1. t.nonce = u.nonce
    BY <1>2, <1>3
  <2> QED BY <2>1 DEF MempoolOrder
<1>6. s \in Scripts =>
        /\ script' \in Scripts /\ script' # NoScript
        /\ script' = [s EXCEPT !.next = @ - 1, !.lost = @ \/ hit]
  <2> SUFFICES ASSUME s \in Scripts
               PROVE  /\ script' \in Scripts /\ script' # NoScript
                      /\ script' = [s EXCEPT !.next = @ - 1, !.lost = @ \/ hit]
    OBVIOUS
  <2>1. script' = [s EXCEPT !.next = @ - 1, !.lost = @ \/ hit]
    BY NoScriptAssumption DEF UseNonce
  <2> DEFINE gone == s.lost \/ hit
  <2>2. gone \in BOOLEAN /\ s.next - 1 \in Int
    BY DEF Scripts
  <2>4. script' = [s EXCEPT !.next = s.next - 1, !.lost = gone]
    BY <2>1 DEF Scripts
  <2> HIDE DEF gone
  <2>3. script' \in Scripts
    BY <2>2, <2>4 DEF Scripts
  <2> QED BY <2>1, <2>3, NoScriptAssumption
<1>7. s = NoScript => script' = NoScript
  BY DEF UseNonce
<1>8. \A t \in Own(mempool) : t.nonce > 0 =>
         \E u \in Own(mempool)' : u.step = t.step /\ u.nonce = t.nonce - 1
  BY <1>1, <1>2 DEF Own
<1>9. \A u \in Own(mempool)' : \E t \in Own(mempool) :
         u.step = t.step /\ u.nonce = t.nonce - 1
  BY <1>1, <1>2 DEF Own
<1>10. script' = NoScript => Own(mempool)' = {}
  BY <1>6, <1>7, <1>9 DEF MempoolOrder
<1> QED BY <1>4, <1>5, <1>6, <1>7, <1>8, <1>9, <1>10 DEF MempoolOrder

(* A run decides on what it finds missing.                                 *)
LEMMA RunInv ==
    ASSUME DeployInv, NEW w \in Wirings, run(w)
    PROVE  DeployInv'
<1>1. /\ script = NoScript /\ Own(mempool) = {} /\ UNCHANGED <<onchain, config, mempool>>
      /\ script' = [wiring |-> w, plan |-> Plan(w), next |-> 0, lost |-> FALSE, touched |-> FALSE]
      /\ WiringMatches(w)
  BY DEF run, Simulates, DeployInv, MempoolOrder, chainVars
<1>2. /\ Plan(w) \subseteq 1..7
      /\ \A i \in 1..7 : i \in Plan(w) <=> Needed(Steps(w)[i])
  BY StepsType DEF Plan
<1>3. script' \in Scripts
  BY <1>1, <1>2 DEF Scripts
<1>4. DeployTypes' /\ MempoolOrder'
  BY <1>1, <1>3 DEF DeployInv, DeployTypes, MempoolOrder, Own
<1>5. ASSUME NEW i \in 1..7 PROVE InPlace(Steps(w)[i])' \/ i \in Plan(w)
  <2> DEFINE s == Steps(w)[i]
  <2>1. s \in StepSet /\ (s.do = "init" => s.wiring = w)
    BY StepsType
  <2> HIDE DEF s
  <2>2. Needed(s) \/ InPlace(s)
    BY <1>1, <2>1 DEF Needed, InPlace, WiringMatches, StepSet, Create, Init, Set, Contracts, Fields
  <2>3. InPlace(s) => InPlace(s)'
    BY <1>1 DEF InPlace
  <2> QED BY <1>2, <2>2, <2>3 DEF s
<1>6. ConfigFirst'
  <2>1. Steps(w)[1] = Create("config")
    BY StepsType
  <2>2. "config" \in onchain \/ 1 \in Plan(w)
    BY <1>2, <2>1 DEF Needed, Create
  <2> QED BY <1>1, <2>2 DEF ConfigFirst, Own
<1>7. Underway'
  BY <1>1, <1>5, <1>6 DEF Underway, Own
<1> QED BY <1>4, <1>7 DEF DeployInv

(* A sent transaction takes the nonce after those sent before it.          *)
LEMMA SendInv ==
    ASSUME DeployInv, Send
    PROVE  DeployInv'
<1>1. PICK i \in script.plan :
         LET tx == [nonce |-> script.next, step |-> Steps(script.wiring)[i], own |-> TRUE]
             others == {t \in mempool : t.nonce # tx.nonce}
         IN  /\ \A j \in script.plan : i <= j
             /\ \/ /\ script.next >= 0
                   /\ mempool' = others \cup {tx}
                   /\ script' = [script EXCEPT !.plan = @ \ {i}, !.next = @ + 1]
                \/ /\ script.next < 0 \/ others # mempool
                   /\ script' = [script EXCEPT !.lost = TRUE]
                   /\ UNCHANGED mempool
  BY DEF Send
<1>2. script \in Scripts /\ script # NoScript /\ UNCHANGED <<config, onchain>>
  BY DEF Send, DeployInv, DeployTypes, chainVars
<1>3. i \in 1..7 /\ script.plan \subseteq 1..7 /\ script.next \in Int
  BY <1>1, <1>2 DEF Scripts
<1>w. PICK w \in Wirings : script.wiring = w
  BY <1>2 DEF Scripts
<1> DEFINE tx == [nonce |-> script.next, step |-> Steps(w)[i], own |-> TRUE]
           others == {t \in mempool : t.nonce # script.next}
<1>4. CASE script' = [script EXCEPT !.lost = TRUE] /\ UNCHANGED mempool
  <2>1. script' \in Scripts /\ script'.lost
    BY <1>2, <1>4 DEF Scripts
  <2> QED BY <1>2, <1>4, <2>1, NoScriptAssumption
          DEF DeployInv, DeployTypes, MempoolOrder, Underway, OnTrack, Own
<1>5. CASE /\ script.next >= 0 /\ mempool' = others \cup {tx}
           /\ script' = [script EXCEPT !.plan = @ \ {i}, !.next = @ + 1]
  <2>1. /\ tx \in Transactions /\ tx.nonce = script.next /\ tx.own /\ tx.step = Steps(w)[i]
    BY <1>3, <1>5, StepsType DEF Transactions
  <2> HIDE DEF tx
  <2>2. /\ script' \in Scripts /\ script' # NoScript /\ script'.wiring = w
        /\ script'.plan = script.plan \ {i} /\ script'.next = script.next + 1
        /\ script'.lost = script.lost /\ script'.touched = script.touched
    <3> DEFINE rest == script.plan \ {i}
    <3>1. rest \subseteq 1..7 /\ script.next + 1 \in Int
      BY <1>3
    <3>2. script' = [script EXCEPT !.plan = rest, !.next = script.next + 1]
      BY <1>2, <1>5 DEF Scripts
    <3> HIDE DEF rest
    <3>3. script' \in Scripts
      BY <1>2, <3>1, <3>2 DEF Scripts
    <3>4. /\ script'.wiring = w /\ script'.plan = rest /\ script'.next = script.next + 1
          /\ script'.lost = script.lost /\ script'.touched = script.touched
      BY <1>2, <1>w, <3>2 DEF Scripts
    <3> QED BY <3>3, <3>4, NoScriptAssumption DEF rest
  <2>3. DeployTypes'
    BY <1>2, <1>5, <2>1, <2>2 DEF DeployInv, DeployTypes
  <2>4. MempoolOrder'
    BY <1>5, <2>1, <2>2 DEF DeployInv, MempoolOrder
  <2>5. Underway'
    <3> SUFFICES ASSUME OnTrack'
                 PROVE  /\ \A t \in Own(mempool)' : t.nonce < script'.next
                        /\ \A j \in 1..7 : \/ InPlace(Steps(w)[j])'
                                           \/ j \in script'.plan
                                           \/ \E t \in Own(mempool)' : t.step = Steps(w)[j]
                        /\ ConfigFirst'
      BY <2>2 DEF Underway
    <3>1. OnTrack
      BY <1>2, <2>2 DEF OnTrack
    <3>2. /\ \A t \in Own(mempool) : t.nonce < script.next
          /\ \A j \in 1..7 : \/ InPlace(Steps(w)[j])
                             \/ j \in script.plan
                             \/ \E t \in Own(mempool) : t.step = Steps(w)[j]
          /\ ConfigFirst
      BY <3>1, <1>w DEF DeployInv, Underway
    <3>3. \A t \in Own(mempool) : t.nonce \in Nat /\ t.nonce # script.next
      BY <1>3, <3>2 DEF DeployInv, DeployTypes, Transactions, Own
    <3>4. Own(mempool)' = Own(mempool) \cup {tx}
      BY <1>5, <2>1, <3>3 DEF Own
    <3>5. \A t \in Own(mempool)' : t.nonce < script'.next
      BY <1>3, <2>1, <2>2, <3>2, <3>3, <3>4
    <3>6. ASSUME NEW j \in 1..7
          PROVE  \/ InPlace(Steps(w)[j])'
                 \/ j \in script'.plan
                 \/ \E t \in Own(mempool)' : t.step = Steps(w)[j]
      <4>1. InPlace(Steps(w)[j]) => InPlace(Steps(w)[j])'
        BY <1>2 DEF InPlace
      <4> QED BY <2>1, <2>2, <3>2, <3>4, <4>1
    <3>7. ConfigFirst'
      <4>1. CASE "config" \in onchain
        BY <1>2, <4>1 DEF ConfigFirst
      <4>2. CASE 1 \in script.plan /\ Own(mempool) = {}
        <5>1. i = 1
          BY <1>1, <1>3, <4>2
        <5> QED BY <1>3, <2>1, <3>4, <4>2, <5>1, StepsType DEF ConfigFirst
      <4>3. CASE \E t \in Own(mempool) :
                    t.step = Create("config") /\ \A u \in Own(mempool) \ {t} : t.nonce < u.nonce
        BY <1>3, <2>1, <3>2, <3>4, <4>3 DEF ConfigFirst
      <4> QED BY <3>2, <4>1, <4>2, <4>3 DEF ConfigFirst
    <3> QED BY <3>5, <3>6, <3>7
  <2> QED BY <2>3, <2>4, <2>5 DEF DeployInv
<1> QED BY <1>1, <1>w, <1>4, <1>5

(* Steps that leave the plan alone and undo nothing keep a run underway,   *)
(* when what waits keeps its order and what is included had its effect.    *)
LEMMA StaysUnderway ==
    ASSUME DeployInv, MempoolOrder', OnTrack, OnTrack',
           mempool \subseteq Transactions, onchain \subseteq onchain',
           \A t \in StepSet : InPlace(t) => InPlace(t)',
           \A t \in Own(mempool) : t.nonce = 0 => InPlace(t.step)',
           script'.wiring = script.wiring, script'.plan = script.plan,
           script'.next = script.next - 1,
           \A t \in Own(mempool) : t.nonce > 0 =>
              \E u \in Own(mempool)' : u.step = t.step /\ u.nonce = t.nonce - 1,
           \A u \in Own(mempool)' : \E t \in Own(mempool) :
              u.step = t.step /\ u.nonce = t.nonce - 1
    PROVE  Underway'
<1>1. script \in Scripts
  BY DEF DeployInv, DeployTypes, OnTrack
<1>2. PICK w \in Wirings : script.wiring = w /\ script'.wiring = w
  BY <1>1 DEF Scripts
<1>3. script.plan \subseteq 1..7 /\ script.next \in Int
  BY <1>1 DEF Scripts
<1>4. /\ \A t \in Own(mempool) : t.nonce < script.next
      /\ \A j \in 1..7 : \/ InPlace(Steps(w)[j])
                         \/ j \in script.plan
                         \/ \E t \in Own(mempool) : t.step = Steps(w)[j]
      /\ ConfigFirst
  BY <1>2 DEF DeployInv, Underway
<1>5. \A t \in Own(mempool) : t \in mempool /\ t.nonce \in Nat
  BY DEF Own, Transactions
<1>6. \A t \in Own(mempool)' : t.nonce < script'.next
  BY <1>3, <1>4, <1>5
<1>7. ASSUME NEW j \in 1..7
      PROVE  \/ InPlace(Steps(w)[j])'
             \/ j \in script'.plan
             \/ \E t \in Own(mempool)' : t.step = Steps(w)[j]
  <2>1. Steps(w)[j] \in StepSet
    BY StepsType
  <2>2. CASE InPlace(Steps(w)[j])
    BY <2>1, <2>2
  <2>3. CASE j \in script.plan
    BY <2>3
  <2>4. CASE \E t \in Own(mempool) : t.step = Steps(w)[j]
    <3>1. PICK t \in Own(mempool) : t.step = Steps(w)[j]
      BY <2>4
    <3>2. t.nonce = 0 \/ t.nonce > 0
      BY <1>5
    <3> QED BY <3>1, <3>2
  <2> QED BY <1>4, <2>2, <2>3, <2>4
<1>8. ConfigFirst'
  <2>1. CASE "config" \in onchain
    BY <2>1 DEF ConfigFirst
  <2>2. CASE 1 \in script.plan /\ Own(mempool) = {}
    <3>1. Own(mempool)' = {}
      BY <2>2
    <3> QED BY <2>2, <3>1 DEF ConfigFirst
  <2>3. CASE \E t \in Own(mempool) :
                t.step = Create("config") /\ \A u \in Own(mempool) \ {t} : t.nonce < u.nonce
    <3>1. PICK t \in Own(mempool) :
             t.step = Create("config") /\ \A u \in Own(mempool) \ {t} : t.nonce < u.nonce
      BY <2>3
    <3>2. CASE t.nonce = 0
      <4>1. InPlace(Create("config"))'
        BY <3>1, <3>2
      <4> QED BY <4>1 DEF InPlace, Create, Set, ConfigFirst
    <3>3. CASE t.nonce > 0
      <4>1. PICK u \in Own(mempool)' : u.step = t.step /\ u.nonce = t.nonce - 1
        BY <3>3
      <4>2. ASSUME NEW v \in Own(mempool)', v # u
            PROVE  u.nonce < v.nonce
        <5>1. PICK x \in Own(mempool) : v.step = x.step /\ v.nonce = x.nonce - 1
          OBVIOUS
        <5>2. x # t
          BY <4>1, <4>2, <5>1 DEF MempoolOrder, Own
        <5> QED BY <1>5, <3>1, <4>1, <5>1, <5>2
      <4> QED BY <3>1, <4>1, <4>2 DEF ConfigFirst
    <3> QED BY <1>5, <3>2, <3>3
  <2> QED BY <1>4, <2>1, <2>2, <2>3 DEF ConfigFirst
<1> QED BY <1>2, <1>6, <1>7, <1>8 DEF Underway

(* An included transaction, of this run or of an earlier one.              *)
LEMMA LandsInv ==
    ASSUME DeployInv, NEW tx, Lands(tx)
    PROVE  DeployInv'
<1>1. DeployTypes /\ MempoolOrder /\ Underway /\ mempool \subseteq Transactions
  BY DEF DeployInv, DeployTypes
<1>2. tx \in mempool /\ tx.nonce = 0 /\ tx.step \in StepSet /\ tx.own \in BOOLEAN
  <2>1. tx \in mempool /\ tx.nonce = 0
    BY LandsEffect
  <2>2. tx \in Transactions
    BY <1>1, <2>1
  <2> QED BY <2>1, <2>2 DEF Transactions
<1>3. PICK hit \in BOOLEAN :
         /\ UseNonce(script, hit)
         /\ \/ Call(tx.step)
            \/ UNCHANGED <<config, onchain>> /\ hit = tx.own
  BY <1>2, LandsEffect
<1>4. /\ DOMAIN config' = DOMAIN config
      /\ onchain \subseteq onchain' /\ onchain' \subseteq Contracts
      /\ \A t \in StepSet : InPlace(t) => InPlace(t)'
  <2>1. CASE Call(tx.step)
    BY <1>1, <1>2, <2>1, CallEffect
  <2>2. CASE UNCHANGED <<config, onchain>>
    BY <1>1, <2>2 DEF DeployTypes, InPlace
  <2> QED BY <1>3, <2>1, <2>2
<1>5. script \in Scripts \cup {NoScript} /\ (script = NoScript <=> script = NoScript)
  BY <1>1 DEF DeployTypes
<1>6. /\ mempool' \subseteq Transactions
      /\ MempoolOrder'
      /\ script \in Scripts =>
           /\ script' \in Scripts /\ script' # NoScript
           /\ script' = [script EXCEPT !.next = @ - 1, !.lost = @ \/ hit]
      /\ script = NoScript => script' = NoScript
      /\ \A t \in Own(mempool) : t.nonce > 0 =>
            \E u \in Own(mempool)' : u.step = t.step /\ u.nonce = t.nonce - 1
      /\ \A u \in Own(mempool)' : \E t \in Own(mempool) :
            u.step = t.step /\ u.nonce = t.nonce - 1
  BY <1>1, <1>3, <1>5, UseNonceEffect
<1>7. DeployTypes'
  BY <1>1, <1>4, <1>5, <1>6 DEF DeployTypes
<1>8. ASSUME OnTrack'
      PROVE  Underway'
  <2>1. script \in Scripts
    BY <1>5, <1>6, <1>8 DEF OnTrack
  <2>2. script'.lost = (script.lost \/ hit)
    BY <1>6, <2>1 DEF Scripts
  <2>3. /\ script'.touched = script.touched /\ script'.wiring = script.wiring
        /\ script'.plan = script.plan /\ script'.next = script.next - 1
    BY <1>6, <2>1 DEF Scripts
  <2>4. OnTrack /\ ~hit
    BY <1>8, <2>1, <2>2, <2>3, NoScriptAssumption DEF OnTrack
  <2>5. ASSUME NEW t \in Own(mempool), t.nonce = 0
        PROVE  InPlace(t.step)'
    <3>1. t = tx /\ tx.own
      BY <1>1, <1>2, <2>5 DEF MempoolOrder, Own
    <3>2. Call(tx.step)
      BY <1>3, <2>4, <3>1
    <3>3. tx.step.do = "create" \/ "config" \in onchain
      <4>1. ConfigFirst /\ tx \in Own(mempool)
        BY <1>1, <2>4, <2>5, <3>1 DEF Underway
      <4>2. \A u \in Own(mempool) : u.nonce \in Nat
        BY <1>1 DEF Own, Transactions
      <4>3. ASSUME NEW u \in Own(mempool), u.step = Create("config"),
                   \A v \in Own(mempool) \ {u} : u.nonce < v.nonce
            PROVE  tx.step = Create("config")
        BY <1>2, <4>1, <4>2, <4>3
      <4> QED BY <4>1, <4>3 DEF ConfigFirst, Create
    <3> QED BY <1>1, <1>2, <3>1, <3>2, <3>3, CallEffect
  <2> QED BY <1>1, <1>4, <1>6, <1>8, <2>3, <2>4, <2>5, StaysUnderway
<1>9. Underway'
  BY <1>8 DEF Underway
<1> QED BY <1>6, <1>7, <1>9 DEF DeployInv

(* The owner's hand on Config leaves the run marked.                       *)
LEMMA ByHandInv ==
    ASSUME DeployInv, NEW s, ByHand(s)
    PROVE  DeployInv'
<1>1. DeployTypes /\ MempoolOrder /\ UNCHANGED onchain
  BY DEF DeployInv, ByHand
<1>2. DOMAIN config' = DOMAIN config
  BY DEF ByHand, FeeSetter, AccessSetter, Governance, setSetupFee, setBaseFee, setFeePpm,
         setFeeCollector, setPublicFlush, setOperator, setFactory, setSweepDelay,
         setRescueSink, init, transferOwnership, acceptOwnership
<1>3. /\ script = NoScript => Touch(script) = NoScript
      /\ script # NoScript => /\ Touch(script) \in Scripts /\ Touch(script).touched
                              /\ Touch(script) # NoScript
  BY <1>1, NoScriptAssumption DEF DeployTypes, Touch, Scripts
<1>4. CASE script' = Touch(script) /\ UNCHANGED mempool
  <2>1. DeployTypes' /\ MempoolOrder'
    BY <1>1, <1>2, <1>3, <1>4 DEF DeployTypes, MempoolOrder, Own
  <2>2. ~OnTrack'
    BY <1>3, <1>4 DEF OnTrack
  <2> QED BY <2>1, <2>2 DEF DeployInv, Underway
<1>5. CASE UseNonce(Touch(script), \E tx \in Own(mempool) : tx.nonce = 0)
  <2>1. PICK hit \in BOOLEAN : UseNonce(Touch(script), hit)
    BY <1>5
  <2>2. /\ Touch(script) \in Scripts \cup {NoScript}
        /\ Touch(script) = NoScript <=> script = NoScript
    BY <1>1, <1>3 DEF DeployTypes
  <2>3. /\ mempool' \subseteq Transactions
        /\ MempoolOrder'
        /\ Touch(script) \in Scripts =>
             /\ script' \in Scripts /\ script' # NoScript
             /\ script' = [Touch(script) EXCEPT !.next = @ - 1, !.lost = @ \/ hit]
        /\ Touch(script) = NoScript => script' = NoScript
    BY <1>1, <2>1, <2>2, UseNonceEffect
  <2>4. DeployTypes'
    BY <1>1, <1>2, <2>2, <2>3 DEF DeployTypes
  <2>5. ~OnTrack'
    <3>1. CASE script = NoScript
      BY <2>2, <2>3, <3>1 DEF OnTrack
    <3>2. CASE script # NoScript
      <4>1. script'.touched = Touch(script).touched
        BY <1>3, <2>3, <3>2 DEF Scripts
      <4> QED BY <1>3, <3>2, <4>1 DEF OnTrack
    <3> QED BY <3>1, <3>2
  <2> QED BY <2>3, <2>4, <2>5 DEF DeployInv, Underway
<1> QED BY <1>4, <1>5 DEF ByHand

(* A run that is over leaves its transactions to their fate.               *)
LEMMA AbortsInv ==
    ASSUME DeployInv, Aborts
    PROVE  DeployInv'
<1>1. /\ script' = NoScript /\ UNCHANGED <<config, onchain>>
      /\ mempool' = {[tx EXCEPT !.own = FALSE] : tx \in mempool}
  BY DEF Aborts, Orphaned, chainVars
<1>2. DeployTypes /\ MempoolOrder /\ mempool \subseteq Transactions
  BY DEF DeployInv, DeployTypes
<1> DEFINE orphan(t) == [t EXCEPT !.own = FALSE]
<1>3. \A t \in mempool : orphan(t) \in Transactions /\ orphan(t).nonce = t.nonce /\ ~orphan(t).own
  BY <1>2 DEF Transactions
<1>4. mempool' = {orphan(t) : t \in mempool}
  BY <1>1
<1> HIDE DEF orphan
<1>5. mempool' \subseteq Transactions /\ Own(mempool)' = {}
  BY <1>3, <1>4 DEF Own
<1>6. \A t \in mempool', u \in mempool' : t.nonce = u.nonce => t = u
  <2> SUFFICES ASSUME NEW t \in mempool, NEW u \in mempool, orphan(t).nonce = orphan(u).nonce
               PROVE  orphan(t) = orphan(u)
    BY <1>4
  <2> QED BY <1>2, <1>3 DEF MempoolOrder
<1>7. DeployTypes' /\ MempoolOrder'
  BY <1>1, <1>2, <1>5, <1>6 DEF DeployTypes, MempoolOrder
<1> QED BY <1>1, <1>7 DEF DeployInv, Underway, OnTrack

(* A dropped transaction of the run in progress is a loss it notices.      *)
LEMMA EvictedInv ==
    ASSUME DeployInv, NEW tx, Evicted(tx)
    PROVE  DeployInv'
<1>1. /\ tx \in mempool /\ mempool' = mempool \ {tx} /\ UNCHANGED <<config, onchain>>
      /\ script' = IF tx.own THEN [script EXCEPT !.lost = TRUE] ELSE script
  BY DEF Evicted, chainVars
<1>2. DeployTypes /\ MempoolOrder /\ Underway
  BY DEF DeployInv
<1>3. CASE tx.own
  <2>1. script \in Scripts
    BY <1>1, <1>2, <1>3 DEF DeployTypes, MempoolOrder, Own
  <2>2. script' \in Scripts /\ script'.lost
    BY <1>1, <1>3, <2>1 DEF Scripts
  <2> QED BY <1>1, <1>2, <2>2, NoScriptAssumption
          DEF DeployInv, DeployTypes, MempoolOrder, Underway, OnTrack
<1>4. CASE ~tx.own
  <2>1. script' = script /\ Own(mempool)' = Own(mempool)
    BY <1>1, <1>4 DEF Own
  <2>2. DeployTypes' /\ MempoolOrder'
    BY <1>1, <1>2, <2>1 DEF DeployTypes, MempoolOrder
  <2>3. Underway'
    BY <1>1, <1>2, <2>1 DEF Underway, OnTrack, ConfigFirst, InPlace
  <2> QED BY <2>2, <2>3 DEF DeployInv
<1> QED BY <1>3, <1>4

(* A stranger's contract is the one the script wanted at that address.     *)
LEMMA StrangerInv ==
    ASSUME DeployInv, NEW c \in Contracts, Stranger(c)
    PROVE  DeployInv'
<1>1. onchain' = onchain \cup {c} /\ UNCHANGED <<config, mempool, script>>
  BY DEF Stranger, Creates
<1>2. DeployTypes' /\ MempoolOrder'
  BY <1>1 DEF DeployInv, DeployTypes, MempoolOrder, Own
<1>3. \A s : InPlace(s) => InPlace(s)'
  BY <1>1 DEF InPlace
<1>4. Steps(script'.wiring) = Steps(script.wiring) /\ Own(mempool)' = Own(mempool)
  BY <1>1 DEF Own
<1>5. Underway'
  <2> SUFFICES ASSUME OnTrack' PROVE Underway'
    BY DEF Underway
  <2>1. OnTrack
    BY <1>1 DEF OnTrack
  <2>2. ConfigFirst'
    BY <1>1, <1>4, <2>1 DEF DeployInv, Underway, ConfigFirst
  <2>3. \A i \in 1..7 : InPlace(Steps(script.wiring)[i]) => InPlace(Steps(script.wiring)[i])'
    BY <1>1, <1>3, <1>4
  <2> QED BY <1>1, <1>4, <2>1, <2>2, <2>3 DEF DeployInv, Underway
<1> QED BY <1>2, <1>5 DEF DeployInv

LEMMA DeployNextInv == DeployInv /\ [DeployNext]_deployVars => DeployInv'
<1> SUFFICES ASSUME DeployInv, [DeployNext]_deployVars PROVE DeployInv'
  OBVIOUS
<1>1. ASSUME NEW w \in Wirings, run(w) PROVE DeployInv'
  BY <1>1, RunInv
<1>2. CASE Send
  BY <1>2, SendInv
<1>3. CASE Report
  BY <1>3 DEF Report, DeployInv, DeployTypes, MempoolOrder, Underway, OnTrack, Own, chainVars
<1>4. CASE GiveUp \/ Killed
  BY <1>4, AbortsInv DEF GiveUp, Killed
<1>5. ASSUME NEW tx \in mempool, Lands(tx) PROVE DeployInv'
  BY <1>5, LandsInv
<1>6. ASSUME NEW tx \in mempool, Evicted(tx) PROVE DeployInv'
  BY <1>6, EvictedInv
<1>7. ASSUME NEW c \in {"config", "impl", "factory"}, Stranger(c) PROVE DeployInv'
  BY <1>7, StrangerInv DEF Contracts
<1>8. ASSUME NEW s \in Users, ByHand(s) PROVE DeployInv'
  BY <1>8, ByHandInv
<1>9. CASE CircleMoves \/ UNCHANGED deployVars
  <2>1. UNCHANGED <<config, onchain, mempool, script>>
    BY <1>9 DEF CircleMoves, deployVars, chainVars
  <2> QED BY <2>1 DEF DeployInv, DeployTypes, MempoolOrder, Underway, OnTrack, Own,
                      ConfigFirst, InPlace
<1> QED BY <1>1, <1>2, <1>3, <1>4, <1>5, <1>6, <1>7, <1>8, <1>9 DEF DeployNext, Process

(* However runs, killed runs, strangers and evictions interleave, there is *)
(* one transaction per nonce, and a run that lost nothing and met no other *)
(* hand has each of its seven steps in place, planned or on its way, with  *)
(* Config before whatever calls it.                                        *)
THEOREM DeployInvariant == DeploySpec => []DeployInv
BY DeployInitInv, DeployNextInv, PTL DEF DeploySpec

(* Once all seven steps are in place the chain is wired.                   *)
LEMMA AllInPlace ==
    ASSUME DeployTypes, NEW w \in Wirings, \A i \in 1..7 : InPlace(Steps(w)[i])
    PROVE  Wired(w)
<1>1. /\ InPlace(Create("config")) /\ InPlace(Init(w)) /\ InPlace(Create("impl"))
      /\ InPlace(Create("factory")) /\ InPlace(Set("operator")) /\ InPlace(Set("factory"))
      /\ InPlace(Set("feeCollector"))
  <2>1. 1 \in 1..7 /\ 2 \in 1..7 /\ 3 \in 1..7 /\ 4 \in 1..7 /\ 5 \in 1..7 /\ 6 \in 1..7 /\ 7 \in 1..7
    OBVIOUS
  <2> QED BY <2>1, StepsType
<1>2. onchain = {"config", "impl", "factory"}
  BY <1>1 DEF DeployTypes, Contracts, InPlace, Create, Set
<1> QED BY <1>1, <1>2 DEF Wired, InPlace, Create, Init, Set

(* A run that reports success has wired the chain as its arguments say,    *)
(* for any wirings and any number of killed runs, strangers and evictions, *)
(* unless the owner used Config by hand meanwhile (DeployCwia.run).        *)
THEOREM ReportedWired == DeploySpec => ReportedMeansWired
<1>1. ASSUME DeployInv, [DeployNext]_deployVars
      PROVE  \A w \in reported' \ reported : script.touched \/ Wired(w)
  <2>1. CASE Report
    <3>1. /\ script \in Scripts /\ script.plan = {} /\ ~script.lost /\ Own(mempool) = {}
          /\ script # NoScript /\ reported' = reported \cup {script.wiring}
      BY <1>1, <2>1 DEF Report, DeployInv, DeployTypes
    <3>2. PICK w \in Wirings : script.wiring = w
      BY <3>1 DEF Scripts
    <3>3. ~script.touched => \A i \in 1..7 : InPlace(Steps(w)[i])
      BY <1>1, <3>1, <3>2 DEF DeployInv, Underway, OnTrack
    <3>4. script.touched \/ Wired(w)
      BY <1>1, <3>3, AllInPlace DEF DeployInv
    <3> QED BY <3>1, <3>2, <3>4
  <2>2. CASE ~Report
    <3>1. reported' = reported
      BY <1>1, <2>2, LandsEffect DEF DeployNext, Process, run, Send, GiveUp, Killed, Aborts, Lands,
         Evicted, Stranger, ByHand, CircleMoves, deployVars
    <3> QED BY <3>1
  <2> QED BY <2>1, <2>2
<1> QED BY <1>1, DeployInvariant, PTL DEF DeploySpec, ReportedMeansWired
=============================================================================

-------------------------- MODULE CrossMesh_proofs --------------------------
(***************************************************************************)
(* From the deposit address to the recipient's hands: the factory lends    *)
(* its flush right to nobody, the contracts of an EVM chain implement the  *)
(* custody promise of DepositCustody, and of all that leaves the deposit   *)
(* addresses nothing is lost on the way to Stellar, for any clones, caps,  *)
(* callers, owners, recipients and behaviour of Circle and the fillers.    *)
(***************************************************************************)
EXTENDS CrossMesh, DepositForwarder_proofs, FiniteSetTheorems, SequenceTheorems, TLAPS

USE PpmAssumption, CircleInputsAssumption, CctpCapAssumption,
    CapsAssumption, ConfigAssumption, ForwarderAssumption

-----------------------------------------------------------------------------
(* Sums over finite sets.  Their recursive definition is reached through   *)
(* the least counterexample: an induction that needs no operator argument. *)
Less == {ss \in Nat \X Nat : ss[1] < ss[2]}

LEMMA Least ==
    ASSUME NEW N \in SUBSET Nat, N # {}
    PROVE  \E n \in N : \A m \in N : n <= m
<1>1. IsWellFoundedOn(Less, Nat)
  BY NatLessThanWellFounded DEF OpToRel, Less
<1>2. PICK n \in N : \A m \in N : <<m, n>> \notin Less
  BY <1>1, WFMin
<1>3. ASSUME NEW m \in N, m < n PROVE FALSE
  <2>1. <<m, n>> \in Nat \X Nat /\ <<m, n>>[1] < <<m, n>>[2]
    BY <1>3
  <2> QED BY <1>2, <2>1 DEF Less
<1>4. \A m \in N : n <= m
  BY <1>3
<1> QED BY <1>4

LEMMA CountUp ==
    ASSUME NEW N, 0 \in N, \A n \in Nat : n \in N => n + 1 \in N
    PROVE  Nat \subseteq N
<1> SUFFICES ASSUME Nat \ N # {} PROVE FALSE
  OBVIOUS
<1>1. PICK n \in Nat \ N : \A m \in Nat \ N : n <= m
  BY Least
<1>2. n # 0 /\ n - 1 \in Nat
  BY <1>1
<1>3. n - 1 \in N
  BY <1>1, <1>2
<1>4. (n - 1) + 1 \in N
  BY <1>2, <1>3
<1> QED BY <1>1, <1>4

LEMMA FiniteInduction ==
    ASSUME NEW S, IsFiniteSet(S), NEW F,
           \A U \in SUBSET S : (\A x \in U : U \ {x} \in F) => U \in F
    PROVE  SUBSET S \subseteq F
<1> DEFINE N == {n \in Nat : \A U \in SUBSET S : Cardinality(U) = n => U \in F}
<1>1. 0 \in N
  BY FS_Subset, FS_EmptySet
<1>2. ASSUME NEW n \in Nat, n \in N PROVE n + 1 \in N
  <2> SUFFICES ASSUME NEW U \in SUBSET S, Cardinality(U) = n + 1 PROVE U \in F
    OBVIOUS
  <2>1. ASSUME NEW x \in U PROVE U \ {x} \in F
    <3>1. IsFiniteSet(U)
      BY FS_Subset
    <3>2. Cardinality(U \ {x}) = Cardinality(U) - 1
      BY <3>1, FS_RemoveElement
    <3>3. Cardinality(U \ {x}) = n
      BY <3>2
    <3> QED BY <1>2, <3>3
  <2> QED BY <2>1
<1> HIDE DEF N
<1>3. Nat \subseteq N
  BY <1>1, <1>2, CountUp
<1>4. ASSUME NEW U \in SUBSET S PROVE Cardinality(U) \in Nat
  BY FS_Subset, FS_CardinalityType
<1> QED BY <1>3, <1>4 DEF N

Partial(f, it, s) ==
    IF s = {} THEN 0
    ELSE LET x == CHOOSE y \in s : TRUE IN f[x] + it[s \ {x}]

Sums(f, S, it) == it = [s \in SUBSET S |-> Partial(f, it, s)]

LEMMA SumsExist ==
    ASSUME NEW f, NEW S, IsFiniteSet(S)
    PROVE  \E it : Sums(f, S, it)
<1> DEFINE Upto(it, n) == \A s \in SUBSET S : Cardinality(s) <= n => it[s] = Partial(f, it, s)
           N == {n \in Nat : \E it : Upto(it, n)}
<1>0. ASSUME NEW s \in SUBSET S
      PROVE  /\ Cardinality(s) \in Nat /\ (Cardinality(s) = 0 <=> s = {})
             /\ \A x \in s : s \ {x} \in SUBSET S /\ Cardinality(s \ {x}) = Cardinality(s) - 1
  BY FS_Subset, FS_CardinalityType, FS_EmptySet, FS_RemoveElement
<1>1. 0 \in N
  <2> DEFINE it == [s \in SUBSET S |-> 0]
  <2>1. Upto(it, 0)
    BY <1>0 DEF Partial
  <2> QED BY <2>1
<1>2. ASSUME NEW n \in Nat, n \in N PROVE n + 1 \in N
  <2>1. PICK it : Upto(it, n)
    BY <1>2
  <2> DEFINE more == [s \in SUBSET S |-> Partial(f, it, s)]
  <2>2. \A s \in SUBSET S : Cardinality(s) <= n => more[s] = it[s]
    BY <2>1
  <2>3. Upto(more, n + 1)
    <3> SUFFICES ASSUME NEW s \in SUBSET S, Cardinality(s) <= n + 1
                 PROVE  Partial(f, it, s) = Partial(f, more, s)
      OBVIOUS
    <3>1. CASE s = {}
      BY <3>1 DEF Partial
    <3>2. CASE s # {}
      <4> DEFINE x == CHOOSE y \in s : TRUE
      <4>1. x \in s
        BY <3>2
      <4>2. s \ {x} \in SUBSET S /\ Cardinality(s \ {x}) <= n
        BY <1>0, <4>1
      <4>3. more[s \ {x}] = it[s \ {x}]
        BY <2>2, <4>2
      <4> QED BY <3>2, <4>3 DEF Partial
    <3> QED BY <3>1, <3>2
  <2>4. \E jt : Upto(jt, n + 1)
    BY <2>3
  <2> HIDE DEF Upto
  <2> QED BY <2>4
<1> HIDE DEF N
<1>3. Cardinality(S) \in N
  BY <1>0, <1>1, <1>2, CountUp
<1>4. PICK it : Upto(it, Cardinality(S))
  BY <1>3 DEF N
<1>5. \A s \in SUBSET S : it[s] = Partial(f, it, s)
  BY <1>4, FS_Subset
<1> DEFINE all == [s \in SUBSET S |-> it[s]]
<1>6. ASSUME NEW s \in SUBSET S PROVE Partial(f, it, s) = Partial(f, all, s)
  BY DEF Partial
<1>7. Sums(f, S, all)
  <2>1. all = [s \in SUBSET S |-> Partial(f, all, s)]
    BY <1>5, <1>6
  <2> QED BY <2>1 DEF Sums
<1> QED BY <1>7

LEMMA SumDefined ==
    ASSUME NEW f, NEW S, IsFiniteSet(S)
    PROVE  \E it : Sums(f, S, it) /\ SumFunctionOnSet(f, S) = it[S]
<1> DEFINE it == CHOOSE g : Sums(f, S, g)
<1>1. Sums(f, S, it)
  BY SumsExist
<1>2. SumFunctionOnSet(f, S) = it[S]
  BY DEF SumFunctionOnSet, FoldFunctionOnSet, MapThenFoldSet, Sums, Partial
<1> QED BY <1>1, <1>2

LEMMA SumsAgree ==
    ASSUME NEW f, NEW g, NEW S, NEW T \in SUBSET S, IsFiniteSet(S), \A x \in T : f[x] = g[x],
           NEW it, NEW jt, Sums(f, S, it), Sums(g, T, jt)
    PROVE  \A U \in SUBSET T : it[U] = jt[U]
<1> DEFINE F == {U \in SUBSET T : it[U] = jt[U]}
<1>1. IsFiniteSet(T)
  BY FS_Subset
<1>2. ASSUME NEW U \in SUBSET T, \A x \in U : U \ {x} \in F PROVE U \in F
  <2>1. it[U] = Partial(f, it, U) /\ jt[U] = Partial(g, jt, U)
    BY DEF Sums
  <2>2. CASE U = {}
    BY <2>1, <2>2 DEF Partial
  <2>3. CASE U # {}
    <3> DEFINE x == CHOOSE y \in U : TRUE
    <3>1. x \in U
      BY <2>3
    <3>2. it[U \ {x}] = jt[U \ {x}] /\ f[x] = g[x]
      BY <1>2, <3>1
    <3> QED BY <2>1, <2>3, <3>2 DEF Partial
  <2> QED BY <2>2, <2>3
<1> HIDE DEF F
<1>3. SUBSET T \subseteq F
  BY <1>1, <1>2, FiniteInduction
<1> QED BY <1>3 DEF F

LEMMA SumAgrees ==
    ASSUME NEW f, NEW g, NEW S, IsFiniteSet(S), \A x \in S : f[x] = g[x]
    PROVE  SumFunctionOnSet(f, S) = SumFunctionOnSet(g, S)
<1>1. PICK it : Sums(f, S, it) /\ SumFunctionOnSet(f, S) = it[S]
  BY SumDefined
<1>2. PICK jt : Sums(g, S, jt) /\ SumFunctionOnSet(g, S) = jt[S]
  BY SumDefined
<1>3. it[S] = jt[S]
  <2>1. S \in SUBSET S
    OBVIOUS
  <2>2. Sums(f, S, it) /\ Sums(g, S, jt)
    BY <1>1, <1>2
  <2>3. \A U \in SUBSET S : it[U] = jt[U]
    BY <2>1, <2>2, SumsAgree, SMTT(60)
  <2> QED BY <2>1, <2>3
<1> QED BY <1>1, <1>2, <1>3

LEMMA SumUnfolds ==
    ASSUME NEW f, NEW S, IsFiniteSet(S), S # {}
    PROVE  \E x \in S : SumFunctionOnSet(f, S) = f[x] + SumFunctionOnSet(f, S \ {x})
<1> DEFINE x == CHOOSE y \in S : TRUE
<1>1. PICK it : Sums(f, S, it) /\ SumFunctionOnSet(f, S) = it[S]
  BY SumDefined
<1>2. x \in S /\ IsFiniteSet(S \ {x}) /\ S \ {x} \in SUBSET S
  BY FS_Subset
<1>3. PICK jt : Sums(f, S \ {x}, jt) /\ SumFunctionOnSet(f, S \ {x}) = jt[S \ {x}]
  BY <1>2, SumDefined
<1>4. it[S \ {x}] = jt[S \ {x}]
  BY <1>1, <1>2, <1>3, SumsAgree
<1>5. it[S] = f[x] + it[S \ {x}]
  BY <1>1 DEF Sums, Partial
<1> QED BY <1>1, <1>2, <1>3, <1>4, <1>5

LEMMA SumEmpty == ASSUME NEW f PROVE SumFunctionOnSet(f, {}) = 0
<1>1. PICK it : Sums(f, {}, it) /\ SumFunctionOnSet(f, {}) = it[{}]
  BY SumDefined, FS_EmptySet
<1> QED BY <1>1 DEF Sums, Partial

LEMMA SumType ==
    ASSUME NEW f, NEW S, IsFiniteSet(S), \A x \in S : f[x] \in Int
    PROVE  SumFunctionOnSet(f, S) \in Int
<1> DEFINE F == {U \in SUBSET S : SumFunctionOnSet(f, U) \in Int}
<1>1. ASSUME NEW U \in SUBSET S, \A x \in U : U \ {x} \in F PROVE U \in F
  <2>1. CASE U = {}
    BY <2>1, SumEmpty
  <2>2. CASE U # {}
    <3>1. PICK x \in U : SumFunctionOnSet(f, U) = f[x] + SumFunctionOnSet(f, U \ {x})
      BY <2>2, FS_Subset, SumUnfolds
    <3> QED BY <1>1, <3>1
  <2> QED BY <2>1, <2>2
<1> HIDE DEF F
<1>2. SUBSET S \subseteq F
  BY <1>1, FiniteInduction
<1> QED BY <1>2 DEF F

LEMMA SumWithout ==
    ASSUME NEW f, NEW S, IsFiniteSet(S), \A x \in S : f[x] \in Int, NEW x \in S
    PROVE  SumFunctionOnSet(f, S) = f[x] + SumFunctionOnSet(f, S \ {x})
<1> DEFINE Sum(U) == SumFunctionOnSet(f, U)
           F == {U \in SUBSET S : \A y \in U : Sum(U) = f[y] + Sum(U \ {y})}
<1>1. ASSUME NEW U \in SUBSET S, \A y \in U : U \ {y} \in F, NEW y \in U
      PROVE  Sum(U) = f[y] + Sum(U \ {y})
  <2>1. PICK z \in U : Sum(U) = f[z] + Sum(U \ {z})
    BY FS_Subset, SumUnfolds
  <2>2. CASE y = z
    BY <2>1, <2>2
  <2>3. CASE y # z
    <3> DEFINE W == U \ {y, z}
    <3>1. (U \ {z}) \ {y} = W /\ (U \ {y}) \ {z} = W /\ W \in SUBSET S
      OBVIOUS
    <3>2. Sum(U \ {z}) = f[y] + Sum(W) /\ Sum(U \ {y}) = f[z] + Sum(W)
      BY <1>1, <2>3, <3>1
    <3>3. Sum(W) \in Int
      BY <3>1, FS_Subset, SumType
    <3> HIDE DEF Sum, W
    <3> QED BY <2>1, <3>2, <3>3
  <2> QED BY <2>2, <2>3
<1> HIDE DEF F
<1>2. \A U \in SUBSET S : (\A y \in U : U \ {y} \in F) => U \in F
  BY <1>1 DEF F
<1>3. SUBSET S \subseteq F
  BY <1>2, FiniteInduction
<1> QED BY <1>3 DEF F

LEMMA SumZero ==
    ASSUME NEW f, NEW S, IsFiniteSet(S), \A x \in S : f[x] = 0
    PROVE  SumFunctionOnSet(f, S) = 0
<1> DEFINE F == {U \in SUBSET S : SumFunctionOnSet(f, U) = 0}
<1>1. ASSUME NEW U \in SUBSET S, \A x \in U : U \ {x} \in F PROVE U \in F
  <2>1. CASE U = {}
    BY <2>1, SumEmpty
  <2>2. CASE U # {}
    <3>1. PICK x \in U : SumFunctionOnSet(f, U) = f[x] + SumFunctionOnSet(f, U \ {x})
      BY <2>2, FS_Subset, SumUnfolds
    <3> QED BY <1>1, <3>1
  <2> QED BY <2>1, <2>2
<1> HIDE DEF F
<1>2. SUBSET S \subseteq F
  BY <1>1, FiniteInduction
<1> QED BY <1>2 DEF F

-----------------------------------------------------------------------------
(* The factory and its clones.                                             *)

(* A clone that was ever flushed has paid its setup fee.                   *)
EntryPaid == \A c \in Clones : flushes[c] > 0 => setupFeePaid[c]

(* Besides, only clones have code; the rest is the clones' own invariant.  *)
FacInv == Inv /\ EntryPaid /\ deployed \subseteq Clones

LEMMA EntryStep ==
    ASSUME Inv, EntryPaid, [Next]_vars
    PROVE  EntryPaid'
<1>0. TypeOK
  BY DEF Inv
<1>1. ASSUME NEW c \in Clones, NEW amount \in Nat, NEW charge \in BOOLEAN,
             Settle(c, amount, charge)
      PROVE  EntryPaid'
  <2>1. /\ setupFeePaid'[c] = (setupFeePaid[c] \/ charge)
        /\ flushes'[c] = flushes[c] + (IF charge THEN 1 ELSE 0)
        /\ \A d \in Clones \ {c} : setupFeePaid'[d] = setupFeePaid[d] /\ flushes'[d] = flushes[d]
    BY <1>0, <1>1, SettleFee
  <2>2. flushes'[c] > 0 => setupFeePaid'[c]
    <3>1. CASE charge
      BY <2>1, <3>1
    <3>2. CASE ~charge
      <4>1. flushes'[c] = flushes[c]
        BY <1>0, <2>1, <3>2 DEF TypeOK
      <4> QED BY <2>1, <3>2, <4>1 DEF EntryPaid
    <3> QED BY <3>1, <3>2
  <2> QED BY <2>1, <2>2 DEF EntryPaid
<1>2. CASE \E c \in Clones : sweep(c) \/ \E s \in Users \cup WiredFactories : flush(s, c)
  BY <1>0, <1>1, <1>2, AmountsSettled DEF sweep, flush
<1>3. CASE ~\E c \in Clones : sweep(c) \/ \E s \in Users \cup WiredFactories : flush(s, c)
  <2>1. UNCHANGED <<flushes, setupFeePaid>>
    BY <1>0, <1>3, QuietStep
  <2> QED BY <2>1 DEF EntryPaid
<1> QED BY <1>2, <1>3

(* The factory adds no kind of step to the clones: a deployment changes    *)
(* nothing of theirs, and all else is a call they already allow.           *)
LEMMA FacStep ==
    ASSUME deployed \subseteq Clones, [FacNext]_facVars
    PROVE  [Next]_vars /\ deployed' \subseteq Clones
<1>1. CASE \E c \in Clones : deploy(c)
  BY <1>1 DEF deploy, Deploys
<1>2. CASE \E c \in Clones, s \in Users : deployAndFlush(s, c)
  <2>1. PICK c \in Clones : flush(Factory, c) /\ Deploys(c)
    BY <1>2 DEF deployAndFlush
  <2>2. CloneCall(c)
    BY <2>1, FactoryAssumption DEF CloneCall
  <2> QED BY <2>1, <2>2 DEF Next, Deploys
<1>3. CASE \E c \in deployed, s \in Users \cup (WiredFactories \ {Factory}) : flushDirectly(s, c)
  <2>1. /\ \E c \in Clones, s \in Users \cup WiredFactories : flush(s, c)
        /\ deployed' = deployed
    BY <1>3 DEF flushDirectly
  <2> QED BY <2>1 DEF Next, CloneCall
<1>4. CASE /\ \/ \E c \in deployed : requestSweep(c) \/ sweep(c)
              \/ \E s \in Users, a \in deployed \cup {Implementation} : rescueERC20(s, a)
              \/ Environment
           /\ UNCHANGED <<deployed, charger>>
  <2>1. ASSUME NEW c \in deployed, requestSweep(c) \/ sweep(c) PROVE Next
    BY <2>1 DEF CloneCall, Next
  <2>2. ASSUME NEW s \in Users, NEW a \in deployed \cup {Implementation}, rescueERC20(s, a) PROVE Next
    BY <2>2 DEF Holders, Next
  <2>3. Environment => Next
    BY DEF Next
  <2> QED BY <1>4, <2>1, <2>2, <2>3
<1>5. CASE UNCHANGED facVars
  BY <1>5 DEF facVars
<1> QED BY <1>1, <1>2, <1>3, <1>4, <1>5 DEF FacNext

LEMMA FacInitInv == FacInit => FacInv
<1>1. Init => EntryPaid
  BY DEF Init, EntryPaid
<1> QED BY <1>1, InitInv DEF FacInit, FacInv

LEMMA FacNextInv == FacInv /\ [FacNext]_facVars => FacInv'
BY FacStep, NextInv, EntryStep DEF FacInv

(* The clones' inductive invariant holds under the factory too.            *)
THEOREM FactoryInvariant == FacSpec => []FacInv
<1> QED BY FacInitInv, FacNextInv, PTL DEF FacSpec

-----------------------------------------------------------------------------
(* A step that charges a fee was sent by somebody with flush rights.       *)
LEMMA DeputyStep ==
    ASSUME FacInv, [FacNext]_facVars, NEW c \in Clones, flushes'[c] > flushes[c]
    PROVE  HasFlushRights(charger')
<1>0. TypeOK /\ deployed \subseteq Clones /\ flushes[c] \in Nat
  BY DEF FacInv, Inv, TypeOK
<1>1. CASE \E d \in Clones, s \in Users : deployAndFlush(s, d)
  BY <1>1 DEF deployAndFlush, MayRelay, HasFlushRights
<1>2. CASE \E d \in deployed, s \in Users \cup (WiredFactories \ {Factory}) : flushDirectly(s, d)
  <2>1. PICK s \in Users \cup (WiredFactories \ {Factory}) : MayFlush(s) /\ charger' = s
    BY <1>2 DEF flushDirectly, flush
  <2>2. s # Factory
    BY <2>1, FactoryAssumption
  <2> QED BY <2>1, <2>2 DEF MayFlush, HasFlushRights
<1>3. ASSUME NEW d \in deployed, sweep(d) PROVE FALSE
  <2>1. Settle(d, SweepAmount(d), FALSE) /\ SweepAmount(d) \in Nat /\ d \in Clones
    BY <1>0, <1>3, AmountsSettled DEF sweep
  <2>2. flushes' = flushes
    BY <2>1 DEF Settle
  <2> QED BY <1>0, <2>2
<1>4. ASSUME \/ \E d \in Clones : deploy(d) \/ requestSweep(d)
             \/ \E s \in Users, a \in deployed \cup {Implementation} : rescueERC20(s, a)
             \/ Environment
             \/ UNCHANGED facVars
      PROVE  FALSE
  <2>1. flushes' = flushes
    BY <1>4 DEF deploy, requestSweep, rescueERC20, Environment, Deposit, Tick,
                facVars, vars, fwdVars, ledgerVars
  <2> QED BY <1>0, <2>1
<1> QED BY <1>0, <1>1, <1>2, <1>3, <1>4 DEF FacNext

(* DepositFactory.deployAndFlush checks its own caller: whoever sends a    *)
(* transaction that charges a fee is an operator, acts while everybody may *)
(* flush, or is another contract that the owner named as factory.          *)
THEOREM DeputyNotConfused == FacSpec => NoConfusedDeputy
<1>1. ASSUME FacInv, [FacNext]_facVars
      PROVE  [\A c \in Clones : flushes'[c] > flushes[c] => HasFlushRights(charger')]_facVars
  BY <1>1, DeputyStep
<1> QED BY <1>1, FactoryInvariant, PTL DEF FacSpec, NoConfusedDeputy

-----------------------------------------------------------------------------
(* The refinement, step by step: what the promise sees of each call.       *)
LEMMA CustodyInit == Init => Custody!Init
<1> SUFFICES ASSUME Init PROVE Custody!Init
  OBVIOUS
<1>1. \A c \in Clones : usdc[c] = 0 /\ Burned(c) = 0
  BY DEF Init, Burned, Finality, Holders
<1>2. fees = [c \in Clones |-> 0] /\ sweepCap = [c \in Clones |-> 0] /\ flushes = [c \in Clones |-> 0]
  BY DEF Init
<1> QED BY <1>1, <1>2 DEF Custody!Init

(* A settlement of `amount` leaves one address: delivered and fee are what *)
(* it holds less, and another address gains at most the fee.               *)
LEMMA CustodyLeave ==
    ASSUME Inv, Inv', NEW c \in Clones, NEW amount \in Nat, NEW charge \in BOOLEAN,
           Settle(c, amount, charge), DrawDown(c, amount)
    PROVE  /\ Custody!Leave(c)
           /\ Custody!Out(c) + Custody!Fee(c) = amount
           /\ Custody!Fee(c) = fees'[c] - fees[c]
           /\ Custody!Draw(c, amount)
<1>0. TypeOK /\ TypeOK'
  BY DEF Inv
<1>1. /\ 0 < amount /\ amount <= usdc[c] /\ usdc'[c] = usdc[c] - amount
      /\ \A d \in Clones \ {c} : usdc'[d] >= usdc[d]
      /\ Burned(c)' + fees'[c] = Burned(c) + fees[c] + amount
      /\ \A d \in Clones \ {c} : Burned(d)' = Burned(d) /\ fees'[d] = fees[d]
  BY <1>0, SettleEffect
<1>2. /\ fees'[c] - fees[c] \in Nat /\ fees'[c] - fees[c] < amount
      /\ \A d \in Clones \ {c} : usdc'[d] <= usdc[d] + (fees'[c] - fees[c])
  BY <1>0, SettleFee
<1>3. /\ Burned(c) \in Nat /\ Burned(c)' \in Nat /\ fees[c] \in Nat /\ fees'[c] \in Nat
      /\ usdc[c] \in Nat /\ usdc'[c] \in Nat /\ sweepCap[c] \in Nat
  BY <1>0 DEF TypeOK, Burned, Finality, Holders
<1>4. Custody!Fee(c) = fees'[c] - fees[c]
  BY DEF Custody!Fee
<1>5. Custody!Out(c) = Burned(c)' - Burned(c)
  BY DEF Custody!Out, Burned
<1>6. Custody!Out(c) + Custody!Fee(c) = amount /\ Custody!Out(c) > 0
  BY <1>1, <1>2, <1>3, <1>4, <1>5
<1>7. Custody!Leave(c)
  <2>1. usdc'[c] = usdc[c] - Custody!Out(c) - Custody!Fee(c)
    BY <1>1, <1>3, <1>4, <1>5
  <2>2. \A d \in Clones \ {c} : /\ usdc'[d] >= usdc[d] /\ usdc'[d] <= usdc[d] + Custody!Fee(c)
                                 /\ Burned(d)' = Burned(d) /\ fees'[d] = fees[d]
    BY <1>1, <1>2, <1>4 DEF Burned
  <2> QED BY <1>6, <2>1, <2>2 DEF Custody!Leave, Burned
<1>8. Custody!Draw(c, amount)
  <2>1. /\ \A d \in Clones \ {c} : sweepCap'[d] = sweepCap[d]
        /\ \/ sweepableAt[c] = 0 /\ UNCHANGED windowVars
           \/ /\ sweepCap'[c] = 0
              /\ usdc'[c] = 0 \/ sweepCap[c] < amount + MIN_SWEEP_AMOUNT
           \/ /\ sweepableAt'[c] = sweepableAt[c] /\ sweepableAt[c] # 0
              /\ sweepCap'[c] = sweepCap[c] - amount /\ sweepCap'[c] >= MIN_SWEEP_AMOUNT
    BY <1>0, DrawDownEffect
  <2>2. sweepCap \in [Clones -> Nat] /\ sweepCap' \in [Clones -> Nat]
    BY <1>0 DEF TypeOK
  <2>3. sweepCap'[c] = IF sweepCap[c] - amount < MIN_SWEEP_AMOUNT \/ usdc'[c] = 0
                       THEN 0 ELSE sweepCap[c] - amount
    <3>1. CASE sweepableAt[c] = 0 /\ UNCHANGED windowVars
      <4>1. sweepCap[c] = 0
        BY <3>1 DEF Inv, ArmedWindowBurnable
      <4>2. sweepCap'[c] = 0
        BY <3>1, <4>1 DEF windowVars
      <4> QED BY <1>1, <4>1, <4>2
    <3>2. CASE /\ sweepCap'[c] = 0
               /\ usdc'[c] = 0 \/ sweepCap[c] < amount + MIN_SWEEP_AMOUNT
      BY <1>3, <3>2
    <3>3. CASE /\ sweepableAt'[c] = sweepableAt[c] /\ sweepableAt[c] # 0
               /\ sweepCap'[c] = sweepCap[c] - amount /\ sweepCap'[c] >= MIN_SWEEP_AMOUNT
      <4>1. sweepCap'[c] <= usdc'[c]
        BY <3>3 DEF Inv, ArmedWindowBurnable
      <4> QED BY <1>3, <3>3, <4>1
    <3> QED BY <2>1, <3>1, <3>2, <3>3
  <2>4. sweepCap' = [sweepCap EXCEPT ![c] = IF @ - amount < MIN_SWEEP_AMOUNT \/ usdc'[c] = 0
                                            THEN 0 ELSE @ - amount]
    BY <2>1, <2>2, <2>3
  <2> QED BY <2>4 DEF Custody!Draw
<1> QED BY <1>4, <1>6, <1>7, <1>8

LEMMA CustodyFlush ==
    ASSUME Inv, Inv', EntryPaid, NEW c \in Clones, NEW s, flush(s, c)
    PROVE  Custody!ChargedSettle(c)
<1>0. TypeOK
  BY DEF Inv
<1>1. PICK amount \in Nat : Settle(c, amount, TRUE) /\ DrawDown(c, amount)
  BY <1>0, AmountsSettled DEF flush
<1>2. /\ Custody!Leave(c) /\ Custody!Out(c) + Custody!Fee(c) = amount
      /\ Custody!Fee(c) = fees'[c] - fees[c] /\ Custody!Draw(c, amount)
  BY <1>1, CustodyLeave
<1>3. /\ fees'[c] - fees[c] \in Nat
      /\ fees'[c] - fees[c] <= SetupDue(c) + MaxBaseFee + RateFee(amount)
  BY <1>0, <1>1, SettleFee
<1>4. SetupDue(c) + MaxBaseFee <= Custody!FlatFee(c) /\ Custody!FlatFee(c) \in Nat
      /\ SetupDue(c) \in Nat /\ RateFee(amount) \in Nat
  <2>1. flushes[c] \in Nat /\ (flushes[c] > 0 => setupFeePaid[c])
    BY <1>0 DEF TypeOK, EntryPaid
  <2>2. CASE flushes[c] = 0
    BY <1>1, <2>2, RateFeeType DEF SetupDue, Custody!FlatFee
  <2>3. CASE flushes[c] # 0
    <3>1. setupFeePaid[c]
      BY <2>1, <2>3
    <3>2. SetupDue(c) = 0 /\ Custody!FlatFee(c) = MaxBaseFee + 0
      BY <2>3, <3>1 DEF SetupDue, Custody!FlatFee
    <3> QED BY <1>1, <3>2, RateFeeType
  <2> QED BY <2>2, <2>3
<1>5. 0 <= Custody!Fee(c) /\ Custody!Fee(c) <= Custody!FlatFee(c) + RateFee(amount)
  BY <1>2, <1>3, <1>4
<1>6. flushes' = [flushes EXCEPT ![c] = @ + 1]
  BY <1>1 DEF Settle
<1>7. RateFee(amount) = ((Custody!Out(c) + Custody!Fee(c)) * MaxFeePpm) \div PPM_DENOM
  BY <1>2 DEF RateFee
<1>8. Custody!Draw(c, Custody!Out(c) + Custody!Fee(c))
  BY <1>2 DEF Custody!Draw
<1> QED BY <1>2, <1>5, <1>6, <1>7, <1>8 DEF Custody!ChargedSettle

LEMMA CustodySweep ==
    ASSUME Inv, Inv', NEW c \in Clones, sweep(c)
    PROVE  Custody!FreeSettle(c)
<1>0. TypeOK
  BY DEF Inv
<1>1. PICK amount \in Nat :
         /\ amount <= sweepCap[c]
         /\ Settle(c, amount, FALSE) /\ DrawDown(c, amount)
  BY <1>0, AmountsSettled DEF sweep
<1>2. /\ Custody!Leave(c) /\ Custody!Out(c) + Custody!Fee(c) = amount
      /\ Custody!Fee(c) = fees'[c] - fees[c] /\ Custody!Draw(c, amount)
  BY <1>1, CustodyLeave
<1>3. fees'[c] = fees[c] /\ fees[c] \in Nat
  BY <1>0, <1>1, SettleFee DEF TypeOK
<1>4. Custody!Fee(c) = 0
  BY <1>2, <1>3
<1>5. Custody!Out(c) = amount
  <2>1. Custody!Out(c) = Burned(c)' - Burned(c)
    BY DEF Custody!Out, Burned
  <2>2. Burned(c)' + fees'[c] = Burned(c) + fees[c] + amount
    BY <1>0, <1>1, SettleEffect
  <2>3. Burned(c) \in Nat /\ Burned(c)' \in Nat
    BY DEF Inv, TypeOK, Burned, Finality
  <2> QED BY <1>1, <1>3, <2>1, <2>2, <2>3
<1>6. flushes' = flushes
  BY <1>1 DEF Settle
<1>7. Custody!Draw(c, Custody!Out(c))
  BY <1>2, <1>5 DEF Custody!Draw
<1>8. Custody!Out(c) <= sweepCap[c]
  BY <1>1, <1>5
<1> QED BY <1>2, <1>4, <1>6, <1>7, <1>8 DEF Custody!FreeSettle

LEMMA CustodyStep ==
    ASSUME Inv, Inv', EntryPaid, [Next]_vars
    PROVE  Custody!Next \/ UNCHANGED Custody!custodyVars
<1>0. TypeOK /\ TypeOK'
  BY DEF Inv
<1>1. ASSUME NEW c \in Clones, NEW s, flush(s, c) PROVE Custody!Next
  BY <1>1, CustodyFlush DEF Custody!Next
<1>2. ASSUME NEW c \in Clones, sweep(c) PROVE Custody!Next
  BY <1>2, CustodySweep DEF Custody!Next
<1>3. ASSUME NEW c \in Clones, requestSweep(c) PROVE Custody!Next
  <2>1. sweepCap[c] = 0 /\ usdc[c] >= MIN_SWEEP_AMOUNT
    BY <1>3 DEF requestSweep, Inv, ArmedWindowBurnable
  <2>2. sweepCap' = [sweepCap EXCEPT ![c] = usdc[c]] /\ UNCHANGED <<usdc, burned, fees, flushes>>
    BY <1>3 DEF requestSweep, ledgerVars
  <2>3. Custody!SetAside(c)
    BY <2>1, <2>2 DEF Custody!SetAside, Burned
  <2> QED BY <2>3 DEF Custody!Next
<1>4. ASSUME \A c \in Clones : usdc'[c] >= usdc[c],
             UNCHANGED <<burned, fees, flushes, sweepCap>>
      PROVE  Custody!Next
  <2>1. Custody!Receive
    BY <1>4 DEF Custody!Receive, Burned
  <2> QED BY <2>1 DEF Custody!Next
<1>5. ASSUME NEW s, NEW a \in Holders, rescueERC20(s, a) PROVE Custody!Next
  <2>1. a = Implementation
    BY <1>5 DEF rescueERC20, RescueOpen, MayRescueUSDC
  <2>2. \A c \in Clones : usdc'[c] >= usdc[c]
    BY <1>0, <1>5, <2>1 DEF rescueERC20, TypeOK, Holders
  <2> QED BY <1>4, <1>5, <2>2 DEF rescueERC20, windowVars
<1>6. ASSUME NEW a \in Holders, NEW v \in 1..MaxDeposited, Deposit(a, v) PROVE Custody!Next
  <2>1. \A c \in Clones : usdc'[c] >= usdc[c]
    BY <1>0, <1>6 DEF Deposit, TypeOK, Holders
  <2> QED BY <1>4, <1>6, <2>1 DEF Deposit, windowVars
<1>7. CASE \/ Tick
           \/ CircleNext /\ UNCHANGED <<config, fwdVars>>
           \/ ConfigNext /\ UNCHANGED <<circle, fwdVars>>
           \/ UNCHANGED vars
  <2>1. UNCHANGED <<usdc, burned, fees, flushes, sweepCap>>
    BY <1>7 DEF Tick, vars, fwdVars, ledgerVars, windowVars
  <2> QED BY <2>1 DEF Custody!custodyVars, Burned
<1> QED BY <1>1, <1>2, <1>3, <1>5, <1>6, <1>7 DEF Next, CloneCall, Environment

(* The deposit contracts implement DepositCustody: whatever the roles, the *)
(* windows, Circle and the factory do, a deposit address only receives,    *)
(* sets money aside, or settles to its recipient within the fee bound.     *)
THEOREM CustodyImplemented == FacSpec => CustodyKept
<1>1. FacInit => Custody!Init
  BY CustodyInit DEF FacInit
<1>2. FacInv /\ FacInv' /\ [FacNext]_facVars => [Custody!Next]_Custody!custodyVars
  BY FacStep, CustodyStep DEF FacInv
<1> QED BY <1>1, <1>2, FactoryInvariant, PTL DEF FacSpec, CustodyKept, Custody!Spec
-----------------------------------------------------------------------------
(* The Stellar side: what it owes a vault's owner never shrinks.           *)

(* The USDC accounts of the vaults in a ledger.                            *)
Books(l) ==
    /\ {"usdc", "sold", "usdcOut"} \subseteq DOMAIN l
    /\ l.usdc \in [Stellar!Vaults -> Int] /\ l.sold \in [Stellar!Vaults -> Int]
    /\ l.usdcOut \in [Stellar!Vaults \X Stellar!Bases -> Int]

AtVault(l, v) == l.usdc[v] + l.sold[v] + l.usdcOut[Stellar!Payee(v)]

(* Between two ledgers no vault lost USDC, and none gained any but by      *)
(* transfers from outside.                                                 *)
Keeps(k, l) ==
    \A v \in Stellar!Vaults :
        /\ AtVault(k, v) <= AtVault(l, v)
        /\ VaultInputs.usdc = {} => AtVault(k, v) = AtVault(l, v)

(* A vault's payee is an account of its own owner.                         *)
LEMMA PayeeType ==
    ASSUME NEW v \in Stellar!Vaults
    PROVE  Stellar!Payee(v) \in Stellar!Vaults \X Stellar!Bases
BY StellarAssumption DEF Stellar!Payee, Stellar!OwnerOf, Stellar!Vaults, Stellar!Factories, Stellar!Bases

LEMMA BooksSame ==
    ASSUME NEW k, NEW l, Books(k), {"usdc", "sold", "usdcOut"} \subseteq DOMAIN l,
           l.usdc = k.usdc, l.sold = k.sold, l.usdcOut = k.usdcOut
    PROVE  Books(l) /\ Keeps(k, l)
<1>1. Books(l)
  BY DEF Books
<1>2. ASSUME NEW v \in Stellar!Vaults
      PROVE  AtVault(k, v) = AtVault(l, v) /\ AtVault(k, v) \in Int
  BY <1>1, PayeeType DEF Books, AtVault
<1> QED BY <1>1, <1>2 DEF Keeps

LEMMA KeepsOn ==
    ASSUME NEW k, NEW l, NEW m, Books(k), Books(l), Books(m), Keeps(k, l), Keeps(l, m)
    PROVE  Keeps(k, m)
<1>1. ASSUME NEW v \in Stellar!Vaults
      PROVE  AtVault(k, v) \in Int /\ AtVault(l, v) \in Int /\ AtVault(m, v) \in Int
  BY PayeeType DEF Books, AtVault
<1> QED BY <1>1 DEF Keeps

(* Vault::swap hands a token to a filler: USDC moves from held to sold,    *)
(* any other token moves no USDC.                                          *)
LEMMA SellsKeeps ==
    ASSUME NEW l, Books(l), NEW v \in Stellar!Vaults, NEW token, NEW amount,
           token = USDC => amount \in Int, Stellar!Sells(l, v, token, amount)
    PROVE  Books(ledger') /\ Keeps(l, ledger')
<1>1. CASE token = USDC
  <2>1. ledger' = [l EXCEPT !.usdc[v] = @ - amount, !.sold[v] = @ + amount]
    BY <1>1, StellarAssumption DEF Stellar!Sells, Stellar!Assets
  <2>2. /\ DOMAIN ledger' = DOMAIN l
        /\ ledger'.usdc = [l.usdc EXCEPT ![v] = @ - amount]
        /\ ledger'.sold = [l.sold EXCEPT ![v] = @ + amount]
        /\ ledger'.usdcOut = l.usdcOut
    BY <2>1 DEF Books
  <2>3. Books(ledger')
    BY <1>1, <2>2 DEF Books
  <2>4. ASSUME NEW u \in Stellar!Vaults
        PROVE  AtVault(ledger', u) = AtVault(l, u) /\ AtVault(l, u) \in Int
    BY <1>1, <2>2, PayeeType DEF Books, AtVault
  <2> QED BY <2>3, <2>4 DEF Keeps
<1>2. CASE token # USDC
  <2>1. \/ ledger' = [l EXCEPT !.xlm[v] = @ - amount]
        \/ ledger' = l
    BY <1>2 DEF Stellar!Sells
  <2>2. /\ {"usdc", "sold", "usdcOut"} \subseteq DOMAIN ledger'
        /\ ledger'.usdc = l.usdc /\ ledger'.sold = l.sold /\ ledger'.usdcOut = l.usdcOut
    BY <2>1 DEF Books
  <2> QED BY <2>2, BooksSame
<1> QED BY <1>1, <1>2

(* Who a pending call pays is known from the vault's address.              *)
CallOwned ==
    /\ call.vault \in Stellar!Vaults
    /\ call.owner = Stellar!OwnerOf(call.vault)

LEMMA SwapKeeps ==
    ASSUME Books(ledger), NEW l, NEW caller, NEW v \in Stellar!Vaults, NEW o, NEW f,
           NEW amount, NEW w, NEW cfg, cfg.usdc = USDC => amount \in Int,
           Books(l), Keeps(ledger, l), Stellar!SwapOpens(l, caller, v, o, f, amount, w, cfg)
    PROVE  /\ Books(ledger') /\ Keeps(ledger, ledger')
           /\ call'.saved = ledger /\ CallOwned'
<1>1. call'.saved = ledger /\ call'.vault = v /\ call'.owner = o
  BY DEF Stellar!SwapOpens
<1>2. CallOwned'
  BY <1>1 DEF CallOwned, Stellar!SwapOpens, Stellar!require_this_vault,
              Stellar!deployed_address, Stellar!OwnerOf
<1>3. Stellar!Sells(l, v, cfg.usdc, amount)
  BY DEF Stellar!SwapOpens
<1>4. Books(ledger') /\ Keeps(l, ledger')
  BY <1>3, SellsKeeps
<1> QED BY <1>1, <1>2, <1>4, KeepsOn

(* A return of all its USDC to the vault's own owner.                      *)
ReturnsAll(v) ==
    ledger' = [ledger EXCEPT !.usdc[v] = 0,
                             !.usdcOut[Stellar!Payee(v)] = @ + ledger.usdc[v]]

LEMMA ReturnKeeps ==
    ASSUME Books(ledger), NEW v \in Stellar!Vaults, ReturnsAll(v)
    PROVE  Books(ledger') /\ Keeps(ledger, ledger')
<1> DEFINE p == Stellar!Payee(v)
<1>2. CASE ledger' = [ledger EXCEPT !.usdc[v] = 0, !.usdcOut[p] = @ + ledger.usdc[v]]
  <2>1. p \in Stellar!Vaults \X Stellar!Bases
    BY PayeeType
  <2> HIDE DEF p
  <2>2. /\ DOMAIN ledger' = DOMAIN ledger /\ ledger'.sold = ledger.sold
        /\ ledger'.usdc = [ledger.usdc EXCEPT ![v] = 0]
        /\ ledger'.usdcOut = [ledger.usdcOut EXCEPT ![p] = @ + ledger.usdc[v]]
    BY <1>2 DEF Books
  <2>3. Books(ledger')
    BY <2>1, <2>2 DEF Books
  <2>4. ASSUME NEW u \in Stellar!Vaults
        PROVE  AtVault(ledger', u) = AtVault(ledger, u) /\ AtVault(ledger, u) \in Int
    <3>1. Stellar!Payee(u) \in Stellar!Vaults \X Stellar!Bases
      BY PayeeType
    <3>2. u = v <=> Stellar!Payee(u) = p
      BY DEF p, Stellar!Payee
    <3> QED BY <2>1, <2>2, <3>1, <3>2 DEF Books, AtVault, p
  <2> QED BY <2>3, <2>4 DEF Keeps
<1> QED BY <1>2 DEF ReturnsAll

LEMMA WithdrawKeeps ==
    ASSUME Books(ledger), NEW v \in Stellar!Vaults, NEW o \in Owners, NEW f, NEW t,
           Stellar!withdraw(v, o, f, t)
    PROVE  Books(ledger') /\ Keeps(ledger, ledger') /\ call' = call
<1>1. <<v, BaseOf[o]>> = Stellar!Payee(v) /\ call' = call
  BY DEF Stellar!withdraw, Stellar!require_this_vault, Stellar!deployed_address,
         Stellar!Payee, Stellar!OwnerOf
<1>2. CASE t = USDC
  <2>1. ReturnsAll(v)
    BY <1>1, <1>2, StellarAssumption DEF Stellar!withdraw, Stellar!BalanceOf, ReturnsAll
  <2> QED BY <1>1, <2>1, ReturnKeeps
<1>3. CASE t # USDC
  <2>1. /\ {"usdc", "sold", "usdcOut"} \subseteq DOMAIN ledger'
        /\ ledger'.sold = ledger.sold
        /\ ledger'.usdc = ledger.usdc /\ ledger'.usdcOut = ledger.usdcOut
    BY <1>3 DEF Stellar!withdraw, Books
  <2> QED BY <1>1, <2>1, BooksSame
<1> QED BY <1>2, <1>3

(* The rest of Vault::swap: it pays the owner, in USDC if so configured.   *)
LEMMA ClosingKeeps ==
    ASSUME Books(ledger), CallOwned, Stellar!SwapCloses
    PROVE  Books(ledger') /\ Keeps(ledger, ledger') /\ Stellar!Idle'
<1> DEFINE v == call.vault
           b == BaseOf[call.owner]
           after == Stellar!BalanceOf(ledger, v, call.token)
<1>1. v \in Stellar!Vaults /\ <<v, b>> = Stellar!Payee(v) /\ Stellar!Idle'
  BY DEF CallOwned, Stellar!Payee, Stellar!SwapCloses, Stellar!Idle
<1>2. Stellar!Pays(v, b, call.token, after) \/ ledger' = ledger
  BY DEF Stellar!SwapCloses
<1>3. CASE Stellar!Pays(v, b, call.token, after) /\ call.token = USDC
  <2>1. ReturnsAll(v)
    BY <1>1, <1>3, StellarAssumption DEF Stellar!Pays, Stellar!BalanceOf, ReturnsAll
  <2> HIDE DEF v
  <2> QED BY <1>1, <2>1, ReturnKeeps
<1>4. CASE \/ ledger' = ledger
           \/ Stellar!Pays(v, b, call.token, after) /\ call.token # USDC
  <2>1. /\ {"usdc", "sold", "usdcOut"} \subseteq DOMAIN ledger'
        /\ ledger'.sold = ledger.sold
        /\ ledger'.usdc = ledger.usdc /\ ledger'.usdcOut = ledger.usdcOut
    BY <1>4 DEF Stellar!Pays, Books
  <2> QED BY <1>1, <2>1, BooksSame
<1> QED BY <1>2, <1>3, <1>4

(* A credit of USDC to one vault.                                          *)
LEMMA MintCredits ==
    ASSUME Books(ledger), NEW v \in Stellar!Vaults, NEW amount \in Int,
           Stellar!MintAndForward(v, amount)
    PROVE  /\ Books(ledger') /\ call' = call
           /\ \A u \in Stellar!Vaults :
                 /\ AtVault(ledger, u) \in Int
                 /\ AtVault(ledger', u) = AtVault(ledger, u) + (IF u = v THEN amount ELSE 0)
<1>1. /\ DOMAIN ledger' = DOMAIN ledger /\ ledger'.sold = ledger.sold
      /\ ledger'.usdc = [ledger.usdc EXCEPT ![v] = @ + amount]
      /\ ledger'.usdcOut = ledger.usdcOut
  BY DEF Books, Stellar!MintAndForward
<1>2. Books(ledger')
  BY <1>1 DEF Books
<1>3. ASSUME NEW u \in Stellar!Vaults
      PROVE  /\ AtVault(ledger, u) \in Int
             /\ AtVault(ledger', u) = AtVault(ledger, u) + (IF u = v THEN amount ELSE 0)
  BY <1>1, PayeeType DEF Books, AtVault
<1> QED BY <1>2, <1>3 DEF Stellar!MintAndForward

(* What any step on Stellar leaves behind: no vault owes its owner less    *)
(* than before the step or, when a fill traps, than before the transaction *)
(* of the swap.                                                            *)
StellarKept ==
    /\ Books(ledger')
    /\ Keeps(ledger, ledger') \/ (~Stellar!Idle /\ Keeps(call.saved, ledger'))
    /\ \/ Stellar!Idle'
       \/ Stellar!Idle /\ call'.saved = ledger /\ CallOwned'
       \/ ~Stellar!Idle /\ call' = call

LEMMA QuietKept ==
    ASSUME Books(ledger), {"usdc", "sold", "usdcOut"} \subseteq DOMAIN ledger',
           ledger'.usdc = ledger.usdc, ledger'.sold = ledger.sold,
           ledger'.usdcOut = ledger.usdcOut, call' = call \/ Stellar!Idle'
    PROVE  StellarKept
<1>1. Books(ledger') /\ Keeps(ledger, ledger')
  BY BooksSame
<1> QED BY <1>1 DEF StellarKept, Stellar!Idle

LEMMA TrafficKept ==
    ASSUME Books(ledger), Stellar!Traffic
    PROVE  StellarKept
<1>1. ASSUME NEW v \in Stellar!Vaults, NEW o \in Owners, NEW f, NEW t, Stellar!withdraw(v, o, f, t)
      PROVE  StellarKept
  BY <1>1, WithdrawKeeps DEF StellarKept, Stellar!Idle
<1>2. ASSUME NEW v \in Stellar!Vaults, NEW a \in VaultInputs.usdc, Stellar!MintAndForward(v, a)
      PROVE  StellarKept
  <2>1. a \in Nat
    BY StellarAssumption
  <2>2. /\ Books(ledger') /\ call' = call
        /\ \A u \in Stellar!Vaults :
              /\ AtVault(ledger, u) \in Int
              /\ AtVault(ledger', u) = AtVault(ledger, u) + (IF u = v THEN a ELSE 0)
    BY <1>2, <2>1, MintCredits
  <2>3. Keeps(ledger, ledger')
    BY <1>2, <2>1, <2>2 DEF Keeps
  <2> QED BY <2>2, <2>3 DEF StellarKept, Stellar!Idle
<1>3. ASSUME NEW v, NEW a, Stellar!SendXlm(v, a) PROVE StellarKept
  BY <1>3, QuietKept DEF Books, Stellar!SendXlm
<1>4. ASSUME NEW b, \/ Stellar!create_account(b) \/ Stellar!MergeAccount(b)
                    \/ Stellar!create_trustline(b) \/ Stellar!RemoveTrustline(b)
      PROVE  StellarKept
  BY <1>4, QuietKept DEF Books, Stellar!create_account, Stellar!MergeAccount,
                         Stellar!create_trustline, Stellar!RemoveTrustline
<1> QED BY <1>1, <1>2, <1>3, <1>4 DEF Stellar!Traffic

LEMMA WithVaultKeeps ==
    ASSUME Books(ledger), NEW f, NEW o
    PROVE  Books(Stellar!WithVault(f, o)) /\ Keeps(ledger, Stellar!WithVault(f, o))
<1> DEFINE l == Stellar!WithVault(f, o)
<1>1. /\ {"usdc", "sold", "usdcOut"} \subseteq DOMAIN l
      /\ l.usdc = ledger.usdc /\ l.sold = ledger.sold /\ l.usdcOut = ledger.usdcOut
  BY DEF Books, Stellar!WithVault
<1> HIDE DEF l
<1> QED BY <1>1, BooksSame DEF l

LEMMA StellarEffect ==
    ASSUME Books(ledger), ~Stellar!Idle => Books(call.saved) /\ CallOwned,
           Stellar!Next \/ UNCHANGED stellarVars
    PROVE  StellarKept
<1>1. ASSUME NEW f, NEW o, Stellar!deploy(f, o) PROVE StellarKept
  BY <1>1, QuietKept DEF Books, Stellar!deploy, Stellar!WithVault
<1>2. ASSUME NEW r, NEW o, NEW a \in VaultInputs.amount \cup {NoAmount}, NEW w,
             Stellar!swap(r, o, a, w)
      PROVE  StellarKept
  <2> DEFINE l == Stellar!WithVault(StellarFactory, o)
             v == Stellar!derive_address(o)
             cfg == Stellar!read_config
             amount == IF a = NoAmount THEN Stellar!BalanceOf(l, v, cfg.usdc) ELSE a
  <2>1. /\ o \in Owners /\ Stellar!Idle
        /\ Stellar!SwapOpens(l, StellarFactory, v, o, StellarFactory, amount, w, cfg)
    BY <1>2 DEF Stellar!swap, Stellar!settle, Stellar!parse_owner
  <2>2. v \in Stellar!Vaults
    BY <2>1 DEF Stellar!derive_address, Stellar!deployed_address, Stellar!Vaults, Stellar!Factories
  <2>3. Books(l) /\ Keeps(ledger, l)
    BY WithVaultKeeps
  <2>4. cfg.usdc = USDC => amount \in Int
    BY <1>2, <2>2, <2>3, StellarAssumption DEF Books, Stellar!BalanceOf
  <2> HIDE DEF l, v, amount, cfg
  <2>5. /\ Books(ledger') /\ Keeps(ledger, ledger')
        /\ call'.saved = ledger /\ CallOwned'
    BY <2>1, <2>2, <2>3, <2>4, SwapKeeps
  <2> QED BY <2>1, <2>5 DEF StellarKept
<1>3. CASE Stellar!Returns
  <2>1. CASE Stellar!SwapCloses
    <3>1. CallOwned
      BY <2>1 DEF Stellar!SwapCloses
    <3> QED BY <2>1, <3>1, ClosingKeeps DEF StellarKept
  <2>2. CASE Stellar!SwapTraps
    <3>1. ledger' = call.saved /\ ~Stellar!Idle /\ Stellar!Idle' /\ Books(call.saved)
      BY <2>2 DEF Stellar!SwapTraps, Stellar!Idle
    <3>2. Keeps(call.saved, ledger')
      BY <3>1, BooksSame DEF Books
    <3> QED BY <3>1, <3>2 DEF StellarKept
  <2> QED BY <1>3, <2>1, <2>2 DEF Stellar!Returns
<1>4. CASE Stellar!Traffic
  BY <1>4, TrafficKept
<1>5. CASE Stellar!Governance
  <2>1. ledger' = ledger /\ call' = call
    BY <1>5 DEF Stellar!Governance, Stellar!set_relayer, Stellar!set_discount, Stellar!set_admin
  <2> QED BY <2>1, QuietKept DEF Books
<1>6. CASE Stellar!Surroundings \/ UNCHANGED stellarVars
  <2>1. ledger' = ledger /\ call' = call
    BY <1>6 DEF Stellar!Surroundings, stellarVars
  <2> QED BY <2>1, QuietKept DEF Books
<1> QED BY <1>1, <1>2, <1>3, <1>4, <1>5, <1>6 DEF Stellar!Next

-----------------------------------------------------------------------------
(* The messages between the chains.                                        *)

(* A message promises what was burned, to a recipient of a clone, and      *)
(* allows Circle less than all of it and no more than the cap.             *)
Message == [recipient : {Recipient(c) : c \in Clones}, amount : Nat,
            maxFee : Nat, fee : Nat \cup {NotMinted}]

Allowed(m) ==
    /\ m.maxFee < m.amount /\ m.maxFee <= CeilPpm(m.amount * MaxCctpFeePpm)
    /\ m.fee # NotMinted => m.fee <= m.maxFee

(* What the recipients are owed, by the ledger l.                          *)
Owed(l) ==
    \A r \in DOMAIN Destination :
        /\ Sent(Destination[r]) <= Accounted(l, Destination[r])
        /\ VaultInputs.usdc = {} => Sent(Destination[r]) = Accounted(l, Destination[r])

MeshTypes ==
    /\ FacInv
    /\ messages \in Seq(Message)
    /\ \A i \in DOMAIN messages : Allowed(messages[i])
    /\ wallet \in [Stellar!Bases -> Int]

(* The inductive invariant: a swap that traps goes back to a ledger that   *)
(* owes its recipients as much, because no message is minted during it.    *)
MeshInv ==
    /\ MeshTypes
    /\ Books(ledger) /\ Owed(ledger)
    /\ ~Stellar!Idle => Books(call.saved) /\ Owed(call.saved) /\ CallOwned

(* Sums over a recipient's clones and messages are sums of naturals.       *)
Tallies(d) ==
    /\ IsFiniteSet(Mine(d)) /\ \A c \in Mine(d) : Left[c] = Burned(c) /\ Left[c] \in Nat
    /\ IsFiniteSet(Mails(d)) /\ \A i \in Mails(d) : Outside[i] \in Nat
    /\ DOMAIN messages = 1..Len(messages) /\ Len(messages) \in Nat

LEMMA MinesAndMails == MeshTypes => \A d : Tallies(d)
<1> SUFFICES ASSUME MeshTypes, NEW d PROVE Tallies(d)
  OBVIOUS
<1>1. IsFiniteSet(Mine(d))
  BY MeshAssumption, FS_Subset DEF Mine
<1>2. ASSUME NEW c \in Mine(d) PROVE Left[c] = Burned(c) /\ Left[c] \in Nat
  <2>1. c \in Clones
    BY DEF Mine
  <2>2. received[c] = usdc[c] + Burned(c) + fees[c]
    BY <2>1 DEF MeshTypes, FacInv, Inv, PrincipalConserved
  <2>3. usdc[c] \in Nat /\ Burned(c) \in Nat /\ fees[c] \in Nat
    BY <2>1 DEF MeshTypes, FacInv, Inv, TypeOK, Burned, Holders, Finality
  <2> QED BY <2>1, <2>2, <2>3 DEF Left
<1>3. DOMAIN messages = 1..Len(messages) /\ Len(messages) \in Nat
  BY DEF MeshTypes
<1>4. IsFiniteSet(Mails(d))
  <2>1. Mails(d) \subseteq 1..Len(messages)
    BY <1>3 DEF Mails
  <2>2. IsFiniteSet(1..Len(messages))
    BY <1>3, FS_Interval
  <2> QED BY <2>1, <2>2, FS_Subset
<1>5. ASSUME NEW i \in Mails(d) PROVE Outside[i] \in Nat
  <2>1. i \in DOMAIN messages
    BY DEF Mails
  <2>2. messages[i] \in Message
    BY <1>3, <2>1 DEF MeshTypes
  <2> QED BY <2>1, <2>2 DEF Outside, Message, Pending
<1> QED BY <1>1, <1>2, <1>3, <1>4, <1>5 DEF Tallies

LEMMA MinesAndMailsNext == MeshTypes' => (\A d : Tallies(d))'
BY MinesAndMails, PTL

LEMMA InHandsType ==
    ASSUME wallet \in [Stellar!Bases -> Int], NEW l, Books(l), NEW d
    PROVE  InHands(l, d) \in Int
BY PayeeType DEF Books, InHands

(* One point of a sum changes.                                             *)
LEMMA SumChanges ==
    ASSUME NEW f, NEW g, NEW S, IsFiniteSet(S), NEW x \in S,
           \A y \in S : f[y] \in Int /\ g[y] \in Int,
           \A y \in S \ {x} : f[y] = g[y]
    PROVE  /\ SumFunctionOnSet(g, S) = SumFunctionOnSet(f, S) + (g[x] - f[x])
           /\ SumFunctionOnSet(f, S) \in Int /\ SumFunctionOnSet(g, S) \in Int
<1>1. /\ SumFunctionOnSet(f, S) = f[x] + SumFunctionOnSet(f, S \ {x})
      /\ SumFunctionOnSet(g, S) = g[x] + SumFunctionOnSet(g, S \ {x})
  BY SumWithout
<1>2. IsFiniteSet(S \ {x})
  BY FS_Subset
<1>3. SumFunctionOnSet(f, S \ {x}) = SumFunctionOnSet(g, S \ {x})
  BY <1>2, SumAgrees
<1>4. SumFunctionOnSet(f, S \ {x}) \in Int
  BY <1>2, SumType
<1> QED BY <1>1, <1>3, <1>4

(* A recipient's units of Stellar USDC.                                    *)
LEMMA Units ==
    ASSUME NEW a \in Int, NEW b \in Int
    PROVE  STELLAR_UNITS * (a + b) = STELLAR_UNITS * a + STELLAR_UNITS * b
BY MeshAssumption

(* A step of the EVM contracts settles at most one deposit address.        *)
LEMMA OneSettles ==
    ASSUME FacInv, [FacNext]_facVars
    PROVE  \E c : \A d \in Clones \ {c} : Burned(d)' = Burned(d)
<1>0. TypeOK /\ [Next]_vars
  BY FacStep DEF FacInv, Inv
<1>1. CASE \E c \in Clones : sweep(c) \/ \E s \in Users \cup WiredFactories : flush(s, c)
  <2>1. PICK c \in Clones : sweep(c) \/ \E s \in Users \cup WiredFactories : flush(s, c)
    BY <1>1
  <2>2. PICK amount \in Nat, charge \in BOOLEAN : Settle(c, amount, charge)
    BY <1>0, <2>1, AmountsSettled DEF sweep, flush
  <2>3. \A d \in Clones \ {c} : Burned(d)' = Burned(d)
    BY <1>0, <2>1, <2>2, SettleEffect
  <2> QED BY <2>3
<1>2. CASE ~\E c \in Clones : sweep(c) \/ \E s \in Users \cup WiredFactories : flush(s, c)
  BY <1>0, <1>2, QuietStep DEF Burned
<1> QED BY <1>1, <1>2

(* What leaves a deposit address leaves in one message for its recipient.  *)
LEMMA EmitEffect ==
    ASSUME MeshTypes, FacInv', [FacNext]_facVars, Emit
    PROVE  \/ (\A c \in Clones : Burned(c)' = Burned(c)) /\ messages' = messages
           \/ \E c \in Clones, m \in Message :
                 /\ messages' = Append(messages, m) /\ Allowed(m)
                 /\ m.recipient = Recipient(c) /\ m.amount = Burned(c)' - Burned(c)
                 /\ m.fee = NotMinted
                 /\ \A d \in Clones \ {c} : Burned(d)' = Burned(d)
<1>0. FacInv /\ TypeOK /\ TypeOK'
  BY DEF MeshTypes, FacInv, Inv
<1>1. \A c \in Clones : Burned(c) \in Nat /\ Burned(c)' \in Nat
  BY <1>0 DEF TypeOK, Burned, Finality
<1>2. CASE (\A c \in Clones : Burns(c) = 0) /\ UNCHANGED messages
  <2>1. \A c \in Clones : Burned(c)' = Burned(c)
    BY <1>1, <1>2 DEF Burns
  <2> QED BY <1>2, <2>1
<1>3. CASE \E c \in Clones : Burns(c) > 0 /\ messages' = Append(messages, BurnMessage(c))
  <2>1. PICK c \in Clones : Burns(c) > 0 /\ messages' = Append(messages, BurnMessage(c))
    BY <1>3
  <2> DEFINE m == BurnMessage(c)
  <2>2. Burns(c) \in Nat \ {0} /\ Burns(c) = Burned(c)' - Burned(c) /\ Burned(c)' # Burned(c)
    BY <1>1, <2>1 DEF Burns
  <2>3. PICK fast : /\ m.recipient = Recipient(c) /\ m.amount = Burns(c) /\ m.fee = NotMinted
                    /\ m.maxFee = CctpMaxFee(Burns(c), CctpRate(fast))
                    /\ m = [recipient |-> m.recipient, amount |-> m.amount,
                            maxFee |-> m.maxFee, fee |-> m.fee]
    BY DEF BurnMessage, hookData
  <2>4. circle \in CircleType /\ CctpRate(fast) \in Nat
    BY <1>0 DEF TypeOK, ConfigType, CctpRate
  <2>5. /\ m.maxFee \in Nat /\ m.maxFee < m.amount
        /\ m.maxFee <= CeilPpm(m.amount * MaxCctpFeePpm)
    BY <2>2, <2>3, <2>4, AllowanceRange
  <2> HIDE DEF m
  <2>6. m \in Message /\ Allowed(m)
    BY <2>2, <2>3, <2>5 DEF Message, Allowed
  <2>7. PICK e : \A d \in Clones \ {e} : Burned(d)' = Burned(d)
    BY <1>0, OneSettles
  <2>8. \A d \in Clones \ {c} : Burned(d)' = Burned(d)
    BY <2>2, <2>7
  <2> QED BY <2>1, <2>2, <2>3, <2>6, <2>8 DEF m
<1> QED BY <1>2, <1>3 DEF Emit

(* It is sent and in transit at once.                                      *)
LEMMA EmitBalances ==
    ASSUME MeshTypes, MeshTypes', NEW c \in Clones, NEW m \in Message, NEW d,
           messages' = Append(messages, m),
           m.recipient = Recipient(c), m.amount = Burned(c)' - Burned(c), m.fee = NotMinted,
           \A e \in Clones \ {c} : Burned(e)' = Burned(e)
    PROVE  /\ Sent(d)' - Sent(d) = InTransit(d)' - InTransit(d)
           /\ Sent(d) \in Int /\ Sent(d)' \in Int
           /\ InTransit(d) \in Int /\ InTransit(d)' \in Int
<1> DEFINE S == Mine(d)
           f == Left
           g == Left'
           n == Len(messages)
           T == Mails(d)
           U == Mails(d)'
           p == Outside
           q == Outside'
<1>1. /\ IsFiniteSet(S) /\ \A e \in S : f[e] = Burned(e) /\ f[e] \in Nat
      /\ IsFiniteSet(T) /\ \A i \in T : p[i] \in Nat
      /\ DOMAIN messages = 1..n /\ n \in Nat
  BY MinesAndMails DEF Tallies
<1>2. /\ S = Mine(d)' /\ \A e \in S : g[e] = Burned(e)' /\ g[e] \in Nat
      /\ IsFiniteSet(U) /\ \A i \in U : q[i] \in Nat
      /\ DOMAIN messages' = 1..(n + 1)
  <2>1. Tallies(d)'
    BY MinesAndMailsNext
  <2>2. S = Mine(d)'
    BY DEF Mine, For
  <2>3. DOMAIN messages' = 1..(n + 1)
    BY <1>1 DEF MeshTypes
  <2> QED BY <2>1, <2>2, <2>3 DEF Tallies
<1>3. messages'[n + 1] = m /\ \A i \in 1..n : messages'[i] = messages[i]
  BY <1>1 DEF MeshTypes
<1>4. \A i \in 1..n : q[i] = p[i]
  BY <1>1, <1>2, <1>3 DEF Outside, Pending
<1>5. q[n + 1] = m.amount
  BY <1>1, <1>2, <1>3 DEF Outside, Pending
<1>6. SumFunctionOnSet(f, S) \in Int /\ SumFunctionOnSet(p, T) \in Int
  BY <1>1, SumType
<1>7. Sent(d) = STELLAR_UNITS * SumFunctionOnSet(f, S) /\ Sent(d)' = STELLAR_UNITS * SumFunctionOnSet(g, S)
  BY <1>2 DEF Sent
<1>8. InTransit(d) = STELLAR_UNITS * SumFunctionOnSet(p, T) /\ InTransit(d)' = STELLAR_UNITS * SumFunctionOnSet(q, U)
  BY DEF InTransit
<1>9. CASE For(Recipient(c), d)
  <2>1. c \in S /\ \A e \in S \ {c} : f[e] = g[e]
    BY <1>1, <1>2, <1>9 DEF Mine
  <2>2. \A e \in S : f[e] \in Int /\ g[e] \in Int
    BY <1>1, <1>2
  <2>3. U = T \cup {n + 1} /\ n + 1 \notin T
    BY <1>1, <1>2, <1>3, <1>9 DEF Mails
  <2>4. n + 1 \in U /\ U \ {n + 1} = T /\ \A i \in U : q[i] \in Int
    BY <1>2, <2>3
  <2>5. \A i \in T : q[i] = p[i]
    BY <1>1, <1>4 DEF Mails
  <2> HIDE DEF S, T, U, f, g, p, q, n
  <2>6. SumFunctionOnSet(g, S) = SumFunctionOnSet(f, S) + (g[c] - f[c])
    BY <1>1, <2>1, <2>2, SumChanges
  <2>7. SumFunctionOnSet(q, U) = q[n + 1] + SumFunctionOnSet(q, U \ {n + 1})
    BY <1>2, <2>4, SumWithout
  <2>8. SumFunctionOnSet(q, T) = SumFunctionOnSet(p, T)
    BY <1>1, <2>5, SumAgrees
  <2>9. g[c] - f[c] = q[n + 1] /\ q[n + 1] \in Int
    BY <1>1, <1>2, <1>5, <2>1, <2>4
  <2> DEFINE a == SumFunctionOnSet(f, S)
             b == SumFunctionOnSet(p, T)
             k == q[n + 1]
  <2>10. a \in Int /\ b \in Int /\ k \in Int
    BY <1>6, <2>9
  <2>11. SumFunctionOnSet(g, S) = a + k /\ SumFunctionOnSet(q, U) = b + k
    <3>1. SumFunctionOnSet(q, U \ {n + 1}) = b
      BY <2>4, <2>8
    <3>2. SumFunctionOnSet(q, U) = k + b
      BY <2>7, <3>1
    <3>3. SumFunctionOnSet(g, S) = a + k
      BY <2>6, <2>9
    <3> HIDE DEF a, b, k
    <3> QED BY <2>10, <3>2, <3>3
  <2> HIDE DEF a, b, k
  <2>12. /\ STELLAR_UNITS * (a + k) = STELLAR_UNITS * a + STELLAR_UNITS * k
         /\ STELLAR_UNITS * (b + k) = STELLAR_UNITS * b + STELLAR_UNITS * k
         /\ STELLAR_UNITS * a \in Int /\ STELLAR_UNITS * b \in Int /\ STELLAR_UNITS * k \in Int
    BY <2>10, Units, MeshAssumption
  <2> QED BY <1>7, <1>8, <2>11, <2>12 DEF a, b
<1>10. CASE ~For(Recipient(c), d)
  <2>1. \A e \in S : f[e] = g[e]
    BY <1>1, <1>2, <1>10 DEF Mine
  <2>2. U = T
    BY <1>1, <1>2, <1>3, <1>10 DEF Mails
  <2>3. \A i \in T : q[i] = p[i]
    BY <1>1, <1>4 DEF Mails
  <2> HIDE DEF S, T, U, f, g, p, q, n
  <2>4. SumFunctionOnSet(g, S) = SumFunctionOnSet(f, S)
    BY <1>1, <2>1, SumAgrees
  <2>5. SumFunctionOnSet(q, T) = SumFunctionOnSet(p, T)
    BY <1>1, <2>3, SumAgrees
  <2> QED BY <1>6, <1>7, <1>8, <2>2, <2>4, <2>5, MeshAssumption
<1> QED BY <1>9, <1>10

(* A step of the EVM contracts and the message it may emit.                *)
LEMMA EvmOwed ==
    ASSUME MeshInv, FacNext, Emit, UNCHANGED <<stellarVars, wallet>>
    PROVE  MeshInv'
<1>0. MeshTypes /\ FacInv /\ [FacNext]_facVars
  BY DEF MeshInv, MeshTypes
<1>1. FacInv'
  BY <1>0, FacNextInv
<1>2. MeshTypes' /\ \A d : /\ Sent(d)' - Sent(d) = InTransit(d)' - InTransit(d)
                           /\ Sent(d) \in Int /\ Sent(d)' \in Int
                           /\ InTransit(d) \in Int /\ InTransit(d)' \in Int
  <2>1. CASE (\A c \in Clones : Burned(c)' = Burned(c)) /\ messages' = messages
    <3>1. MeshTypes'
      BY <1>0, <1>1, <2>1 DEF MeshTypes
    <3>2. ASSUME NEW d
          PROVE  /\ Sent(d)' = Sent(d) /\ InTransit(d)' = InTransit(d)
                 /\ Sent(d) \in Int /\ InTransit(d) \in Int
      <4>1. Tallies(d) /\ Tallies(d)'
        BY <1>0, <3>1, MinesAndMails, MinesAndMailsNext
      <4>2. Mine(d)' = Mine(d) /\ Mails(d)' = Mails(d) /\ Outside' = Outside
        BY <2>1 DEF Mine, Mails, For, Outside, Pending
      <4>3. \A c \in Mine(d) : Left'[c] = Left[c]
        BY <2>1, <4>1, <4>2 DEF Tallies, Mine
      <4>4. SumFunctionOnSet(Left', Mine(d)) = SumFunctionOnSet(Left, Mine(d))
        BY <4>1, <4>3, SumAgrees DEF Tallies
      <4>5. SumFunctionOnSet(Left, Mine(d)) \in Int /\ SumFunctionOnSet(Outside, Mails(d)) \in Int
        BY <4>1, SumType DEF Tallies
      <4> QED BY <4>2, <4>4, <4>5, MeshAssumption DEF Sent, InTransit
    <3> QED BY <3>1, <3>2
  <2>2. ASSUME NEW c \in Clones, NEW m \in Message,
               messages' = Append(messages, m), Allowed(m),
               m.recipient = Recipient(c), m.amount = Burned(c)' - Burned(c),
               m.fee = NotMinted,
               \A d \in Clones \ {c} : Burned(d)' = Burned(d)
        PROVE  MeshTypes' /\ \A d : /\ Sent(d)' - Sent(d) = InTransit(d)' - InTransit(d)
                                    /\ Sent(d) \in Int /\ Sent(d)' \in Int
                                    /\ InTransit(d) \in Int /\ InTransit(d)' \in Int
    <3>1. messages' \in Seq(Message)
      BY <1>0, <2>2 DEF MeshTypes
    <3>2. \A i \in DOMAIN messages' : Allowed(messages'[i])
      BY <1>0, <2>2 DEF MeshTypes
    <3>3. MeshTypes'
      BY <1>0, <1>1, <3>1, <3>2 DEF MeshTypes, Allowed
    <3> QED BY <1>0, <2>2, <3>3, EmitBalances
  <2> QED BY <1>0, <1>1, <2>1, <2>2, EmitEffect
<1>3. ASSUME NEW d
      PROVE  /\ InHands(ledger, d)' = InHands(ledger, d)
             /\ InHands(call.saved, d)' = InHands(call.saved, d)
  BY DEF InHands, stellarVars
<1>4. ASSUME NEW d
      PROVE  /\ InHands(ledger, d) \in Int
             /\ ~Stellar!Idle => InHands(call.saved, d) \in Int
  BY <1>0, InHandsType DEF MeshInv, MeshTypes
<1>5. Books(ledger)' /\ Owed(ledger)'
  <2>1. Books(ledger)'
    BY DEF MeshInv, Books, stellarVars
  <2>2. Owed(ledger)'
    BY <1>2, <1>3, <1>4 DEF MeshInv, Owed, Accounted
  <2> QED BY <2>1, <2>2
<1>6. ~Stellar!Idle' => Books(call.saved)' /\ Owed(call.saved)' /\ CallOwned'
  <2> SUFFICES ASSUME ~Stellar!Idle
               PROVE  Books(call.saved)' /\ Owed(call.saved)' /\ CallOwned'
    BY DEF Stellar!Idle, stellarVars
  <2>1. Books(call.saved)'
    BY DEF MeshInv, Books, stellarVars
  <2>2. Owed(call.saved)'
    BY <1>2, <1>3, <1>4 DEF MeshInv, Owed, Accounted
  <2>3. CallOwned'
    BY DEF MeshInv, CallOwned, stellarVars
  <2> QED BY <2>1, <2>2, <2>3
<1> QED BY <1>2, <1>5, <1>6 DEF MeshInv

(* A step of the Stellar contracts, of an owner or of a filler.            *)
LEMMA StellarOwed ==
    ASSUME MeshInv, Stellar!Next \/ UNCHANGED stellarVars, UNCHANGED <<facVars, messages, wallet>>
    PROVE  MeshInv'
<1>0. MeshTypes /\ FacInv /\ FacInv'
  BY FacNextInv DEF MeshInv, MeshTypes
<1>1. MeshTypes'
  BY <1>0 DEF MeshTypes, Allowed
<1>2. StellarKept
  BY StellarEffect DEF MeshInv
<1>3. ASSUME NEW d
      PROVE  /\ Sent(d)' = Sent(d) /\ InTransit(d)' = InTransit(d)
             /\ Sent(d) \in Int /\ InTransit(d) \in Int
  <2>1. Tallies(d)
    BY <1>0, MinesAndMails
  <2>2. SumFunctionOnSet(Left, Mine(d)) \in Int /\ SumFunctionOnSet(Outside, Mails(d)) \in Int
    BY <2>1, SumType DEF Tallies
  <2>3. Left' = Left /\ Mine(d)' = Mine(d)
    BY DEF Left, Mine, For, facVars, vars, fwdVars, ledgerVars
  <2>4. Outside' = Outside /\ Mails(d)' = Mails(d)
    BY DEF Outside, Pending, Mails, For
  <2> QED BY <2>2, <2>3, <2>4, MeshAssumption DEF Sent, InTransit
<1>4. ASSUME NEW k, Books(k), Owed(k), Keeps(k, ledger')
      PROVE  Owed(ledger)'
  <2>1. ASSUME NEW d
        PROVE  /\ InHands(k, d) \in Int /\ InHands(ledger, d)' \in Int
               /\ InHands(k, d) <= InHands(ledger, d)'
               /\ VaultInputs.usdc = {} => InHands(k, d) = InHands(ledger, d)'
    <3>1. InHands(k, d) \in Int
      BY <1>0, <1>4, InHandsType DEF MeshTypes
    <3>2. CASE d \in Stellar!Vaults
      <4>1. InHands(k, d) = AtVault(k, d) /\ InHands(ledger, d)' = AtVault(ledger', d)
        BY <3>2 DEF InHands, AtVault
      <4>2. AtVault(ledger', d) \in Int
        BY <1>2, <3>2, PayeeType DEF StellarKept, Books, AtVault
      <4> QED BY <1>4, <3>1, <3>2, <4>1, <4>2 DEF Keeps
    <3>3. CASE d \notin Stellar!Vaults
      <4>1. InHands(k, d) = InHands(ledger, d)'
        BY <3>3 DEF InHands
      <4> QED BY <3>1, <4>1
    <3> QED BY <3>2, <3>3
  <2> QED BY <1>3, <1>4, <2>1 DEF Owed, Accounted
<1>5. Books(ledger)' /\ Owed(ledger)'
  <2>1. Books(ledger)'
    BY <1>2 DEF StellarKept, Books
  <2> QED BY <1>2, <1>4, <2>1 DEF StellarKept, MeshInv
<1>6. ~Stellar!Idle' => Books(call.saved)' /\ Owed(call.saved)' /\ CallOwned'
  <2>1. CASE Stellar!Idle /\ call'.saved = ledger /\ CallOwned'
    <3>1. Books(call.saved)'
      BY <2>1 DEF MeshInv, Books
    <3>2. \A d : InHands(call.saved, d)' = InHands(ledger, d)
      BY <2>1 DEF InHands
    <3> QED BY <1>3, <2>1, <3>1, <3>2 DEF MeshInv, Owed, Accounted
  <2>2. CASE ~Stellar!Idle /\ call' = call
    <3>1. Books(call.saved)'
      BY <2>2 DEF MeshInv, Books
    <3>2. \A d : InHands(call.saved, d)' = InHands(call.saved, d)
      BY <2>2 DEF InHands
    <3> QED BY <1>3, <2>2, <3>1, <3>2 DEF MeshInv, Owed, Accounted, CallOwned
  <2> QED BY <1>2, <2>1, <2>2 DEF StellarKept
<1> QED BY <1>1, <1>5, <1>6 DEF MeshInv

(* Circle's forwarder mints a message: what is no longer in transit, but   *)
(* for Circle's fee, is in the recipient's hands.                          *)
LEMMA MintOwed ==
    ASSUME MeshInv, NEW i \in DOMAIN messages, NEW fee \in Nat, mint_and_forward(i, fee)
    PROVE  MeshInv'
<1> DEFINE m == messages[i]
           to == Destination[m.recipient]
           paid == STELLAR_UNITS * (m.amount - fee)
<1>0. /\ MeshTypes /\ FacInv /\ FacInv' /\ Books(ledger) /\ wallet \in [Stellar!Bases -> Int]
      /\ Stellar!Idle /\ call' = call /\ UNCHANGED facVars
  BY FacNextInv DEF MeshInv, MeshTypes, mint_and_forward, Stellar!MintAndForward
<1>1. m \in Message /\ Allowed(m) /\ m.fee = NotMinted /\ fee <= m.maxFee /\ fee # NotMinted
  BY <1>0, MeshAssumption DEF MeshTypes, mint_and_forward, Pending
<1>2. m.recipient \in DOMAIN Destination
  BY DEF mint_and_forward, Serves
<1>3. m.amount \in Nat /\ m.maxFee \in Nat /\ paid \in Int /\ paid = (m.amount - fee) * STELLAR_UNITS
  BY <1>1, MeshAssumption DEF Message
<1> DEFINE n == [m EXCEPT !.fee = fee]
<1>4. /\ n \in Message /\ n.recipient = m.recipient /\ n.amount = m.amount
      /\ n.maxFee = m.maxFee /\ n.fee = fee
  BY <1>1 DEF Message
<1>5. /\ messages' \in Seq(Message) /\ DOMAIN messages' = DOMAIN messages
      /\ messages'[i] = n /\ \A j \in DOMAIN messages \ {i} : messages'[j] = messages[j]
  <2>1. messages' = [messages EXCEPT ![i] = n]
    BY DEF mint_and_forward
  <2>2. messages \in Seq(Message) /\ DOMAIN messages = 1..Len(messages)
    BY <1>0 DEF MeshTypes
  <2> HIDE DEF n
  <2>3. messages' \in Seq(Message)
    BY <1>4, <2>1, <2>2, ExceptSeq
  <2> QED BY <2>1, <2>2, <2>3
<1> HIDE DEF n
<1>6. Allowed(n)
  BY <1>1, <1>4 DEF Allowed
<1>7. wallet' \in [Stellar!Bases -> Int]
  BY <1>0, <1>3 DEF mint_and_forward
<1>8. MeshTypes'
  BY <1>0, <1>5, <1>6, <1>7 DEF MeshTypes, Allowed
(* Everything of the message but the fee leaves the transit of `to`.       *)
<1>9. ASSUME NEW d
      PROVE  /\ Sent(d)' = Sent(d) /\ Sent(d) \in Int /\ InTransit(d) \in Int
             /\ InTransit(d)' = InTransit(d) - (IF d = to THEN paid ELSE 0)
  <2> DEFINE T == Mails(d)
             p == Outside
             q == Outside'
  <2>1. Tallies(d) /\ Tallies(d)'
    BY <1>0, <1>8, MinesAndMails, MinesAndMailsNext
  <2>2. SumFunctionOnSet(Left, Mine(d)) \in Int /\ SumFunctionOnSet(p, T) \in Int
    BY <2>1, SumType DEF Tallies
  <2>3. Left' = Left /\ Mine(d)' = Mine(d)
    BY <1>0 DEF Left, Mine, For, facVars, vars, fwdVars, ledgerVars
  <2>4. Sent(d)' = Sent(d) /\ Sent(d) \in Int /\ InTransit(d) \in Int
    BY <2>2, <2>3, MeshAssumption DEF Sent, InTransit
  <2>5. T = Mails(d)'
    BY <1>4, <1>5 DEF Mails, For
  <2>6. p[i] = m.amount /\ q[i] = fee /\ \A j \in DOMAIN messages \ {i} : q[j] = p[j]
    BY <1>1, <1>4, <1>5 DEF Outside, Pending
  <2>7. InTransit(d) = STELLAR_UNITS * SumFunctionOnSet(p, T) /\ InTransit(d)' = STELLAR_UNITS * SumFunctionOnSet(q, T)
    BY <2>5 DEF InTransit
  <2>8. CASE d = to
    <3>1. i \in T /\ \A j \in T \ {i} : p[j] = q[j]
      BY <1>2, <2>6, <2>8 DEF Mails, For
    <3>2. \A j \in T : p[j] \in Int /\ q[j] \in Int
      BY <2>1, <2>5 DEF Tallies
    <3> HIDE DEF T, p, q, m
    <3>3. SumFunctionOnSet(q, T) = SumFunctionOnSet(p, T) + (q[i] - p[i])
      BY <2>1, <3>1, <3>2, SumChanges DEF Tallies, T
    <3> DEFINE a == SumFunctionOnSet(p, T)
               k == fee - m.amount
    <3>4. a \in Int /\ k \in Int /\ SumFunctionOnSet(q, T) = a + k
      BY <1>3, <2>2, <2>6, <3>3
    <3> HIDE DEF a
    <3>5. STELLAR_UNITS * (a + k) = STELLAR_UNITS * a + STELLAR_UNITS * k
      BY <3>4, Units
    <3>6. STELLAR_UNITS * k = -paid
      BY <1>3, MeshAssumption
    <3> HIDE DEF k, paid
    <3>7. InTransit(d)' = InTransit(d) - paid
      BY <1>3, <2>4, <2>7, <3>4, <3>5, <3>6 DEF a
    <3> QED BY <2>4, <2>8, <3>7
  <2>9. CASE d # to
    <3>1. \A j \in T : q[j] = p[j]
      BY <1>2, <2>6, <2>9 DEF Mails, For
    <3> HIDE DEF T, p, q
    <3>2. SumFunctionOnSet(q, T) = SumFunctionOnSet(p, T)
      BY <2>1, <3>1, SumAgrees DEF Tallies, T
    <3> QED BY <2>4, <2>7, <2>9, <3>2
  <2> QED BY <2>8, <2>9
(* And it arrives there.                                                   *)
<1>10. /\ Books(ledger)'
       /\ \A d : /\ InHands(ledger, d) \in Int
                 /\ InHands(ledger, d)' = InHands(ledger, d) + (IF d = to THEN paid ELSE 0)
  <2>0. \A d : InHands(ledger, d) \in Int
    BY <1>0, InHandsType
  <2>1. CASE to \in Stellar!Vaults /\ Stellar!MintAndForward(to, paid) /\ wallet' = wallet
    <3> HIDE DEF to, paid
    <3>1. /\ Books(ledger')
          /\ \A u \in Stellar!Vaults :
                AtVault(ledger', u) = AtVault(ledger, u) + (IF u = to THEN paid ELSE 0)
      BY <1>0, <1>3, <2>1, MintCredits
    <3>2. Books(ledger)'
      BY <3>1 DEF Books
    <3>3. ASSUME NEW d
          PROVE  InHands(ledger, d)' = InHands(ledger, d) + (IF d = to THEN paid ELSE 0)
      <4>1. CASE d \in Stellar!Vaults
        BY <3>1, <4>1 DEF InHands, AtVault
      <4>2. CASE d \notin Stellar!Vaults
        BY <2>0, <2>1, <4>2 DEF InHands
      <4> QED BY <4>1, <4>2
    <3> QED BY <2>0, <3>2, <3>3
  <2>2. CASE to \in Stellar!Bases /\ wallet' = [wallet EXCEPT ![to] = @ + paid] /\ ledger' = ledger
    <3>1. Books(ledger)'
      BY <1>0, <2>2 DEF Books
    <3>2. to \notin Stellar!Vaults
      BY <2>2, MeshAssumption
    <3> HIDE DEF to, paid
    <3>3. ASSUME NEW d
          PROVE  InHands(ledger, d)' = InHands(ledger, d) + (IF d = to THEN paid ELSE 0)
      BY <1>0, <2>0, <2>2, <3>2 DEF InHands
    <3> QED BY <2>0, <3>1, <3>3
  <2> QED BY <1>3, <2>1, <2>2 DEF mint_and_forward
<1> HIDE DEF to, paid, m
<1>11. Owed(ledger)'
  BY <1>3, <1>9, <1>10 DEF MeshInv, Owed, Accounted
<1>12. Stellar!Idle'
  BY <1>0 DEF Stellar!Idle
<1> QED BY <1>8, <1>10, <1>11, <1>12 DEF MeshInv

LEMMA MeshInitInv == MeshInit => MeshInv
<1> SUFFICES ASSUME MeshInit PROVE MeshInv
  OBVIOUS
<1>1. FacInv
  BY FacInitInv DEF MeshInit
<1>2. messages = <<>> /\ messages \in Seq(Message) /\ DOMAIN messages = {}
  BY DEF MeshInit
<1>3. wallet = [b \in Stellar!Bases |-> 0]
  BY DEF MeshInit
<1>4. MeshTypes
  BY <1>1, <1>2, <1>3 DEF MeshTypes
<1>5. /\ Stellar!Idle /\ Books(ledger)
      /\ \A v \in Stellar!Vaults : ledger.usdc[v] = 0 /\ ledger.sold[v] = 0
      /\ \A p \in Stellar!Vaults \X Stellar!Bases : ledger.usdcOut[p] = 0
  BY DEF MeshInit, Stellar!Init, Stellar!VaultInit, Stellar!Idle, Books
<1>6. ASSUME NEW d PROVE Sent(d) = 0 /\ Accounted(ledger, d) = 0
  <2>1. Tallies(d)
    BY <1>4, MinesAndMails
  <2> DEFINE zero == [c \in Mine(d) |-> 0]
  <2>2. \A c \in Mine(d) : Left[c] = 0
    BY DEF MeshInit, FacInit, Init, Mine, Left, Holders
  <2>3. SumFunctionOnSet(Left, Mine(d)) = 0
    BY <2>1, <2>2, SumZero DEF Tallies
  <2>4. Mails(d) = {}
    BY <1>2 DEF Mails
  <2>5. SumFunctionOnSet(Outside, Mails(d)) = 0
    BY <2>4, SumEmpty
  <2>6. InHands(ledger, d) = 0
    BY <1>3, <1>5, PayeeType DEF InHands
  <2> QED BY <2>3, <2>5, <2>6, MeshAssumption DEF Sent, InTransit, Accounted
<1>7. Owed(ledger)
  BY <1>6 DEF Owed
<1> QED BY <1>4, <1>5, <1>7 DEF MeshInv

LEMMA MeshNextInv == MeshInv /\ [MeshNext]_meshVars => MeshInv'
<1> SUFFICES ASSUME MeshInv, [MeshNext]_meshVars PROVE MeshInv'
  OBVIOUS
<1>1. CASE EvmStep
  BY <1>1, EvmOwed DEF EvmStep
<1>2. CASE StellarStep \/ UNCHANGED meshVars
  BY <1>2, StellarOwed DEF StellarStep, meshVars
<1>3. ASSUME NEW i \in DOMAIN messages, NEW fee \in 0..MaxDeposited, mint_and_forward(i, fee)
      PROVE  MeshInv'
  BY <1>3, MintOwed
<1> QED BY <1>1, <1>2, <1>3 DEF MeshNext

(* The invariant of both chains together.                                  *)
THEOREM MeshInvariant == MeshSpec => []MeshInv
<1> QED BY MeshInitInv, MeshNextInv, PTL DEF MeshSpec

(* Unit for unit, what leaves the deposit addresses of a recipient reaches *)
(* it: for any number of addresses, messages and recipients, any order of  *)
(* mints, any fees Circle takes, and swaps that trap in between.           *)
THEOREM Delivered == MeshSpec => []ReachesRecipient
<1>1. MeshInv => ReachesRecipient
  <2> SUFFICES ASSUME MeshInv PROVE ReachesRecipient
    OBVIOUS
  <2>1. ASSUME NEW i \in DOMAIN messages, ~Pending(i)
        PROVE  /\ messages[i].fee < messages[i].amount
               /\ messages[i].fee <= CeilPpm(messages[i].amount * MaxCctpFeePpm)
    <3>1. messages[i] \in Message /\ Allowed(messages[i])
      BY DEF MeshInv, MeshTypes
    <3> DEFINE cap == CeilPpm(messages[i].amount * MaxCctpFeePpm)
    <3>2. cap \in Int
      BY <3>1 DEF Message, CeilPpm
    <3> QED BY <2>1, <3>1, <3>2 DEF Message, Allowed, Pending
  <2> QED BY <2>1 DEF MeshInv, Owed, ReachesRecipient
<1> QED BY <1>1, MeshInvariant, PTL

(* The contracts of the EVM chain behave in the whole as they do alone, so *)
(* all that is proved of FacSpec and Spec holds on the way to Stellar too. *)
THEOREM ChainInMesh == MeshSpec => FacSpec
<1>1. MeshInit => FacInit
  BY DEF MeshInit
<1>2. [MeshNext]_meshVars => [FacNext]_facVars
  BY DEF MeshNext, meshVars, EvmStep, StellarStep, mint_and_forward
<1> QED BY <1>1, <1>2, PTL DEF MeshSpec, FacSpec

-----------------------------------------------------------------------------
(* The Stellar contracts in the whole.                                     *)

(* Their inputs, with any amount of USDC sent to a vault: to them a minted *)
(* message is such a transfer.                                             *)
AnyTransfer ==
    [token |-> VaultInputs.token, asset |-> VaultInputs.asset,
     oracle |-> VaultInputs.oracle, discount |-> VaultInputs.discount,
     age |-> VaultInputs.age, delivery |-> VaultInputs.delivery,
     price |-> VaultInputs.price, time |-> VaultInputs.time,
     usdc |-> Nat, xlm |-> VaultInputs.xlm,
     amount |-> VaultInputs.amount, minOut |-> VaultInputs.minOut]

Alone == INSTANCE VaultFactory_proofs
           WITH Factory <- StellarFactory, Impostors <- {}, Malformed <- {},
                VaultInputs <- AnyTransfer,
                now <- ledgerTime, factory <- vaultFactory

LEMMA SameSets ==
    /\ Alone!Vaults = Stellar!Vaults /\ Alone!Bases = Stellar!Bases
    /\ Alone!Accounts = Stellar!Accounts /\ Alone!Factories = Stellar!Factories
    /\ Alone!OracleAsset = Stellar!OracleAsset /\ Alone!PriceData = Stellar!PriceData
    /\ Alone!Ledgers = Stellar!Ledgers /\ Alone!Calls = Stellar!Calls
    /\ Alone!VaultConfig = Stellar!VaultConfig /\ Alone!Genuine = Stellar!Genuine
    /\ Alone!Assets = Stellar!Assets /\ Alone!PPM = Stellar!PPM
<1>1. Alone!Factories = Stellar!Factories
  BY DEF Alone!Factories, Stellar!Factories
<1>2. Alone!Vaults = Stellar!Vaults
  BY <1>1 DEF Alone!Vaults, Stellar!Vaults
<1>3. Alone!Bases = Stellar!Bases
  BY DEF Alone!Bases, Stellar!Bases
<1>4. Alone!Accounts = Stellar!Accounts
  BY <1>3 DEF Alone!Accounts, Stellar!Accounts
<1>5. Alone!OracleAsset = Stellar!OracleAsset /\ Alone!PPM = Stellar!PPM
  BY DEF Alone!OracleAsset, Stellar!OracleAsset, Alone!PPM, Stellar!PPM
<1>6. Alone!PriceData = Stellar!PriceData
  BY DEF Alone!PriceData, Stellar!PriceData
<1>7. Alone!Ledgers = Stellar!Ledgers
  BY <1>2, <1>3, <1>4 DEF Alone!Ledgers, Stellar!Ledgers
<1>8. Alone!Calls = Stellar!Calls
  BY <1>2, <1>7 DEF Alone!Calls, Stellar!Calls, AnyTransfer
<1>9. Alone!VaultConfig = Stellar!VaultConfig
  BY DEF Alone!VaultConfig, Stellar!VaultConfig, AnyTransfer
<1>10. Alone!Genuine = Stellar!Genuine /\ Alone!Assets = Stellar!Assets
  BY DEF Alone!Genuine, Stellar!Genuine, Alone!Assets, Stellar!Assets
<1> QED BY <1>1, <1>2, <1>3, <1>4, <1>5, <1>6, <1>7, <1>8, <1>9, <1>10

LEMMA AloneInit == Stellar!Init => Alone!Init
<1>1. Stellar!VaultInit => Alone!VaultInit
  BY SameSets DEF Stellar!VaultInit, Alone!VaultInit
<1>2. Stellar!FactoryInit => Alone!FactoryInit
  BY SameSets DEF Stellar!FactoryInit, Alone!FactoryInit,
         Stellar!ConfigUsable, Alone!ConfigUsable
<1> QED
  BY <1>1, <1>2, SameSets DEF Stellar!Init, Alone!Init, Stellar!Verified, Alone!Verified,
     Stellar!Canonical, Alone!Canonical

LEMMA AloneTraffic == Stellar!Traffic => Alone!Traffic
<1> SUFFICES ASSUME Stellar!Traffic PROVE Alone!Traffic
  OBVIOUS
<1>0. UNCHANGED <<feed, ledgerTime, vaultFactory>>
  BY DEF Stellar!Traffic
<1>1. ASSUME NEW v, NEW o, NEW f, NEW t, Stellar!withdraw(v, o, f, t)
      PROVE  Alone!withdraw(v, o, f, t)
  BY <1>1 DEF Stellar!withdraw, Alone!withdraw, Stellar!contract_exists, Alone!contract_exists,
     Stellar!Running, Alone!Running, Stellar!Idle, Alone!Idle, Stellar!require_this_vault,
     Alone!require_this_vault, Stellar!deployed_address, Alone!deployed_address,
     Stellar!CanSign, Alone!CanSign, Stellar!TakesUsdc, Alone!TakesUsdc,
     Stellar!BalanceOf, Alone!BalanceOf
<1>2. ASSUME NEW v, NEW a \in VaultInputs.usdc, Stellar!MintAndForward(v, a)
      PROVE  a \in AnyTransfer.usdc /\ Alone!MintAndForward(v, a)
  BY <1>2, StellarAssumption DEF Stellar!MintAndForward, Alone!MintAndForward, AnyTransfer
<1>3. ASSUME NEW v, NEW a \in VaultInputs.xlm, Stellar!SendXlm(v, a)
      PROVE  a \in AnyTransfer.xlm /\ Alone!SendXlm(v, a)
  BY <1>3 DEF Stellar!SendXlm, Alone!SendXlm, AnyTransfer, Stellar!Running, Alone!Running,
     Stellar!Idle, Alone!Idle
<1>4. ASSUME NEW b,
             \/ Stellar!create_account(b) \/ Stellar!MergeAccount(b)
             \/ Stellar!create_trustline(b) \/ Stellar!RemoveTrustline(b)
      PROVE  \/ Alone!create_account(b) \/ Alone!MergeAccount(b)
             \/ Alone!create_trustline(b) \/ Alone!RemoveTrustline(b)
  BY <1>4 DEF Stellar!create_account, Alone!create_account, Stellar!MergeAccount, Alone!MergeAccount,
     Stellar!create_trustline, Alone!create_trustline, Stellar!RemoveTrustline, Alone!RemoveTrustline,
     Stellar!Idle, Alone!Idle
<1> QED BY <1>0, <1>1, <1>2, <1>3, <1>4, SameSets DEF Stellar!Traffic, Alone!Traffic

(* What a swap opens with is the same there.                               *)
LEMMA AloneOpens ==
    ASSUME NEW l, NEW caller, NEW v, NEW o, NEW f, NEW amount, NEW w, NEW cfg,
           Stellar!SwapOpens(l, caller, v, o, f, amount, w, cfg)
    PROVE  Alone!SwapOpens(l, caller, v, o, f, amount, w, cfg)
<1>1. Stellar!Answers(cfg.oracle) = Alone!Answers(cfg.oracle)
  BY SameSets DEF Stellar!Answers, Alone!Answers, AnyTransfer
<1>2. Stellar!Sells(l, v, cfg.usdc, amount) => Alone!Sells(l, v, cfg.usdc, amount)
  BY SameSets DEF Stellar!Sells, Alone!Sells
<1>3. ASSUME NEW quotes
      PROVE  /\ Stellar!Want(cfg, quotes, amount, w) = Alone!Want(cfg, quotes, amount, w)
             /\ Stellar!CanPrice(cfg, quotes, amount) => Alone!CanPrice(cfg, quotes, amount)
  BY DEF Stellar!CanPrice, Alone!CanPrice, Stellar!ConfigUsable, Alone!ConfigUsable,
     Stellar!FreshPrice, Alone!FreshPrice, Stellar!FloorFits, Alone!FloorFits,
     Stellar!Numerator, Alone!Numerator, Stellar!Denominator, Alone!Denominator,
     Stellar!PPM, Alone!PPM, Stellar!Want, Alone!Want, Stellar!oracle_floor, Alone!oracle_floor
<1>4. Stellar!BalanceOf(l, v, cfg.xlm) = Alone!BalanceOf(l, v, cfg.xlm)
  BY DEF Stellar!BalanceOf, Alone!BalanceOf
<1>5. Stellar!Canonical(cfg) = Alone!Canonical(cfg)
  BY DEF Stellar!Canonical, Alone!Canonical
<1> QED
  BY <1>1, <1>2, <1>3, <1>4, <1>5 DEF Stellar!SwapOpens, Alone!SwapOpens,
     Stellar!contract_exists, Alone!contract_exists, Stellar!require_this_vault,
     Alone!require_this_vault, Stellar!deployed_address, Alone!deployed_address,
     Stellar!require_auth, Alone!require_auth

LEMMA AloneStep == Stellar!Next => Alone!Next
<1> SUFFICES ASSUME Stellar!Next PROVE Alone!Next
  OBVIOUS
<1>1. ASSUME NEW f \in Stellar!Factories, NEW o \in Owners \cup {}, Stellar!deploy(f, o)
      PROVE  Alone!Next
  <2>1. Alone!deploy(f, o)
    BY <1>1 DEF Stellar!deploy, Alone!deploy, Stellar!Idle, Alone!Idle, Stellar!parse_owner,
       Alone!parse_owner, Stellar!WithVault, Alone!WithVault, Stellar!deployed_address,
       Alone!deployed_address
  <2> QED BY <1>1, <2>1, SameSets DEF Alone!Next
<1>2. ASSUME NEW r \in Relayers, NEW o \in Owners \cup {}, NEW a \in VaultInputs.amount \cup {NoAmount},
             NEW w \in VaultInputs.minOut, Stellar!swap(r, o, a, w)
      PROVE  Alone!Next
  <2>1. Alone!swap(r, o, a, w)
    BY <1>2, AloneOpens DEF Stellar!swap, Alone!swap, Stellar!Idle, Alone!Idle,
       Stellar!is_relayer, Alone!is_relayer, Stellar!settle, Alone!settle,
       Stellar!parse_owner, Alone!parse_owner, Stellar!WithVault, Alone!WithVault,
       Stellar!deployed_address, Alone!deployed_address, Stellar!derive_address,
       Alone!derive_address, Stellar!BalanceOf, Alone!BalanceOf,
       Stellar!read_config, Alone!read_config
  <2> QED BY <1>2, <2>1 DEF Alone!Next, AnyTransfer
<1>3. CASE Stellar!Returns
  BY <1>3, SameSets DEF Stellar!Returns, Alone!Returns, Alone!Next, Stellar!SwapCloses,
     Alone!SwapCloses, Stellar!SwapTraps, Alone!SwapTraps, Stellar!Idle, Alone!Idle,
     Stellar!Delivered, Alone!Delivered, Stellar!Pays, Alone!Pays, Stellar!BalanceOf,
     Alone!BalanceOf, Stellar!TakesXlm, Alone!TakesXlm, Stellar!TakesUsdc, Alone!TakesUsdc,
     Stellar!MIN_BALANCE, Alone!MIN_BALANCE
<1>4. CASE Stellar!Traffic
  BY <1>4, AloneTraffic DEF Alone!Next
<1>5. CASE Stellar!Governance
  BY <1>5 DEF Stellar!Governance, Alone!Governance, Alone!Next, AnyTransfer, Stellar!set_relayer,
     Alone!set_relayer, Stellar!set_discount, Alone!set_discount, Stellar!set_admin,
     Alone!set_admin, Stellar!Idle, Alone!Idle, Stellar!read_admin, Alone!read_admin
<1>6. CASE Stellar!Surroundings
  BY <1>6, SameSets DEF Stellar!Surroundings, Alone!Surroundings, Alone!Next, AnyTransfer,
     Stellar!Idle, Alone!Idle, Stellar!Publish, Alone!Publish, Stellar!Tick, Alone!Tick
<1> QED BY <1>1, <1>2, <1>3, <1>4, <1>5, <1>6 DEF Stellar!Next

(* Neither does the way the USDC comes change the Stellar contracts: the   *)
(* whole is a behaviour of VaultFactory in which anybody sends vaults any  *)
(* amount, for the messages come between transactions and are worth more   *)
(* than Circle's fee.                                                      *)
THEOREM StellarInMesh == MeshSpec => Alone!Spec
<1>1. MeshInit => Alone!Init
  BY AloneInit DEF MeshInit
<1>2. MeshInv /\ [MeshNext]_meshVars => [Alone!Next]_(Alone!vars)
  <2> SUFFICES ASSUME MeshInv, [MeshNext]_meshVars, ~UNCHANGED stellarVars
               PROVE  Alone!Next
    BY DEF Alone!vars, stellarVars
  <2>1. CASE StellarStep
    BY <2>1, AloneStep DEF StellarStep
  <2>2. ASSUME NEW i \in DOMAIN messages, NEW fee \in 0..MaxDeposited, mint_and_forward(i, fee)
        PROVE  Alone!Next
    <3> DEFINE m == messages[i]
               to == Destination[m.recipient]
               amount == (m.amount - fee) * STELLAR_UNITS
    <3>1. m \in Message /\ Allowed(m) /\ fee <= m.maxFee
      BY <2>2 DEF MeshInv, MeshTypes, mint_and_forward
    <3>2. m.amount - fee \in Nat
      BY <3>1 DEF Message, Allowed
    <3>3. amount \in Nat
      BY <3>2, MeshAssumption
    <3>4. to \in Stellar!Vaults /\ Stellar!MintAndForward(to, amount)
      BY <2>2 DEF mint_and_forward, stellarVars
    <3>5. UNCHANGED <<feed, ledgerTime, vaultFactory>>
      BY <2>2 DEF mint_and_forward
    <3> HIDE DEF amount, to
    <3>6. Alone!MintAndForward(to, amount)
      BY <3>4 DEF Stellar!MintAndForward, Alone!MintAndForward
    <3>7. AnyTransfer.usdc = Nat
      BY DEF AnyTransfer
    <3>8. to \in Alone!Vaults
      BY <3>4, SameSets
    <3>9. Alone!Traffic
      BY <3>3, <3>5, <3>6, <3>7, <3>8 DEF Alone!Traffic
    <3> QED BY <3>9 DEF Alone!Next
  <2> QED BY <2>1, <2>2 DEF MeshNext, EvmStep, meshVars
<1> QED BY <1>1, <1>2, MeshInvariant, PTL DEF MeshSpec, Alone!Spec

(* So what a deposit brings to a vault is at all times in it, sold for its *)
(* owner or returned to its owner, and no fill was paid for with XLM that  *)
(* did not come with it, wherever the USDC came from.                      *)
THEOREM VaultsInMesh == MeshSpec => [](Stellar!OnlyToOwner /\ Stellar!FillHonoured)
<1>1. /\ Alone!Spec => []Alone!OnlyToOwner
      /\ Alone!Spec => []Alone!FillHonoured
  <2>1. /\ AnyTransfer.discount \subseteq Nat
        /\ AnyTransfer.age \subseteq Nat
        /\ AnyTransfer.delivery \subseteq Int
        /\ AnyTransfer.time \subseteq Nat
        /\ AnyTransfer.price \subseteq Price
        /\ AnyTransfer.usdc \cup AnyTransfer.xlm \subseteq Nat
        /\ AnyTransfer.amount \cup AnyTransfer.minOut \subseteq Int
        /\ NoDiscount \notin AnyTransfer.discount
        /\ {} \cap Owners = {}
    BY StellarAssumption DEF AnyTransfer
  <2>2. NoCall \notin Alone!Calls /\ NoRecord \notin Alone!PriceData
    BY StellarAssumption, SameSets
  <2>5. /\ USDC # XLM /\ Reflector \notin Alone!Assets
        /\ AnyTransfer.asset \subseteq Alone!OracleAsset
    BY StellarAssumption, SameSets DEF AnyTransfer, Stellar!Assets
  <2>3. /\ StellarFactory \notin {} /\ DOMAIN BaseOf = Owners
        /\ BASE_RESERVE \in Nat \ {0}
        /\ MaxUsdc \in Nat /\ MaxXlm \in Nat
    BY StellarAssumption
  <2>4. /\ DISCOUNT_CAP_PPM \in 0..Alone!PPM
        /\ MAX_PRICE_AGE_CAP \in Nat \ {0}
        /\ MAX_CLOCK_SKEW \in Nat /\ I128_MAX \in Nat /\ Price \subseteq Int
    BY StellarAssumption, SameSets
  <2> QED BY <2>1, <2>2, <2>3, <2>4, <2>5, Alone!MoneyStaysWithOwner, Alone!FillsAreHonoured
<1>2. Alone!OnlyToOwner => Stellar!OnlyToOwner
  BY SameSets DEF Alone!OnlyToOwner, Stellar!OnlyToOwner, Alone!Payee, Stellar!Payee,
     Alone!OwnerOf, Stellar!OwnerOf
<1>3. Alone!FillHonoured => Stellar!FillHonoured
  BY SameSets DEF Alone!FillHonoured, Stellar!FillHonoured, Alone!Payee, Stellar!Payee,
     Alone!OwnerOf, Stellar!OwnerOf
<1> QED BY <1>1, <1>2, <1>3, StellarInMesh, PTL
=============================================================================

------------------------ MODULE AquariusFiller_proofs ------------------------
(***************************************************************************)
(* The adapter keeps and spends nothing, for any tokens, any number of     *)
(* vaults and callers, any amounts and any behaviour of the router.        *)
(***************************************************************************)
EXTENDS AquariusFiller, TLAPS

USE FillerAssumption

Inv == FillerTypeOK /\ AtRestUntouched

(* What a fill does to the ledger: the caller is a vault, it has paid the  *)
(* positive input, and the router took exactly that, so the adapter's own  *)
(* balances are what they were.                                            *)
LEMMA FillEffect ==
    ASSUME FillerTypeOK, NEW c \in Callers, NEW i \in Tokens, NEW o \in Tokens, NEW e \in Tokens,
           NEW a \in Amounts, NEW m \in Amounts, NEW back \in 0 .. 2, NEW got \in 0 .. 2,
           NEW took \in RouterTakes(a), fill(c, i, a, o, m, e, took, back, got)
    PROVE  /\ held' = held /\ stray' = stray
           /\ taken' = [taken EXCEPT ![i] = @ + a] /\ paid' = [paid EXCEPT ![i] = @ + a]
           /\ a \in Nat /\ given' \in [Callers -> [Tokens -> Nat]]
<1>1. c \in VaultCode /\ a \in Nat /\ took \in Int
  BY DEF fill, Served, RouterTakes
<1>2. Payment(c, a) = a /\ took - back = a
  BY <1>1 DEF Payment, fill, InputTaken
<1>3. held' = held
  <2>1. held' = [held EXCEPT ![i] = @ + a - took + back]
    BY <1>2 DEF fill
  <2>2. held[i] + a - took + back = held[i]
    BY <1>1, <1>2 DEF FillerTypeOK
  <2> QED BY <2>1, <2>2 DEF FillerTypeOK
<1>4. taken' = [taken EXCEPT ![i] = @ + a]
  <2>1. taken' = [taken EXCEPT ![i] = @ + took - back]
    BY DEF fill
  <2>2. taken[i] + took - back = taken[i] + a
    BY <1>1, <1>2 DEF FillerTypeOK
  <2> QED BY <2>1, <2>2
<1>5. paid' = [paid EXCEPT ![i] = @ + a] /\ stray' = stray
  BY <1>2 DEF fill
<1>6. given' \in [Callers -> [Tokens -> Nat]]
  <2>1. given' = [given EXCEPT ![c][o] = @ + got]
    BY DEF fill
  <2> QED BY <2>1 DEF FillerTypeOK
<1> QED BY <1>1, <1>3, <1>4, <1>5, <1>6

LEMMA InitInv == Init => Inv
BY DEF Init, Inv, FillerTypeOK, AtRestUntouched

LEMMA NextInv == Inv /\ [Next]_vars => Inv'
<1> SUFFICES ASSUME Inv, [Next]_vars PROVE Inv'
  OBVIOUS
<1>1. FillerTypeOK /\ held = stray /\ taken = paid
  BY DEF Inv, AtRestUntouched
<1>2. ASSUME NEW c \in Callers, NEW i \in Tokens, NEW o \in Tokens, NEW e \in Tokens,
             NEW a \in Amounts, NEW m \in Amounts, NEW back \in 0 .. 2, NEW got \in 0 .. 2,
             NEW took \in RouterTakes(a), fill(c, i, a, o, m, e, took, back, got)
      PROVE  Inv'
  <2>1. /\ held' = held /\ stray' = stray
        /\ taken' = [taken EXCEPT ![i] = @ + a] /\ paid' = [paid EXCEPT ![i] = @ + a]
        /\ a \in Nat /\ given' \in [Callers -> [Tokens -> Nat]]
    BY <1>1, <1>2, FillEffect
  <2>2. FillerTypeOK'
    BY <1>1, <2>1 DEF FillerTypeOK
  <2>3. AtRestUntouched'
    BY <1>1, <2>1 DEF AtRestUntouched
  <2> QED BY <2>2, <2>3 DEF Inv
<1>3. ASSUME NEW t \in Tokens, SendByMistake(t) PROVE Inv'
  BY <1>1, <1>3 DEF SendByMistake, Inv, FillerTypeOK, AtRestUntouched
<1>4. CASE UNCHANGED vars
  BY <1>1, <1>4 DEF vars, Inv, FillerTypeOK, AtRestUntouched
<1> QED BY <1>2, <1>3, <1>4 DEF Next

(* The adapter's ledger stays typed: no fill and no router leaves it with  *)
(* a negative balance.                                                     *)
THEOREM FillerTyped == Spec => []FillerTypeOK
<1>1. Inv => FillerTypeOK
  BY DEF Inv
<1> QED BY <1>1, InitInv, NextInv, PTL DEF Spec

(* Whatever the router does inside a fill, afterwards the adapter holds    *)
(* what was sent to it by mistake and no more or less, and the router was  *)
(* paid what the vaults paid.                                              *)
THEOREM RestUntouched == Spec => []AtRestUntouched
<1>1. Inv => AtRestUntouched
  BY DEF Inv
<1> QED BY <1>1, InitInv, NextInv, PTL DEF Spec
=============================================================================

--------------------------- MODULE AquariusFiller ---------------------------
(***************************************************************************)
(* contracts/aquarius-filler/src/lib.rs: the adapter between vaults and    *)
(* the Aquarius router.  A fill is one atomic step: the host lets nothing  *)
(* re-enter the adapter, so the router's doing is only its net effect on   *)
(* the adapter's balances, chosen freely.  A vault pays `amount_in` before *)
(* it calls, in the same transaction; anybody else may call without        *)
(* paying.  Tokens may also be sent to the adapter by mistake.             *)
(***************************************************************************)
EXTENDS Integers

CONSTANTS
    Tokens,
    VaultCode,      \* contracts running the vault code the adapter serves
    Strangers,      \* every other account and contract
    Amounts,        \* amounts a caller may name, non-positive ones too
    MaxAtRest,      \* bound: tokens sent by mistake
    MaxServed       \* bound: input ever filled

VARIABLES
    held,           \* the adapter's balances
    stray,          \* history: tokens that arrived outside a fill
    taken,          \* history: input the router took
    paid,           \* history: input the callers paid
    given           \* history: output each caller received

vars == <<held, stray, taken, paid, given>>
Callers == VaultCode \cup Strangers

ASSUME FillerAssumption ==
    /\ VaultCode \cap Strangers = {}
    /\ Amounts \subseteq Int
    /\ MaxAtRest \in Nat /\ MaxServed \in Nat

FillerTypeOK ==
    /\ held \in [Tokens -> Nat] /\ stray \in [Tokens -> Nat]
    /\ taken \in [Tokens -> Nat] /\ paid \in [Tokens -> Nat]
    /\ given \in [Callers -> [Tokens -> Nat]]

Init ==
    /\ held = [t \in Tokens |-> 0] /\ stray = [t \in Tokens |-> 0]
    /\ taken = [t \in Tokens |-> 0] /\ paid = [t \in Tokens |-> 0]
    /\ given = [c \in Callers |-> [t \in Tokens |-> 0]]

(* Slip: the vault-code check is missing.                                  *)
ServesAnyone(recipient) == recipient \in Callers

(* Only contracts that run the vault code are served.                      *)
Served(recipient) == recipient \in VaultCode

(* What the caller transferred before calling: Vault::swap pays, and it    *)
(* never trades a token for itself or accepts nothing in return.           *)
VaultCalls(token_in, token_out, amount_in, min_out) ==
    amount_in > 0 /\ token_in # token_out /\ min_out > 0

Payment(recipient, amount_in) == IF recipient \in VaultCode THEN amount_in ELSE 0

(* External: the router may pull the input once and only in full, and may  *)
(* send tokens of either kind back.                                        *)
RouterTakes(amount_in) == {0, amount_in}

(* Slip: the router may leave input behind.                                *)
RouterTrusted(took, back, amount_in) == took - back <= amount_in

(* The balance check after the router returns.                             *)
InputTaken(took, back, amount_in) == took - back = amount_in

(* `routeEnd` is the last token of the route; none when it is empty.       *)
fill(recipient, token_in, amount_in, token_out, min_out, routeEnd, took, back, got) ==
    LET pay == Payment(recipient, amount_in) IN
    /\ recipient \in VaultCode => VaultCalls(token_in, token_out, amount_in, min_out)
    /\ Served(recipient)
    /\ amount_in > 0 /\ min_out >= 0
    /\ routeEnd = token_out
    /\ took \in RouterTakes(amount_in) /\ took <= held[token_in] + pay
    /\ InputTaken(took, back, amount_in)
    /\ got >= min_out
    /\ held' = [held EXCEPT ![token_in] = @ + pay - took + back]
    /\ taken' = [taken EXCEPT ![token_in] = @ + took - back]
    /\ paid' = [paid EXCEPT ![token_in] = @ + pay]
    /\ given' = [given EXCEPT ![recipient][token_out] = @ + got]
    /\ UNCHANGED stray

(* External: a transfer to the adapter outside any fill.                   *)
SendByMistake(t) ==
    /\ stray[t] < MaxAtRest
    /\ held' = [held EXCEPT ![t] = @ + 1]
    /\ stray' = [stray EXCEPT ![t] = @ + 1]
    /\ UNCHANGED <<taken, paid, given>>

Next ==
    \/ \E c \in Callers, i, o, e \in Tokens, a, m \in Amounts, back, got \in 0 .. 2 :
          \E took \in RouterTakes(a) :
              /\ paid[i] + a <= MaxServed /\ given[c][o] + got <= MaxServed
              /\ fill(c, i, a, o, m, e, took, back, got)
    \/ \E t \in Tokens : SendByMistake(t)

Spec == Init /\ [][Next]_vars

-----------------------------------------------------------------------------
(* The adapter keeps nothing and spends nothing of its own: between calls  *)
(* it holds exactly what was sent to it by mistake, which nobody can       *)
(* extract, and the router was paid exactly what callers paid              *)
(* (NotAVault, InputNotTaken, output measured by balance change).          *)
AtRestUntouched == held = stray /\ taken = paid
=============================================================================

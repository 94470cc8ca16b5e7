---------------------------- MODULE VaultCustody ----------------------------
(***************************************************************************)
(* What a vault promises its owner, without factories, relayers, fillers,  *)
(* authorizations or pending calls: tokens are held for one owner.  USDC   *)
(* leaves by being returned to the owner or by a conversion, whose worth   *)
(* in XLM reaches the owner in the same step; XLM leaves to the owner      *)
(* only.  One transaction may move the tokens of many vaults at once and   *)
(* converts the USDC of at most one.                                       *)
(***************************************************************************)
EXTENDS Integers

CONSTANTS
    Vaults,
    MaxDiscount, Unit,    \* a conversion may cost MaxDiscount / Unit of the worth
    InitialQuote

VARIABLES
    usdcHeld, xlmHeld,    \* tokens at each vault
    converted,            \* USDC converted for the owner
    usdcReturned,         \* USDC returned to the owner
    xlmPaid,              \* XLM paid to the owner
    quote                 \* prices [XLM, USDC] in force

money == <<usdcHeld, xlmHeld, converted, usdcReturned, xlmPaid>>
custodyVars == <<money, quote>>

Zero == [v \in Vaults |-> 0]

Init ==
    /\ usdcHeld = Zero /\ xlmHeld = Zero
    /\ converted = Zero /\ usdcReturned = Zero /\ xlmPaid = Zero
    /\ quote = InitialQuote

Converts(v) == converted'[v] > converted[v]

(* Nothing of v's owner is lost; more may arrive.                          *)
Keeps(v) ==
    /\ converted'[v] >= converted[v]
    /\ usdcReturned'[v] >= usdcReturned[v]
    /\ xlmPaid'[v] >= xlmPaid[v]
    /\ usdcHeld'[v] + converted'[v] + usdcReturned'[v]
          >= usdcHeld[v] + converted[v] + usdcReturned[v]
    /\ xlmHeld'[v] + xlmPaid'[v] >= xlmHeld[v] + xlmPaid[v]

(* The owner is paid, on top of the XLM already there, the worth of the    *)
(* converted USDC less the discount, but for rounding; so both prices must *)
(* be known.                                                               *)
Pays(v) ==
    LET brought == xlmPaid'[v] - xlmPaid[v] - xlmHeld[v]
    IN  /\ \A a \in DOMAIN quote : quote[a] # InitialQuote[a]
        /\ xlmHeld'[v] = 0
        /\ (brought + 1) * quote["XLM"].price * Unit
              > (converted'[v] - converted[v]) * quote["USDC"].price * (Unit - MaxDiscount)

Transaction ==
    /\ \A v \in Vaults : Keeps(v) /\ (Converts(v) => Pays(v))
    /\ \A v, w \in Vaults : Converts(v) /\ Converts(w) => v = w
    /\ UNCHANGED quote

Requote == quote' # quote /\ UNCHANGED money

Next == Transaction \/ Requote

Spec == Init /\ [][Next]_custodyVars
=============================================================================

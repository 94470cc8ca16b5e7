----------------------------- MODULE MCForwarder -----------------------------
(* Small instances of DepositForwarder.  PPM_DENOM is 4 and the rate caps  *)
(* are 25% and 50%, so that every rounding of the real rates (nothing, one *)
(* subunit, more) happens on balances of a few subunits.                   *)
EXTENDS DepositForwarder

CONSTANTS c1, c2, impl, owner, operator, eoa, factory, wiring

Silent == [fee |-> {}, feePpm |-> {}, cctpPpm |-> {}, delay |-> {}, fast |-> {},
           public |-> {}, operator |-> {}, heir |-> {}, collector |-> {}, sink |-> {},
           factory |-> {}, wiring |-> {wiring}]

(* The window under changing delays; every fee, also above its cap, paid   *)
(* to an outsider, a deposit address or the implementation, whose USDC is  *)
(* rescued to a deposit address; message limits, and minimum fees up to    *)
(* the cap (20 is the cap of 50% in Circle's unit) while the owner's rate  *)
(* is 0.                                                                   *)
MCInputs == [Silent EXCEPT !.fee = {1, 2}, !.feePpm = {1}, !.delay = {2},
                           !.operator = {operator}, !.collector = {eoa, c1, impl},
                           !.sink = {c1}]
MCCircle == [burnLimit |-> {0, 2, 4}, minFee |-> {0, 20}, legacy |-> {FALSE}]
=============================================================================

------------------------------ MODULE MCRescue ------------------------------
(* A deposit address on a chain of either kind; the sink is a contract     *)
(* that may be an operator too.  Two native units make a USDC subunit.     *)
EXTENDS Rescue

CONSTANTS c1, impl, owner, safe, wiring

MCInputs == [fee |-> {}, feePpm |-> {}, cctpPpm |-> {}, delay |-> {}, fast |-> {},
             public |-> {}, operator |-> {safe}, heir |-> {}, collector |-> {},
             sink |-> {safe}, factory |-> {}, wiring |-> {wiring}]
MCCircle == [burnLimit |-> {2}, minFee |-> {0}, legacy |-> {FALSE}]
=============================================================================

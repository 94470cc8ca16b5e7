------------------------------ MODULE MCConfig ------------------------------
(* Every setter with legal and illegal arguments, the two-step ownership   *)
(* transfer among three accounts, and a Circle whose limit may be 0 when   *)
(* init is called.  The CCTP rates and the allowance they give use the     *)
(* contract's own numbers (10^6, 10_000), on burns about the multiples of  *)
(* 1% of a subunit.                                                        *)
EXTENDS Governance

CONSTANTS alice, bob, carol, eoa, factory, good, better, bad

(* Governance, with the values above every cap that the setters refuse.    *)
AllInputs == [fee |-> {2}, feePpm |-> {2}, cctpPpm |-> {1, 10000, 10001},
              delay |-> {0, 2, 3}, fast |-> {}, public |-> {},
              operator |-> {bob}, heir |-> {alice, bob, carol, NoAddress},
              collector |-> {NoAddress, eoa}, sink |-> {NoAddress, eoa},
              factory |-> {NoAddress, eoa, factory}, wiring |-> {good, better, bad}]
AllCircle == [burnLimit |-> {0, 300}, minFee |-> {0, 1, 100000, 200000}, legacy |-> BOOLEAN]
=============================================================================

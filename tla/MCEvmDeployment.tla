--------------------------- MODULE MCEvmDeployment ---------------------------
(* Runs of the EVM deployment script with the right and a mistaken wiring, *)
(* and an owner who revokes what was set or hands over.                    *)
EXTENDS EvmDeployment

CONSTANTS owner, safe, good, mistaken

Quiet == [fee |-> {}, feePpm |-> {}, cctpPpm |-> {}, delay |-> {}, fast |-> {},
          public |-> {}, operator |-> {}, heir |-> {}, collector |-> {}, sink |-> {},
          factory |-> {}, wiring |-> {}]
Hand == [Quiet EXCEPT !.operator = {owner}, !.heir = {safe}, !.factory = {NoAddress},
                      !.collector = {safe}, !.wiring = {good}]
MCCircle == [burnLimit |-> {0, 1}, minFee |-> {0}, legacy |-> {FALSE}]
=============================================================================

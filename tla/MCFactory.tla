------------------------------ MODULE MCFactory ------------------------------
(* Small instances of DepositFactory: one recipient and index, hence one   *)
(* standard and one fast address, the genuine factory and an impostor.     *)
EXTENDS DepositFactory

CONSTANTS impl, owner, operator, eoa, factory, impostor, wiring

R == <<71>>
MCRecipients == {R}
MCClones == {computeAddress(R, 0, FALSE), computeAddress(R, 0, TRUE)}
MCFast == {computeAddress(R, 0, TRUE)}

Silent == [fee |-> {}, feePpm |-> {}, cctpPpm |-> {}, delay |-> {}, fast |-> {},
           public |-> {}, operator |-> {}, heir |-> {}, collector |-> {}, sink |-> {},
           factory |-> {}, wiring |-> {wiring}]

(* Access rights granted and revoked, fees to a sibling address, Circle    *)
(* halting for a while, at no minimum fee or the highest within the cap.   *)
AccessInputs == [Silent EXCEPT !.fee = {1}, !.public = BOOLEAN, !.operator = {operator},
                               !.collector = {computeAddress(R, 0, TRUE)},
                               !.factory = {NoAddress, factory, impostor}]
AccessCircle == [burnLimit |-> {0, 2}, minFee |-> {0, 20}, legacy |-> {FALSE}]
=============================================================================

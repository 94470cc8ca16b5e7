------------------------------ MODULE MCFiller ------------------------------
(* A vault and a stranger, callers that may name any amount.            *)
EXTENDS AquariusFiller
MCAmounts == -1 .. 2
=============================================================================

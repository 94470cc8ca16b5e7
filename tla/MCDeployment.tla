---------------------------- MODULE MCDeployment ----------------------------
(* Runs of the deployment tool with parameters that disagree on the admin, *)
(* on the discount and on the relayers.                                    *)
EXTENDS StellarDeployment

CONSTANTS deployer, safe, r1, r2

Own == [admin |-> deployer, relayers |-> <<r1, r2>>, discount |-> 1]
Other == [admin |-> deployer, relayers |-> <<r1>>, discount |-> 2]
Handed == [admin |-> safe, relayers |-> <<r2>>, discount |-> 1]
AllParams == {Own, Other, Handed}
=============================================================================

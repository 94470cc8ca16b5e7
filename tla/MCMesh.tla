------------------------------ MODULE MCMesh ------------------------------
(* Small instances of CrossMesh: deposit addresses for a vault, for an     *)
(* address that takes USDC itself and for others.                          *)
EXTENDS CrossMesh

CONSTANTS impl, owner, operator, eoa, wiring,
          key, person, cctpForwarder

(* Recipients as committed: a vault's, a person's and the forwarder's key, *)
(* and bytes that are no key.                                              *)
VaultKey == <<67>>
PersonKey == <<71>>
ForwarderKey == <<68>>
NoKey == <<0>>
MCRecipients == {VaultKey, PersonKey, ForwarderKey, NoKey}

ToVault == computeAddress(VaultKey, 0, FALSE)
ToPerson == computeAddress(PersonKey, 0, TRUE)
ToForwarder == computeAddress(ForwarderKey, 0, FALSE)
ToNobody == computeAddress(NoKey, 0, FALSE)

MCBase == [o \in {key} |-> person]
Prices == VaultInputs.price
Resolve == [r \in {VaultKey, PersonKey} |->
               IF r = VaultKey THEN <<StellarFactory, key>> ELSE person]
ResolveAll == [r \in {PersonKey, ForwarderKey} |->
               IF r = ForwarderKey THEN cctpForwarder ELSE person]

Silent == [fee |-> {}, feePpm |-> {}, cctpPpm |-> {}, delay |-> {}, fast |-> {},
           public |-> {}, operator |-> {}, heir |-> {}, collector |-> {}, sink |-> {},
           factory |-> {}, wiring |-> {wiring}]
MeshCircle == [burnLimit |-> {2}, minFee |-> {20}, legacy |-> {FALSE}]

(* Money: both recipients, flushes with fees and a fast allowance, sweeps, *)
(* swaps and withdrawals.                                                  *)
MoneyClones == {ToVault, ToPerson}
FastMoney == {ToPerson}
MoneyInputs == [Silent EXCEPT !.fast = {TRUE},
                              !.operator = {operator}]
Swaps == [token |-> {USDC, XLM}, asset |-> {"USDC", "XLM"}, oracle |-> {Reflector},
          discount |-> {0}, age |-> {1}, delivery |-> {1}, price |-> {1}, time |-> {0},
          usdc |-> {}, xlm |-> {20}, amount |-> {}, minOut |-> {0}]

(* Arrival without operator or relayer: an account that comes, goes and    *)
(* drops its trustline, Circle halting for a while, and an address nobody  *)
(* can be paid through.                                                    *)
LiveClones == {ToVault, ToPerson, ToNobody}
Halting == [burnLimit |-> {0, 2}, minFee |-> {20}, legacy |-> {FALSE}]
NoSwaps == [Swaps EXCEPT !.price = {}, !.xlm = {}]

(* The forwarder's own key passes the recipient gate.                      *)
GateClones == {ToPerson, ToForwarder}
=============================================================================

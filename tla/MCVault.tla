------------------------------ MODULE MCVault ------------------------------
(* Small instances of VaultFactory.                                        *)
EXTENDS VaultFactory, TLC

CONSTANTS gkey, ckey, account, contract, worthless

(* The addresses behind the owner keys: an account, a contract, or both.   *)
MixedBases == (gkey :> account) @@ (ckey :> contract)
ContractBase == (ckey :> contract)

Quiet == [token |-> Assets, asset |-> OracleAsset, oracle |-> {Reflector},
          discount |-> {0}, age |-> {1}, delivery |-> {2}, price |-> {1}, time |-> {0},
          usdc |-> {2}, xlm |-> {2}, amount |-> {2}, minOut |-> {0}]

Prices == VaultInputs.price

(* Who gets the money: two owners' vaults and a feed that may show zero;   *)
(* the relayer asks for more than the floor, and the whole balance         *)
(* overflows the floor where a part of it does not.                        *)
CustodyInputs == [Quiet EXCEPT !.delivery = {1}, !.amount = {1}, !.price = {0, 1},
                               !.minOut = {2}]

(* Whose call, and at which price: an impostor beside the genuine factory, *)
(* with a vault of its own, any bounds and any tokens; the whole balance   *)
(* of either token can be sold.                                            *)
PriceInputs == [Quiet EXCEPT !.token = Assets \cup {worthless},
                             !.discount = {100000, 500000}, !.age = {1, 2},
                             !.time = {0, 2}, !.delivery = {1},
                             !.usdc = {4}, !.amount = {4}]
=============================================================================

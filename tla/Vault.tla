------------------------------- MODULE Vault -------------------------------
(***************************************************************************)
(* contracts/vault/src/lib.rs over the part of the Stellar ledger it       *)
(* touches.  A vault has no storage: its identity is its address, derived  *)
(* from the factory that deployed it and the owner's strkey.               *)
(*                                                                         *)
(* `swap` hands USDC to a filler contract nobody vouches for and resumes   *)
(* when `fill` returns, so it is two steps with the filler's own calls in  *)
(* between: `call` is the pending invocation and holds the ledger that a   *)
(* trap anywhere below it restores.  The host refuses to re-enter the      *)
(* vault and the factory while they are on the stack, and nothing else.    *)
(*                                                                         *)
(* The vault moves the tokens that the configuration of its caller names.  *)
(* The ledger holds USDC and XLM; a token that is neither is a contract    *)
(* that answers and does as it likes, and has no balances here.            *)
(*                                                                         *)
(* The fields of `ledger` from usdcIn on are history and roll back with    *)
(* the rest.  Only the bounds on arriving tokens read them.  So is         *)
(* call.canonical, which nothing reads.                                    *)
(***************************************************************************)
EXTENDS OracleFloor

CONSTANTS
    Factory,        \* the genuine factory
    Impostors,      \* other contracts that run vaults of their own
    Owners,         \* owner strkeys
    BaseOf,         \* the address behind a strkey: an M key shares its G key's
    Contracts,      \* base addresses that are contracts (C keys)
    USDC, XLM,      \* the asset contracts of the two real tokens
    Reflector,      \* the oracle contract that publishes the feed
    VaultInputs,    \* small sets of arguments, one field per parameter
    BASE_RESERVE,   \* XLM per reserve of a ledger account
    NoCall,
    MaxUsdc, MaxXlm \* bounds: tokens ever sent to one vault

VARIABLES
    ledger,
    call

Factories == {Factory} \cup Impostors
Vaults == Factories \X Owners
Bases == {BaseOf[o] : o \in Owners}
Accounts == Bases \ Contracts

(* The vaults whose addresses are handed to owners.                        *)
Genuine == {Factory} \X Owners

Assets == {USDC, XLM}

VaultConfig == [usdc : VaultInputs.token, xlm : VaultInputs.token,
                oracle : VaultInputs.oracle,
                usdc_asset : VaultInputs.asset, xlm_asset : VaultInputs.asset,
                discount_ppm : VaultInputs.discount,
                max_price_age : VaultInputs.age,
                min_delivery : VaultInputs.delivery]

(* Names the real tokens and the feed's oracle, as it lists them.          *)
Canonical(cfg) ==
    /\ cfg.usdc = USDC /\ cfg.usdc_asset = "USDC"
    /\ cfg.xlm = XLM /\ cfg.xlm_asset = "XLM"
    /\ cfg.oracle = Reflector

(* A new account needs two reserves.                                       *)
MIN_BALANCE == 2 * BASE_RESERVE

ASSUME VaultAssumption ==
    /\ Factory \notin Impostors
    /\ DOMAIN BaseOf = Owners
    /\ USDC # XLM /\ Reflector \notin Assets
    /\ VaultInputs.asset \subseteq OracleAsset
    /\ VaultInputs.discount \cup VaultInputs.age \subseteq Nat
    /\ VaultInputs.delivery \subseteq Int
    /\ BASE_RESERVE \in Nat \ {0}
    /\ MaxUsdc \in Nat /\ MaxXlm \in Nat

Ledgers == [
    deployed : SUBSET Vaults,
    account  : SUBSET Accounts,            \* accounts that exist
    trust    : SUBSET Accounts,            \* and hold a USDC trustline
    usdc     : [Vaults -> Nat],
    xlm      : [Vaults -> Nat],
    usdcIn   : [Vaults -> Nat],            \* USDC ever received
    xlmIn    : [Vaults -> Nat],            \* XLM ever received
    gift     : [Vaults -> Nat],            \*   of it, outside the vault's own fills
    sold     : [Vaults -> Nat],            \* USDC handed to fillers
    due      : [Vaults -> Nat],            \* XLM the fills were required to bring
    usdcOut  : [Vaults \X Bases -> Nat],   \* USDC the vault returned, by payee
    xlmOut   : [Vaults \X Bases -> Nat]]   \* XLM the vault paid out, by payee

Calls == [vault : Vaults, owner : Owners, amount : Nat, want : Nat,
          before : Nat, token : VaultInputs.token, canonical : BOOLEAN,
          saved : Ledgers]

ASSUME NoCallAssumption == NoCall \notin Calls

(* External: the address the protocol gives the contract that f deploys    *)
(* under salt sha256(o), taken to be free of collisions.                   *)
deployed_address(f, o) == <<f, o>>
OwnerOf(v) == v[2]
Payee(v) == <<v, BaseOf[OwnerOf(v)]>>

VaultInit ==
    /\ ledger = [
           deployed |-> {}, account |-> {}, trust |-> {},
           usdc |-> [v \in Vaults |-> 0], xlm |-> [v \in Vaults |-> 0],
           usdcIn |-> [v \in Vaults |-> 0], xlmIn |-> [v \in Vaults |-> 0],
           gift |-> [v \in Vaults |-> 0], sold |-> [v \in Vaults |-> 0],
           due |-> [v \in Vaults |-> 0],
           usdcOut |-> [p \in Vaults \X Bases |-> 0],
           xlmOut |-> [p \in Vaults \X Bases |-> 0]]
    /\ call = NoCall

contract_exists(l, v) == v \in l.deployed

Idle == call = NoCall
Running(v) == ~Idle /\ call.vault = v

(* External: token transfers by the Stellar Asset Contracts.  XLM sent to  *)
(* an account that does not exist creates it; USDC needs a trustline.      *)
TakesXlm(b, amount) == b \in Contracts \cup ledger.account \/ amount >= MIN_BALANCE
TakesUsdc(b) == b \in Contracts \cup ledger.trust

(* A contract authorizes by calling; an account must exist to sign.        *)
CanSign(b) == b \in Contracts \cup ledger.account

-----------------------------------------------------------------------------
(* Vault::swap and Vault::withdraw.                                        *)

(* Slip: the identity check looks at the deploying factory alone.          *)
AnyOwnerOfFactory(v, o, f) == f = v[1]

(* Slip: the identity check looks at the owner alone.                      *)
AnyFactoryOfOwner(v, o, f) == o = v[2]

(* The identity check that replaces stored state.                          *)
require_this_vault(v, o, f) == deployed_address(f, o) = v

(* Slip: the factory that is named need not be the caller.                 *)
AnyCaller(f, caller) == TRUE

(* factory.require_auth: a contract authorizes what it calls itself.       *)
require_auth(f, caller) == f = caller

(* A foreign token's balance is whatever it says, and decides nothing.     *)
BalanceOf(l, v, token) ==
    CASE token = USDC -> l.usdc[v]
      [] token = XLM -> l.xlm[v]
      [] OTHER -> 0

(* External: what the contract at this address answers for the two assets; *)
(* a token contract is no oracle and traps.                                *)
Answers(oracle) ==
    CASE oracle = Reflector -> {feed}
      [] oracle \in Assets -> {}
      [] OTHER -> [OracleAsset -> [price : Price, timestamp : VaultInputs.time]]

(* The relayer's limit and the oracle's.                                   *)
Want(cfg, quotes, amount, min_out) ==
    LET floor == oracle_floor(cfg, quotes, amount)
    IN  IF min_out > floor THEN min_out ELSE floor

(* The transfer of the amount to the filler.                               *)
Sells(l, v, token, amount) ==
    \/ /\ token = USDC
       /\ amount <= l.usdc[v]
       /\ ledger' = [l EXCEPT !.usdc[v] = @ - amount, !.sold[v] = @ + amount]
    \/ /\ token = XLM
       /\ amount <= l.xlm[v]
       /\ ledger' = [l EXCEPT !.xlm[v] = @ - amount]
    \/ /\ token \notin Assets
       /\ ledger' = l

(* Vault::swap up to and including the transfer to the filler.  `l` is the *)
(* ledger as the factory left it in the same transaction.                  *)
SwapOpens(l, caller, v, o, f, amount, min_out, cfg) ==
    /\ contract_exists(l, v)
    /\ require_this_vault(v, o, f)
    /\ require_auth(f, caller)
    /\ amount > 0
    /\ Sells(l, v, cfg.usdc, amount)
    /\ \E quotes \in Answers(cfg.oracle) :
          /\ CanPrice(cfg, quotes, amount)
          /\ Want(cfg, quotes, amount, min_out) >= cfg.min_delivery
          /\ call' = [vault |-> v, owner |-> o, amount |-> amount,
                      want |-> Want(cfg, quotes, amount, min_out),
                      before |-> BalanceOf(l, v, cfg.xlm), token |-> cfg.xlm,
                      canonical |-> Canonical(cfg), saved |-> ledger]

(* Slip: the fill is measured by the balance, not by its change.           *)
BalanceHeld(after, before) == after

(* What the fill brought.                                                  *)
Delivered(after, before) == after - before

(* The transfer of the whole balance to the owner.                         *)
Pays(v, b, token, amount) ==
    \/ /\ token = XLM
       /\ TakesXlm(b, amount)
       /\ ledger' = [ledger EXCEPT
              !.xlm[v] = 0,
              !.xlmOut[<<v, b>>] = @ + amount,
              !.due[v] = @ + call.want,
              !.account = @ \cup ({b} \ Contracts)]
    \/ /\ token = USDC
       /\ TakesUsdc(b)
       /\ ledger' = [ledger EXCEPT !.usdc[v] = 0, !.usdcOut[<<v, b>>] = @ + amount]

(* Vault::swap from the return of `fill`.                                  *)
SwapCloses ==
    /\ ~Idle
    /\ LET v == call.vault
           token == call.token
           after == BalanceOf(ledger, v, token)
       IN  \/ /\ Delivered(after, call.before) >= call.want
              /\ Pays(v, BaseOf[call.owner], token, after)
           \/ /\ token \notin Assets
              /\ UNCHANGED ledger
    /\ call' = NoCall

(* Slip: a failed fill is reported to the caller, who does not trap.       *)
SwapFailsSoftly ==
    /\ ~Idle
    /\ call' = NoCall
    /\ UNCHANGED ledger

(* A trap in the filler, a shortfall, or a transfer that fails.            *)
SwapTraps ==
    /\ ~Idle
    /\ ledger' = call.saved
    /\ call' = NoCall

(* Vault::withdraw, called for USDC or XLM by whoever can sign as o.       *)
withdraw(v, o, f, token) ==
    LET b == BaseOf[o]
        amount == BalanceOf(ledger, v, token)
    IN  /\ contract_exists(ledger, v)
        /\ ~Running(v)
        /\ require_this_vault(v, o, f)
        /\ CanSign(b)
        /\ amount > 0
        /\ \/ /\ token = USDC
              /\ TakesUsdc(b)
              /\ ledger' = [ledger EXCEPT !.usdc[v] = 0, !.usdcOut[<<v, b>>] = @ + amount]
           \/ /\ token = XLM
              /\ ledger' = [ledger EXCEPT !.xlm[v] = 0, !.xlmOut[<<v, b>>] = @ + amount]
        /\ UNCHANGED call

-----------------------------------------------------------------------------
(* External: the rest of the network, also from inside a fill.             *)

(* CctpForwarder.mint_and_forward, or any transfer of USDC.                *)
MintAndForward(v, amount) ==
    /\ ledger.usdcIn[v] + amount <= MaxUsdc
    /\ ledger' = [ledger EXCEPT !.usdc[v] = @ + amount, !.usdcIn[v] = @ + amount]
    /\ UNCHANGED call

(* Any transfer of XLM: a filler's delivery when its swap is pending.      *)
SendXlm(v, amount) ==
    /\ ledger.xlmIn[v] + amount <= MaxXlm
    /\ ledger' = [ledger EXCEPT !.xlm[v] = @ + amount, !.xlmIn[v] = @ + amount,
                                !.gift[v] = IF Running(v) THEN @ ELSE @ + amount]
    /\ UNCHANGED call

(* Classic operations; removing an account requires its trustline gone.    *)
create_account(b) ==
    /\ b \notin ledger.account
    /\ ledger' = [ledger EXCEPT !.account = @ \cup {b}]
    /\ UNCHANGED call

MergeAccount(b) ==
    /\ Idle
    /\ b \in ledger.account \ ledger.trust
    /\ ledger' = [ledger EXCEPT !.account = @ \ {b}]
    /\ UNCHANGED call

create_trustline(b) ==
    /\ Idle
    /\ b \in ledger.account \ ledger.trust
    /\ ledger' = [ledger EXCEPT !.trust = @ \cup {b}]
    /\ UNCHANGED call

RemoveTrustline(b) ==
    /\ Idle
    /\ b \in ledger.trust
    /\ ledger' = [ledger EXCEPT !.trust = @ \ {b}]
    /\ UNCHANGED call
=============================================================================

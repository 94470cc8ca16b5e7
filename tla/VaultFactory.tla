---------------------------- MODULE VaultFactory ----------------------------
(***************************************************************************)
(* contracts/vault-factory/src/lib.rs and the system it forms with the     *)
(* vaults, the oracle and the fillers: the factory deploys vaults, admits  *)
(* relayers and is the only contract whose vaults accept its swaps.        *)
(* Impostors are contracts that deploy the same vault code and call any    *)
(* vault with any configuration, any oracle and any tokens.  What becomes  *)
(* of the money in their own vaults is not promised to anybody             *)
(* (stellar/docs/THREAT-MODEL.md, Tamper.2.R.2).                           *)
(***************************************************************************)
EXTENDS Vault

CONSTANTS
    Admins, Relayers,  \* addresses that may hold each role
    Malformed,         \* byte strings that are no strkey
    NoDiscount, NoAmount

VARIABLE factory       \* instance storage: Admin, Config, Discount, Relayer(_)

vars == <<feed, now, ledger, call, factory>>

ASSUME FactoryAssumption ==
    /\ VaultInputs.time \subseteq Nat
    /\ VaultInputs.price \subseteq Price
    /\ VaultInputs.usdc \cup VaultInputs.xlm \subseteq Nat
    /\ VaultInputs.amount \cup VaultInputs.minOut \subseteq Int
    /\ NoDiscount \notin VaultInputs.discount
    /\ Malformed \cap Owners = {}

(* __constructor.                                                          *)
FactoryInit ==
    \E admin \in Admins, cfg \in VaultConfig :
        /\ ConfigUsable(cfg)
        /\ cfg.oracle \notin {cfg.usdc, cfg.xlm}
        /\ factory = [admin |-> admin, config |-> cfg, discount |-> NoDiscount,
                      relayers |-> {}]

(* Its addresses are issued only after its configuration was verified.     *)
Verified == Canonical(factory.config)

read_admin == factory.admin
is_relayer(addr) == addr \in factory.relayers

read_config ==
    IF factory.discount = NoDiscount THEN factory.config
    ELSE [factory.config EXCEPT !.discount_ppm = factory.discount]

-----------------------------------------------------------------------------
(* Deployment.                                                             *)

(* Any well-formed G, M or C key is an owner; anything else traps.         *)
parse_owner(o) == o \in Owners

(* The address o's vault has under the genuine factory, deployed or not.   *)
derive_address(o) == deployed_address(Factory, o)

(* The ledger after f deployed o's vault, if it had to.                    *)
WithVault(f, o) == [ledger EXCEPT !.deployed = @ \cup {deployed_address(f, o)}]

(* Slip: deploy is reserved to relayers.                                   *)
DeployNeedsRelayer(f, o) ==
    /\ Idle
    /\ parse_owner(o)
    /\ f = Factory => factory.relayers # {}
    /\ ledger' = WithVault(f, o)
    /\ UNCHANGED <<feed, now, call, factory>>

deploy(f, o) ==
    /\ Idle
    /\ parse_owner(o)
    /\ ledger' = WithVault(f, o)
    /\ UNCHANGED <<feed, now, call, factory>>

(* settle: deploy, default the amount to the whole balance, swap.          *)
settle(o, amount, min_out) ==
    LET l == WithVault(Factory, o)
        v == derive_address(o)
    IN  /\ parse_owner(o)
        /\ SwapOpens(l, Factory, v, o, Factory,
                     IF amount = NoAmount THEN BalanceOf(l, v, read_config.usdc) ELSE amount,
                     min_out, read_config)

swap(relayer, o, amount, min_out) ==
    /\ Idle
    /\ is_relayer(relayer)
    /\ settle(o, amount, min_out)
    /\ UNCHANGED <<feed, now, factory>>

(* External: an impostor calls Vault::swap itself, on any vault and with   *)
(* any arguments; it can authorize its own address only.                   *)
ForeignSwap(f, v, o, factoryArg, amount, min_out, cfg) ==
    /\ Idle
    /\ SwapOpens(ledger, f, v, o, factoryArg, amount, min_out, cfg)
    /\ UNCHANGED <<feed, now, factory>>

set_relayer(sender, r, enabled) ==
    /\ Idle
    /\ sender = read_admin
    /\ factory' = [factory EXCEPT !.relayers = IF enabled THEN @ \cup {r} ELSE @ \ {r}]
    /\ UNCHANGED <<feed, now, ledger, call>>

(* Slip: the cap is left to the constructor.                               *)
set_discountUncapped(sender, discount_ppm) ==
    /\ Idle
    /\ sender = read_admin
    /\ factory' = [factory EXCEPT !.discount = discount_ppm]
    /\ UNCHANGED <<feed, now, ledger, call>>

set_discount(sender, discount_ppm) ==
    /\ Idle
    /\ sender = read_admin
    /\ discount_ppm <= DISCOUNT_CAP_PPM
    /\ factory' = [factory EXCEPT !.discount = discount_ppm]
    /\ UNCHANGED <<feed, now, ledger, call>>

(* Both the old and the new admin sign.                                    *)
set_admin(sender, new_admin) ==
    /\ Idle
    /\ sender = read_admin
    /\ factory' = [factory EXCEPT !.admin = new_admin]
    /\ UNCHANGED <<feed, now, ledger, call>>

-----------------------------------------------------------------------------
Init ==
    /\ VaultInit
    /\ FactoryInit /\ Verified
    /\ feed = [a \in OracleAsset |-> NoRecord]
    /\ now = 0

Governance ==
    \E s \in Admins :
        \/ \E r \in Relayers, on \in BOOLEAN : set_relayer(s, r, on)
        \/ \E d \in VaultInputs.discount : set_discount(s, d)
        \/ \E a \in Admins : set_admin(s, a)

(* The feed publishes and time passes between transactions.                *)
Surroundings ==
    /\ Idle
    /\ \/ \E a \in OracleAsset, p \in VaultInputs.price, t \in VaultInputs.time :
              Publish(a, [price |-> p, timestamp |-> t])
       \/ \E t \in VaultInputs.time : now + t \in VaultInputs.time /\ t > 0 /\ Tick(t)
    /\ UNCHANGED <<ledger, call, factory>>

(* Every call and transfer that a filler may also make during a fill.      *)
Traffic ==
    /\ \/ \E v \in Vaults, o \in Owners, f \in Factories, t \in Assets :
              withdraw(v, o, f, t)
       \/ \E v \in Vaults, a \in VaultInputs.usdc : MintAndForward(v, a)
       \/ \E v \in Vaults, a \in VaultInputs.xlm : SendXlm(v, a)
       \/ \E b \in Accounts :
              create_account(b) \/ MergeAccount(b) \/ create_trustline(b) \/ RemoveTrustline(b)
    /\ UNCHANGED <<feed, now, factory>>

Returns == (SwapCloses \/ SwapTraps) /\ UNCHANGED <<feed, now, factory>>

Next ==
    \/ \E f \in Factories, o \in Owners \cup Malformed : deploy(f, o)
    \/ \E r \in Relayers, o \in Owners \cup Malformed, a \in VaultInputs.amount \cup {NoAmount},
          w \in VaultInputs.minOut : swap(r, o, a, w)
    \/ \E f \in Impostors, v \in Vaults, o \in Owners, g \in Factories,
          a \in VaultInputs.amount, w \in VaultInputs.minOut, cfg \in VaultConfig :
              ForeignSwap(f, v, o, g, a, w, cfg)
    \/ Returns
    \/ Traffic
    \/ Governance
    \/ Surroundings

Spec == Init /\ [][Next]_vars

(* A transaction always ends.  An owner who keeps submitting deploy or     *)
(* withdraw gets it included: the only states that disable them lie inside *)
(* other transactions, hence strong fairness between transactions.  No     *)
(* fairness is asked of relayers, the admin, the oracle or fillers.        *)
FairSpec ==
    /\ Spec
    /\ WF_vars(Returns)
    /\ \A o \in Owners :
          /\ SF_vars(deploy(Factory, o))
          /\ \A t \in Assets :
                SF_vars(/\ Idle
                        /\ withdraw(derive_address(o), o, Factory, t)
                        /\ UNCHANGED <<feed, now, factory>>)

-----------------------------------------------------------------------------
TypeOK ==
    /\ FeedType
    /\ now \in Nat
    /\ ledger \in Ledgers
    /\ call \in Calls \cup {NoCall}
    /\ factory.config \in VaultConfig /\ ConfigUsable(read_config)
    /\ factory.admin \in Admins
    /\ factory.relayers \subseteq Relayers

(* Whatever a filler does inside a fill, whoever calls with which owner    *)
(* and factory arguments, and whatever tokens and oracle an impostor       *)
(* names: every unit of USDC a vault of the genuine factory ever received  *)
(* is in it, was sold for its owner, or was returned to its owner; every   *)
(* stroop of XLM is in it or went to its owner.                            *)
OnlyToOwner ==
    \A v \in Genuine :
        /\ ledger.usdcIn[v] = ledger.usdc[v] + ledger.sold[v] + ledger.usdcOut[Payee(v)]
        /\ ledger.xlmIn[v] = ledger.xlm[v] + ledger.xlmOut[Payee(v)]

(* At a vault of the genuine factory a fill is never paid for with XLM the *)
(* vault already had: what the owner got or still has is at least what     *)
(* arrived outside fills plus all that the fills owed (Vault::swap,        *)
(* FillShortfall on the balance delta).                                    *)
FillHonoured ==
    \A v \in Genuine :
        ledger.xlm[v] + ledger.xlmOut[Payee(v)] >= ledger.gift[v] + ledger.due[v]

(* A swap that closes paid, beyond what the vault held, the sold USDC's    *)
(* worth at prices no older than the code-fixed cap, less the code-fixed   *)
(* discount, rounded down: for every vault whose caller names the real     *)
(* tokens and the feed's oracle, whatever discount, age and minimum it     *)
(* names with them, since the vault checks those itself.                   *)
PaidFairly ==
    LET p == Payee(call.vault)
        paid == ledger'.xlmOut[p] - ledger.xlmOut[p] - call.before
    IN  /\ \A a \in OracleAsset :
              feed[a].timestamp \in (now - MAX_PRICE_AGE_CAP) .. (now + MAX_CLOCK_SKEW)
        /\ (paid + 1) * feed["XLM"].price * PPM
              > call.amount * feed["USDC"].price * (PPM - DISCOUNT_CAP_PPM)

FairPrice ==
    [][~Idle /\ call' = NoCall /\ ledger' # call.saved /\ call.canonical
          => PaidFairly]_vars

(* A swap is atomic for everybody outside it: with a pending call shown as *)
(* the ledger a trap would restore, the system implements VaultCustody for *)
(* every vault of the genuine factory, whatever else the transaction of a  *)
(* swap did to other vaults and whatever impostors call.                   *)
Shown == IF Idle THEN ledger ELSE call.saved
Promise == INSTANCE VaultCustody
             WITH MaxDiscount <- DISCOUNT_CAP_PPM, Unit <- PPM,
                  InitialQuote <- [a \in OracleAsset |-> NoRecord],
                  Vaults <- Genuine,
                  usdcHeld <- [v \in Genuine |-> Shown.usdc[v]],
                  xlmHeld <- [v \in Genuine |-> Shown.xlm[v]],
                  converted <- [v \in Genuine |-> Shown.sold[v]],
                  usdcReturned <- [v \in Genuine |-> Shown.usdcOut[Payee(v)]],
                  xlmPaid <- [v \in Genuine |-> Shown.xlmOut[Payee(v)]],
                  quote <- feed
PromiseKept == Promise!Spec

(* The owner's exit needs nobody: once the owner's address can sign and    *)
(* hold USDC, the vault is emptied again and again, whatever the relayers, *)
(* the admin, the oracle and the fillers do, and deployed or not.          *)
OwnerLeaves ==
    \A o \in Owners :
        LET v == derive_address(o)
            b == BaseOf[o]
        IN  <>[](CanSign(b) /\ TakesUsdc(b))
              => []<>(Idle /\ ledger.usdc[v] = 0 /\ ledger.xlm[v] = 0)
=============================================================================

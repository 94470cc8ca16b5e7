------------------------------- MODULE Config -------------------------------
(***************************************************************************)
(* Config.sol: the per-chain configuration shared by every deposit clone.  *)
(* The contract's storage is the record `config`.  Each external function  *)
(* is an action whose first parameter is msg.sender; a reverting call      *)
(* changes nothing and is therefore not a step.                            *)
(***************************************************************************)
EXTENDS CctpAllowance, FiniteSets

CONSTANTS
    Users,            \* accounts that send transactions
    NoAddress,        \* address(0)
    NoWiring,         \* the unset (usdc, tokenMessenger, stellarForwarder)
    SoundWirings,     \* triples that pass init's code, version and route checks
    WiredFactories,   \* contracts that report being wired to this Config
    Deployer,         \* the constructor's owner_
    MaxSetupFee, MaxBaseFee, MaxFeePpm,
    MinSweepDelay, MaxSweepDelay,
    ConfigInputs      \* argument values the setters are tried with, by setter

VARIABLE config

(* The caps are constants of the contract: 100e6, 100e6, 10_000, 1 hour    *)
(* and 7 days.                                                             *)
ASSUME CapsAssumption ==
    /\ MaxSetupFee \in Nat /\ MaxBaseFee \in Nat
    /\ MaxFeePpm \in Nat
    /\ MinSweepDelay \in Nat \ {0} /\ MaxSweepDelay \in Nat
    /\ MinSweepDelay <= MaxSweepDelay

ASSUME ConfigAssumption ==
    /\ Deployer \in Users
    /\ NoAddress \notin Users \cup WiredFactories
    /\ NoWiring \notin SoundWirings
    /\ ConfigInputs.fee \subseteq Nat /\ ConfigInputs.feePpm \subseteq Nat
    /\ ConfigInputs.cctpPpm \subseteq Nat /\ ConfigInputs.delay \subseteq Nat
    /\ ConfigInputs.fast \subseteq BOOLEAN /\ ConfigInputs.public \subseteq BOOLEAN
    /\ ConfigInputs.operator \subseteq Users \cup WiredFactories
    /\ ConfigInputs.heir \subseteq Users \cup {NoAddress}

(* Every address a tunable may hold.                                       *)
Payees == ConfigInputs.collector \cup ConfigInputs.sink

ConfigType ==
    [owner : Users, pendingOwner : Users \cup {NoAddress},
     initialized : BOOLEAN, wiring : SoundWirings \cup {NoWiring},
     setupFee : 0..MaxSetupFee, baseFee : 0..MaxBaseFee, feePpm : 0..MaxFeePpm,
     cctpStandardMaxFeePpm : 0..MaxCctpFeePpm, cctpFastMaxFeePpm : 0..MaxCctpFeePpm,
     fastEnabled : BOOLEAN, publicFlush : BOOLEAN,
     feeCollector : Payees \cup {NoAddress}, rescueSink : Payees \cup {NoAddress},
     sweepDelay : MinSweepDelay..MaxSweepDelay,
     operators : SUBSET (Users \cup WiredFactories),
     factory : WiredFactories \cup {NoAddress}]

-----------------------------------------------------------------------------
(* constructor: only the owner and the sweep delay are set; the delay      *)
(* starts at its floor, never at 0.                                        *)
ConfigInit ==
    config = [owner |-> Deployer, pendingOwner |-> NoAddress,
              initialized |-> FALSE, wiring |-> NoWiring,
              setupFee |-> 0, baseFee |-> 0, feePpm |-> 0,
              cctpStandardMaxFeePpm |-> 0, cctpFastMaxFeePpm |-> 0,
              fastEnabled |-> FALSE, publicFlush |-> FALSE,
              feeCollector |-> NoAddress, rescueSink |-> NoAddress,
              sweepDelay |-> MinSweepDelay, operators |-> {}, factory |-> NoAddress]

OnlyOwner(sender) == sender = config.owner

(* Slip: the one-time latch is not tested.                                 *)
initAgain(sender, w) ==
    /\ OnlyOwner(sender)
    /\ w \in SoundWirings
    /\ circle.burnLimit # 0
    /\ config' = [config EXCEPT !.initialized = TRUE, !.wiring = w]

(* The USDC path is wired once; the minter must report a burn limit then.  *)
init(sender, w) ==
    /\ OnlyOwner(sender)
    /\ ~config.initialized
    /\ w \in SoundWirings
    /\ circle.burnLimit # 0
    /\ config' = [config EXCEPT !.initialized = TRUE, !.wiring = w]

setSetupFee(sender, value) ==
    /\ OnlyOwner(sender) /\ value <= MaxSetupFee
    /\ config' = [config EXCEPT !.setupFee = value]

(* Slip: the cap is left to the caller.                                    *)
setBaseFeeUncapped(sender, value) ==
    /\ OnlyOwner(sender)
    /\ config' = [config EXCEPT !.baseFee = value]

setBaseFee(sender, value) ==
    /\ OnlyOwner(sender) /\ value <= MaxBaseFee
    /\ config' = [config EXCEPT !.baseFee = value]

setFeePpm(sender, value) ==
    /\ OnlyOwner(sender) /\ value <= MaxFeePpm
    /\ config' = [config EXCEPT !.feePpm = value]

setCctpStandardMaxFeePpm(sender, value) ==
    /\ OnlyOwner(sender) /\ value <= MaxCctpFeePpm
    /\ config' = [config EXCEPT !.cctpStandardMaxFeePpm = value]

setCctpFastMaxFeePpm(sender, value) ==
    /\ OnlyOwner(sender) /\ value <= MaxCctpFeePpm
    /\ config' = [config EXCEPT !.cctpFastMaxFeePpm = value]

setFastEnabled(sender, value) ==
    /\ OnlyOwner(sender)
    /\ config' = [config EXCEPT !.fastEnabled = value]

setPublicFlush(sender, value) ==
    /\ OnlyOwner(sender)
    /\ config' = [config EXCEPT !.publicFlush = value]

setFeeCollector(sender, value) ==
    /\ OnlyOwner(sender) /\ value # NoAddress
    /\ config' = [config EXCEPT !.feeCollector = value]

(* Slip: only the cap is tested, not the floor.                            *)
setSweepDelayUnfloored(sender, value) ==
    /\ OnlyOwner(sender) /\ value <= MaxSweepDelay
    /\ config' = [config EXCEPT !.sweepDelay = value]

setSweepDelay(sender, value) ==
    /\ OnlyOwner(sender) /\ value >= MinSweepDelay /\ value <= MaxSweepDelay
    /\ config' = [config EXCEPT !.sweepDelay = value]

setOperator(sender, value, allowed) ==
    /\ OnlyOwner(sender)
    /\ config' = [config EXCEPT !.operators = IF allowed THEN @ \cup {value} ELSE @ \ {value}]

(* address(0) revokes; any other value must report wiring to this Config.  *)
setFactory(sender, value) ==
    /\ OnlyOwner(sender) /\ value \in WiredFactories \cup {NoAddress}
    /\ config' = [config EXCEPT !.factory = value]

setRescueSink(sender, value) ==
    /\ OnlyOwner(sender) /\ value # NoAddress
    /\ config' = [config EXCEPT !.rescueSink = value]

(* Two-step: propose (or cancel, with address(0)), then accept.            *)
transferOwnership(sender, to) ==
    /\ OnlyOwner(sender)
    /\ config' = [config EXCEPT !.pendingOwner = to]

(* Slip: the accepted proposal is not cleared.                             *)
acceptKeepsProposal(sender) ==
    /\ sender = config.pendingOwner
    /\ config' = [config EXCEPT !.owner = config.pendingOwner]

acceptOwnership(sender) ==
    /\ sender = config.pendingOwner
    /\ config' = [config EXCEPT !.owner = config.pendingOwner, !.pendingOwner = NoAddress]

-----------------------------------------------------------------------------
FeeSetter(s) ==
    \/ \E v \in ConfigInputs.fee : setSetupFee(s, v) \/ setBaseFee(s, v)
    \/ \E v \in ConfigInputs.feePpm : setFeePpm(s, v)
    \/ \E v \in ConfigInputs.collector : setFeeCollector(s, v)

CctpSetter(s) ==
    \/ \E v \in ConfigInputs.cctpPpm : setCctpStandardMaxFeePpm(s, v) \/ setCctpFastMaxFeePpm(s, v)
    \/ \E v \in ConfigInputs.fast : setFastEnabled(s, v)

AccessSetter(s) ==
    \/ \E v \in ConfigInputs.public : setPublicFlush(s, v)
    \/ \E v \in ConfigInputs.operator, b \in BOOLEAN : setOperator(s, v, b)
    \/ \E v \in ConfigInputs.factory : setFactory(s, v)
    \/ \E v \in ConfigInputs.delay : setSweepDelay(s, v)
    \/ \E v \in ConfigInputs.sink : setRescueSink(s, v)

Governance(s) ==
    \/ \E w \in ConfigInputs.wiring : init(s, w)
    \/ \E v \in ConfigInputs.heir : transferOwnership(s, v)
    \/ acceptOwnership(s)

ConfigNext ==
    \E s \in Users : FeeSetter(s) \/ CctpSetter(s) \/ AccessSetter(s) \/ Governance(s)
=============================================================================

--------------------------- MODULE EvmDeployment ---------------------------
(***************************************************************************)
(* script/DeployCwia.s.sol with script/CreateX.sol, run by forge against   *)
(* one chain, on top of Config.  The script is executed on the chain as it *)
(* is when it starts; a failing require ends it there.  The transactions   *)
(* it recorded are sent afterwards, with consecutive nonces of the owner's *)
(* key: by the time they land, the chain, or what is left of earlier runs, *)
(* may have moved on.  CreateX lets anyone create the three contracts.     *)
(***************************************************************************)
EXTENDS Config

CONSTANTS
    TheFactory,      \* the address the script's factory has on every chain
    Wirings,         \* arguments of a run: usdc, tokenMessenger, stellarForwarder
    NoScript,
    MaxFaults,       \* bound: runs killed, transactions evicted
    MaxOutside       \* bound: changes by the owner's hand and by Circle

VARIABLES
    onchain,         \* which of the three contracts have code
    mempool,         \* transactions sent and neither included nor evicted; their
                     \* nonces are counted from the owner's current one
    script,          \* the run in progress
    reported,        \* arguments of the runs that ended well
    faults, outside

chainVars == <<circle, config, onchain>>
deployVars == <<chainVars, mempool, script, reported, faults, outside>>

ASSUME EvmDeploymentAssumption ==
    /\ TheFactory \in WiredFactories
    /\ MaxFaults \in Nat /\ MaxOutside \in Nat

(* A run in progress: its arguments, the places of the steps it has yet to *)
(* send, the nonce of the next, and whether it saw one of its transactions *)
(* fail or the owner use Config by hand.                                   *)
Scripts == [wiring : Wirings, plan : SUBSET (1..7), next : Int,
            lost : BOOLEAN, touched : BOOLEAN]

ASSUME NoScriptAssumption == NoScript \notin Scripts

-----------------------------------------------------------------------------
(* What a run may broadcast.                                               *)
Create(c) == [do |-> "create", what |-> c]
Init(w) == [do |-> "init", wiring |-> w]
Set(field) == [do |-> "set", what |-> field]

Steps(w) ==
    <<Create("config"), Init(w), Create("impl"), Create("factory"),
      Set("operator"), Set("factory"), Set("feeCollector")>>

(* Slip: deployments are not looked for.                                   *)
AlwaysCreates(s) ==
    \/ s.do = "create"
    \/ s.do = "init" /\ ~config.initialized
    \/ s = Set("operator") /\ Deployer \notin config.operators
    \/ s = Set("factory") /\ config.factory # TheFactory
    \/ s = Set("feeCollector") /\ config.feeCollector = NoAddress

(* What is in place is skipped.                                            *)
Needed(s) ==
    \/ s.do = "create" /\ s.what \notin onchain
    \/ s.do = "init" /\ ~config.initialized
    \/ s = Set("operator") /\ Deployer \notin config.operators
    \/ s = Set("factory") /\ config.factory # TheFactory
    \/ s = Set("feeCollector") /\ config.feeCollector = NoAddress

(* CREATE2 through CreateX: once per address, and the factory insists on   *)
(* a live implementation.                                                  *)
Creates(c) ==
    /\ c \notin onchain
    /\ c = "factory" => "impl" \in onchain
    /\ onchain' = onchain \cup {c}
    /\ UNCHANGED config

(* One transaction of the owner's key, if it does not revert.  A call of   *)
(* the Config address before it has code succeeds and does nothing.        *)
Call(s) ==
    \/ s.do = "create" /\ Creates(s.what)
    \/ s.do # "create" /\ "config" \notin onchain /\ UNCHANGED <<config, onchain>>
    \/ /\ "config" \in onchain
       /\ UNCHANGED onchain
       /\ \/ s.do = "init" /\ init(Deployer, s.wiring)
          \/ s = Set("operator") /\ setOperator(Deployer, Deployer, TRUE)
          \/ s = Set("factory") /\ {"impl", "factory"} \subseteq onchain /\ setFactory(Deployer, TheFactory)
          \/ s = Set("feeCollector") /\ setFeeCollector(Deployer, Deployer)

(* Slip: the wiring found on an initialized Config is not compared.        *)
AnyWiring(w) == TRUE

(* An initialized Config must have the wiring of this run.                 *)
WiringMatches(w) == config.initialized => config.wiring = w

Owned(s) == s.do # "create"

(* The steps of a run, by their places in Steps(w).                        *)
Plan(w) == {i \in DOMAIN Steps(w) : Needed(Steps(w)[i])}

(* The script's own execution, before anything is sent, meets no revert.   *)
Simulates(w) ==
    /\ WiringMatches(w)
    /\ ~config.initialized => w \in SoundWirings /\ circle.burnLimit # 0
    /\ \A i \in Plan(w) :
          LET s == Steps(w)[i]
          IN  IF Owned(s) THEN OnlyOwner(Deployer) ELSE s.what \notin onchain

-----------------------------------------------------------------------------
(* External: forge sends what the script recorded and waits for it.        *)
run(w) ==
    /\ script = NoScript
    /\ Simulates(w)
    /\ script' = [wiring |-> w, plan |-> Plan(w), next |-> 0,
                  lost |-> FALSE, touched |-> FALSE]
    /\ UNCHANGED <<chainVars, mempool, reported, faults, outside>>

(* A node holds one transaction for a nonce: a new one replaces it or is   *)
(* refused as underpriced.  A nonce that is already used is refused.       *)
Send ==
    /\ script # NoScript /\ ~script.lost
    /\ \E i \in script.plan :
          LET tx == [nonce |-> script.next, step |-> Steps(script.wiring)[i], own |-> TRUE]
              others == {t \in mempool : t.nonce # tx.nonce}
          IN  /\ \A j \in script.plan : i <= j
              /\ \/ /\ script.next >= 0
                    /\ mempool' = others \cup {tx}
                    /\ script' = [script EXCEPT !.plan = @ \ {i}, !.next = @ + 1]
                 \/ /\ script.next < 0 \/ others # mempool
                    /\ script' = [script EXCEPT !.lost = TRUE]
                    /\ UNCHANGED mempool
    /\ UNCHANGED <<chainVars, reported, faults, outside>>

Own(txs) == {tx \in txs : tx.own}
Orphaned == {[tx EXCEPT !.own = FALSE] : tx \in mempool}

(* Every transaction was included and none reverted.                       *)
Report ==
    /\ script # NoScript /\ script.plan = {} /\ ~script.lost /\ Own(mempool) = {}
    /\ script' = NoScript
    /\ reported' = reported \cup {script.wiring}
    /\ UNCHANGED <<chainVars, mempool, faults, outside>>

Aborts ==
    /\ script' = NoScript
    /\ mempool' = Orphaned
    /\ UNCHANGED <<chainVars, reported, outside>>

GiveUp == script # NoScript /\ script.lost /\ Aborts /\ UNCHANGED faults

Killed == script # NoScript /\ faults < MaxFaults /\ faults' = faults + 1 /\ Aborts

-----------------------------------------------------------------------------
(* External: the chain.  A nonce is used once: what else was sent with it  *)
(* is gone, and a run notices when its transaction is gone or reverted.    *)
UseNonce(s, lost) ==
    /\ mempool' = {[tx EXCEPT !.nonce = @ - 1] : tx \in {t \in mempool : t.nonce > 0}}
    /\ script' = IF s = NoScript THEN s ELSE [s EXCEPT !.next = @ - 1, !.lost = @ \/ lost]

Lands(tx) ==
    /\ tx \in mempool /\ tx.nonce = 0
    /\ \/ Call(tx.step) /\ UseNonce(script, FALSE)
       \/ ~ENABLED Call(tx.step) /\ UNCHANGED <<config, onchain>> /\ UseNonce(script, tx.own)
    /\ UNCHANGED <<circle, reported, faults, outside>>

Evicted(tx) ==
    /\ tx \in mempool /\ faults < MaxFaults
    /\ faults' = faults + 1
    /\ mempool' = mempool \ {tx}
    /\ script' = IF tx.own THEN [script EXCEPT !.lost = TRUE] ELSE script
    /\ UNCHANGED <<chainVars, reported, outside>>

(* Anyone creates a contract at the address the script would give it.      *)
Stranger(c) ==
    /\ Creates(c)
    /\ UNCHANGED <<circle, mempool, script, reported, faults, outside>>

Touch(s) == IF s = NoScript THEN s ELSE [s EXCEPT !.touched = TRUE]

(* The owner uses Config by hand; a new owner is another account.          *)
ByHand(s) ==
    /\ outside < MaxOutside /\ "config" \in onchain
    /\ outside' = outside + 1
    /\ FeeSetter(s) \/ AccessSetter(s) \/ Governance(s)
    /\ \/ s # Deployer /\ script' = Touch(script) /\ UNCHANGED mempool
       \/ s = Deployer /\ UseNonce(Touch(script), \E tx \in Own(mempool) : tx.nonce = 0)
    /\ UNCHANGED <<circle, onchain, reported, faults>>

CircleMoves ==
    /\ outside < MaxOutside
    /\ outside' = outside + 1
    /\ CircleNext
    /\ UNCHANGED <<config, onchain, mempool, script, reported, faults>>

-----------------------------------------------------------------------------
DeployInit ==
    /\ CircleInit /\ ConfigInit
    /\ onchain = {} /\ mempool = {}
    /\ script = NoScript /\ reported = {}
    /\ faults = 0 /\ outside = 0

Process == Send \/ Report \/ GiveUp

DeployNext ==
    \/ \E w \in Wirings : run(w)
    \/ Process
    \/ Killed
    \/ \E tx \in mempool : Lands(tx) \/ Evicted(tx)
    \/ \E c \in {"config", "impl", "factory"} : Stranger(c)
    \/ \E s \in Users : ByHand(s)
    \/ CircleMoves

DeploySpec == DeployInit /\ [][DeployNext]_deployVars

(* forge runs, blocks are made, and the operator repeats a failed run.     *)
FairDeploySpec ==
    /\ DeploySpec
    /\ WF_deployVars(Process)
    /\ WF_deployVars(\E tx \in mempool : Lands(tx))
    /\ \A w \in Wirings : SF_deployVars(run(w))

-----------------------------------------------------------------------------
Wired(w) ==
    /\ onchain = {"config", "impl", "factory"}
    /\ config.initialized /\ config.wiring = w
    /\ Deployer \in config.operators
    /\ config.factory = TheFactory /\ config.feeCollector # NoAddress

(* A run that ends well leaves the chain wired as its arguments say,       *)
(* though it decided what to send before anything was sent: strangers      *)
(* create the contracts meanwhile, transactions of killed runs with other  *)
(* arguments still land, some of its own get lost.  Only another hand on   *)
(* Config during the run is excepted.                                      *)
ReportedMeansWired ==
    [][\A w \in reported' \ reported : script.touched \/ Wired(w)]_deployVars

(* "Idempotent": however often runs are killed half-way, repeating the     *)
(* command completes the deployment once Circle's minter knows the token,  *)
(* unless the owner handed over or Config was wired differently before     *)
(* (CreateXLib.deploy, run).                                               *)
RerunsComplete ==
    \A w \in Wirings :
        <>[](/\ circle.burnLimit # 0 /\ config.owner = Deployer
             /\ config.initialized => config.wiring = w)
          => <>(w \in reported)
=============================================================================

------------------------- MODULE StellarDeployment -------------------------
(***************************************************************************)
(* stellar/script/deploy.py: the commands upload, deploy and verify, run   *)
(* and re-run by one deployer.  A command looks at the chain, decides,     *)
(* builds a transaction, sends it and polls for it; each of these is a     *)
(* step, so that the chain may change in between, the poll may give up on  *)
(* a transaction that still lands, and the process may die anywhere.       *)
(*                                                                         *)
(* All transactions of the tool come from one account, and a transaction   *)
(* carries the account's next sequence number: of several in flight built  *)
(* on the same ledger only one can land, which voids the others.           *)
(***************************************************************************)
EXTENDS Integers, Sequences

CONSTANTS
    Deployer,        \* the signer, source of every transaction
    Params,          \* arguments of a run: [admin, relayers (a sequence), discount]
    Discounts,       \* values the admin may set later
    NoRun, NoParams, NoFactory,
    MaxFaults,       \* bound: crashes, polls given up, transactions failed or dropped
    MaxAdminActs     \* bound: later calls of the factory's admin

VARIABLES
    chain,           \* [code, factory, filler]: what is on the ledger
    inflight,        \* transactions sent and neither landed nor dropped
    run,             \* the command in progress
    passed,          \* parameters with which a verification passed
    faults, adminActs

vars == <<chain, inflight, run, passed, faults, adminActs>>

CRATES == <<"vault", "vault-factory", "aquarius-filler">>

AllRelayers == UNION {{p.relayers[i] : i \in DOMAIN p.relayers} : p \in Params}

ASSUME DeploymentAssumption ==
    /\ MaxFaults \in Nat /\ MaxAdminActs \in Nat
    /\ \A p \in Params : p.relayers \in Seq(AllRelayers)
    /\ NoParams \notin Params

-----------------------------------------------------------------------------
(* Steps of the commands: those that may send a transaction, and checks.   *)
Upload(crate) == [do |-> "upload", crate |-> crate]
Factory(p) == [do |-> "factory", params |-> p]
Relayer(r) == [do |-> "relayer", who |-> r]
Filler == [do |-> "filler"]
Check(what) == [do |-> "check", what |-> what]
CheckRelayer(r) == [do |-> "check", what |-> "relayer", who |-> r]

PlainChecks == {"vault code", "factory code", "filler code", "config", "admin", "filler"}
Steps ==
    {Upload(CRATES[i]) : i \in 1 .. Len(CRATES)} \cup {Factory(p) : p \in Params}
        \cup {Relayer(r) : r \in AllRelayers} \cup {Filler}
        \cup {Check(w) : w \in PlainChecks} \cup {CheckRelayer(r) : r \in AllRelayers}

(* What the ledger, a transaction in flight and a command in progress are. *)
FactoryState == [admin : {p.admin : p \in Params}, relayers : SUBSET AllRelayers,
                 discount : {p.discount : p \in Params} \cup Discounts]
Chains == [code : SUBSET {CRATES[i] : i \in 1 .. Len(CRATES)},
           factory : FactoryState \cup {NoFactory}, filler : BOOLEAN]
Transactions == [step : Steps, own : BOOLEAN]
Runs == [todo : Seq(Steps), params : Params \cup {NoParams},
         phase : {"look", "build", "send", "stale", "poll", "landed", "failed"},
         wrong : BOOLEAN, touched : BOOLEAN]

ASSUME NothingAssumption == NoFactory \notin FactoryState /\ NoRun \notin Runs

do_upload == [i \in 1 .. Len(CRATES) |-> Upload(CRATES[i])]

(* One read of the chain per value compared.                               *)
do_verify(p) ==
    <<Check("vault code"), Check("factory code"), Check("filler code"),
      Check("config"), Check("admin")>>
      \o [i \in DOMAIN p.relayers |-> CheckRelayer(p.relayers[i])]
      \o <<Check("filler")>>

do_deploy(p) ==
    <<Factory(p)>> \o [i \in DOMAIN p.relayers |-> Relayer(p.relayers[i])] \o <<Filler>>

(* Code that deploy wants on chain before it does anything.                *)
missing == {CRATES[i] : i \in 1 .. Len(CRATES)} \ chain.code

Relayers == IF chain.factory = NoFactory THEN {} ELSE chain.factory.relayers

(* Slip: an existing contract is not looked for.                           *)
NeverOnChain(s) ==
    \/ s.do = "upload" /\ s.crate \in chain.code
    \/ s.do = "relayer" /\ s.who \in Relayers

(* What is already on chain is skipped.                                    *)
OnChain(s) ==
    \/ s.do = "upload" /\ s.crate \in chain.code
    \/ s.do = "factory" /\ chain.factory # NoFactory
    \/ s.do = "relayer" /\ s.who \in Relayers
    \/ s.do = "filler" /\ chain.filler

(* Only the admin can enable relayers: the tool then says so and goes on.  *)
NotOurs(s, p) == s.do = "relayer" /\ p.admin # Deployer

(* Slip: that something answers at the factory's address is taken for its  *)
(* configuration.                                                          *)
TrustsTheAddress(s, p) ==
    \/ s.what \in {"vault code", "factory code", "config", "admin"} /\ chain.factory # NoFactory
    \/ s.what \in {"filler code", "filler"} /\ chain.filler
    \/ s.what = "relayer" /\ s.who \in Relayers

CheckHolds(s, p) ==
    \/ s.what = "vault code" /\ "vault" \in chain.code
    \/ s.what = "factory code" /\ chain.factory # NoFactory
    \/ s.what = "config" /\ chain.factory # NoFactory /\ chain.factory.discount = p.discount
    \/ s.what = "admin" /\ chain.factory # NoFactory /\ chain.factory.admin = p.admin
    \/ s.what = "relayer" /\ s.who \in Relayers
    \/ s.what \in {"filler code", "filler"} /\ chain.filler

-----------------------------------------------------------------------------
(* External: the network.                                                  *)

(* Whether a transaction succeeds on this ledger.  A contract address can  *)
(* be used once; a contract needs its code.                                *)
Valid(s) ==
    \/ s.do = "upload"
    \/ s.do = "factory" /\ chain.factory = NoFactory /\ "vault-factory" \in chain.code
    \/ s.do = "relayer" /\ chain.factory # NoFactory /\ chain.factory.admin = Deployer
    \/ s.do = "filler" /\ ~chain.filler /\ "aquarius-filler" \in chain.code

Effect(s) ==
    CASE s.do = "upload" -> [chain EXCEPT !.code = @ \cup {s.crate}]
      [] s.do = "factory" -> [chain EXCEPT !.factory = [admin |-> s.params.admin, relayers |-> {},
                                                        discount |-> s.params.discount]]
      [] s.do = "relayer" -> [chain EXCEPT !.factory.relayers = @ \cup {s.who}]
      [] s.do = "filler" -> [chain EXCEPT !.filler = TRUE]

(* The account's sequence number moves on: what was built before is void.  *)
Voided(r) == IF r # NoRun /\ r.phase = "send" THEN [r EXCEPT !.phase = "stale"] ELSE r

Included(tx, outcome) ==
    /\ tx \in inflight
    /\ inflight' = {}
    /\ run' = IF tx.own THEN [run EXCEPT !.phase = outcome] ELSE Voided(run)
    /\ UNCHANGED <<passed, adminActs>>

(* A transaction in flight is included; what it does still applies, since  *)
(* nobody else writes where it writes without voiding it.                  *)
Lands(tx) ==
    /\ Included(tx, "landed")
    /\ Valid(tx.step)
    /\ chain' = Effect(tx.step)
    /\ UNCHANGED faults

(* It is included and fails: the resources simulated for it fall short.    *)
FailsOnChain(tx) ==
    /\ faults < MaxFaults
    /\ faults' = faults + 1
    /\ Included(tx, "failed")
    /\ UNCHANGED chain

(* It is dropped: its 900 seconds are over.                                *)
Expires(tx) ==
    /\ tx \in inflight /\ faults < MaxFaults
    /\ faults' = faults + 1
    /\ inflight' = inflight \ {tx}
    /\ UNCHANGED <<chain, run, passed, adminActs>>

(* The admin uses the factory; the deployer may be the admin.              *)
AdminActs(f) ==
    /\ chain.factory # NoFactory /\ adminActs < MaxAdminActs
    /\ adminActs' = adminActs + 1
    /\ chain' = [chain EXCEPT !.factory = f]
    /\ inflight' = IF chain.factory.admin = Deployer THEN {} ELSE inflight
    /\ run' = LET r == IF chain.factory.admin = Deployer THEN Voided(run) ELSE run
              IN  IF r = NoRun THEN r ELSE [r EXCEPT !.touched = TRUE]
    /\ UNCHANGED <<passed, faults>>

-----------------------------------------------------------------------------
(* The commands.                                                           *)
Start(steps, p) ==
    /\ run = NoRun
    /\ run' = [todo |-> steps, params |-> p, phase |-> "look", wrong |-> FALSE, touched |-> FALSE]
    /\ UNCHANGED <<chain, inflight, passed, faults, adminActs>>

upload == Start(do_upload, NoParams)
deploy(p) == missing = {} /\ Start(do_deploy(p) \o do_verify(p), p)
verify(p) == Start(do_verify(p), p)

Step == run.todo[1]
Orphans == {[tx EXCEPT !.own = FALSE] : tx \in inflight}

(* Fail: the process ends; what it sent stays in flight.                   *)
Fails ==
    /\ run' = NoRun
    /\ inflight' = Orphans
    /\ UNCHANGED <<chain, passed, adminActs>>

At(phase) == run # NoRun /\ run.phase = phase
Busy == run # NoRun /\ run.todo # <<>>

(* Look at the chain; skip the step, take a check's verdict, or decide to  *)
(* send.                                                                   *)
Look ==
    /\ At("look") /\ Busy
    /\ run' = IF Step.do = "check"
              THEN [run EXCEPT !.todo = Tail(@), !.wrong = @ \/ ~CheckHolds(Step, run.params)]
              ELSE IF OnChain(Step) \/ NotOurs(Step, run.params)
              THEN [run EXCEPT !.todo = Tail(@)]
              ELSE [run EXCEPT !.phase = "build"]
    /\ UNCHANGED <<chain, inflight, passed, faults, adminActs>>

(* submit: load the account, simulate, sign.                               *)
Build ==
    /\ At("build")
    /\ \/ /\ Valid(Step)
          /\ run' = [run EXCEPT !.phase = "send"]
          /\ UNCHANGED <<chain, inflight, passed, adminActs>>
       \/ ~Valid(Step) /\ Fails
    /\ UNCHANGED faults

(* Accepted as pending, or rejected for its sequence number.               *)
Send ==
    /\ \/ /\ At("send")
          /\ run' = [run EXCEPT !.phase = "poll"]
          /\ inflight' = inflight \cup {[step |-> Step, own |-> TRUE]}
          /\ UNCHANGED <<chain, passed, adminActs>>
       \/ At("stale") /\ Fails
    /\ UNCHANGED faults

(* poll_transaction: success, failure, or nothing found any more.          *)
Poll ==
    /\ \/ /\ At("landed")
          /\ run' = [run EXCEPT !.phase = "look", !.todo = Tail(@)]
          /\ UNCHANGED <<chain, inflight, passed, adminActs>>
       \/ At("failed") /\ Fails
       \/ At("poll") /\ (\A tx \in inflight : ~tx.own) /\ Fails
    /\ UNCHANGED faults

(* The last check is made.                                                 *)
Finish ==
    /\ At("look") /\ run.todo = <<>>
    /\ run' = NoRun
    /\ passed' = IF run.wrong THEN passed ELSE passed \cup ({run.params} \ {NoParams})
    /\ UNCHANGED <<chain, inflight, faults, adminActs>>

(* The process dies, the operator declines, the node keeps answering       *)
(* TRY_AGAIN_LATER, or 120 polls are not enough.                           *)
Crash ==
    /\ run # NoRun /\ faults < MaxFaults
    /\ faults' = faults + 1
    /\ Fails

-----------------------------------------------------------------------------
Init ==
    /\ chain = [code |-> {}, factory |-> NoFactory, filler |-> FALSE]
    /\ inflight = {}
    /\ run = NoRun
    /\ passed = {}
    /\ faults = 0 /\ adminActs = 0

Admin ==
    /\ chain.factory # NoFactory
    /\ \/ \E r \in AllRelayers, enabled \in BOOLEAN :
             AdminActs([chain.factory EXCEPT !.relayers = IF enabled THEN @ \cup {r} ELSE @ \ {r}])
       \/ \E d \in Discounts : AdminActs([chain.factory EXCEPT !.discount = d])

Process == Look \/ Build \/ Send \/ Poll \/ Finish

Next ==
    \/ upload
    \/ \E p \in Params : deploy(p) \/ verify(p)
    \/ Process
    \/ Crash
    \/ \E tx \in inflight : Lands(tx) \/ FailsOnChain(tx) \/ Expires(tx)
    \/ Admin

Spec == Init /\ [][Next]_vars

(* The process runs, the network includes what was sent, and the operator  *)
(* does not give up re-running the commands after a failure.               *)
FairSpec ==
    /\ Spec
    /\ WF_vars(Process)
    /\ WF_vars(\E tx \in inflight : Lands(tx))
    /\ SF_vars(upload)
    /\ \A p \in Params : SF_vars(deploy(p))

-----------------------------------------------------------------------------
Wired(p) ==
    /\ "vault" \in chain.code
    /\ chain.filler
    /\ chain.factory # NoFactory
    /\ chain.factory.admin = p.admin /\ chain.factory.discount = p.discount
    /\ \A i \in DOMAIN p.relayers : p.relayers[i] \in chain.factory.relayers

(* A verification reads the chain call by call while older transactions    *)
(* may still land.  When it passes, the deployment is the one its          *)
(* parameters describe, even if an earlier run with others got there       *)
(* first, unless the admin changed something during the run.               *)
VerifiedMeansWired ==
    [][\A p \in Params : p \in passed' \ passed => run.touched \/ Wired(p)]_vars

(* What a run finds and cannot change is as its parameters say: an earlier *)
(* factory, and relayers that only another admin could enable.             *)
Attainable(p) ==
    chain.factory # NoFactory =>
        /\ chain.factory.admin = p.admin /\ chain.factory.discount = p.discount
        /\ p.admin = Deployer \/ \A i \in DOMAIN p.relayers : p.relayers[i] \in Relayers

(* "Every command is idempotent": after interrupted runs, also with other  *)
(* parameters, running the commands again completes the deployment and     *)
(* verifies it, whenever what is already there allows it.                  *)
Completes == \A p \in Params : <>[]Attainable(p) => <>(p \in passed)
=============================================================================

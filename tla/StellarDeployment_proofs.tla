--------------------- MODULE StellarDeployment_proofs ---------------------
(***************************************************************************)
(* A verification that passes means what it says, for every set of         *)
(* parameters, however many commands died or still have transactions in    *)
(* flight.  verify reads the chain once per value, so its verdict is about *)
(* as many states as it has checks; the invariant is that a check once     *)
(* passed keeps holding until somebody with the admin's key acts.          *)
(***************************************************************************)
EXTENDS StellarDeployment, SequenceTheorems, TLAPS

(* What verify compares for p.                                             *)
ChecksOf(p) ==
    {Check(w) : w \in PlainChecks} \cup {CheckRelayer(p.relayers[i]) : i \in DOMAIN p.relayers}

Planned(s, todo) == \E i \in 1 .. Len(todo) : todo[i] = s

(* A check that is not ahead any more was made, and its verdict stands.    *)
VerdictsStand ==
    run # NoRun /\ run.params # NoParams =>
        \A s \in ChecksOf(run.params) :
            \/ Planned(s, run.todo)
            \/ run.wrong \/ run.touched
            \/ CheckHolds(s, run.params)

(* A run past its look is about a step that sends, and has a transaction   *)
(* of its own in flight only while it polls for it.                        *)
Sends(todo) == todo # <<>> /\ todo[1].do # "check"
ActsOnStep == run # NoRun => run.phase = "look" \/ Sends(run.todo)
WaitsForOwn == \A tx \in inflight : tx.own => run # NoRun /\ run.phase = "poll"

DeployInv ==
    /\ chain \in Chains
    /\ inflight \subseteq Transactions
    /\ run \in Runs \cup {NoRun}
    /\ ActsOnStep
    /\ WaitsForOwn
    /\ VerdictsStand
-----------------------------------------------------------------------------
(* The plans of the commands.                                              *)

LEMMA ConcatPlans ==
    ASSUME NEW a \in Seq(Steps), NEW b \in Seq(Steps)
    PROVE  /\ a \o b \in Seq(Steps)
           /\ \A s : Planned(s, a) \/ Planned(s, b) => Planned(s, a \o b)
<1>1. /\ a \o b \in Seq(Steps) /\ Len(a) \in Nat /\ Len(b) \in Nat
      /\ Len(a \o b) = Len(a) + Len(b)
      /\ \A i \in 1 .. Len(a) + Len(b) :
            (a \o b)[i] = IF i <= Len(a) THEN a[i] ELSE b[i - Len(a)]
  BY ConcatProperties, LenProperties
<1>2. ASSUME NEW s, Planned(s, a)
      PROVE  Planned(s, a \o b)
  <2>1. PICK i \in 1 .. Len(a) : a[i] = s
    BY <1>2 DEF Planned
  <2>2. i \in 1 .. Len(a \o b) /\ (a \o b)[i] = s
    BY <1>1, <2>1
  <2> QED  BY <2>2 DEF Planned
<1>3. ASSUME NEW s, Planned(s, b)
      PROVE  Planned(s, a \o b)
  <2>1. PICK i \in 1 .. Len(b) : b[i] = s
    BY <1>3 DEF Planned
  <2>2. i + Len(a) \in 1 .. Len(a \o b) /\ (a \o b)[i + Len(a)] = b[i + Len(a) - Len(a)]
    BY <1>1, <2>1
  <2>3. i + Len(a) - Len(a) = i
    BY <1>1, <2>1
  <2> QED  BY <2>1, <2>2, <2>3 DEF Planned
<1> QED  BY <1>1, <1>2, <1>3

LEMMA TailPlans ==
    ASSUME NEW q \in Seq(Steps), q # <<>>
    PROVE  /\ q[1] \in Steps /\ Tail(q) \in Seq(Steps)
           /\ \A s : Planned(s, q) => s = q[1] \/ Planned(s, Tail(q))
<1>1. /\ Tail(q) \in Seq(Steps) /\ Len(q) \in Nat \ {0} /\ Len(Tail(q)) = Len(q) - 1
      /\ \A i \in 1 .. Len(Tail(q)) : Tail(q)[i] = q[i + 1]
  BY HeadTailProperties, EmptySeq
<1>2. q[1] \in Steps
  BY <1>1, ElementOfSeq
<1>3. ASSUME NEW s, Planned(s, q), s # q[1]
      PROVE  Planned(s, Tail(q))
  <2>1. PICK i \in 1 .. Len(q) : q[i] = s
    BY <1>3 DEF Planned
  <2>2. i - 1 \in 1 .. Len(Tail(q)) /\ (i - 1) + 1 = i
    BY <1>1, <1>3, <2>1
  <2>3. Tail(q)[i - 1] = s
    BY <1>1, <2>1, <2>2
  <2> QED  BY <2>2, <2>3 DEF Planned
<1> QED  BY <1>1, <1>2, <1>3

LEMMA EmptyPlan == \A s : ~Planned(s, <<>>)
BY DEF Planned

LEMMA UploadPlan == do_upload \in Seq(Steps)
BY DEF do_upload, Steps, CRATES

(* Every value that Wired compares is checked.                             *)
LEMMA VerifyPlan ==
    ASSUME NEW p \in Params
    PROVE  /\ do_verify(p) \in Seq(Steps)
           /\ \A s \in ChecksOf(p) : Planned(s, do_verify(p))
<1> DEFINE first == <<Check("vault code"), Check("factory code"), Check("filler code"),
                      Check("config"), Check("admin")>>
           middle == [i \in DOMAIN p.relayers |-> CheckRelayer(p.relayers[i])]
           last == <<Check("filler")>>
<1>1. first \in Seq(Steps) /\ last \in Seq(Steps)
  BY DEF Steps, PlainChecks
<1>2. middle \in Seq(Steps) /\ \A i \in DOMAIN p.relayers : Planned(CheckRelayer(p.relayers[i]), middle)
  <2>1. /\ p.relayers \in Seq(AllRelayers) /\ Len(p.relayers) \in Nat
        /\ DOMAIN p.relayers = 1 .. Len(p.relayers)
    BY DeploymentAssumption, LenProperties
  <2>2. \A i \in DOMAIN p.relayers : CheckRelayer(p.relayers[i]) \in Steps
    BY <2>1, ElementOfSeq DEF Steps
  <2>3. middle \in [1 .. Len(p.relayers) -> Steps]
    BY <2>1, <2>2
  <2>4. middle \in Seq(Steps)
    BY <2>1, <2>3, SeqDef
  <2>5. Len(middle) = Len(p.relayers)
    BY <2>1, <2>3, <2>4, LenProperties
  <2> QED  BY <2>1, <2>4, <2>5 DEF Planned
<1>3. /\ \A w \in PlainChecks \ {"filler"} : Planned(Check(w), first)
      /\ Planned(Check("filler"), last)
  <2>1. Len(first) = 5 /\ Len(last) = 1
    OBVIOUS
  <2>2. /\ 1 \in 1 .. 5 /\ 2 \in 1 .. 5 /\ 3 \in 1 .. 5 /\ 4 \in 1 .. 5 /\ 5 \in 1 .. 5
        /\ 1 \in 1 .. 1
    OBVIOUS
  <2>3. /\ first[1] = Check("vault code") /\ first[2] = Check("factory code")
        /\ first[3] = Check("filler code") /\ first[4] = Check("config")
        /\ first[5] = Check("admin") /\ last[1] = Check("filler")
    OBVIOUS
  <2> HIDE DEF first, last
  <2> QED  BY <2>1, <2>2, <2>3 DEF Planned, PlainChecks
<1>4. do_verify(p) = (first \o middle) \o last
  BY DEF do_verify
<1> HIDE DEF first, middle, last
<1>5. first \o middle \in Seq(Steps) /\ do_verify(p) \in Seq(Steps)
  BY <1>1, <1>2, <1>4, ConcatPlans
<1>6. \A s : Planned(s, first) \/ Planned(s, middle) \/ Planned(s, last) => Planned(s, do_verify(p))
  <2>1. \A s : Planned(s, first) \/ Planned(s, middle) => Planned(s, first \o middle)
    BY <1>1, <1>2, ConcatPlans
  <2>2. \A s : Planned(s, first \o middle) \/ Planned(s, last) => Planned(s, (first \o middle) \o last)
    BY <1>1, <1>5, ConcatPlans
  <2> QED  BY <1>4, <2>1, <2>2
<1>7. ASSUME NEW w \in PlainChecks
      PROVE  Planned(Check(w), do_verify(p))
  BY <1>3, <1>6
<1> QED  BY <1>2, <1>5, <1>6, <1>7 DEF ChecksOf

LEMMA DeployPlan ==
    ASSUME NEW p \in Params
    PROVE  do_deploy(p) \in Seq(Steps)
<1> DEFINE first == <<Factory(p)>>
           middle == [i \in DOMAIN p.relayers |-> Relayer(p.relayers[i])]
           last == <<Filler>>
<1>1. first \in Seq(Steps) /\ last \in Seq(Steps)
  BY DEF Steps
<1>2. middle \in Seq(Steps)
  <2>1. /\ p.relayers \in Seq(AllRelayers) /\ Len(p.relayers) \in Nat
        /\ DOMAIN p.relayers = 1 .. Len(p.relayers)
    BY DeploymentAssumption, LenProperties
  <2>2. \A i \in DOMAIN p.relayers : Relayer(p.relayers[i]) \in Steps
    BY <2>1, ElementOfSeq DEF Steps
  <2>3. middle \in [1 .. Len(p.relayers) -> Steps]
    BY <2>1, <2>2
  <2> QED  BY <2>1, <2>3, SeqDef
<1>3. do_deploy(p) = (first \o middle) \o last
  BY DEF do_deploy
<1> HIDE DEF first, middle, last
<1> QED  BY <1>1, <1>2, <1>3, ConcatPlans
-----------------------------------------------------------------------------
(* The ledger only fills up: what a transaction of the tool can do to it   *)
(* leaves every check that holds holding.                                  *)

FilledUp(c, d) ==
    /\ c.code \subseteq d.code
    /\ c.filler => d.filler
    /\ c.factory # NoFactory =>
          /\ d.factory # NoFactory
          /\ d.factory.admin = c.factory.admin /\ d.factory.discount = c.factory.discount
          /\ c.factory.relayers \subseteq d.factory.relayers

LEMMA ChecksStay ==
    ASSUME FilledUp(chain, chain'), NEW s, NEW p, CheckHolds(s, p)
    PROVE  CheckHolds(s, p)'
BY DEF FilledUp, CheckHolds, Relayers

LEMMA StepKinds ==
    ASSUME NEW s \in Steps
    PROVE  /\ s.do = "upload" => s.crate \in {CRATES[i] : i \in 1 .. Len(CRATES)}
           /\ s.do = "factory" => s.params \in Params
           /\ s.do = "relayer" => s.who \in AllRelayers
BY DEF Steps, Upload, Factory, Relayer, Filler, Check, CheckRelayer

LEMMA LandsFills ==
    ASSUME chain \in Chains, NEW tx, tx.step \in Steps, Lands(tx)
    PROVE  chain' \in Chains /\ FilledUp(chain, chain')
<1> DEFINE s == tx.step
<1>1. Valid(s) /\ chain' = Effect(s)
  BY DEF Lands
<1>2. CASE s.do = "upload"
  <2>1. chain' = [chain EXCEPT !.code = @ \cup {s.crate}]
    BY <1>1, <1>2 DEF Effect
  <2>2. chain.code \cup {s.crate} \in SUBSET {CRATES[i] : i \in 1 .. Len(CRATES)}
    BY <1>2, StepKinds DEF Chains
  <2> QED  BY <2>1, <2>2 DEF Chains, FilledUp
<1>3. CASE s.do = "factory"
  <2>1. chain' = [chain EXCEPT !.factory = [admin |-> s.params.admin, relayers |-> {},
                                            discount |-> s.params.discount]]
        /\ chain.factory = NoFactory
    BY <1>1, <1>3 DEF Effect, Valid
  <2>2. [admin |-> s.params.admin, relayers |-> {}, discount |-> s.params.discount] \in FactoryState
    BY <1>3, StepKinds DEF FactoryState
  <2> QED  BY <2>1, <2>2 DEF Chains, FilledUp
<1>4. CASE s.do = "relayer"
  <2>1. chain' = [chain EXCEPT !.factory =
                     [chain.factory EXCEPT !.relayers = @ \cup {s.who}]]
        /\ chain.factory # NoFactory
    BY <1>1, <1>4 DEF Effect, Valid
  <2>2. chain.factory \in FactoryState
    BY <2>1 DEF Chains
  <2>3. chain.factory.relayers \cup {s.who} \in SUBSET AllRelayers
    BY <1>4, <2>2, StepKinds DEF FactoryState
  <2>4. PICK f : f = [chain.factory EXCEPT !.relayers = @ \cup {s.who}]
    OBVIOUS
  <2>5. f \in FactoryState /\ f.admin = chain.factory.admin
        /\ f.discount = chain.factory.discount
        /\ chain.factory.relayers \subseteq f.relayers
    BY <2>2, <2>3, <2>4 DEF FactoryState
  <2>6. chain' = [chain EXCEPT !.factory = f]
    BY <2>1, <2>4
  <2> QED  BY <2>5, <2>6, NothingAssumption DEF Chains, FilledUp
<1>5. CASE s.do = "filler"
  <2>1. chain' = [chain EXCEPT !.filler = TRUE]
    BY <1>1, <1>5 DEF Effect
  <2> QED  BY <2>1 DEF Chains, FilledUp
<1> QED  BY <1>1, <1>2, <1>3, <1>4, <1>5 DEF Valid

LEMMA NothingMovesFills ==
    ASSUME UNCHANGED chain
    PROVE  FilledUp(chain, chain')
BY DEF FilledUp

(* While a command stays at the same point of its plan, its verdicts stand.*)
LEMMA VerdictsStay ==
    ASSUME VerdictsStand, run # NoRun, FilledUp(chain, chain'),
           run'.todo = run.todo, run'.params = run.params,
           run'.wrong = run.wrong, run'.touched = run.touched
    PROVE  VerdictsStand'
BY ChecksStay DEF VerdictsStand

LEMMA PhaseTyped ==
    ASSUME NEW r \in Runs,
           NEW ph \in {"look", "build", "send", "stale", "poll", "landed", "failed"},
           NEW q, q = [r EXCEPT !.phase = ph]
    PROVE  /\ q \in Runs /\ q # NoRun /\ q.phase = ph
           /\ q.todo = r.todo /\ q.params = r.params
           /\ q.wrong = r.wrong /\ q.touched = r.touched
BY NothingAssumption DEF Runs

-----------------------------------------------------------------------------
(* The network's steps.                                                    *)

LEMMA VoidedTyped ==
    ASSUME NEW r \in Runs
    PROVE  /\ Voided(r) \in Runs /\ Voided(r) # NoRun
           /\ Voided(r).phase = r.phase \/ (r.phase = "send" /\ Voided(r).phase = "stale")
           /\ Voided(r).todo = r.todo /\ Voided(r).params = r.params
           /\ Voided(r).wrong = r.wrong /\ Voided(r).touched = r.touched
<1>1. CASE r.phase = "send"
  BY <1>1, PhaseTyped, NothingAssumption DEF Voided
<1>2. CASE r.phase # "send"
  BY <1>2, NothingAssumption DEF Voided
<1> QED  BY <1>1, <1>2

LEMMA IncludedStep ==
    ASSUME DeployInv, NEW tx \in inflight, NEW ph \in {"landed", "failed"},
           Included(tx, ph), chain' \in Chains, FilledUp(chain, chain')
    PROVE  DeployInv'
<1>1. inflight' = {} /\ run' = IF tx.own THEN [run EXCEPT !.phase = ph] ELSE Voided(run)
  BY DEF Included
<1>2. CASE run = NoRun
  <2>1. ~tx.own
    BY <1>2 DEF DeployInv, WaitsForOwn
  <2>2. run' = NoRun
    BY <1>1, <1>2, <2>1 DEF Voided
  <2> QED  BY <1>1, <2>2 DEF DeployInv, VerdictsStand, ActsOnStep, WaitsForOwn
<1>3. CASE run # NoRun
  <2>1. run \in Runs /\ (run.phase = "look" \/ Sends(run.todo))
    BY <1>3 DEF DeployInv, ActsOnStep
  <2>2. /\ run' \in Runs /\ run' # NoRun
        /\ run'.todo = run.todo /\ run'.params = run.params
        /\ run'.wrong = run.wrong /\ run'.touched = run.touched
        /\ run'.phase = "look" \/ Sends(run'.todo)
    <3>1. CASE tx.own
      <4>1. run' = [run EXCEPT !.phase = ph] /\ run.phase = "poll"
        BY <1>1, <3>1 DEF DeployInv, WaitsForOwn
      <4>2. PICK q : q = [run EXCEPT !.phase = ph]
        OBVIOUS
      <4> QED  BY <2>1, <4>1, <4>2, PhaseTyped
    <3>2. CASE ~tx.own
      BY <1>1, <2>1, <3>2, VoidedTyped
    <3> QED  BY <3>1, <3>2
  <2>3. VerdictsStand'
    BY <1>3, <2>2, VerdictsStay DEF DeployInv
  <2> QED  BY <1>1, <2>2, <2>3 DEF DeployInv, ActsOnStep, WaitsForOwn
<1> QED  BY <1>2, <1>3

LEMMA NetworkStep ==
    ASSUME DeployInv, NEW tx \in inflight, Lands(tx) \/ FailsOnChain(tx) \/ Expires(tx)
    PROVE  DeployInv' /\ passed' = passed
<1>1. CASE Lands(tx)
  <2>1. chain' \in Chains /\ FilledUp(chain, chain')
    BY <1>1, LandsFills DEF DeployInv, Transactions
  <2> QED  BY <1>1, <2>1, IncludedStep DEF Lands, Included
<1>2. CASE FailsOnChain(tx)
  <2>1. chain' \in Chains /\ FilledUp(chain, chain')
    BY <1>2, NothingMovesFills DEF FailsOnChain, DeployInv
  <2> QED  BY <1>2, <2>1, IncludedStep DEF FailsOnChain, Included
<1>3. CASE Expires(tx)
  BY <1>3 DEF Expires, DeployInv, VerdictsStand, CheckHolds, Relayers, ActsOnStep, WaitsForOwn
<1> QED  BY <1>1, <1>2, <1>3

(* Whatever the admin does, the run in progress knows.                     *)
LEMMA AdminStep ==
    ASSUME DeployInv, Admin
    PROVE  DeployInv' /\ passed' = passed
<1>1. PICK f \in FactoryState : AdminActs(f)
  <2>1. chain.factory \in FactoryState
    BY DEF Admin, DeployInv, Chains
  <2>2. ASSUME NEW r \in AllRelayers, NEW enabled \in BOOLEAN,
               AdminActs([chain.factory EXCEPT !.relayers =
                             IF enabled THEN @ \cup {r} ELSE @ \ {r}])
        PROVE  \E f \in FactoryState : AdminActs(f)
    <3>1. (IF enabled THEN chain.factory.relayers \cup {r} ELSE chain.factory.relayers \ {r})
             \in SUBSET AllRelayers
      BY <2>1 DEF FactoryState
    <3>2. [chain.factory EXCEPT !.relayers = IF enabled THEN @ \cup {r} ELSE @ \ {r}]
             \in FactoryState
      BY <2>1, <3>1 DEF FactoryState
    <3> QED  BY <2>2, <3>2
  <2>3. ASSUME NEW d \in Discounts, AdminActs([chain.factory EXCEPT !.discount = d])
        PROVE  \E f \in FactoryState : AdminActs(f)
    <3>1. [chain.factory EXCEPT !.discount = d] \in FactoryState
      BY <2>1 DEF FactoryState
    <3> QED  BY <2>3, <3>1
  <2> QED  BY <2>2, <2>3 DEF Admin
<1>2. chain' \in Chains
  BY <1>1 DEF AdminActs, DeployInv, Chains
<1>3. inflight' \subseteq inflight /\ passed' = passed
  BY <1>1 DEF AdminActs
<1>4. CASE run = NoRun
  <2>1. run' = NoRun
    BY <1>1, <1>4 DEF AdminActs, Voided
  <2> QED  BY <1>2, <1>3, <1>4, <2>1 DEF DeployInv, VerdictsStand, ActsOnStep, WaitsForOwn
<1>5. CASE run # NoRun
  <2>1. run \in Runs
    BY <1>5 DEF DeployInv
  <2>2. PICK r \in Runs :
          /\ run' = [r EXCEPT !.touched = TRUE] /\ r.todo = run.todo
          /\ r.phase = run.phase \/ (run.phase = "send" /\ r.phase = "stale")
    BY <1>1, <1>5, <2>1, VoidedTyped DEF AdminActs
  <2>3. run' \in Runs /\ run'.touched /\ run'.todo = r.todo /\ run'.phase = r.phase
    BY <2>2 DEF Runs
  <2>4. run' # NoRun
    BY <2>3, NothingAssumption
  <2> QED
    BY <1>2, <1>3, <1>5, <2>2, <2>3, <2>4 DEF DeployInv, VerdictsStand, ActsOnStep, WaitsForOwn
<1> QED  BY <1>4, <1>5
-----------------------------------------------------------------------------
(* The commands' steps.                                                    *)

LEMMA StartStep ==
    ASSUME DeployInv, NEW todo \in Seq(Steps), NEW p \in Params \cup {NoParams},
           p # NoParams => \A s \in ChecksOf(p) : Planned(s, todo),
           Start(todo, p)
    PROVE  DeployInv' /\ passed' = passed
<1> DEFINE r == [todo |-> todo, params |-> p, phase |-> "look",
                 wrong |-> FALSE, touched |-> FALSE]
<1>1. run = NoRun /\ run' = r /\ UNCHANGED <<chain, inflight, passed>>
  BY DEF Start
<1>2. r.params = p /\ r.todo = todo /\ r.phase = "look"
  OBVIOUS
<1>3. r \in Runs
  BY Zenon DEF Runs
<1> HIDE DEF r
<1>4. r # NoRun
  BY <1>3, NothingAssumption
<1> QED  BY <1>1, <1>2, <1>3, <1>4 DEF DeployInv, VerdictsStand, ActsOnStep, WaitsForOwn

LEMMA FailsStep ==
    ASSUME DeployInv, Fails
    PROVE  DeployInv' /\ passed' = passed
<1>1. run' = NoRun /\ inflight' = Orphans /\ UNCHANGED <<chain, passed>>
  BY DEF Fails
<1>2. \A tx \in Orphans : tx \in Transactions /\ ~tx.own
  BY DEF Orphans, DeployInv, Transactions
<1> QED  BY <1>1, <1>2 DEF DeployInv, VerdictsStand, ActsOnStep, WaitsForOwn

(* The run moves to another phase and nothing else happens to it.          *)
LEMMA PhaseStep ==
    ASSUME DeployInv, run # NoRun,
           NEW ph \in {"look", "build", "send", "stale", "poll", "landed", "failed"},
           run' = [run EXCEPT !.phase = ph], Sends(run.todo),
           inflight' \subseteq Transactions, UNCHANGED chain,
           \A tx \in inflight' : tx.own => ph = "poll"
    PROVE  DeployInv'
<1>1. run \in Runs
  BY DEF DeployInv
<1>2. /\ run' \in Runs /\ run' # NoRun
      /\ run'.todo = run.todo /\ run'.params = run.params
      /\ run'.wrong = run.wrong /\ run'.touched = run.touched /\ run'.phase = ph
  <2>1. PICK q : q = [run EXCEPT !.phase = ph]
    OBVIOUS
  <2> QED  BY <1>1, <2>1, PhaseTyped
<1>3. VerdictsStand'
  BY <1>2, VerdictsStay, NothingMovesFills DEF DeployInv
<1> QED  BY <1>2, <1>3 DEF DeployInv, ActsOnStep, WaitsForOwn

(* The first step of the plan is done.  A check leaves its verdict.        *)
LEMMA AdvanceStep ==
    ASSUME DeployInv, run # NoRun, run.todo # <<>>, NEW wrong \in BOOLEAN,
           Step.do = "check" => wrong = (run.wrong \/ ~CheckHolds(Step, run.params)),
           Step.do # "check" => wrong = run.wrong,
           run'.todo = Tail(run.todo), run'.params = run.params,
           run'.wrong = wrong, run'.touched = run.touched,
           run'.phase = "look", \A tx \in inflight : ~tx.own,
           run' \in Runs, UNCHANGED <<chain, inflight>>
    PROVE  DeployInv'
<1>1. run \in Runs /\ run.todo \in Seq(Steps) /\ run' # NoRun
  BY NothingAssumption DEF DeployInv, Runs
<1>2. run.wrong \in BOOLEAN /\ run.touched \in BOOLEAN
  BY <1>1 DEF Runs
<1>3. ASSUME run.params # NoParams, NEW s \in ChecksOf(run.params), ~Planned(s, run'.todo),
             ~run'.wrong, ~run'.touched
      PROVE  CheckHolds(s, run.params)
  <2>1. ~run.wrong
    BY <1>2, <1>3
  <2>2. CASE Planned(s, run.todo)
    <3>1. s = Step
      BY <1>1, <1>3, <2>2, TailPlans DEF Step
    <3>2. s.do = "check"
      BY DEF ChecksOf, Check, CheckRelayer
    <3> QED  BY <1>3, <3>1, <3>2
  <2>3. CASE ~Planned(s, run.todo)
    BY <1>3, <2>1, <2>3 DEF DeployInv, VerdictsStand
  <2> QED  BY <2>2, <2>3
<1>4. VerdictsStand'
  <2>1. ASSUME NEW s, NEW p, CheckHolds(s, p)
        PROVE  CheckHolds(s, p)'
    BY <2>1, ChecksStay, NothingMovesFills
  <2> QED  BY <1>3, <2>1 DEF VerdictsStand
<1> QED  BY <1>1, <1>4 DEF DeployInv, ActsOnStep, WaitsForOwn

LEMMA LookStep ==
    ASSUME DeployInv, Look
    PROVE  DeployInv' /\ passed' = passed
<1>1. /\ run # NoRun /\ run.todo # <<>> /\ run \in Runs /\ run.todo \in Seq(Steps)
      /\ run.phase = "look" /\ \A tx \in inflight : ~tx.own
      /\ UNCHANGED <<chain, inflight, passed>>
  BY DEF Look, At, Busy, DeployInv, Runs, WaitsForOwn
<1>2. Tail(run.todo) \in Seq(Steps)
  BY <1>1, TailPlans
<1>3. CASE Step.do = "check"
  <2>1. PICK wrong \in BOOLEAN : wrong = (run.wrong \/ ~CheckHolds(Step, run.params))
    OBVIOUS
  <2>2. run' = [run EXCEPT !.todo = Tail(run.todo), !.wrong = wrong]
    BY <1>1, <1>3, <2>1 DEF Look, Runs
  <2>3. /\ run' \in Runs /\ run'.todo = Tail(run.todo) /\ run'.params = run.params
        /\ run'.wrong = wrong /\ run'.touched = run.touched /\ run'.phase = "look"
    BY <1>1, <1>2, <2>2 DEF Runs
  <2> QED  BY <1>1, <1>3, <2>1, <2>3, AdvanceStep
<1>4. CASE Step.do # "check" /\ (OnChain(Step) \/ NotOurs(Step, run.params))
  <2>1. run' = [run EXCEPT !.todo = Tail(run.todo)]
    BY <1>1, <1>4 DEF Look
  <2>2. /\ run' \in Runs /\ run'.todo = Tail(run.todo) /\ run'.params = run.params
        /\ run'.wrong = run.wrong /\ run'.touched = run.touched /\ run.wrong \in BOOLEAN
        /\ run'.phase = "look"
    BY <1>1, <1>2, <2>1 DEF Runs
  <2> QED  BY <1>1, <1>4, <2>2, AdvanceStep
<1>5. CASE Step.do # "check" /\ ~(OnChain(Step) \/ NotOurs(Step, run.params))
  <2>1. run' = [run EXCEPT !.phase = "build"]
    BY <1>5 DEF Look
  <2> QED  BY <1>1, <1>5, <2>1, PhaseStep DEF DeployInv, Sends, Step
<1> QED  BY <1>3, <1>4, <1>5

LEMMA BuildStep ==
    ASSUME DeployInv, Build
    PROVE  DeployInv' /\ passed' = passed
<1>1. run # NoRun /\ Sends(run.todo) /\ \A tx \in inflight : ~tx.own
  BY DEF Build, At, DeployInv, ActsOnStep, WaitsForOwn
<1>2. CASE Valid(Step) /\ run' = [run EXCEPT !.phase = "send"] /\ UNCHANGED <<chain, inflight, passed>>
  BY <1>1, <1>2, PhaseStep DEF DeployInv
<1>3. CASE Fails
  BY <1>3, FailsStep
<1> QED  BY <1>2, <1>3 DEF Build

LEMMA SendStep ==
    ASSUME DeployInv, Send
    PROVE  DeployInv' /\ passed' = passed
<1>1. CASE /\ At("send")
           /\ run' = [run EXCEPT !.phase = "poll"]
           /\ inflight' = inflight \cup {[step |-> Step, own |-> TRUE]}
           /\ UNCHANGED <<chain, passed>>
  <2>1. run # NoRun /\ Sends(run.todo) /\ run.todo \in Seq(Steps)
    BY <1>1 DEF At, DeployInv, Runs, ActsOnStep
  <2>2. Step \in Steps
    BY <2>1, TailPlans DEF Step, Sends
  <2>3. [step |-> Step, own |-> TRUE] \in Transactions
    BY <2>2 DEF Transactions
  <2>4. inflight' \subseteq Transactions
    BY <1>1, <2>3 DEF DeployInv
  <2> QED  BY <1>1, <2>1, <2>4, PhaseStep
<1>2. CASE Fails
  BY <1>2, FailsStep
<1> QED  BY <1>1, <1>2 DEF Send

(* A step whose transaction landed is done.                                *)
LEMMA PollStep ==
    ASSUME DeployInv, Poll
    PROVE  DeployInv' /\ passed' = passed
<1>1. CASE /\ At("landed")
           /\ run' = [run EXCEPT !.phase = "look", !.todo = Tail(@)]
           /\ UNCHANGED <<chain, inflight, passed>>
  <2>1. /\ run # NoRun /\ run \in Runs /\ run.todo \in Seq(Steps) /\ run.todo # <<>>
        /\ Step.do # "check" /\ run.wrong \in BOOLEAN
        /\ \A tx \in inflight : ~tx.own
    BY <1>1 DEF At, DeployInv, Runs, ActsOnStep, WaitsForOwn, Sends, Step
  <2>2. Tail(run.todo) \in Seq(Steps)
    BY <2>1, TailPlans
  <2>3. /\ run' \in Runs /\ run'.todo = Tail(run.todo) /\ run'.params = run.params
        /\ run'.wrong = run.wrong /\ run'.touched = run.touched /\ run'.phase = "look"
    BY <1>1, <2>1, <2>2 DEF Runs
  <2> QED  BY <1>1, <2>1, <2>3, AdvanceStep
<1>2. CASE Fails
  BY <1>2, FailsStep
<1> QED  BY <1>1, <1>2 DEF Poll

LEMMA FinishStep ==
    ASSUME DeployInv, Finish
    PROVE  DeployInv'
BY DEF Finish, DeployInv, VerdictsStand, ActsOnStep, WaitsForOwn, At

(* A verdict is given when every check was made and held.                  *)
LEMMA FinishedMeansWired ==
    ASSUME DeployInv, Finish, NEW p \in Params, p \in passed' \ passed
    PROVE  run.touched \/ Wired(p)
<1>1. run # NoRun /\ run.todo = <<>> /\ run.params = p /\ p # NoParams /\ ~run.wrong
  BY DEF Finish, At
<1>2. SUFFICES ASSUME ~run.touched PROVE Wired(p)
  OBVIOUS
<1>3. \A s \in ChecksOf(p) : CheckHolds(s, p)
  BY <1>1, <1>2, EmptyPlan DEF DeployInv, VerdictsStand
<1>4. \A w \in PlainChecks : CheckHolds(Check(w), p)
  BY <1>3 DEF ChecksOf
<1>5. /\ "vault" \in chain.code /\ chain.filler /\ chain.factory # NoFactory
      /\ chain.factory.admin = p.admin /\ chain.factory.discount = p.discount
  BY <1>4 DEF CheckHolds, Check, PlainChecks
<1>6. ASSUME NEW i \in DOMAIN p.relayers
      PROVE  p.relayers[i] \in chain.factory.relayers
  <2>1. CheckHolds(CheckRelayer(p.relayers[i]), p)
    BY <1>3 DEF ChecksOf
  <2> QED  BY <1>5, <2>1 DEF CheckHolds, CheckRelayer, Relayers
<1> QED  BY <1>5, <1>6 DEF Wired

-----------------------------------------------------------------------------
LEMMA InitInv ==
    ASSUME Init
    PROVE  DeployInv
BY DEF Init, DeployInv, Chains, VerdictsStand, ActsOnStep, WaitsForOwn

(* Only Finish gives a verdict.                                            *)
LEMMA NextStep ==
    ASSUME DeployInv, [Next]_vars
    PROVE  DeployInv' /\ (passed' = passed \/ Finish)
<1>1. CASE upload
  BY <1>1, UploadPlan, StartStep DEF upload
<1>2. ASSUME NEW p \in Params, deploy(p)
      PROVE  DeployInv' /\ passed' = passed
  <2>1. /\ do_deploy(p) \o do_verify(p) \in Seq(Steps)
        /\ \A s \in ChecksOf(p) : Planned(s, do_deploy(p) \o do_verify(p))
    BY DeployPlan, VerifyPlan, ConcatPlans
  <2> QED  BY <1>2, <2>1, StartStep DEF deploy
<1>3. ASSUME NEW p \in Params, verify(p)
      PROVE  DeployInv' /\ passed' = passed
  BY <1>3, VerifyPlan, StartStep DEF verify
<1>4. CASE Process
  BY <1>4, LookStep, BuildStep, SendStep, PollStep, FinishStep DEF Process
<1>5. CASE Crash
  BY <1>5, FailsStep DEF Crash
<1>6. CASE \E tx \in inflight : Lands(tx) \/ FailsOnChain(tx) \/ Expires(tx)
  BY <1>6, NetworkStep
<1>7. CASE Admin
  BY <1>7, AdminStep
<1>8. CASE UNCHANGED vars
  BY <1>8 DEF vars, DeployInv, VerdictsStand, CheckHolds, Relayers, ActsOnStep, WaitsForOwn
<1> QED  BY <1>1, <1>2, <1>3, <1>4, <1>5, <1>6, <1>7, <1>8 DEF Next

THEOREM DeployInvariant == Spec => []DeployInv
BY InitInv, NextStep, PTL DEF Spec

(* When verify passes, the deployment is the one its parameters describe,  *)
(* unless the factory's admin acted during the run, whatever older         *)
(* transactions landed between its reads (do_verify, cmd_deploy).          *)
THEOREM VerificationSound == Spec => VerifiedMeansWired
<1>1. ASSUME DeployInv, [Next]_vars
      PROVE  \A p \in Params : p \in passed' \ passed => run.touched \/ Wired(p)
  BY <1>1, NextStep, FinishedMeansWired
<1>2. DeployInv /\ [Next]_vars =>
          [\A p \in Params : p \in passed' \ passed => run.touched \/ Wired(p)]_vars
  BY <1>1
<1> QED  BY <1>2, DeployInvariant, PTL DEF Spec, VerifiedMeansWired
=============================================================================

# A formal model of the Cross Mesh ingress contracts

Cross Mesh gives every Stellar recipient deposit addresses on EVM chains. USDC sent to such an
address is burned through Circle's CCTP to the recipient committed in the address; on Stellar it
arrives at the recipient directly or at a vault that converts it to XLM for its owner. This
directory holds TLA+ modules of the contracts on both sides, the TLC instances that check them and
machine-checked proofs of the main theorems. Paths below are relative to the repository root.

## 1. The system

| Component | State it keeps | Operations | Talks to |
|---|---|---|---|
| `src/Config.sol` | fee rates, CCTP rates, `sweepDelay`, switches, operators, factory, collector, sink, owner and pending owner, one-time wiring | `init`, 12 owner setters, `transferOwnership`, `acceptOwnership` | read by every clone and by the factory |
| `src/DepositForwarder.sol` (clones and implementation) | `sweepableAt`, `sweepCap`, `setupFeePaid`, USDC balance | `flush`, `requestSweep`, `sweep`, `rescueERC20`, `rescueNative` | Config, USDC, Circle's TokenMessengerV2 and TokenMinterV2 |
| `src/DepositFactory.sol` | none (existence of clones) | `computeAddress`, `deploy`, `deployAndFlush` | clones, Config |
| `stellar/contracts/vault` | none: its address is its identity | `swap`, `withdraw` | factory, filler, oracle, SAC tokens |
| `stellar/contracts/vault-factory` | admin, relayers, discount, constructor configuration | `deploy`, `swap`, `set_relayer`, `set_discount`, `set_admin` | vaults |
| `stellar/contracts/aquarius-filler` | router, vault code hash | `fill` | Aquarius router, tokens |
| `stellar/script/deploy.py`, `script/*.sol` | deployment progress on chain | upload, deploy, wire, re-run | contracts |
| `verify-sdk` | none | address derivation and recipient validation | - |

What is hard, and what correctness means in each part:

* **The self-rescue window** (`requestSweep`, `sweep`, `flush`). Operators, depositors, the owner and
  Circle act on the same address in any order. An armed window must stay burnable and backed, keep
  its deadline, close only when its money has left, and never sweep later deposits. The hatch must
  work with operators and owner gone.
* **The CCTP allowance.** Three roundings and three bounds meet (owner rate, Circle's minimum, the
  immutable cap). The allowance must always be accepted when Circle's minimum is within the cap, and
  never exceed the cap.
* **Fees.** Caps hold over the life of an address, whatever the owner changes and wherever fees go.
* **Counterfactual addresses.** Money may arrive before the clone exists; deployment is permissionless.
* **Governance.** Two-step ownership, one-time wiring, a factory with lent rights.
* **The untrusted filler.** A vault pays USDC out, lets foreign code run, and judges the result by its
  own balance change. Whatever that code does, tokens reach only the owner, at a fair price.
* **Stateless identity.** Owner, factory and configuration are arguments of every call, the tokens to move
  included. Anybody may deploy the same vault code from a factory of his own; the vaults of the genuine factory
  must not notice.
* **Leaving without anybody.** Deploy and withdraw need no relayer, admin, oracle or filler.
* **Two chains, one path.** A burn cannot be undone and the message it leaves is minted by whoever
  comes, in any order. What leaves a deposit address must reach the recipient committed in it.
* **The rescue of native coin** hands control to the sink in the middle of the call, on chains where
  the native coin may be the deposit itself.
* **Deployments** are several transactions decided on earlier reads. They are interrupted and repeated,
  and transactions of an interrupted run may still land during the next.

`PROJECT.json` lists each hazard with its line and the properties that would catch it.

## 2. Modules and how they correspond to the code

A transaction is atomic on both chains, so an external call of a contract is one action; a revert is
the absence of a step. The nondeterminism is who calls what next, with which arguments, when time
passes and what the external parties change. History variables only record what happened.

EVM side, each module extending the one before it:

* `CctpV2`: **external**: what the contracts rely on from Circle. `circle` holds the message burn
  limit, the minimum fee and whether the implementation has the minimum-fee getter; all may change at
  any time. `BurnAccepted` is the messenger's verdict on an amount and its `maxFee`.
* `CctpAllowance`: `_cctpParams` and `_cctpMinFee`: the allowance as a pure function of amount and rate.
* `Config`: the contract's storage as one record, one action per setter with its `require`s. `Governance` is
  Config by itself over a Circle that changes its parameters; `proposer` remembers who made the latest
  ownership proposal.
* `DepositForwarder`: the clones and the implementation with `flush`, `requestSweep`, `sweep` and
  `rescueERC20` of USDC, refused until Config is initialized; `Settle` is `_settle` with `_collectFees` and `_burnViaCctp`, `DrawDown` is
  what `flush` and `sweep` do to an armed window. The USDC ledger is kept for the contracts of this
  repository; a fee paid elsewhere leaves the model. `burned` is what reached the recipient by
  finality.
* `DepositFactory`: derivation (`Args`, `Salt`, `computeAddress`), `deploy`, `deployAndFlush`, and the
  condition that calls reach only deployed clones. CREATE2 addresses are modelled as the tuple they hash.
  A clone sees the factory as its caller, so `charger` remembers who sent the latest transaction that charged
  fees; `NoConfusedDeputy` asks that its sender had flush rights.
* `DepositCustody`: the abstract promise: money at an address leaves only by a settlement, either by
  the service with a capped fee, and an entry fee on the first, or by anybody, free and out of a `budget`
  set aside earlier.
  `DepositFactory` implements it (`CustodyKept`) under the mapping from balances, burns, fees,
  `sweepCap` and the count of flushes.
* `Rescue`: `rescueNative` over `DepositForwarder`, which has `rescueERC20` of USDC. `frames` is the stack
  of native rescues in progress, each with its `usdcBefore`; while it is not empty the sink's code may pay
  in, call whatever is open to it and start further rescues. A reverting rescue is one whose steps never
  complete, so the promises are about states at rest. `shared` tells chains where native coin and USDC are
  one ledger from the others.
* `EvmDeployment`: `script/DeployCwia.s.sol` and `CreateXLib.deploy` over `Config`. `run` is the script's
  execution on a snapshot of the chain, which yields the transactions to send; `Send`, `Report`, `GiveUp`
  and `Killed` are forge, `Lands` and `Evicted` the chain, with the owner's nonces deciding what can still
  be included. A call of an address without code succeeds and does nothing, as on EVM. Strangers create
  the same contracts through CreateX, and the owner uses Config by hand.

Stellar side:

* `OracleFloor`: `oracle_floor` and `fresh_price` over an external Reflector feed and ledger clock. The
  feed may have no record, a zero price, an old or a future timestamp. `FloorFits` is the three
  `checked_mul`s against `I128_MAX`.
* `Vault`: `swap` and `withdraw` over the ledger entries they touch: instances, accounts, trustlines,
  USDC and XLM balances. `swap` is two steps, `SwapOpens` up to the `fill` call and `SwapCloses` after it.
  In between `call` is pending, and the filler may do whatever the host allows: withdraw from other
  vaults, send tokens to any vault, create accounts. The host refuses re-entry into the running vault
  and the factory. `SwapTraps` restores the ledger saved in `call`. XLM paid to a missing account
  creates it; USDC needs a trustline; an account must exist to sign. The vault sells what the configuration of its
  caller names as `usdc`, measures and pays what it names as `xlm` (`Sells`, `BalanceOf`, `Pays`), at what the
  oracle it names answers. A token that is neither USDC nor XLM has no balances here: its contract may let any
  transfer succeed and any balance look right. `call.canonical` remembers whether the caller named the real
  tokens and the feed; nothing reads it.
* `VaultFactory`: the factory's storage and actions, and the whole Stellar system. Impostors are other
  contracts that deploy the same vault code and call any vault with any owner, factory argument and
  configuration. The genuine factory is one whose configuration `deploy.py verify` found canonical (`Verified`),
  since addresses are issued for no other. An impostor may empty its own vaults as it likes: the repository
  promises nothing there (`stellar/docs/THREAT-MODEL.md`, Tamper.2.R.2), and neither do `OnlyToOwner`,
  `FillHonoured` and `PromiseKept`, which are about the vaults of the genuine factory (`Genuine`). `FairPrice`
  is about the swaps of any vault whose caller names the real tokens and the feed.
* `VaultCustody`: the abstract promise of a vault: one atomic transaction converts at a fair price,
  returns or receives. `VaultFactory` implements it (`PromiseKept`) under the mapping that shows the ledger
  a trap would restore while a call is pending.
* `AquariusFiller`: `fill`, with the router's effect on the adapter's balances chosen freely within the
  single authorized transfer, and callers that are vaults (who pay first) or strangers (who do not).

* `StellarDeployment`: `stellar/script/deploy.py`. A command is a sequence of steps; each looks at the chain,
  then builds, sends and polls (`Sender.submit`), or compares a value (`do_verify`). Every one of these is an
  action, so that transactions of earlier runs land in between; all come from one account, whose sequence
  number lets only one of those built on the same ledger land.

Both sides:

* `CrossMesh`: `DepositFactory` and an instance of `VaultFactory` that share only `messages`. `Emit` adds the
  message of a settlement's burn (`_burnViaCctp`, `_hookData`) in the step of the settlement;
  `mint_and_forward` is Circle's forwarder, **external**: any pending message, any fee within its `maxFee`,
  to a vault or to an address that takes USDC itself. `isValidRecipient` is the SDK's recipient gate, and
  deposits go to addresses that passed it.

Definitions commented "Slip" are plausible mistakes, kept to show that each property can fail; no
action uses them.

## 3. What is checked

| Run | Instance | Shows |
|---|---|---|
| `config` | `Governance`: legal and illegal arguments of every setter; a ghost records who proposed; the contract's own CCTP constants (1e6, 1e7, 10 000), burns about every boundary | `ConfigTyped`, `ProposalIsOwners`, `WiringImmutable`, `AllowanceSuffices`, `AllowanceCapped` |
| `forwarder` | two clones; fees above and within caps, collected by an outsider, a clone or the implementation and rescued back to a clone; changing delays, message limits and minimum fees | `TypeOK`, `ArmedWindowBurnable`, `PrincipalConserved`, `FeesWithinCaps`, `OpenWindowSweepable`, `WindowHonoured`, `SweepPriority` |
| `factory` | `FairFacSpec`: a standard and a fast address, a genuine and an impostor factory, access granted and revoked, money before deployment, Circle halting for a while and changing its minimum fee, a setup fee that is turned on | `NoConfusedDeputy`, `CustodyKept`, `EscapeHatch` |
| `vault_custody` | `FairSpec`: a G owner and a C owner, one relayer who asks for more than the floor, traffic during fills, partial swaps, zero prices, undeployed vaults | `OnlyToOwner`, `FillHonoured`, `PromiseKept`, `OwnerLeaves` |
| `vault_price` | a genuine and an impostor factory, each with a vault of the same owner; swaps of either vault called by the impostor, with either factory argument, any pair of USDC, XLM and a worthless token, and usable and unusable bounds; missing, stale and future prices | `TypeOK`, `OnlyToOwner`, `FairPrice`, `PromiseKept` |
| `filler` | one vault, one stranger, any router | `FillerTypeOK`, `AtRestUntouched` |
| `rescue` | one clone on a chain of either kind, an operator that is also the sink, two rescues deep | `RescueTakesNoPrincipal`, `WindowBackedAfterRescue` |
| `mesh_money` | a clone for a vault and a fast one for a person, operator flushes, sweeps, swaps, withdrawals | `ReachesRecipient` |
| `mesh_live` | `FairMeshSpec`, no operator, no relayer; Circle halts and resumes, accounts and trustlines come and go; an address for bytes that are no key | `Arrives` |
| `mesh_gate` | a clone for the forwarder's own contract key | violates `NoStrandedMessage` |
| `stellar_deployment` | `FairSpec`: runs that disagree on admin, relayers and discount; three faults, two calls of the admin | `VerifiedMeansWired`, `Completes` |
| `evm_deployment` | `FairDeploySpec`: runs with two wirings, one fault, one change by hand or by Circle, strangers | `ReportedMeansWired`, `RerunsComplete` |

`ReachesRecipient` is stated per Stellar address, because an M key and its G key resolve to one: what left its
deposit addresses less service fees equals what is in transit, was kept by Circle and is in its hands. Others may
also send USDC to a vault, so that with such gifts (`VaultInputs.usdc`) it is an inequality. Of each message
Circle's fee stays below the amount and the immutable cap.

**The violation.** `mesh_gate` shows a disagreement between a document and the code.
`docs/THREAT-MODEL.md` (DoS.8.R.1) requires address producers, the SDK among them, to reject the contract
IDs of the `CctpForwarder` and of USDC as recipients, because the forwarder refuses them.
`verify-sdk/src/recipient.ts` accepts every well-formed key ("no valid address is refused for what it is").
TLC finds the issued address, the deposit and the burn whose message is never served.

**Bounds.** `MaxDeposited` is four subunits in `forwarder`, `factory` and the mesh runs: enough for a window
over two, a later deposit, a burn-limit-capped partial settlement and a one-subunit remainder. In
`forwarder` collected fees return through a rescue, so that an address settles more than that. Rates are
scaled to a denominator of 4 there so that each rounding happens at these sizes; `config` keeps
the real denominators. Delays are one or two ticks; `Tick` advances only while a window is
immature, because only the order of `now` and the deadlines can be observed. In the vault runs `MaxXlm`
bounds what one vault ever receives to two transfers: a gift and a fill, or two fills; `MaxUsdc` to one
transfer, which `vault_custody` swaps in parts. `I128_MAX` is chosen there so that the floor of the whole
balance overflows while that of a part does not. In `vault_price`, `MAX_PRICE_AGE_CAP` and `MAX_CLOCK_SKEW`
are 1 with times 0 and 2, which gives fresh, stale and future records; the discount cap and PPM are the
contract's, and four units are sold, so that a discount above the cap shows in the payment. All of the four
units of XLM that a vault may hold can be sold there too, by an impostor that calls them USDC. The oracle
is the feed in both runs; oracles that answer as they like are left to the proofs. An owner with an M key is the same as its G key but for the vault address, so one account owner
and one contract owner cover the cases.

`rescue` has five subunits, two native units to a subunit and a nesting depth of two: a rescue inside a
rescue, with a deposit and a settlement in between. In the mesh runs a settlement burns two subunits, the
message limit, so two deposits give two messages that can be minted in either order; Circle's fee of up to
half the amount exercises both ends of `maxFee`; ten Stellar units make a subunit, as in the decimals. One
pending swap at a time is modelled, so a fill that itself runs a swap of an impostor's vault is left out. What the
contracts an impostor names do when they are asked for a balance or a price, before anything was sold, is as good
as a transaction of its own before the swap.
In `factory` the base fee is zero, which leaves a repeated setup fee nowhere to hide in the bound of a
settlement, and Circle's minimum fee is zero or the highest within the cap.
Faults in the deployment runs (kills, lost or failed transactions) are bounded by `MaxFaults`; the number
of re-runs is not bounded.

Runs whose cfg says `CHECK_DEADLOCK FALSE` are of systems that may stop: all bounded money is spent, or the
EVM script refuses because Circle does not know the token.

**Fairness.** On EVM: blocks keep coming, and somebody keeps calling `deploy`, `requestSweep` and `sweep`
when these would succeed; each is permissionless, and weak fairness is asked of each address alone.
On Stellar: a transaction ends, and an owner's repeated `deploy` and `withdraw` are included. These are
disabled only inside other transactions, so strong fairness of the step between transactions is what
inclusion means. Nothing is asked of operators, owner, admin, relayers, oracle, fillers or Circle;
`EscapeHatch` assumes instead that Circle eventually keeps serving, and `OwnerLeaves` that the owner's
address eventually can sign and hold USDC. `Arrives` adds that somebody hands each message to the forwarder,
which is open to all; Stellar transactions exclude each other, hence strong fairness. In the deployment runs
the process keeps running, the network includes what is sent, and the operator repeats a command that
failed; crashes and losses are bounded, not excluded. `Completes` and `RerunsComplete` speak of each set of
arguments, and assume that what is on chain and cannot be changed by the tool agrees with them.

## 4. What is proved

The theorems hold for every value of the constants: any number of addresses, owners and roles, any amounts, and
whatever value the bounds of section 3 have. Every safety property of the passing runs is
proved. Each proof module extends the modules it is about and begins with
what single actions do (effect lemmas), goes on to the inductive invariant and ends with the theorems.
Every inductive invariant was first checked by TLC on the instance of the run.

* `Config_proofs`: the arithmetic. `AllowanceAccepted`: for every amount of at least two subunits within
  the message limit, every owner rate and every minimum fee within the cap, Circle accepts the allowance.
  It rests on lemmas about `\div` (rounding down is at most rounding up, both are monotone, the parts
  of a sum round to no more than the sum) from the defining inequalities of division. `ConfigStep` says what
  any call of Config leaves alone.
* `Administration_proofs`, about the two ways Config is administered. All properties of `config`: the
  invariant is `ConfigTyped`, the type of Circle and `ProposalIsOwners`; `WiringImmutable` follows from
  `ConfigStep`, and the bounds on the allowance from its definition for every state in the invariant. And
  `ReportedMeansWired` of `evm_deployment`, from

      DeployInv == DeployTypes /\ MempoolOrder /\ Underway

  `MempoolOrder`: one transaction per nonce, none owned by a run that is over. `Underway`: a run that lost
  nothing and met no other hand has each of its seven steps in place, still planned, or in the mempool, all of
  these before what it will send. Alone that would not be inductive, because a call of Config before it has code
  succeeds and does nothing: `ConfigFirst` says that Config is there, or is what the run sends first. A
  transaction of anybody, of an earlier run included, undoes no step that is in place (`CallEffect`).
* `DepositForwarder_proofs`: type correctness, `ArmedWindowBurnable`, `PrincipalConserved`,
  `OpenWindowSweepable`, `SweepPriority`, `WindowHonoured` and `FeesWithinCaps`, with

      Inv == TypeOK /\ ArmedWindowBurnable /\ PrincipalConserved /\ WindowHistory

  `SweepPriority` is not inductive alone: that a sweep takes only money present at arming needs
  `WindowHistory`, which relates the budget left to what was received at arming and settled since, and
  dates the deadline. `FeesWithinCaps` needs `SetupCharged`, which relates the setup flag to what was taken,
  and `DivOfSum`: the rate is rounded on each settlement and bounded on their sum. One lemma covers what any
  settlement does to balances and windows (`SettleEffect`, `DrawDownEffect`), one what credits do, one that
  everything else leaves the clones alone.
* `CrossMesh_proofs`, about the factory and the whole path. With clones deployed on demand the invariant of
  `DepositForwarder_proofs` still holds; `NoConfusedDeputy`, for whoever sends the transaction; and the refinement `CustodyKept`: every step of the
  contracts maps to a step of `DepositCustody` or leaves what it shows unchanged. The fee bound of the abstract
  settlement is where `FeeBound` comes in, and `EntryPaid`: a clone that was ever flushed has paid its
  setup fee, so only its first flush pays to enter. For the whole path, `ReachesRecipient` follows from

      MeshInv == MeshTypes /\ Books(ledger) /\ Owed(ledger)
                 /\ (~Stellar!Idle => Books(call.saved) /\ Owed(call.saved) /\ CallOwned)

  The last part is needed because a trap restores `call.saved`: no message is minted during a swap, so that
  ledger owes each recipient no less. `CallOwned`: the pending swap pays the owner in the vault's address. A settlement (`EmitBalances`), a step on Stellar (`StellarOwed`)
  and a mint (`MintOwed`) are taken one by one. The sums over clones and messages rest on lemmas about
  `SumFunctionOnSet`: that a sum exists, is unique and unfolds is shown for every finite set by taking a
  smallest counterexample (`FiniteInduction`, from the well-foundedness of the naturals), which needs no
  induction rule. `ChainInMesh` and `StellarInMesh`: the whole implements the specification of each
  side alone, so what is proved of a side holds in the whole. On Stellar it needs `MeshInv`, for a mint must be
  a transfer of a natural amount; `VaultsInMesh` draws the conclusion for `OnlyToOwner` and `FillHonoured`, with
  the theorems of `VaultFactory_proofs` taken through an instance.
* `Rescue_proofs`: `RescueInv` follows the stack of native rescues in progress. `Accounted`: what an address
  received is there, was settled or was taken by a rescue. `TakenCovered` and `BudgetCovered`: what was taken
  has come back, and an armed budget is backed, or a rescue on the stack will not return before. At rest
  the stack is empty, which gives `RescueTakesNoPrincipal` and `WindowBackedAfterRescue`.
* `AquariusFiller_proofs`: `FillerTypeOK` and `AtRestUntouched`, which are inductive together.
* `VaultFactory_proofs`: `TypeOK`, `OnlyToOwner`, `FillHonoured`, `FairPrice` and the refinement `PromiseKept`.
  `swap` trusts a contract in its middle, so `VaultInv` relates two ledgers while a call is pending: the current
  one and the one a trap restores. `Grown` says that nothing was taken from a vault in between, `Held` that the
  swapping vault sold the amount and paid nothing yet, `Priced` that its floor is the worth at the prices
  in force. `Held` and `Priced` are claimed where the caller named the real tokens and the feed, which the genuine
  factory always does (`Verified` and the cap of `set_discount`); the books are claimed of its vaults only. `Carries` is what anything a filler may do does to the books of any one vault; it is proved once
  per kind of traffic. `PromiseKept` follows: opening and trapping show nothing, closing shows the whole
  swap, whose payment `ClosePaysPrice` bounds.
* `StellarDeployment_proofs`: `VerifiedMeansWired`. The checks of `verify` are made one by one while older
  transactions land. `VerdictsStand`: a check of the plan is still ahead, failed, was overtaken by the admin, or
  holds now. It holds because a transaction of the tool only adds to the chain (`FilledUp`), and because
  a run past its look has a step to send and not a check (`ActsOnStep`, `WaitsForOwn`).

The assumptions are the named ASSUMEs of the modules, evaluated by TLC on every instance. Caps, delays, times
and transferred amounts are naturals, and other arguments integers. The CCTP cap is positive and at most half the
denominator; the discount cap is at most 1 000 000. The implementation is no clone. A factory is none
of the callers (`Users`): as a contract it calls `flush` and nothing else. A feed publishes prices in `Price`,
non-positive ones included. The values that stand for nothing (`NoCall`, `NoRun`, `NoFactory`, `NoRecord`)
are none of the things they stand beside. In `CrossMesh` there are finitely many clones (the sums run over
them), no vault is the address of an account, and the parameters of the Stellar side meet the assumptions of its
own modules (`StellarAssumption`), under which the theorems of that side are used.

Only model-checked:

* liveness, which needs fairness and ENABLED, out of the prover's reach: `EscapeHatch`, `OwnerLeaves`,
  `Arrives`, `Completes`, `RerunsComplete`.

The theorems on the deployment script and `RerunsComplete` share one definition with ENABLED: a transaction
that lands reverts when its call is not ENABLED. The proof of `ReportedMeansWired` needs only that a reverted
call changes nothing.

## 5. Not modelled

* Withdrawing tokens other than USDC and XLM from a vault, which has the same shape as the two that are
  modelled.
* `rescueERC20` of tokens other than USDC, which has no bearing on the money of a deposit.
* What an impostor's own vault does for its owner: it is in the model, but only `FairPrice` speaks of it.
* Byte layouts and hashes: strkeys, CREATE2 and sha256 preimages. Derivations are modelled as the
  tuples they hash, assuming no collisions; hookData is its recipient. This is also why the derivations
  of `verify-sdk` are not modelled: what could be wrong in them is bytes.
* `rescueNative` on a shared ledger lets the sink call `flush`, `sweep` and `requestSweep` of the drained
  address. That a window is then closed early is accepted in the code (`sweep`, comment on the drained
  balance) and no property denies it; `WindowBackedAfterRescue` says what remains true.
* `deploy.py`: release download and attestations, key handling, Ledger signing, prompts. A declined prompt
  or a failed signature is a `Crash`.
* Events, gas, storage rent and archival. Archived entries are restored by the transaction that needs them.
* Freezing by the USDC issuer, on either chain.
* The mocks of the test suites and the deployment records.

## 6. Plan

1. Done: the EVM contracts (`CctpV2`, `CctpAllowance`, `Config`, `Governance`, `DepositForwarder`,
   `DepositFactory`, `DepositCustody`, `Rescue`); the Stellar contracts (`OracleFloor`, `Vault`, `VaultFactory`,
   `VaultCustody`, `AquariusFiller`); both sides together (`CrossMesh`); the deployments (`StellarDeployment`,
   `EvmDeployment`).
2. Done: every safety property of the passing runs, both refinements, and that the composed system of
   `CrossMesh` implements the specifications of its two sides, as theorems.
3. Open: the withdrawal of other tokens, and the derivations of `verify-sdk` as operations on bytes. Liveness
   can only be model-checked with these tools.

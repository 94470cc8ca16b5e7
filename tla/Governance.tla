----------------------------- MODULE Governance -----------------------------
(***************************************************************************)
(* Config by itself, over a Circle that changes its own parameters: the    *)
(* owner's setters, the one-time wiring, the two-step transfer of          *)
(* ownership, and the CCTP allowance the settings lead to.                 *)
(***************************************************************************)
EXTENDS Config

CONSTANT Burns      \* the amounts burned that the allowance is looked at for

ASSUME BurnsAssumption == Burns \subseteq Nat \ {0}

VARIABLE proposer   \* history: who made the latest ownership proposal

configVars == <<circle, config, proposer>>

GovernedInit == CircleInit /\ ConfigInit /\ proposer = Deployer

Proposes == \E s \in Users, to \in ConfigInputs.heir : transferOwnership(s, to)

GovernedNext ==
    \/ /\ ConfigNext /\ UNCHANGED circle
       /\ proposer' = IF Proposes THEN config.owner ELSE proposer
    \/ CircleNext /\ UNCHANGED <<config, proposer>>

GovernedSpec == GovernedInit /\ [][GovernedNext]_configVars

-----------------------------------------------------------------------------
(* Whatever arguments the owner passes, every tunable stays in its range   *)
(* and every address is one the setters admit.                             *)
ConfigTyped == config \in ConfigType

(* A pending proposal was made by the owner now in office: none survives   *)
(* an accepted transfer or lets a former owner decide who governs next.    *)
ProposalIsOwners == config.pendingOwner # NoAddress => proposer = config.owner

Rates == {config.cctpStandardMaxFeePpm, config.cctpFastMaxFeePpm}

(* No owner rate can make Circle reject a burn while Circle's minimum is   *)
(* within the cap: every burn of two subunits or more is accepted, and a   *)
(* single subunit is wherever no minimum is in force.                      *)
AllowanceSuffices ==
    MinFeeWithinCap =>
        \A toBurn \in Burns, rate \in Rates :
            /\ toBurn <= circle.burnLimit
            /\ toBurn > 1 \/ circle.legacy \/ circle.minFee = 0
            => BurnAccepted(toBurn, CctpMaxFee(toBurn, rate))

(* Whatever the owner sets and Circle demands, the allowance stays below   *)
(* the amount and within the cap, rounded up: a minimum above the cap      *)
(* halts the settlement instead of being paid.                             *)
AllowanceCapped ==
    \A toBurn \in Burns, rate \in Rates :
        LET granted == CctpMaxFee(toBurn, rate)
            cap == CeilPpm(toBurn * MaxCctpFeePpm)
        IN  /\ granted < toBurn /\ granted <= cap
            /\ ~circle.legacy /\ CalcMinFeeAmount(toBurn) > cap
                 => ~BurnAccepted(toBurn, granted)

(* Once wired, the USDC path is the same for ever, across every change of  *)
(* owner and of Circle's state.                                            *)
WiringImmutable ==
    [][config.initialized => config'.initialized /\ config'.wiring = config.wiring]_configVars
=============================================================================

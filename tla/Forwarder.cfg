CONSTANTS
    c1 = c1  c2 = c2  impl = impl  owner = owner  operator = operator
    eoa = eoa  factory = factory  wiring = wiring
    Clones = {c1, c2}
    FastClones = {c2}
    Implementation = impl
    Users = {owner, operator}
    NoAddress = zero
    NoWiring = unwired
    SoundWirings = {wiring}
    WiredFactories = {}
    Deployer = owner
    PPM_DENOM = 4
    MaxSetupFee = 1
    MaxBaseFee = 1
    MaxFeePpm = 1
    MaxCctpFeePpm = 2
    MinSweepDelay = 1
    MaxSweepDelay = 2
    MIN_SWEEP_AMOUNT = 2
    MaxDeposited = 4
    CircleInputs <- MCCircle
    ConfigInputs <- MCInputs
SPECIFICATION Spec
INVARIANTS TypeOK ArmedWindowBurnable PrincipalConserved FeesWithinCaps OpenWindowSweepable
PROPERTIES WindowHonoured SweepPriority

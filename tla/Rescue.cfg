CONSTANTS
    c1 = c1  impl = impl  owner = owner  safe = safe  wiring = wiring
    Clones = {c1}
    FastClones = {}
    Implementation = impl
    Users = {owner, safe}
    NoAddress = zero
    NoWiring = unwired
    SoundWirings = {wiring}
    WiredFactories = {}
    Deployer = owner
    PPM_DENOM = 4
    MaxSetupFee = 1
    MaxBaseFee = 1
    MaxFeePpm = 1
    MaxCctpFeePpm = 2
    MinSweepDelay = 1
    MaxSweepDelay = 1
    MIN_SWEEP_AMOUNT = 2
    MaxDeposited = 5
    SCALE = 2
    MaxDust = 1
    MaxDepth = 2
    CircleInputs <- MCCircle
    ConfigInputs <- MCInputs
SPECIFICATION RescueSpec
INVARIANTS RescueTakesNoPrincipal WindowBackedAfterRescue
CHECK_DEADLOCK FALSE

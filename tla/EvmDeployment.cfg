CONSTANTS
    owner = owner  safe = safe  good = good  mistaken = mistaken
    Users = {owner, safe}
    NoAddress = zero
    NoWiring = unwired
    SoundWirings = {good, mistaken}
    WiredFactories = {factory}
    Deployer = owner
    PPM_DENOM = 4
    MaxSetupFee = 1
    MaxBaseFee = 1
    MaxFeePpm = 1
    MaxCctpFeePpm = 2
    MinSweepDelay = 1
    MaxSweepDelay = 1
    CircleInputs <- MCCircle
    ConfigInputs <- Hand
    TheFactory = factory
    Wirings = {good, mistaken}
    NoScript = noscript
    MaxFaults = 1
    MaxOutside = 1
SPECIFICATION FairDeploySpec
PROPERTIES ReportedMeansWired RerunsComplete
CHECK_DEADLOCK FALSE

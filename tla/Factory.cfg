CONSTANTS
    impl = impl  owner = owner  operator = operator  eoa = eoa
    factory = factory  impostor = impostor  wiring = wiring
    Recipients <- MCRecipients
    Indices = {0}
    Factory = factory
    Clones <- MCClones
    FastClones <- MCFast
    Implementation = impl
    Users = {owner, operator}
    NoAddress = zero
    NoWiring = unwired
    SoundWirings = {wiring}
    WiredFactories = {factory, impostor}
    Deployer = owner
    PPM_DENOM = 4
    MaxSetupFee = 1
    MaxBaseFee = 0
    MaxFeePpm = 1
    MaxCctpFeePpm = 2
    MinSweepDelay = 1
    MaxSweepDelay = 1
    MIN_SWEEP_AMOUNT = 2
    MaxDeposited = 4
    CircleInputs <- AccessCircle
    ConfigInputs <- AccessInputs
SPECIFICATION FairFacSpec
PROPERTIES NoConfusedDeputy CustodyKept EscapeHatch

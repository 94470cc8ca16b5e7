CONSTANTS
    alice = alice  bob = bob  carol = carol  eoa = eoa  factory = factory
    good = good  better = better  bad = bad
    Users = {alice, bob, carol}
    NoAddress = zero
    NoWiring = unwired
    SoundWirings = {good, better}
    WiredFactories = {factory}
    Deployer = alice
    PPM_DENOM = 1000000
    MaxSetupFee = 1
    MaxBaseFee = 2
    MaxFeePpm = 1
    MaxCctpFeePpm = 10000
    MinSweepDelay = 1
    MaxSweepDelay = 2
    CircleInputs <- AllCircle
    ConfigInputs <- AllInputs
    Burns = {1, 2, 99, 100, 101, 200, 201, 300}
SPECIFICATION GovernedSpec
INVARIANTS ConfigTyped ProposalIsOwners AllowanceSuffices AllowanceCapped
PROPERTY WiringImmutable

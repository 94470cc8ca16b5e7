CONSTANTS
    impl = impl  owner = owner  operator = operator  eoa = eoa  wiring = wiring
    key = key  person = person  cctpForwarder = cctpForwarder
    USDC = usdc  XLM = xlm  Reflector = reflector
    Recipients <- MCRecipients
    Indices = {0}
    Factory = factory
    Clones <- MoneyClones
    FastClones <- FastMoney
    Implementation = impl
    Users = {owner, operator}
    NoAddress = zero
    NoWiring = unwired
    SoundWirings = {wiring}
    WiredFactories = {factory}
    Deployer = owner
    PPM_DENOM = 4
    MaxSetupFee = 1
    MaxBaseFee = 1
    MaxFeePpm = 1
    MaxCctpFeePpm = 2
    MinSweepDelay = 1
    MaxSweepDelay = 1
    MIN_SWEEP_AMOUNT = 2
    MaxDeposited = 4
    CircleInputs <- MeshCircle
    ConfigInputs <- MoneyInputs
    Destination <- Resolve
    Refused = {cctpForwarder}
    STELLAR_UNITS = 10
    NotMinted = notminted
    StellarFactory = vaultfactory
    Owners = {key}
    BaseOf <- MCBase
    Contracts = {person}
    Admins = {admin}
    Relayers = {relayer}
    VaultInputs <- Swaps
    DISCOUNT_CAP_PPM = 100000
    MAX_PRICE_AGE_CAP = 1
    MAX_CLOCK_SKEW = 0
    I128_MAX = 2000000000
    BASE_RESERVE = 1
    MaxUsdc = 40
    MaxXlm = 20
    Price <- Prices
    NoRecord = norecord
    NoCall = nocall
    NoDiscount = nodiscount
    NoAmount = noamount
SPECIFICATION MeshSpec
INVARIANT ReachesRecipient

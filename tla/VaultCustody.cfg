CONSTANTS
    gkey = gkey  ckey = ckey  account = account  contract = contract
    worthless = worthless
    USDC = usdc  XLM = xlm  Reflector = reflector
    DISCOUNT_CAP_PPM = 100000
    MAX_PRICE_AGE_CAP = 1
    MAX_CLOCK_SKEW = 0
    I128_MAX = 1500000
    Price <- Prices
    NoRecord = norecord
    Factory = factory
    Impostors = {}
    Owners = {gkey, ckey}
    BaseOf <- MixedBases
    Contracts = {contract}
    BASE_RESERVE = 2
    NoCall = nocall
    MaxUsdc = 2
    MaxXlm = 4
    Admins = {admin}
    Relayers = {relayer}
    Malformed = {junk}
    NoDiscount = nodiscount
    NoAmount = noamount
    VaultInputs <- CustodyInputs
SPECIFICATION FairSpec
INVARIANTS OnlyToOwner FillHonoured
PROPERTIES PromiseKept OwnerLeaves

CONSTANTS
    gkey = gkey  ckey = ckey  account = account  contract = contract
    worthless = worthless
    USDC = usdc  XLM = xlm  Reflector = reflector
    DISCOUNT_CAP_PPM = 100000
    MAX_PRICE_AGE_CAP = 1
    MAX_CLOCK_SKEW = 1
    I128_MAX = 4000000
    Price <- Prices
    NoRecord = norecord
    Factory = factory
    Impostors = {impostor}
    Owners = {ckey}
    BaseOf <- ContractBase
    Contracts = {contract}
    BASE_RESERVE = 1
    NoCall = nocall
    MaxUsdc = 4
    MaxXlm = 4
    Admins = {admin}
    Relayers = {relayer}
    Malformed = {junk}
    NoDiscount = nodiscount
    NoAmount = noamount
    VaultInputs <- PriceInputs
SPECIFICATION Spec
INVARIANTS TypeOK OnlyToOwner
PROPERTIES FairPrice PromiseKept

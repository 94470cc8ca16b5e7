CONSTANTS
    deployer = deployer  safe = safe  r1 = r1  r2 = r2
    Deployer = deployer
    Params <- AllParams
    Discounts = {1, 2}
    NoRun = norun
    NoParams = noparams
    NoFactory = nofactory
    MaxFaults = 3
    MaxAdminActs = 2
SPECIFICATION FairSpec
PROPERTIES VerifiedMeansWired Completes

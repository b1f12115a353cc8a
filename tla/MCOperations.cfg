SPECIFICATION OperationsSpec
CONSTANTS
    ConfigNetworks = {"seiMainnet", "seiTestnet", "hardhat", "localhost", "avalancheFuji", "avalanche", "arbitrum"}
    MaxKills = 1
    DeployNetworks = {"seiMainnet", "hardhat", "avalancheFuji"}
    Changeable = {"RoleStore", "DataStore", "MarketUtils", "OrderVault", "MarketEventUtils"}
    MaxReleases = 1
    MaxStops = 1
    Accounts <- MCAccounts
    ThisTimelock = "timelock"
    Roles <- MCRoles
    Parameters = {"feeReceiver"}
    Values = {"receiver"}
    InitialMembers <- MCInitialMembers
    Changes <- MCChanges
    InitialDelay = 1
    MAX_TIMELOCK_DELAY = 2
    MaxTime = 3
    Distributions = {1, 2}
    Operators = {"a", "b"}
    RecipientCount = 3
    BatchSize = 2
    Funds = 9
    MaxInterrupts = 1
INVARIANTS
    ReadyBeforeOpen
    ConfiguredAsWritten
    UpdateAccepted
    BuiltOnCurrent
    RolesReady
    RunNeverFails
    RevocationRevertible
    EveryonePaid
    NobodyPaidTwice
PROPERTIES
    ChangedOnlyAfterDelay
CHECK_DEADLOCK FALSE

SPECIFICATION ConfigSpec
CONSTANTS
    ConfigNetworks = {"avalanche", "hardhat"}
    MaxKills = 0
INVARIANTS
    SwapMarketsCanReturnTokens
CHECK_DEADLOCK FALSE

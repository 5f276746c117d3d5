SPECIFICATION EthFairSpec
CONSTANT EthServer = {"eth0", "eth1", "eth2"}
CHECK_DEADLOCK FALSE
INVARIANTS GivesUpCleanly
PROPERTIES ServesAgain

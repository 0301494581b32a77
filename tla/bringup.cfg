CONSTANTS
    Hals = {"ipq806x", "fsm9010"}
    Gmacs = {g1}
SPECIFICATION CoresFairSpec
INVARIANT CoresWellFormed
INVARIANT C2CExchanged
INVARIANT DumpsBeforeReboot
PROPERTY DeadCoreBringsDown
CHECK_DEADLOCK FALSE

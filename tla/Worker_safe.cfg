\* Every command, without link keys: none of the invariants is about them.
\* There is no step after the process has ended, be it by a shutdown or by a
\* call of NULL (no deadlock check).
SPECIFICATION WSafeSpec
CONSTANTS
    NoPeer = NoPeer
    s1 = s1
    Peers = {}
    Leds = {1}
    ReportIds = {1}
    Subs = {}
    UsbMayFail = FALSE
    ConnectMayFail = FALSE
    MayShutdown = TRUE
    Main = Main
    l1 = l1
    Loops = {l1}
    RetryTicks = 1
    Commands <- AllCommands
INVARIANTS WTypeOK SyncingHasLoop CallsAccounted
CHECK_DEADLOCK FALSE

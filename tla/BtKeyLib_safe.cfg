\* Every subcommand, every kind of failure, shutdown included.
SPECIFICATION Spec
CONSTANTS
    NoPeer = NoPeer
    s1 = s1
    s2 = s2
    Peers = {s1}
    Leds = {1}
    ReportIds = {1}
    Subs <- Subcommands
    UsbMayFail = TRUE
    ConnectMayFail = TRUE
    MayShutdown = TRUE
INVARIANTS TypeOK PairedExact ClosedIsClean SendLoopAlive CyclePendingOnlyHalting

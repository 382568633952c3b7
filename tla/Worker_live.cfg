\* Pairing until it succeeds, with keys sent and imported at any time.
SPECIFICATION WSpec
CONSTANTS
    NoPeer = NoPeer
    s1 = s1
    Peers = {s1}
    Leds = {1}
    ReportIds = {1}
    Subs = {}
    UsbMayFail = FALSE
    ConnectMayFail = FALSE
    MayShutdown = FALSE
    Main = Main
    l1 = l1
    Loops = {l1}
    RetryTicks = 1
    Commands <- PairingCommands
PROPERTIES FirstKeyReachesServer PairingEndsSync LoopsStop

\* No shutdown, the dongle can always be opened: power cycles, reconnects and
\* disconnects complete, and replies of every kind that ends do end.
SPECIFICATION Spec
CONSTANTS
    NoPeer = NoPeer
    s1 = s1
    s2 = s2
    Peers = {s1}
    Leds = {1}
    ReportIds = {1, 16}
    Subs <- EndingSubs
    UsbMayFail = FALSE
    ConnectMayFail = FALSE
    MayShutdown = FALSE
PROPERTIES PowerCycleCompletes ActiveConnectAttempted DisconnectServed InputResumes

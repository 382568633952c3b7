\* No shutdown, the dongle can always be opened: power cycles, reconnects and
\* disconnects complete.
SPECIFICATION Spec
CONSTANTS
    NoPeer = NoPeer
    s1 = s1
    s2 = s2
    Peers = {s1}
    Leds = {1}
    ReportIds = {1}
    Subs <- HandshakeSubs
    UsbMayFail = FALSE
    ConnectMayFail = FALSE
    MayShutdown = FALSE
PROPERTY ActiveConnectHasKey

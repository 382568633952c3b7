SPECIFICATION CWSpec
CONSTANTS
    c1 = c1
    f1 = f1
    f2 = f2
    Clients = {c1}
    Frames = {f1, f2}
    Capacity = 1
    MaxInFlight = 4
INVARIANTS CWTypeOK KeysLostOnlyByLag QuietHoldsLast
PROPERTIES OnlyBrowsersHangUp StatusRepaired HandlersEnd
CHECK_DEADLOCK FALSE

\* One thread per kind of request: the discipline the worker normally keeps.
SPECIFICATION Spec
CONSTANTS
    stdin = stdin
    loop = loop
    reconnect = reconnect
    sync = sync
    disconnect = disconnect
    NoKind = NoKind
    Callers = {stdin, loop}
    Kinds = {reconnect, sync, disconnect}
    MayCall <- MCMayCallOne
INVARIANTS TypeOK NoNullCall FieldMeansInFlight
PROPERTIES CoalescedIsServed ImplementsSlots

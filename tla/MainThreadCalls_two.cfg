\* Two threads issue the same kind of request.
SPECIFICATION Spec
CONSTANTS
    stdin = stdin
    loop = loop
    reconnect = reconnect
    sync = sync
    disconnect = disconnect
    NoKind = NoKind
    Callers = {stdin, loop}
    Kinds = {sync}
    MayCall <- MCMayCallTwo
INVARIANT NoNullCall

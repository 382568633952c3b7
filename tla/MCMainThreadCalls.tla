------------------------- MODULE MCMainThreadCalls -------------------------
(* TLC instances of MainThreadCalls.                                       *)
EXTENDS MainThreadCalls, TLC

CONSTANTS stdin, loop,                  \* the stdin thread, a sync loop
          reconnect, sync, disconnect

\* worker.rs: the stdin thread issues reconnect and disconnect, one sync
\* loop issues sync.
MCMayCallOne == (stdin :> {reconnect, disconnect}) @@ (loop :> {sync})

\* Two threads issue sync: two sync loops, or a loop and the Sync command.
MCMayCallTwo == (stdin :> {sync}) @@ (loop :> {sync})
=============================================================================

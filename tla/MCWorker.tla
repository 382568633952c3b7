------------------------------ MODULE MCWorker ------------------------------
(* TLC instances of Worker.                                                *)
EXTENDS Worker

CONSTANTS
    s1,                                 \* a console
    l1                                  \* a pairing loop

\* The commands of a server that pairs a controller and keeps its keys, and
\* all of them.
PairingCommands == {"sync_start", "sync_stop", "set_link_keys", "get_link_keys"}
AllCommands == PairingCommands \cup {"reconnect", "sync", "disconnect"}
=============================================================================

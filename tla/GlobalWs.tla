------------------------------ MODULE GlobalWs ------------------------------
(***************************************************************************)
(* A browser on the global WebSocket, src/src/global_ws.rs, and the        *)
(* registry it watches.  The handler sends a snapshot of the registry when *)
(* the browser connects and whenever the registry changes, the handler     *)
(* lagged, 3 s have passed or the browser asks; in between it forwards     *)
(* single changes.                                                         *)
(*                                                                         *)
(* list() holds the registry's lock and reads the states one by one, while *)
(* the readers of ControllerManager go on changing them.  The devices in a *)
(* snapshot are the subject of DriverOps.                                  *)
(***************************************************************************)
EXTENDS ControllerManager

VARIABLES
    handler,        \* where the handler is
    scan,           \* the states list() has read so far
    view            \* external: what the browser shows

ws    == <<handler, scan, view>>
gvars == <<cmvars, ws>>

Listing(S) == UNION {[T -> States] : T \in SUBSET S}

GTypeOK ==
    /\ handler \in {"closed", "snapshot", "listing", "select"}
    /\ scan \in Listing(Ids)
    /\ view \in Listing(Ids)
    /\ handler = "listing" => DOMAIN scan \subseteq controllers

GInit ==
    /\ CMInit
    /\ handler = "closed"
    /\ scan = <<>>
    /\ view = <<>>

Registered == [i \in controllers |-> state[i]]

-----------------------------------------------------------------------------
(* The handler.                                                            *)

\* The handler subscribes first and then scans.
Connect ==
    /\ handler = "closed"
    /\ rx' = <<>>
    /\ lagged' = FALSE
    /\ handler' = "snapshot"
    /\ UNCHANGED <<registry, tasks, process, scan, view>>

ListBegins ==
    /\ handler = "snapshot"
    /\ handler' = "listing"
    /\ scan' = <<>>
    /\ UNCHANGED <<cmvars, view>>

ListReads(i) ==
    /\ handler = "listing"
    /\ i \in controllers \ DOMAIN scan
    /\ scan' = [j \in DOMAIN scan \cup {i} |-> IF j = i THEN state[i] ELSE scan[j]]
    /\ UNCHANGED <<cmvars, handler, view>>

SnapshotSent ==
    /\ handler = "listing"
    /\ DOMAIN scan = controllers
    /\ view' = scan
    /\ scan' = <<>>
    /\ handler' = "select"
    /\ UNCHANGED cmvars

\* The Lagged arm answers with a snapshot.
MutRecvLagged ==                        \* ... or with a warning only
    /\ handler = "select" /\ lagged
    /\ lagged' = FALSE
    /\ UNCHANGED <<registry, tasks, process, rx, ws>>

RecvLagged ==
    /\ handler = "select" /\ lagged
    /\ lagged' = FALSE
    /\ handler' = "snapshot"
    /\ UNCHANGED <<registry, tasks, process, rx, scan, view>>

Received(e) ==
    /\ handler = "select" /\ ~lagged
    /\ rx # <<>> /\ e = Head(rx)
    /\ rx' = Tail(rx)

RecvChanged ==
    /\ Received([type |-> "changed"])
    /\ handler' = "snapshot"
    /\ UNCHANGED <<registry, tasks, process, lagged, scan, view>>

\* A browser changes what it lists; for other ids there is nothing to do.
RecvStatus(i, s) ==
    /\ Received([type |-> "status", id |-> i, status |-> s])
    /\ view' = IF i \in DOMAIN view THEN [view EXCEPT ![i].status = s] ELSE view
    /\ UNCHANGED <<registry, tasks, process, lagged, handler, scan>>

RecvLinkKeys(i) ==
    /\ Received([type |-> "keys", id |-> i])
    /\ view' = IF i \in DOMAIN view THEN [view EXCEPT ![i].keys = TRUE] ELSE view
    /\ UNCHANGED <<registry, tasks, process, lagged, handler, scan>>

\* Every 3 s, and when the browser sends Refresh.
TickOrRefresh ==
    /\ handler = "select"
    /\ handler' = "snapshot"
    /\ UNCHANGED <<cmvars, scan, view>>

\* The connection ends.
Disconnect ==
    /\ handler # "closed"
    /\ handler' = "closed"
    /\ scan' = <<>>
    /\ view' = <<>>
    /\ UNCHANGED cmvars

HandlerRuns ==
    \/ ListBegins \/ SnapshotSent \/ RecvLagged \/ RecvChanged
    \/ \E i \in Ids : \/ ListReads(i) \/ RecvLinkKeys(i)
                      \/ \E s \in Statuses : RecvStatus(i, s)

HandlerStep == HandlerRuns \/ Connect \/ TickOrRefresh \/ Disconnect

-----------------------------------------------------------------------------
\* While list() holds the lock, nothing enters or leaves the registry.
MutUnlocked(A) == A /\ UNCHANGED ws
Unlocked(A) == handler # "listing" /\ A /\ UNCHANGED ws

GNext ==
    \/ Unlocked(LockedStep)
    \/ OtherStep /\ UNCHANGED ws
    \/ HandlerStep

\* The handler runs as long as it has something to do, and so do the tasks
\* of the registry, whose lock is fair to those that wait for it.  Nothing is
\* assumed of the timer and the browser.
GFairness ==
    /\ WF_gvars(HandlerRuns)
    /\ \A i \in Ids : /\ SF_gvars(Unlocked(AddInserts(i)))
                      /\ SF_gvars(Unlocked(WatcherRemoves(i)))
                      /\ WF_gvars(AddNotifies(i) /\ UNCHANGED ws)
                      /\ WF_gvars(WatcherNotifies(i) /\ UNCHANGED ws)
                      /\ WF_gvars(StdoutReader(i) /\ UNCHANGED ws)
                      /\ WF_gvars(stop[i] /\ WorkerExits(i) /\ UNCHANGED ws)

GSpec == GInit /\ [][GNext]_gvars /\ GFairness

-----------------------------------------------------------------------------
(* Properties.                                                             *)

Connected == handler # "closed"

\* A handler with nothing left to receive shows the registry as it is,
\* unless a task is just about to announce a change: no update is lost, and
\* no old one stays, whether it was overtaken by a snapshot, dropped by a
\* full channel or came for a controller that had gone.
Announcing(i) == adding[i] = "inserted" \/ watcher[i] = "removed"
QuietViewExact ==
    (/\ handler = "select" /\ ~lagged /\ rx = <<>>
     /\ \A i \in Ids : ~Announcing(i)) => view = Registered

\* When registry and states no longer change, the browser comes to show
\* them, whatever was lost or out of date before, and without the periodic
\* snapshot that is there to guarantee it (global_ws.rs 147).
ViewConverges ==
    <>[][FALSE]_<<controllers, state, Connected>> => <>[](Connected => view = Registered)
=============================================================================

-------------------------- MODULE ControllerManager --------------------------
(***************************************************************************)
(* The server's registry of workers, src/src/controller.rs.                *)
(*                                                                         *)
(* Adding a controller starts a worker process and three tasks: one writes *)
(* commands to its stdin, one reads its events from stdout, one waits for  *)
(* it to end.  All run on a multi-threaded runtime, so an action below     *)
(* holds one lock or sends one message.  Ids are never used twice.         *)
(*                                                                         *)
(* What a Status event says is a member of Statuses, and of link keys only *)
(* their presence is kept.  Events nobody but a log looks at are left out. *)
(***************************************************************************)
EXTENDS Naturals, Sequences

CONSTANTS
    MaxAdds,        \* bound: controllers added
    MaxPipe,        \* bound: unread events of a worker
    Capacity,       \* of the global broadcast channel (64 in the code)
    Statuses,       \* what a Status event may say
    Unpaired        \* what the registry says before the first one

ASSUME BoundsAssumption   == MaxAdds \in Nat /\ MaxPipe \in Nat /\ Capacity \in Nat \ {0}
ASSUME StatusesAssumption == Unpaired \in Statuses

Ids == 0..(MaxAdds - 1)

\* ControllerState, the parts that change.
States == [status : Statuses, keys : BOOLEAN]
Fresh  == [status |-> Unpaired, keys |-> FALSE]

\* WorkerEvent, GlobalEvent
WorkerEvents == [type : {"status"}, status : Statuses] \cup [type : {"keys"}]
GlobalEvents == [type : {"changed"}]
                \cup [type : {"status"}, id : Ids, status : Statuses]
                \cup [type : {"keys"}, id : Ids]

VARIABLES
    next_id,
    adding,         \* how far add() has come for each id
    controllers,    \* ids in the registry
    state,          \* ControllerState of each id
    prev,           \* the reader's status last sent to the global channel
    watcher,        \* the task that waits for the process
    stop,           \* Shutdown is in the channel to stdin
    proc,           \* external: the worker process
    pipe,           \* its stdout
    rx,             \* what a subscriber of the global channel has not received
    lagged          \* ... and whether it missed something

registry == <<next_id, adding, controllers>>
tasks    == <<state, prev, watcher>>
process  == <<stop, proc, pipe>>
global   == <<rx, lagged>>
cmvars   == <<registry, tasks, process, global>>

CMTypeOK ==
    /\ next_id \in 0..MaxAdds
    /\ adding \in [Ids -> {"no", "spawned", "inserted", "done", "failed"}]
    /\ controllers \subseteq Ids
    /\ state \in [Ids -> States]
    /\ prev \in [Ids -> Statuses]
    /\ watcher \in [Ids -> {"no", "waiting", "removed", "done"}]
    /\ stop \in [Ids -> BOOLEAN]
    /\ proc \in [Ids -> {"no", "running", "exited"}]
    /\ pipe \in [Ids -> Seq(WorkerEvents)] /\ \A i \in Ids : Len(pipe[i]) <= MaxPipe
    /\ rx \in Seq(GlobalEvents) /\ Len(rx) <= Capacity
    /\ lagged \in BOOLEAN

CMInit ==
    /\ next_id = 0
    /\ adding = [i \in Ids |-> "no"]
    /\ controllers = {}
    /\ state = [i \in Ids |-> Fresh]
    /\ prev = [i \in Ids |-> Unpaired]
    /\ watcher = [i \in Ids |-> "no"]
    /\ stop = [i \in Ids |-> FALSE]
    /\ proc = [i \in Ids |-> "no"]
    /\ pipe = [i \in Ids |-> <<>>]
    /\ rx = <<>>
    /\ lagged = FALSE

\* broadcast::Sender::send: a full channel drops its oldest event, and the
\* subscriber is told that it lagged.
MutBroadcast(e) == rx' = Append(rx, e) /\ UNCHANGED lagged   \* unbounded

Broadcast(e) ==
    IF Len(rx) < Capacity
      THEN rx' = Append(rx, e) /\ UNCHANGED lagged
      ELSE rx' = Append(Tail(rx), e) /\ lagged' = TRUE

-----------------------------------------------------------------------------
(* add(), remove()                                                         *)

\* An id is taken and the process is spawned with its three tasks, ...
AddSpawns ==
    /\ next_id < MaxAdds
    /\ next_id' = next_id + 1
    /\ adding' = [adding EXCEPT ![next_id] = "spawned"]
    /\ proc' = [proc EXCEPT ![next_id] = "running"]
    /\ watcher' = [watcher EXCEPT ![next_id] = "waiting"]
    /\ UNCHANGED <<controllers, state, prev, stop, pipe, global>>

\* ... or the log file or the process cannot be created;
AddFails ==
    /\ next_id < MaxAdds
    /\ next_id' = next_id + 1
    /\ adding' = [adding EXCEPT ![next_id] = "failed"]
    /\ UNCHANGED <<controllers, tasks, process, global>>

\* the handle is inserted;
AddInserts(i) ==
    /\ adding[i] = "spawned"
    /\ adding' = [adding EXCEPT ![i] = "inserted"]
    /\ controllers' = controllers \cup {i}
    /\ UNCHANGED <<next_id, tasks, process, global>>

\* everyone is told.
AddNotifies(i) ==
    /\ adding[i] = "inserted"
    /\ adding' = [adding EXCEPT ![i] = "done"]
    /\ Broadcast([type |-> "changed"])
    /\ UNCHANGED <<next_id, controllers, tasks, process>>

\* remove() sends Shutdown to the worker; the rest is left to the watcher.
MutRemove(i) ==                         \* the id is unregistered at once
    /\ i \in controllers
    /\ controllers' = controllers \ {i}
    /\ stop' = [stop EXCEPT ![i] = TRUE]
    /\ UNCHANGED <<next_id, adding, tasks, proc, pipe, global>>

Remove(i) ==
    /\ i \in controllers
    /\ stop' = [stop EXCEPT ![i] = TRUE]
    /\ UNCHANGED <<registry, tasks, proc, pipe, global>>

\* refresh_and_notify_devices(): everyone is told that the devices changed,
\* which to a subscriber is a change of the registry.
DevicesNotify ==
    /\ Broadcast([type |-> "changed"])
    /\ UNCHANGED <<registry, tasks, process>>

-----------------------------------------------------------------------------
(* The tasks of a controller.                                              *)

\* child.wait() returns: the id leaves the registry, ...
MutWatcherRemoves(i) ==                 \* only the end is announced
    /\ watcher[i] = "waiting"
    /\ proc[i] = "exited"
    /\ watcher' = [watcher EXCEPT ![i] = "removed"]
    /\ UNCHANGED <<registry, state, prev, process, global>>

WatcherRemoves(i) ==
    /\ watcher[i] = "waiting"
    /\ proc[i] = "exited"
    /\ watcher' = [watcher EXCEPT ![i] = "removed"]
    /\ controllers' = controllers \ {i}
    /\ UNCHANGED <<next_id, adding, state, prev, process, global>>

\* ... and everyone is told.
WatcherNotifies(i) ==
    /\ watcher[i] = "removed"
    /\ watcher' = [watcher EXCEPT ![i] = "done"]
    /\ Broadcast([type |-> "changed"])
    /\ UNCHANGED <<registry, state, prev, process>>

\* stdout_reader, with the lock of the state held from the write to the end
\* of the notification.  It reads on to the end of the pipe of a worker that
\* has ended.
ReadsStatus(i) ==
    /\ pipe[i] # <<>>
    /\ Head(pipe[i]).type = "status"
    /\ pipe' = [pipe EXCEPT ![i] = Tail(@)]
    /\ LET s == Head(pipe[i]).status
       IN  /\ state' = [state EXCEPT ![i].status = s]
           /\ prev' = [prev EXCEPT ![i] = s]
           /\ IF s # prev[i] THEN Broadcast([type |-> "status", id |-> i, status |-> s])
                             ELSE UNCHANGED global
    /\ UNCHANGED <<registry, watcher, stop, proc>>

ReadsLinkKeys(i) ==
    /\ pipe[i] # <<>>
    /\ Head(pipe[i]).type = "keys"
    /\ pipe' = [pipe EXCEPT ![i] = Tail(@)]
    /\ state' = [state EXCEPT ![i].keys = TRUE]
    /\ Broadcast([type |-> "keys", id |-> i])
    /\ UNCHANGED <<registry, prev, watcher, stop, proc>>

StdoutReader(i) == ReadsStatus(i) \/ ReadsLinkKeys(i)

-----------------------------------------------------------------------------
(* The worker process, as the server sees it.                              *)

WorkerWrites(i) ==
    /\ proc[i] = "running"
    /\ Len(pipe[i]) < MaxPipe
    /\ \E e \in WorkerEvents : pipe' = [pipe EXCEPT ![i] = Append(@, e)]
    /\ UNCHANGED <<registry, tasks, stop, proc, global>>

WorkerExits(i) ==
    /\ proc[i] = "running"
    /\ proc' = [proc EXCEPT ![i] = "exited"]
    /\ UNCHANGED <<registry, tasks, stop, pipe, global>>

-----------------------------------------------------------------------------
\* Steps that hold the write lock of the registry.
LockedStep == \E i \in Ids : AddInserts(i) \/ WatcherRemoves(i)

OtherStep ==
    \/ AddSpawns \/ AddFails \/ DevicesNotify
    \/ \E i \in Ids : \/ AddNotifies(i) \/ Remove(i) \/ WatcherNotifies(i)
                      \/ StdoutReader(i) \/ WorkerWrites(i) \/ WorkerExits(i)

CMNext == LockedStep \/ OtherStep

\* The runtime runs every task; a worker that is told to shut down does
\* (worker.rs 242-247), others may run for ever.
CMFairness ==
    \A i \in Ids : /\ WF_cmvars(AddInserts(i)) /\ WF_cmvars(AddNotifies(i))
                  /\ WF_cmvars(WatcherRemoves(i)) /\ WF_cmvars(WatcherNotifies(i))
                  /\ WF_cmvars(StdoutReader(i))
                  /\ WF_cmvars(stop[i] /\ WorkerExits(i))

CMSafeSpec == CMInit /\ [][CMNext]_cmvars
CMSpec == CMSafeSpec /\ CMFairness

-----------------------------------------------------------------------------
(* Properties.                                                             *)

\* No worker runs on where no client can reach it: once add() has returned,
\* a running worker is in the registry, also while it is being removed.
LiveIsListed == \A i \in Ids : (proc[i] = "running" /\ adding[i] = "done") => i \in controllers

\* A worker that was running when it was removed leaves the registry.
RemoveServed ==
    \A i \in Ids : (stop[i] /\ proc[i] = "running") ~> i \notin controllers

\* The registry implements its abstract specification: an id is listed once,
\* leaves only when its worker has ended, and then does, however insertion,
\* removal and the end of the process are interleaved (controller.rs 257-268).
entryOf ==
    [i \in Ids |->
        IF i \in controllers THEN IF watcher[i] = "waiting" THEN "listed" ELSE "stray"
        ELSE IF adding[i] \in {"inserted", "done"} THEN "gone" ELSE "new"]
Entries == INSTANCE Registry WITH entry <- entryOf, ended <- {i \in Ids : proc[i] = "exited"}
ImplementsRegistry == Entries!Spec

-----------------------------------------------------------------------------
(* What a comment says and the code does not do.                           *)

\* controller.rs 281: remove() stops the controller and unregisters it.
RemoveUnregisters == \A i \in Ids : stop[i] ~> i \notin controllers
=============================================================================

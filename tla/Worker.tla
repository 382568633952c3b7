------------------------------- MODULE Worker -------------------------------
(***************************************************************************)
(* The worker process, src/src/worker.rs, around the Bluetooth side.       *)
(*                                                                         *)
(* Threads: the main thread reads commands from stdin; a status thread     *)
(* polls every 100 ms; every SyncStart that finds no pairing loop spawns a *)
(* sync-loop thread that polls every 200 ms; the BTStack thread runs the   *)
(* actions of BtKeyLib.  They share the flag syncing, the variables of     *)
(* btkeyLib.c and the link key data base, all without a lock, so an action *)
(* below reads or writes shared state once (or several times where no      *)
(* other thread could tell).  That goes for the calls into btkeyLib.c too: *)
(* reconnect, sync and disconnect test the callback field, set it and hand *)
(* over the registration in three steps, as MainThreadCalls has them for   *)
(* any threads; here the threads are those of worker.rs.  Time is not      *)
(* modelled: a sleeping thread wakes up some time later.                   *)
(*                                                                         *)
(* Commands that only store input values (buttons, sticks, sensors,        *)
(* colours, amiibo) are left out, and so is the Status event, which the    *)
(* status thread sends at the end of every turn.                           *)
(***************************************************************************)
EXTENDS BtKeyLib

CONSTANTS
    Main,           \* the main thread
    Loops,          \* bound: sync-loop threads alive at the same time
    RetryTicks,     \* polls between two retries (RETRY_INTERVAL_TICKS)
    Commands        \* the commands the server sends

ASSUME MainAssumption == Main \notin Loops
ASSUME RetryTicksAssumption == RetryTicks \in Nat \ {0}

VARIABLES
    phase,          \* of the main thread
    syncing,        \* the AtomicBool
    loop,           \* where each sync-loop thread is
    tick,           \* its tick, counted from the last retry, 0 once it is done looking
    status,         \* the status thread: where it is and its locals
    serverKeys,     \* the link keys of the last LinkKeys event
    callback,       \* is <kind>_callback_reg.callback non-NULL?
    call,           \* the call into btkeyLib.c each thread is in
    handling        \* the request whose handler has not returned yet

threads == <<phase, syncing, loop, tick, status, serverKeys>>
calls   == <<callback, call, handling>>
wvars   == <<vars, threads, calls>>

Callers == {Main} \cup Loops
NoRequest == "none"
NoCall == [kind |-> NoRequest, at |-> "idle"]

LoopPcs == {"none", "starting", "sleeping", "looking", "unpaired", "retrying", "paired", "sending"}
LoopAlive(i) == loop[i] # "none"

WTypeOK ==
    /\ phase \in {"starting", "running", "reconnecting", "shutting", "stopping", "exited", "crashed"}
    /\ syncing \in BOOLEAN
    /\ loop \in [Loops -> LoopPcs]
    /\ tick \in [Loops -> 0..RetryTicks]
    /\ status \in [pc : {"sleeping", "paired", "syncing", "sending"}, paired : BOOLEAN,
                   syncing : BOOLEAN, prev_paired : BOOLEAN, link_keys_sent : BOOLEAN]
    /\ serverKeys \subseteq Peers
    /\ callback \in [Requests -> BOOLEAN]
    /\ call \in [Callers -> {NoCall} \cup [kind : Requests, at : {"checked", "registered"}]]
    /\ handling \in Requests \cup {NoRequest}

\* The BTStack thread has been started, with the keys of the command line.
WInit ==
    /\ Init
    /\ phase = "starting"
    /\ syncing = FALSE
    /\ loop = [i \in Loops |-> "none"]
    /\ tick = [i \in Loops |-> 0]
    /\ status = [pc |-> "sleeping", paired |-> FALSE, syncing |-> FALSE,
                 prev_paired |-> FALSE, link_keys_sent |-> FALSE]
    /\ serverKeys = {}
    /\ callback = [k \in Requests |-> FALSE]
    /\ call = [t \in Callers |-> NoCall]
    /\ handling = NoRequest

Alive == phase \notin {"exited", "crashed"}

-----------------------------------------------------------------------------
(* Calls into btkeyLib.c.                                                  *)

\* reconnect(), sync(), disconnect(): if (reg.callback) return; ...
Ask(t, k) ==
    /\ call' = IF callback[k] THEN call ELSE [call EXCEPT ![t] = [kind |-> k, at |-> "checked"]]
    /\ UNCHANGED <<vars, callback, handling>>

\* ... reg.callback = &do_..._on_main; ...
Register(t) ==
    /\ Alive
    /\ call[t].at = "checked"
    /\ callback' = [callback EXCEPT ![call[t].kind] = TRUE]
    /\ call' = [call EXCEPT ![t].at = "registered"]
    /\ UNCHANGED <<vars, threads, handling>>

\* ... and hand it to the run loop.
Enqueue(t) ==
    /\ Alive
    /\ call[t].at = "registered"
    /\ IF QueuedRequest(call[t].kind) THEN UNCHANGED vars ELSE Request(call[t].kind)
    /\ call' = [call EXCEPT ![t] = NoCall]
    /\ UNCHANGED <<threads, callback, handling>>

CallStep(t) == Register(t) \/ Enqueue(t)

\* send_link_keys: nothing is sent while the data base is empty.
send_link_keys ==
    serverKeys' = IF export_link_keys = {} THEN serverKeys ELSE export_link_keys

-----------------------------------------------------------------------------
(* The main thread.                                                        *)

\* After a sleep of 500 ms the Ready event is sent, the status thread
\* starts and commands are read.
Ready ==
    /\ phase = "starting"
    /\ phase' = "running"
    /\ UNCHANGED <<vars, syncing, loop, tick, status, serverKeys, calls>>

MainAt(p) == phase = p /\ call[Main] = NoCall

Command(c) == MainAt("running") /\ c \in Commands

\* Reconnect imports the keys it carries (there may be none) and then asks.
CmdReconnectKeys(ks) ==
    /\ Command("reconnect")
    /\ import_link_keys(ks)
    /\ phase' = "reconnecting"
    /\ UNCHANGED <<syncing, loop, tick, status, serverKeys, calls>>

CmdReconnect ==
    /\ MainAt("reconnecting")
    /\ Ask(Main, "reconnect")
    /\ phase' = "running"
    /\ UNCHANGED <<syncing, loop, tick, status, serverKeys>>

CmdSync == Command("sync") /\ Ask(Main, "sync") /\ UNCHANGED threads

CmdDisconnect == Command("disconnect") /\ Ask(Main, "disconnect") /\ UNCHANGED threads

CmdSetLinkKeys(ks) ==
    Command("set_link_keys") /\ import_link_keys(ks) /\ UNCHANGED <<threads, calls>>

CmdGetLinkKeys ==
    /\ Command("get_link_keys")
    /\ send_link_keys
    /\ UNCHANGED <<vars, phase, syncing, loop, tick, status, calls>>

\* A pairing loop is started unless one is running.
CmdSyncStart(i) ==
    /\ Command("sync_start")
    /\ ~syncing
    /\ ~LoopAlive(i)
    /\ syncing' = TRUE
    /\ loop' = [loop EXCEPT ![i] = "starting"]
    /\ UNCHANGED <<vars, phase, tick, status, serverKeys, calls>>

CmdSyncStop ==
    /\ Command("sync_stop")
    /\ syncing' = FALSE
    /\ UNCHANGED <<vars, phase, loop, tick, status, serverKeys, calls>>

\* Shutdown stops the pairing first, ...
CmdShutdown ==
    /\ MainAt("running")
    /\ MayShutdown
    /\ phase' = "shutting"
    /\ syncing' = FALSE
    /\ UNCHANGED <<vars, loop, tick, status, serverKeys, calls>>

\* ... the end of stdin does not; then the stack is told to power off ...
Shutdown ==
    /\ trigger_shutdown
    /\ phase' = "stopping"
    /\ UNCHANGED <<syncing, loop, tick, status, serverKeys, calls>>

EndOfInput == MainAt("running") /\ Shutdown
ShutdownGoesOn == phase = "shutting" /\ Shutdown

\* ... and the process ends, with all its threads.
Exit ==
    /\ phase = "stopping"
    /\ phase' = "exited"
    /\ UNCHANGED <<vars, syncing, loop, tick, status, serverKeys, calls>>

MainStep ==
    \/ Ready \/ CmdSync \/ CmdDisconnect \/ CmdGetLinkKeys \/ CmdSyncStop
    \/ \E ks \in SUBSET Peers : CmdReconnectKeys(ks) \/ CmdSetLinkKeys(ks)
    \/ CmdReconnect
    \/ \E i \in Loops : CmdSyncStart(i)
    \/ CmdShutdown \/ ShutdownGoesOn \/ EndOfInput \/ Exit

-----------------------------------------------------------------------------
(* A sync-loop thread.                                                     *)

ThreadsRun == phase \in {"running", "reconnecting", "shutting", "stopping"}

LoopAt(i, pc) == ThreadsRun /\ loop[i] = pc /\ call[i] = NoCall
LoopGoes(i, pc) == loop' = [loop EXCEPT ![i] = pc]
TickEnds(i) == tick' = [tick EXCEPT ![i] = 0]

LoopStart(i) ==
    /\ LoopAt(i, "starting")
    /\ Ask(i, "sync")
    /\ LoopGoes(i, "sleeping")
    /\ UNCHANGED <<phase, syncing, tick, status, serverKeys>>

\* if !syncing_loop.load() { return; }
MutLoopWake(i) ==
    /\ LoopAt(i, "sleeping")
    /\ LoopGoes(i, "looking")
    /\ UNCHANGED <<vars, phase, syncing, tick, status, serverKeys, calls>>

LoopWake(i) ==
    /\ LoopAt(i, "sleeping")
    /\ IF syncing THEN LoopGoes(i, "looking") /\ UNCHANGED tick
                  ELSE LoopGoes(i, "none") /\ TickEnds(i)
    /\ UNCHANGED <<vars, phase, syncing, status, serverKeys, calls>>

\* if is_paired() ...
LoopLooks(i) ==
    /\ LoopAt(i, "looking")
    /\ LoopGoes(i, IF paired THEN "paired" ELSE "unpaired")
    /\ UNCHANGED <<vars, phase, syncing, tick, status, serverKeys, calls>>

MutRetryDue(i) == tick[i] > RetryTicks
RetryDue(i) == tick[i] = RetryTicks
NextTick(i) == tick' = [tick EXCEPT ![i] = IF RetryDue(i) THEN 1 ELSE @ + 1]

\* ... else now and then get_link_keys(), ...
LoopWaits(i) ==
    /\ LoopAt(i, "unpaired")
    /\ LoopGoes(i, IF RetryDue(i) /\ export_link_keys = {} THEN "retrying" ELSE "sleeping")
    /\ NextTick(i)
    /\ UNCHANGED <<vars, phase, syncing, status, serverKeys, calls>>

\* ... and if there was none, retry the sync.
MutLoopRetries(i) ==                    \* reset by a reconnect, which keeps the keys
    /\ LoopAt(i, "retrying")
    /\ Ask(i, "reconnect")
    /\ LoopGoes(i, "sleeping")
    /\ UNCHANGED <<phase, syncing, tick, status, serverKeys>>

LoopRetries(i) ==
    /\ LoopAt(i, "retrying")
    /\ Ask(i, "sync")
    /\ LoopGoes(i, "sleeping")
    /\ UNCHANGED <<phase, syncing, tick, status, serverKeys>>

MutLoopSucceeds(i) ==                   \* syncing is left set
    /\ LoopAt(i, "paired")
    /\ LoopGoes(i, "sending")
    /\ TickEnds(i)
    /\ UNCHANGED <<vars, phase, syncing, status, serverKeys, calls>>

LoopSucceeds(i) ==
    /\ LoopAt(i, "paired")
    /\ syncing' = FALSE
    /\ LoopGoes(i, "sending")
    /\ TickEnds(i)
    /\ UNCHANGED <<vars, phase, status, serverKeys, calls>>

LoopSends(i) ==
    /\ LoopAt(i, "sending")
    /\ send_link_keys
    /\ LoopGoes(i, "none")
    /\ UNCHANGED <<vars, phase, syncing, tick, status, calls>>

LoopStep(i) ==
    \/ LoopStart(i) \/ LoopWake(i) \/ LoopLooks(i) \/ LoopWaits(i)
    \/ LoopRetries(i) \/ LoopSucceeds(i) \/ LoopSends(i)

-----------------------------------------------------------------------------
(* The status thread.  Its locals paired and syncing live for one turn and *)
(* are FALSE from their last use on.                                       *)

StatusAt(pc) == ThreadsRun /\ status.pc = pc

StatusIsPaired ==
    /\ StatusAt("sleeping")
    /\ status' = [status EXCEPT !.pc = "paired", !.paired = paired]
    /\ UNCHANGED <<vars, phase, syncing, loop, tick, serverKeys, calls>>

StatusIsSyncing ==
    /\ StatusAt("paired")
    /\ status' = [status EXCEPT !.pc = "syncing", !.syncing = syncing]
    /\ UNCHANGED <<vars, phase, syncing, loop, tick, serverKeys, calls>>

\* A new pairing stops the pairing loop, ...
JustPaired == status.paired /\ ~status.prev_paired

StatusStops ==
    /\ StatusAt("syncing")
    /\ syncing' = IF JustPaired /\ status.syncing THEN FALSE ELSE syncing
    /\ status' = [status EXCEPT !.pc = "sending", !.syncing = FALSE,
                                !.link_keys_sent = @ /\ ~JustPaired]
    /\ UNCHANGED <<vars, phase, loop, tick, serverKeys, calls>>

\* ... and while paired, the link keys are sent once they are there.
KeysDue == status.paired /\ ~status.link_keys_sent

MutStatusSends ==                       \* the result of send_link_keys is ignored
    /\ StatusAt("sending")
    /\ IF KeysDue THEN send_link_keys ELSE UNCHANGED serverKeys
    /\ status' = [status EXCEPT !.pc = "sleeping", !.paired = FALSE,
                                !.prev_paired = status.paired,
                                !.link_keys_sent = status.paired]
    /\ UNCHANGED <<vars, phase, syncing, loop, tick, calls>>

StatusSends ==
    /\ StatusAt("sending")
    /\ IF KeysDue THEN send_link_keys ELSE UNCHANGED serverKeys
    /\ status' = [status EXCEPT !.pc = "sleeping", !.paired = FALSE,
                                !.prev_paired = status.paired,
                                !.link_keys_sent = /\ status.paired
                                                   /\ KeysDue => export_link_keys # {}]
    /\ UNCHANGED <<vars, phase, syncing, loop, tick, calls>>

StatusStep == StatusIsPaired \/ StatusIsSyncing \/ StatusStops \/ StatusSends

-----------------------------------------------------------------------------
(* The BTStack thread.                                                     *)

\* It handles an event unless it is in the handler of a request.
Bt(A) == Alive /\ handling = NoRequest /\ A /\ UNCHANGED <<threads, calls>>

Popping == Alive /\ handling = NoRequest /\ runQueue # <<>>

\* The run loop pops a registration and calls through its callback field:
\* the handler, up to its last statement, ...
Dispatch ==
    /\ Popping
    /\ callback[Head(runQueue)]
    /\ RunRequest
    /\ handling' = Head(runQueue)
    /\ UNCHANGED <<threads, callback, call>>

\* ... which is reg.callback = NULL;
Clear ==
    /\ Alive
    /\ handling # NoRequest
    /\ callback' = [callback EXCEPT ![handling] = FALSE]
    /\ handling' = NoRequest
    /\ UNCHANGED <<vars, threads, call>>

\* The field is NULL: the process dies.
NullCall ==
    /\ Popping
    /\ ~callback[Head(runQueue)]
    /\ phase' = "crashed"
    /\ UNCHANGED <<vars, syncing, loop, tick, status, serverKeys, calls>>

RunLoopStep == Dispatch \/ NullCall \/ Clear

WNext ==
    \/ Bt(BtEvent) \/ RunLoopStep
    \/ MainStep
    \/ \E t \in Callers : CallStep(t)
    \/ \E i \in Loops : LoopStep(i)
    \/ StatusStep

\* What the main thread does without being told to.
MainGoesOn ==
    Ready \/ CmdReconnect \/ ShutdownGoesOn \/ Exit \/ CallStep(Main)

\* Until the process ends, its threads run; the server promises nothing.
WFairness ==
    /\ WF_wvars(RunLoopStep)
    /\ WF_wvars(Bt(HciWorking \/ HciOff))
    /\ WF_wvars(Bt(OpeningEnds \/ CloseRequested))
    /\ WF_wvars(MainGoesOn)
    /\ \A i \in Loops : WF_wvars(LoopStep(i) \/ CallStep(i))
    /\ WF_wvars(StatusStep)

WSafeSpec == WInit /\ [][WNext]_wvars
WSpec == WSafeSpec /\ WFairness

-----------------------------------------------------------------------------
(* Properties.                                                             *)

Looking(i) == loop[i] \in {"starting", "sleeping", "looking", "unpaired", "retrying", "paired"}

\* While syncing is set there is a pairing loop that will clear it, and so
\* SyncStart (worker.rs 184) never refuses to start a loop for ever.
SyncingHasLoop == syncing => \E i \in Loops : Looking(i)

\* A request is on its way from the moment its field is set until its
\* handler returns.
InFlight(k) ==
    \/ \E t \in Callers : call[t] = [kind |-> k, at |-> "registered"]
    \/ QueuedRequest(k)
    \/ handling = k

\* Calls of the main thread and of the pairing loops collide, and for a sync
\* that may end in a call of NULL (worker.rs 181, 193, 220).  What they can
\* never do is leave a field set with nothing on its way, which would refuse
\* that request for ever; and a reconnect or a disconnect, which only the
\* main thread asks for, is never called through NULL (btkeyLib.c 575-644).
CallsAccounted ==
    /\ \A k \in Requests : callback[k] => InFlight(k)
    /\ \A k \in {"reconnect", "disconnect"} : InFlight(k) => callback[k]

\* SyncStop, and a pairing, end the pairing loops (worker.rs 203): with
\* syncing cleared every loop ends, unless syncing is set again.
LoopsStop == ~syncing ~> \/ syncing
                         \/ \A i \in Loops : ~LoopAlive(i)
                         \/ ~Alive

\* Once the controller is paired the pairing loop ends (worker.rs 207), so
\* that it cannot reset the connection it was to make.
PairingEndsSync == (syncing /\ paired) ~> ~syncing \/ ~paired \/ ~Alive

\* ipc.rs 73: the link keys are sent automatically after a pairing.  It
\* holds for the first key the server is to learn, also if the key comes
\* after the connection.
FirstKeyReachesServer ==
    (paired /\ linkKeys # {} /\ serverKeys = {})
        ~> serverKeys # {} \/ ~paired \/ linkKeys = {} \/ ~Alive
=============================================================================

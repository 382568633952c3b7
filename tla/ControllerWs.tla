---------------------------- MODULE ControllerWs ----------------------------
(***************************************************************************)
(* Browsers on the WebSocket of one controller, src/src/ws_server.rs.      *)
(*                                                                         *)
(* Each connection has a handler that selects between the controller's     *)
(* broadcast of events, which it forwards, and the browser's messages,     *)
(* which it turns into commands.  The handlers run in parallel; commands   *)
(* go through one unbounded channel and the writer of the worker's stdin,  *)
(* here one queue.  While a handler waits for its browser to take an event *)
(* it reads neither side.                                                  *)
(*                                                                         *)
(* A frame is a model value that becomes three commands; of the commands   *)
(* that take one only GetLinkKeys, which is answered, is kept.  Of events  *)
(* Status and LinkKeys are kept, and of Status whether it is paired.       *)
(***************************************************************************)
EXTENDS Naturals, Sequences, FiniteSets

CONSTANTS
    Clients,        \* connections
    Frames,         \* what a browser may say of its gamepad
    Capacity,       \* of the controller's broadcast channel (32 in the code)
    MaxInFlight     \* bound: commands on their way when a browser sends

ASSUME CWBoundsAssumption == Capacity \in Nat \ {0} /\ MaxInFlight \in Nat
ASSUME ClientsAssumption  == Clients # {}

Parts == <<"button", "stick_l", "stick_r">>
NoFrame == "none"

\* ClientMessage, WorkerCommand, WorkerEvent
Messages == [type : {"gamepad_state"}, frame : Frames] \cup [type : {"get_link_keys", "bad"}]
Commands == [cmd : {"button", "stick_l", "stick_r"}, frame : Frames] \cup [cmd : {"get_link_keys"}]
Events   == [event : {"status"}, paired : BOOLEAN] \cup [event : {"link_keys", "error"}]

VARIABLES
    paired,         \* what the worker's next Status says
    proc,           \* the worker process, and whether it is still listed
    writer,         \* stdin_writer
    queue,          \* commands on their way to the worker
    applied,        \* what the worker was last told of each part
    open,           \* browsers that are connected
    inbox,          \* messages their handlers have not read
    handler,        \* where the handlers are
    out,            \* commands of the current message still to be sent
    sending,        \* what the browser is to take
    erx, lagged,    \* broadcast receivers
    view,           \* external: whether the browsers show it paired
    heard,          \* the last frame that was read from each browser
    owed            \* browsers that have LinkKeys to come

worker == <<paired, proc>>
input  == <<writer, queue, applied>>
client == <<open, inbox, heard, view>>
hvars  == <<handler, out, sending>>
event  == <<erx, lagged, owed>>
cwvars == <<worker, input, client, hvars, event>>

CWTypeOK ==
    /\ paired \in BOOLEAN
    /\ proc \in {"running", "exited", "unlisted"} /\ writer \in {"up", "down"}
    /\ queue \in Seq(Commands)
    /\ applied \in [DOMAIN Parts -> Frames \cup {NoFrame}]
    /\ open \subseteq Clients
    /\ inbox \in [Clients -> Seq(Messages)]
    /\ handler \in [Clients -> {"no", "select", "dispatch", "sending"}]
    /\ out \in [Clients -> Seq(Commands)]
    /\ \A c \in Clients : out[c] # <<>> <=> handler[c] = "dispatch"
    /\ erx \in [Clients -> Seq(Events)] /\ \A c \in Clients : Len(erx[c]) <= Capacity
    /\ lagged \in [Clients -> BOOLEAN]

CWInit ==
    /\ paired = FALSE
    /\ proc = "running" /\ writer = "up"
    /\ queue = <<>>
    /\ applied = [p \in DOMAIN Parts |-> NoFrame]
    /\ open = {}
    /\ inbox = [c \in Clients |-> <<>>]
    /\ handler = [c \in Clients |-> "no"]
    /\ out = [c \in Clients |-> <<>>]
    /\ sending = [c \in Clients |-> <<>>]
    /\ erx = [c \in Clients |-> <<>>]
    /\ lagged = [c \in Clients |-> FALSE]
    /\ view = [c \in Clients |-> FALSE]
    /\ heard = [c \in Clients |-> NoFrame]
    /\ owed = {}

Alive == {c \in Clients : handler[c] # "no"}

-----------------------------------------------------------------------------
(* The browser.                                                            *)

\* ws_handler finds the controller, and the handler subscribes.
Connect(c) ==
    /\ proc # "unlisted"
    /\ c \notin open /\ handler[c] = "no"
    /\ open' = open \cup {c}
    /\ handler' = [handler EXCEPT ![c] = "select"]
    /\ erx' = [erx EXCEPT ![c] = <<>>]
    /\ lagged' = [lagged EXCEPT ![c] = FALSE]
    /\ view' = [view EXCEPT ![c] = FALSE]
    /\ owed' = owed \ {c}
    /\ UNCHANGED <<worker, input, inbox, heard, out, sending>>

InFlight(c) == Len(queue) + Len(out[c]) + 3 * Len(inbox[c])

BrowserSends(c, m) ==
    /\ c \in open
    /\ 3 + InFlight(c) <= MaxInFlight
    /\ inbox' = [inbox EXCEPT ![c] = Append(@, m)]
    /\ UNCHANGED <<worker, input, open, heard, view, hvars, event>>

\* What was sent before is still read.
BrowserLeaves(c) ==
    /\ c \in open
    /\ open' = open \ {c}
    /\ UNCHANGED <<worker, input, inbox, heard, view, hvars, event>>

-----------------------------------------------------------------------------
(* The handler.                                                            *)

\* One message may become several commands.
MutCommandsOf(m) ==                     \* only the buttons
    CASE m.type = "gamepad_state" -> <<[cmd |-> "button", frame |-> m.frame]>>
      [] m.type = "get_link_keys" -> <<[cmd |-> "get_link_keys"]>>

CommandsOf(m) ==
    CASE m.type = "gamepad_state" -> [p \in DOMAIN Parts |-> [cmd |-> Parts[p], frame |-> m.frame]]
      [] m.type = "get_link_keys" -> <<[cmd |-> "get_link_keys"]>>

RecvMessage(c) ==
    /\ handler[c] = "select"
    /\ inbox[c] # <<>>
    /\ inbox' = [inbox EXCEPT ![c] = Tail(@)]
    /\ LET m == Head(inbox[c])
       IN  IF m.type = "bad"
             THEN /\ handler' = [handler EXCEPT ![c] = "sending"]
                  /\ sending' = [sending EXCEPT ![c] = <<[event |-> "error"]>>]
                  /\ UNCHANGED <<out, heard>>
             ELSE /\ handler' = [handler EXCEPT ![c] = "dispatch"]
                  /\ out' = [out EXCEPT ![c] = CommandsOf(m)]
                  /\ heard' = IF m.type = "gamepad_state" THEN [heard EXCEPT ![c] = m.frame] ELSE heard
                  /\ UNCHANGED sending
    /\ UNCHANGED <<worker, input, open, view, event>>

\* ControllerHandle::send, whose failure is ignored.
SendCommand(c) ==
    /\ handler[c] = "dispatch"
    /\ out' = [out EXCEPT ![c] = Tail(@)]
    /\ handler' = [handler EXCEPT ![c] = IF Len(out[c]) = 1 THEN "select" ELSE @]
    /\ queue' = IF writer = "up" THEN Append(queue, Head(out[c])) ELSE queue
    /\ UNCHANGED <<worker, writer, applied, client, sending, event>>

\* worker_event_to_server_msg
MutForwarded == {"status", "rumble", "error"}
Forwarded    == {"status", "rumble", "error", "link_keys"}

RecvEvent(c) ==
    /\ handler[c] = "select"
    /\ ~lagged[c] /\ erx[c] # <<>>
    /\ erx' = [erx EXCEPT ![c] = Tail(@)]
    /\ IF Head(erx[c]).event \in Forwarded
         THEN /\ handler' = [handler EXCEPT ![c] = "sending"]
              /\ sending' = [sending EXCEPT ![c] = <<Head(erx[c])>>]
         ELSE UNCHANGED <<handler, sending>>
    /\ UNCHANGED <<worker, input, client, out, lagged, owed>>

MutRecvLagged(c) ==                     \* the handler gives up
    /\ handler[c] = "select"
    /\ lagged[c]
    /\ lagged' = [lagged EXCEPT ![c] = FALSE]
    /\ handler' = [handler EXCEPT ![c] = "no"]
    /\ UNCHANGED <<worker, input, client, out, sending, erx, owed>>

\* The Lagged arm only warns.
RecvLagged(c) ==
    /\ handler[c] = "select"
    /\ lagged[c]
    /\ lagged' = [lagged EXCEPT ![c] = FALSE]
    /\ UNCHANGED <<worker, input, client, hvars, erx, owed>>

\* ws_tx.send() returns: the browser has taken the event ...
Sent(c) ==
    /\ handler[c] = "sending"
    /\ c \in open
    /\ LET e == Head(sending[c])
       IN  /\ view' = IF e.event = "status" THEN [view EXCEPT ![c] = e.paired] ELSE view
           /\ owed' = IF e.event = "link_keys" THEN owed \ {c} ELSE owed
    /\ sending' = [sending EXCEPT ![c] = <<>>]
    /\ handler' = [handler EXCEPT ![c] = "select"]
    /\ UNCHANGED <<worker, input, open, inbox, heard, out, erx, lagged>>

\* ... or has gone, which ends the handler unless it was answering.
Ends(c) ==
    /\ handler' = [handler EXCEPT ![c] = "no"]
    /\ inbox' = [inbox EXCEPT ![c] = <<>>]
    /\ UNCHANGED <<worker, input, open, heard, view, out, event>>

SendFails(c) ==
    /\ handler[c] = "sending" /\ c \notin open
    /\ sending' = [sending EXCEPT ![c] = <<>>]
    /\ \/ /\ sending[c] # <<[event |-> "error"]>>
          /\ Ends(c)
       \/ /\ sending[c] = <<[event |-> "error"]>>
          /\ handler' = [handler EXCEPT ![c] = "select"]
          /\ UNCHANGED <<worker, input, client, out, event>>

\* Close, or the end of the stream.
MutRecvClose(c) == FALSE                \* no arm for it
RecvClose(c) ==
    /\ handler[c] = "select"
    /\ c \notin open /\ inbox[c] = <<>>
    /\ Ends(c)
    /\ UNCHANGED sending

Handler(c) ==
    \/ RecvMessage(c) \/ SendCommand(c) \/ RecvEvent(c) \/ RecvLagged(c)
    \/ Sent(c) \/ SendFails(c) \/ RecvClose(c)

-----------------------------------------------------------------------------
(* The worker and the tasks at its pipes.                                  *)

MutBroadcast(e) ==                      \* nothing is dropped
    /\ erx' = [c \in Clients |-> IF c \in Alive THEN Append(erx[c], e) ELSE erx[c]]
    /\ owed' = IF e.event = "link_keys" THEN owed \cup Alive ELSE owed
    /\ UNCHANGED lagged

\* stdout_reader passes an event on to every handler; a full channel drops
\* its oldest.
Broadcast(e) ==
    LET full == {c \in Alive : Len(erx[c]) = Capacity}
    IN  /\ erx' = [c \in Clients |-> IF c \notin Alive THEN erx[c]
                                     ELSE Append(IF c \in full THEN Tail(erx[c]) ELSE erx[c], e)]
        /\ lagged' = [c \in Clients |-> lagged[c] \/ c \in full]
        /\ owed' = IF e.event = "link_keys" THEN owed \cup Alive
                   ELSE owed \ {c \in full : Head(erx[c]).event = "link_keys"}

\* Every 100 ms.
StatusTick ==
    /\ proc = "running"
    /\ Broadcast([event |-> "status", paired |-> paired])
    /\ UNCHANGED <<worker, input, client, hvars>>

PairedChanges ==
    /\ proc = "running"
    /\ paired' = ~paired
    /\ UNCHANGED <<proc, input, client, hvars, event>>

\* The worker sends its link keys when it has paired.
NewKeys ==
    /\ proc = "running" /\ paired
    /\ Broadcast([event |-> "link_keys"])
    /\ UNCHANGED <<worker, input, client, hvars>>

TakeCommand ==
    /\ proc = "running"
    /\ queue # <<>>
    /\ queue' = Tail(queue)
    /\ LET k == Head(queue)
       IN  IF k.cmd = "get_link_keys"
             THEN Broadcast([event |-> "link_keys"]) /\ UNCHANGED applied
             ELSE /\ applied' = [p \in DOMAIN Parts |-> IF Parts[p] = k.cmd THEN k.frame ELSE applied[p]]
                  /\ UNCHANGED event
    /\ UNCHANGED <<worker, writer, client, hvars>>

WorkerExits ==
    /\ proc = "running"
    /\ proc' = "exited"
    /\ UNCHANGED <<paired, input, client, hvars, event>>

WatcherRemoves ==
    /\ proc = "exited"
    /\ proc' = "unlisted"
    /\ UNCHANGED <<paired, input, client, hvars, event>>

\* The writer notices when it writes, and takes the channel with it.
WriteFails ==
    /\ proc # "running" /\ writer = "up"
    /\ queue # <<>>
    /\ writer' = "down"
    /\ queue' = <<>>
    /\ UNCHANGED <<worker, applied, client, hvars, event>>

-----------------------------------------------------------------------------
CWNext ==
    \/ \E c \in Clients : \/ Connect(c) \/ BrowserLeaves(c) \/ Handler(c)
                          \/ \E m \in Messages : BrowserSends(c, m)
    \/ StatusTick \/ PairedChanges \/ NewKeys \/ TakeCommand \/ WorkerExits \/ WatcherRemoves \/ WriteFails

\* The handlers run, connected browsers take what they are sent, and a
\* running worker sends its status.  select! picks one of the branches that
\* are ready at random, hence strong fairness.
CWSpec ==
    /\ CWInit /\ [][CWNext]_cwvars
    /\ WF_cwvars(StatusTick)
    /\ \A c \in Clients : /\ WF_cwvars(Handler(c))
                          /\ SF_cwvars(RecvMessage(c)) /\ SF_cwvars(RecvClose(c))
                          /\ SF_cwvars(RecvEvent(c)) /\ SF_cwvars(RecvLagged(c))

-----------------------------------------------------------------------------
(* Properties.                                                             *)

\* Link keys that were announced to a browser are on their way until it has
\* them, whether they came while it was sent something else or between the
\* commands of a frame, unless they were the oldest event of a full channel.
KeysLostOnlyByLag ==
    \A c \in open \cap owed :
        \E e \in {erx[c][n] : n \in DOMAIN erx[c]} \cup {sending[c][n] : n \in DOMAIN sending[c]} :
            e.event = "link_keys"

\* When no command is on its way, the worker holds of each part what was
\* last read from some browser: no older frame overtakes a newer one of the
\* same browser, and none is applied in part, also if its browser leaves
\* meanwhile.
QuietHoldsLast ==
    (/\ proc = "running" /\ queue = <<>>
     /\ \A c \in Clients : out[c] = <<>>) =>
        \A p \in DOMAIN Parts : \E c \in Clients : applied[p] = heard[c]

\* Only browsers hang up: lag, messages that cannot be parsed and the end
\* of the controller never end a connection.
OnlyBrowsersHangUp ==
    [][\A c \in open : handler[c] # "no" => handler'[c] # "no"]_cwvars

\* A browser comes to show whether its controller is paired, whatever was
\* dropped while its handler was busy, once the link keys leave room.
StatusRepaired ==
    <>[][/\ UNCHANGED <<paired, open, proc>>
         /\ \A c \in Clients : erx'[c] # <<>> => erx'[c][Len(erx'[c])].event = "status"]_<<paired, open, proc, erx>> =>
        <>[](proc = "running" => \A c \in open : view[c] = paired)

\* The handler of a browser that has gone ends, also when the worker has
\* gone before and no event will ever fail to be sent.
HandlersEnd == \A c \in Clients : []<>(c \in open \/ handler[c] = "no")
=============================================================================

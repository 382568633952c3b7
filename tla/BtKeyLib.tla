------------------------------ MODULE BtKeyLib ------------------------------
(***************************************************************************)
(* The Bluetooth side of a worker: src/csrc/btkeyLib.c on top of           *)
(* src/csrc/btstack_platform.c.                                            *)
(*                                                                         *)
(* One thread runs the BTStack run loop; its handlers are the actions of   *)
(* this module, each one atomic.  Other threads hand it requests           *)
(* (how a call gets that far is the subject of MainThreadCalls and Worker; *)
(* here a request enters the list, which does not hold one twice), import  *)
(* link keys and trigger the shutdown.                                     *)
(*                                                                         *)
(* BTStack itself, the dongle and the console are outside the repository.  *)
(* They are modelled by hci (the state of the HCI layer) and chan (the HID *)
(* channel to the console) and by what btkeyLib.c relies on:               *)
(*   - powering off a WORKING stack goes through HALTING, and the OFF      *)
(*     event comes after every channel was closed; powering off a stack    *)
(*     that is OFF or INITIALIZING delivers the OFF event at once          *)
(*     (btkeyLib.c 470-480);                                               *)
(*   - events of a channel are delivered in order: OPENED, then reports    *)
(*     and CAN_SEND_NOW, then CLOSED, also while HALTING;                  *)
(*   - gap_delete_all_link_keys works on the data base that was given to   *)
(*     hci_set_link_key_db, which happens at the first WORKING             *)
(*     (btstack_platform.c 123).                                           *)
(***************************************************************************)
EXTENDS Naturals, Sequences, PairingProtocol

CONSTANTS
    Peers,          \* consoles, by Bluetooth address
    NoPeer,         \* reconnect_target_addr before it is first written
    Leds,           \* player LED patterns the console may send
    ReportIds,      \* 1: subcommand report, 16: rumble-only report
    Subs,           \* subcommands the console may send
    UsbMayFail,     \* may powering on fail because the dongle cannot be opened?
    ConnectMayFail, \* may hid_device_connect refuse to begin a connection?
    MayShutdown     \* may the worker be told to shut down?

ASSUME PeersAssumption     == NoPeer \notin Peers
ASSUME LedsAssumption      == Leds \subseteq 0..15
ASSUME ReportIdsAssumption == ReportIds \subseteq {1, 16}
ASSUME SubsAssumption      == Subs \subseteq Subcommands
ASSUME FlagsAssumption     == {UsbMayFail, ConnectMayFail, MayShutdown} \subseteq BOOLEAN

VARIABLES
    paired,                 \* what gamepad_paired() returns
    hid_cid,                \* 0, or 1 for the id of the channel
    pairing_state,
    packet_amiibo_flag,
    player_leds,
    rumble_flag,
    pending_power_on,
    pending_active_connect,
    reconnect_target_addr,
    shutdown_triggered,
    runQueue,               \* requests handed to the run loop
    hci,                    \* external: state of the HCI layer
    chan,                   \* external: the HID channel
    closing,                \* external: BTStack was asked to close the channel
    canSend,                \* external: a CAN_SEND_NOW event was requested
    linkKeys,               \* external: consoles with a key in the data base
    keyDbSet                \* external: HCI knows the data base

link  == <<paired, hid_cid, pairing_state>>
power == <<hci, pending_power_on, pending_active_connect, shutdown_triggered>>
seen  == <<packet_amiibo_flag, player_leds, rumble_flag>>
keys  == <<linkKeys, keyDbSet, reconnect_target_addr>>
chann == <<chan, closing, canSend>>
vars  == <<link, power, seen, keys, runQueue, chann>>

Requests == {"reconnect", "sync", "disconnect"}
HciStates == {"OFF", "INITIALIZING", "WORKING", "HALTING"}
Channels == {"closed", "connecting", "open"}

TypeOK ==
    /\ paired \in BOOLEAN
    /\ hid_cid \in {0, 1}
    /\ pairing_state \in PairingStates
    /\ packet_amiibo_flag \in BOOLEAN
    /\ player_leds \in 0..15
    /\ rumble_flag \in BOOLEAN
    /\ pending_power_on \in BOOLEAN
    /\ pending_active_connect \in BOOLEAN
    /\ reconnect_target_addr \in Peers \cup {NoPeer}
    /\ shutdown_triggered \in BOOLEAN
    /\ runQueue \in Seq(Requests)
    /\ hci \in HciStates
    /\ chan \in Channels
    /\ closing \in BOOLEAN
    /\ canSend \in BOOLEAN
    /\ linkKeys \subseteq Peers
    /\ keyDbSet \in BOOLEAN

-----------------------------------------------------------------------------
(* HCI power.  Operators that say what the next values of hci and          *)
(* pending_power_on are.                                                   *)

\* hci_power_control(HCI_POWER_ON) on a stack that is OFF.
PowerOnResults == {"INITIALIZING"} \cup (IF UsbMayFail THEN {"OFF"} ELSE {})

\* The OFF event: a pending cycle powers on again.
MutOffEvent(pending) == pending_power_on' = FALSE /\ hci' = "OFF"

OffEvent(pending) ==
    IF pending THEN /\ pending_power_on' = FALSE
                    /\ hci' \in PowerOnResults
               ELSE /\ pending_power_on' = FALSE
                    /\ hci' = "OFF"

\* hci_power_control(HCI_POWER_OFF) while pending_power_on is <pending>.
PowerOff(pending) ==
    IF hci \in {"WORKING", "HALTING"}
      THEN hci' = "HALTING" /\ pending_power_on' = pending
      ELSE OffEvent(pending)

\* hci_power_cycle sets the flag first, because the OFF event may be
\* delivered inside the call.
MutPowerCycle ==        \* the flag is set after the call
    /\ pending_power_on' = TRUE
    /\ hci' = IF hci \in {"WORKING", "HALTING"} THEN "HALTING" ELSE "OFF"
hci_power_cycle == PowerOff(TRUE)

-----------------------------------------------------------------------------
(* Start: btstack_platform_run and btstack_main power the stack on.        *)

Init ==
    /\ paired = FALSE
    /\ hid_cid = 0
    /\ pairing_state = 0
    /\ packet_amiibo_flag = FALSE
    /\ player_leds = 0
    /\ rumble_flag = FALSE
    /\ pending_power_on = FALSE
    /\ pending_active_connect = FALSE
    /\ reconnect_target_addr = NoPeer
    /\ shutdown_triggered = FALSE
    /\ runQueue = <<>>
    /\ hci \in PowerOnResults
    /\ chan = "closed"
    /\ closing = FALSE
    /\ canSend = FALSE
    /\ linkKeys \in SUBSET Peers
    /\ keyDbSet = FALSE

-----------------------------------------------------------------------------
(* Calls made by other threads.                                            *)

QueuedRequest(k) == \E i \in 1..Len(runQueue) : runQueue[i] = k

\* The last statement of reconnect_gamepad, sync_gamepad, disconnect_gamepad:
\* the registration is put into the list, unless it is there already.
Request(k) ==
    /\ ~QueuedRequest(k)
    /\ runQueue' = Append(runQueue, k)
    /\ UNCHANGED <<link, power, seen, keys, chann>>

import_link_keys(ps) ==
    /\ linkKeys' = linkKeys \cup ps
    /\ UNCHANGED <<link, power, seen, keyDbSet, reconnect_target_addr, runQueue, chann>>

\* The keys other threads get to see; the caller's buffer holds 16.
export_link_keys == linkKeys

\* trigger_shutdown runs on the calling thread.
trigger_shutdown ==
    /\ MayShutdown
    /\ shutdown_triggered' = TRUE
    /\ PowerOff(pending_power_on)
    /\ UNCHANGED <<link, pending_active_connect, seen, keys, runQueue, chann>>

-----------------------------------------------------------------------------
(* Requests executed by the run loop.                                      *)

TakeRequest(k) ==
    /\ runQueue # <<>>
    /\ Head(runQueue) = k
    /\ runQueue' = Tail(runQueue)

ForgetConnection ==
    /\ paired' = FALSE
    /\ hid_cid' = 0
    /\ pairing_state' = 0

\* The iterator returns some entry of the data base first.
do_reconnect_on_main ==
    /\ TakeRequest("reconnect")
    /\ IF linkKeys # {}
         THEN reconnect_target_addr' \in linkKeys /\ pending_active_connect' = TRUE
         ELSE UNCHANGED reconnect_target_addr /\ pending_active_connect' = FALSE
    /\ ForgetConnection
    /\ hci_power_cycle
    /\ UNCHANGED <<shutdown_triggered, seen, linkKeys, keyDbSet, chann>>

\* gap_delete_all_link_keys
gap_delete_all_link_keys == linkKeys' = IF keyDbSet THEN {} ELSE linkKeys

do_sync_on_main ==
    /\ TakeRequest("sync")
    /\ ForgetConnection
    /\ gap_delete_all_link_keys
    /\ hci_power_cycle
    /\ UNCHANGED <<pending_active_connect, shutdown_triggered, seen,
                   keyDbSet, reconnect_target_addr, chann>>

\* hid_device_disconnect asks BTStack to close the channel; the CLOSED
\* event follows.  With hid_cid = 0 nothing is asked.
MutDisconnect ==
    /\ TakeRequest("disconnect")
    /\ UNCHANGED <<link, power, seen, keys, chann>>

do_disconnect_on_main ==
    /\ TakeRequest("disconnect")
    /\ closing' = (closing \/ hid_cid # 0)
    /\ UNCHANGED <<link, power, seen, keys, chan, canSend>>

-----------------------------------------------------------------------------
(* Events of the HCI layer.                                                *)

\* hid_device_connect(reconnect_target_addr): the channel has an id from the
\* beginning, or there is none.
hid_device_connect ==
    \/ chan' = "connecting" /\ hid_cid' = 1
    \/ ConnectMayFail /\ UNCHANGED <<chan, hid_cid>>

\* BTSTACK_EVENT_STATE, WORKING: the data base is registered, and a
\* pending active connect is started.
MutHciWorking ==        \* the flag is reset before it is tested
    /\ hci = "INITIALIZING"
    /\ hci' = "WORKING"
    /\ keyDbSet' = TRUE
    /\ pending_active_connect' = FALSE
    /\ UNCHANGED <<chan, hid_cid, paired, pairing_state, pending_power_on,
                   shutdown_triggered, seen, linkKeys, reconnect_target_addr, runQueue,
                   closing, canSend>>

HciWorking ==
    /\ hci = "INITIALIZING"
    /\ hci' = "WORKING"
    /\ keyDbSet' = TRUE
    /\ pending_active_connect' = FALSE
    /\ IF pending_active_connect THEN hid_device_connect ELSE UNCHANGED <<chan, hid_cid>>
    /\ UNCHANGED <<paired, pairing_state, pending_power_on, shutdown_triggered, seen,
                   linkKeys, reconnect_target_addr, runQueue, closing, canSend>>

\* BTSTACK_EVENT_STATE, OFF, at the end of HALTING.
HciOff ==
    /\ hci = "HALTING"
    /\ chan = "closed"
    /\ OffEvent(pending_power_on)
    /\ UNCHANGED <<link, pending_active_connect, shutdown_triggered, seen, keys,
                   runQueue, chann>>

\* HCI_EVENT_LINK_KEY_NOTIFICATION: a console has paired, also on a link
\* that is about to be closed.
LinkKeyNotification(p) ==
    /\ hci \in {"WORKING", "HALTING"}
    /\ linkKeys' = linkKeys \cup {p}
    /\ reconnect_target_addr' = p
    /\ UNCHANGED <<link, power, seen, keyDbSet, runQueue, chann>>

-----------------------------------------------------------------------------
(* Events of the HID channel.                                              *)

LinkUp == hci \in {"WORKING", "HALTING"}

\* A console connects to the discoverable controller.
IncomingConnection ==
    /\ hci = "WORKING"
    /\ chan = "closed"
    /\ chan' = "connecting"
    /\ UNCHANGED <<link, power, seen, keys, runQueue, closing, canSend>>

\* HID_SUBEVENT_CONNECTION_OPENED, status 0.
MutOpened ==
    /\ LinkUp
    /\ chan = "connecting"
    /\ chan' = "open"
    /\ hid_cid' = 1
    /\ canSend' = TRUE
    /\ UNCHANGED <<paired, pairing_state, power, seen, keys, runQueue, closing>>

Opened ==
    /\ LinkUp
    /\ chan = "connecting"
    /\ chan' = "open"
    /\ hid_cid' = 1
    /\ paired' = TRUE
    /\ canSend' = TRUE
    /\ UNCHANGED <<pairing_state, power, seen, keys, runQueue, closing>>

\* HID_SUBEVENT_CONNECTION_OPENED, status 0x05, 0x06 or 0x0E.
OpenFailedAuth ==
    /\ LinkUp
    /\ chan = "connecting"
    /\ chan' = "closed"
    /\ closing' = FALSE
    /\ gap_delete_all_link_keys
    /\ ForgetConnection
    /\ pending_active_connect' = FALSE
    /\ hci_power_cycle
    /\ UNCHANGED <<shutdown_triggered, seen, keyDbSet, reconnect_target_addr, runQueue, canSend>>

\* HID_SUBEVENT_CONNECTION_OPENED, any other status, among them 0x6A.
OpenRejected ==
    /\ LinkUp
    /\ chan = "connecting"
    /\ chan' = "closed"
    /\ closing' = FALSE
    /\ hid_cid' = 0
    /\ UNCHANGED <<paired, pairing_state, power, seen, keys, runQueue, canSend>>

\* HID_SUBEVENT_CONNECTION_CLOSED
MutClosed ==
    /\ LinkUp
    /\ chan = "open"
    /\ chan' = "closed"
    /\ hid_cid' = 0
    /\ paired' = FALSE
    /\ closing' = FALSE
    /\ canSend' = FALSE
    /\ UNCHANGED <<pairing_state, power, seen, keys, runQueue>>

Closed ==
    /\ LinkUp
    /\ chan = "open"
    /\ chan' = "closed"
    /\ ForgetConnection
    /\ closing' = FALSE
    /\ canSend' = FALSE
    /\ UNCHANGED <<power, seen, keys, runQueue>>

\* hid_device_request_can_send_now_event(hid_cid): an id BTStack does not
\* know is ignored.
RequestCanSend(pending) == canSend' = (pending \/ hid_cid # 0)

\* What the handler looks at in an output report.  A rumble-only report ends
\* before the bytes the subcommand is read from, so any subcommand may be
\* found there.
Reports ==
    {r \in [id : ReportIds, sub : Subs, leds : Leds \cup {0}, rumbles : BOOLEAN] :
        /\ r.sub # "lights" => r.leds = 0
        /\ r.id = 1 => ~r.rumbles}

hid_report_data_callback(r) ==
    /\ LinkUp
    /\ chan = "open"
    /\ pairing_state' = AfterReport(r.sub, pairing_state, paired, packet_amiibo_flag)
    /\ packet_amiibo_flag' = AmiiboAfterReport(r.sub, pairing_state, packet_amiibo_flag)
    /\ player_leds' = IF r.sub = "lights" THEN r.leds ELSE player_leds
    /\ rumble_flag' = IF r.id = 16 THEN r.rumbles ELSE rumble_flag
    /\ RequestCanSend(canSend)
    /\ UNCHANGED <<paired, hid_cid, power, keys, runQueue, chan, closing>>

\* HID_SUBEVENT_CAN_SEND_NOW: send the packet of pairing_state.
MutCanSendNow ==
    /\ LinkUp
    /\ chan = "open"
    /\ canSend
    /\ pairing_state' = AfterSend(pairing_state, paired)
    /\ paired' = PairedAfterSend(pairing_state, paired)
    /\ canSend' = (pairing_state # 0 /\ hid_cid # 0)
    /\ UNCHANGED <<hid_cid, power, seen, keys, runQueue, chan, closing>>

CanSendNow ==
    /\ LinkUp
    /\ chan = "open"
    /\ canSend
    /\ pairing_state' = AfterSend(pairing_state, paired)
    /\ paired' = PairedAfterSend(pairing_state, paired)
    /\ RequestCanSend(FALSE)
    /\ UNCHANGED <<hid_cid, power, seen, keys, runQueue, chan, closing>>

-----------------------------------------------------------------------------
RunRequest == do_reconnect_on_main \/ do_sync_on_main \/ do_disconnect_on_main

OpeningEnds == Opened \/ OpenFailedAuth \/ OpenRejected

\* The channel is closed on request and by the HALTING stack; otherwise it
\* closes when the console wishes.
CloseRequested == (closing \/ hci = "HALTING") /\ Closed

\* Events of the dongle and the consoles, handled on the BTStack thread.
BtEvent ==
    \/ HciWorking
    \/ HciOff
    \/ \E p \in Peers : LinkKeyNotification(p)
    \/ IncomingConnection
    \/ OpeningEnds
    \/ Closed
    \/ \E r \in Reports : hid_report_data_callback(r)
    \/ CanSendNow

BtStep == RunRequest \/ BtEvent

\* Steps of the threads that use it.
CallerStep ==
    \/ \E k \in Requests : Request(k)
    \/ \E ps \in SUBSET Peers : import_link_keys(ps)
    \/ trigger_shutdown

Next == BtStep \/ CallerStep

\* The run loop serves its list and its event sources; BTStack finishes
\* powering up and down, ends every connection attempt and closes the
\* channel when asked.  Consoles and callers promise nothing.
Fairness ==
    /\ WF_vars(RunRequest)
    /\ WF_vars(HciWorking)
    /\ WF_vars(HciOff)
    /\ WF_vars(OpeningEnds)
    /\ WF_vars(CloseRequested)
    /\ WF_vars(CanSendNow)

SafeSpec == Init /\ [][Next]_vars
Spec == SafeSpec /\ Fairness

-----------------------------------------------------------------------------
(* Safety.                                                                 *)

\* While the HCI is up, gamepad_paired() tells exactly whether the HID
\* channel is established (btstack.rs 129: true once the console has
\* established the HID connection).
PairedExact == hci = "WORKING" => (paired <=> chan = "open")

\* Nothing of a connection outlives it: without an open channel the
\* controller is not paired and its handshake starts from state 0, and
\* without a channel it has no channel id.
ClosedIsClean ==
    /\ chan # "open" => ~paired /\ pairing_state = 0
    /\ chan = "closed" => hid_cid = 0

\* The send loop never dies: on an open channel of a WORKING stack there
\* is a channel id and a CAN_SEND_NOW event on its way (each one asks for
\* the next, btkeyLib.c 1457 and 1632).
SendLoopAlive == (hci = "WORKING" /\ chan = "open") => hid_cid # 0 /\ canSend

\* A power cycle that waits for the OFF event is waiting for one that will
\* come (btkeyLib.c 470-480).
CyclePendingOnlyHalting == pending_power_on => hci = "HALTING"

-----------------------------------------------------------------------------
(* Liveness.                                                               *)

\* A power cycle ends with a WORKING stack, unless the worker is shut down
\* or the dongle cannot be opened.
PowerCycleCompletes == pending_power_on ~> hci = "WORKING"

\* A connection that the controller itself begins: the channel of a console
\* that connects has no id before it is open.
ConnectBegun == chan = "connecting" /\ hid_cid # 0

\* A reconnect that found a key ends in a connection attempt, whatever else
\* is requested meanwhile, unless the keys are deleted first by a sync or by
\* a failed authentication (btkeyLib.c 1411-1423, 1432-1445).
ActiveConnectAttempted == pending_active_connect ~> ConnectBegun \/ linkKeys = {}

\* A disconnect request on an open channel closes it.
DisconnectServed == (QueuedRequest("disconnect") /\ chan = "open") ~> chan # "open"

\* A reply that ends a dialogue gives way to the input reports: on an open
\* channel the controller does not get stuck repeating it, whatever the
\* console sends meanwhile (btkeyLib.c 1605-1623).
InputResumes ==
    (paired /\ chan = "open" /\ pairing_state \notin InputStates \cup UntilNext)
        ~> pairing_state \in InputStates \cup UntilNext \/ chan # "open"

-----------------------------------------------------------------------------
(* What docs and comments say and the code does not do.                    *)

\* README.md 72-75: a reconnect connects to a console of the link key data
\* base.
ActiveConnectHasKey ==
    [][(HciWorking /\ chan' = "connecting") => reconnect_target_addr \in linkKeys]_vars
=============================================================================

# switch-bt-ws in TLA+

switch-bt-ws lets a browser act as a Nintendo Switch Pro Controller. A server
process speaks HTTP and WebSocket to browsers and starts one worker process
per controller; a worker drives one Bluetooth dongle through BTStack, a C
library, and speaks to its console.

    browser --ws--> server: global_ws.rs, ws_server.rs, api.rs
                      |  controller.rs (registry, tasks, broadcast)
                      |  JSON lines over stdin / stdout
                    worker: worker.rs (main thread, status thread, sync loops)
                      |  extern "C" calls, no lock (btstack.rs)
                    BTStack thread: btkeyLib.c, btstack_platform.c  <--BT--> console

Line numbers below are those of the repository: `btkeyLib.c` and
`btstack_platform.c` are in `csrc/`, the `.rs` files in `src/`.

## 1. The system's parts

For each part: its state, its operations, what makes it hard, and what makes
it correct.

**Hand-over to the BTStack thread** (btkeyLib.c 467-468, 547-644). Three
registration objects whose `callback` field doubles as "already on its way".
Operations: `reconnect_gamepad`, `sync_gamepad`, `disconnect_gamepad` on any
thread, `do_..._on_main` on the BTStack thread. Hard: test, set and reset are
separate statements without a lock. Correct: NULL is never called, the field
is exact, a request can always be repeated, no request is lost.

**Subcommand protocol** (btkeyLib.c 1063-1324, 1470-1637). `pairing_state`,
`paired`, `packet_amiibo_flag`. Operations: a report from the console moves
`pairing_state`; sending a packet moves it on. Hard: one variable for requests
and answers, some answers repeat themselves. Correct: answers give way to input.

**Bluetooth core** (btkeyLib.c 540-644, 1331-1637; btstack_platform.c).
`hid_cid`, `pending_power_on`, `pending_active_connect`,
`reconnect_target_addr`, the link key data base, the shutdown flag.
Operations: the three requests, key import, shutdown, and the events of HCI
and of the HID channel. Hard: a power cycle spans events, during which
consoles connect, channels close and more requests come; the OFF event may be
delivered inside the call that asks for it; connecting fails in many ways.
Correct: the flags agree with the stack, the send loop never dies, cycles end.

**Worker** (worker.rs). The flag `syncing`, the sync-loop threads and their
ticks, the status thread's `prev_paired` and `link_keys_sent`. Operations: the
commands on stdin, the turns of the threads, shutdown. Hard: everything is
read and written by several threads that sleep in between. Correct: a pairing
ends when it succeeds or is cancelled, a new one can always start, link keys
reach the server.

**Controller registry** (controller.rs). `next_id`, the map of handles, a
`ControllerState` per controller, the broadcast channels. Operations: `add`,
`remove`, `list`; the tasks stdin writer, stdout reader and watcher; a worker
may end at any time. Hard: the watcher starts before the handle is inserted;
removal is a message. Correct: no running worker is unreachable, removed ones
leave.

**Global WebSocket** (global_ws.rs). Per browser a broadcast receiver and a
3 s timer. Operations: snapshot, forward a change, catch up after lagging.
Hard: snapshots and changes overtake each other, the channel drops changes.
Correct: the browser comes to show the registry.

**Per-controller WebSocket** (ws_server.rs, protocol.rs). Per browser a
handler with a receiver of the controller's channel; commands of all browsers
go through one channel and the stdin writer. Operations: forward an event,
turn a message into commands, warn of lag, end. Hard: while a handler waits
for its browser it reads nothing; a message becomes several commands; the
worker may end first. Correct: nothing but lag loses link keys, the worker
holds whole frames once it is quiet, handlers end with their browsers only.

**Gamepad mapping** (gamepad.rs) and **input report** (btkeyLib.c 408-410,
659-696, 800-918; worker.rs 148-150). Three words, written by the worker's
main thread and read byte by byte by the BTStack thread. Hard: clamping and
packing into 12 bits, axes that may be mapped already, torn reads, frames
stored in part. Correct: what nobody wrote to is exact, and the console comes
to see the pad as it is.

**Driver operations** (driver.rs) and the **device cache** (controller.rs
171-185). A script file that all requests share, the driver store of Windows,
the cached device list. Operations: install, restore, list, verify; the cache
is set by requests and by every handler of the global WebSocket. Hard:
requests overlap in the file, lists overlap in the cache, scripts are declined
or fail and nobody looks. Correct: no other dongle loses its driver, the cache
learns of every change, every request is answered.

**REST and entry point** (api.rs, main.rs) keep no state. **BTStack patches and
build**: see section 7.

`PROJECT.json` lists under `hazards` what in all this is hard to test, each
with the properties about it.

## 2. Modules

| module | models | state and actions |
|---|---|---|
| `RequestSlot` | what a hand-over promises | a slot per kind: free, pending, running |
| `MainThreadCalls` | the hand-over | one action per statement of the caller (`Post`, `Check`, `Register`, `Enqueue`) and of the run loop and handler (`Pop`, `Work`, `Clear`) |
| `PairingProtocol` | the subcommand protocol | functions `AfterReport`, `AfterSend` ... from state to state |
| `BtKeyLib` | the Bluetooth core | one action per request handler and per event; names of variables and functions are the code's |
| `Worker` | worker.rs around `BtKeyLib` | one action per access of a thread to shared state: `StatusIsPaired`, `LoopLooks`, `LoopWaits` ... read, `Ask`, `Register`, `Enqueue` are the three steps of a call into btkeyLib.c, `Dispatch` and `Clear` the two of its handler |
| `Registry` | what the registry promises | a state per id: new, listed, gone, or stray |
| `ControllerManager` | the registry and its tasks | one action per lock held or message sent |
| `GlobalWs` | a browser and its handler around `ControllerManager` | one action per arm of the handler's select, `list()` in steps |
| `ControllerWs` | the handlers of one controller, with its channels and its worker as their other end | one action per arm of the select and per await in it |
| `Gamepad` | gamepad.rs | functions of the same names over integers |
| `InputReport` | a frame from the browser to the console | `GamepadState` sends, `send_button` ... store, `ReadByte` and `SendReport` report |
| `DriverOps` | driver requests, the shared script, the device cache | one action per step of a request between two awaits; `InUse`, `AfterRestore` ... are the scripts |

`Worker` EXTENDS `BtKeyLib` and takes its actions as the steps of the BTStack
thread; `GlobalWs` EXTENDS `ControllerManager` in the same way, and
`InputReport` EXTENDS `Gamepad`. `MC...`
modules give the instances for TLC, `...Proofs` modules hold the proofs.
Operators named `Mut...` are slightly wrong versions of a definition, used to
see that the properties notice.

How the parts meet: `MainThreadCalls` shows that with one caller per kind the
hand-over is a set of one-place slots (`ImplementsSlots`). `BtKeyLib` is the
stack behind it: handlers are atomic, and a request is in the list at most once
(`Request` and the theorem `RequestsAreQueuedOnce`), whoever put it there.
`Worker` has the actual callers. `reconnect` and `disconnect` are called by the
main thread only (worker.rs 177, 240), `sync` by the main thread (181) and by
every loop (193, 220), without a lock. Its calls therefore test the field, set it
and hand over the registration in three steps, its handlers reset the field in a
step of their own, and a registration that is popped with a NULL field ends the
process (`NullCall`). `CallsAccounted` says what remains true however the calls
collide; the invariants of the stack are among it (`WorkerKeepsStackSafe`).
`InputReport` starts where `ControllerWs` ends: the latter shows that
whole frames come through whatever the handlers and the worker do
(`QuietHoldsLast`), the former follows one browser's frames to the console, and
that reports go on being sent is `SendLoopAlive`. `DevicesNotify` of
`ControllerManager` is what `RefreshSets` of `DriverOps` announces.
`ControllerManager` implements `Registry` (`ImplementsRegistry`): an id leaves
the list only after its worker has ended, and then does leave it, unless the
worker ended before the id was listed; that exception is the last run of
section 6.

What is external and how it is modelled, from the way src/ relies on it:
BTStack's run loop (a list without duplicates), its HCI layer (off,
initialising, working, halting; an OFF event inside the call if the stack is
not up), its HID channel (events in order; closing on request and when
halting), its key data base; tokio's broadcast channel (bounded, drops the
oldest, reports lag) and RwLock; the console and the browser (may do anything
at any time); Windows (a driver store, scripts that run or do not, dongles that
come and go).

Abstractions: time is left out, a thread that sleeps wakes up some time
later; link keys are the set of consoles that have one; the contents of
packets are left out, and the input state everywhere but in `InputReport`; a
status, and in `ControllerWs` a frame, is a model value; an f32 is an integer
multiple of 1/`Unit`.

## 3. Runs

| run | instance | shows |
|---|---|---|
| `calls_one` | two threads with disjoint kinds, three kinds | type; `NoNullCall`, `FieldMeansInFlight`, `CoalescedIsServed`, refinement of `RequestSlot` |
| `bt_safe` | one console, every subcommand, failing dongle, refused connections, shutdown | type; `PairedExact`, `ClosedIsClean`, `SendLoopAlive`, `CyclePendingOnlyHalting` |
| `bt_live` | subcommands for every kind of reply, both kinds of report, no shutdown, no failing dongle, no refused connection | `PowerCycleCompletes`, `ActiveConnectAttempted`, `DisconnectServed`, `InputResumes` |
| `worker_safe` | one loop, every command, shutdown and end of stdin, no link keys | type; `SyncingHasLoop`, `CallsAccounted` |
| `worker_live` | one loop, one console; start, stop, keys imported and asked for | `FirstKeyReachesServer`, `PairingEndsSync`, `LoopsStop` |
| `ws_live` | one controller, two statuses, a channel of two | types; `LiveIsListed`, `RemoveServed`, `QuietViewExact`, `ViewConverges`, refinement of `Registry` |
| `input` | a raw pad in a corner, half pressed, and a mapped one; frames overlap | type; `UntouchedIsExact`, `ConsoleConverges` |
| `cws` | one browser, two frames, a channel of one | type; `KeysLostOnlyByLag`, `QuietHoldsLast`, `OnlyBrowsersHangUp`, `StatusRepaired`, `HandlersEnd` |
| `devices` | two requests, two dongles, one with a driver of its vendor, one browser | type; `CacheCatchesUp`, `LostOnRequest`, `RequestsAnswered` |

The other three runs each show one of the disagreements of section 6.

Bounds, and why they are enough:

- *Consoles (1).* The code keeps one channel and treats addresses alike; the
  only choice between consoles is which key an iterator returns first, and
  `ActiveConnectHasKey` fails with one already.
- *Run loop list.* Not bounded by a constant: each kind is in it at most
  once, so three entries are the maximum (`RequestsAreQueuedOnce`).
- *Subcommands.* `bt_safe` has all of them. `bt_live` has one or more for
  each way a reply ends or is repeated, which is all `InputResumes` depends
  on; the liveness of power cycles does not depend on `pairing_state`.
- *Reports.* A rumble-only report is shorter than the bytes the subcommand is
  read from, so it may carry any; it is in `bt_live` (id 16).
- *Refused connections.* `hid_device_connect` may refuse to begin one
  (`ConnectMayFail`) in `bt_safe`; in `bt_live` it does not, because the code has
  no second attempt and `ActiveConnectAttempted` is about the first.
- *Link keys in the worker.* `worker_safe` has no console with a key
  (`Peers = {}`), which leaves room for every command: neither `SyncingHasLoop`
  nor `CallsAccounted` looks at keys, and without a key the retry of the loop is
  always taken, which is what makes calls collide. The keys are in `worker_live`.
- *Shutdown* is in `worker_safe` and not in `worker_live`, whose properties a
  process that ends meets trivially (`~Alive`).
- *Loops (1).* A pairing loop that was cancelled and has not noticed can be
  alive beside a new one; the runs do not have that. The theorems
  `SyncingIsNeverOrphaned`, `CallsAreAccounted` and `WorkerKeepsStackSafe` hold
  for any number of loops; the liveness properties are checked with one.
- *RetryTicks (1)* makes the retry possible at every turn but the first,
  the most frequent retry there is.
- *Controllers (1)*: they share only the channel and the lock, and the safety
  properties of the registry and of a browser's view are theorems for any
  number. *Pipe (1)* and *channel (1 or 2)*: full as early as possible, so
  that lagging happens.
- *Browsers on a controller (1)*: handlers share nothing but the queue of
  commands, and the safety properties are theorems for any number. *MaxInFlight (4)*: a frame is sent while a command of the one
  before is still on its way.
- *Pads (2)*: `MCPads` has a value beyond each end stop, one step off the
  middle, a missing axis, buttons on and just under the threshold, and mapped
  axes at both ends. *MaxQueue (5)*: a frame joins two commands of the one
  before.
- *Driver requests (2)* is the least that can disturb each other; *dongles (2)*
  of different kinds, one with a package of its vendor; *MaxPolls (2)*.

Deadlock is checked where the system cannot stop. It is off in
`Worker_safe.cfg` (the process ends) and in `ControllerWs.cfg` (when the
controller is gone no browser can connect any more, and nothing is left to do).

## 4. Fairness

- The run loop serves its list (`WF(RunRequest)`, `WF(MainStep)`): it is a
  loop without priorities, and a thread that began a call ends it.
- BTStack finishes powering up and down, ends every connection attempt and
  closes a channel when asked or halting. Timeouts of the Bluetooth controller
  guarantee that; closing is fair only when asked for, a console is never
  obliged to close.
- A CAN_SEND_NOW that was asked for comes.
- The worker's threads are scheduled, and a thread has at most one step to take,
  so weak fairness is stated per thread; the commands are not fair.
- Tokio runs every task that can go on. A worker that was told to shut down
  ends (worker.rs 242-247), others may run for ever. Neither the 3 s timer nor
  the browser is fair: `ViewConverges` does not use the periodic snapshot.
- `select!` picks among the branches that are ready at random
  (ws_server.rs 47), so that a branch that is ready again and again is taken:
  strong fairness of the arms of `ControllerWs`. The same holds for what waits
  for the registry's lock in `GlobalWs`: tokio's RwLock is first come, first
  served. Browsers that stay connected take what they are sent; a browser is
  never obliged to send or to leave.
- A driver request goes on: the user answers the dialog, scripts end, the 15
  polls pass. Scans by browsers, plugging and unplugging are not fair.

Elsewhere weak fairness is enough: each of these actions stays enabled until
it is taken, or the goal is reached another way.

## 5. Proofs

All theorems hold for every value of the constants that meets the ASSUMEs of
the modules, which only say what the constants are (`NoPeer` is no console,
LEDs are 4-bit values, there is a connection to speak about, and so on).
A liveness property cannot be proved here, but most have a safety half that
can: no step undoes what is being waited for. Those are theorems too, and are
named with their component.

**MainThreadCallsProofs.** `TypeCorrect` without hypotheses. The rest is
argued kind by kind: `OneCaller(k)` says that at most one thread requests
`k`, and `SlotInv` asserts `KindInv(k)` for just those kinds, so that a kind
requested by several threads spoils nothing for the others. That a popped
registration has its field set depends on who may have reset it, hence
`KindInv` says where a kind may be: a caller past its test owns it, the list
holds it at most once and not while it runs, and its handler still has the
field set. Exactly one of caller, list and handler then holds the kind, which
gives `OwnKindsAreNeverNull`, `OwnFieldsAreExact` and the refinement
`OwnKindsRefineSlots`: `Register` is `Raise`, `Pop` is `Start`, `Clear` is
`Finish`, all other steps stutter, also those of the other kinds.
`NullCallFree`, `FieldIsExact` and `RefinesSlots` are the special case that
every kind has one caller (`OneCallerPerKind`); `calls_two` is the
counterexample without it. `CoalescedIsNeverDropped`, the safety half of
`CoalescedIsServed`, needs no hypothesis about callers: no step but the
handler's read makes written input read, except in the window of section 6.

**BtKeyLibProofs.** `TypeCorrect`, `PairedIsExact`, `NothingOutlivesChannel`,
`SendLoopNeverDies`, `CycleNotStuck`, all from one invariant `LinkInv`. The
four properties need each other and one more conjunct, that there is no
channel without a link: without it a power-up could begin with an open
channel. The lemmas about `AfterReport` and `AfterSend` say that
`pairing_state` stays among the states the sender has a packet for.
`RequestsAreQueuedOnce` bounds the list of requests, and
`ActiveConnectHasTarget` says that a pending active connect has an address,
whatever a sync did to its key. `ReconnectsAreNotDropped`, the safety half of
`ActiveConnectAttempted`, says what may end one: the WORKING event, which begins
the connection, or a data base without keys; it rests on `KeyDbKnown`, by which a
stack that is up knows the data base, so that a failed authentication does empty
it. Three theorems are about conversations, from
`Conversing`, which adds to `LinkInv` that state 21 is never entered:
`RepliesAreShort` (the safety half of `InputResumes`),
`InputStopsOnlyWhenAsked` and `LightsOnlyEndHandshakes`. The first and third
need `PairedIsExact`: the branches for a console that is not paired are dead
while the stack is up. Two more are safety halves of liveness properties:
`CyclesAreNotGivenUp` (of `PowerCycleCompletes`: only the awaited OFF event ends a
cycle) and `DisconnectsAreNotLost` (of `DisconnectServed`: `hid_cid` names the
channel whenever there is one, so the handler never misses it, and a closing
channel ends only closed). `PowerCyclesStartAfresh` says that nothing of a
connection is left when the stack powers on again.

**WorkerProofs.** `CallsAreAccounted`: calls of any number of loops and of the
main thread collide, and still no field stays set with nothing on its way, and
a reconnect or a disconnect is never called through NULL. `CallInv` has three
parts. `LoopsOnlySync`: a loop asks for nothing but a sync. `OwnInOnePlace`: a
request of the main thread is in its call, in the list or in its handler, never in
two of them, and its field is set from the second step of the call to the end of
the handler; it needs that the list has no entry twice (`RequestsOnce`).
`FieldsInFlight`: a field that is set has a call past its second step, an entry
of the list or a handler that will reset it, for a sync as well. The one about
NULL cannot be stated for sync: `calls_two`. `WorkerKeepsStackSafe` carries the
invariants of the stack over: every step of a thread is, for the stack, a step of
one of its callers (`StackStep`), which for the entry into the list takes the type
of the calls.
`WorkerTypeCorrect` and `SyncingIsNeverOrphaned` use `WInv`: the flag is set
only by the action that also starts a loop, and every step of a loop out of
the states that look at the flag leaves the flag cleared or another loop
looking. `SentKeysAreKnown`, the safety half of `FirstKeyReachesServer`: the
status thread takes keys for sent only when the server has some.

**ControllerManagerProofs.** `RegistryTypeCorrect`, and `RunningIsListed` from
`ListInv`, which adds that an inserted worker stays listed until its watcher
has seen the process end. `RefinesRegistry`: `entryOf` reads the state of an id
off `adding`, `controllers` and `proc`, the insertion is `Enter`, the watcher's
removal `Leave`, and every other step stutters. The guard of `Leave` (the worker
has ended) is not in the watcher's code; it comes from `EntryInv`, by which a
watcher that removes has waited for the process.

**GlobalWsProofs.** `WatchTypeCorrect` and `QuietViewIsExact`. What a browser
shows is right only when nothing is on its way, so `ViewInv` has to say for
every controller what the browser would show after all that is still to come:
the last status in its channel is the controller's (`LastStatusExact`), and
the reader announces every other (`PrevExact`); keys that are announced are set
(`KeysAreSet`); what is shown, or has been read by a `list()` that is under way,
is right for every controller that no event in the channel is about
(`ListsExact`); and a change of members is announced or about to be
(`MembersExact`). The handler only reads the registry (`HandlerLeavesRegistry`),
so `WatchedRegistryRefines` follows from the steps of
`ControllerManagerProofs`, and `WatchedRunningIsListed` from what the abstract
registry guarantees (`GoneHaveEnded`) rather than from an invariant of its own.

**ControllerWsProofs.** `ConnectionTypeCorrect`, `KeysAreLostOnlyByLag` and
`HandlersOutliveControllers`, from `CWInv`: a handler holds an event exactly
while it sends it, and keys that are owed are in the channel or being sent.
`BroadcastKeeps` is the argument for a full channel: what it drops is not owed
any more, and what remains keeps its place. `LastWordHolds` is about the order
of commands from several handlers. It follows from `QuietInv`: while the worker
runs, for each part of a frame there is a browser whose last frame will be the
worker's last word on it, because its handler is still about to send that
part (`ToSend`) or because the queue, read to its end, ends with it (`EndsWith`).
A handler that is about to send says nothing but its last frame (`OutIsHeard`),
so whichever command comes last keeps the invariant, also if it overtakes those
of another browser. `LatestStatusWins` is the safety half of `StatusRepaired`:
`EndsUp(c, v)` says what a browser will show after all that is in its channel and
in its handler's hand, and only a broadcast of another status changes it. An
overrun drops from the front, so it drops the last word only when nothing
but link keys has come after it, enough of them to fill the channel: the theorem
excepts a channel full of link keys (`BroadcastStatus`, `ForwardingStatus`).

**InputReportProofs.** `InputTypeCorrect` and `UntouchedPartsAreExact`. The
first needs the range of `map_axes` (`MapAxesRange`, from the arithmetic of
clamping and rounding, for every unit) and of packing (`PackRange`); the second
that the three bytes of a word determine it (`BytesOfStick`,
`BytesOfButtons`), and the invariant `JoyExact` about the bytes read so far.
`QuietReportsShowThePad`, the safety half of `ConsoleConverges`: a report that is
read while no command is on its way shows the last frame. Its invariant
`LastFrameWins` says of every word that the last command for it on its way is the
last frame's, or that none is and the word holds what that frame says; the rest
is that packing loses nothing (`PackInjective`) and that rounding is to the nearest
step (`NearestStep`, `WholeStep`), for every unit and every value. `Plain` excludes
the pads of section 6 that `map_axes` takes for what they are not.

**DriverOpsProofs.** `DriverTypeCorrect`, `CacheIsCaughtUp`, `DriversAreNotLost`
and `VendorsAreKept`. `CacheCatchesUp` is strengthened by what the ghosts mean;
the other two are properties of single steps and of the scripts: the program's
package of a kind of dongle goes only with a script that names it or a restore
that falls back, a vendor's only with a restore that finds nothing of the
program's to remove.

Model-checked only: the liveness properties (fairness and ENABLED are out of
the prover's reach, and with them the liveness halves of `ImplementsSlots` and
`ImplementsRegistry`). For `PowerCycleCompletes`,
`ActiveConnectAttempted`, `DisconnectServed`, `InputResumes`,
`CoalescedIsServed`, `FirstKeyReachesServer`, `ConsoleConverges` and
`StatusRepaired` the safety half is proved, as said above, and for
`ViewConverges` that a browser with nothing left to receive shows what is
(`QuietViewIsExact`). For `PairingEndsSync`, `LoopsStop`, `RemoveServed`,
`HandlersEnd` and `RequestsAnswered` there are only the runs. Every invariant and every
action property that a passing run checks is a theorem.

## 6. Where the code and its documentation disagree

Three disagreements are kept as runs that end in a violation; `PROJECT.json`
quotes the lines.

| run | what happens |
|---|---|
| `calls_two` | two threads that ask for a sync at once can make the run loop call NULL (btkeyLib.c 613); this is why theorems about a kind assume that one thread requests it |
| `bt_ActiveConnectHasKey` | a sync does not cancel a pending active connect, which then goes to a console whose key was deleted (btkeyLib.c 1411) |
| `registry_RemoveUnregisters` | a worker that ends before it is inserted stays listed for ever (controller.rs 265) |

The properties of the passing runs are stated around the following, which
came up while modelling and can be reproduced by stating the documented
behaviour as a property:

- A reconnect whose keys are imported after the running handler has read the
  data base, but before it resets the field, is dropped (btkeyLib.c 597;
  ipc.rs 36). `CoalescedIsServed` excepts exactly this window.
- A sync before the stack was first up deletes no keys, because HCI learns of
  the data base only then (btkeyLib.c 584, btstack_platform.c 124; btstack.rs
  185).
- Set Player Lights in state 0 is ignored, also the first time, because
  `paired` is set when the channel opens (btkeyLib.c 1228, 1454; comment 1224).
- A connection rejected with 0x6A keeps the keys (btkeyLib.c 1446; README 78).
- The player number outlives its connection (btkeyLib.c 1460; btstack.rs 217).
- SyncStop and SyncStart within one poll leave two loops (worker.rs 184, 203).
- A loop can take the connection its own queued sync is about to end for its
  success (worker.rs 207). `PairingEndsSync` does not say which connection.
- A key that comes after the first one of a connection is not sent (worker.rs
  93; ipc.rs 73), hence `FirstKeyReachesServer`.
- Any key in the data base stops the retries of the pairing loop, also when
  nothing connects (worker.rs 216; ipc.rs 43: it repeats until connected).
- Ready is sent after 500 ms whatever the stack does (worker.rs 65; ipc.rs 65).
- The process ends while the stack is halting (worker.rs 242; btstack.rs 124).
- A controller that is added with link keys is not told to reconnect
  (api.rs 70).
- A browser that disconnects leaves its buttons pressed (ws_server.rs 80), and
  what it sent last is not read when an event fails to be sent first (57); a
  failed answer to a bad message does not end the handler (123-126).
- The Closed arm (ws_server.rs 68) cannot be reached: the handler keeps the
  sender alive. `HandlersEnd` therefore speaks of browsers that have gone.
- A mapped pad whose axes are all 0 or 1, a stick in its corner, is taken for a
  raw one and becomes neutral, and a fifth axis out of range makes the whole
  frame mapped (gamepad.rs 161; protocol.rs 80). A mapped neutral Y of 2048
  becomes 2047. `MCPads` has no such pad.
- One request may run the script of another, or an empty or missing one, and is
  answered Ok all the same (driver.rs 67, 87, 499).
- A restore removes whatever OEM package the dongle runs with, also its
  vendor's (driver.rs 408-413; README 26: back to the original driver), and if
  there is none any package of the program, which may be another dongle's (417-429; comment
  405). `LostOnRequest` excepts the second.
- A scan that fails empties the cache (controller.rs 182), and a scan that
  took longer replaces a newer one (183). `CacheCatchesUp` excepts the latter.
- The list takes no device for its VID and PID (driver.rs 99), and its instance
  numbers need not be those of the patched BTStack (172; apply_patches.sh 114).

## 7. Not modelled

What a further stage could add, in the order of its use:

1. `PairingProtocol` with a console that waits for replies and then with one
   that does not: the overwriting of the single `pairing_state`, and which
   conversations come back to input.
2. The server and the worker composed: `ControllerManager` with the events
   `Worker` sends, shutdown and crash of a worker during pairing.
3. The rest of the input state: motion, whose six words are stored by two
   commands, and the buttons that rumble presses.
4. The shutdown inside a handler of the BTStack thread (btstack_platform.c 143):
   the two threads are interleaved handler by handler here.

Out of scope: main.rs chooses between server and worker and parses arguments;
of driver.rs the certificates, the catalogue and the text of the INF file;
apply_patches.sh and build.rs change and
build a library that is not in the repository; base64, JSON and the layout of
packets are formatting, and no property here is about them. Lines torn between
C's and Rust's stdout, and races inside BTStack's key list, need a byte-level
model of two libraries.

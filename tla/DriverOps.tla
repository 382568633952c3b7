------------------------------ MODULE DriverOps -----------------------------
(***************************************************************************)
(* The driver requests of the REST API, src/src/driver.rs and api.rs, and  *)
(* the device cache of controller.rs that they and the global WebSocket    *)
(* refresh.                                                                *)
(*                                                                         *)
(* A request writes a script, has Windows run it with an elevated shell,   *)
(* polls the device list until it shows the wanted driver, and refreshes   *)
(* the cache.  All requests share one script file.  Of Windows the driver  *)
(* store is kept: a plugged dongle has the WinUSB package of its kind      *)
(* (VID:PID) if there is one, else that of its vendor, else a driver of    *)
(* Windows' own.  A list of the devices stands for the moment it was taken *)
(* at; of what it says only the verification reads, and at once.           *)
(***************************************************************************)
EXTENDS Naturals, FiniteSets

CONSTANTS
    Dongles, KindOf,    \* dongles, numbered as Windows lists them; VID:PID
    VendorKinds,        \* kinds whose own driver is a package of the vendor
    Requests,           \* driver requests under way at a time
    Browsers,           \* handlers of the global WebSocket
    MaxPolls            \* of verify_driver_state (15 in the code)

ASSUME DOBoundsAssumption ==
    /\ Dongles \subseteq Nat /\ IsFiniteSet(Dongles) /\ MaxPolls \in Nat \ {0}
    /\ VendorKinds \subseteq {KindOf[d] : d \in Dongles}
    /\ Requests \cap Browsers = {} /\ "cache" \notin Requests \cup Browsers

Kinds      == {KindOf[d] : d \in Dongles}
Operations == [op : {"install", "restore"}, kind : Kinds]
NoScript   == [op |-> "none"]
Packages   == [owner : {"switch-bt-ws", "vendor"}, kind : Kinds]
WinUsb(k)  == [owner |-> "switch-bt-ws", kind |-> k]
Vendor(k)  == [owner |-> "vendor", kind |-> k]

VARIABLES
    plugged,        \* external: dongles that are plugged in
    store,          \* external: OEM packages in the driver store
    script,         \* btstack_driver_op.ps1
    at, op,         \* where the requests are, what they were asked
    shell,          \* external: the script an elevated shell has read
    polls,
    scanning,       \* handlers that have a list they are to put in the cache
    old,            \* ghost: lists from before the last change by a script
    overtaken       \* ghost: one of them replaced a newer one in the cache

windows == <<plugged, store>>
request == <<script, at, op, shell, polls>>
lists   == <<scanning, old, overtaken>>
dovars  == <<windows, request, lists>>

DOTypeOK ==
    /\ plugged \subseteq Dongles /\ store \subseteq Packages
    /\ script \in Operations \cup {NoScript}
    /\ at \in [Requests -> {"idle", "asking", "shell", "ran", "verify", "refresh", "set"}]
    /\ op \in [Requests -> Operations \cup {NoScript}]
    /\ shell \in [Requests -> Operations \cup {NoScript}]
    /\ polls \in [Requests -> 0..(MaxPolls - 1)]
    /\ scanning \subseteq Browsers
    /\ old \subseteq Requests \cup Browsers \cup {"cache"}
    /\ overtaken \in BOOLEAN

DOInit ==
    /\ plugged = Dongles
    /\ store = {Vendor(k) : k \in VendorKinds}
    /\ script = NoScript
    /\ at = [r \in Requests |-> "idle"]
    /\ op = [r \in Requests |-> NoScript]
    /\ shell = [r \in Requests |-> NoScript]
    /\ polls = [r \in Requests |-> 0]
    /\ scanning = {}
    /\ old = {"cache"}
    /\ overtaken = TRUE

-----------------------------------------------------------------------------
(* What PowerShell says and does.                                          *)

\* list_bt_usb_devices; dongles of a kind are numbered in the order of the list.
Listed ==
    {[kind |-> KindOf[d], instance |-> Cardinality({e \in plugged : e < d /\ KindOf[e] = KindOf[d]}),
      winusb |-> WinUsb(KindOf[d]) \in store] : d \in plugged}

\* The package a plugged dongle of kind k runs with.
MutInUse(k) == store                    \* ... or any dongle

InUse(k) ==
    IF \A d \in plugged : KindOf[d] # k THEN {}
    ELSE IF WinUsb(k) \in store THEN {WinUsb(k)}
    ELSE store \cap {Vendor(k)}

\* The packages whose name or provider names the program.
OwnPackages == {p \in store : p.owner = "switch-bt-ws"}

\* The outcomes of a script that is not interrupted.
AfterInstall(k) == {IF \E d \in plugged : KindOf[d] = k THEN store \cup {WinUsb(k)} ELSE store}

AfterRestore(k) ==
    LET found == IF InUse(k) # {} THEN InUse(k) ELSE OwnPackages
    IN  IF found = {} THEN {store} ELSE {store \ {p} : p \in found}

AfterScript(s) ==
    CASE s.op = "install" -> AfterInstall(s.kind)
      [] s.op = "restore" -> AfterRestore(s.kind)
      [] s.op = "none"    -> {store}

-----------------------------------------------------------------------------
(* A driver request.                                                       *)

\* The script is written, and the dialog asks for consent.
WriteScript(r) ==
    /\ at[r] = "idle"
    /\ \E o \in Operations : op' = [op EXCEPT ![r] = o] /\ script' = o
    /\ at' = [at EXCEPT ![r] = "asking"]
    /\ UNCHANGED <<windows, shell, polls, lists>>

\* The shell reads the file as it is by now, ...
Consented(r) ==
    /\ at[r] = "asking"
    /\ shell' = [shell EXCEPT ![r] = script]
    /\ at' = [at EXCEPT ![r] = "shell"]
    /\ UNCHANGED <<windows, script, op, polls, lists>>

\* ... or there is none.  run_elevated_ps does not look at how it ended.
Declined(r) ==
    /\ at[r] = "asking"
    /\ at' = [at EXCEPT ![r] = "ran"]
    /\ UNCHANGED <<windows, script, op, shell, polls, lists>>

\* PowerShell cannot be started: the answer is an error, and the file stays.
LaunchFails(r) ==
    /\ at[r] = "asking"
    /\ at' = [at EXCEPT ![r] = "idle"]
    /\ op' = [op EXCEPT ![r] = NoScript]
    /\ UNCHANGED <<windows, script, shell, polls, lists>>

\* The script runs, or fails before it changes anything.
ShellEnds(r) ==
    /\ at[r] = "shell"
    /\ store' \in AfterScript(shell[r]) \cup {store}
    /\ old' = IF store' = store THEN old
              ELSE {"cache"} \cup scanning \cup {q \in Requests : at[q] = "set"}
    /\ overtaken' = (overtaken /\ store' = store)
    /\ shell' = [shell EXCEPT ![r] = NoScript]
    /\ at' = [at EXCEPT ![r] = "ran"]
    /\ UNCHANGED <<plugged, script, op, polls, scanning>>

RemoveScript(r) ==
    /\ at[r] = "ran"
    /\ script' = NoScript
    /\ at' = [at EXCEPT ![r] = "verify"]
    /\ UNCHANGED <<windows, op, shell, polls, lists>>

\* verify_driver_state: one poll finds the driver, or there is another
\* until they run out; a list that cannot be taken counts as empty.  The
\* answer is Ok in either case.
MutDone(r) ==                           \* counts on
    /\ at' = [at EXCEPT ![r] = "refresh"]
    /\ op' = [op EXCEPT ![r] = NoScript]
    /\ polls' = [polls EXCEPT ![r] = @ + 1]

Done(r) ==
    /\ at' = [at EXCEPT ![r] = "refresh"]
    /\ op' = [op EXCEPT ![r] = NoScript]
    /\ polls' = [polls EXCEPT ![r] = 0]

MutPoll(r) ==                           \* unconfirmed: answered at once
    /\ at[r] = "verify"
    /\ at' = [at EXCEPT ![r] = IF \E d \in Listed : d.kind = op[r].kind /\ d.winusb = (op[r].op = "install")
                              THEN "refresh" ELSE "idle"]
    /\ op' = [op EXCEPT ![r] = NoScript]
    /\ UNCHANGED <<windows, script, shell, polls, lists>>

MutPollForever(r) ==                    \* no limit to the polls
    /\ at[r] = "verify"
    /\ IF \E d \in Listed : d.kind = op[r].kind /\ d.winusb = (op[r].op = "install")
         THEN Done(r) ELSE UNCHANGED <<at, op, polls>>
    /\ UNCHANGED <<windows, script, shell, lists>>

Poll(r) ==
    /\ at[r] = "verify"
    /\ \/ /\ \E d \in Listed : d.kind = op[r].kind /\ d.winusb = (op[r].op = "install")
          /\ Done(r)
       \/ /\ polls[r] + 1 = MaxPolls
          /\ Done(r)
       \/ /\ polls[r] + 1 < MaxPolls
          /\ polls' = [polls EXCEPT ![r] = @ + 1]
          /\ UNCHANGED <<at, op>>
    /\ UNCHANGED <<windows, script, shell, lists>>

-----------------------------------------------------------------------------
(* The device cache.                                                       *)

\* A list that was taken earlier is put in the cache now.
PutInCache(x) ==
    /\ old' = IF x \in old THEN (old \ {x}) \cup {"cache"} ELSE old \ {"cache"}
    /\ overtaken' = (x \in old /\ (overtaken \/ "cache" \notin old))

\* refresh_and_notify_devices: the list is taken, ...
RefreshScans(r) ==
    /\ at[r] = "refresh"
    /\ at' = [at EXCEPT ![r] = "set"]
    /\ UNCHANGED <<windows, script, op, shell, polls, lists>>

\* ... set and announced, and the request is answered.
RefreshSets(r) ==
    /\ at[r] = "set"
    /\ at' = [at EXCEPT ![r] = "idle"]
    /\ PutInCache(r)
    /\ UNCHANGED <<windows, script, op, shell, polls, scanning>>

\* A handler of the global WebSocket, when its browser connects or refreshes.
HandlerScans(b) ==
    /\ b \notin scanning
    /\ scanning' = scanning \cup {b}
    /\ UNCHANGED <<windows, request, old, overtaken>>

set_cached_devices(b) ==
    /\ b \in scanning
    /\ scanning' = scanning \ {b}
    /\ PutInCache(b)
    /\ UNCHANGED <<windows, request>>

Replug(d) ==
    /\ plugged' = IF d \in plugged THEN plugged \ {d} ELSE plugged \cup {d}
    /\ UNCHANGED <<store, request, lists>>

-----------------------------------------------------------------------------
Proceeds(r) ==
    \/ Consented(r) \/ Declined(r) \/ LaunchFails(r) \/ ShellEnds(r)
    \/ RemoveScript(r) \/ Poll(r) \/ RefreshScans(r) \/ RefreshSets(r)

DONext ==
    \/ \E r \in Requests : WriteScript(r) \/ Proceeds(r)
    \/ \E b \in Browsers : HandlerScans(b) \/ set_cached_devices(b)
    \/ \E d \in Dongles : Replug(d)

\* The user answers the dialog, and what runs ends.
DOSpec == DOInit /\ [][DONext]_dovars /\ \A r \in Requests : WF_dovars(Proceeds(r))

-----------------------------------------------------------------------------
(* Properties.                                                             *)

\* What the scripts change comes to the cache: until it has, the request
\* that ran the script is still going to put it there, unless a list that
\* was taken before has overtaken its own (controller.rs 182-183).
Owes(r) == at[r] \in {"ran", "verify", "refresh"} \/ (at[r] = "set" /\ r \notin old)

CacheCatchesUp == "cache" \in old => overtaken \/ \E r \in Requests : Owes(r)

\* A kind loses its WinUSB driver only to a script that names it, as long as
\* no restore runs whose dongle has no package of its own left (driver.rs
\* 417-429), whatever scripts replace each other in the file.
NamedByScript ==
    \A k \in Kinds :
       (WinUsb(k) \in store /\ WinUsb(k) \notin store') =>
           \E r \in Requests : /\ at[r] = "shell" /\ at'[r] = "ran"
                               /\ \/ shell[r].kind = k
                                  \/ {d \in Listed : d.kind = shell[r].kind /\ d.winusb} = {}

LostOnRequest == [][NamedByScript]_dovars

\* Every request is answered, also when its script never ran.
RequestsAnswered == \A r \in Requests : []<>(at[r] = "idle")
=============================================================================

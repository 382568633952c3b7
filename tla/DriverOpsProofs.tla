--------------------------- MODULE DriverOpsProofs --------------------------
(***************************************************************************)
(* What the driver requests promise, for any dongles, any number of        *)
(* requests at a time and any number of polls.                             *)
(***************************************************************************)
EXTENDS DriverOps, TLAPS

\* A list that is old is one a request or a handler still holds.
OldIsHeld ==
    /\ \A r \in Requests : r \in old => at[r] = "set"
    /\ \A b \in Browsers : b \in old => b \in scanning

CacheInv == DOTypeOK /\ OldIsHeld /\ CacheCatchesUp

LEMMA ScriptsKeepStore ==
  ASSUME DOTypeOK, NEW s \in Operations \cup {NoScript}, NEW t \in AfterScript(s)
  PROVE  t \subseteq Packages
<1>1. store \subseteq Packages
  BY DEF DOTypeOK
<1>2. CASE s = NoScript
  BY <1>1, <1>2 DEF NoScript, AfterScript
<1>3. CASE s \in Operations
  <2>1. s.op \in {"install", "restore"} /\ s.kind \in Kinds
    BY <1>3 DEF Operations
  <2>2. CASE s.op = "install"
    <3>1. WinUsb(s.kind) \in Packages
      BY <2>1 DEF WinUsb, Packages
    <3>2. QED
      BY <1>1, <2>2, <3>1 DEF AfterScript, AfterInstall
  <2>3. CASE s.op = "restore"
    BY <1>1, <2>3 DEF AfterScript, AfterRestore
  <2>4. QED
    BY <2>1, <2>2, <2>3
<1>4. QED
  BY <1>2, <1>3

-----------------------------------------------------------------------------
LEMMA CacheInvInit == DOInit => CacheInv
<1> SUFFICES ASSUME DOInit PROVE CacheInv
  OBVIOUS
<1>1. store \subseteq Packages
  BY DOBoundsAssumption DEF DOInit, Vendor, Packages, Kinds
<1>2. DOTypeOK
  BY <1>1, DOBoundsAssumption DEF DOInit, DOTypeOK
<1>3. OldIsHeld /\ CacheCatchesUp
  BY DOBoundsAssumption DEF DOInit, OldIsHeld, CacheCatchesUp
<1>4. QED
  BY <1>2, <1>3 DEF CacheInv

\* A step that leaves the lists alone, and requests that owe the cache a
\* list, and does not take back one that was taken.
LEMMA CacheStays ==
  ASSUME OldIsHeld, CacheCatchesUp, UNCHANGED <<old, overtaken, scanning>>,
         \A r \in Requests : /\ Owes(r) => Owes(r)'
                             /\ at[r] = "set" => at'[r] = "set"
  PROVE  OldIsHeld' /\ CacheCatchesUp'
<1>1. OldIsHeld'
  BY DEF OldIsHeld
<1>2. CacheCatchesUp'
  <2>1. SUFFICES ASSUME "cache" \in old, ~overtaken PROVE \E r \in Requests : Owes(r)'
    BY DEF CacheCatchesUp
  <2>2. PICK r \in Requests : Owes(r)
    BY <2>1 DEF CacheCatchesUp
  <2>3. QED
    BY <2>2
<1>3. QED
  BY <1>1, <1>2

\* A list is put in the cache by a request or handler that then holds none.
LEMMA CacheIsSet ==
  ASSUME OldIsHeld, CacheCatchesUp, NEW x \in Requests \cup Browsers, PutInCache(x),
         x \in Browsers => at' = at /\ scanning' = scanning \ {x},
         x \in Requests => at[x] = "set" /\ at' = [at EXCEPT ![x] = "idle"] /\ scanning' = scanning,
         DOTypeOK
  PROVE  OldIsHeld' /\ CacheCatchesUp'
<1> USE DOBoundsAssumption
<1>1. /\ old' = IF x \in old THEN (old \ {x}) \cup {"cache"} ELSE old \ {"cache"}
      /\ overtaken' = (x \in old /\ (overtaken \/ "cache" \notin old))
  BY DEF PutInCache
<1>2. \A y \in Requests \cup Browsers : y \in old' => y \in old /\ y # x
  BY <1>1
<1>3. \A r \in Requests : r # x => at'[r] = at[r]
  BY DEF DOTypeOK
<1>4. OldIsHeld'
  <2>1. ASSUME NEW r \in Requests, r \in old' PROVE at'[r] = "set"
    BY <1>2, <1>3, <2>1 DEF OldIsHeld
  <2>2. ASSUME NEW b \in Browsers, b \in old' PROVE b \in scanning'
    BY <1>2, <2>2 DEF OldIsHeld
  <2>3. QED
    BY <2>1, <2>2 DEF OldIsHeld
<1>5. CacheCatchesUp'
  <2>1. SUFFICES ASSUME "cache" \in old', ~overtaken' PROVE \E r \in Requests : Owes(r)'
    BY DEF CacheCatchesUp
  <2>2. x \in old /\ ~overtaken /\ "cache" \in old
    BY <1>1, <2>1
  <2>3. PICK r \in Requests : Owes(r)
    BY <2>2 DEF CacheCatchesUp
  <2>4. r # x
    BY <2>2, <2>3 DEF Owes
  <2>5. Owes(r)'
    BY <1>2, <1>3, <2>3, <2>4 DEF Owes
  <2>6. QED
    BY <2>5
<1>6. QED
  BY <1>4, <1>5

LEMMA CacheInvStep == CacheInv /\ [DONext]_dovars => CacheInv'
<1> SUFFICES ASSUME CacheInv, [DONext]_dovars PROVE CacheInv'
  OBVIOUS
<1> USE DOBoundsAssumption DEF CacheInv
<1> DEFINE AtValues == {"idle", "asking", "shell", "ran", "verify", "refresh", "set"}
<1>0. at \in [Requests -> AtValues]
  BY DEF DOTypeOK
<1>1. ASSUME NEW r \in Requests,
             WriteScript(r) \/ Consented(r) \/ Declined(r) \/ LaunchFails(r) \/ RemoveScript(r) \/ Poll(r)
                \/ RefreshScans(r)
      PROVE  CacheInv'
  <2>1. DOTypeOK'
    <3>1. CASE WriteScript(r)
      <4>1. PICK o \in Operations : op' = [op EXCEPT ![r] = o] /\ script' = o
        BY <3>1 DEF WriteScript
      <4>2. QED
        BY <3>1, <4>1 DEF WriteScript, DOTypeOK, windows, lists
    <3>2. CASE Consented(r)
      BY <3>2 DEF Consented, DOTypeOK, windows, lists
    <3>3. CASE Declined(r) \/ LaunchFails(r) \/ RemoveScript(r) \/ RefreshScans(r)
      BY <3>3 DEF Declined, LaunchFails, RemoveScript, RefreshScans, DOTypeOK, windows, lists
    <3>4. CASE Poll(r)
      BY <3>4 DEF Poll, Done, DOTypeOK, windows, lists
    <3>5. QED
      BY <1>1, <3>1, <3>2, <3>3, <3>4
  <2>2. UNCHANGED <<old, overtaken, scanning>>
    BY <1>1 DEF WriteScript, Consented, Declined, LaunchFails, RemoveScript, Poll, RefreshScans, lists
  <2>3. /\ \A q \in Requests : q # r => at'[q] = at[q]
        /\ at'[r] = "set" => r \notin old
        /\ at[r] # "set"
        /\ Owes(r) => at'[r] \in {"ran", "verify", "refresh", "set"}
    BY <1>0, <1>1 DEF WriteScript, Consented, Declined, LaunchFails, RemoveScript, Poll, Done,
       RefreshScans, Owes, OldIsHeld
  <2>4. ASSUME NEW q \in Requests
        PROVE  (Owes(q) => Owes(q)') /\ (at[q] = "set" => at'[q] = "set")
    BY <2>2, <2>3 DEF Owes
  <2>5. QED
    BY <2>1, <2>2, <2>4, CacheStays
<1>2. ASSUME NEW r \in Requests, ShellEnds(r) PROVE CacheInv'
  <2>1. /\ at[r] = "shell" /\ at' = [at EXCEPT ![r] = "ran"] /\ scanning' = scanning
        /\ old' = IF store' = store THEN old
                  ELSE {"cache"} \cup scanning \cup {q \in Requests : at[q] = "set"}
        /\ overtaken' = (overtaken /\ store' = store)
        /\ store' \in AfterScript(shell[r]) \cup {store}
    BY <1>2 DEF ShellEnds
  <2>2. store' \subseteq Packages
    <3>1. shell[r] \in Operations \cup {NoScript} /\ store \subseteq Packages
      BY DEF DOTypeOK
    <3>2. QED
      BY <2>1, <3>1, ScriptsKeepStore
  <2>3. DOTypeOK'
    BY <1>2, <2>1, <2>2 DEF ShellEnds, DOTypeOK
  <2>4. Owes(r)'
    BY <1>0, <2>1 DEF Owes
  <2>5. OldIsHeld'
    <3>1. \A q \in Requests : at[q] = "set" => at'[q] = "set"
      BY <1>0, <2>1
    <3>2. CASE store' = store
      BY <2>1, <3>1, <3>2 DEF OldIsHeld
    <3>3. CASE store' # store
      <4>1. old' = {"cache"} \cup scanning \cup {q \in Requests : at[q] = "set"}
        BY <2>1, <3>3
      <4>2. scanning \subseteq Browsers
        BY DEF DOTypeOK
      <4>3. QED
        BY <2>1, <3>1, <4>1, <4>2 DEF OldIsHeld
    <3>4. QED
      BY <3>2, <3>3
  <2>6. QED
    BY <2>3, <2>4, <2>5 DEF CacheCatchesUp
<1>3. ASSUME NEW r \in Requests, RefreshSets(r) PROVE CacheInv'
  <2>1. at[r] = "set" /\ at' = [at EXCEPT ![r] = "idle"] /\ PutInCache(r) /\ scanning' = scanning
    BY <1>3 DEF RefreshSets
  <2>2. r \notin Browsers
    OBVIOUS
  <2>3. DOTypeOK'
    BY <1>3, <2>1 DEF RefreshSets, PutInCache, DOTypeOK, windows
  <2>4. QED
    BY <2>1, <2>2, <2>3, CacheIsSet
<1>4. ASSUME NEW b \in Browsers, set_cached_devices(b) PROVE CacheInv'
  <2>1. scanning' = scanning \ {b} /\ PutInCache(b) /\ at' = at
    BY <1>4 DEF set_cached_devices, request
  <2>2. b \notin Requests
    OBVIOUS
  <2>3. DOTypeOK'
    BY <1>4, <2>1 DEF set_cached_devices, PutInCache, DOTypeOK, windows, request
  <2>4. QED
    BY <2>1, <2>2, <2>3, CacheIsSet
<1>5. ASSUME NEW b \in Browsers, HandlerScans(b) PROVE CacheInv'
  <2>1. scanning' = scanning \cup {b} /\ UNCHANGED <<at, old, overtaken>>
    BY <1>5 DEF HandlerScans, request
  <2>2. DOTypeOK'
    BY <1>5, <2>1 DEF HandlerScans, DOTypeOK, windows, request
  <2>3. OldIsHeld' /\ CacheCatchesUp'
    BY <2>1 DEF OldIsHeld, CacheCatchesUp, Owes
  <2>4. QED
    BY <2>2, <2>3
<1>6. CASE (\E d \in Dongles : Replug(d)) \/ UNCHANGED dovars
  <2>1. UNCHANGED <<store, request, lists>> /\ plugged' \subseteq Dongles
    BY <1>6 DEF Replug, dovars, windows, DOTypeOK
  <2>2. UNCHANGED <<at, op, script, shell, polls, scanning, old, overtaken, store>>
    BY <2>1 DEF request, lists
  <2>3. DOTypeOK'
    BY <2>1, <2>2 DEF DOTypeOK
  <2>4. QED
    BY <2>2, <2>3, CacheStays DEF Owes
<1>7. QED
  BY <1>1, <1>2, <1>3, <1>4, <1>5, <1>6 DEF DONext, Proceeds

\* The requests' variables stay within their types.
THEOREM DriverTypeCorrect == DOSpec => []DOTypeOK
<1>1. CacheInv => DOTypeOK
  BY DEF CacheInv
<1>2. QED
  BY <1>1, CacheInvInit, CacheInvStep, PTL DEF DOSpec

\* What a script changed comes to the cache, or the request that ran it will
\* still put it there, unless an earlier list has overtaken it.
THEOREM CacheIsCaughtUp == DOSpec => []CacheCatchesUp
<1>1. CacheInv => CacheCatchesUp
  BY DEF CacheInv
<1>2. QED
  BY <1>1, CacheInvInit, CacheInvStep, PTL DEF DOSpec

-----------------------------------------------------------------------------
\* A restore takes another kind's package only if its own dongles run with
\* none of the program's.
LEMMA RestoreTakesOwn ==
  ASSUME NEW k \in Kinds, NEW j, NEW t \in AfterRestore(j), WinUsb(k) \in store, WinUsb(k) \notin t
  PROVE  j = k \/ {d \in Listed : d.kind = j /\ d.winusb} = {}
<1> SUFFICES ASSUME NEW d \in Listed, d.kind = j, d.winusb PROVE j = k
  OBVIOUS
<1>1. PICK e \in plugged : KindOf[e] = j /\ WinUsb(j) \in store
  <2> DEFINE N(e) == Cardinality({f \in plugged : f < e /\ KindOf[f] = KindOf[e]})
  <2>1. PICK e \in plugged :
           d = [kind |-> KindOf[e], instance |-> N(e), winusb |-> WinUsb(KindOf[e]) \in store]
    BY Zenon DEF Listed
  <2> HIDE DEF N
  <2>2. d.kind = KindOf[e]
    BY <2>1
  <2>3. d.winusb = (WinUsb(KindOf[e]) \in store)
    BY <2>1
  <2>4. WinUsb(KindOf[e]) \in store
    BY <2>3, Zenon
  <2>5. QED
    BY <2>2, <2>4
<1>2. InUse(j) = {WinUsb(j)}
  BY <1>1 DEF InUse
<1>3. t = store \ {WinUsb(j)}
  BY <1>2 DEF AfterRestore
<1>4. WinUsb(k) = WinUsb(j)
  BY <1>3
<1>5. QED
  BY <1>4 DEF WinUsb

\* No dongle loses the driver it was given unless a script names its kind,
\* or restores one that has none left, whatever scripts the requests
\* overwrite in the file they share.
THEOREM DriversAreNotLost == DOSpec => LostOnRequest
<1>1. CacheInv /\ [DONext]_dovars => [NamedByScript]_dovars
  <2> SUFFICES ASSUME CacheInv, DONext, NEW k \in Kinds,
                      WinUsb(k) \in store, WinUsb(k) \notin store'
               PROVE  \E r \in Requests : /\ at[r] = "shell" /\ at'[r] = "ran"
                                          /\ \/ shell[r].kind = k
                                             \/ {d \in Listed : d.kind = shell[r].kind /\ d.winusb} = {}
    BY DEF NamedByScript
  <2>1. PICK r \in Requests : ShellEnds(r)
    BY DEF DONext, Proceeds, WriteScript, Consented, Declined, LaunchFails, RemoveScript, Poll,
           RefreshScans, RefreshSets, HandlerScans, set_cached_devices, Replug, windows
  <2>2. at[r] = "shell" /\ at' = [at EXCEPT ![r] = "ran"] /\ store' \in AfterScript(shell[r])
    BY <2>1 DEF ShellEnds
  <2>3. at'[r] = "ran" /\ shell[r] \in Operations \cup {NoScript}
    BY <2>2 DEF CacheInv, DOTypeOK
  <2>4. store' \in AfterRestore(shell[r].kind)
    <3>1. CASE shell[r].op = "install"
      <4>1. store \subseteq store'
        BY <2>2, <3>1 DEF AfterScript, AfterInstall
      <4>2. QED
        BY <4>1
    <3>2. CASE shell[r].op = "none"
      BY <2>2, <3>2 DEF AfterScript
    <3>3. CASE shell[r].op = "restore"
      BY <2>2, <3>3 DEF AfterScript
    <3>4. QED
      BY <2>3, <3>1, <3>2, <3>3 DEF Operations, NoScript
  <2>5. shell[r].kind = k \/ {d \in Listed : d.kind = shell[r].kind /\ d.winusb} = {}
    BY <2>4, RestoreTakesOwn
  <2>6. QED
    BY <2>2, <2>3, <2>5
<1>2. QED
  BY <1>1, CacheInvInit, CacheInvStep, PTL DEF DOSpec, LostOnRequest

-----------------------------------------------------------------------------
(* The vendors' packages.                                                  *)

\* A vendor's package is taken out only by a restore of its kind that finds a
\* dongle of that kind plugged in and running without the program's package: a
\* restore that was needed takes none (driver.rs 408-413, 433).
VendorTaken ==
    \A k \in Kinds :
       (Vendor(k) \in store /\ Vendor(k) \notin store') =>
           \E r \in Requests : /\ at[r] = "shell" /\ at'[r] = "ran"
                               /\ shell[r] = [op |-> "restore", kind |-> k]
                               /\ WinUsb(k) \notin store
                               /\ \E d \in plugged : KindOf[d] = k

VendorsKeep == [][VendorTaken]_dovars

\* Whatever scripts the requests overwrite, a vendor's package goes only with
\* a restore that has nothing of the program's to remove.
THEOREM VendorsAreKept == DOSpec => VendorsKeep
<1>1. CacheInv /\ [DONext]_dovars => [VendorTaken]_dovars
  <2> SUFFICES ASSUME CacheInv, DONext, NEW k \in Kinds,
                      Vendor(k) \in store, Vendor(k) \notin store'
               PROVE  \E r \in Requests : /\ at[r] = "shell" /\ at'[r] = "ran"
                                          /\ shell[r] = [op |-> "restore", kind |-> k]
                                          /\ WinUsb(k) \notin store
                                          /\ \E d \in plugged : KindOf[d] = k
    BY DEF VendorTaken
  <2>1. PICK r \in Requests : ShellEnds(r)
    BY DEF DONext, Proceeds, WriteScript, Consented, Declined, LaunchFails, RemoveScript, Poll,
           RefreshScans, RefreshSets, HandlerScans, set_cached_devices, Replug, windows
  <2>2. at[r] = "shell" /\ at' = [at EXCEPT ![r] = "ran"] /\ store' \in AfterScript(shell[r])
    BY <2>1 DEF ShellEnds
  <2>3. at'[r] = "ran" /\ shell[r] \in Operations \cup {NoScript}
    BY <2>2 DEF CacheInv, DOTypeOK
  <2> DEFINE j == shell[r].kind
  <2>4. shell[r].op = "restore" /\ store' \in AfterRestore(j)
    <3>1. shell[r].op # "install"
      <4>1. CASE shell[r].op = "install"
        <5>1. store \subseteq store'
          BY <2>2, <4>1 DEF AfterScript, AfterInstall
        <5>2. QED
          BY <5>1
      <4>2. QED
        BY <4>1
    <3>2. shell[r].op # "none"
      BY <2>2 DEF AfterScript
    <3>3. shell[r].op = "restore"
      BY <2>3, <3>1, <3>2 DEF Operations, NoScript
    <3>4. QED
      BY <2>2, <3>3 DEF AfterScript
  <2>5. shell[r] = [op |-> "restore", kind |-> j]
    BY <2>3, <2>4 DEF Operations, NoScript
  <2> HIDE DEF j
  <2>6. Vendor(k).owner = "vendor" /\ Vendor(k).kind = k
    BY DEF Vendor
  <2>7. InUse(j) # {}
    <3>1. Vendor(k) \notin OwnPackages
      BY <2>6 DEF OwnPackages
    <3>2. QED
      BY <2>4, <3>1 DEF AfterRestore
  <2>8. Vendor(k) \in InUse(j)
    BY <2>4, <2>7 DEF AfterRestore
  <2>9. Vendor(k) # WinUsb(j)
    BY DEF Vendor, WinUsb
  <2>10. Vendor(k) = Vendor(j) /\ WinUsb(j) \notin store /\ \E d \in plugged : KindOf[d] = j
    BY <2>8, <2>9 DEF InUse
  <2>11. j = k
    BY <2>10 DEF Vendor
  <2>12. QED
    BY <2>2, <2>3, <2>5, <2>10, <2>11
<1>2. QED
  BY <1>1, CacheInvInit, CacheInvStep, PTL DEF DOSpec, VendorsKeep
=============================================================================

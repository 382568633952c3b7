--------------------------- MODULE BtKeyLibProofs ---------------------------
(***************************************************************************)
(* The safety of the connection core, for any consoles, LED patterns,      *)
(* report ids and subcommands, with or without failing dongles and         *)
(* shutdowns.                                                              *)
(*                                                                         *)
(* The four safety invariants are inductive together once one fact about   *)
(* BTStack is added: a stack that is not up has no channel.                *)
(***************************************************************************)
EXTENDS BtKeyLib, TLAPS

NoChannelWithoutLink == ~LinkUp => chan = "closed"

LinkInv ==
    /\ TypeOK
    /\ PairedExact
    /\ ClosedIsClean
    /\ SendLoopAlive
    /\ CyclePendingOnlyHalting
    /\ NoChannelWithoutLink

-----------------------------------------------------------------------------
(* The protocol functions stay within the states the sender knows.         *)

\* Every subcommand leads to a state the sender has a packet for.
LEMMA AfterReportType ==
    ASSUME NEW sub, NEW ps \in PairingStates, NEW p, NEW a
    PROVE  AfterReport(sub, ps, p, a) \in PairingStates
<1>1. \A x \in DOMAIN FixedReply : FixedReply[x] \in PairingStates
  BY DEF FixedReply, PairingStates
<1>2. QED
  BY <1>1 DEF AfterReport, LightsReply, PairingStates

\* Sending a packet leads to a state the sender has a packet for.
LEMMA AfterSendType ==
    ASSUME NEW ps \in PairingStates, NEW p
    PROVE  AfterSend(ps, p) \in PairingStates
BY DEF AfterSend, PairingStates

LEMMA AmiiboType ==
    ASSUME NEW sub, NEW ps, NEW a \in BOOLEAN
    PROVE  AmiiboAfterReport(sub, ps, a) \in BOOLEAN
BY DEF AmiiboAfterReport

LEMMA PairedType ==
    ASSUME NEW ps, NEW p \in BOOLEAN
    PROVE  PairedAfterSend(ps, p) \in BOOLEAN
BY DEF PairedAfterSend

\* What powering off does to the HCI state and the pending flag.
LEMMA PowerOffFacts ==
    ASSUME TypeOK, NEW p \in BOOLEAN, PowerOff(p)
    PROVE  /\ hci' \in HciStates /\ pending_power_on' \in BOOLEAN
           /\ hci' # "WORKING"
           /\ pending_power_on' => hci' = "HALTING"
           /\ LinkUp <=> hci' = "HALTING"
BY DEF TypeOK, PowerOff, OffEvent, PowerOnResults, HciStates, LinkUp

-----------------------------------------------------------------------------
(* LinkInv is inductive.                                                   *)

LEMMA LinkInvInit == Init => LinkInv
<1> SUFFICES ASSUME Init PROVE LinkInv
  OBVIOUS
<1>1. runQueue \in Seq(Requests)
  BY DEF Init
<1>2. hci \in {"INITIALIZING", "OFF"}
  BY DEF Init, PowerOnResults
<1>3. /\ pairing_state \in PairingStates /\ player_leds \in 0..15
      /\ linkKeys \subseteq Peers /\ hci \in HciStates /\ chan \in Channels
  BY <1>2 DEF Init, PairingStates, HciStates, Channels
<1>4. TypeOK
  BY <1>1, <1>3 DEF Init, TypeOK
<1>5. QED
  BY <1>2, <1>4 DEF Init, LinkInv, PairedExact, ClosedIsClean, SendLoopAlive,
     CyclePendingOnlyHalting, NoChannelWithoutLink

\* Deleting the link keys adds none, and forgetting the connection resets
\* the three connection variables.
LEMMA DeleteType ==
    ASSUME TypeOK, gap_delete_all_link_keys PROVE linkKeys' \subseteq Peers
BY DEF TypeOK, gap_delete_all_link_keys

LEMMA ForgetType ==
    ASSUME ForgetConnection
    PROVE  paired' = FALSE /\ hid_cid' = 0 /\ pairing_state' = 0 /\ pairing_state' \in PairingStates
BY DEF ForgetConnection, PairingStates

LEMMA LinkInvStep == LinkInv /\ [Next]_vars => LinkInv'
<1> SUFFICES ASSUME LinkInv, [Next]_vars PROVE LinkInv'
  OBVIOUS
<1> USE DEF LinkInv
<1>a. ASSUME NEW k \in Requests, Request(k) PROVE LinkInv'
  <2>1. runQueue' \in Seq(Requests)
    BY <1>a DEF Request, TypeOK
  <2>2. QED
    BY <1>a, <2>1 DEF Request, TypeOK, link, power, seen, keys, chann, PairedExact,
       ClosedIsClean, SendLoopAlive, CyclePendingOnlyHalting, NoChannelWithoutLink, LinkUp
<1>b. ASSUME NEW ps \in SUBSET Peers, import_link_keys(ps) PROVE LinkInv'
  BY <1>b DEF import_link_keys, TypeOK, link, power, seen, chann, PairedExact,
     ClosedIsClean, SendLoopAlive, CyclePendingOnlyHalting, NoChannelWithoutLink, LinkUp
<1>c. CASE trigger_shutdown
  <2>1. /\ hci' \in HciStates /\ pending_power_on' \in BOOLEAN /\ hci' # "WORKING"
        /\ pending_power_on' => hci' = "HALTING"
        /\ LinkUp <=> hci' = "HALTING"
    BY <1>c, PowerOffFacts DEF trigger_shutdown, TypeOK
  <2>2. QED
    BY <1>c, <2>1 DEF trigger_shutdown, TypeOK, link, seen, keys, chann, PairedExact,
       ClosedIsClean, SendLoopAlive, CyclePendingOnlyHalting, NoChannelWithoutLink, LinkUp
<1>d. ASSUME NEW k, TakeRequest(k) PROVE runQueue' \in Seq(Requests)
  BY <1>d DEF TakeRequest, TypeOK
<1>e. ASSUME hci_power_cycle
      PROVE  /\ hci' \in HciStates /\ pending_power_on' \in BOOLEAN /\ hci' # "WORKING"
             /\ pending_power_on' => hci' = "HALTING"
             /\ LinkUp <=> hci' = "HALTING"
  BY <1>e, PowerOffFacts DEF hci_power_cycle
<1>f. CASE do_reconnect_on_main
  <2>a. runQueue' \in Seq(Requests)
    BY <1>d, <1>f DEF do_reconnect_on_main
  <2>b. reconnect_target_addr' \in Peers \cup {NoPeer} /\ pending_active_connect' \in BOOLEAN
    BY <1>f DEF do_reconnect_on_main, TypeOK
  <2>1. TypeOK'
    BY <2>a, <2>b, <1>e, <1>f, ForgetType DEF do_reconnect_on_main, TypeOK, seen, chann
  <2>2. QED
    BY <2>1, <1>e, <1>f DEF do_reconnect_on_main, ForgetConnection, seen, chann, PairedExact,
       ClosedIsClean, SendLoopAlive, CyclePendingOnlyHalting, NoChannelWithoutLink, LinkUp
<1>g. CASE do_sync_on_main
  <2>a. runQueue' \in Seq(Requests)
    BY <1>d, <1>g DEF do_sync_on_main
  <2>1. TypeOK'
    BY <2>a, <1>e, <1>g, ForgetType, DeleteType DEF do_sync_on_main, TypeOK, seen, chann
  <2>2. QED
    BY <2>1, <1>e, <1>g DEF do_sync_on_main, ForgetConnection, seen, chann, PairedExact,
       ClosedIsClean, SendLoopAlive, CyclePendingOnlyHalting, NoChannelWithoutLink, LinkUp
<1>h. CASE do_disconnect_on_main
  <2>1. TypeOK'
    BY <1>d, <1>h DEF do_disconnect_on_main, TypeOK, link, power, seen, keys
  <2>2. QED
    BY <2>1, <1>h DEF do_disconnect_on_main, link, power, PairedExact, ClosedIsClean,
       SendLoopAlive, CyclePendingOnlyHalting, NoChannelWithoutLink, LinkUp
<1>i. CASE HciWorking
  <2>1. chan = "closed" /\ hci' = "WORKING"
    BY <1>i DEF HciWorking, NoChannelWithoutLink, LinkUp
  <2>2. (chan' = "connecting" /\ hid_cid' = 1) \/ (chan' = chan /\ hid_cid' = hid_cid)
    BY <1>i DEF HciWorking, hid_device_connect
  <2>3. TypeOK'
    BY <1>i, <2>2 DEF HciWorking, TypeOK, HciStates, Channels, seen
  <2>4. QED
    BY <1>i, <2>1, <2>2, <2>3 DEF HciWorking, PairedExact, ClosedIsClean, SendLoopAlive,
       CyclePendingOnlyHalting, NoChannelWithoutLink, LinkUp
<1>j. CASE HciOff
  BY <1>j DEF HciOff, OffEvent, PowerOnResults, TypeOK, HciStates, link, seen, keys, chann,
     PairedExact, ClosedIsClean, SendLoopAlive, CyclePendingOnlyHalting,
     NoChannelWithoutLink, LinkUp
<1>k. ASSUME NEW p \in Peers, LinkKeyNotification(p) PROVE LinkInv'
  BY <1>k DEF LinkKeyNotification, TypeOK, link, power, seen, chann, PairedExact,
     ClosedIsClean, SendLoopAlive, CyclePendingOnlyHalting, NoChannelWithoutLink, LinkUp
<1>l. CASE IncomingConnection
  BY <1>l DEF IncomingConnection, TypeOK, Channels, link, power, seen, keys, PairedExact,
     ClosedIsClean, SendLoopAlive, CyclePendingOnlyHalting, NoChannelWithoutLink, LinkUp
<1>m. CASE Opened
  BY <1>m DEF Opened, TypeOK, Channels, power, seen, keys, PairedExact, ClosedIsClean,
     SendLoopAlive, CyclePendingOnlyHalting, NoChannelWithoutLink, LinkUp
<1>n. CASE OpenFailedAuth
  <2>1. TypeOK'
    BY <1>e, <1>n, ForgetType, DeleteType DEF OpenFailedAuth, TypeOK, Channels, seen
  <2>2. QED
    BY <2>1, <1>e, <1>n DEF OpenFailedAuth, ForgetConnection, PairedExact, ClosedIsClean,
       SendLoopAlive, CyclePendingOnlyHalting, NoChannelWithoutLink, LinkUp
<1>o. CASE OpenRejected
  BY <1>o DEF OpenRejected, TypeOK, Channels, power, seen, keys, PairedExact, ClosedIsClean,
     SendLoopAlive, CyclePendingOnlyHalting, NoChannelWithoutLink, LinkUp
<1>p. CASE Closed
  <2>1. TypeOK'
    BY <1>p, ForgetType DEF Closed, TypeOK, Channels, power, seen, keys
  <2>2. QED
    BY <2>1, <1>p, ForgetType DEF Closed, power, PairedExact, ClosedIsClean, SendLoopAlive,
       CyclePendingOnlyHalting, NoChannelWithoutLink, LinkUp
<1>q. ASSUME NEW r \in Reports, hid_report_data_callback(r) PROVE LinkInv'
  <2>1. r.leds \in 0..15 /\ r.rumbles \in BOOLEAN
    <3>1. r.leds \in Leds \cup {0} /\ r.rumbles \in BOOLEAN
      BY DEF Reports
    <3>2. 0 \in 0..15
      OBVIOUS
    <3>3. QED
      BY <3>1, <3>2, LedsAssumption, Zenon
  <2>2. pairing_state' \in PairingStates /\ packet_amiibo_flag' \in BOOLEAN
    BY <1>q, AfterReportType, AmiiboType DEF hid_report_data_callback, TypeOK
  <2>a. player_leds' \in 0..15 /\ rumble_flag' \in BOOLEAN /\ canSend' \in BOOLEAN
    BY <1>q, <2>1 DEF hid_report_data_callback, RequestCanSend, TypeOK
  <2>3. TypeOK'
    BY <1>q, <2>a, <2>2 DEF hid_report_data_callback, TypeOK, power, keys
  <2>4. QED
    BY <1>q, <2>3 DEF hid_report_data_callback, RequestCanSend, power, PairedExact,
       ClosedIsClean, SendLoopAlive, CyclePendingOnlyHalting, NoChannelWithoutLink, LinkUp
<1>r. CASE CanSendNow
  <2>1. pairing_state' \in PairingStates /\ paired' \in BOOLEAN
    BY <1>r, AfterSendType, PairedType DEF CanSendNow, TypeOK
  <2>2. TypeOK'
    BY <1>r, <2>1 DEF CanSendNow, RequestCanSend, TypeOK, power, seen, keys
  <2>3. paired => paired'
    BY <1>r DEF CanSendNow, PairedAfterSend
  <2>4. QED
    BY <1>r, <2>2, <2>3 DEF CanSendNow, RequestCanSend, power, PairedExact, ClosedIsClean,
       SendLoopAlive, CyclePendingOnlyHalting, NoChannelWithoutLink, LinkUp
<1>s. CASE UNCHANGED vars
  BY <1>s DEF vars, TypeOK, link, power, seen, keys, chann, PairedExact, ClosedIsClean,
     SendLoopAlive, CyclePendingOnlyHalting, NoChannelWithoutLink, LinkUp
<1>t. QED
  BY <1>a, <1>b, <1>c, <1>f, <1>g, <1>h, <1>i, <1>j, <1>k, <1>l, <1>m, <1>n, <1>o, <1>p,
     <1>q, <1>r, <1>s DEF Next, BtStep, BtEvent, CallerStep, RunRequest, OpeningEnds

-----------------------------------------------------------------------------
(* The theorems.                                                           *)

LEMMA LinkInvAlways == SafeSpec => []LinkInv
BY LinkInvInit, LinkInvStep, PTL DEF SafeSpec

\* Every variable of the connection core keeps its type; in particular
\* pairing_state always selects a packet the sender has.
THEOREM TypeCorrect == Spec => []TypeOK
<1>1. LinkInv => TypeOK
  BY DEF LinkInv
<1>2. QED
  BY <1>1, LinkInvAlways, PTL DEF Spec

\* While the stack is WORKING, paired tells exactly whether the channel is
\* open.
THEOREM PairedIsExact == Spec => []PairedExact
<1>1. LinkInv => PairedExact
  BY DEF LinkInv
<1>2. QED
  BY <1>1, LinkInvAlways, PTL DEF Spec

\* No pairing, handshake state or channel id outlives its channel.
THEOREM NothingOutlivesChannel == Spec => []ClosedIsClean
<1>1. LinkInv => ClosedIsClean
  BY DEF LinkInv
<1>2. QED
  BY <1>1, LinkInvAlways, PTL DEF Spec

\* The CAN_SEND_NOW chain of an open channel never breaks.
THEOREM SendLoopNeverDies == Spec => []SendLoopAlive
<1>1. LinkInv => SendLoopAlive
  BY DEF LinkInv
<1>2. QED
  BY <1>1, LinkInvAlways, PTL DEF Spec

\* A pending power cycle always has an OFF event to come.
THEOREM CycleNotStuck == Spec => []CyclePendingOnlyHalting
<1>1. LinkInv => CyclePendingOnlyHalting
  BY DEF LinkInv
<1>2. QED
  BY <1>1, LinkInvAlways, PTL DEF Spec

-----------------------------------------------------------------------------
(* The list of requests.                                                   *)

\* However often and from however many threads a request is made, it waits
\* in the run loop's list at most once, which bounds the list.
RequestsOnce ==
    /\ \A i, j \in 1..Len(runQueue) : runQueue[i] = runQueue[j] => i = j
    /\ Len(runQueue) <= 3

\* A list of distinct requests has no fourth entry.
LEMMA ThreeRequests ==
    ASSUME NEW q \in Seq(Requests), \A i, j \in 1..Len(q) : q[i] = q[j] => i = j
    PROVE  Len(q) <= 3
<1> SUFFICES ASSUME Len(q) > 3 PROVE FALSE
  OBVIOUS
<1>1. 1 \in 1..Len(q) /\ 2 \in 1..Len(q) /\ 3 \in 1..Len(q) /\ 4 \in 1..Len(q)
  OBVIOUS
<1>2. q[1] \in Requests /\ q[2] \in Requests /\ q[3] \in Requests /\ q[4] \in Requests
  BY <1>1
<1>3. q[1] # q[2] /\ q[1] # q[3] /\ q[1] # q[4] /\ q[2] # q[3] /\ q[2] # q[4] /\ q[3] # q[4]
  BY <1>1
<1>4. QED
  BY <1>2, <1>3 DEF Requests

LEMMA RequestsOnceStep == TypeOK /\ TypeOK' /\ RequestsOnce /\ [Next]_vars => RequestsOnce'
<1> SUFFICES ASSUME TypeOK, TypeOK', RequestsOnce, [Next]_vars
             PROVE  \A i, j \in 1..Len(runQueue') : runQueue'[i] = runQueue'[j] => i = j
  BY ThreeRequests DEF RequestsOnce, TypeOK
<1>t. runQueue \in Seq(Requests)
  BY DEF TypeOK
<1>1. \/ runQueue' = runQueue
      \/ \E k \in Requests : Request(k)
      \/ runQueue # <<>> /\ runQueue' = Tail(runQueue)
  BY DEF Next, BtStep, BtEvent, CallerStep, RunRequest, do_reconnect_on_main, do_sync_on_main,
         do_disconnect_on_main, TakeRequest, HciWorking, HciOff, LinkKeyNotification,
         IncomingConnection, OpeningEnds, Opened, OpenFailedAuth, OpenRejected, Closed,
         hid_report_data_callback, CanSendNow, import_link_keys, trigger_shutdown, vars
<1>2. CASE runQueue' = runQueue
  BY <1>2 DEF RequestsOnce
<1>3. ASSUME NEW k \in Requests, Request(k)
      PROVE  \A i, j \in 1..Len(runQueue') : runQueue'[i] = runQueue'[j] => i = j
  <2>1. runQueue' = Append(runQueue, k) /\ \A i \in 1..Len(runQueue) : runQueue[i] # k
    BY <1>3 DEF Request, QueuedRequest
  <2>2. QED
    BY <1>t, <2>1 DEF RequestsOnce
<1>4. CASE runQueue # <<>> /\ runQueue' = Tail(runQueue)
  <2>1. /\ Len(runQueue') = Len(runQueue) - 1 /\ Len(runQueue) \in Nat
        /\ \A i \in 1..Len(runQueue') : i + 1 \in 1..Len(runQueue) /\ runQueue'[i] = runQueue[i + 1]
    BY <1>t, <1>4
  <2>2. SUFFICES ASSUME NEW i \in 1..Len(runQueue'), NEW j \in 1..Len(runQueue'),
                        runQueue'[i] = runQueue'[j]
                 PROVE  i = j
    OBVIOUS
  <2>3. i + 1 = j + 1
    BY <2>1, <2>2 DEF RequestsOnce
  <2>4. QED
    BY <2>1, <2>3
<1>5. QED
  BY <1>1, <1>2, <1>3, <1>4

\* The run loop's list holds each request at most once (btkeyLib.c 547-644).
THEOREM RequestsAreQueuedOnce == SafeSpec => []RequestsOnce
<1>1. Init => RequestsOnce
  BY DEF Init, RequestsOnce
<1>2. LinkInv => TypeOK
  BY DEF LinkInv
<1>3. QED
  BY <1>1, <1>2, LinkInvAlways, RequestsOnceStep, PTL DEF SafeSpec

-----------------------------------------------------------------------------
(* Conversations with the console.  How long a reply keeps the input       *)
(* reports away is a matter of single packets, once PairedExact is known.  *)

\* The replies that are to end by themselves.
Replies == PairingStates \ (InputStates \cup UntilNext)

\* State 21 has a packet in the sender, but nothing leads to it.
Conversing == LinkInv /\ pairing_state # 21

LEMMA ReportAvoids21 ==
    ASSUME NEW sub, NEW ps \in PairingStates, NEW p, NEW a, ps # 21
    PROVE  AfterReport(sub, ps, p, a) # 21
<1>1. \A x \in DOMAIN FixedReply : FixedReply[x] # 21
  BY DEF FixedReply
<1>2. QED
  BY <1>1 DEF AfterReport, LightsReply

LEMMA SendAvoids21 ==
    ASSUME NEW ps \in PairingStates, NEW p, ps # 21
    PROVE  AfterSend(ps, p) # 21
BY DEF AfterSend, PairingStates

\* A packet leaves the state alone or ends its reply.
LEMMA SendKeepsOrEnds ==
    ASSUME NEW ps \in PairingStates, NEW p, AfterSend(ps, p) # ps
    PROVE  AfterSend(ps, p) \notin UntilNext
<1>1. AfterSend(ps, p) \in {0, 13, 17, 19, 22, 23, 25, 26, 27}
  BY DEF AfterSend, PairingStates
<1>2. QED
  BY <1>1 DEF UntilNext

LEMMA ConversingStep == Conversing /\ [Next]_vars => Conversing'
<1> SUFFICES ASSUME Conversing, [Next]_vars PROVE Conversing'
  OBVIOUS
<1>1. LinkInv' /\ pairing_state \in PairingStates
  BY LinkInvStep DEF Conversing, LinkInv, TypeOK
<1>2. \/ pairing_state' = pairing_state
      \/ pairing_state' = 0
      \/ \E r \in Reports : hid_report_data_callback(r)
      \/ CanSendNow
  BY DEF Next, BtStep, BtEvent, CallerStep, RunRequest, do_reconnect_on_main, do_sync_on_main,
         do_disconnect_on_main, ForgetConnection, HciWorking, HciOff, LinkKeyNotification,
         IncomingConnection, OpeningEnds, Opened, OpenFailedAuth, OpenRejected, Closed, Request,
         import_link_keys, trigger_shutdown, vars, link
<1>3. ASSUME NEW r \in Reports, hid_report_data_callback(r) PROVE pairing_state' # 21
  <2>1. pairing_state' = AfterReport(r.sub, pairing_state, paired, packet_amiibo_flag)
    BY <1>3 DEF hid_report_data_callback
  <2>2. QED
    BY <1>1, <2>1, ReportAvoids21 DEF Conversing
<1>4. ASSUME CanSendNow PROVE pairing_state' # 21
  <2>1. pairing_state' = AfterSend(pairing_state, paired)
    BY <1>4 DEF CanSendNow
  <2>2. QED
    BY <1>1, <2>1, SendAvoids21 DEF Conversing
<1>5. pairing_state' # 21
  BY <1>2, <1>3, <1>4 DEF Conversing
<1>6. QED
  BY <1>1, <1>5 DEF Conversing

LEMMA ConversingAlways == SafeSpec => []Conversing
<1>1. Init => Conversing
  BY LinkInvInit DEF Init, Conversing
<1>2. QED
  BY <1>1, ConversingStep, PTL DEF SafeSpec

\* A reply that is to end by itself does so with its first packet: the next
\* one carries input (btkeyLib.c 1605-1623).  The safety half of
\* InputResumes; the pairing flag that state 13 asks for is always set on a
\* stack that is up.
OnePacketAnswers ==
    [][(hci = "WORKING" /\ pairing_state \in Replies /\ CanSendNow)
           => pairing_state' \in InputStates]_vars

\* Sending the reply to a single subcommand brings the controller back to input.
THEOREM RepliesAreShort == SafeSpec => OnePacketAnswers
<1>1. ASSUME Conversing, hci = "WORKING", pairing_state \in Replies, CanSendNow
      PROVE  pairing_state' \in InputStates
  <2>1. paired
    BY <1>1 DEF Conversing, LinkInv, PairedExact, CanSendNow
  <2>2. pairing_state \in {13, 14, 15, 16, 18, 23, 28, 29}
    BY <1>1 DEF Conversing, Replies, PairingStates, InputStates, UntilNext
  <2>3. pairing_state' = AfterSend(pairing_state, paired)
    BY <1>1 DEF CanSendNow
  <2>4. QED
    BY <2>1, <2>2, <2>3 DEF AfterSend, InputStates
<1>2. QED
  BY <1>1, ConversingAlways, PTL DEF SafeSpec, OnePacketAnswers

\* The subcommands whose reply is repeated until the next one comes.
Repeated == {s \in DOMAIN FixedReply : FixedReply[s] \in UntilNext} \cup {"mode_simple"}

\* Input stops for longer only because the console asked for a repeated
\* reply (btkeyLib.c 1134-1255): nothing that the controller does by itself,
\* no request and no event of the stack, starts one.
InputStopsWhenAsked ==
    [][(pairing_state \notin UntilNext /\ pairing_state' \in UntilNext)
           => \E r \in Reports : r.sub \in Repeated /\ hid_report_data_callback(r)]_vars

\* Every repeated reply begins with a report that asks for one.
THEOREM InputStopsOnlyWhenAsked == SafeSpec => InputStopsWhenAsked
<1>1. ASSUME Conversing, [Next]_vars, pairing_state \notin UntilNext, pairing_state' \in UntilNext
      PROVE  \E r \in Reports : r.sub \in Repeated /\ hid_report_data_callback(r)
  <2>0. pairing_state \in PairingStates
    BY <1>1 DEF Conversing, LinkInv, TypeOK
  <2>1. \/ \E r \in Reports : hid_report_data_callback(r)
        \/ CanSendNow
    <3>1. 0 \notin UntilNext
      BY DEF UntilNext
    <3>2. QED
      BY <1>1, <3>1
         DEF Next, BtStep, BtEvent, CallerStep, RunRequest, do_reconnect_on_main, do_sync_on_main,
             do_disconnect_on_main, ForgetConnection, HciWorking, HciOff, LinkKeyNotification,
             IncomingConnection, OpeningEnds, Opened, OpenFailedAuth, OpenRejected, Closed, Request,
             import_link_keys, trigger_shutdown, vars, link
  <2>2. ~CanSendNow
    <3>1. ASSUME CanSendNow PROVE FALSE
      <4>1. pairing_state' = AfterSend(pairing_state, paired)
        BY <3>1 DEF CanSendNow
      <4>2. QED
        BY <1>1, <2>0, <4>1, SendKeepsOrEnds
    <3>2. QED
      BY <3>1
  <2>3. PICK r \in Reports : hid_report_data_callback(r)
    BY <2>1, <2>2
  <2>4. AfterReport(r.sub, pairing_state, paired, packet_amiibo_flag) \in UntilNext
    BY <1>1, <2>3 DEF hid_report_data_callback
  <2>5. r.sub \in Repeated
    <3>1. CASE r.sub \in DOMAIN FixedReply
      BY <2>4, <3>1 DEF AfterReport, Repeated
    <3>2. CASE r.sub \notin DOMAIN FixedReply
      <4>1. 14 \notin UntilNext /\ 18 \notin UntilNext /\ 24 \notin UntilNext /\ 29 \notin UntilNext
        BY DEF UntilNext
      <4>2. r.sub = "mode_simple"
        BY <1>1, <2>4, <3>2, <4>1 DEF AfterReport, LightsReply
      <4>3. QED
        BY <4>2 DEF Repeated
    <3>3. QED
      BY <3>1, <3>2
  <2>6. QED
    BY <2>3, <2>5
<1>2. QED
  BY <1>1, ConversingAlways, PTL DEF SafeSpec, InputStopsWhenAsked

\* On a stack that is up, Set Player Lights ends a handshake and does nothing
\* outside one (btkeyLib.c 1220-1233); the case of a console that is not yet
\* paired cannot arise there, since a console that reports has a channel.
LightsEndHandshake ==
    [][\A r \in Reports : (hci = "WORKING" /\ r.sub = "lights" /\ hid_report_data_callback(r))
           => pairing_state' = IF pairing_state = 0 THEN 0 ELSE 14]_vars

\* Set Player Lights is answered inside a handshake and ignored outside one.
THEOREM LightsOnlyEndHandshakes == SafeSpec => LightsEndHandshake
<1>1. ASSUME Conversing, NEW r \in Reports,
             hci = "WORKING", r.sub = "lights", hid_report_data_callback(r)
      PROVE  pairing_state' = IF pairing_state = 0 THEN 0 ELSE 14
  <2>1. paired
    BY <1>1 DEF Conversing, LinkInv, PairedExact, hid_report_data_callback
  <2>2. "lights" \notin DOMAIN FixedReply
    BY DEF FixedReply
  <2>3. pairing_state' = AfterReport("lights", pairing_state, paired, packet_amiibo_flag)
    BY <1>1 DEF hid_report_data_callback
  <2>4. QED
    BY <2>1, <2>2, <2>3 DEF AfterReport, LightsReply
<1>2. Conversing =>
          \A r \in Reports : (hci = "WORKING" /\ r.sub = "lights" /\ hid_report_data_callback(r))
              => pairing_state' = IF pairing_state = 0 THEN 0 ELSE 14
  BY <1>1
<1>3. QED
  BY <1>2, ConversingAlways, PTL DEF SafeSpec, LightsEndHandshake

-----------------------------------------------------------------------------
(* The target of an active connect.                                        *)

\* An active connect is never pending without a console to connect to
\* (btkeyLib.c 559-570, 1411): what a sync leaves pending may be a console
\* whose key has gone, but not the all-zero address.
TargetKnown == pending_active_connect => reconnect_target_addr \in Peers

LEMMA TargetStep == TypeOK /\ TargetKnown /\ [Next]_vars => TargetKnown'
<1> SUFFICES ASSUME TypeOK, TargetKnown, [Next]_vars PROVE TargetKnown'
  OBVIOUS
<1>1. \/ UNCHANGED <<pending_active_connect, reconnect_target_addr>>
      \/ pending_active_connect' = FALSE
      \/ \E p \in Peers : reconnect_target_addr' = p
      \/ do_reconnect_on_main
  BY DEF Next, BtStep, BtEvent, CallerStep, RunRequest, do_sync_on_main, do_disconnect_on_main, HciWorking,
         HciOff, LinkKeyNotification, IncomingConnection, OpeningEnds, Opened, OpenFailedAuth,
         OpenRejected, Closed, hid_report_data_callback, CanSendNow, Request, import_link_keys,
         trigger_shutdown, vars, power, keys
<1>2. CASE do_reconnect_on_main
  BY <1>2 DEF do_reconnect_on_main, TypeOK, TargetKnown
<1>3. QED
  BY <1>1, <1>2 DEF TargetKnown

\* Whatever becomes of its key, an active connect always has a console to go to.
THEOREM ActiveConnectHasTarget == SafeSpec => []TargetKnown
<1>1. Init => TargetKnown
  BY DEF Init, TargetKnown
<1>2. LinkInv => TypeOK
  BY DEF LinkInv
<1>3. QED
  BY <1>1, <1>2, LinkInvAlways, TargetStep, PTL DEF SafeSpec

\* A stack that is up knows the link key data base, so that deleting the
\* keys there does delete them.
KeyDbKnown == LinkUp => keyDbSet

LEMMA KeyDbStep == KeyDbKnown /\ [Next]_vars => KeyDbKnown'
<1> SUFFICES ASSUME KeyDbKnown, [Next]_vars PROVE KeyDbKnown'
  OBVIOUS
<1>1. ASSUME NEW p, PowerOff(p) PROVE LinkUp' => LinkUp
  BY <1>1 DEF PowerOff, OffEvent, PowerOnResults, LinkUp
<1>2. CASE HciWorking
  BY <1>2 DEF HciWorking, KeyDbKnown
<1>3. CASE ~HciWorking
  <2>1. keyDbSet' = keyDbSet
    BY <1>3 DEF Next, BtStep, BtEvent, CallerStep, RunRequest, do_reconnect_on_main,
       do_sync_on_main, do_disconnect_on_main, HciOff, LinkKeyNotification, IncomingConnection,
       OpeningEnds, Opened, OpenFailedAuth, OpenRejected, Closed, hid_report_data_callback,
       CanSendNow, Request, import_link_keys, trigger_shutdown, vars, keys
  <2>2. CASE trigger_shutdown \/ do_reconnect_on_main \/ do_sync_on_main \/ OpenFailedAuth
    <3>1. \E p \in {TRUE, pending_power_on} : PowerOff(p)
      BY <2>2 DEF trigger_shutdown, do_reconnect_on_main, do_sync_on_main, OpenFailedAuth,
         hci_power_cycle
    <3>2. QED
      BY <1>1, <2>1, <3>1 DEF KeyDbKnown
  <2>3. CASE HciOff
    BY <2>3 DEF HciOff, OffEvent, PowerOnResults, KeyDbKnown, LinkUp
  <2>4. CASE ~(trigger_shutdown \/ do_reconnect_on_main \/ do_sync_on_main \/ OpenFailedAuth \/ HciOff)
    <3>1. hci' = hci
      BY <1>3, <2>4 DEF Next, BtStep, BtEvent, CallerStep, RunRequest, do_disconnect_on_main,
         LinkKeyNotification, IncomingConnection, OpeningEnds, Opened, OpenRejected, Closed,
         hid_report_data_callback, CanSendNow, Request, import_link_keys, vars, power
    <3>2. QED
      BY <2>1, <3>1 DEF KeyDbKnown, LinkUp
  <2>5. QED
    BY <2>2, <2>3, <2>4
<1>4. QED
  BY <1>2, <1>3

\* A reconnect that found a key is not dropped: the next WORKING stack
\* begins the connection (unless BTStack refuses), and all that gives it up
\* before is a data base without a key, be it emptied by a failed
\* authentication or found empty by another reconnect (btkeyLib.c 559-570,
\* 1411-1423, 1432-1445).  The safety half of ActiveConnectAttempted.
ReconnectIsKept ==
    [][(pending_active_connect /\ ~pending_active_connect') =>
           \/ HciWorking /\ (ConnectBegun' \/ ConnectMayFail)
           \/ linkKeys' = {}]_vars

\* A pending active connect ends in an attempt or for want of keys.
THEOREM ReconnectsAreNotDropped == SafeSpec => ReconnectIsKept
<1> DEFINE Kept ==
      (pending_active_connect /\ ~pending_active_connect') =>
          (HciWorking /\ (ConnectBegun' \/ ConnectMayFail)) \/ linkKeys' = {}
<1>1. KeyDbKnown /\ [Next]_vars => [Kept]_vars
  <2> SUFFICES ASSUME KeyDbKnown, Next, pending_active_connect, ~pending_active_connect'
               PROVE  (HciWorking /\ (ConnectBegun' \/ ConnectMayFail)) \/ linkKeys' = {}
    OBVIOUS
  <2>1. HciWorking \/ OpenFailedAuth \/ do_reconnect_on_main
    BY DEF Next, BtStep, BtEvent, CallerStep, RunRequest, do_sync_on_main, do_disconnect_on_main,
       HciOff, LinkKeyNotification, IncomingConnection, OpeningEnds, Opened, OpenRejected, Closed,
       hid_report_data_callback, CanSendNow, Request, import_link_keys, trigger_shutdown, power
  <2>2. CASE HciWorking
    BY <2>2 DEF HciWorking, hid_device_connect, ConnectBegun
  <2>3. CASE OpenFailedAuth
    BY <2>3 DEF OpenFailedAuth, gap_delete_all_link_keys, KeyDbKnown
  <2>4. CASE do_reconnect_on_main
    BY <2>4 DEF do_reconnect_on_main
  <2>5. QED
    BY <2>1, <2>2, <2>3, <2>4
<1>2. Init => KeyDbKnown
  BY DEF Init, PowerOnResults, KeyDbKnown, LinkUp
<1>3. QED
  BY <1>1, <1>2, KeyDbStep, PTL DEF SafeSpec, ReconnectIsKept

-----------------------------------------------------------------------------
(* Power cycles and requests to disconnect.                                *)

\* A power cycle that is under way is never given up: whatever is requested
\* meanwhile, a shutdown included, it ends with the OFF event, and that
\* powers on again (btkeyLib.c 1381).  The safety half of
\* PowerCycleCompletes.
CycleEndsByPowerOn ==
    [][(pending_power_on /\ ~pending_power_on') => HciOff /\ hci' \in PowerOnResults]_vars

\* No step ends a power cycle but the OFF event it waits for.
THEOREM CyclesAreNotGivenUp == SafeSpec => CycleEndsByPowerOn
<1>1. ASSUME LinkInv, [Next]_vars, pending_power_on, ~pending_power_on'
      PROVE  HciOff /\ hci' \in PowerOnResults
  <2>1. hci = "HALTING"
    BY <1>1 DEF LinkInv, CyclePendingOnlyHalting
  <2>2. ASSUME NEW p \in BOOLEAN, PowerOff(p) PROVE pending_power_on' = p
    BY <2>1, <2>2 DEF PowerOff
  <2>3. ~trigger_shutdown
    BY <1>1, <2>1 DEF trigger_shutdown, PowerOff
  <2>4. ~do_reconnect_on_main /\ ~do_sync_on_main /\ ~OpenFailedAuth
    BY <1>1, <2>1 DEF do_reconnect_on_main, do_sync_on_main, OpenFailedAuth, hci_power_cycle, PowerOff
  <2>5. HciOff
    BY <1>1, <2>3, <2>4 DEF Next, BtStep, BtEvent, CallerStep, RunRequest, do_disconnect_on_main, HciWorking,
       LinkKeyNotification, IncomingConnection, OpeningEnds, Opened, OpenRejected, Closed,
       hid_report_data_callback, CanSendNow, Request, import_link_keys, vars, power
  <2>6. QED
    BY <1>1, <2>5 DEF HciOff, OffEvent
<1>2. LinkInv /\ [Next]_vars => [(pending_power_on /\ ~pending_power_on') => HciOff /\ hci' \in PowerOnResults]_vars
  BY <1>1
<1>3. QED
  BY <1>2, LinkInvAlways, PTL DEF SafeSpec, CycleEndsByPowerOn

\* A stack that is off or powers up has nothing left of a connection, so
\* that the next one starts as the first did.
PowersUpClean ==
    hci \in {"OFF", "INITIALIZING"} =>
        /\ chan = "closed" /\ hid_cid = 0
        /\ ~paired /\ pairing_state = 0

\* Every power cycle sheds the whole state of the connection before it, also
\* if the channel still had events to deliver while the stack went down.
THEOREM PowerCyclesStartAfresh == SafeSpec => []PowersUpClean
<1>1. LinkInv => PowersUpClean
  BY DEF LinkInv, NoChannelWithoutLink, LinkUp, ClosedIsClean, PowersUpClean
<1>2. QED
  BY <1>1, LinkInvAlways, PTL

\* A disconnect that finds an open channel on a stack that is up asks for
\* it to be closed, and what was asked for is not forgotten before the
\* channel is closed (btkeyLib.c 623-627).  The safety half of
\* DisconnectServed.
DisconnectIsKept ==
    [][/\ (hci = "WORKING" /\ chan = "open" /\ do_disconnect_on_main) => closing'
       /\ (closing /\ ~closing') => chan' = "closed"]_vars

\* hid_cid names the channel whenever there is one to disconnect.
THEOREM DisconnectsAreNotLost == SafeSpec => DisconnectIsKept
<1> DEFINE Kept ==
      /\ (hci = "WORKING" /\ chan = "open" /\ do_disconnect_on_main) => closing'
      /\ (closing /\ ~closing') => chan' = "closed"
<1>1. LinkInv /\ [Next]_vars => [Kept]_vars
  <2> SUFFICES ASSUME LinkInv, Next PROVE Kept
    OBVIOUS
  <2>1. (hci = "WORKING" /\ chan = "open" /\ do_disconnect_on_main) => closing'
    BY DEF LinkInv, SendLoopAlive, do_disconnect_on_main
  <2>2. (closing /\ ~closing') => chan' = "closed"
    <3>1. \/ closing' = closing \/ do_disconnect_on_main
          \/ chan' = "closed"
      BY DEF Next, BtStep, BtEvent, CallerStep, RunRequest, do_reconnect_on_main, do_sync_on_main, HciWorking,
         HciOff, LinkKeyNotification, IncomingConnection, OpeningEnds, Opened, OpenFailedAuth,
         OpenRejected, Closed, hid_report_data_callback, CanSendNow, Request, import_link_keys,
         trigger_shutdown, chann
    <3>2. QED
      BY <3>1 DEF do_disconnect_on_main
  <2>3. QED
    BY <2>1, <2>2
<1>2. QED
  BY <1>1, LinkInvAlways, PTL DEF SafeSpec, DisconnectIsKept
=============================================================================

---------------------------- MODULE WorkerProofs ----------------------------
(***************************************************************************)
(* The worker, for any number of pairing loops, any retry interval and any *)
(* commands: the stack stays safe, a call into it leaves no field set with *)
(* nothing on its way, and syncing is never set without a loop that will   *)
(* clear it.                                                               *)
(***************************************************************************)
EXTENDS Worker, BtKeyLibProofs

-----------------------------------------------------------------------------
(* The calls into btkeyLib.c.                                              *)

CallStates == {NoCall} \cup [kind : Requests, at : {"checked", "registered"}]

CallTypes ==
    /\ callback \in [Requests -> BOOLEAN]
    /\ call \in [Callers -> CallStates]
    /\ handling \in Requests \cup {NoRequest}

\* A thread asks when no call of its own is under way, and a pairing loop
\* asks for nothing but a sync.
Asks ==
    \/ \E k \in Requests : call[Main] = NoCall /\ Ask(Main, k)
    \/ \E i \in Loops : call[i] = NoCall /\ Ask(i, "sync")

\* What a step of the worker is for the calls.
LEMMA CallSteps ==
    [WNext]_wvars =>
        \/ UNCHANGED <<calls, runQueue>>
        \/ Asks
        \/ \E t \in Callers : Register(t) \/ Enqueue(t)
        \/ Dispatch
        \/ Clear
<1> SUFFICES ASSUME [WNext]_wvars
             PROVE  \/ UNCHANGED <<calls, runQueue>>
                    \/ Asks
                    \/ \E t \in Callers : Register(t) \/ Enqueue(t)
                    \/ Dispatch
                    \/ Clear
  OBVIOUS
<1>k. "reconnect" \in Requests /\ "sync" \in Requests /\ "disconnect" \in Requests
  BY DEF Requests
<1>1. CASE Bt(BtEvent)
  BY <1>1 DEF Bt, BtEvent, HciWorking, HciOff, LinkKeyNotification, IncomingConnection,
     OpeningEnds, Opened, OpenFailedAuth, OpenRejected, Closed, hid_report_data_callback,
     CanSendNow
<1>2. CASE RunLoopStep
  BY <1>2 DEF RunLoopStep, NullCall, vars
<1>3. CASE MainStep
  <2>1. CASE CmdReconnect \/ CmdSync \/ CmdDisconnect
    BY <1>k, <2>1 DEF CmdReconnect, CmdSync, CmdDisconnect, Command, MainAt, Asks
  <2>2. CASE ~(CmdReconnect \/ CmdSync \/ CmdDisconnect)
    BY <1>3, <2>2 DEF MainStep, Ready, CmdGetLinkKeys, CmdSyncStop, CmdReconnectKeys,
       CmdSetLinkKeys, CmdSyncStart, CmdShutdown, ShutdownGoesOn, EndOfInput, Shutdown, Exit,
       import_link_keys, trigger_shutdown, vars
  <2>3. QED
    BY <2>1, <2>2
<1>4. CASE \E t \in Callers : CallStep(t)
  BY <1>4 DEF CallStep
<1>5. ASSUME NEW i \in Loops, LoopStep(i)
      PROVE  UNCHANGED <<calls, runQueue>> \/ Asks
  <2>1. CASE LoopStart(i) \/ LoopRetries(i)
    BY <2>1 DEF LoopStart, LoopRetries, LoopAt, Asks
  <2>2. CASE ~(LoopStart(i) \/ LoopRetries(i))
    BY <1>5, <2>2 DEF LoopStep, LoopWake, LoopLooks, LoopWaits, LoopSucceeds, LoopSends, vars
  <2>3. QED
    BY <2>1, <2>2
<1>6. CASE StatusStep
  BY <1>6 DEF StatusStep, StatusIsPaired, StatusIsSyncing, StatusStops, StatusSends, vars
<1>7. CASE UNCHANGED wvars
  BY <1>7 DEF wvars, vars
<1>8. QED
  BY <1>1, <1>2, <1>3, <1>4, <1>5, <1>6, <1>7 DEF WNext

\* The run loop pops a request.
LEMMA DispatchPops ==
    ASSUME Dispatch
    PROVE  /\ runQueue # <<>> /\ Head(runQueue) \in Requests /\ runQueue' = Tail(runQueue)
           /\ callback[Head(runQueue)] /\ handling' = Head(runQueue)
           /\ UNCHANGED <<callback, call>>
BY DEF Dispatch, RunRequest, do_reconnect_on_main, do_sync_on_main, do_disconnect_on_main,
       TakeRequest, Requests

LEMMA CallTypesStep == CallTypes /\ [WNext]_wvars => CallTypes'
<1> SUFFICES ASSUME CallTypes, [WNext]_wvars PROVE CallTypes'
  OBVIOUS
<1> USE DEF CallTypes
<1>1. CASE UNCHANGED <<calls, runQueue>>
  BY <1>1 DEF calls
<1>2. ASSUME NEW t \in Callers, NEW k \in Requests, Ask(t, k) PROVE CallTypes'
  <2>1. [kind |-> k, at |-> "checked"] \in CallStates
    BY DEF CallStates
  <2>2. QED
    BY <1>2, <2>1 DEF Ask
<1>3. CASE Asks
  <2>1. Main \in Callers /\ Loops \subseteq Callers /\ "sync" \in Requests
    BY DEF Callers, Requests
  <2>2. QED
    BY <1>2, <1>3, <2>1 DEF Asks
<1>4. ASSUME NEW t \in Callers, Register(t) PROVE CallTypes'
  <2>1. call[t] \in [kind : Requests, at : {"checked", "registered"}]
    BY <1>4 DEF Register, CallStates, NoCall
  <2>2. [call[t] EXCEPT !.at = "registered"] \in CallStates
    BY <2>1 DEF CallStates
  <2>3. call' = [call EXCEPT ![t] = [call[t] EXCEPT !.at = "registered"]]
    BY <1>4 DEF Register
  <2>4. QED
    BY <1>4, <2>1, <2>2, <2>3 DEF Register
<1>5. ASSUME NEW t \in Callers, Enqueue(t) PROVE CallTypes'
  <2>1. NoCall \in CallStates
    BY DEF CallStates
  <2>2. QED
    BY <1>5, <2>1 DEF Enqueue
<1>6. CASE Dispatch
  BY <1>6, DispatchPops
<1>7. CASE Clear
  BY <1>7 DEF Clear
<1>8. QED
  BY <1>1, <1>3, <1>4, <1>5, <1>6, <1>7, CallSteps

LEMMA CallTypesAlways == WSafeSpec => []CallTypes
<1>1. WInit => CallTypes
  BY DEF WInit, CallTypes, CallStates
<1>2. QED
  BY <1>1, CallTypesStep, PTL DEF WSafeSpec

-----------------------------------------------------------------------------
(* The stack in the worker.                                                *)

\* Every step of the worker is, for the stack, a step of its own, a step of
\* a caller, or nothing.
LEMMA StackStep == CallTypes /\ [WNext]_wvars => [Next]_vars
<1> SUFFICES ASSUME CallTypes, [WNext]_wvars PROVE [Next]_vars
  OBVIOUS
<1>1. CASE Bt(BtEvent) \/ RunLoopStep
  BY <1>1 DEF Bt, RunLoopStep, Dispatch, NullCall, Clear, Next, BtStep
<1>2. CASE MainStep
  <2>1. ASSUME NEW ks \in SUBSET Peers, import_link_keys(ks) PROVE [Next]_vars
    BY <2>1 DEF Next, CallerStep
  <2>2. CASE \E ks \in SUBSET Peers : CmdReconnectKeys(ks) \/ CmdSetLinkKeys(ks)
    BY <2>1, <2>2 DEF CmdReconnectKeys, CmdSetLinkKeys
  <2>3. CASE ShutdownGoesOn \/ EndOfInput
    BY <2>3 DEF ShutdownGoesOn, EndOfInput, Shutdown, Next, CallerStep
  <2>4. CASE \/ Ready \/ CmdSync \/ CmdDisconnect \/ CmdGetLinkKeys \/ CmdSyncStop \/ CmdReconnect
             \/ (\E i \in Loops : CmdSyncStart(i)) \/ CmdShutdown \/ Exit
    BY <2>4 DEF Ready, CmdSync, CmdDisconnect, CmdGetLinkKeys, CmdSyncStop, CmdReconnect,
       CmdSyncStart, CmdShutdown, Exit, Ask
  <2>5. QED
    BY <1>2, <2>2, <2>3, <2>4 DEF MainStep
<1>3. ASSUME NEW t \in Callers, CallStep(t) PROVE [Next]_vars
  <2>1. CASE Register(t)
    BY <2>1 DEF Register
  <2>2. CASE Enqueue(t)
    <3>1. call[t].kind \in Requests
      BY <2>2 DEF Enqueue, CallTypes, CallStates, NoCall
    <3>2. QED
      BY <2>2, <3>1 DEF Enqueue, Next, CallerStep
  <2>3. QED
    BY <1>3, <2>1, <2>2 DEF CallStep
<1>4. ASSUME NEW i \in Loops, LoopStep(i) PROVE [Next]_vars
  BY <1>4 DEF LoopStep, LoopStart, LoopWake, LoopLooks, LoopWaits, LoopRetries, LoopSucceeds,
     LoopSends, Ask
<1>5. CASE StatusStep
  BY <1>5 DEF StatusStep, StatusIsPaired, StatusIsSyncing, StatusStops, StatusSends
<1>6. CASE UNCHANGED wvars
  BY <1>6 DEF wvars
<1>7. QED
  BY <1>1, <1>2, <1>3, <1>4, <1>5, <1>6 DEF WNext

LEMMA StackSpec == WSafeSpec => SafeSpec
<1>1. WInit => Init
  BY DEF WInit
<1>2. QED
  BY <1>1, CallTypesAlways, StackStep, PTL DEF WSafeSpec, SafeSpec

\* Whatever the worker's threads do, the flags of the stack agree with it.
StackIsSafe ==
    TypeOK /\ PairedExact /\ ClosedIsClean /\ SendLoopAlive /\ CyclePendingOnlyHalting
        /\ RequestsOnce /\ TargetKnown

\* The invariants of the stack hold with the threads of worker.rs around it,
\* also when calls of several threads collide: what the list and the fields
\* of the calls may then look like (CallsAccounted) does not reach it.
THEOREM WorkerKeepsStackSafe == WSafeSpec => []StackIsSafe
<1>1. LinkInv /\ RequestsOnce /\ TargetKnown => StackIsSafe
  BY DEF LinkInv, StackIsSafe
<1>2. QED
  BY <1>1, StackSpec, LinkInvAlways, RequestsAreQueuedOnce, ActiveConnectHasTarget, PTL

-----------------------------------------------------------------------------
(* Calls that collide.                                                     *)

Own == {"reconnect", "disconnect"}

MainIs(k, at) == call[Main] = [kind |-> k, at |-> at]

\* A request only the main thread asks for is in one place at a time: in the
\* call, in the list or in its handler; its field is set from the second
\* step of the call to the end of the handler.
OwnInOnePlace ==
    \A k \in Own :
        /\ MainIs(k, "checked") => ~callback[k] /\ ~QueuedRequest(k) /\ handling # k
        /\ MainIs(k, "registered") => callback[k] /\ ~QueuedRequest(k) /\ handling # k
        /\ QueuedRequest(k) => callback[k] /\ handling # k
        /\ handling = k => callback[k]

LoopsOnlySync == \A i \in Loops : call[i].kind \notin Own

FieldsInFlight == \A k \in Requests : callback[k] => InFlight(k)

CallInv == OwnInOnePlace /\ LoopsOnlySync /\ FieldsInFlight

\* Who is in the list after a request was put into it, and after one was
\* popped.
LEMMA QueueGrows ==
    ASSUME TypeOK, NEW k \in Requests, Request(k), NEW x
    PROVE  QueuedRequest(x)' <=> QueuedRequest(x) \/ x = k
<1>1. runQueue \in Seq(Requests) /\ runQueue' = Append(runQueue, k)
  BY DEF TypeOK, Request
<1>2. /\ Len(runQueue') = Len(runQueue) + 1 /\ Len(runQueue) \in Nat
      /\ runQueue'[Len(runQueue) + 1] = k
      /\ \A i \in 1..Len(runQueue) : runQueue'[i] = runQueue[i]
  BY <1>1
<1>3. QED
  BY <1>2 DEF QueuedRequest

LEMMA QueueShrinks ==
    ASSUME TypeOK, RequestsOnce, runQueue # <<>>, runQueue' = Tail(runQueue), NEW x
    PROVE  /\ QueuedRequest(x)' <=> QueuedRequest(x) /\ x # Head(runQueue)
           /\ QueuedRequest(Head(runQueue))
<1>1. runQueue \in Seq(Requests)
  BY DEF TypeOK
<1>2. /\ Len(runQueue) \in Nat /\ Len(runQueue) > 0 /\ Len(runQueue') = Len(runQueue) - 1
      /\ runQueue[1] = Head(runQueue)
      /\ \A i \in 1..Len(runQueue') : runQueue'[i] = runQueue[i + 1]
  BY <1>1
<1>3. \A i \in 1..Len(runQueue) : i # 1 => runQueue[i] # Head(runQueue)
  BY <1>2 DEF RequestsOnce
<1>4. QueuedRequest(Head(runQueue))
  BY <1>2 DEF QueuedRequest
<1>5. ASSUME QueuedRequest(x)' PROVE QueuedRequest(x) /\ x # Head(runQueue)
  <2>1. PICK i \in 1..Len(runQueue') : runQueue'[i] = x
    BY <1>5 DEF QueuedRequest
  <2>2. i + 1 \in 1..Len(runQueue) /\ i + 1 # 1 /\ runQueue[i + 1] = x
    BY <1>2, <2>1
  <2>3. QED
    BY <1>3, <2>2 DEF QueuedRequest
<1>6. ASSUME QueuedRequest(x), x # Head(runQueue) PROVE QueuedRequest(x)'
  <2>1. PICK i \in 1..Len(runQueue) : runQueue[i] = x
    BY <1>6 DEF QueuedRequest
  <2>2. i - 1 \in 1..Len(runQueue') /\ (i - 1) + 1 = i
    BY <1>2, <1>6, <2>1
  <2>3. runQueue'[i - 1] = x
    BY <1>2, <2>1, <2>2
  <2>4. QED
    BY <2>2, <2>3 DEF QueuedRequest
<1>7. QED
  BY <1>4, <1>5, <1>6

\* A step that leaves the calls and the list alone.
LEMMA CallInvStays ==
    ASSUME CallInv, UNCHANGED <<calls, runQueue>>
    PROVE  CallInv'
BY DEF CallInv, OwnInOnePlace, LoopsOnlySync, FieldsInFlight, InFlight, MainIs, QueuedRequest, calls

\* The test of the field: a call that goes on has found nothing of its kind
\* on its way, if it is the main thread's own.
LEMMA CallInvAsks ==
    ASSUME CallInv, CallTypes, Asks
    PROVE  CallInv'
<1>0. /\ Main \in Callers /\ Loops \subseteq Callers /\ Main \notin Loops
      /\ "sync" \in Requests /\ "sync" \notin Own
  BY MainAssumption DEF Callers, Requests, Own
<1>1. PICK t \in Callers, k \in Requests :
          call[t] = NoCall /\ Ask(t, k) /\ (t = Main \/ (t # Main /\ k \notin Own))
  BY <1>0 DEF Asks
<1>2. /\ callback' = callback /\ handling' = handling /\ runQueue' = runQueue
      /\ \A x : QueuedRequest(x)' <=> QueuedRequest(x)
  BY <1>1 DEF Ask, vars, QueuedRequest
<1>3. CASE callback[k]
  <2>1. UNCHANGED <<calls, runQueue>>
    BY <1>1, <1>2, <1>3 DEF Ask, calls
  <2>2. QED
    BY <2>1, CallInvStays
<1>4. CASE ~callback[k]
  <2>1. \A u \in Callers : call'[u] = IF u = t THEN [kind |-> k, at |-> "checked"] ELSE call[u]
    BY <1>1, <1>4 DEF Ask, CallTypes
  <2>2. OwnInOnePlace'
    <3> SUFFICES ASSUME NEW x \in Own
                 PROVE  /\ MainIs(x, "checked")' => ~callback[x] /\ ~QueuedRequest(x) /\ handling # x
                        /\ MainIs(x, "registered")' => MainIs(x, "registered")
      BY <1>2 DEF CallInv, OwnInOnePlace
    <3>1. CASE t = Main
      <4>1. call'[Main] = [kind |-> k, at |-> "checked"]
        BY <1>0, <2>1, <3>1
      <4>2. MainIs(x, "checked")' => x = k
        BY <4>1 DEF MainIs
      <4>3. ~MainIs(x, "registered")'
        BY <4>1 DEF MainIs
      <4>4. x = k => ~QueuedRequest(x) /\ handling # x
        BY <1>4 DEF CallInv, OwnInOnePlace
      <4>5. QED
        BY <1>4, <4>2, <4>3, <4>4
    <3>2. CASE t # Main
      <4>1. call'[Main] = call[Main]
        BY <1>0, <2>1, <3>2
      <4>2. QED
        BY <4>1 DEF MainIs, CallInv, OwnInOnePlace
    <3>3. QED
      BY <3>1, <3>2
  <2>3. LoopsOnlySync'
    <3> SUFFICES ASSUME NEW i \in Loops PROVE call'[i].kind \notin Own
      BY DEF LoopsOnlySync
    <3>1. call'[i] = IF i = t THEN [kind |-> k, at |-> "checked"] ELSE call[i]
      BY <1>0, <2>1
    <3>2. CASE i = t
      BY <1>0, <1>1, <3>1, <3>2
    <3>3. CASE i # t
      BY <3>1, <3>3 DEF CallInv, LoopsOnlySync
    <3>4. QED
      BY <3>2, <3>3
  <2>4. FieldsInFlight'
    <3> SUFFICES ASSUME NEW x \in Requests, InFlight(x) PROVE InFlight(x)'
      BY <1>2 DEF CallInv, FieldsInFlight
    <3>1. ASSUME NEW u \in Callers, call[u] = [kind |-> x, at |-> "registered"]
          PROVE  call'[u] = [kind |-> x, at |-> "registered"]
      <4>1. u # t
        BY <1>1, <3>1 DEF NoCall
      <4>2. QED
        BY <2>1, <3>1, <4>1
    <3>2. QED
      BY <1>2, <3>1 DEF InFlight
  <2>5. QED
    BY <2>2, <2>3, <2>4 DEF CallInv
<1>5. QED
  BY <1>3, <1>4

LEMMA CallInvRegister ==
    ASSUME CallInv, CallTypes, NEW t \in Callers, Register(t)
    PROVE  CallInv'
<1>0. Main \in Callers /\ Loops \subseteq Callers /\ Main \notin Loops
  BY MainAssumption DEF Callers
<1> DEFINE k == call[t].kind
<1>1. k \in Requests /\ call[t] = [kind |-> k, at |-> "checked"]
  BY DEF Register, CallTypes, CallStates, NoCall
<1>2. /\ handling' = handling /\ runQueue' = runQueue
      /\ \A x : QueuedRequest(x)' <=> QueuedRequest(x)
  BY DEF Register, vars, QueuedRequest
<1>3. \A u \in Callers : call'[u] = IF u = t THEN [kind |-> k, at |-> "registered"] ELSE call[u]
  BY <1>1 DEF Register, CallTypes
<1>4. \A x \in Requests : callback'[x] = IF x = k THEN TRUE ELSE callback[x]
  BY <1>1 DEF Register, CallTypes
<1> HIDE DEF k
<1>5. Own \subseteq Requests
  BY DEF Own, Requests
<1>6. t # Main => k \notin Own
  <2>1. t # Main => t \in Loops
    BY DEF Callers
  <2>2. QED
    BY <1>1, <2>1 DEF CallInv, LoopsOnlySync
<1>7. OwnInOnePlace'
  <2> SUFFICES ASSUME NEW x \in Own
               PROVE  /\ MainIs(x, "checked")' => ~callback'[x] /\ ~QueuedRequest(x) /\ handling # x
                      /\ MainIs(x, "registered")' => callback'[x] /\ ~QueuedRequest(x) /\ handling # x
                      /\ QueuedRequest(x) => callback'[x] /\ handling # x
                      /\ handling = x => callback'[x]
    BY <1>2 DEF OwnInOnePlace
  <2>0. x \in Requests
    BY <1>5
  <2>1. CASE t = Main /\ x = k
    <3>1. MainIs(x, "checked")
      BY <1>1, <2>1 DEF MainIs
    <3>2. ~QueuedRequest(x) /\ handling # x
      BY <3>1 DEF CallInv, OwnInOnePlace
    <3>3. callback'[x]
      BY <1>4, <2>0, <2>1
    <3>4. ~MainIs(x, "checked")'
      BY <1>0, <1>3, <2>1 DEF MainIs
    <3>5. QED
      BY <3>2, <3>3, <3>4
  <2>2. CASE x # k
    <3>1. callback'[x] = callback[x]
      BY <1>4, <2>0, <2>2
    <3>2. MainIs(x, "checked")' => MainIs(x, "checked")
      BY <1>0, <1>3 DEF MainIs
    <3>3. MainIs(x, "registered")' => MainIs(x, "registered")
      BY <1>0, <1>3, <2>2 DEF MainIs
    <3>4. QED
      BY <3>1, <3>2, <3>3 DEF CallInv, OwnInOnePlace
  <2>3. CASE t # Main /\ x = k
    BY <1>6, <2>3
  <2>4. QED
    BY <2>1, <2>2, <2>3
<1>8. LoopsOnlySync'
  <2> SUFFICES ASSUME NEW i \in Loops PROVE call'[i].kind \notin Own
    BY DEF LoopsOnlySync
  <2>1. call'[i].kind = call[i].kind
    BY <1>0, <1>1, <1>3
  <2>2. QED
    BY <2>1 DEF CallInv, LoopsOnlySync
<1>9. FieldsInFlight'
  <2> SUFFICES ASSUME NEW x \in Requests, callback'[x] PROVE InFlight(x)'
    BY DEF FieldsInFlight
  <2>1. CASE x = k
    BY <1>3, <2>1 DEF InFlight
  <2>2. CASE x # k
    <3>1. InFlight(x)
      BY <1>4, <2>2 DEF CallInv, FieldsInFlight
    <3>2. ASSUME NEW u \in Callers, call[u] = [kind |-> x, at |-> "registered"]
          PROVE  call'[u] = [kind |-> x, at |-> "registered"]
      <4>1. u # t
        BY <1>1, <3>2
      <4>2. QED
        BY <1>3, <3>2, <4>1
    <3>3. QED
      BY <1>2, <3>1, <3>2 DEF InFlight
  <2>3. QED
    BY <2>1, <2>2
<1>10. QED
  BY <1>7, <1>8, <1>9 DEF CallInv

LEMMA CallInvEnqueue ==
    ASSUME CallInv, CallTypes, TypeOK, NEW t \in Callers, Enqueue(t)
    PROVE  CallInv'
<1>0. Main \in Callers /\ Loops \subseteq Callers /\ Main \notin Loops
  BY MainAssumption DEF Callers
<1> DEFINE k == call[t].kind
<1>1. k \in Requests /\ call[t] = [kind |-> k, at |-> "registered"]
  BY DEF Enqueue, CallTypes, CallStates, NoCall
<1>2. /\ handling' = handling /\ callback' = callback
      /\ \A x : QueuedRequest(x)' <=> QueuedRequest(x) \/ x = k
  <2>1. CASE QueuedRequest(k)
    BY <2>1 DEF Enqueue, vars, QueuedRequest
  <2>2. CASE ~QueuedRequest(k)
    <3>1. Request(k)
      BY <2>2 DEF Enqueue
    <3>2. QED
      BY <1>1, <3>1, QueueGrows DEF Enqueue
  <2>3. QED
    BY <2>1, <2>2
<1>3. \A u \in Callers : call'[u] = IF u = t THEN NoCall ELSE call[u]
  BY DEF Enqueue, CallTypes
<1> HIDE DEF k
<1>4. t # Main => k \notin Own
  <2>1. t # Main => t \in Loops
    BY DEF Callers
  <2>2. QED
    BY <1>1, <2>1 DEF CallInv, LoopsOnlySync
<1>5. OwnInOnePlace'
  <2> SUFFICES ASSUME NEW x \in Own
               PROVE  /\ MainIs(x, "checked")' => ~callback[x] /\ ~QueuedRequest(x)' /\ handling # x
                      /\ MainIs(x, "registered")' => callback[x] /\ ~QueuedRequest(x)' /\ handling # x
                      /\ QueuedRequest(x)' => callback[x] /\ handling # x
                      /\ handling = x => callback[x]
    BY <1>2 DEF OwnInOnePlace
  <2>1. CASE t = Main /\ x = k
    <3>1. MainIs(x, "registered")
      BY <1>1, <2>1 DEF MainIs
    <3>2. callback[x] /\ handling # x
      BY <3>1 DEF CallInv, OwnInOnePlace
    <3>3. ~MainIs(x, "checked")' /\ ~MainIs(x, "registered")'
      BY <1>0, <1>3, <2>1 DEF MainIs, NoCall
    <3>4. QED
      BY <3>2, <3>3
  <2>2. CASE x # k
    <3>1. QueuedRequest(x)' <=> QueuedRequest(x)
      BY <1>2, <2>2
    <3>2. /\ MainIs(x, "checked")' => MainIs(x, "checked")
          /\ MainIs(x, "registered")' => MainIs(x, "registered")
      BY <1>0, <1>3 DEF MainIs, NoCall
    <3>3. QED
      BY <3>1, <3>2 DEF CallInv, OwnInOnePlace
  <2>3. CASE t # Main /\ x = k
    BY <1>4, <2>3
  <2>4. QED
    BY <2>1, <2>2, <2>3
<1>6. LoopsOnlySync'
  <2> SUFFICES ASSUME NEW i \in Loops PROVE call'[i].kind \notin Own
    BY DEF LoopsOnlySync
  <2>1. call'[i] = NoCall \/ call'[i] = call[i]
    BY <1>0, <1>3
  <2>2. NoCall.kind \notin Own
    BY DEF NoCall, NoRequest, Own
  <2>3. QED
    BY <2>1, <2>2 DEF CallInv, LoopsOnlySync
<1>7. FieldsInFlight'
  <2> SUFFICES ASSUME NEW x \in Requests, InFlight(x) PROVE InFlight(x)'
    BY <1>2 DEF CallInv, FieldsInFlight
  <2>1. CASE x = k
    BY <1>2, <2>1 DEF InFlight
  <2>2. CASE x # k
    <3>1. ASSUME NEW u \in Callers, call[u] = [kind |-> x, at |-> "registered"]
          PROVE  call'[u] = [kind |-> x, at |-> "registered"]
      <4>1. u # t
        BY <1>1, <2>2, <3>1
      <4>2. QED
        BY <1>3, <3>1, <4>1
    <3>2. QED
      BY <1>2, <3>1 DEF InFlight
  <2>3. QED
    BY <2>1, <2>2
<1>8. QED
  BY <1>5, <1>6, <1>7 DEF CallInv

LEMMA CallInvDispatch ==
    ASSUME CallInv, CallTypes, TypeOK, RequestsOnce, Dispatch
    PROVE  CallInv'
<1> DEFINE h == Head(runQueue)
<1>1. /\ h \in Requests /\ callback[h] /\ handling' = h /\ callback' = callback /\ call' = call
      /\ handling = NoRequest /\ h # NoRequest
  BY DispatchPops DEF Dispatch, Popping, Requests, NoRequest
<1>2. QueuedRequest(h) /\ \A x : QueuedRequest(x)' <=> QueuedRequest(x) /\ x # h
  BY QueueShrinks, DispatchPops
<1> HIDE DEF h
<1>3. OwnInOnePlace'
  <2> SUFFICES ASSUME NEW x \in Own
               PROVE  /\ MainIs(x, "checked") => ~callback[x] /\ ~QueuedRequest(x)' /\ h # x
                      /\ MainIs(x, "registered") => callback[x] /\ ~QueuedRequest(x)' /\ h # x
                      /\ QueuedRequest(x)' => callback[x] /\ h # x
                      /\ h = x => callback[x]
    BY <1>1 DEF OwnInOnePlace, MainIs
  <2>1. QED
    BY <1>1, <1>2 DEF CallInv, OwnInOnePlace
<1>4. LoopsOnlySync'
  BY <1>1 DEF CallInv, LoopsOnlySync
<1>5. FieldsInFlight'
  <2> SUFFICES ASSUME NEW x \in Requests, InFlight(x) PROVE InFlight(x)'
    BY <1>1 DEF CallInv, FieldsInFlight
  <2>1. handling # x
    BY <1>1 DEF Requests, NoRequest
  <2>2. QED
    BY <1>1, <1>2, <2>1 DEF InFlight
<1>6. QED
  BY <1>3, <1>4, <1>5 DEF CallInv

LEMMA CallInvClear ==
    ASSUME CallInv, CallTypes, Clear
    PROVE  CallInv'
<1>1. /\ handling \in Requests /\ handling' = NoRequest /\ call' = call /\ runQueue' = runQueue
      /\ \A x : QueuedRequest(x)' <=> QueuedRequest(x)
  BY DEF Clear, CallTypes, vars, QueuedRequest
<1>2. \A x \in Requests : callback'[x] = IF x = handling THEN FALSE ELSE callback[x]
  BY <1>1 DEF Clear, CallTypes
<1>3. OwnInOnePlace'
  <2> SUFFICES ASSUME NEW x \in Own
               PROVE  /\ MainIs(x, "checked") => ~callback'[x] /\ ~QueuedRequest(x)
                      /\ MainIs(x, "registered") => callback'[x] /\ ~QueuedRequest(x)
                      /\ QueuedRequest(x) => callback'[x]
                      /\ NoRequest # x
    BY <1>1 DEF OwnInOnePlace, MainIs
  <2>1. x \in Requests /\ x # NoRequest
    BY DEF Own, Requests, NoRequest
  <2>2. QED
    BY <1>2, <2>1 DEF CallInv, OwnInOnePlace
<1>4. LoopsOnlySync'
  BY <1>1 DEF CallInv, LoopsOnlySync
<1>5. FieldsInFlight'
  <2> SUFFICES ASSUME NEW x \in Requests, callback[x], x # handling PROVE InFlight(x)'
    BY <1>2 DEF FieldsInFlight
  <2>1. InFlight(x)
    BY DEF CallInv, FieldsInFlight
  <2>2. QED
    BY <1>1, <2>1 DEF InFlight
<1>6. QED
  BY <1>3, <1>4, <1>5 DEF CallInv

LEMMA CallInvStep ==
    CallInv /\ CallTypes /\ TypeOK /\ RequestsOnce /\ [WNext]_wvars => CallInv'
BY CallSteps, CallInvStays, CallInvAsks, CallInvRegister, CallInvEnqueue, CallInvDispatch,
   CallInvClear

\* Whatever calls collide, no field stays set with nothing on its way, and a
\* reconnect or a disconnect is never called through NULL.  Two facts carry
\* it: a pairing loop asks for nothing but a sync, and a request of the main
\* thread is in one place at a time.
THEOREM CallsAreAccounted == WSafeSpec => []CallsAccounted
<1>1. WInit => CallInv
  <2> SUFFICES ASSUME WInit PROVE CallInv
    OBVIOUS
  <2>1. /\ runQueue = <<>> /\ handling = NoRequest
        /\ \A k \in Requests : ~callback[k]
        /\ \A t \in Callers : call[t] = NoCall
    BY DEF WInit, Init
  <2>2. Main \in Callers /\ Loops \subseteq Callers
    BY DEF Callers
  <2>3. \A x : ~QueuedRequest(x)
    BY <2>1 DEF QueuedRequest
  <2>4. \A k \in Own : k # NoRequest
    BY DEF Own, NoRequest
  <2>5. OwnInOnePlace
    BY <2>1, <2>2, <2>3, <2>4 DEF OwnInOnePlace, MainIs, NoCall
  <2>6. LoopsOnlySync
    BY <2>1, <2>2, <2>4 DEF LoopsOnlySync, NoCall
  <2>7. QED
    BY <2>1, <2>5, <2>6 DEF CallInv, FieldsInFlight
<1>2. CallInv => CallsAccounted
  <2> SUFFICES ASSUME CallInv PROVE CallsAccounted
    OBVIOUS
  <2>1. ASSUME NEW k \in Own, InFlight(k) PROVE callback[k]
    <3>1. ASSUME NEW t \in Callers, call[t] = [kind |-> k, at |-> "registered"] PROVE callback[k]
      <4>1. t \in Loops => call[t].kind \notin Own
        BY DEF CallInv, LoopsOnlySync
      <4>2. t = Main
        BY <3>1, <4>1 DEF Callers
      <4>3. QED
        BY <3>1, <4>2 DEF CallInv, OwnInOnePlace, MainIs
    <3>2. QED
      BY <2>1, <3>1 DEF InFlight, CallInv, OwnInOnePlace
  <2>2. QED
    BY <2>1 DEF CallsAccounted, CallInv, FieldsInFlight, Own
<1>3. StackIsSafe => TypeOK /\ RequestsOnce
  BY DEF StackIsSafe
<1>4. QED
  BY <1>1, <1>2, <1>3, CallTypesAlways, WorkerKeepsStackSafe, CallInvStep, PTL DEF WSafeSpec

-----------------------------------------------------------------------------
(* The flag and the loops.                                                 *)

StatusStates == [pc : {"sleeping", "paired", "syncing", "sending"}, paired : BOOLEAN,
                 syncing : BOOLEAN, prev_paired : BOOLEAN, link_keys_sent : BOOLEAN]

ThreadTypes ==
    /\ phase \in {"starting", "running", "reconnecting", "shutting", "stopping", "exited", "crashed"}
    /\ syncing \in BOOLEAN
    /\ loop \in [Loops -> LoopPcs]
    /\ tick \in [Loops -> 0..RetryTicks]
    /\ status \in StatusStates
    /\ serverKeys \subseteq Peers

WInv == ThreadTypes /\ SyncingHasLoop

\* A loop that goes on looking keeps syncing accounted for, and so do one
\* that ends with syncing cleared and one that looked no longer.
LEMMA LoopMoves ==
    ASSUME ThreadTypes, SyncingHasLoop, NEW i \in Loops, NEW pc \in LoopPcs, LoopGoes(i, pc),
           \/ /\ syncing' = syncing
              /\ pc \in {"starting", "sleeping", "looking", "unpaired", "retrying", "paired"}
           \/ syncing' = FALSE
           \/ syncing' = syncing /\ ~Looking(i)
    PROVE  SyncingHasLoop' /\ loop' \in [Loops -> LoopPcs]
<1>1. loop \in [Loops -> LoopPcs] /\ loop' = [loop EXCEPT ![i] = pc]
  BY DEF ThreadTypes, LoopGoes
<1>2. \A j \in Loops : loop'[j] = IF j = i THEN pc ELSE loop[j]
  BY <1>1
<1>3. loop' \in [Loops -> LoopPcs]
  BY <1>1
<1>4. SyncingHasLoop'
  BY <1>2 DEF SyncingHasLoop, Looking
<1>5. QED
  BY <1>3, <1>4

\* A step that moves no loop and sets no syncing keeps it accounted for.
LEMMA LoopsStay ==
    ASSUME SyncingHasLoop, loop' = loop, syncing' = syncing \/ syncing' = FALSE
    PROVE  SyncingHasLoop'
BY DEF SyncingHasLoop, Looking

\* What the server is sent are keys of consoles.
LEMMA SentKeys ==
    ASSUME TypeOK, ThreadTypes, send_link_keys \/ serverKeys' = serverKeys
    PROVE  serverKeys' \subseteq Peers
BY DEF TypeOK, ThreadTypes, send_link_keys, export_link_keys

LEMMA WInvMain == WInv /\ TypeOK /\ MainStep => WInv'
<1> SUFFICES ASSUME WInv, TypeOK, MainStep PROVE WInv'
  OBVIOUS
<1> USE DEF WInv
<1>1. ASSUME NEW i \in Loops, CmdSyncStart(i) PROVE WInv'
  <2>1. /\ loop' = [loop EXCEPT ![i] = "starting"] /\ syncing' = TRUE
        /\ UNCHANGED <<phase, tick, status, serverKeys>>
    BY <1>1 DEF CmdSyncStart
  <2>2. loop' \in [Loops -> LoopPcs] /\ loop'[i] = "starting"
    BY <2>1 DEF ThreadTypes, LoopPcs
  <2>3. SyncingHasLoop'
    BY <2>2 DEF SyncingHasLoop, Looking
  <2>4. QED
    BY <2>1, <2>2, <2>3 DEF ThreadTypes
<1>2. CASE ~\E i \in Loops : CmdSyncStart(i)
  <2>1. /\ UNCHANGED <<loop, tick, status>> /\ (syncing' = syncing \/ syncing' = FALSE)
        /\ send_link_keys \/ serverKeys' = serverKeys
        /\ phase' = phase \/ phase' \in {"running", "reconnecting", "shutting", "stopping", "exited"}
    BY <1>2 DEF MainStep, Ready, CmdSync, CmdDisconnect, CmdGetLinkKeys, CmdSyncStop,
       CmdReconnectKeys, CmdSetLinkKeys, CmdReconnect, CmdShutdown, ShutdownGoesOn, EndOfInput,
       Shutdown, Exit, threads
  <2>2. serverKeys' \subseteq Peers
    BY <2>1, SentKeys
  <2>3. ThreadTypes'
    BY <2>1, <2>2 DEF ThreadTypes
  <2>4. QED
    BY <2>1, <2>3, LoopsStay
<1>3. QED
  BY <1>1, <1>2

\* A tick counts up to the retry interval and starts again at 1.
LEMMA TickStays ==
    ASSUME ThreadTypes, NEW i \in Loops, NextTick(i) \/ TickEnds(i) \/ tick' = tick
    PROVE  tick' \in [Loops -> 0..RetryTicks]
<1>1. tick[i] \in 0..RetryTicks /\ RetryTicks \in Nat \ {0}
  BY RetryTicksAssumption DEF ThreadTypes
<1>2. (IF tick[i] = RetryTicks THEN 1 ELSE tick[i] + 1) \in 0..RetryTicks /\ 0 \in 0..RetryTicks
  BY <1>1
<1>3. CASE NextTick(i)
  <2>1. tick' = [tick EXCEPT ![i] = IF tick[i] = RetryTicks THEN 1 ELSE tick[i] + 1]
    BY <1>3 DEF NextTick, RetryDue
  <2>2. QED
    BY <1>2, <2>1 DEF ThreadTypes
<1>4. CASE TickEnds(i)
  BY <1>2, <1>4 DEF TickEnds, ThreadTypes
<1>5. CASE tick' = tick
  BY <1>5 DEF ThreadTypes
<1>6. QED
  BY <1>3, <1>4, <1>5

LEMMA WInvLoop ==
    ASSUME WInv, TypeOK, NEW i \in Loops, LoopStep(i)
    PROVE  WInv'
<1> USE DEF WInv
<1>1. /\ UNCHANGED <<phase, status>> /\ (syncing' = syncing \/ syncing' = FALSE)
      /\ send_link_keys \/ serverKeys' = serverKeys
      /\ NextTick(i) \/ TickEnds(i) \/ tick' = tick
  BY DEF LoopStep, LoopStart, LoopWake, LoopLooks, LoopWaits, LoopRetries, LoopSucceeds, LoopSends
<1>2. tick' \in [Loops -> 0..RetryTicks] /\ serverKeys' \subseteq Peers
  BY <1>1, TickStays, SentKeys
<1>3. SyncingHasLoop' /\ loop' \in [Loops -> LoopPcs]
  <2>1. CASE LoopStart(i)
    BY <2>1, LoopMoves DEF LoopStart, LoopPcs
  <2>2. CASE LoopWake(i) /\ syncing
    <3>1. LoopGoes(i, "looking") /\ syncing' = syncing
      BY <2>2 DEF LoopWake
    <3>2. QED
      BY <3>1, LoopMoves DEF LoopPcs
  <2>3. CASE LoopWake(i) /\ ~syncing
    <3>1. LoopGoes(i, "none") /\ syncing' = FALSE
      BY <2>3 DEF LoopWake, ThreadTypes
    <3>2. QED
      BY <3>1, LoopMoves DEF LoopPcs
  <2>4. CASE LoopLooks(i)
    <3> DEFINE pc == IF paired THEN "paired" ELSE "unpaired"
    <3>1. LoopGoes(i, pc) /\ syncing' = syncing /\ pc \in {"unpaired", "paired"}
      BY <2>4 DEF LoopLooks
    <3> HIDE DEF pc
    <3>2. QED
      BY <3>1, LoopMoves DEF LoopPcs
  <2>5. CASE LoopWaits(i)
    <3> DEFINE pc == IF RetryDue(i) /\ export_link_keys = {} THEN "retrying" ELSE "sleeping"
    <3>1. LoopGoes(i, pc) /\ syncing' = syncing /\ pc \in {"retrying", "sleeping"}
      BY <2>5 DEF LoopWaits
    <3> HIDE DEF pc
    <3>2. QED
      BY <3>1, LoopMoves DEF LoopPcs
  <2>6. CASE LoopRetries(i)
    BY <2>6, LoopMoves DEF LoopRetries, LoopPcs
  <2>7. CASE LoopSucceeds(i)
    BY <2>7, LoopMoves DEF LoopSucceeds, LoopPcs
  <2>8. CASE LoopSends(i)
    <3>1. LoopGoes(i, "none") /\ syncing' = syncing /\ ~Looking(i)
      BY <2>8 DEF LoopSends, LoopAt, Looking
    <3>2. QED
      BY <3>1, LoopMoves DEF LoopPcs
  <2>9. QED
    BY <2>1, <2>2, <2>3, <2>4, <2>5, <2>6, <2>7, <2>8 DEF LoopStep
<1>4. QED
  BY <1>1, <1>2, <1>3 DEF ThreadTypes

\* The status thread keeps its locals Boolean.
LEMMA StatusStays ==
    ASSUME ThreadTypes, TypeOK, StatusStep
    PROVE  status' \in StatusStates
<1>1. status \in StatusStates /\ paired \in BOOLEAN /\ syncing \in BOOLEAN
  BY DEF ThreadTypes, TypeOK
<1>2. CASE StatusIsPaired
  BY <1>1, <1>2 DEF StatusIsPaired, StatusStates
<1>3. CASE StatusIsSyncing
  BY <1>1, <1>3 DEF StatusIsSyncing, StatusStates
<1>4. CASE StatusStops
  <2> DEFINE kept == status.link_keys_sent /\ ~JustPaired
  <2>1. kept \in BOOLEAN
    OBVIOUS
  <2>2. status' = [status EXCEPT !.pc = "sending", !.syncing = FALSE, !.link_keys_sent = kept]
    BY <1>4 DEF StatusStops
  <2> HIDE DEF kept
  <2>3. QED
    BY <1>1, <2>1, <2>2 DEF StatusStates
<1>5. CASE StatusSends
  <2> DEFINE sent == status.paired /\ (KeysDue => export_link_keys # {})
  <2>1. sent \in BOOLEAN /\ status.paired \in BOOLEAN
    BY <1>1 DEF StatusStates
  <2>2. status' = [status EXCEPT !.pc = "sleeping", !.paired = FALSE,
                                 !.prev_paired = status.paired, !.link_keys_sent = sent]
    BY <1>5 DEF StatusSends
  <2> HIDE DEF sent
  <2>3. QED
    BY <1>1, <2>1, <2>2 DEF StatusStates
<1>6. QED
  BY <1>2, <1>3, <1>4, <1>5 DEF StatusStep

LEMMA WInvStep == WInv /\ TypeOK /\ [WNext]_wvars => WInv'
<1> SUFFICES ASSUME WInv, TypeOK, [WNext]_wvars PROVE WInv'
  OBVIOUS
<1> USE DEF WInv
<1>1. CASE UNCHANGED threads
  BY <1>1 DEF threads, ThreadTypes, SyncingHasLoop, Looking
<1>2. CASE Bt(BtEvent) \/ Dispatch \/ Clear \/ (\E t \in Callers : CallStep(t)) \/ UNCHANGED wvars
  <2>1. UNCHANGED threads
    BY <1>2 DEF Bt, Dispatch, Clear, CallStep, Register, Enqueue, wvars
  <2>2. QED
    BY <1>1, <2>1
<1>3. CASE NullCall
  BY <1>3, LoopsStay DEF NullCall, ThreadTypes
<1>4. CASE StatusStep
  <2>1. /\ UNCHANGED <<phase, loop, tick>> /\ (syncing' = syncing \/ syncing' = FALSE)
        /\ send_link_keys \/ serverKeys' = serverKeys
    BY <1>4 DEF StatusStep, StatusIsPaired, StatusIsSyncing, StatusStops, StatusSends
  <2>2. serverKeys' \subseteq Peers /\ status' \in StatusStates
    BY <1>4, <2>1, SentKeys, StatusStays
  <2>3. ThreadTypes'
    BY <2>1, <2>2 DEF ThreadTypes
  <2>4. QED
    BY <2>1, <2>3, LoopsStay
<1>5. QED
  BY <1>2, <1>3, <1>4, WInvMain, WInvLoop DEF WNext, RunLoopStep

LEMMA WInvAlways == WSafeSpec => []WInv
<1>1. WInit => WInv
  <2> SUFFICES ASSUME WInit PROVE WInv
    OBVIOUS
  <2>1. tick \in [Loops -> 0..RetryTicks] /\ loop \in [Loops -> LoopPcs]
    BY RetryTicksAssumption DEF WInit, LoopPcs
  <2>2. status \in StatusStates /\ syncing = FALSE /\ phase = "starting" /\ serverKeys = {}
    BY DEF WInit, StatusStates
  <2>3. QED
    BY <2>1, <2>2 DEF WInv, ThreadTypes, SyncingHasLoop
<1>2. StackIsSafe => TypeOK
  BY DEF StackIsSafe
<1>3. QED
  BY <1>1, <1>2, WorkerKeepsStackSafe, WInvStep, PTL DEF WSafeSpec

\* Every variable of the worker keeps its type; a loop's tick stays within
\* the retry interval.
THEOREM WorkerTypeCorrect == WSafeSpec => []WTypeOK
<1>1. WInv /\ CallTypes => WTypeOK
  BY DEF WInv, ThreadTypes, StatusStates, CallTypes, CallStates, WTypeOK
<1>2. QED
  BY <1>1, WInvAlways, CallTypesAlways, PTL

\* While syncing is set some pairing loop will still look at it.
THEOREM SyncingIsNeverOrphaned == WSafeSpec => []SyncingHasLoop
<1>1. WInv => SyncingHasLoop
  BY DEF WInv
<1>2. QED
  BY <1>1, WInvAlways, PTL

-----------------------------------------------------------------------------
(* What the status thread remembers of the link keys.                      *)

\* link_keys_sent is set only when the server has been sent keys: the status
\* thread never stops trying before (worker.rs 92-100).  The safety half of
\* FirstKeyReachesServer.
SentIsKnown == status.link_keys_sent => serverKeys # {}

\* A step that sets link_keys_sent no more than it was takes no keys back.
LEMMA KeysAreKept ==
    ASSUME SentIsKnown, status'.link_keys_sent => status.link_keys_sent,
           serverKeys' = serverKeys \/ send_link_keys
    PROVE  SentIsKnown'
BY DEF SentIsKnown, send_link_keys

LEMMA SentIsKnownStep == WTypeOK /\ SentIsKnown /\ [WNext]_wvars => SentIsKnown'
<1> SUFFICES ASSUME WTypeOK, SentIsKnown, [WNext]_wvars PROVE SentIsKnown'
  OBVIOUS
<1>0. status \in StatusStates
  BY DEF WTypeOK, StatusStates
<1>1. CASE StatusIsPaired \/ StatusIsSyncing
  <2>1. status'.link_keys_sent = status.link_keys_sent /\ serverKeys' = serverKeys
    BY <1>0, <1>1 DEF StatusIsPaired, StatusIsSyncing, StatusStates
  <2>2. QED
    BY <2>1, KeysAreKept
<1>2. CASE StatusStops
  <2> DEFINE kept == status.link_keys_sent /\ ~JustPaired
  <2>1. /\ status' = [status EXCEPT !.pc = "sending", !.syncing = FALSE, !.link_keys_sent = kept]
        /\ serverKeys' = serverKeys
    BY <1>2 DEF StatusStops
  <2>2. status'.link_keys_sent = kept
    BY <1>0, <2>1 DEF StatusStates
  <2>3. QED
    BY <2>1, <2>2, KeysAreKept
<1>3. CASE StatusSends
  <2> DEFINE sent == status.paired /\ (KeysDue => export_link_keys # {})
  <2>1. /\ status' = [status EXCEPT !.pc = "sleeping", !.paired = FALSE,
                                    !.prev_paired = status.paired, !.link_keys_sent = sent]
        /\ IF KeysDue THEN send_link_keys ELSE serverKeys' = serverKeys
    BY <1>3 DEF StatusSends
  <2>2. status'.link_keys_sent = sent
    BY <1>0, <2>1 DEF StatusStates
  <2>3. ASSUME sent PROVE serverKeys' # {}
    <3>1. CASE KeysDue
      BY <2>1, <2>3, <3>1 DEF send_link_keys
    <3>2. CASE ~KeysDue
      <4>1. status.link_keys_sent
        BY <2>3, <3>2 DEF KeysDue
      <4>2. QED
        BY <2>1, <3>2, <4>1 DEF SentIsKnown
    <3>3. QED
      BY <3>1, <3>2
  <2>4. QED
    BY <2>2, <2>3 DEF SentIsKnown
<1>4. CASE ~StatusStep
  <2>1. status' = status /\ (serverKeys' = serverKeys \/ send_link_keys)
    BY <1>4 DEF WNext, RunLoopStep, Bt, Dispatch, Clear, NullCall, CallStep, Register, Enqueue,
       MainStep, Ready, CmdSync, CmdDisconnect, CmdGetLinkKeys, CmdSyncStop, CmdReconnectKeys,
       CmdSetLinkKeys, CmdReconnect, CmdSyncStart, CmdShutdown, ShutdownGoesOn, EndOfInput,
       Shutdown, Exit, LoopStep, LoopStart, LoopWake, LoopLooks, LoopWaits, LoopRetries,
       LoopSucceeds, LoopSends, threads, wvars
  <2>2. QED
    BY <2>1, KeysAreKept
<1>5. QED
  BY <1>1, <1>2, <1>3, <1>4 DEF StatusStep

\* The status thread takes the keys for sent only if the server has some.
THEOREM SentKeysAreKnown == WSafeSpec => []SentIsKnown
<1>1. WInit => SentIsKnown
  BY DEF WInit, SentIsKnown
<1>2. QED
  BY <1>1, WorkerTypeCorrect, SentIsKnownStep, PTL DEF WSafeSpec
=============================================================================

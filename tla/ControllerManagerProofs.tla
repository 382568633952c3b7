----------------------- MODULE ControllerManagerProofs -----------------------
(***************************************************************************)
(* No running worker is lost, for any number of controllers and any sizes  *)
(* of the channels.  LiveIsListed alone is not inductive: it must also     *)
(* cover add() between insertion and notification.                         *)
(***************************************************************************)
EXTENDS ControllerManager, TLAPS

\* A broadcast event is the last in the channel, which holds what it held,
\* or lost its oldest and lagged.
LEMMA BroadcastEffect ==
  ASSUME rx \in Seq(GlobalEvents), Len(rx) <= Capacity, lagged \in BOOLEAN,
         NEW e \in GlobalEvents, Broadcast(e)
  PROVE  /\ rx' \in Seq(GlobalEvents) /\ Len(rx') <= Capacity /\ lagged' \in BOOLEAN
         /\ Len(rx') > 0 /\ rx'[Len(rx')] = e
         /\ \/ /\ lagged' = lagged
               /\ Len(rx') = Len(rx) + 1
               /\ \A n \in 1..Len(rx) : rx'[n] = rx[n]
            \/ /\ lagged' = TRUE
               /\ Len(rx') = Len(rx)
               /\ \A n \in 1..(Len(rx) - 1) : rx'[n] = rx[n + 1]
<1> USE BoundsAssumption
<1>1. CASE Len(rx) < Capacity
  <2>1. rx' = Append(rx, e) /\ lagged' = lagged
    BY <1>1 DEF Broadcast
  <2>2. QED
    BY <1>1, <2>1
<1>2. CASE ~(Len(rx) < Capacity)
  <2>1. rx' = Append(Tail(rx), e) /\ lagged' = TRUE
    BY <1>2 DEF Broadcast
  <2>2. Len(rx) = Capacity /\ rx # <<>>
    BY <1>2
  <2>3. /\ Tail(rx) \in Seq(GlobalEvents) /\ Len(Tail(rx)) = Len(rx) - 1
        /\ \A n \in 1..(Len(rx) - 1) : Tail(rx)[n] = rx[n + 1]
    BY <2>2
  <2> DEFINE T == Tail(rx)
  <2> HIDE DEF T
  <2>4. rx' = Append(T, e) /\ T \in Seq(GlobalEvents) /\ Len(T) = Len(rx) - 1
        /\ \A n \in 1..(Len(rx) - 1) : T[n] = rx[n + 1]
    BY <2>1, <2>3 DEF T
  <2>5. rx' \in Seq(GlobalEvents) /\ Len(rx') = Len(rx) /\ rx'[Len(rx)] = e
        /\ \A n \in 1..(Len(rx) - 1) : rx'[n] = T[n]
    BY <2>4
  <2>6. \A n \in 1..(Len(rx) - 1) : rx'[n] = rx[n + 1]
    BY <2>4, <2>5
  <2>7. Len(rx) \in Nat \ {0} /\ lagged' = TRUE
    BY <2>1, <2>2
  <2>8. Len(rx') <= Capacity /\ Len(rx') > 0 /\ rx'[Len(rx')] = e
    BY <2>2, <2>5, <2>7
  <2>9. /\ lagged' = TRUE
        /\ Len(rx') = Len(rx)
        /\ \A n \in 1..(Len(rx) - 1) : rx'[n] = rx[n + 1]
    BY <2>5, <2>6, <2>7
  <2>10. lagged' \in BOOLEAN
    BY <2>7
  <2>11. QED
    BY <2>5, <2>8, <2>9, <2>10
<1>3. QED
  BY <1>1, <1>2

-----------------------------------------------------------------------------
\* The events a broadcast or the pipe may carry are events.
LEMMA EventTypes ==
  /\ [type |-> "changed"] \in GlobalEvents
  /\ \A i \in Ids, s \in Statuses : [type |-> "status", id |-> i, status |-> s] \in GlobalEvents
  /\ \A i \in Ids : [type |-> "keys", id |-> i] \in GlobalEvents
BY DEF GlobalEvents

LEMMA CMTypeInit == CMInit => CMTypeOK
<1> SUFFICES ASSUME CMInit PROVE CMTypeOK
  OBVIOUS
<1>1. next_id \in 0..MaxAdds /\ Len(rx) <= Capacity /\ rx \in Seq(GlobalEvents)
  BY BoundsAssumption DEF CMInit
<1>2. pipe \in [Ids -> Seq(WorkerEvents)] /\ \A i \in Ids : Len(pipe[i]) <= MaxPipe
  BY BoundsAssumption DEF CMInit
<1>3. state \in [Ids -> States] /\ prev \in [Ids -> Statuses]
  BY StatusesAssumption DEF CMInit, Fresh, States
<1>4. QED
  BY <1>1, <1>2, <1>3 DEF CMInit, CMTypeOK

LEMMA CMTypeStep == CMTypeOK /\ [CMNext]_cmvars => CMTypeOK'
<1> SUFFICES ASSUME CMTypeOK, [CMNext]_cmvars PROVE CMTypeOK'
  OBVIOUS
<1> USE BoundsAssumption, StatusesAssumption
<1>1. CASE AddSpawns \/ AddFails
  <2>1. next_id' \in 0..MaxAdds
    BY <1>1 DEF AddSpawns, AddFails, CMTypeOK
  <2>2. QED
    BY <1>1, <2>1 DEF AddSpawns, AddFails, CMTypeOK, tasks, process, global
<1>2. ASSUME NEW i \in Ids, AddInserts(i) \/ Remove(i) \/ WatcherRemoves(i) \/ WorkerExits(i)
      PROVE  CMTypeOK'
  BY <1>2 DEF AddInserts, Remove, WatcherRemoves, WorkerExits, CMTypeOK, registry, tasks, process, global
<1>3. ASSUME NEW i \in Ids, AddNotifies(i) \/ WatcherNotifies(i) PROVE CMTypeOK'
  <2>1. Broadcast([type |-> "changed"])
    BY <1>3 DEF AddNotifies, WatcherNotifies
  <2>2. rx' \in Seq(GlobalEvents) /\ Len(rx') <= Capacity /\ lagged' \in BOOLEAN
    BY <2>1, BroadcastEffect, EventTypes DEF CMTypeOK
  <2>3. QED
    BY <1>3, <2>2 DEF AddNotifies, WatcherNotifies, CMTypeOK, registry, tasks, process
<1>4. ASSUME NEW i \in Ids, ReadsStatus(i) PROVE CMTypeOK'
  <2>1. Head(pipe[i]) \in WorkerEvents /\ Tail(pipe[i]) \in Seq(WorkerEvents)
        /\ Len(Tail(pipe[i])) <= MaxPipe
    BY <1>4 DEF ReadsStatus, CMTypeOK
  <2> DEFINE s == Head(pipe[i]).status
  <2>2. s \in Statuses
    BY <1>4, <2>1 DEF ReadsStatus, WorkerEvents
  <2>3. state' \in [Ids -> States] /\ prev' \in [Ids -> Statuses]
    BY <1>4, <2>2 DEF ReadsStatus, CMTypeOK, States
  <2>4. rx' \in Seq(GlobalEvents) /\ Len(rx') <= Capacity /\ lagged' \in BOOLEAN
    <3>1. CASE s # prev[i]
      <4>1. Broadcast([type |-> "status", id |-> i, status |-> s])
        BY <1>4, <3>1 DEF ReadsStatus
      <4>2. QED
        BY <4>1, <2>2, BroadcastEffect, EventTypes DEF CMTypeOK
    <3>2. CASE s = prev[i]
      BY <1>4, <3>2 DEF ReadsStatus, global, CMTypeOK
    <3>3. QED
      BY <3>1, <3>2
  <2>5. pipe' = [pipe EXCEPT ![i] = Tail(@)]
    BY <1>4 DEF ReadsStatus
  <2>6. QED
    BY <1>4, <2>1, <2>3, <2>4, <2>5 DEF ReadsStatus, CMTypeOK, registry
<1>5. ASSUME NEW i \in Ids, ReadsLinkKeys(i) PROVE CMTypeOK'
  <2>1. Tail(pipe[i]) \in Seq(WorkerEvents) /\ Len(Tail(pipe[i])) <= MaxPipe
    BY <1>5 DEF ReadsLinkKeys, CMTypeOK
  <2>2. state' \in [Ids -> States]
    BY <1>5 DEF ReadsLinkKeys, CMTypeOK, States
  <2>3. rx' \in Seq(GlobalEvents) /\ Len(rx') <= Capacity /\ lagged' \in BOOLEAN
    BY <1>5, BroadcastEffect, EventTypes DEF ReadsLinkKeys, CMTypeOK
  <2>4. QED
    BY <1>5, <2>1, <2>2, <2>3 DEF ReadsLinkKeys, CMTypeOK, registry
<1>6. ASSUME NEW i \in Ids, WorkerWrites(i) PROVE CMTypeOK'
  <2>1. PICK e \in WorkerEvents : pipe' = [pipe EXCEPT ![i] = Append(@, e)]
    BY <1>6 DEF WorkerWrites
  <2>2. Append(pipe[i], e) \in Seq(WorkerEvents) /\ Len(Append(pipe[i], e)) <= MaxPipe
    BY <1>6 DEF WorkerWrites, CMTypeOK
  <2>3. QED
    BY <1>6, <2>1, <2>2 DEF WorkerWrites, CMTypeOK, registry, tasks, global
<1>7. CASE DevicesNotify
  <2>1. rx' \in Seq(GlobalEvents) /\ Len(rx') <= Capacity /\ lagged' \in BOOLEAN
    BY <1>7, BroadcastEffect, EventTypes DEF DevicesNotify, CMTypeOK
  <2>2. QED
    BY <1>7, <2>1 DEF DevicesNotify, CMTypeOK, registry, tasks, process
<1>8. CASE UNCHANGED cmvars
  BY <1>8 DEF cmvars, registry, tasks, process, global, CMTypeOK
<1>9. QED
  BY <1>1, <1>2, <1>3, <1>4, <1>5, <1>6, <1>7, <1>8 DEF CMNext, LockedStep, OtherStep, StdoutReader

\* The registry, its tasks and channels stay well-formed; the channels keep
\* their bounds.
THEOREM RegistryTypeCorrect == CMSafeSpec => []CMTypeOK
BY CMTypeInit, CMTypeStep, PTL DEF CMSafeSpec

-----------------------------------------------------------------------------
\* What the argument needs of the types.
Shape ==
    /\ adding \in [Ids -> {"no", "spawned", "inserted", "done", "failed"}]
    /\ proc \in [Ids -> {"no", "running", "exited"}]

InsertedIsListed ==
    \A i \in Ids : (proc[i] = "running" /\ adding[i] \in {"inserted", "done"}) => i \in controllers

ListInv == Shape /\ InsertedIsListed

LEMMA ListInvInit == CMInit => ListInv
BY DEF CMInit, ListInv, Shape, InsertedIsListed

LEMMA ListInvStep == ListInv /\ [CMNext]_cmvars => ListInv'
<1> SUFFICES ASSUME ListInv, [CMNext]_cmvars PROVE ListInv'
  OBVIOUS
<1> USE DEF ListInv, Shape
<1>1. CASE AddSpawns
  <2>1. adding' = [adding EXCEPT ![next_id] = "spawned"] /\ proc' = [proc EXCEPT ![next_id] = "running"]
        /\ controllers' = controllers
    BY <1>1 DEF AddSpawns
  <2>2. QED
    BY <2>1 DEF InsertedIsListed
<1>2. CASE AddFails
  BY <1>2 DEF AddFails, InsertedIsListed, tasks, process
<1>3. ASSUME NEW i \in Ids, AddInserts(i) PROVE ListInv'
  <2>1. adding' = [adding EXCEPT ![i] = "inserted"] /\ proc' = proc /\ controllers' = controllers \cup {i}
    BY <1>3 DEF AddInserts, process
  <2>2. QED
    BY <2>1 DEF InsertedIsListed
<1>4. ASSUME NEW i \in Ids, AddNotifies(i) PROVE ListInv'
  <2>1. adding[i] = "inserted" /\ adding' = [adding EXCEPT ![i] = "done"] /\ proc' = proc
        /\ controllers' = controllers
    BY <1>4 DEF AddNotifies, process
  <2>2. QED
    BY <2>1 DEF InsertedIsListed
<1>5. ASSUME NEW i \in Ids, WatcherRemoves(i) PROVE ListInv'
  <2>1. proc[i] = "exited" /\ proc' = proc /\ adding' = adding /\ controllers' = controllers \ {i}
    BY <1>5 DEF WatcherRemoves, process
  <2>2. QED
    BY <2>1 DEF InsertedIsListed
<1>6. ASSUME NEW i \in Ids, WorkerExits(i) PROVE ListInv'
  <2>1. proc' = [proc EXCEPT ![i] = "exited"] /\ adding' = adding /\ controllers' = controllers
    BY <1>6 DEF WorkerExits, registry
  <2>2. QED
    BY <2>1 DEF InsertedIsListed
<1>7. ASSUME NEW i \in Ids, Remove(i) \/ WatcherNotifies(i) \/ StdoutReader(i) \/ WorkerWrites(i)
      PROVE  ListInv'
  <2>1. UNCHANGED <<adding, proc, controllers>>
    BY <1>7 DEF Remove, WatcherNotifies, StdoutReader, ReadsStatus, ReadsLinkKeys, WorkerWrites,
                registry, process
  <2>2. QED
    BY <2>1 DEF InsertedIsListed
<1>8. CASE DevicesNotify \/ UNCHANGED cmvars
  BY <1>8 DEF DevicesNotify, cmvars, registry, process, InsertedIsListed
<1>9. QED
  BY <1>1, <1>2, <1>3, <1>4, <1>5, <1>6, <1>7, <1>8 DEF CMNext, LockedStep, OtherStep

\* A worker that runs is in the registry from its insertion on: the server
\* never loses the handle it could stop it with.
THEOREM RunningIsListed == CMSafeSpec => []LiveIsListed
<1>1. ListInv => LiveIsListed
  BY DEF ListInv, InsertedIsListed, LiveIsListed
<1>2. QED
  BY <1>1, ListInvInit, ListInvStep, PTL DEF CMSafeSpec

-----------------------------------------------------------------------------
(* The abstract registry.  Of the detailed one the mapping looks at the    *)
(* members, the watchers, the processes and how far add() has come.        *)

MapVars == <<next_id, adding, controllers, watcher, proc>>

\* Ids are taken in turn, only inserted ones are listed, and a watcher goes
\* on only when its process has ended.
EntryInv ==
    /\ next_id \in 0..MaxAdds
    /\ adding \in [Ids -> {"no", "spawned", "inserted", "done", "failed"}]
    /\ watcher \in [Ids -> {"no", "waiting", "removed", "done"}]
    /\ proc \in [Ids -> {"no", "running", "exited"}]
    /\ controllers \subseteq Ids
    /\ \A i \in Ids :
        /\ i >= next_id => adding[i] = "no" /\ watcher[i] = "no" /\ proc[i] = "no"
        /\ i \in controllers => adding[i] \in {"inserted", "done"}
        /\ adding[i] \in {"spawned", "inserted", "done"} <=> watcher[i] # "no"
        /\ watcher[i] \in {"removed", "done"} => proc[i] = "exited"
        /\ watcher[i] = "no" <=> proc[i] = "no"

LEMMA EntryInvInit == CMInit => EntryInv
BY BoundsAssumption DEF CMInit, EntryInv

\* The actions of the registry keep the invariant, and each is a step of one
\* entry or leaves all entries alone.
LEMMA EntryStep ==
  ASSUME EntryInv, CMNext \/ UNCHANGED MapVars
  PROVE  EntryInv' /\ [Entries!Next]_<<entryOf, {i \in Ids : proc[i] = "exited"}>>
<1> DEFINE endedOf == {i \in Ids : proc[i] = "exited"}
<1> USE DEF EntryInv, entryOf, registry, tasks, process
<1>i. \A i \in Ids : i \in Nat /\ i < MaxAdds
  BY BoundsAssumption DEF Ids
<1>1. CASE UNCHANGED MapVars
  BY <1>1 DEF MapVars
<1>2. CASE AddSpawns
  <2>1. /\ next_id \in Ids /\ next_id' = next_id + 1 /\ controllers' = controllers
        /\ adding' = [adding EXCEPT ![next_id] = "spawned"]
        /\ proc' = [proc EXCEPT ![next_id] = "running"]
        /\ watcher' = [watcher EXCEPT ![next_id] = "waiting"]
    BY <1>2, BoundsAssumption DEF AddSpawns, Ids
  <2>2. adding[next_id] = "no" /\ proc[next_id] = "no" /\ next_id \notin controllers
    BY <1>i, <2>1
  <2>3. EntryInv'
    BY <1>i, <2>1, <2>2, BoundsAssumption
  <2>4. entryOf' = entryOf /\ endedOf' = endedOf
    BY <2>1, <2>2
  <2>5. QED
    BY <2>3, <2>4
<1>3. CASE AddFails
  <2>1. /\ next_id \in Ids /\ next_id' = next_id + 1
        /\ adding' = [adding EXCEPT ![next_id] = "failed"]
        /\ UNCHANGED <<controllers, proc, watcher>>
    BY <1>3, BoundsAssumption DEF AddFails, Ids
  <2>2. adding[next_id] = "no" /\ watcher[next_id] = "no" /\ next_id \notin controllers
    BY <1>i, <2>1
  <2>3. EntryInv'
    BY <1>i, <2>1, <2>2, BoundsAssumption
  <2>4. entryOf' = entryOf /\ endedOf' = endedOf
    BY <2>1, <2>2
  <2>5. QED
    BY <2>3, <2>4
<1>4. ASSUME NEW i \in Ids, AddInserts(i)
      PROVE  EntryInv' /\ Entries!Enter(i)
  <2>1. /\ adding[i] = "spawned" /\ adding' = [adding EXCEPT ![i] = "inserted"]
        /\ controllers' = controllers \cup {i} /\ UNCHANGED <<next_id, proc, watcher>>
    BY <1>4 DEF AddInserts
  <2>2. i \notin controllers /\ watcher[i] # "no"
    BY <2>1
  <2>3. EntryInv'
    BY <1>i, <2>1, <2>2
  <2>4. entryOf[i] = "new" /\ endedOf' = endedOf
    BY <2>1, <2>2
  <2>5. CASE watcher[i] = "waiting"
    <3>1. entryOf' = [entryOf EXCEPT ![i] = "listed"]
      BY <2>1, <2>2, <2>5
    <3>2. QED
      BY <2>3, <2>4, <3>1 DEF Entries!Enter
  <2>6. CASE watcher[i] # "waiting"
    <3>1. i \in endedOf
      BY <2>2, <2>6
    <3>2. entryOf' = [entryOf EXCEPT ![i] = "stray"]
      BY <2>1, <2>2, <2>6
    <3>3. QED
      BY <2>3, <2>4, <3>1, <3>2 DEF Entries!Enter
  <2>7. QED
    BY <2>5, <2>6
<1>5. ASSUME NEW i \in Ids, WatcherRemoves(i)
      PROVE  EntryInv' /\ (Entries!Leave(i) \/ UNCHANGED <<entryOf, endedOf>>)
  <2>1. /\ watcher[i] = "waiting" /\ proc[i] = "exited"
        /\ watcher' = [watcher EXCEPT ![i] = "removed"]
        /\ controllers' = controllers \ {i} /\ UNCHANGED <<next_id, adding, proc>>
    BY <1>5 DEF WatcherRemoves
  <2>2. EntryInv'
    BY <1>i, <2>1
  <2>3. endedOf' = endedOf /\ i \in endedOf
    BY <2>1
  <2>4. CASE i \in controllers
    <3>1. entryOf[i] = "listed" /\ entryOf' = [entryOf EXCEPT ![i] = "gone"]
      BY <2>1, <2>4
    <3>2. QED
      BY <2>2, <2>3, <3>1 DEF Entries!Leave
  <2>5. CASE i \notin controllers
    <3>1. entryOf' = entryOf
      BY <2>1, <2>5
    <3>2. QED
      BY <2>2, <2>3, <3>1
  <2>6. QED
    BY <2>4, <2>5
<1>6. ASSUME NEW i \in Ids, WorkerExits(i)
      PROVE  EntryInv' /\ Entries!WorkerEnds(i)
  <2>1. /\ proc[i] = "running" /\ proc' = [proc EXCEPT ![i] = "exited"]
        /\ UNCHANGED <<next_id, adding, controllers, watcher>>
    BY <1>6 DEF WorkerExits
  <2>2. EntryInv'
    BY <1>i, <2>1
  <2>3. i \notin endedOf /\ endedOf' = endedOf \cup {i} /\ entryOf' = entryOf
    BY <2>1
  <2>4. QED
    BY <2>2, <2>3 DEF Entries!WorkerEnds
<1>7. ASSUME NEW i \in Ids, AddNotifies(i) \/ WatcherNotifies(i)
      PROVE  EntryInv' /\ UNCHANGED <<entryOf, endedOf>>
  <2>1. CASE AddNotifies(i)
    <3>1. /\ adding[i] = "inserted" /\ adding' = [adding EXCEPT ![i] = "done"]
          /\ UNCHANGED <<next_id, controllers, watcher, proc>>
      BY <2>1 DEF AddNotifies
    <3>2. QED
      BY <1>i, <3>1
  <2>2. CASE WatcherNotifies(i)
    <3>1. /\ watcher[i] = "removed" /\ watcher' = [watcher EXCEPT ![i] = "done"]
          /\ UNCHANGED <<next_id, adding, controllers, proc>>
      BY <2>2 DEF WatcherNotifies
    <3>2. QED
      BY <1>i, <3>1
  <2>3. QED
    BY <1>7, <2>1, <2>2
<1>8. ASSUME NEW i \in Ids, Remove(i) \/ StdoutReader(i) \/ WorkerWrites(i) PROVE UNCHANGED MapVars
  BY <1>8 DEF Remove, StdoutReader, ReadsStatus, ReadsLinkKeys, WorkerWrites, MapVars
<1>9. CASE DevicesNotify
  BY <1>9 DEF DevicesNotify
<1> HIDE DEF EntryInv, entryOf
<1>10. QED
  BY <1>1, <1>2, <1>3, <1>4, <1>5, <1>6, <1>7, <1>8, <1>9
     DEF CMNext, LockedStep, OtherStep, Entries!Next

\* The mapping of the initial state.
LEMMA EntryInit == CMInit => Entries!Init
BY DEF CMInit, Entries!Init, entryOf

\* Whatever is interleaved with whatever, an id enters the registry once and
\* leaves it only after its worker has ended: the safety half of
\* ImplementsRegistry.
THEOREM RefinesRegistry == CMSafeSpec => Entries!SafeSpec
<1>1. EntryInv /\ [CMNext]_cmvars =>
          EntryInv' /\ [Entries!Next]_<<entryOf, {i \in Ids : proc[i] = "exited"}>>
  BY EntryStep DEF cmvars, registry, tasks, process, MapVars
<1>2. QED
  BY <1>1, EntryInvInit, EntryInit, PTL DEF CMSafeSpec, Entries!SafeSpec, Entries!rvars

\* What the abstract registry keeps to, the detailed one does.
LEMMA TakenOutHaveEnded == Entries!SafeSpec => []Entries!GoneHaveEnded
<1>1. Entries!Init => Entries!GoneHaveEnded
  BY DEF Entries!Init, Entries!GoneHaveEnded
<1>2. Entries!GoneHaveEnded /\ [Entries!Next]_Entries!rvars => Entries!GoneHaveEnded'
  <2>1. DOMAIN entryOf = Ids
    BY DEF entryOf
  <2>2. QED
    BY <2>1 DEF Entries!GoneHaveEnded, Entries!Next, Entries!Enter, Entries!WorkerEnds, Entries!Leave,
                Entries!rvars
<1>3. QED
  BY <1>1, <1>2, PTL DEF Entries!SafeSpec

LEMMA TakenOutIsNotLive == Entries!GoneHaveEnded => LiveIsListed
BY DEF Entries!GoneHaveEnded, entryOf, LiveIsListed
=============================================================================

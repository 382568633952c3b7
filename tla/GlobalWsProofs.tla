--------------------------- MODULE GlobalWsProofs ---------------------------
(***************************************************************************)
(* The browser's view is exact whenever nothing is on its way, for any     *)
(* number of controllers and any capacity of the channel.                  *)
(*                                                                         *)
(* What the browser will show of a controller is decided by the last event *)
(* about it that is still in the channel, else by what it, or the list     *)
(* that is being taken, shows already; the invariant says that both agree  *)
(* with the registry unless a snapshot is due that will repair it.         *)
(***************************************************************************)
EXTENDS GlobalWs, ControllerManagerProofs

StatusOf(n, i) == rx[n].type = "status" /\ rx[n].id = i
KeysOf(n, i)   == rx[n].type = "keys" /\ rx[n].id = i
NoStatus(i)    == \A n \in 1..Len(rx) : ~StatusOf(n, i)
NoKeys(i)      == \A n \in 1..Len(rx) : ~KeysOf(n, i)
NoChanged      == \A n \in 1..Len(rx) : rx[n].type # "changed"

\* The reader announces a status unless it is what it announced last.
PrevExact == \A i \in Ids : prev[i] = state[i].status

\* The last status in the channel is the one in the registry; keys stay set.
LastStatusExact ==
    \A i \in Ids, n \in 1..Len(rx) :
        (StatusOf(n, i) /\ \A m \in (n + 1)..Len(rx) : ~StatusOf(m, i)) => rx[n].status = state[i].status

KeysAreSet == \A i \in Ids, n \in 1..Len(rx) : KeysOf(n, i) => state[i].keys = TRUE

\* A list v that no event will change any more is exact.
Exact(v) ==
    \A i \in DOMAIN v : /\ NoStatus(i) => v[i].status = state[i].status
                        /\ NoKeys(i) => v[i].keys = state[i].keys

ListsExact ==
    ~lagged => /\ handler = "select" => Exact(view)
               /\ handler = "listing" => Exact(scan)

\* Who is listed is known, unless a change is, or is about to be, announced.
MembersExact ==
    (handler = "select" /\ ~lagged /\ NoChanged /\ \A i \in Ids : ~Announcing(i)) =>
        DOMAIN view = controllers

\* Ids are taken in turn.
Unborn == \A i \in Ids : i >= next_id => adding[i] = "no" /\ watcher[i] = "no"

ViewInv ==
    /\ CMTypeOK /\ GTypeOK
    /\ Unborn /\ PrevExact /\ LastStatusExact /\ KeysAreSet
    /\ ListsExact /\ MembersExact

-----------------------------------------------------------------------------
\* What an event may say of the step that sends it: the new state of the one
\* controller that it changes.
Tells(e) ==
    \A i \in Ids :
        /\ IF e.type = "status" /\ e.id = i THEN e.status = state'[i].status
                                            ELSE state'[i].status = state[i].status
        /\ IF e.type = "keys" /\ e.id = i THEN state'[i].keys = TRUE
                                          ELSE state'[i].keys = state[i].keys

LEMMA BroadcastKeeps ==
  ASSUME CMTypeOK, LastStatusExact, KeysAreSet, NEW e \in GlobalEvents, Broadcast(e), Tells(e)
  PROVE  /\ LastStatusExact' /\ KeysAreSet'
         /\ ~lagged' => /\ ~lagged
                        /\ NoChanged' => NoChanged /\ e.type # "changed"
                        /\ \A i \in Ids :
                              /\ NoStatus(i)' => NoStatus(i) /\ state'[i].status = state[i].status
                              /\ NoKeys(i)' => NoKeys(i) /\ state'[i].keys = state[i].keys
<1> DEFINE L == Len(rx)
<1>1. /\ rx \in Seq(GlobalEvents) /\ L \in Nat /\ lagged \in BOOLEAN /\ L <= Capacity
  BY DEF CMTypeOK
<1>2. /\ rx' \in Seq(GlobalEvents) /\ Len(rx') > 0 /\ rx'[Len(rx')] = e
      /\ \/ /\ lagged' = lagged
            /\ Len(rx') = L + 1
            /\ \A n \in 1..L : rx'[n] = rx[n]
         \/ /\ lagged' = TRUE
            /\ Len(rx') = L
            /\ \A n \in 1..(L - 1) : rx'[n] = rx[n + 1]
  BY <1>1, BroadcastEffect
\* Every older event was there, and in the same order.
<1>3. PICK o \in {0, 1} : /\ Len(rx') = L + 1 - o
                          /\ \A n \in 1..(L - o) : rx'[n] = rx[n + o]
                          /\ o = 0 => lagged' = lagged
                          /\ o = 1 => lagged' = TRUE
  <2>1. CASE lagged' = lagged /\ Len(rx') = L + 1 /\ \A n \in 1..L : rx'[n] = rx[n]
    <3> WITNESS 0 \in {0, 1}
    <3> HIDE DEF L
    <3>1. \A n \in 1..(L - 0) : n \in 1..L /\ n + 0 = n
      BY <1>1
    <3>2. QED
      BY <1>1, <2>1, <3>1
  <2>2. CASE lagged' = TRUE /\ Len(rx') = L /\ \A n \in 1..(L - 1) : rx'[n] = rx[n + 1]
    <3> WITNESS 1 \in {0, 1}
    <3> HIDE DEF L
    <3>1. QED
      BY <1>1, <2>2
  <2>3. QED
    BY <1>2, <2>1, <2>2
<1> HIDE DEF L
<1>4. LastStatusExact'
  <2> SUFFICES ASSUME NEW i \in Ids, NEW n \in 1..Len(rx'), StatusOf(n, i)',
                      \A m \in (n + 1)..Len(rx') : ~StatusOf(m, i)'
               PROVE  rx'[n].status = state'[i].status
    BY DEF LastStatusExact
  <2>1. CASE n = Len(rx')
    BY <1>2, <2>1 DEF StatusOf, Tells
  <2>2. CASE n # Len(rx')
    <3>1. n \in 1..(L - o) /\ n + o \in 1..L /\ rx'[n] = rx[n + o]
      BY <1>1, <1>3, <2>2
    <3>2. ASSUME NEW m \in (n + o + 1)..L PROVE ~StatusOf(m, i)
      <4>1. m - o \in (n + 1)..Len(rx') /\ m - o \in 1..(L - o) /\ (m - o) + o = m
        BY <1>1, <1>3, <3>1
      <4>2. rx'[m - o] = rx[m] /\ ~StatusOf(m - o, i)'
        BY <1>3, <4>1
      <4>3. QED
        BY <4>2 DEF StatusOf
    <3>3. StatusOf(n + o, i)
      BY <3>1 DEF StatusOf
    <3>4. rx[n + o].status = state[i].status
      BY <3>1, <3>2, <3>3 DEF LastStatusExact, L
    <3>5. ~(e.type = "status" /\ e.id = i)
      <4>1. Len(rx') \in (n + 1)..Len(rx')
        BY <1>1, <1>3, <2>2
      <4>2. QED
        BY <1>2, <4>1 DEF StatusOf
    <3>6. QED
      BY <3>1, <3>4, <3>5 DEF Tells
  <2>3. QED
    BY <2>1, <2>2
<1>5. KeysAreSet'
  <2> SUFFICES ASSUME NEW i \in Ids, NEW n \in 1..Len(rx'), KeysOf(n, i)'
               PROVE  state'[i].keys = TRUE
    BY DEF KeysAreSet
  <2>1. CASE n = Len(rx')
    BY <1>2, <2>1 DEF KeysOf, Tells
  <2>2. CASE n # Len(rx')
    <3>1. n \in 1..(L - o) /\ n + o \in 1..L /\ rx'[n] = rx[n + o]
      BY <1>1, <1>3, <2>2
    <3>2. state[i].keys = TRUE
      BY <3>1 DEF KeysAreSet, KeysOf, L
    <3>3. QED
      BY <3>2 DEF Tells
  <2>3. QED
    BY <2>1, <2>2
<1>6. ASSUME ~lagged'
      PROVE  /\ ~lagged
             /\ NoChanged' => NoChanged /\ e.type # "changed"
             /\ \A i \in Ids :
                   /\ NoStatus(i)' => NoStatus(i) /\ state'[i].status = state[i].status
                   /\ NoKeys(i)' => NoKeys(i) /\ state'[i].keys = state[i].keys
  <2>1. o = 0 /\ ~lagged /\ Len(rx') = L + 1
    BY <1>1, <1>3, <1>6
  <2>2. \A n \in 1..L : n \in 1..Len(rx') /\ rx'[n] = rx[n]
    BY <1>1, <1>3, <2>1
  <2>3. L + 1 \in 1..Len(rx') /\ rx'[L + 1] = e
    BY <1>1, <1>2, <2>1
  <2>4. NoChanged' => NoChanged /\ e.type # "changed"
    BY <2>2, <2>3 DEF NoChanged, L
  <2>5. ASSUME NEW i \in Ids, NoStatus(i)' PROVE NoStatus(i) /\ state'[i].status = state[i].status
    BY <2>2, <2>3, <2>5 DEF NoStatus, StatusOf, Tells, L
  <2>6. ASSUME NEW i \in Ids, NoKeys(i)' PROVE NoKeys(i) /\ state'[i].keys = state[i].keys
    BY <2>2, <2>3, <2>6 DEF NoKeys, KeysOf, Tells, L
  <2>7. QED
    BY <2>1, <2>4, <2>5, <2>6
<1>7. QED
  BY <1>4, <1>5, <1>6

-----------------------------------------------------------------------------
\* What a step that leaves the handler alone keeps of what is on its way.
Keeps ==
    /\ LastStatusExact' /\ KeysAreSet'
    /\ ~lagged' => /\ ~lagged
                   /\ NoChanged' => NoChanged
                   /\ \A i \in Ids :
                         /\ NoStatus(i)' => NoStatus(i) /\ state'[i].status = state[i].status
                         /\ NoKeys(i)' => NoKeys(i) /\ state'[i].keys = state[i].keys

\* A step that sends nothing and says nothing new keeps it all.
LEMMA SilenceKeeps ==
  ASSUME LastStatusExact, KeysAreSet, UNCHANGED <<rx, lagged>>,
         \A i \in Ids : state'[i].status = state[i].status /\ state'[i].keys = state[i].keys
  PROVE  Keeps
<1>1. LastStatusExact'
  <2> SUFFICES ASSUME NEW i \in Ids, NEW n \in 1..Len(rx), StatusOf(n, i),
                      \A m \in (n + 1)..Len(rx) : ~StatusOf(m, i)
               PROVE  rx[n].status = state'[i].status
    BY DEF LastStatusExact, StatusOf
  <2>1. QED
    BY DEF LastStatusExact
<1>2. KeysAreSet'
  BY DEF KeysAreSet, KeysOf
<1>3. /\ NoChanged' => NoChanged
      /\ \A i \in Ids : (NoStatus(i)' => NoStatus(i)) /\ (NoKeys(i)' => NoKeys(i))
  BY DEF NoChanged, NoStatus, StatusOf, NoKeys, KeysOf
<1>4. QED
  BY <1>1, <1>2, <1>3 DEF Keeps

LEMMA ListTypes == GTypeOK => DOMAIN view \subseteq Ids /\ DOMAIN scan \subseteq Ids
BY DEF GTypeOK, Listing

\* ... and then the lists stay exact.
LEMMA ListsStayExact ==
  ASSUME GTypeOK, ListsExact, Keeps, UNCHANGED ws
  PROVE  ListsExact'
<1>1. ASSUME NEW v, DOMAIN v \subseteq Ids, v' = v, Exact(v), ~lagged' PROVE Exact(v)'
  BY <1>1 DEF Exact, Keeps
<1>2. handler' = handler /\ view' = view /\ scan' = scan
  BY DEF ws
<1>3. ~lagged' => ~lagged
  BY DEF Keeps
<1>4. QED
  BY <1>1, <1>2, <1>3, ListTypes DEF ListsExact

\* What the handler takes out of the channel.
LEMMA ReceivedKeeps ==
  ASSUME CMTypeOK, LastStatusExact, KeysAreSet, NEW e, Received(e), UNCHANGED state
  PROVE  /\ LastStatusExact' /\ KeysAreSet' /\ rx' \in Seq(GlobalEvents) /\ Len(rx') <= Capacity
         /\ e.type # "changed" => (NoChanged' => NoChanged)
         /\ \A i \in Ids :
               /\ NoStatus(i)' => IF e.type = "status" /\ e.id = i THEN e.status = state[i].status
                                                                  ELSE NoStatus(i)
               /\ NoKeys(i)' => NoKeys(i) \/ (e.type = "keys" /\ e.id = i)
               /\ (e.type = "keys" /\ e.id = i) => state[i].keys = TRUE
<1>1. /\ rx \in Seq(GlobalEvents) /\ rx # <<>> /\ e = rx[1] /\ rx' = Tail(rx) /\ Len(rx) <= Capacity
      /\ Capacity \in Nat
  BY BoundsAssumption DEF CMTypeOK, Received
<1>2. /\ Len(rx) \in Nat /\ Len(rx') = Len(rx) - 1 /\ rx' \in Seq(GlobalEvents) /\ 1 \in 1..Len(rx)
      /\ \A n \in 1..Len(rx') : n + 1 \in 1..Len(rx) /\ rx'[n] = rx[n + 1]
      /\ \A n \in 2..Len(rx) : n - 1 \in 1..Len(rx') /\ rx[n] = rx'[n - 1]
  BY <1>1
<1>3. LastStatusExact'
  <2> SUFFICES ASSUME NEW i \in Ids, NEW n \in 1..Len(rx'), StatusOf(n, i)',
                      \A m \in (n + 1)..Len(rx') : ~StatusOf(m, i)'
               PROVE  rx'[n].status = state[i].status
    BY DEF LastStatusExact
  <2>1. n + 1 \in 1..Len(rx) /\ StatusOf(n + 1, i) /\ rx'[n] = rx[n + 1]
    BY <1>2 DEF StatusOf
  <2>2. ASSUME NEW m \in (n + 1 + 1)..Len(rx) PROVE ~StatusOf(m, i)
    <3>1. m - 1 \in (n + 1)..Len(rx') /\ m \in 2..Len(rx)
      BY <1>2
    <3>2. QED
      BY <1>2, <3>1 DEF StatusOf
  <2>3. QED
    BY <2>1, <2>2 DEF LastStatusExact
<1>4. KeysAreSet'
  <2> SUFFICES ASSUME NEW i \in Ids, NEW n \in 1..Len(rx'), KeysOf(n, i)' PROVE state[i].keys = TRUE
    BY DEF KeysAreSet
  <2>1. n + 1 \in 1..Len(rx) /\ KeysOf(n + 1, i)
    BY <1>2 DEF KeysOf
  <2>2. QED
    BY <2>1 DEF KeysAreSet
<1>5. \A n \in 1..Len(rx) : n = 1 \/ n \in 2..Len(rx)
  BY <1>2
<1>6. e.type # "changed" => (NoChanged' => NoChanged)
  BY <1>1, <1>2, <1>5 DEF NoChanged
<1>7. ASSUME NEW i \in Ids
      PROVE  /\ NoStatus(i)' => IF e.type = "status" /\ e.id = i THEN e.status = state[i].status
                                                                ELSE NoStatus(i)
             /\ NoKeys(i)' => NoKeys(i) \/ (e.type = "keys" /\ e.id = i)
             /\ (e.type = "keys" /\ e.id = i) => state[i].keys = TRUE
  <2>1. ASSUME NoStatus(i)', e.type = "status", e.id = i PROVE e.status = state[i].status
    <3>1. StatusOf(1, i)
      BY <1>1, <2>1 DEF StatusOf
    <3>2. \A m \in (1 + 1)..Len(rx) : ~StatusOf(m, i)
      BY <1>2, <2>1 DEF NoStatus, StatusOf
    <3>3. QED
      BY <1>1, <1>2, <3>1, <3>2 DEF LastStatusExact
  <2>2. ASSUME NoStatus(i)', ~(e.type = "status" /\ e.id = i) PROVE NoStatus(i)
    BY <1>1, <1>2, <1>5, <2>2 DEF NoStatus, StatusOf
  <2>3. NoKeys(i)' => NoKeys(i) \/ (e.type = "keys" /\ e.id = i)
    BY <1>1, <1>2, <1>5 DEF NoKeys, KeysOf
  <2>4. (e.type = "keys" /\ e.id = i) => state[i].keys = TRUE
    BY <1>1, <1>2 DEF KeysAreSet, KeysOf
  <2>5. QED
    BY <2>1, <2>2, <2>3, <2>4
<1>8. Len(rx') <= Capacity
  BY <1>1, <1>2
<1>9. QED
  BY <1>2, <1>3, <1>4, <1>6, <1>7, <1>8

-----------------------------------------------------------------------------
(* Types.                                                                  *)

LEMMA NoList == <<>> \in Listing(Ids) /\ DOMAIN <<>> = {}
<1>1. <<>> \in [{} -> States] /\ DOMAIN <<>> = {} /\ {} \in SUBSET Ids
  OBVIOUS
<1>2. QED
  BY <1>1 DEF Listing

\* What is received leaves a channel within its bounds.
LEMMA HandlerTypes == CMTypeOK /\ GTypeOK /\ HandlerStep => CMTypeOK' /\ GTypeOK'
<1> SUFFICES ASSUME CMTypeOK, GTypeOK, HandlerStep PROVE CMTypeOK' /\ GTypeOK'
  OBVIOUS
<1> USE BoundsAssumption
<1>1. CASE Connect
  <2>1. CMTypeOK'
    <3>1. rx' \in Seq(GlobalEvents) /\ Len(rx') <= Capacity /\ lagged' \in BOOLEAN
      <4>1. <<>> \in Seq(GlobalEvents) /\ Len(<<>>) = 0
        OBVIOUS
      <4>2. Capacity \in Nat
        OBVIOUS
      <4>3. rx' = <<>> /\ lagged' = FALSE
        BY <1>1 DEF Connect
      <4> HIDE BoundsAssumption
      <4>4. Len(rx') <= Capacity
        BY <4>1, <4>2, <4>3
      <4>5. QED
        BY <4>1, <4>3, <4>4
    <3>2. QED
      BY <1>1, <3>1 DEF Connect, CMTypeOK, registry, tasks, process
  <2>2. QED
    BY <1>1, <2>1 DEF Connect, GTypeOK, registry
<1>2. CASE ListBegins \/ TickOrRefresh \/ Disconnect \/ SnapshotSent
  <2>1. CMTypeOK'
    BY <1>2 DEF ListBegins, TickOrRefresh, Disconnect, SnapshotSent, cmvars, registry, tasks, process,
                global, CMTypeOK
  <2>2. controllers' = controllers
    BY <1>2 DEF ListBegins, TickOrRefresh, Disconnect, SnapshotSent, cmvars, registry
  <2>3. QED
    BY <1>2, <2>1, <2>2, NoList DEF ListBegins, TickOrRefresh, Disconnect, SnapshotSent, GTypeOK
<1>3. ASSUME NEW i \in Ids, ListReads(i) PROVE CMTypeOK' /\ GTypeOK'
  <2>1. CMTypeOK' /\ controllers' = controllers
    BY <1>3 DEF ListReads, cmvars, registry, tasks, process, global, CMTypeOK
  <2>2. PICK T \in SUBSET Ids : scan \in [T -> States]
    BY DEF GTypeOK, Listing
  <2>3. DOMAIN scan = T /\ state[i] \in States
    BY <2>2 DEF CMTypeOK
  <2>4. scan' = [j \in T \cup {i} |-> IF j = i THEN state[i] ELSE scan[j]]
    BY <1>3, <2>3 DEF ListReads
  <2>5. scan' \in [T \cup {i} -> States] /\ T \cup {i} \in SUBSET Ids
    BY <2>2, <2>3, <2>4
  <2>6. scan' \in Listing(Ids)
    BY <2>5 DEF Listing
  <2>7. DOMAIN scan' \subseteq controllers
    BY <1>3, <2>3, <2>5 DEF ListReads, GTypeOK
  <2>8. QED
    BY <1>3, <2>1, <2>6, <2>7 DEF ListReads, GTypeOK
<1> DEFINE Shorter == /\ rx \in Seq(GlobalEvents) /\ Len(rx) <= Capacity /\ rx # <<>>
                      /\ rx' = Tail(rx)
<1>0. Shorter => rx' \in Seq(GlobalEvents) /\ Len(rx') <= Capacity
  OBVIOUS
<1> HIDE DEF Shorter
<1>r. ASSUME NEW e, Received(e) PROVE Shorter
  BY <1>r DEF Received, Shorter, CMTypeOK
<1>4. ASSUME NEW i \in Ids, NEW s \in Statuses, RecvStatus(i, s) \/ RecvLinkKeys(i)
      PROVE  CMTypeOK' /\ GTypeOK'
  <2>1. CMTypeOK'
    <3>1. rx' \in Seq(GlobalEvents) /\ Len(rx') <= Capacity
      BY <1>4, <1>0, <1>r DEF RecvStatus, RecvLinkKeys
    <3>2. QED
      BY <1>4, <3>1 DEF RecvStatus, RecvLinkKeys, CMTypeOK, registry, tasks, process
  <2>2. PICK T \in SUBSET Ids : view \in [T -> States]
    BY DEF GTypeOK, Listing
  <2>3. view' \in [T -> States]
    BY <1>4, <2>2 DEF RecvStatus, RecvLinkKeys, States
  <2>4. view' \in Listing(Ids)
    BY <2>2, <2>3 DEF Listing
  <2>5. UNCHANGED <<handler, scan, controllers>>
    BY <1>4 DEF RecvStatus, RecvLinkKeys, registry
  <2>6. QED
    BY <2>1, <2>4, <2>5 DEF GTypeOK
<1>5. CASE RecvChanged \/ RecvLagged
  <2>1. rx' \in Seq(GlobalEvents) /\ Len(rx') <= Capacity /\ lagged' \in BOOLEAN
    <3>1. CASE RecvChanged
      BY <3>1, <1>0, <1>r DEF RecvChanged, CMTypeOK
    <3>2. CASE RecvLagged
      BY <3>2 DEF RecvLagged, CMTypeOK
    <3>3. QED
      BY <1>5, <3>1, <3>2
  <2>2. CMTypeOK'
    BY <1>5, <2>1 DEF RecvChanged, RecvLagged, CMTypeOK, registry, tasks, process
  <2>3. QED
    BY <1>5, <2>2 DEF RecvChanged, RecvLagged, GTypeOK
<1>6. QED
  BY <1>1, <1>2, <1>3, <1>4, <1>5, StatusesAssumption DEF HandlerStep, HandlerRuns

LEMMA GTypeInit == GInit => GTypeOK
BY NoList DEF GInit, CMInit, GTypeOK

LEMMA GTypeStep == CMTypeOK /\ GTypeOK /\ [GNext]_gvars => CMTypeOK' /\ GTypeOK'
<1> SUFFICES ASSUME CMTypeOK, GTypeOK, [GNext]_gvars PROVE CMTypeOK' /\ GTypeOK'
  OBVIOUS
<1>1. CASE Unlocked(LockedStep)
  <2>1. CMTypeOK'
    BY <1>1, CMTypeStep DEF Unlocked, CMNext
  <2>2. QED
    BY <1>1, <2>1 DEF Unlocked, ws, GTypeOK
<1>2. CASE OtherStep /\ UNCHANGED ws
  <2>1. CMTypeOK'
    BY <1>2, CMTypeStep DEF CMNext
  <2>2. controllers' = controllers
    BY <1>2 DEF OtherStep, AddSpawns, AddFails, DevicesNotify, AddNotifies, Remove, WatcherNotifies,
                StdoutReader, ReadsStatus, ReadsLinkKeys, WorkerWrites, WorkerExits, registry
  <2>3. QED
    BY <1>2, <2>1, <2>2 DEF ws, GTypeOK
<1>3. CASE HandlerStep
  BY <1>3, HandlerTypes
<1>4. CASE UNCHANGED gvars
  <2>1. CMTypeOK' /\ controllers' = controllers
    BY <1>4, CMTypeStep DEF gvars, cmvars, registry
  <2>2. QED
    BY <1>4, <2>1 DEF gvars, ws, GTypeOK
<1>5. QED
  BY <1>1, <1>2, <1>3, <1>4 DEF GNext

\* With a browser that watches: what the handler has read and shows are
\* states of controllers, and a list that is being taken has only
\* controllers that are registered.
THEOREM WatchTypeCorrect == GSpec => [](CMTypeOK /\ GTypeOK)
<1>1. GInit => CMTypeOK /\ GTypeOK
  BY CMTypeInit, GTypeInit DEF GInit
<1>2. QED
  BY <1>1, GTypeStep, PTL DEF GSpec

-----------------------------------------------------------------------------
(* The invariant.                                                          *)

LEMMA ViewInvInit == GInit => ViewInv
<1> SUFFICES ASSUME GInit PROVE ViewInv
  OBVIOUS
<1>1. CMTypeOK /\ GTypeOK
  BY CMTypeInit, GTypeInit DEF GInit
<1>2. Unborn /\ PrevExact
  BY DEF GInit, CMInit, Unborn, PrevExact, Fresh
<1>3. LastStatusExact /\ KeysAreSet
  <2>1. 1..Len(rx) = {}
    BY DEF GInit, CMInit
  <2>2. QED
    BY <2>1 DEF LastStatusExact, KeysAreSet
<1>4. ListsExact /\ MembersExact
  BY DEF GInit, ListsExact, MembersExact
<1>5. QED
  BY <1>1, <1>2, <1>3, <1>4 DEF ViewInv

\* A step of a task that announces a change.
LEMMA NoticeKeeps ==
  ASSUME ViewInv, Broadcast([type |-> "changed"]), UNCHANGED <<state, ws>>
  PROVE  LastStatusExact' /\ KeysAreSet' /\ ListsExact' /\ MembersExact'
<1> DEFINE e == [type |-> "changed"]
<1>1. e \in GlobalEvents /\ Tells(e) /\ Broadcast(e)
  BY EventTypes DEF Tells
<1>2. Keeps /\ (~lagged' => ~NoChanged')
  BY <1>1, BroadcastKeeps DEF ViewInv, Keeps
<1>3. ListsExact'
  BY <1>2, ListsStayExact DEF ViewInv
<1>4. QED
  BY <1>2, <1>3 DEF Keeps, MembersExact

\* A step of a task or worker that changes neither registry nor membership.
LEMMA MembersStayExact ==
  ASSUME MembersExact, Keeps, UNCHANGED <<controllers, ws>>,
         \A i \in Ids : Announcing(i) => Announcing(i)'
  PROVE  MembersExact'
BY DEF MembersExact, Keeps, ws

LEMMA ReaderKeepsView ==
  ASSUME ViewInv, NEW i \in Ids, StdoutReader(i), UNCHANGED ws
  PROVE  PrevExact' /\ LastStatusExact' /\ KeysAreSet' /\ ListsExact' /\ MembersExact'
<1> USE DEF ViewInv
<1>1. state \in [Ids -> States] /\ prev \in [Ids -> Statuses]
  BY DEF CMTypeOK
<1>2. PrevExact' /\ Keeps
  <2>1. CASE ReadsStatus(i)
    <3> DEFINE s == Head(pipe[i]).status
    <3>1. /\ state' = [state EXCEPT ![i].status = s] /\ prev' = [prev EXCEPT ![i] = s]
          /\ IF s # prev[i] THEN Broadcast([type |-> "status", id |-> i, status |-> s])
                            ELSE UNCHANGED global
      BY <2>1 DEF ReadsStatus
    <3>2. s \in Statuses
      <4>1. Head(pipe[i]) \in WorkerEvents
        BY <2>1 DEF ReadsStatus, CMTypeOK
      <4>2. QED
        BY <2>1, <4>1 DEF ReadsStatus, WorkerEvents
    <3> HIDE DEF s
    <3>3. /\ state'[i].status = s
          /\ \A j \in Ids : /\ j # i => state'[j].status = state[j].status
                            /\ state'[j].keys = state[j].keys
      BY <1>1, <3>1 DEF States
    <3>4. PrevExact'
      <4>1. prev'[i] = s /\ \A j \in Ids : j # i => prev'[j] = prev[j]
        BY <1>1, <3>1
      <4>2. QED
        BY <3>3, <4>1 DEF PrevExact
    <3>5. CASE s # prev[i]
      <4> DEFINE e == [type |-> "status", id |-> i, status |-> s]
      <4>1. e \in GlobalEvents /\ Broadcast(e) /\ e.type = "status" /\ e.id = i /\ e.status = s
        BY <3>1, <3>2, <3>5, EventTypes
      <4> HIDE DEF e
      <4>2. Tells(e)
        BY <3>3, <4>1 DEF Tells
      <4>3. Keeps
        BY <4>1, <4>2, BroadcastKeeps DEF Keeps
      <4>4. QED
        BY <3>4, <4>3
    <3>6. CASE s = prev[i]
      <4>1. UNCHANGED <<rx, lagged>> /\ s = state[i].status
        BY <3>1, <3>6 DEF global, PrevExact
      <4>2. \A j \in Ids : state'[j].status = state[j].status /\ state'[j].keys = state[j].keys
        BY <3>3, <4>1
      <4>3. Keeps
        BY <4>1, <4>2, SilenceKeeps
      <4>4. QED
        BY <3>4, <4>3
    <3>7. QED
      BY <3>5, <3>6
  <2>2. CASE ReadsLinkKeys(i)
    <3>1. state' = [state EXCEPT ![i].keys = TRUE] /\ prev' = prev
          /\ Broadcast([type |-> "keys", id |-> i])
      BY <2>2 DEF ReadsLinkKeys
    <3>2. \A j \in Ids : /\ state'[j].status = state[j].status
                          /\ state'[j].keys = IF j = i THEN TRUE ELSE state[j].keys
      BY <1>1, <3>1 DEF States
    <3> DEFINE e == [type |-> "keys", id |-> i]
    <3>3. e \in GlobalEvents /\ Broadcast(e) /\ e.type = "keys" /\ e.id = i
      BY <3>1, EventTypes
    <3>4. Tells(e)
      BY <3>2, <3>3 DEF Tells
    <3> HIDE DEF e
    <3>5. Keeps
      BY <3>3, <3>4, BroadcastKeeps DEF Keeps
    <3>6. PrevExact'
      BY <3>1, <3>2 DEF PrevExact
    <3>7. QED
      BY <3>5, <3>6
  <2>3. QED
    BY <2>1, <2>2 DEF StdoutReader
<1>3. UNCHANGED <<controllers, adding>> /\ watcher' = watcher
  BY DEF StdoutReader, ReadsStatus, ReadsLinkKeys, registry
<1>4. ListsExact'
  BY <1>2, ListsStayExact
<1>5. MembersExact'
  BY <1>2, <1>3, MembersStayExact DEF Announcing
<1>6. QED
  BY <1>2, <1>4, <1>5 DEF Keeps

\* The handler's own steps.
LEMMA HandlerKeepsView ==
  ASSUME ViewInv, HandlerStep
  PROVE  Unborn' /\ PrevExact' /\ LastStatusExact' /\ KeysAreSet' /\ ListsExact' /\ MembersExact'
<1> USE DEF ViewInv
<1>1. UNCHANGED <<registry, tasks, process>>
  BY DEF HandlerStep, HandlerRuns, Connect, ListBegins, ListReads, SnapshotSent, RecvLagged,
         RecvChanged, RecvStatus, RecvLinkKeys, TickOrRefresh, Disconnect, cmvars
<1>2. UNCHANGED <<next_id, adding, controllers, state, prev, watcher>>
  BY <1>1 DEF registry, tasks
<1>3. Unborn' /\ PrevExact'
  BY <1>2 DEF Unborn, PrevExact
<1>4. DOMAIN view \subseteq Ids /\ DOMAIN scan \subseteq Ids
  BY ListTypes
<1>5. CASE Connect
  <2>1. rx' = <<>> /\ handler' = "snapshot"
    BY <1>5 DEF Connect
  <2>2. 1..Len(<<>>) = {}
    OBVIOUS
  <2>3. LastStatusExact' /\ KeysAreSet'
    BY <2>1, <2>2 DEF LastStatusExact, KeysAreSet
  <2>4. QED
    BY <1>3, <2>1, <2>3 DEF ListsExact, MembersExact
<1>6. ASSUME UNCHANGED <<rx, lagged>>
      PROVE  Keeps
  <2>1. \A i \in Ids : state'[i].status = state[i].status /\ state'[i].keys = state[i].keys
    BY <1>2
  <2>2. QED
    BY <1>6, <2>1, SilenceKeeps
<1>7. CASE RecvLagged \/ TickOrRefresh \/ Disconnect \/ ListBegins
  <2>1. rx' = rx /\ handler' \in {"snapshot", "closed", "listing"}
        /\ (handler' = "listing" => scan' = <<>>)
    BY <1>7 DEF RecvLagged, TickOrRefresh, Disconnect, ListBegins, cmvars, global
  <2>2. LastStatusExact'
    BY <1>2, <2>1 DEF LastStatusExact, StatusOf
  <2>3. KeysAreSet'
    BY <1>2, <2>1 DEF KeysAreSet, KeysOf
  <2>4. DOMAIN <<>> = {}
    BY NoList
  <2>5. ListsExact' /\ MembersExact'
    BY <2>1, <2>4 DEF ListsExact, MembersExact, Exact
  <2>6. QED
    BY <1>3, <2>2, <2>3, <2>5
<1>8. ASSUME NEW i \in Ids, ListReads(i)
      PROVE  LastStatusExact' /\ KeysAreSet' /\ ListsExact' /\ MembersExact'
  <2>1. Keeps /\ lagged' = lagged /\ handler = "listing" /\ handler' = handler
    BY <1>6, <1>8 DEF ListReads, cmvars, global
  <2>2. scan' = [j \in DOMAIN scan \cup {i} |-> IF j = i THEN state[i] ELSE scan[j]]
    BY <1>8 DEF ListReads
  <2>3. DOMAIN scan' = DOMAIN scan \cup {i} /\ scan'[i] = state[i]
        /\ \A j \in DOMAIN scan : j # i => scan'[j] = scan[j]
    BY <2>2
  <2>4. ASSUME ~lagged, NEW j \in DOMAIN scan'
        PROVE  /\ NoStatus(j)' => scan'[j].status = state'[j].status
               /\ NoKeys(j)' => scan'[j].keys = state'[j].keys
    <3>1. CASE j = i
      BY <1>2, <2>3, <3>1
    <3>2. CASE j # i
      <4>1. j \in DOMAIN scan /\ j \in Ids /\ scan'[j] = scan[j]
        BY <1>4, <2>3, <2>4, <3>2
      <4>2. (NoStatus(j)' => NoStatus(j)) /\ (NoKeys(j)' => NoKeys(j))
        BY <2>1, <2>4, <4>1 DEF Keeps
      <4>3. Exact(scan)
        BY <2>1, <2>4 DEF ListsExact
      <4>4. QED
        BY <1>2, <4>1, <4>2, <4>3 DEF Exact
    <3>3. QED
      BY <3>1, <3>2
  <2>5. ListsExact'
    BY <2>1, <2>4 DEF ListsExact, Exact
  <2>6. MembersExact'
    BY <2>1 DEF MembersExact
  <2>7. QED
    BY <2>1, <2>5, <2>6 DEF Keeps
<1>9. CASE SnapshotSent
  <2>1. Keeps /\ lagged' = lagged /\ handler = "listing" /\ handler' = "select" /\ view' = scan
        /\ DOMAIN scan = controllers
    BY <1>6, <1>9 DEF SnapshotSent, cmvars, global
  <2>2. ASSUME ~lagged, NEW j \in DOMAIN scan
        PROVE  /\ NoStatus(j)' => scan[j].status = state'[j].status
               /\ NoKeys(j)' => scan[j].keys = state'[j].keys
    <3>1. Exact(scan) /\ j \in Ids
      BY <1>4, <2>1, <2>2 DEF ListsExact
    <3>2. QED
      BY <1>2, <2>1, <2>2, <3>1 DEF Exact, Keeps
  <2>3. ListsExact'
    BY <2>1, <2>2 DEF ListsExact, Exact
  <2>4. MembersExact'
    BY <1>2, <2>1 DEF MembersExact
  <2>5. QED
    BY <1>3, <2>1, <2>3, <2>4 DEF Keeps
<1>10. CASE RecvChanged
  <2>1. Received([type |-> "changed"]) /\ handler' = "snapshot"
    BY <1>10 DEF RecvChanged
  <2>2. LastStatusExact' /\ KeysAreSet'
    BY <1>2, <2>1, ReceivedKeeps
  <2>3. QED
    BY <1>3, <2>1, <2>2 DEF ListsExact, MembersExact
<1>11. ASSUME NEW i \in Ids, NEW e, NEW f, Received(e), e.type # "changed",
              view' = IF i \in DOMAIN view THEN [view EXCEPT ![i] = f] ELSE view,
              UNCHANGED <<lagged, handler, scan>>,
              i \in DOMAIN view =>
                 /\ f.status = IF e.type = "status" /\ e.id = i THEN e.status ELSE view[i].status
                 /\ f.keys = IF e.type = "keys" /\ e.id = i THEN TRUE ELSE view[i].keys,
              \A j \in Ids \ {i} : ~(e.type \in {"status", "keys"} /\ e.id = j)
       PROVE  LastStatusExact' /\ KeysAreSet' /\ ListsExact' /\ MembersExact'
  <2>1. /\ LastStatusExact' /\ KeysAreSet'
        /\ NoChanged' => NoChanged
        /\ \A j \in Ids :
              /\ NoStatus(j)' => IF e.type = "status" /\ e.id = j THEN e.status = state[j].status
                                                                 ELSE NoStatus(j)
              /\ NoKeys(j)' => NoKeys(j) \/ (e.type = "keys" /\ e.id = j)
              /\ (e.type = "keys" /\ e.id = j) => state[j].keys = TRUE
    BY <1>2, <1>11, ReceivedKeeps
  <2>2. handler = "select" /\ handler' = "select" /\ ~lagged /\ ~lagged'
    BY <1>11 DEF Received
  <2>3. Exact(view)
    BY <2>2 DEF ListsExact
  <2>4. DOMAIN view' = DOMAIN view /\ (i \in DOMAIN view => view'[i] = f)
        /\ \A j \in DOMAIN view : j # i => view'[j] = view[j]
    BY <1>11
  <2>5. ASSUME NEW j \in DOMAIN view
        PROVE  /\ NoStatus(j)' => view'[j].status = state'[j].status
               /\ NoKeys(j)' => view'[j].keys = state'[j].keys
    <3>1. j \in Ids
      BY <1>4
    <3>2. CASE j = i
      <4>1. ASSUME NoStatus(j)' PROVE view'[j].status = state'[j].status
        BY <1>2, <1>11, <2>1, <2>3, <2>4, <3>1, <3>2, <4>1 DEF Exact
      <4>2. ASSUME NoKeys(j)' PROVE view'[j].keys = state'[j].keys
        BY <1>2, <1>11, <2>1, <2>3, <2>4, <3>1, <3>2, <4>2 DEF Exact
      <4>3. QED
        BY <4>1, <4>2
    <3>3. CASE j # i
      <4>1. (NoStatus(j)' => NoStatus(j)) /\ (NoKeys(j)' => NoKeys(j))
        BY <1>11, <2>1, <3>1, <3>3
      <4>2. QED
        BY <1>2, <2>3, <2>4, <3>3, <4>1 DEF Exact
    <3>4. QED
      BY <3>2, <3>3
  <2>6. ListsExact'
    BY <2>2, <2>4, <2>5 DEF ListsExact, Exact
  <2>7. MembersExact'
    BY <1>2, <2>1, <2>2, <2>4 DEF MembersExact, Announcing
  <2>8. QED
    BY <2>1, <2>6, <2>7
<1>12. ASSUME NEW i \in Ids, NEW s \in Statuses, RecvStatus(i, s)
       PROVE  LastStatusExact' /\ KeysAreSet' /\ ListsExact' /\ MembersExact'
  <2> DEFINE e == [type |-> "status", id |-> i, status |-> s]
  <2> DEFINE f == [view[i] EXCEPT !.status = s]
  <2>1. PICK T \in SUBSET Ids : view \in [T -> States]
    BY DEF GTypeOK, Listing
  <2>2. i \in DOMAIN view => f.status = s /\ f.keys = view[i].keys
    BY <2>1 DEF States
  <2>3. /\ Received(e) /\ UNCHANGED <<lagged, handler, scan>>
        /\ view' = IF i \in DOMAIN view THEN [view EXCEPT ![i] = f] ELSE view
    BY <1>12 DEF RecvStatus
  <2>4. e.type = "status" /\ e.id = i /\ e.status = s
    OBVIOUS
  <2> HIDE DEF e, f
  <2>5. QED
    BY <1>11, <2>2, <2>3, <2>4
<1>13. ASSUME NEW i \in Ids, RecvLinkKeys(i)
       PROVE  LastStatusExact' /\ KeysAreSet' /\ ListsExact' /\ MembersExact'
  <2> DEFINE e == [type |-> "keys", id |-> i]
  <2> DEFINE f == [view[i] EXCEPT !.keys = TRUE]
  <2>1. PICK T \in SUBSET Ids : view \in [T -> States]
    BY DEF GTypeOK, Listing
  <2>2. i \in DOMAIN view => f.keys = TRUE /\ f.status = view[i].status
    BY <2>1 DEF States
  <2>3. /\ Received(e) /\ UNCHANGED <<lagged, handler, scan>>
        /\ view' = IF i \in DOMAIN view THEN [view EXCEPT ![i] = f] ELSE view
    BY <1>13 DEF RecvLinkKeys
  <2>4. e.type = "keys" /\ e.id = i
    OBVIOUS
  <2> HIDE DEF e, f
  <2>5. QED
    BY <1>11, <2>2, <2>3, <2>4
<1>14. QED
  BY <1>3, <1>5, <1>7, <1>8, <1>9, <1>10, <1>12, <1>13 DEF HandlerStep, HandlerRuns

LEMMA ViewInvStep == ViewInv /\ [GNext]_gvars => ViewInv'
<1> SUFFICES ASSUME ViewInv, [GNext]_gvars PROVE ViewInv'
  OBVIOUS
<1> USE DEF ViewInv
<1>1. CMTypeOK' /\ GTypeOK'
  BY GTypeStep
\* Steps that say nothing, send nothing and announce nothing new.
<1>2. ASSUME UNCHANGED <<state, prev, global, ws>>, MembersExact'
      PROVE  PrevExact' /\ LastStatusExact' /\ KeysAreSet' /\ ListsExact' /\ MembersExact'
  <2>1. UNCHANGED <<rx, lagged>> /\ \A i \in Ids : state'[i].status = state[i].status
                                              /\ state'[i].keys = state[i].keys
    BY <1>2 DEF global
  <2>2. Keeps
    BY <2>1, SilenceKeeps
  <2>3. ListsExact'
    BY <1>2, <2>2, ListsStayExact
  <2>4. QED
    BY <1>2, <2>2, <2>3 DEF Keeps, PrevExact
<1>3. CASE Unlocked(LockedStep)
  <2>1. PICK i \in Ids : AddInserts(i) \/ WatcherRemoves(i)
    BY <1>3 DEF Unlocked, LockedStep
  <2>2. Announcing(i)' /\ UNCHANGED <<state, prev, global, ws, next_id>>
    BY <1>3, <2>1 DEF Unlocked, AddInserts, WatcherRemoves, Announcing, CMTypeOK, tasks
  <2>3. Unborn'
    BY <2>1, <2>2 DEF AddInserts, WatcherRemoves, Unborn, tasks, CMTypeOK
  <2>4. MembersExact'
    BY <2>2 DEF MembersExact
  <2>5. QED
    BY <1>1, <1>2, <2>2, <2>3, <2>4
<1>4. CASE (AddSpawns \/ AddFails) /\ UNCHANGED ws
  <2>1. next_id \in Ids /\ next_id' = next_id + 1 /\ next_id \in Nat
    BY <1>4, BoundsAssumption DEF AddSpawns, AddFails, CMTypeOK, Ids
  <2>2. UNCHANGED <<state, prev, global, ws, controllers>>
    BY <1>4 DEF AddSpawns, AddFails, tasks
  <2>3. \A i \in Ids : i # next_id => adding'[i] = adding[i] /\ watcher'[i] = watcher[i]
    BY <1>4 DEF AddSpawns, AddFails, tasks, CMTypeOK
  <2>4. Unborn'
    BY <2>1, <2>3 DEF Unborn, Ids
  <2>5. ~Announcing(next_id)
    BY <2>1 DEF Unborn, Announcing
  <2>6. \A i \in Ids : Announcing(i) => Announcing(i)'
    BY <2>3, <2>5 DEF Announcing
  <2>7. MembersExact'
    BY <2>2, <2>6 DEF MembersExact, global, ws, NoChanged
  <2>8. QED
    BY <1>1, <1>2, <2>2, <2>4, <2>7
<1>5. ASSUME NEW i \in Ids, Remove(i) \/ WorkerWrites(i) \/ WorkerExits(i), UNCHANGED ws
      PROVE  ViewInv'
  <2>1. UNCHANGED <<registry, tasks, global>>
    BY <1>5 DEF Remove, WorkerWrites, WorkerExits
  <2>2. UNCHANGED <<state, prev, global, ws, controllers, adding, watcher, next_id>>
    BY <1>5, <2>1 DEF registry, tasks
  <2>3. MembersExact'
    BY <2>2 DEF MembersExact, Announcing, global, ws, NoChanged
  <2>4. Unborn'
    BY <2>2 DEF Unborn
  <2>5. QED
    BY <1>1, <1>2, <2>2, <2>3, <2>4
<1>6. ASSUME Broadcast([type |-> "changed"]), UNCHANGED <<state, prev, next_id, ws>>,
             \A j \in Ids : /\ adding[j] = "no" => adding'[j] = "no"
                            /\ watcher[j] = "no" => watcher'[j] = "no"
      PROVE  ViewInv'
  <2>1. LastStatusExact' /\ KeysAreSet' /\ ListsExact' /\ MembersExact'
    BY <1>6, NoticeKeeps
  <2>2. Unborn' /\ PrevExact'
    BY <1>6 DEF Unborn, PrevExact
  <2>3. QED
    BY <1>1, <2>1, <2>2
<1>7. ASSUME NEW i \in Ids, AddNotifies(i) \/ WatcherNotifies(i), UNCHANGED ws
      PROVE  ViewInv'
  <2>1. /\ Broadcast([type |-> "changed"]) /\ UNCHANGED <<state, prev, next_id>>
        /\ \/ adding[i] = "inserted" /\ adding' = [adding EXCEPT ![i] = "done"] /\ watcher' = watcher
           \/ watcher[i] = "removed" /\ watcher' = [watcher EXCEPT ![i] = "done"] /\ adding' = adding
    BY <1>7 DEF AddNotifies, WatcherNotifies, registry, tasks
  <2>2. ASSUME NEW j \in Ids
        PROVE  (adding[j] = "no" => adding'[j] = "no") /\ (watcher[j] = "no" => watcher'[j] = "no")
    <3>1. adding \in [Ids -> {"no", "spawned", "inserted", "done", "failed"}]
          /\ watcher \in [Ids -> {"no", "waiting", "removed", "done"}]
      BY DEF CMTypeOK
    <3>2. QED
      BY <2>1, <3>1
  <2>3. UNCHANGED <<state, prev, next_id, ws>>
    BY <1>7, <2>1
  <2>4. QED
    BY <1>6, <2>1, <2>2, <2>3
<1>8. CASE DevicesNotify /\ UNCHANGED ws
  BY <1>6, <1>8 DEF DevicesNotify, registry, tasks
<1>9. ASSUME NEW i \in Ids, StdoutReader(i), UNCHANGED ws
      PROVE  ViewInv'
  <2>1. Unborn'
    BY <1>9 DEF StdoutReader, ReadsStatus, ReadsLinkKeys, registry, Unborn
  <2>2. QED
    BY <1>1, <1>9, <2>1, ReaderKeepsView
<1>10. CASE HandlerStep
  BY <1>1, <1>10, HandlerKeepsView
<1>11. CASE UNCHANGED gvars
  <2>1. UNCHANGED <<state, prev, global, ws, controllers, adding, watcher, next_id>>
    BY <1>11 DEF gvars, cmvars, registry, tasks
  <2>2. MembersExact'
    BY <2>1 DEF MembersExact, Announcing, global, ws, NoChanged
  <2>3. Unborn'
    BY <2>1 DEF Unborn
  <2>4. QED
    BY <1>1, <1>2, <2>1, <2>2, <2>3
<1>12. QED
  BY <1>3, <1>4, <1>5, <1>7, <1>8, <1>9, <1>10, <1>11 DEF GNext, OtherStep

\* A browser that has been told everything shows the registry as it is,
\* unless a task is about to announce a change: no update is lost, and no
\* old one stays, for any number of controllers and any capacity of the
\* channel.
THEOREM QuietViewIsExact == GSpec => []QuietViewExact
<1>1. ViewInv => QuietViewExact
  <2> SUFFICES ASSUME ViewInv, handler = "select", ~lagged, rx = <<>>,
                      \A i \in Ids : ~Announcing(i)
               PROVE  view = Registered
    BY DEF QuietViewExact
  <2>1. 1..Len(rx) = {}
    OBVIOUS
  <2>2. NoChanged /\ \A i \in Ids : NoStatus(i) /\ NoKeys(i)
    BY <2>1 DEF NoChanged, NoStatus, NoKeys
  <2>3. DOMAIN view = controllers /\ controllers \subseteq Ids
    BY <2>2 DEF ViewInv, MembersExact, CMTypeOK
  <2>4. PICK T \in SUBSET Ids : view \in [T -> States]
    BY DEF ViewInv, GTypeOK, Listing
  <2>5. T = controllers
    BY <2>3, <2>4
  <2>6. ASSUME NEW i \in controllers PROVE view[i] = state[i]
    <3>1. view[i] \in States /\ state[i] \in States
      BY <2>3, <2>4, <2>5 DEF ViewInv, CMTypeOK
    <3>2. view[i].status = state[i].status /\ view[i].keys = state[i].keys
      BY <2>2, <2>3 DEF ViewInv, ListsExact, Exact
    <3>3. QED
      BY <3>1, <3>2 DEF States
  <2>7. view = [i \in controllers |-> view[i]]
    BY <2>4, <2>5
  <2>8. QED
    BY <2>6, <2>7 DEF Registered
<1>2. QED
  BY <1>1, ViewInvInit, ViewInvStep, PTL DEF GSpec

-----------------------------------------------------------------------------
(* The registry with browsers on it.                                       *)

\* What the handlers do leaves the registry alone.
LEMMA HandlerLeavesRegistry == HandlerStep => UNCHANGED MapVars
BY DEF HandlerStep, HandlerRuns, Connect, ListBegins, ListReads, SnapshotSent, RecvLagged, Received,
       RecvChanged, RecvStatus, RecvLinkKeys, TickOrRefresh, Disconnect, MapVars, cmvars, registry,
       tasks, process

\* A registry that browsers list, are snapshotted from and lag behind still
\* implements the abstract one: the lock that list() takes only delays it.
THEOREM WatchedRegistryRefines == GSpec => Entries!SafeSpec
<1>1. EntryInv /\ [GNext]_gvars =>
          EntryInv' /\ [Entries!Next]_<<entryOf, {i \in Ids : proc[i] = "exited"}>>
  <2>1. [GNext]_gvars => CMNext \/ UNCHANGED MapVars
    BY HandlerLeavesRegistry
       DEF GNext, Unlocked, CMNext, gvars, cmvars, registry, tasks, process, MapVars
  <2>2. QED
    BY <2>1, EntryStep
<1>2. GInit => EntryInv /\ Entries!Init
  BY EntryInvInit, EntryInit DEF GInit
<1>3. QED
  BY <1>1, <1>2, PTL DEF GSpec, Entries!SafeSpec, Entries!rvars

\* With browsers, too, a running worker whose add() has returned is listed:
\* it has not been taken out, since the abstract registry takes out none
\* that runs.
THEOREM WatchedRunningIsListed == GSpec => []LiveIsListed
BY WatchedRegistryRefines, TakenOutHaveEnded, TakenOutIsNotLive, PTL
=============================================================================

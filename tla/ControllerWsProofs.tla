-------------------------- MODULE ControllerWsProofs ------------------------
(***************************************************************************)
(* For any number of browsers and any capacity of the channel: link keys   *)
(* are lost only by lag, only browsers hang up, and a worker with nothing  *)
(* left to read holds, of each part, the last frame of some browser.       *)
(***************************************************************************)
EXTENDS ControllerWs, SequenceTheorems, TLAPS

\* A handler holds an event only while it sends it, and an open connection
\* has a handler.
Holding ==
    \A c \in Clients : /\ handler[c] # "sending" => sending[c] = <<>>
                       /\ handler[c] = "sending" => sending[c] \in Seq(Events) /\ Len(sending[c]) = 1
                       /\ c \in open => handler[c] # "no"

Keys(s) == \E n \in DOMAIN s : s[n].event = "link_keys"

KeysOnTheWay == \A c \in open \cap owed : Keys(erx[c]) \/ Keys(sending[c])

SendingType == sending \in [Clients -> Seq(Events)] /\ owed \subseteq Clients

CWInv == CWTypeOK /\ SendingType /\ Holding /\ KeysOnTheWay

-----------------------------------------------------------------------------
LEMMA EventTypes ==
  /\ [event |-> "link_keys"] \in Events /\ [event |-> "error"] \in Events
  /\ \A p \in BOOLEAN : [event |-> "status", paired |-> p] \in Events
BY DEF Events

LEMMA EmptyHasNoKeys == ~Keys(<<>>)
BY DEF Keys

LEMMA AppendKeys ==
  ASSUME NEW s \in Seq(Events), NEW e \in Events
  PROVE  /\ Append(s, e) \in Seq(Events) /\ Len(Append(s, e)) = Len(s) + 1
         /\ Keys(s) => Keys(Append(s, e))
         /\ e.event = "link_keys" => Keys(Append(s, e))
<1>1. /\ Append(s, e) \in Seq(Events) /\ Len(Append(s, e)) = Len(s) + 1
      /\ \A n \in 1..Len(s) : Append(s, e)[n] = s[n]
      /\ Append(s, e)[Len(s) + 1] = e /\ Len(s) \in Nat
  OBVIOUS
<1>2. DOMAIN s = 1..Len(s) /\ DOMAIN Append(s, e) = 1..(Len(s) + 1)
  BY <1>1
<1>3. \A n \in 1..Len(s) : n \in 1..(Len(s) + 1)
  BY <1>1
<1>4. Len(s) + 1 \in 1..(Len(s) + 1)
  BY <1>1
<1>5. QED
  BY <1>1, <1>2, <1>3, <1>4 DEF Keys

\* Keys that are not the first event are in the rest.
LEMMA TailKeys ==
  ASSUME NEW s \in Seq(Events), s # <<>>
  PROVE  /\ Tail(s) \in Seq(Events) /\ Len(Tail(s)) = Len(s) - 1 /\ Head(s) \in Events
         /\ Keys(s) => Keys(Tail(s)) \/ Head(s).event = "link_keys"
<1>1. /\ Tail(s) \in Seq(Events) /\ Len(Tail(s)) = Len(s) - 1 /\ Head(s) \in Events /\ Head(s) = s[1]
      /\ \A n \in 1..(Len(s) - 1) : Tail(s)[n] = s[n + 1]
      /\ Len(s) \in Nat
  OBVIOUS
<1>2. ASSUME Keys(s), Head(s).event # "link_keys" PROVE Keys(Tail(s))
  <2>1. PICK n \in 1..Len(s) : s[n].event = "link_keys"
    BY <1>2 DEF Keys
  <2>2. n # 1
    BY <1>1, <1>2, <2>1
  <2>3. n - 1 \in 1..(Len(s) - 1) /\ (n - 1) + 1 = n
    BY <1>1, <2>1, <2>2
  <2>4. Tail(s)[n - 1].event = "link_keys" /\ n - 1 \in DOMAIN Tail(s)
    BY <1>1, <2>1, <2>3
  <2>5. QED
    BY <2>4 DEF Keys
<1>3. QED
  BY <1>1, <1>2

\* A broadcast reaches every handler; what a full channel drops is not owed
\* any more.
LEMMA BroadcastKeeps ==
  ASSUME CWTypeOK, SendingType, Holding, KeysOnTheWay, NEW e \in Events, Broadcast(e),
         UNCHANGED <<open, handler, sending>>
  PROVE  /\ erx' \in [Clients -> Seq(Events)] /\ \A c \in Clients : Len(erx'[c]) <= Capacity
         /\ lagged' \in [Clients -> BOOLEAN] /\ owed' \subseteq Clients
         /\ KeysOnTheWay'
<1> DEFINE full == {c \in Alive : Len(erx[c]) = Capacity}
<1>1. /\ erx' = [c \in Clients |-> IF c \notin Alive THEN erx[c]
                                  ELSE Append(IF c \in full THEN Tail(erx[c]) ELSE erx[c], e)]
      /\ lagged' = [c \in Clients |-> lagged[c] \/ c \in full]
      /\ owed' = IF e.event = "link_keys" THEN owed \cup Alive
                 ELSE owed \ {c \in full : Head(erx[c]).event = "link_keys"}
  BY DEF Broadcast
<1>2. Alive \subseteq Clients /\ \A c \in full : c \in Alive /\ Len(erx[c]) = Capacity
  BY DEF Alive
<1>3. \A c \in Clients : erx[c] \in Seq(Events) /\ Len(erx[c]) <= Capacity /\ Len(erx[c]) \in Nat
  BY DEF CWTypeOK
<1>4. \A c \in Alive : c \in full \/ Len(erx[c]) # Capacity
  OBVIOUS
<1>5. lagged' \in [Clients -> BOOLEAN]
  BY <1>1
<1>6. owed' \subseteq Clients
  BY <1>1, <1>2 DEF SendingType
<1> HIDE DEF full
<1>7. ASSUME NEW c \in Clients
      PROVE  /\ erx'[c] \in Seq(Events) /\ Len(erx'[c]) <= Capacity
             /\ (c \in open /\ c \in owed') => Keys(erx'[c]) \/ Keys(sending[c])
  <2>1. CASE c \notin Alive
    <3>1. c \notin open
      BY <2>1 DEF Holding, Alive
    <3>2. erx'[c] = erx[c]
      BY <1>1, <2>1
    <3>3. QED
      BY <1>3, <3>1, <3>2
  <2>2. CASE c \in Alive /\ c \notin full
    <3>1. erx'[c] = Append(erx[c], e)
      BY <1>1, <2>2
    <3>2. Len(erx[c]) + 1 <= Capacity
      BY <1>3, <1>4, <2>2, CWBoundsAssumption
    <3>3. erx'[c] \in Seq(Events) /\ Len(erx'[c]) <= Capacity
      BY <1>3, <3>1, <3>2, AppendKeys
    <3>4. ASSUME c \in open, c \in owed' PROVE Keys(erx'[c]) \/ Keys(sending[c])
      <4>1. CASE e.event = "link_keys"
        BY <1>3, <3>1, <4>1, AppendKeys
      <4>2. CASE e.event # "link_keys"
        <5>1. c \in owed
          BY <1>1, <3>4, <4>2
        <5>2. Keys(erx[c]) \/ Keys(sending[c])
          BY <3>4, <5>1 DEF KeysOnTheWay
        <5>3. QED
          BY <1>3, <3>1, <5>2, AppendKeys
      <4>3. QED
        BY <4>1, <4>2
    <3>5. QED
      BY <3>3, <3>4
  <2>3. CASE c \in full
    <3>1. erx'[c] = Append(Tail(erx[c]), e) /\ Len(erx[c]) = Capacity /\ erx[c] # <<>>
      BY <1>1, <1>2, <1>3, <2>3, CWBoundsAssumption
    <3> DEFINE T == Tail(erx[c])
    <3>2. /\ T \in Seq(Events) /\ Len(T) = Len(erx[c]) - 1
          /\ Keys(erx[c]) => Keys(T) \/ Head(erx[c]).event = "link_keys"
      BY <1>3, <3>1, TailKeys
    <3>3. erx'[c] = Append(T, e)
      BY <3>1
    <3> HIDE DEF T
    <3>4. /\ erx'[c] \in Seq(Events) /\ Len(erx'[c]) = Len(T) + 1
          /\ Keys(T) => Keys(erx'[c])
          /\ e.event = "link_keys" => Keys(erx'[c])
      BY <3>2, <3>3, AppendKeys
    <3>5. Len(erx'[c]) <= Capacity
      BY <3>1, <3>2, <3>4, CWBoundsAssumption
    <3>6. ASSUME c \in open, c \in owed', e.event # "link_keys" PROVE Keys(erx'[c]) \/ Keys(sending[c])
      <4>1. c \in owed /\ Head(erx[c]).event # "link_keys"
        BY <1>1, <2>3, <3>6
      <4>2. Keys(erx[c]) \/ Keys(sending[c])
        BY <3>6, <4>1 DEF KeysOnTheWay
      <4>3. QED
        BY <3>2, <3>4, <4>1, <4>2
    <3>7. QED
      BY <3>4, <3>5, <3>6
  <2>4. QED
    BY <2>1, <2>2, <2>3
<1>8. erx' \in [Clients -> Seq(Events)]
  <2>1. erx' = [c \in Clients |-> erx'[c]]
    BY <1>1
  <2>2. QED
    BY <1>7, <2>1
<1>9. KeysOnTheWay'
  BY <1>6, <1>7 DEF KeysOnTheWay
<1>10. QED
  BY <1>5, <1>6, <1>7, <1>8, <1>9

-----------------------------------------------------------------------------
LEMMA CWInvInit == CWInit => CWInv
<1> SUFFICES ASSUME CWInit PROVE CWInv
  OBVIOUS
<1> USE DEF CWInit
<1>1. Len(<<>>) = 0 /\ <<>> \in Seq(Events) /\ <<>> \in Seq(Commands) /\ <<>> \in Seq(Messages)
  OBVIOUS
<1>2. /\ applied \in [DOMAIN Parts -> Frames \cup {NoFrame}]
      /\ inbox \in [Clients -> Seq(Messages)] /\ out \in [Clients -> Seq(Commands)]
      /\ erx \in [Clients -> Seq(Events)] /\ sending \in [Clients -> Seq(Events)]
      /\ \A c \in Clients : Len(erx[c]) <= Capacity
  BY <1>1, CWBoundsAssumption
<1>3. CWTypeOK
  BY <1>1, <1>2 DEF CWTypeOK
<1>4. SendingType /\ Holding /\ KeysOnTheWay
  BY <1>2 DEF SendingType, Holding, KeysOnTheWay
<1>5. QED
  BY <1>3, <1>4 DEF CWInv

\* What a message turns into.
LEMMA CommandsOfType ==
  ASSUME NEW m \in Messages, m.type # "bad"
  PROVE  CommandsOf(m) \in Seq(Commands) /\ CommandsOf(m) # <<>>
<1>1. CASE m.type = "gamepad_state"
  <2>1. m.frame \in Frames
    BY <1>1 DEF Messages
  <2>2. DOMAIN Parts = 1..3 /\ \A p \in 1..3 : Parts[p] \in {"button", "stick_l", "stick_r"}
    BY DEF Parts
  <2> DEFINE q == [p \in 1..3 |-> [cmd |-> Parts[p], frame |-> m.frame]]
  <2>3. \A p \in 1..3 : [cmd |-> Parts[p], frame |-> m.frame] \in Commands
    BY <2>1, <2>2 DEF Commands
  <2>4. q \in Seq(Commands) /\ Len(q) = 3
    BY <2>3
  <2>5. CommandsOf(m) = q
    BY <1>1, <2>2 DEF CommandsOf
  <2>6. QED
    BY <2>4, <2>5
<1>2. CASE m.type = "get_link_keys"
  <2>1. CommandsOf(m) = <<[cmd |-> "get_link_keys"]>>
    BY <1>2 DEF CommandsOf
  <2>2. [cmd |-> "get_link_keys"] \in Commands
    BY DEF Commands
  <2>3. QED
    BY <2>1, <2>2
<1>3. QED
  BY <1>1, <1>2 DEF Messages

-----------------------------------------------------------------------------
(* Each action keeps the invariant: first the browser's and the handler's. *)

LEMMA BrowserKeeps ==
  ASSUME CWInv, NEW c \in Clients,
         Connect(c) \/ BrowserLeaves(c) \/ \E m \in Messages : BrowserSends(c, m)
  PROVE  CWInv'
<1> USE DEF CWInv, CWTypeOK, SendingType, Holding, KeysOnTheWay, worker, input, client, hvars, event
<1>1. CASE Connect(c)
  <2>1. Len(<<>>) = 0 /\ <<>> \in Seq(Events)
    OBVIOUS
  <2>2. erx' \in [Clients -> Seq(Events)] /\ \A d \in Clients : Len(erx'[d]) <= Capacity
    BY <1>1, <2>1, CWBoundsAssumption DEF Connect
  <2>3. \A d \in Clients : d # c => erx'[d] = erx[d] /\ handler'[d] = handler[d]
    BY <1>1 DEF Connect
  <2>4. CWTypeOK'
    BY <1>1, <2>2 DEF Connect
  <2>5. SendingType' /\ Holding'
    BY <1>1 DEF Connect
  <2>6. KeysOnTheWay'
    BY <1>1, <2>3 DEF Connect
  <2>7. QED
    BY <2>4, <2>5, <2>6
<1>2. CASE BrowserLeaves(c)
  BY <1>2 DEF BrowserLeaves
<1>3. CASE \E m \in Messages : BrowserSends(c, m)
  <2>1. PICK m \in Messages : BrowserSends(c, m)
    BY <1>3
  <2>2. inbox' \in [Clients -> Seq(Messages)]
    BY <2>1 DEF BrowserSends
  <2>3. QED
    BY <2>1, <2>2 DEF BrowserSends
<1>4. QED
  BY <1>1, <1>2, <1>3

LEMMA ReadingKeeps ==
  ASSUME CWInv, NEW c \in Clients, RecvMessage(c)
  PROVE  CWInv'
<1> DEFINE m == Head(inbox[c])
<1> USE DEF CWInv, CWTypeOK, SendingType, Holding, KeysOnTheWay, worker, input, client, hvars, event
<1>1. m \in Messages /\ inbox' \in [Clients -> Seq(Messages)]
  BY DEF RecvMessage
<1>2. CASE m.type = "bad"
  <2>1. /\ handler' = [handler EXCEPT ![c] = "sending"]
        /\ sending' = [sending EXCEPT ![c] = <<[event |-> "error"]>>]
        /\ UNCHANGED <<out, heard, worker, input, open, view, event>>
    BY <1>2 DEF RecvMessage
  <2>2. <<[event |-> "error"]>> \in Seq(Events) /\ Len(<<[event |-> "error"]>>) = 1
    BY EventTypes
  <2>3. handler[c] = "select" /\ sending[c] = <<>>
    BY DEF RecvMessage
  <2>4. CWTypeOK'
    BY <1>1, <2>1, <2>3
  <2>5. SendingType' /\ Holding'
    BY <2>1, <2>2
  <2>6. ASSUME NEW d \in Clients, Keys(sending[d]) PROVE Keys(sending'[d])
    BY <2>1, <2>3, <2>6, EmptyHasNoKeys
  <2>7. KeysOnTheWay'
    BY <2>1, <2>6
  <2>8. QED
    BY <2>4, <2>5, <2>7
<1>3. CASE m.type # "bad"
  <2>1. /\ handler' = [handler EXCEPT ![c] = "dispatch"]
        /\ out' = [out EXCEPT ![c] = CommandsOf(m)]
        /\ UNCHANGED <<sending, worker, input, open, view, event>>
    BY <1>3 DEF RecvMessage
  <2>2. CommandsOf(m) \in Seq(Commands) /\ CommandsOf(m) # <<>>
    BY <1>1, <1>3, CommandsOfType
  <2>3. handler[c] = "select" /\ sending[c] = <<>>
    BY DEF RecvMessage
  <2> HIDE DEF m
  <2>4. CWTypeOK'
    BY <1>1, <2>1, <2>2
  <2>5. SendingType' /\ Holding'
    BY <2>1, <2>3
  <2>6. KeysOnTheWay'
    BY <2>1
  <2>7. QED
    BY <2>4, <2>5, <2>6
<1>4. QED
  BY <1>2, <1>3

LEMMA SendingCommandsKeeps ==
  ASSUME CWInv, NEW c \in Clients, SendCommand(c)
  PROVE  CWInv'
<1> USE DEF CWInv, CWTypeOK, SendingType, Holding, KeysOnTheWay, worker, input, client, hvars, event
<1>1. /\ handler[c] = "dispatch" /\ out[c] # <<>> /\ out[c] \in Seq(Commands)
      /\ out' = [out EXCEPT ![c] = Tail(@)]
      /\ handler' = [handler EXCEPT ![c] = IF Len(out[c]) = 1 THEN "select" ELSE @]
      /\ UNCHANGED <<worker, writer, applied, client, sending, event>>
  BY DEF SendCommand
<1>2. /\ Tail(out[c]) \in Seq(Commands) /\ Head(out[c]) \in Commands
      /\ Tail(out[c]) = <<>> <=> Len(out[c]) = 1
  <2> DEFINE s == out[c]
  <2>1. s \in Seq(Commands) /\ s # <<>>
    BY <1>1
  <2> HIDE DEF s
  <2>2. /\ Tail(s) \in Seq(Commands) /\ Head(s) \in Commands
        /\ Len(Tail(s)) = Len(s) - 1 /\ Len(s) \in Nat
    BY <2>1
  <2>3. Tail(s) = <<>> <=> Len(s) = 1
    <3>1. Tail(s) # <<>> => Len(Tail(s)) \in Nat \ {0}
      BY <2>2, EmptySeq
    <3>2. Tail(s) = <<>> => Len(Tail(s)) = 0
      BY EmptySeq
    <3> DEFINE n == Len(s)
           k == Len(Tail(s))
    <3>3. k = n - 1 /\ n \in Nat
      BY <2>2
    <3> HIDE DEF n, k
    <3>4. QED
      BY <3>1, <3>2, <3>3 DEF n, k
  <2>4. QED
    BY <2>2, <2>3 DEF s
<1>3. queue' \in Seq(Commands)
  BY <1>2 DEF SendCommand
<1>4. out' \in [Clients -> Seq(Commands)] /\ handler' \in [Clients -> {"no", "select", "dispatch", "sending"}]
  BY <1>1, <1>2
<1>5. ASSUME NEW d \in Clients PROVE out'[d] # <<>> <=> handler'[d] = "dispatch"
  BY <1>1, <1>2
<1>6. CWTypeOK'
  BY <1>1, <1>3, <1>4, <1>5
<1>7. SendingType' /\ Holding'
  BY <1>1
<1>8. KeysOnTheWay'
  BY <1>1
<1>9. QED
  BY <1>6, <1>7, <1>8

LEMMA ForwardingKeeps ==
  ASSUME CWInv, NEW c \in Clients, RecvEvent(c)
  PROVE  CWInv'
<1> DEFINE e == Head(erx[c])
<1> USE DEF CWInv, CWTypeOK, SendingType, Holding, KeysOnTheWay, worker, input, client, hvars, event
<1>1. /\ handler[c] = "select" /\ erx[c] # <<>> /\ erx[c] \in Seq(Events)
      /\ erx' = [erx EXCEPT ![c] = Tail(@)]
      /\ UNCHANGED <<worker, input, client, out, lagged, owed>>
  BY DEF RecvEvent
<1>2. /\ Tail(erx[c]) \in Seq(Events) /\ Len(Tail(erx[c])) = Len(erx[c]) - 1 /\ e \in Events
      /\ Keys(erx[c]) => Keys(Tail(erx[c])) \/ e.event = "link_keys"
  BY <1>1, TailKeys
<1>3. e.event \in {"status", "link_keys", "error"}
  BY <1>2 DEF Events
<1>4. /\ handler' = [handler EXCEPT ![c] = "sending"]
      /\ sending' = [sending EXCEPT ![c] = <<e>>]
  BY <1>3 DEF RecvEvent, Forwarded
<1>5. sending[c] = <<>>
  BY <1>1
<1>6. <<e>> \in Seq(Events) /\ Len(<<e>>) = 1 /\ (e.event = "link_keys" => Keys(<<e>>))
  BY <1>2 DEF Keys
<1> HIDE DEF e
<1>7. erx' \in [Clients -> Seq(Events)] /\ \A d \in Clients : Len(erx'[d]) <= Capacity
  BY <1>1, <1>2, CWBoundsAssumption
<1>8. CWTypeOK'
  BY <1>1, <1>4, <1>7
<1>9. SendingType' /\ Holding'
  BY <1>1, <1>4, <1>6
<1>10. ASSUME NEW d \in Clients, Keys(erx[d]) \/ Keys(sending[d])
       PROVE  Keys(erx'[d]) \/ Keys(sending'[d])
  <2>1. CASE d = c
    BY <1>1, <1>2, <1>4, <1>5, <1>6, <1>10, <2>1, EmptyHasNoKeys
  <2>2. CASE d # c
    BY <1>1, <1>4, <1>10, <2>2
  <2>3. QED
    BY <2>1, <2>2
<1>11. KeysOnTheWay'
  BY <1>1, <1>10
<1>12. QED
  BY <1>8, <1>9, <1>11

LEMMA LagAndEndKeep ==
  ASSUME CWInv, NEW c \in Clients, RecvLagged(c) \/ Sent(c) \/ SendFails(c) \/ RecvClose(c)
  PROVE  CWInv'
<1> USE DEF CWInv, CWTypeOK, SendingType, Holding, KeysOnTheWay, worker, input, client, hvars, event
<1>0. <<>> \in Seq(Events) /\ <<>> \in Seq(Messages)
  OBVIOUS
<1>1. CASE RecvLagged(c)
  BY <1>1 DEF RecvLagged
<1>2. CASE Sent(c)
  <2> DEFINE e == Head(sending[c])
  <2>1. /\ handler[c] = "sending" /\ sending[c] \in Seq(Events) /\ Len(sending[c]) = 1
        /\ owed' = IF e.event = "link_keys" THEN owed \ {c} ELSE owed
        /\ sending' = [sending EXCEPT ![c] = <<>>]
        /\ handler' = [handler EXCEPT ![c] = "select"]
        /\ UNCHANGED <<worker, input, open, inbox, heard, out, erx, lagged>>
    BY <1>2 DEF Sent
  <2>2. CWTypeOK'
    BY <2>1
  <2>3. SendingType' /\ Holding'
    BY <1>0, <2>1
  <2>4. e = sending[c][1] /\ DOMAIN sending[c] = {1}
    BY <2>1
  <2>5. ASSUME NEW d \in Clients, d \in open, d \in owed'
        PROVE  Keys(erx'[d]) \/ Keys(sending'[d])
    <3>1. d \in owed /\ (Keys(erx[d]) \/ Keys(sending[d]))
      BY <2>1, <2>5
    <3>2. CASE d = c
      <4>1. ~Keys(sending[c])
        BY <2>1, <2>4, <2>5, <3>2 DEF Keys
      <4>2. QED
        BY <2>1, <3>1, <3>2, <4>1
    <3>3. CASE d # c
      BY <2>1, <3>1, <3>3
    <3>4. QED
      BY <3>2, <3>3
  <2>6. KeysOnTheWay'
    BY <2>1, <2>5
  <2>7. QED
    BY <2>2, <2>3, <2>6
<1>3. CASE SendFails(c)
  <2>1. /\ handler[c] = "sending" /\ c \notin open
        /\ sending' = [sending EXCEPT ![c] = <<>>]
        /\ handler' = [handler EXCEPT ![c] = "no"] \/ handler' = [handler EXCEPT ![c] = "select"]
        /\ inbox' \in [Clients -> Seq(Messages)]
        /\ UNCHANGED <<worker, input, open, out, event>>
    BY <1>0, <1>3 DEF SendFails, Ends
  <2>2. CWTypeOK'
    BY <2>1
  <2>3. SendingType' /\ Holding'
    BY <1>0, <2>1
  <2>4. KeysOnTheWay'
    BY <2>1
  <2>5. QED
    BY <2>2, <2>3, <2>4
<1>4. CASE RecvClose(c)
  <2>1. /\ handler[c] = "select" /\ c \notin open
        /\ handler' = [handler EXCEPT ![c] = "no"]
        /\ inbox' \in [Clients -> Seq(Messages)]
        /\ UNCHANGED <<worker, input, open, out, event, sending>>
    BY <1>0, <1>4 DEF RecvClose, Ends
  <2>2. QED
    BY <2>1
<1>5. QED
  BY <1>1, <1>2, <1>3, <1>4

\* Then the worker's, with the tasks at its pipes.
LEMMA WorkerKeeps ==
  ASSUME CWInv,
         StatusTick \/ PairedChanges \/ NewKeys \/ TakeCommand \/ WorkerExits \/ WatcherRemoves \/ WriteFails
  PROVE  CWInv'
<1> USE DEF worker, input, client, hvars, event
<1>1. ASSUME NEW e \in Events, Broadcast(e), UNCHANGED <<open, handler, sending, worker, writer, client, out>>,
             queue' \in Seq(Commands), applied' \in [DOMAIN Parts -> Frames \cup {NoFrame}]
      PROVE  CWInv'
  <2>1. /\ erx' \in [Clients -> Seq(Events)] /\ \A c \in Clients : Len(erx'[c]) <= Capacity
        /\ lagged' \in [Clients -> BOOLEAN] /\ owed' \subseteq Clients
        /\ KeysOnTheWay'
    BY <1>1, BroadcastKeeps DEF CWInv
  <2>2. CWTypeOK'
    BY <1>1, <2>1 DEF CWInv, CWTypeOK
  <2>3. SendingType' /\ Holding'
    BY <1>1, <2>1 DEF CWInv, SendingType, Holding
  <2>4. QED
    BY <2>1, <2>2, <2>3 DEF CWInv
<1>2. CASE StatusTick
  <2>1. PICK e \in Events : Broadcast(e) /\ UNCHANGED <<worker, input, client, hvars>>
    BY <1>2, EventTypes DEF StatusTick, CWInv, CWTypeOK
  <2>2. QED
    BY <1>1, <2>1 DEF CWInv, CWTypeOK
<1>3. CASE NewKeys
  <2>1. PICK e \in Events : Broadcast(e) /\ UNCHANGED <<worker, input, client, hvars>>
    BY <1>3, EventTypes DEF NewKeys
  <2>2. QED
    BY <1>1, <2>1 DEF CWInv, CWTypeOK
<1>4. CASE TakeCommand
  <2>1. queue' \in Seq(Commands) /\ Head(queue) \in Commands
    BY <1>4 DEF TakeCommand, CWInv, CWTypeOK
  <2>2. CASE Head(queue).cmd = "get_link_keys"
    <3>1. PICK e \in Events : Broadcast(e) /\ UNCHANGED <<worker, writer, applied, client, hvars>>
      BY <1>4, <2>2, EventTypes DEF TakeCommand
    <3>2. QED
      BY <1>1, <2>1, <3>1 DEF CWInv, CWTypeOK
  <2>3. CASE Head(queue).cmd # "get_link_keys"
    <3>1. Head(queue).frame \in Frames
      BY <2>1, <2>3 DEF Commands
    <3>2. /\ applied' = [p \in DOMAIN Parts |-> IF Parts[p] = Head(queue).cmd THEN Head(queue).frame ELSE applied[p]]
          /\ UNCHANGED <<worker, writer, client, hvars, event>>
      BY <1>4, <2>3 DEF TakeCommand
    <3>3. applied' \in [DOMAIN Parts -> Frames \cup {NoFrame}]
      BY <3>1, <3>2 DEF CWInv, CWTypeOK
    <3>4. QED
      BY <2>1, <3>2, <3>3 DEF CWInv, CWTypeOK, SendingType, Holding, KeysOnTheWay
  <2>4. QED
    BY <2>2, <2>3
<1>5. CASE PairedChanges
  BY <1>5 DEF PairedChanges, CWInv, CWTypeOK, SendingType, Holding, KeysOnTheWay
<1>6. CASE WorkerExits
  BY <1>6 DEF WorkerExits, CWInv, CWTypeOK, SendingType, Holding, KeysOnTheWay
<1>7. CASE WatcherRemoves
  BY <1>7 DEF WatcherRemoves, CWInv, CWTypeOK, SendingType, Holding, KeysOnTheWay
<1>8. CASE WriteFails
  <2>1. queue' \in Seq(Commands)
    BY <1>8 DEF WriteFails
  <2>2. QED
    BY <1>8, <2>1 DEF WriteFails, CWInv, CWTypeOK, SendingType, Holding, KeysOnTheWay
<1>9. QED
  BY <1>2, <1>3, <1>4, <1>5, <1>6, <1>7, <1>8

LEMMA CWInvStep == CWInv /\ [CWNext]_cwvars => CWInv'
<1> SUFFICES ASSUME CWInv, [CWNext]_cwvars PROVE CWInv'
  OBVIOUS
<1>1. ASSUME NEW c \in Clients, Handler(c) PROVE CWInv'
  BY <1>1, ReadingKeeps, SendingCommandsKeeps, ForwardingKeeps, LagAndEndKeep DEF Handler
<1>2. ASSUME NEW c \in Clients, Connect(c) \/ BrowserLeaves(c) \/ \E m \in Messages : BrowserSends(c, m)
      PROVE  CWInv'
  BY <1>2, BrowserKeeps
<1>3. CASE UNCHANGED cwvars
  BY <1>3 DEF cwvars, worker, input, client, hvars, event,
              CWInv, CWTypeOK, SendingType, Holding, KeysOnTheWay
<1>4. QED
  BY <1>1, <1>2, <1>3, WorkerKeeps DEF CWNext

LEMMA CWInvariance == CWSpec => []CWInv
<1>1. QED
  BY CWInvInit, CWInvStep, PTL DEF CWSpec

-----------------------------------------------------------------------------
\* Every browser, queue and channel stays what the code's types allow, the
\* channel of ws_server.rs never holds more than its capacity, and commands
\* are left over only in the middle of a message.
THEOREM ConnectionTypeCorrect == CWSpec => []CWTypeOK
<1>1. CWInv => CWTypeOK
  BY DEF CWInv
<1>2. QED
  BY <1>1, CWInvariance, PTL

\* LinkKeys, which nothing repeats, reach every browser that was there when
\* they were sent (ws_server.rs 51-67), unless its channel overran.
THEOREM KeysAreLostOnlyByLag == CWSpec => []KeysLostOnlyByLag
<1>1. CWInv => KeysLostOnlyByLag
  BY DEF CWInv, KeysOnTheWay, Keys, KeysLostOnlyByLag
<1>2. QED
  BY <1>1, CWInvariance, PTL

\* Of the ways in which the loop of ws_server.rs 46-93 ends, none is open
\* while the browser is there.
THEOREM HandlersOutliveControllers == CWSpec => OnlyBrowsersHangUp
<1> DEFINE P == \A c \in open : handler[c] # "no" => handler'[c] # "no"
<1>1. ASSUME CWInv, CWNext PROVE P
  <2> SUFFICES ASSUME NEW d \in open, handler[d] # "no" PROVE handler'[d] # "no"
    OBVIOUS
  <2> USE DEF worker, input, client, hvars, event
  <2>1. handler \in [Clients -> {"no", "select", "dispatch", "sending"}] /\ d \in Clients
    BY <1>1 DEF CWInv, CWTypeOK
  <2>2. ASSUME NEW c \in Clients, Handler(c) PROVE handler'[d] # "no"
    <3>1. CASE RecvMessage(c)
      BY <2>1, <3>1 DEF RecvMessage
    <3>2. CASE SendCommand(c)
      BY <2>1, <3>2 DEF SendCommand
    <3>3. CASE RecvEvent(c)
      BY <2>1, <3>3 DEF RecvEvent
    <3>4. CASE RecvLagged(c)
      BY <2>1, <3>4 DEF RecvLagged
    <3>5. CASE Sent(c)
      BY <2>1, <3>5 DEF Sent
    <3>6. CASE SendFails(c)
      <4>1. c # d
        BY <3>6 DEF SendFails
      <4>2. QED
        BY <2>1, <3>6, <4>1 DEF SendFails, Ends
    <3>7. CASE RecvClose(c)
      <4>1. c # d
        BY <3>7 DEF RecvClose
      <4>2. QED
        BY <2>1, <3>7, <4>1 DEF RecvClose, Ends
    <3>8. QED
      BY <2>2, <3>1, <3>2, <3>3, <3>4, <3>5, <3>6, <3>7 DEF Handler
  <2>3. ASSUME NEW c \in Clients, Connect(c) \/ BrowserLeaves(c) \/ \E m \in Messages : BrowserSends(c, m)
        PROVE  handler'[d] # "no"
    BY <2>1, <2>3 DEF Connect, BrowserLeaves, BrowserSends
  <2>4. CASE StatusTick \/ PairedChanges \/ NewKeys \/ TakeCommand \/ WorkerExits \/ WatcherRemoves \/ WriteFails
    BY <2>4 DEF StatusTick, PairedChanges, NewKeys, TakeCommand, WorkerExits, WatcherRemoves, WriteFails
  <2>5. QED
    BY <1>1, <2>2, <2>3, <2>4 DEF CWNext
<1>2. CWInv /\ [CWNext]_cwvars => [P]_cwvars
  BY <1>1
<1>3. QED
  BY <1>2, CWInvariance, PTL DEF CWSpec, OnlyBrowsersHangUp

-----------------------------------------------------------------------------
(* QuietHoldsLast.  Of a part, the command that the worker will have last  *)
(* is that of some browser, unless a browser is about to send a newer one. *)

\* A browser's handler has a command for the part to send.
ToSend(c, p) == \E n \in DOMAIN out[c] : out[c][n].cmd = Parts[p]

\* When the queue has been worked off, f is what the worker holds of p.
EndsWith(p, f) ==
    \/ \E n \in DOMAIN queue : /\ queue[n].cmd = Parts[p] /\ queue[n].frame = f
                               /\ \A k \in DOMAIN queue : k > n => queue[k].cmd # Parts[p]
    \/ /\ applied[p] = f
       /\ \A n \in DOMAIN queue : queue[n].cmd # Parts[p]

HeardType == heard \in [Clients -> Frames \cup {NoFrame}]

\* What is still to be sent is from the frame that was read last.
OutIsHeard ==
    \A c \in Clients : \A n \in DOMAIN out[c] :
        out[c][n].cmd # "get_link_keys" => out[c][n].frame = heard[c]

LastIsHeard ==
    proc = "running" =>
        /\ writer = "up"
        /\ \A p \in DOMAIN Parts : \E c \in Clients : ToSend(c, p) \/ EndsWith(p, heard[c])

QuietInv == HeardType /\ OutIsHeard /\ LastIsHeard

LEMMA PartsAre == DOMAIN Parts = 1..3 /\ \A p \in 1..3 : Parts[p] \in {"button", "stick_l", "stick_r"}
BY DEF Parts

\* A command at the end of the queue is what the worker ends with, of its
\* part; it makes no difference to the others.
LEMMA AppendEnds ==
  ASSUME queue \in Seq(Commands), NEW k \in Commands, queue' = Append(queue, k),
         applied' = applied, NEW p \in DOMAIN Parts, NEW f
  PROVE  /\ (k.cmd = Parts[p] /\ k.frame = f) => EndsWith(p, f)'
         /\ (k.cmd # Parts[p] /\ EndsWith(p, f)) => EndsWith(p, f)'
<1>1. /\ Len(queue) \in Nat /\ DOMAIN queue = 1..Len(queue)
      /\ DOMAIN queue' = 1..(Len(queue) + 1) /\ queue'[Len(queue) + 1] = k
      /\ \A n \in 1..Len(queue) : queue'[n] = queue[n]
  OBVIOUS
<1>2. ASSUME k.cmd = Parts[p], k.frame = f PROVE EndsWith(p, f)'
  <2>1. Len(queue) + 1 \in DOMAIN queue' /\ \A n \in DOMAIN queue' : ~(n > Len(queue) + 1)
    BY <1>1
  <2>2. QED
    BY <1>1, <1>2, <2>1 DEF EndsWith
<1>3. ASSUME k.cmd # Parts[p], EndsWith(p, f) PROVE EndsWith(p, f)'
  <2>1. CASE applied[p] = f /\ \A n \in DOMAIN queue : queue[n].cmd # Parts[p]
    <3>1. \A n \in DOMAIN queue' : n \in DOMAIN queue \/ n = Len(queue) + 1
      BY <1>1
    <3>2. QED
      BY <1>1, <1>3, <2>1, <3>1 DEF EndsWith
  <2>2. ASSUME NEW n \in DOMAIN queue, queue[n].cmd = Parts[p], queue[n].frame = f,
               \A i \in DOMAIN queue : i > n => queue[i].cmd # Parts[p]
        PROVE  EndsWith(p, f)'
    <3>1. \A i \in DOMAIN queue' : i \in DOMAIN queue \/ i = Len(queue) + 1
      BY <1>1
    <3>2. n \in DOMAIN queue' /\ queue'[n] = queue[n]
      BY <1>1, <2>2
    <3>3. \A i \in DOMAIN queue' : i > n => queue'[i].cmd # Parts[p]
      BY <1>1, <1>3, <2>2, <3>1
    <3>4. QED
      BY <2>2, <3>2, <3>3 DEF EndsWith
  <2>3. QED
    BY <1>3, <2>1, <2>2 DEF EndsWith
<1>4. QED
  BY <1>2, <1>3

\* Carrying out the first command does not change what the worker ends with.
LEMMA TakingEnds ==
  ASSUME queue \in Seq(Commands), queue # <<>>, queue' = Tail(queue), NEW p \in DOMAIN Parts, NEW f,
         applied'[p] = IF Parts[p] = Head(queue).cmd THEN Head(queue).frame ELSE applied[p],
         EndsWith(p, f)
  PROVE  EndsWith(p, f)'
<1>1. /\ Len(queue) \in Nat \ {0} /\ DOMAIN queue = 1..Len(queue) /\ Head(queue) = queue[1]
      /\ DOMAIN queue' = 1..(Len(queue) - 1)
      /\ \A n \in 1..(Len(queue) - 1) : queue'[n] = queue[n + 1]
  OBVIOUS
<1>2. \A n \in DOMAIN queue' : n + 1 \in DOMAIN queue /\ queue'[n] = queue[n + 1]
  BY <1>1
<1>3. CASE applied[p] = f /\ \A n \in DOMAIN queue : queue[n].cmd # Parts[p]
  <2>1. applied'[p] = f
    BY <1>1, <1>3
  <2>2. QED
    BY <1>2, <1>3, <2>1 DEF EndsWith
<1>4. ASSUME NEW n \in DOMAIN queue, queue[n].cmd = Parts[p], queue[n].frame = f,
             \A i \in DOMAIN queue : i > n => queue[i].cmd # Parts[p]
      PROVE  EndsWith(p, f)'
  <2>1. CASE n = 1
    <3>1. applied'[p] = f
      BY <1>1, <1>4, <2>1
    <3>2. \A i \in DOMAIN queue' : i + 1 > n
      BY <1>1, <2>1
    <3>3. \A i \in DOMAIN queue' : queue'[i].cmd # Parts[p]
      BY <1>2, <1>4, <3>2
    <3>4. QED
      BY <3>1, <3>3 DEF EndsWith
  <2>2. CASE n # 1
    <3>1. n - 1 \in DOMAIN queue' /\ queue'[n - 1] = queue[n]
      <4>1. n - 1 \in 1..(Len(queue) - 1) /\ (n - 1) + 1 = n
        BY <1>1, <2>2
      <4>2. QED
        BY <1>1, <4>1
    <3>2. \A i \in DOMAIN queue' : i > n - 1 => i + 1 > n
      BY <1>1
    <3>3. \A i \in DOMAIN queue' : i > n - 1 => queue'[i].cmd # Parts[p]
      BY <1>2, <1>4, <3>2
    <3>4. QED
      BY <1>4, <3>1, <3>3 DEF EndsWith
  <2>3. QED
    BY <2>1, <2>2
<1>5. QED
  BY <1>3, <1>4 DEF EndsWith

\* Steps that leave alone what the invariant is about.
LEMMA QuietElsewhere ==
  ASSUME QuietInv, UNCHANGED <<queue, applied, writer, out, heard>>, proc' = proc \/ proc' # "running"
  PROVE  QuietInv'
<1>1. \A c \in Clients, p \in DOMAIN Parts :
         (ToSend(c, p)' <=> ToSend(c, p)) /\ (EndsWith(p, heard[c])' <=> EndsWith(p, heard[c]))
  BY DEF ToSend, EndsWith
<1>2. HeardType' /\ OutIsHeard'
  BY DEF QuietInv, HeardType, OutIsHeard
<1>3. LastIsHeard'
  BY <1>1 DEF QuietInv, LastIsHeard
<1>4. QED
  BY <1>2, <1>3 DEF QuietInv

\* A frame that was read makes a command for every part, each with it.
LEMMA FrameHasAllParts ==
  ASSUME NEW m \in Messages, m.type = "gamepad_state"
  PROVE  /\ \A n \in DOMAIN CommandsOf(m) : CommandsOf(m)[n].frame = m.frame
         /\ \A p \in DOMAIN Parts : \E n \in DOMAIN CommandsOf(m) : CommandsOf(m)[n].cmd = Parts[p]
<1>1. CommandsOf(m) = [p \in DOMAIN Parts |-> [cmd |-> Parts[p], frame |-> m.frame]]
  BY DEF CommandsOf
<1>2. QED
  BY <1>1

LEMMA ReadingIsQuiet ==
  ASSUME CWInv, QuietInv, NEW c \in Clients, RecvMessage(c)
  PROVE  QuietInv'
<1> DEFINE m == Head(inbox[c])
<1>1. /\ m \in Messages /\ handler[c] = "select" /\ out[c] = <<>>
      /\ out \in [Clients -> Seq(Commands)] /\ heard \in [Clients -> Frames \cup {NoFrame}]
  BY DEF RecvMessage, CWInv, CWTypeOK, QuietInv, HeardType
<1>2. UNCHANGED <<queue, applied, writer, proc>>
  BY DEF RecvMessage, worker, input
<1>3. CASE m.type = "bad"
  <2>1. UNCHANGED <<out, heard>>
    BY <1>3 DEF RecvMessage
  <2>2. QED
    BY <1>2, <2>1, QuietElsewhere
<1>4. CASE m.type = "gamepad_state"
  <2>1. out' = [out EXCEPT ![c] = CommandsOf(m)] /\ heard' = [heard EXCEPT ![c] = m.frame]
    BY <1>4 DEF RecvMessage
  <2>2. m.frame \in Frames
    BY <1>1, <1>4 DEF Messages
  <2> HIDE DEF m
  <2>3. /\ \A n \in DOMAIN out'[c] : out'[c][n].frame = heard'[c]
        /\ \A p \in DOMAIN Parts : ToSend(c, p)'
    BY <1>1, <1>4, <2>1, FrameHasAllParts DEF ToSend
  <2>4. \A d \in Clients : d # c => out'[d] = out[d] /\ heard'[d] = heard[d]
    BY <1>1, <2>1
  <2>5. HeardType' /\ OutIsHeard'
    <3>1. HeardType'
      BY <1>1, <2>1, <2>2 DEF HeardType
    <3>2. OutIsHeard'
      BY <2>3, <2>4 DEF QuietInv, OutIsHeard
    <3>3. QED
      BY <3>1, <3>2
  <2>6. LastIsHeard'
    BY <1>2, <2>3 DEF QuietInv, LastIsHeard
  <2>7. QED
    BY <2>5, <2>6 DEF QuietInv
<1>5. CASE m.type = "get_link_keys"
  <2>1. out' = [out EXCEPT ![c] = <<[cmd |-> "get_link_keys"]>>] /\ heard' = heard
    BY <1>5 DEF RecvMessage, CommandsOf
  <2>2. \A d \in Clients : d # c => out'[d] = out[d]
    BY <1>1, <2>1
  <2>3. \A n \in DOMAIN out'[c] : out'[c][n].cmd = "get_link_keys"
    BY <1>1, <2>1
  <2>4. HeardType' /\ OutIsHeard'
    BY <2>1, <2>2, <2>3 DEF QuietInv, HeardType, OutIsHeard
  <2>5. \A p \in DOMAIN Parts : ~ToSend(c, p)
    BY <1>1 DEF ToSend
  <2>6. \A d \in Clients, p \in DOMAIN Parts :
           (ToSend(d, p) => ToSend(d, p)') /\ (EndsWith(p, heard[d]) => EndsWith(p, heard[d])')
    BY <1>2, <2>1, <2>2, <2>5 DEF ToSend, EndsWith
  <2>7. LastIsHeard'
    BY <1>2, <2>6 DEF QuietInv, LastIsHeard
  <2>8. QED
    BY <2>4, <2>7 DEF QuietInv
<1>6. QED
  BY <1>1, <1>3, <1>4, <1>5 DEF Messages

LEMMA SendingIsQuiet ==
  ASSUME CWInv, QuietInv, NEW c \in Clients, SendCommand(c)
  PROVE  QuietInv'
<1> DEFINE k == Head(out[c])
<1>1. /\ out[c] \in Seq(Commands) /\ out[c] # <<>> /\ queue \in Seq(Commands)
      /\ out \in [Clients -> Seq(Commands)]
      /\ out' = [out EXCEPT ![c] = Tail(@)]
      /\ queue' = IF writer = "up" THEN Append(queue, k) ELSE queue
      /\ UNCHANGED <<proc, writer, applied, heard>>
  BY DEF SendCommand, CWInv, CWTypeOK, worker, client
<1>2. /\ k \in Commands /\ k = out[c][1] /\ 1 \in DOMAIN out[c]
      /\ out'[c] = Tail(out[c])
      /\ \A n \in DOMAIN Tail(out[c]) : n + 1 \in DOMAIN out[c] /\ Tail(out[c])[n] = out[c][n + 1]
      /\ \A n \in DOMAIN out[c] : n = 1 \/ (n - 1 \in DOMAIN Tail(out[c]) /\ Tail(out[c])[n - 1] = out[c][n])
  <2> DEFINE s == out[c]
  <2>1. s \in Seq(Commands) /\ s # <<>>
    BY <1>1
  <2> HIDE DEF s
  <2>2. /\ Head(s) \in Commands /\ Head(s) = s[1] /\ 1 \in DOMAIN s /\ Len(s) \in Nat
        /\ DOMAIN s = 1..Len(s) /\ DOMAIN Tail(s) = 1..(Len(s) - 1)
        /\ \A n \in 1..(Len(s) - 1) : Tail(s)[n] = s[n + 1]
    BY <2>1
  <2>3. \A n \in DOMAIN Tail(s) : n + 1 \in DOMAIN s /\ Tail(s)[n] = s[n + 1]
    BY <2>2
  <2>4. \A n \in DOMAIN s : n = 1 \/ (n - 1 \in DOMAIN Tail(s) /\ Tail(s)[n - 1] = s[n])
    <3> SUFFICES ASSUME NEW n \in DOMAIN s, n # 1
                 PROVE  n - 1 \in DOMAIN Tail(s) /\ Tail(s)[n - 1] = s[n]
      OBVIOUS
    <3>1. n - 1 \in 1..(Len(s) - 1) /\ (n - 1) + 1 = n
      BY <2>2
    <3>2. QED
      BY <2>2, <3>1
  <2>5. QED
    BY <1>1, <2>2, <2>3, <2>4 DEF s
<1> HIDE DEF k
<1>3. \A d \in Clients : d # c => out'[d] = out[d]
  BY <1>1
<1>4. OutIsHeard'
  <2>1. \A n \in DOMAIN out'[c] : out'[c][n].cmd # "get_link_keys" => out'[c][n].frame = heard'[c]
    BY <1>1, <1>2 DEF QuietInv, OutIsHeard
  <2>2. QED
    BY <1>1, <1>3, <2>1 DEF QuietInv, OutIsHeard
<1>5. ASSUME NEW p \in DOMAIN Parts, proc' = "running"
      PROVE  \E d \in Clients : (ToSend(d, p) \/ EndsWith(p, heard[d]))'
  <2>1. writer = "up" /\ queue' = Append(queue, k)
    BY <1>1, <1>5 DEF QuietInv, LastIsHeard
  <2>2. PICK d \in Clients : ToSend(d, p) \/ EndsWith(p, heard[d])
    BY <1>1, <1>5 DEF QuietInv, LastIsHeard
  <2>3. CASE k.cmd = Parts[p]
    <3>1. k.frame = heard[c]
      BY <1>2, <2>3, PartsAre DEF QuietInv, OutIsHeard
    <3>2. EndsWith(p, heard[c])'
      <4>1. \A g : k.frame = g => EndsWith(p, g)'
        BY <1>1, <1>2, <2>1, <2>3, AppendEnds
      <4>2. heard'[c] = k.frame
        BY <1>1, <3>1
      <4>3. QED
        BY <4>1, <4>2 DEF EndsWith
    <3>3. QED
      BY <3>2
  <2>4. CASE k.cmd # Parts[p] /\ ToSend(d, p)
    <3>1. PICK n \in DOMAIN out[d] : out[d][n].cmd = Parts[p]
      BY <2>4 DEF ToSend
    <3>2. ToSend(d, p)'
      <4>1. CASE d = c
        <5>1. n # 1
          BY <1>2, <2>4, <3>1, <4>1
        <5>2. n - 1 \in DOMAIN out'[c] /\ out'[c][n - 1].cmd = Parts[p]
          BY <1>2, <3>1, <4>1, <5>1
        <5>3. QED
          BY <4>1, <5>2 DEF ToSend
      <4>2. CASE d # c
        BY <1>3, <3>1, <4>2 DEF ToSend
      <4>3. QED
        BY <4>1, <4>2
    <3>3. QED
      BY <3>2
  <2>5. CASE k.cmd # Parts[p] /\ EndsWith(p, heard[d])
    <3>1. \A g : EndsWith(p, g) => EndsWith(p, g)'
      BY <1>1, <1>2, <2>1, <2>5, AppendEnds
    <3>2. heard'[d] = heard[d]
      BY <1>1
    <3>3. EndsWith(p, heard[d])'
      BY <2>5, <3>1, <3>2 DEF EndsWith
    <3>4. QED
      BY <3>3
  <2>6. QED
    BY <2>2, <2>3, <2>4, <2>5
<1>6. LastIsHeard'
  BY <1>1, <1>5 DEF QuietInv, LastIsHeard
<1>7. QED
  BY <1>1, <1>4, <1>6 DEF QuietInv, HeardType

LEMMA TakingIsQuiet ==
  ASSUME CWInv, QuietInv, TakeCommand
  PROVE  QuietInv'
<1> DEFINE k == Head(queue)
<1>1. /\ queue \in Seq(Commands) /\ queue # <<>> /\ queue' = Tail(queue) /\ k \in Commands
      /\ UNCHANGED <<worker, writer, client, hvars>>
  BY DEF TakeCommand, CWInv, CWTypeOK
<1>2. \A p \in DOMAIN Parts : applied'[p] = IF Parts[p] = k.cmd THEN k.frame ELSE applied[p]
  <2>1. CASE k.cmd = "get_link_keys"
    BY <2>1, PartsAre DEF TakeCommand
  <2>2. CASE k.cmd # "get_link_keys"
    BY <2>2 DEF TakeCommand
  <2>3. QED
    BY <2>1, <2>2
<1>3. UNCHANGED <<proc, writer, out, heard>>
  BY <1>1 DEF worker, client, hvars
<1>4. ASSUME NEW p \in DOMAIN Parts, NEW d \in Clients
      PROVE  /\ ToSend(d, p) => ToSend(d, p)'
             /\ EndsWith(p, heard[d]) => EndsWith(p, heard[d])'
  <2>1. ToSend(d, p) => ToSend(d, p)'
    BY <1>3 DEF ToSend
  <2>2. \A g : EndsWith(p, g) => EndsWith(p, g)'
    BY <1>1, <1>2, TakingEnds
  <2>3. heard'[d] = heard[d]
    BY <1>3
  <2>4. EndsWith(p, heard[d]) => EndsWith(p, heard[d])'
    BY <2>2, <2>3 DEF EndsWith
  <2>5. QED
    BY <2>1, <2>4
<1>5. HeardType' /\ OutIsHeard'
  BY <1>3 DEF QuietInv, HeardType, OutIsHeard
<1>6. LastIsHeard'
  BY <1>3, <1>4 DEF QuietInv, LastIsHeard
<1>7. QED
  BY <1>5, <1>6 DEF QuietInv

LEMMA QuietInvInit == CWInit => QuietInv
<1> SUFFICES ASSUME CWInit PROVE QuietInv
  OBVIOUS
<1> USE DEF CWInit
<1>1. PICK c : c \in Clients
  BY ClientsAssumption
<1>2. HeardType /\ OutIsHeard
  BY DEF HeardType, OutIsHeard
<1>3. \A p \in DOMAIN Parts : EndsWith(p, heard[c])
  BY <1>1 DEF EndsWith
<1>4. LastIsHeard
  BY <1>1, <1>3 DEF LastIsHeard
<1>5. QED
  BY <1>2, <1>4 DEF QuietInv

LEMMA QuietInvStep == CWInv /\ QuietInv /\ [CWNext]_cwvars => QuietInv'
<1> SUFFICES ASSUME CWInv, QuietInv, [CWNext]_cwvars PROVE QuietInv'
  OBVIOUS
<1> USE DEF worker, input, client, hvars, event
<1>1. ASSUME NEW c \in Clients, Handler(c) PROVE QuietInv'
  <2>1. CASE RecvMessage(c)
    BY <2>1, ReadingIsQuiet
  <2>2. CASE SendCommand(c)
    BY <2>2, SendingIsQuiet
  <2>3. CASE RecvEvent(c) \/ RecvLagged(c) \/ Sent(c) \/ SendFails(c) \/ RecvClose(c)
    <3>1. UNCHANGED <<queue, applied, writer, out, heard, proc>>
      BY <2>3 DEF RecvEvent, RecvLagged, Sent, SendFails, RecvClose, Ends
    <3>2. QED
      BY <3>1, QuietElsewhere
  <2>4. QED
    BY <1>1, <2>1, <2>2, <2>3 DEF Handler
<1>2. ASSUME NEW c \in Clients, Connect(c) \/ BrowserLeaves(c) \/ \E m \in Messages : BrowserSends(c, m)
      PROVE  QuietInv'
  <2>1. UNCHANGED <<queue, applied, writer, out, heard, proc>>
    BY <1>2 DEF Connect, BrowserLeaves, BrowserSends
  <2>2. QED
    BY <2>1, QuietElsewhere
<1>3. CASE StatusTick \/ PairedChanges \/ NewKeys \/ UNCHANGED cwvars
  <2>1. UNCHANGED <<queue, applied, writer, out, heard, proc>>
    BY <1>3 DEF StatusTick, PairedChanges, NewKeys, cwvars
  <2>2. QED
    BY <2>1, QuietElsewhere
<1>4. CASE WorkerExits \/ WatcherRemoves
  <2>1. UNCHANGED <<queue, applied, writer, out, heard>> /\ proc' # "running"
    BY <1>4 DEF WorkerExits, WatcherRemoves
  <2>2. QED
    BY <2>1, QuietElsewhere
<1>5. CASE WriteFails
  <2>1. UNCHANGED <<out, heard, proc>> /\ proc # "running"
    BY <1>5 DEF WriteFails
  <2>2. HeardType' /\ OutIsHeard' /\ LastIsHeard'
    BY <2>1 DEF QuietInv, HeardType, OutIsHeard, LastIsHeard
  <2>3. QED
    BY <2>2 DEF QuietInv
<1>6. QED
  BY <1>1, <1>2, <1>3, <1>4, <1>5, TakingIsQuiet DEF CWNext

\* Frames of the same browser are never applied out of order or in part:
\* once nothing is on its way, each part is what some browser said last,
\* however many browsers play the controller at once (ws_server.rs 99-121).
THEOREM LastWordHolds == CWSpec => []QuietHoldsLast
<1>1. QuietInv => QuietHoldsLast
  <2> SUFFICES ASSUME QuietInv, proc = "running", queue = <<>>,
                      \A c \in Clients : out[c] = <<>>, NEW p \in DOMAIN Parts
               PROVE  \E c \in Clients : applied[p] = heard[c]
    BY DEF QuietHoldsLast
  <2>1. PICK c \in Clients : ToSend(c, p) \/ EndsWith(p, heard[c])
    BY DEF QuietInv, LastIsHeard
  <2>2. ~ToSend(c, p) /\ (EndsWith(p, heard[c]) => applied[p] = heard[c])
    BY DEF ToSend, EndsWith
  <2>3. QED
    BY <2>1, <2>2
<1>2. QED
  BY <1>1, CWInvariance, QuietInvInit, QuietInvStep, PTL DEF CWSpec

-----------------------------------------------------------------------------
(* What a browser will show of the status.                                 *)

Status(v) == [event |-> "status", paired |-> v]

\* The last status among the events is v, or there is none.
LastStatus(s, v) ==
    \E n \in DOMAIN s : s[n] = Status(v) /\ \A m \in DOMAIN s : m > n => s[m].event # "status"
Silent(s) == \A n \in DOMAIN s : s[n].event # "status"

\* What browser c shows when it has taken all that is on its way to it.
EndsUp(c, v) ==
    \/ LastStatus(erx[c], v)
    \/ /\ Silent(erx[c])
       /\ \/ LastStatus(sending[c], v)
          \/ Silent(sending[c]) /\ view[c] = v

\* A connected browser ends up with the latest status of its controller,
\* however far its handler lags: no step loses it, repeats an older one or
\* lets one overtake another, except that a channel which is full of nothing
\* but link keys has pushed it out (ws_server.rs 51-75).  The safety half of
\* StatusRepaired.
KeepsStatus ==
    \A c \in open : \A v \in BOOLEAN :
        EndsUp(c, v) => \/ EndsUp(c, v)'
                        \/ StatusTick /\ EndsUp(c, paired)'
                        \/ Len(erx'[c]) = Capacity /\ Silent(erx'[c])

StatusIsKept == [][KeepsStatus]_cwvars

LEMMA AppendStatus ==
  ASSUME NEW s \in Seq(Events), NEW e \in Events
  PROVE  /\ e.event # "status" => /\ Silent(s) => Silent(Append(s, e))
                                  /\ \A v : LastStatus(s, v) => LastStatus(Append(s, e), v)
         /\ \A v : e = Status(v) => LastStatus(Append(s, e), v)
<1>1. /\ Len(s) \in Nat /\ DOMAIN s = 1..Len(s) /\ DOMAIN Append(s, e) = 1..(Len(s) + 1)
      /\ \A n \in 1..Len(s) : Append(s, e)[n] = s[n]
      /\ Append(s, e)[Len(s) + 1] = e
  OBVIOUS
<1> DEFINE a == Append(s, e)
           l == Len(s) + 1
<1>2. /\ DOMAIN a = 1..l /\ DOMAIN s \subseteq DOMAIN a /\ l \in DOMAIN a /\ a[l] = e
      /\ \A n \in DOMAIN s : a[n] = s[n]
      /\ \A n \in DOMAIN a : n \in DOMAIN s \/ n = l
      /\ \A n \in DOMAIN a : ~(n > l)
  BY <1>1
<1> HIDE DEF a, l
<1>3. ASSUME e.event # "status", Silent(s) PROVE Silent(a)
  BY <1>2, <1>3 DEF Silent
<1>4. ASSUME e.event # "status", NEW v, LastStatus(s, v) PROVE LastStatus(a, v)
  BY <1>2, <1>4 DEF LastStatus
<1>5. ASSUME NEW v, e = Status(v) PROVE LastStatus(a, v)
  BY <1>2, <1>5 DEF LastStatus
<1>6. QED
  BY <1>3, <1>4, <1>5 DEF a

LEMMA TailStatus ==
  ASSUME NEW s \in Seq(Events), s # <<>>
  PROVE  /\ Silent(s) => Silent(Tail(s)) /\ Head(s).event # "status"
         /\ \A v : LastStatus(s, v) =>
                \/ LastStatus(Tail(s), v)
                \/ Silent(Tail(s)) /\ Head(s) = Status(v)
<1>1. /\ Len(s) \in Nat /\ DOMAIN s = 1..Len(s) /\ DOMAIN Tail(s) = 1..(Len(s) - 1)
      /\ Head(s) = s[1] /\ 1 \in DOMAIN s
      /\ \A n \in 1..(Len(s) - 1) : Tail(s)[n] = s[n + 1]
  OBVIOUS
<1> DEFINE r == Tail(s)
<1>2. /\ \A n \in DOMAIN r : n + 1 \in DOMAIN s /\ n + 1 > 1 /\ r[n] = s[n + 1]
      /\ \A n \in DOMAIN s : n = 1 \/ (n - 1 \in DOMAIN r /\ r[n - 1] = s[n])
      /\ \A n \in DOMAIN s : \A m \in DOMAIN r : m > n - 1 => m + 1 > n
  BY <1>1
<1>3. ASSUME Silent(s) PROVE Silent(r) /\ Head(s).event # "status"
  BY <1>1, <1>2, <1>3 DEF Silent
<1>4. ASSUME NEW v, LastStatus(s, v)
      PROVE  LastStatus(r, v) \/ (Silent(r) /\ Head(s) = Status(v))
  <2>1. PICK n \in DOMAIN s : s[n] = Status(v) /\ \A m \in DOMAIN s : m > n => s[m].event # "status"
    BY <1>4 DEF LastStatus
  <2>2. CASE n = 1
    BY <1>1, <1>2, <2>1, <2>2 DEF Silent
  <2>3. CASE n # 1
    <3>1. n - 1 \in DOMAIN r /\ r[n - 1] = Status(v)
      BY <1>2, <2>1, <2>3
    <3>2. \A m \in DOMAIN r : m > n - 1 => r[m].event # "status"
      BY <1>2, <2>1
    <3>3. QED
      BY <3>1, <3>2 DEF LastStatus
  <2>4. QED
    BY <2>2, <2>3
<1>5. QED
  BY <1>3, <1>4 DEF r

LEMMA FewStatus ==
  /\ Silent(<<>>) /\ \A v : ~LastStatus(<<>>, v)
  /\ \A e \in Events : /\ Silent(<<e>>) <=> e.event # "status"
                       /\ \A v : LastStatus(<<e>>, v) <=> e = Status(v)
<1>1. Silent(<<>>) /\ \A v : ~LastStatus(<<>>, v)
  <2>1. DOMAIN <<>> = {}
    OBVIOUS
  <2>2. QED
    BY <2>1 DEF Silent, LastStatus
<1>2. ASSUME NEW e \in Events
      PROVE  /\ Silent(<<e>>) <=> e.event # "status"
             /\ \A v : LastStatus(<<e>>, v) <=> e = Status(v)
  <2>1. DOMAIN <<e>> = {1} /\ <<e>>[1] = e
    OBVIOUS
  <2>2. \A n, m \in {1} : ~(m > n)
    OBVIOUS
  <2> DEFINE s == <<e>>
  <2>3. DOMAIN s = {1} /\ s[1] = e
    BY <2>1
  <2> HIDE DEF s
  <2>4. (Silent(s) <=> e.event # "status") /\ \A v : LastStatus(s, v) <=> e = Status(v)
    BY <2>2, <2>3 DEF Silent, LastStatus
  <2>5. QED
    BY <2>4 DEF s
<1>3. QED
  BY <1>1, <1>2

ViewType == view \in [Clients -> BOOLEAN]

LEMMA ViewTypeStep == CWInv /\ ViewType /\ [CWNext]_cwvars => ViewType'
<1> SUFFICES ASSUME CWInv, ViewType, [CWNext]_cwvars PROVE ViewType'
  OBVIOUS
<1>1. ASSUME NEW c \in Clients, Sent(c) PROVE ViewType'
  <2>1. sending[c] \in Seq(Events) /\ Len(sending[c]) = 1
    BY <1>1 DEF CWInv, Holding, Sent
  <2>2. Head(sending[c]) \in Events
    BY <2>1
  <2>3. \A e \in Events : e.event = "status" => e.paired \in BOOLEAN
    BY DEF Events
  <2>4. QED
    BY <1>1, <2>2, <2>3 DEF Sent, ViewType
<1>2. ASSUME NEW c \in Clients, Connect(c) PROVE ViewType'
  BY <1>2 DEF Connect, ViewType
<1>3. CASE UNCHANGED view
  BY <1>3 DEF ViewType
<1>4. QED
  BY <1>1, <1>2, <1>3 DEF CWNext, BrowserLeaves, BrowserSends, Handler, RecvMessage, SendCommand, RecvEvent,
     RecvLagged, SendFails, RecvClose, Ends, StatusTick, PairedChanges, NewKeys, TakeCommand,
     WorkerExits, WatcherRemoves, WriteFails, cwvars, client

\* What a broadcast does to what a browser ends up with.
LEMMA BroadcastStatus ==
  ASSUME CWInv, NEW e \in Events, Broadcast(e), UNCHANGED <<sending, view>>,
         NEW c \in open, NEW v \in BOOLEAN, EndsUp(c, v)
  PROVE  \/ EndsUp(c, v)' /\ e.event # "status"
         \/ \E w \in BOOLEAN : e = Status(w) /\ EndsUp(c, w)'
         \/ Len(erx'[c]) = Capacity /\ Silent(erx'[c])
<1>1. c \in Clients /\ c \in Alive
  BY DEF CWInv, CWTypeOK, Holding, Alive
<1>2. erx[c] \in Seq(Events) /\ Len(erx[c]) \in Nat
  BY <1>1 DEF CWInv, CWTypeOK
<1> DEFINE kept == IF Len(erx[c]) = Capacity THEN Tail(erx[c]) ELSE erx[c]
<1>3. erx'[c] = Append(kept, e)
  BY <1>1 DEF Broadcast
<1>4. Len(erx[c]) = Capacity => erx[c] # <<>>
  BY CWBoundsAssumption
<1>5. kept \in Seq(Events)
  BY <1>2, <1>4
<1> HIDE DEF kept
<1>6. CASE e.event = "status"
  <2>1. PICK w \in BOOLEAN : e = Status(w)
    BY <1>6 DEF Events, Status
  <2>2. LastStatus(erx'[c], w)
    BY <1>3, <1>5, <2>1, AppendStatus
  <2>3. QED
    BY <2>1, <2>2 DEF EndsUp
<1>7. CASE e.event # "status"
  <2>1. CASE Silent(kept) /\ Len(erx[c]) = Capacity
    <3>1. Silent(erx'[c])
      BY <1>3, <1>5, <1>7, <2>1, AppendStatus
    <3>2. Len(kept) = Capacity - 1 /\ Len(erx'[c]) = Len(kept) + 1
      BY <1>2, <1>3, <1>4, <1>5, <2>1, CWBoundsAssumption DEF kept
    <3>3. Len(erx'[c]) = Capacity
      BY <3>2, CWBoundsAssumption
    <3>4. QED
      BY <3>1, <3>3
  <2>2. CASE Len(erx[c]) # Capacity
    <3>1. kept = erx[c]
      BY <2>2 DEF kept
    <3>2. EndsUp(c, v)'
      BY <1>3, <1>5, <1>7, <3>1, AppendStatus DEF EndsUp
    <3>3. QED
      BY <1>7, <3>2
  <2>3. CASE Len(erx[c]) = Capacity /\ ~Silent(kept)
    <3>1. kept = Tail(erx[c])
      BY <2>3 DEF kept
    <3>2. LastStatus(kept, v)
      BY <1>2, <1>4, <2>3, <3>1, TailStatus DEF EndsUp
    <3>3. LastStatus(erx'[c], v)
      BY <1>3, <1>5, <1>7, <3>2, AppendStatus
    <3>4. QED
      BY <1>7, <3>3 DEF EndsUp
  <2>4. QED
    BY <2>1, <2>2, <2>3
<1>8. QED
  BY <1>6, <1>7

\* Taking an event out of the channel, and out of the handler's hands.
LEMMA ForwardingStatus ==
  ASSUME CWInv, ViewType, NEW c \in open, RecvEvent(c) \/ Sent(c), NEW v \in BOOLEAN, EndsUp(c, v)
  PROVE  EndsUp(c, v)'
<1>1. c \in Clients
  BY DEF CWInv, CWTypeOK
<1>2. erx \in [Clients -> Seq(Events)] /\ sending \in [Clients -> Seq(Events)]
  BY DEF CWInv, CWTypeOK, SendingType
<1>3. CASE RecvEvent(c)
  <2> DEFINE e == Head(erx[c])
  <2>1. e \in Events /\ erx[c] # <<>> /\ erx[c] \in Seq(Events)
    BY <1>1, <1>2, <1>3 DEF RecvEvent
  <2>2. e.event \in Forwarded
    BY <2>1 DEF Events, Forwarded
  <2>3. sending[c] = <<>>
    BY <1>1, <1>3 DEF RecvEvent, CWInv, Holding
  <2>4. sending'[c] = <<e>> /\ erx'[c] = Tail(erx[c]) /\ view'[c] = view[c]
    BY <1>1, <1>2, <1>3, <2>2 DEF RecvEvent, client
  <2> HIDE DEF e
  <2>5. (Silent(<<e>>) <=> e.event # "status") /\ (LastStatus(<<e>>, v) <=> e = Status(v))
    BY <2>1, FewStatus
  <2>6. Silent(sending[c]) /\ ~LastStatus(sending[c], v)
    BY <2>3, FewStatus
  <2>7. CASE LastStatus(erx[c], v)
    <3>1. LastStatus(erx'[c], v) \/ (Silent(erx'[c]) /\ e = Status(v))
      BY <2>1, <2>4, <2>7, TailStatus DEF e
    <3>2. QED
      BY <2>4, <2>5, <3>1 DEF EndsUp
  <2>8. CASE Silent(erx[c]) /\ view[c] = v
    <3>1. Silent(erx'[c]) /\ e.event # "status"
      BY <2>1, <2>4, <2>8, TailStatus DEF e
    <3>2. QED
      BY <2>4, <2>5, <2>8, <3>1 DEF EndsUp
  <2>9. QED
    BY <2>6, <2>7, <2>8 DEF EndsUp
<1>4. CASE Sent(c)
  <2>1. sending[c] \in Seq(Events) /\ Len(sending[c]) = 1
    BY <1>1, <1>4 DEF Sent, CWInv, Holding
  <2>2. PICK e \in Events : sending[c] = <<e>> /\ Head(sending[c]) = e
    BY <2>1
  <2>3. sending'[c] = <<>> /\ erx' = erx
    BY <1>1, <1>2, <1>4 DEF Sent
  <2>4. view'[c] = IF e.event = "status" THEN e.paired ELSE view[c]
    BY <1>1, <1>4, <2>2 DEF Sent, ViewType
  <2>5. /\ Silent(<<e>>) <=> e.event # "status"
        /\ LastStatus(<<e>>, v) <=> e = Status(v)
    BY FewStatus
  <2>6. Silent(sending'[c])
    BY <2>3, FewStatus
  <2>7. CASE LastStatus(erx[c], v)
    BY <2>3, <2>7 DEF EndsUp
  <2>8. CASE Silent(erx[c]) /\ e = Status(v)
    <3>1. view'[c] = v
      BY <2>4, <2>8 DEF Status
    <3>2. QED
      BY <2>3, <2>6, <2>8, <3>1 DEF EndsUp
  <2>9. CASE Silent(erx[c]) /\ e.event # "status" /\ view[c] = v
    BY <2>3, <2>4, <2>6, <2>9 DEF EndsUp
  <2>10. QED
    BY <2>2, <2>5, <2>7, <2>8, <2>9 DEF EndsUp
<1>5. QED
  BY <1>3, <1>4

\* The handler of a connected browser ends up with the latest status, for
\* any number of browsers and any capacity, unless its channel is full of
\* nothing but link keys, which have pushed it out.
THEOREM LatestStatusWins == CWSpec => StatusIsKept
<1>1. ASSUME CWInv, ViewType, CWNext PROVE KeepsStatus
  <2> SUFFICES ASSUME NEW c \in open, NEW v \in BOOLEAN, EndsUp(c, v)
               PROVE  \/ EndsUp(c, v)'
                      \/ StatusTick /\ EndsUp(c, paired)'
                      \/ Len(erx'[c]) = Capacity /\ Silent(erx'[c])
    BY DEF KeepsStatus
  <2> USE DEF worker, input, client, hvars, event
  <2>0. c \in Clients
    BY <1>1 DEF CWInv, CWTypeOK
  <2>1. ASSUME erx'[c] = erx[c], sending'[c] = sending[c], view'[c] = view[c] PROVE EndsUp(c, v)'
    BY <2>1 DEF EndsUp
  <2>2. /\ erx \in [Clients -> Seq(Events)] /\ sending \in [Clients -> Seq(Events)]
        /\ view \in [Clients -> BOOLEAN]
    BY <1>1 DEF CWInv, CWTypeOK, SendingType, ViewType
  <2>3. ASSUME NEW d \in Clients,
               Connect(d) \/ BrowserLeaves(d) \/ \E m \in Messages : BrowserSends(d, m)
        PROVE  EndsUp(c, v)'
    <3>1. CASE Connect(d)
      <4>1. d # c
        BY <3>1 DEF Connect
      <4>2. QED
        BY <2>0, <2>1, <2>2, <3>1, <4>1 DEF Connect
    <3>2. CASE BrowserLeaves(d) \/ \E m \in Messages : BrowserSends(d, m)
      BY <2>1, <3>2 DEF BrowserLeaves, BrowserSends
    <3>3. QED
      BY <2>3, <3>1, <3>2
  <2>4. ASSUME NEW d \in Clients, Handler(d), d # c PROVE EndsUp(c, v)'
    <3>1. erx'[c] = erx[c] /\ sending'[c] = sending[c] /\ view'[c] = view[c]
      BY <2>0, <2>2, <2>4 DEF Handler, RecvMessage, SendCommand, RecvEvent, RecvLagged, Sent, SendFails,
         RecvClose, Ends
    <3>2. QED
      BY <2>1, <3>1
  <2>5. ASSUME Handler(c) PROVE EndsUp(c, v)'
    <3>1. CASE RecvMessage(c)
      <4>1. sending[c] = <<>>
        BY <1>1, <2>0, <3>1 DEF RecvMessage, CWInv, Holding
      <4>2. /\ erx' = erx /\ view' = view
            /\ sending'[c] = sending[c] \/ sending'[c] = <<[event |-> "error"]>>
        BY <2>0, <2>2, <3>1 DEF RecvMessage
      <4>3. Silent(<<[event |-> "error"]>>)
        BY EventTypes, FewStatus
      <4>4. QED
        BY <4>1, <4>2, <4>3, FewStatus DEF EndsUp
    <3>2. CASE RecvEvent(c) \/ Sent(c)
      BY <1>1, <3>2, ForwardingStatus
    <3>3. CASE SendCommand(c) \/ RecvLagged(c)
      BY <2>1, <3>3 DEF SendCommand, RecvLagged
    <3>4. QED
      BY <2>5, <3>1, <3>2, <3>3 DEF Handler, SendFails, RecvClose
  <2>6. CASE StatusTick
    <3>1. [event |-> "status", paired |-> paired] \in Events
      BY <1>1, EventTypes DEF CWInv, CWTypeOK
    <3>2. Broadcast(Status(paired)) /\ UNCHANGED <<sending, view, paired>> /\ Status(paired) \in Events
      BY <2>6, <3>1 DEF StatusTick, Status
    <3>3. Status(paired).event = "status" /\ \A w : Status(paired) = Status(w) => w = paired
      BY DEF Status
    <3>4. \/ EndsUp(c, paired)'
          \/ Len(erx'[c]) = Capacity /\ Silent(erx'[c])
      BY <1>1, <3>2, <3>3, BroadcastStatus
    <3>5. QED
      BY <2>6, <3>4
  <2>7. CASE NewKeys \/ TakeCommand
    <3>1. CASE Broadcast([event |-> "link_keys"])
      <4>1. [event |-> "link_keys"] \in Events /\ \A w : [event |-> "link_keys"] # Status(w)
        BY EventTypes DEF Status
      <4>2. UNCHANGED <<sending, view>>
        BY <2>7 DEF NewKeys, TakeCommand
      <4>3. QED
        BY <1>1, <3>1, <4>1, <4>2, BroadcastStatus
    <3>2. CASE UNCHANGED event
      BY <2>1, <2>7, <3>2 DEF NewKeys, TakeCommand
    <3>3. QED
      BY <2>7, <3>1, <3>2 DEF NewKeys, TakeCommand
  <2>8. CASE PairedChanges \/ WorkerExits \/ WatcherRemoves \/ WriteFails
    BY <2>1, <2>8 DEF PairedChanges, WorkerExits, WatcherRemoves, WriteFails
  <2>9. QED
    BY <1>1, <2>3, <2>4, <2>5, <2>6, <2>7, <2>8 DEF CWNext
<1>2. CWInv /\ ViewType /\ [CWNext]_cwvars => [KeepsStatus]_cwvars
  BY <1>1
<1>3. CWInit => ViewType
  BY DEF CWInit, ViewType
<1>4. QED
  BY <1>2, <1>3, CWInvariance, ViewTypeStep, PTL DEF CWSpec, StatusIsKept
=============================================================================

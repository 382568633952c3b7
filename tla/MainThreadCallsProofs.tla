----------------------- MODULE MainThreadCallsProofs -----------------------
(***************************************************************************)
(* A kind of request that one thread issues goes through the lock-free     *)
(* registration protocol correctly, for any number of threads and kinds,   *)
(* and whatever happens to the other kinds.  If that is so of every kind,  *)
(* the protocol is correct.                                                *)
(*                                                                         *)
(* The invariant KindInv says where a registration can be: nowhere, with   *)
(* its caller, once in the list, or running, never in two of these places; *)
(* and the callback field is non-NULL exactly when it is somewhere.        *)
(***************************************************************************)
EXTENDS MainThreadCalls, TLAPS

\* A caller past the check found the field NULL, and one past the
\* assignment holds a registration that is neither listed nor running.
CallerInv(k) ==
    \A t \in Callers : kindOf[t] = k =>
        /\ pc[t] = "checked" => ~callback[k]
        /\ pc[t] = "registered" => callback[k] /\ ~Queued(k) /\ running # k

\* The list holds the registration once at most, not while it is running,
\* and only with a field that is non-NULL.
Once(k) == \A i, j \in 1..Len(runQueue) : (runQueue[i] = k /\ runQueue[j] = k) => i = j
QueueInv(k) == Once(k) /\ (Queued(k) => running # k /\ callback[k])

\* The handler that is running still owns its registration.
RunningInv(k) == running = k => callback[k]

KindInv(k) == CallerInv(k) /\ QueueInv(k) /\ RunningInv(k) /\ FieldExact(k)

\* Between Work and Clear a handler runs.
SampledRuns == sampled => running # NoKind

SlotInv ==
    /\ TypeOK
    /\ SampledRuns
    /\ \A k \in Kinds : OneCaller(k) => KindInv(k)

-----------------------------------------------------------------------------
(* Facts about the run loop's list.                                        *)

\* What the list holds after an insertion at its end.
LEMMA AppendFacts ==
    ASSUME NEW q \in Seq(Kinds), NEW k \in Kinds
    PROVE  /\ Append(q, k) \in Seq(Kinds)
           /\ Len(Append(q, k)) = Len(q) + 1
           /\ Len(q) \in Nat
           /\ Append(q, k)[Len(q) + 1] = k
           /\ \A i \in 1..Len(q) : Append(q, k)[i] = q[i]
OBVIOUS

\* What the list holds after its first element is popped.
LEMMA TailFacts ==
    ASSUME NEW q \in Seq(Kinds), q # <<>>
    PROVE  /\ Tail(q) \in Seq(Kinds)
           /\ Len(q) \in Nat \ {0}
           /\ Len(Tail(q)) = Len(q) - 1
           /\ Head(q) = q[1]
           /\ Head(q) \in Kinds
           /\ \A i \in 1..Len(Tail(q)) : Tail(q)[i] = q[i + 1]
OBVIOUS
-----------------------------------------------------------------------------
(* Type correctness, for any assignment of requests to threads.            *)

\* Every step of the protocol keeps every variable in its type.
LEMMA TypeInductive == TypeOK /\ [Next]_vars => TypeOK'
<1> SUFFICES ASSUME TypeOK, [Next]_vars PROVE TypeOK'
  OBVIOUS
<1> USE MayCallAssumption, NoKindAssumption
<1>1. ASSUME NEW t \in Callers, NEW k \in Kinds, Post(t, k) PROVE TypeOK'
  BY <1>1 DEF TypeOK, Post
<1>2. ASSUME NEW t \in Callers, Check(t) PROVE TypeOK'
  BY <1>2 DEF TypeOK, Check
<1>3. ASSUME NEW t \in Callers, Register(t) PROVE TypeOK'
  BY <1>3 DEF TypeOK, Register
<1>4. ASSUME NEW t \in Callers, Enqueue(t) PROVE TypeOK'
  <2>1. kindOf[t] \in Kinds
    BY <1>4 DEF TypeOK, Enqueue
  <2>2. runQueue' \in Seq(Kinds)
    BY <1>4, <2>1, AppendFacts DEF TypeOK, Enqueue
  <2>3. QED
    BY <1>4, <2>2 DEF TypeOK, Enqueue
<1>5. CASE Pop
  <2>1. runQueue' \in Seq(Kinds) /\ Head(runQueue) \in Kinds
    BY <1>5, TailFacts DEF TypeOK, Pop
  <2>2. QED
    BY <1>5, <2>1 DEF TypeOK, Pop
<1>6. CASE Work
  BY <1>6 DEF TypeOK, Work
<1>7. CASE Clear
  BY <1>7 DEF TypeOK, Clear
<1>8. CASE UNCHANGED vars
  BY <1>8 DEF TypeOK, vars
<1>9. QED
  BY <1>1, <1>2, <1>3, <1>4, <1>5, <1>6, <1>7, <1>8 DEF Next, CallerStep, MainStep

\* The initial state has the types.
LEMMA TypeInit == Init => TypeOK
<1> SUFFICES ASSUME Init PROVE TypeOK
  OBVIOUS
<1>1. runQueue \in Seq(Kinds)
  BY DEF Init
<1>2. callback \in [Kinds -> BOOLEAN] /\ unread \in [Kinds -> BOOLEAN]
  BY DEF Init
<1>3. QED
  BY <1>1, <1>2, NoKindAssumption DEF Init, TypeOK

\* Type correctness holds whoever issues which request.
THEOREM TypeCorrect == Spec => []TypeOK
<1>1. Init => TypeOK
  BY TypeInit
<1>2. QED
  BY <1>1, TypeInductive, PTL DEF Spec

-----------------------------------------------------------------------------
(* The list seen from one kind.                                            *)

\* An insertion adds its kind and no other.
LEMMA QueuedAfterAppend ==
    ASSUME TypeOK, NEW m \in Kinds, NEW k \in Kinds, runQueue' = Append(runQueue, m)
    PROVE  /\ Queued(k)' <=> Queued(k) \/ k = m
           /\ Once(k) /\ (k = m => ~Queued(k)) => Once(k)'
<1>1. runQueue \in Seq(Kinds)
  BY DEF TypeOK
<1>2. /\ Len(runQueue') = Len(runQueue) + 1
      /\ Len(runQueue) \in Nat
      /\ runQueue'[Len(runQueue) + 1] = m
      /\ \A i \in 1..Len(runQueue) : runQueue'[i] = runQueue[i]
  BY <1>1, AppendFacts
<1>3. Queued(k)' <=> Queued(k) \/ k = m
  BY <1>2 DEF Queued
<1>4. ASSUME Once(k), k = m => ~Queued(k) PROVE Once(k)'
  BY <1>2, <1>4 DEF Once, Queued
<1>5. QED
  BY <1>3, <1>4

\* A pop takes its kind out, if that was in the list once, and no other.
LEMMA QueuedAfterTail ==
    ASSUME TypeOK, runQueue # <<>>, NEW k \in Kinds, Once(k), runQueue' = Tail(runQueue)
    PROVE  /\ Queued(k)' <=> Queued(k) /\ k # Head(runQueue)
           /\ k = Head(runQueue) => Queued(k)
           /\ Once(k)'
<1>0. PICK h : h = Head(runQueue)
  OBVIOUS
<1>1. /\ Len(runQueue) \in Nat \ {0}
      /\ Len(runQueue') = Len(runQueue) - 1
      /\ h = runQueue[1]
      /\ \A i \in 1..Len(runQueue') : runQueue'[i] = runQueue[i + 1]
  BY <1>0, TailFacts DEF TypeOK
<1>2. \A i \in 1..Len(runQueue') : i + 1 \in 1..Len(runQueue) /\ i + 1 # 1 /\ runQueue'[i] = runQueue[i + 1]
  BY <1>1
<1>3. 1 \in 1..Len(runQueue)
  BY <1>1
<1>4. Queued(k)' => Queued(k) /\ k # h
  <2> SUFFICES ASSUME NEW i \in 1..Len(runQueue'), runQueue'[i] = k PROVE Queued(k) /\ k # h
    BY DEF Queued
  <2>1. i + 1 \in 1..Len(runQueue) /\ runQueue[i + 1] = k /\ i + 1 # 1
    BY <1>2
  <2>2. QED
    BY <1>1, <1>3, <2>1 DEF Queued, Once
<1>5. Queued(k) /\ k # h => Queued(k)'
  <2> SUFFICES ASSUME k # h, NEW i \in 1..Len(runQueue), runQueue[i] = k PROVE Queued(k)'
    BY DEF Queued
  <2>1. i - 1 \in 1..Len(runQueue') /\ (i - 1) + 1 = i
    BY <1>1
  <2>2. QED
    BY <1>1, <2>1 DEF Queued
<1>6. Once(k)'
  <2> SUFFICES ASSUME NEW i \in 1..Len(runQueue'), NEW j \in 1..Len(runQueue'),
                      runQueue'[i] = k, runQueue'[j] = k
               PROVE  i = j
    BY DEF Once
  <2>1. i + 1 = j + 1
    BY <1>2 DEF Once
  <2>2. QED
    BY <1>1, <2>1
<1>7. k = h => Queued(k)
  BY <1>1, <1>3 DEF Queued
<1>8. QED
  BY <1>0, <1>4, <1>5, <1>6, <1>7

-----------------------------------------------------------------------------
(* The invariant of a kind that one thread issues.                         *)

\* Two threads never work on such a registration.
LEMMA OwnKind ==
    ASSUME TypeOK, NEW k \in Kinds, OneCaller(k), NEW t \in Callers, NEW u \in Callers,
           pc[t] # "idle", pc[u] # "idle", kindOf[t] = k, kindOf[u] = k
    PROVE  t = u
BY DEF OneCaller, TypeOK

LEMMA SampledStep == TypeOK /\ SampledRuns /\ [Next]_vars => SampledRuns'
<1> SUFFICES ASSUME TypeOK, SampledRuns, [Next]_vars PROVE SampledRuns'
  OBVIOUS
<1>1. \/ UNCHANGED <<running, sampled>>
      \/ Pop /\ ~sampled /\ ~sampled'
      \/ Pop /\ sampled
      \/ Work
      \/ Clear
  BY DEF Next, Post, CallerStep, Check, Register, Enqueue, MainStep, Pop, TypeOK, vars
<1>2. QED
  BY <1>1 DEF SampledRuns, Pop, Work, Clear

\* A step on another kind, or on none, leaves what KindInv speaks of alone.
LEMMA OtherKinds ==
    ASSUME NEW k \in Kinds, KindInv(k),
           callback'[k] = callback[k],
           (running' = k) <=> (running = k),
           Queued(k)' <=> Queued(k), Once(k)',
           \A t \in Callers : \/ pc'[t] = pc[t] /\ kindOf'[t] = kindOf[t]
                              \/ pc'[t] \in {"idle", "posted"} /\ (kindOf[t] = k => pc[t] # "registered")
                              \/ kindOf'[t] # k /\ (kindOf[t] = k => pc[t] # "registered")
    PROVE  KindInv(k)'
<1>1. CallerInv(k)'
  <2> SUFFICES ASSUME NEW t \in Callers, kindOf'[t] = k
               PROVE  /\ pc'[t] = "checked" => ~callback'[k]
                      /\ pc'[t] = "registered" => callback'[k] /\ ~Queued(k)' /\ running' # k
    BY DEF CallerInv
  <2>1. QED
    BY DEF KindInv, CallerInv
<1>2. QueueInv(k)' /\ RunningInv(k)'
  BY DEF KindInv, QueueInv, RunningInv
<1>3. (\E t \in Callers : pc'[t] = "registered" /\ kindOf'[t] = k)
        <=> (\E t \in Callers : pc[t] = "registered" /\ kindOf[t] = k)
  OBVIOUS
<1>4. FieldExact(k)'
  BY <1>3 DEF KindInv, FieldExact
<1>5. QED
  BY <1>1, <1>2, <1>4 DEF KindInv

LEMMA KindInvStep ==
    ASSUME TypeOK, SampledRuns, [Next]_vars, NEW k \in Kinds, OneCaller(k), KindInv(k)
    PROVE  KindInv(k)'
<1> USE MayCallAssumption, NoKindAssumption
<1>0. ASSUME UNCHANGED runQueue PROVE (Queued(k)' <=> Queued(k)) /\ Once(k)'
  BY <1>0 DEF Queued, Once, KindInv, QueueInv
<1>1. ASSUME NEW t \in Callers, NEW m \in Kinds, Post(t, m) PROVE KindInv(k)'
  <2>1. pc[t] = "idle" /\ pc'[t] = "posted" /\ UNCHANGED <<callback, running, runQueue>>
    BY <1>1 DEF Post, TypeOK
  <2>2. \A u \in Callers : u # t => pc'[u] = pc[u] /\ kindOf'[u] = kindOf[u]
    BY <1>1 DEF Post, TypeOK
  <2>3. QED
    BY <1>0, <2>1, <2>2, OtherKinds
<1>2. ASSUME NEW t \in Callers, Check(t) PROVE KindInv(k)'
  <2>1. pc[t] = "posted" /\ UNCHANGED <<callback, running, runQueue, kindOf, unread>>
    BY <1>2 DEF Check
  <2>2. \A u \in Callers : u # t => pc'[u] = pc[u]
    BY <1>2 DEF Check, TypeOK
  <2>3. pc'[t] = IF callback[kindOf[t]] THEN "idle" ELSE "checked"
    BY <1>2 DEF Check, AlreadyQueued, TypeOK
  <2>4. CASE kindOf[t] # k \/ callback[k]
    BY <1>0, <2>1, <2>2, <2>3, <2>4, OtherKinds
  <2>5. CASE kindOf[t] = k /\ ~callback[k]
    <3>1. CallerInv(k)'
      BY <1>0, <2>1, <2>2, <2>3, <2>5 DEF KindInv, CallerInv
    <3>2. QueueInv(k)' /\ RunningInv(k)'
      BY <1>0, <2>1 DEF KindInv, QueueInv, RunningInv
    <3>3. FieldExact(k)'
      BY <1>0, <2>1, <2>2, <2>3, <2>5 DEF KindInv, FieldExact
    <3>4. QED
      BY <3>1, <3>2, <3>3 DEF KindInv
  <2>6. QED
    BY <2>4, <2>5
<1>3. ASSUME NEW t \in Callers, Register(t) PROVE KindInv(k)'
  <2>1. /\ pc[t] = "checked" /\ pc' = [pc EXCEPT ![t] = "registered"] /\ kindOf[t] \in Kinds
        /\ callback' = [callback EXCEPT ![kindOf[t]] = TRUE] /\ UNCHANGED <<running, runQueue, kindOf>>
    BY <1>3 DEF Register, TypeOK
  <2>2. \A u \in Callers : pc'[u] = IF u = t THEN "registered" ELSE pc[u]
    BY <2>1 DEF TypeOK
  <2>3. CASE kindOf[t] # k
    <3>1. callback'[k] = callback[k]
      BY <2>1, <2>3 DEF TypeOK
    <3>2. QED
      BY <1>0, <2>1, <2>2, <2>3, <3>1, OtherKinds
  <2>4. CASE kindOf[t] = k
    <3>1. ~callback[k] /\ ~Queued(k) /\ running # k /\ callback'[k]
      BY <2>1, <2>4 DEF TypeOK, KindInv, CallerInv, FieldExact
    <3>2. \A u \in Callers : (u # t /\ kindOf[u] = k) => pc[u] = "idle"
      BY <2>1, <2>4, OwnKind
    <3>3. CallerInv(k)'
      BY <1>0, <2>1, <2>2, <3>1, <3>2 DEF CallerInv
    <3>4. QueueInv(k)' /\ RunningInv(k)'
      BY <1>0, <2>1, <3>1 DEF QueueInv, RunningInv
    <3>5. FieldExact(k)'
      BY <2>1, <2>2, <2>4, <3>1 DEF FieldExact
    <3>6. QED
      BY <3>3, <3>4, <3>5 DEF KindInv
  <2>5. QED
    BY <2>3, <2>4
<1>4. ASSUME NEW t \in Callers, Enqueue(t) PROVE KindInv(k)'
  <2>1. /\ pc[t] = "registered" /\ pc' = [pc EXCEPT ![t] = "idle"] /\ kindOf[t] \in Kinds
        /\ UNCHANGED <<callback, running, kindOf>>
    BY <1>4 DEF Enqueue, TypeOK
  <2>2. \A u \in Callers : pc'[u] = IF u = t THEN "idle" ELSE pc[u]
    BY <2>1 DEF TypeOK
  <2>3. CASE kindOf[t] # k
    <3>1. (Queued(k)' <=> Queued(k)) /\ Once(k)'
      <4>1. CASE Queued(kindOf[t])
        BY <1>0, <1>4, <4>1 DEF Enqueue
      <4>2. CASE ~Queued(kindOf[t])
        <5>1. PICK m \in Kinds : m = kindOf[t]
          BY <2>1
        <5>2. runQueue' = Append(runQueue, m)
          BY <1>4, <4>2, <5>1 DEF Enqueue
        <5>3. QED
          BY <2>3, <5>1, <5>2, QueuedAfterAppend DEF KindInv, QueueInv
      <4>3. QED
        BY <4>1, <4>2
    <3>2. QED
      BY <2>1, <2>2, <2>3, <3>1, OtherKinds
  <2>4. CASE kindOf[t] = k
    <3>1. callback[k] /\ ~Queued(k) /\ running # k /\ Once(k)
      BY <2>1, <2>4 DEF KindInv, CallerInv, QueueInv
    <3>2. runQueue' = Append(runQueue, k)
      BY <1>4, <2>4, <3>1 DEF Enqueue
    <3>3. Queued(k)' /\ Once(k)'
      BY <3>1, <3>2, QueuedAfterAppend
    <3>4. \A u \in Callers : (u # t /\ kindOf[u] = k) => pc[u] = "idle"
      BY <2>1, <2>4, OwnKind
    <3>5. CallerInv(k)'
      BY <2>1, <2>2, <3>4 DEF CallerInv
    <3>6. QueueInv(k)' /\ RunningInv(k)' /\ FieldExact(k)'
      BY <2>1, <3>1, <3>3 DEF QueueInv, RunningInv, FieldExact
    <3>7. QED
      BY <3>5, <3>6 DEF KindInv
  <2>5. QED
    BY <2>3, <2>4
<1>5. CASE Pop
  <2>0. PICK h : h = Head(runQueue)
    OBVIOUS
  <2>1. /\ runQueue # <<>> /\ runQueue' = Tail(runQueue) /\ running = NoKind /\ h \in Kinds
        /\ running' = IF callback[h] THEN h ELSE running
        /\ UNCHANGED <<callback, pc, kindOf>>
    BY <1>5, <2>0, TailFacts DEF Pop, TypeOK
  <2>2. /\ Queued(k)' <=> Queued(k) /\ k # h
        /\ k = h => Queued(k)
        /\ Once(k)'
    BY <2>0, <2>1, QueuedAfterTail DEF KindInv, QueueInv
  <2>3. CASE h # k
    BY <2>1, <2>2, <2>3, OtherKinds
  <2>4. CASE h = k
    <3>1. callback[k] /\ ~Queued(k)' /\ running' = k
      BY <2>1, <2>2, <2>4 DEF KindInv, QueueInv
    <3>2. CallerInv(k)'
      BY <2>1, <2>2, <2>4, <3>1 DEF KindInv, CallerInv
    <3>3. QueueInv(k)' /\ RunningInv(k)' /\ FieldExact(k)'
      BY <2>1, <2>2, <3>1 DEF QueueInv, RunningInv, FieldExact
    <3>4. QED
      BY <3>2, <3>3 DEF KindInv
  <2>5. QED
    BY <2>3, <2>4
<1>6. CASE Work
  BY <1>0, <1>6, OtherKinds DEF Work
<1>7. CASE Clear
  <2>1. /\ running \in Kinds /\ callback' = [callback EXCEPT ![running] = FALSE] /\ running' = NoKind
        /\ UNCHANGED <<pc, kindOf, runQueue>>
    BY <1>7 DEF Clear, SampledRuns, TypeOK
  <2>2. CASE running # k
    <3>1. callback'[k] = callback[k] /\ running' # k
      BY <2>1, <2>2 DEF TypeOK
    <3>2. QED
      BY <1>0, <2>1, <2>2, <3>1, OtherKinds
  <2>3. CASE running = k
    <3>1. ~callback'[k] /\ ~Queued(k) /\ running' # k
      BY <2>1, <2>3 DEF TypeOK, KindInv, QueueInv
    <3>2. \A t \in Callers : kindOf[t] = k => pc[t] # "registered"
      BY <2>3 DEF KindInv, CallerInv
    <3>3. CallerInv(k)'
      BY <2>1, <3>1, <3>2 DEF CallerInv
    <3>4. QueueInv(k)' /\ RunningInv(k)' /\ FieldExact(k)'
      BY <1>0, <2>1, <3>1, <3>2 DEF QueueInv, RunningInv, FieldExact
    <3>5. QED
      BY <3>3, <3>4 DEF KindInv
  <2>4. QED
    BY <2>2, <2>3
<1>8. CASE UNCHANGED vars
  BY <1>0, <1>8, OtherKinds DEF vars
<1>9. QED
  BY <1>1, <1>2, <1>3, <1>4, <1>5, <1>6, <1>7, <1>8 DEF Next, CallerStep, MainStep

LEMMA SlotInvInit == Init => SlotInv
<1> SUFFICES ASSUME Init PROVE SlotInv
  OBVIOUS
<1>1. 1..Len(runQueue) = {} /\ \A k : ~Queued(k)
  BY DEF Init, Queued
<1>2. \A k \in Kinds : KindInv(k)
  BY <1>1, NoKindAssumption DEF Init, KindInv, CallerInv, QueueInv, Once, RunningInv, FieldExact
<1>3. QED
  BY <1>2, TypeInit DEF Init, SlotInv, SampledRuns

LEMMA SlotInvStep == SlotInv /\ [Next]_vars => SlotInv'
<1> SUFFICES ASSUME SlotInv, [Next]_vars PROVE SlotInv'
  OBVIOUS
<1>1. TypeOK' /\ SampledRuns'
  BY TypeInductive, SampledStep DEF SlotInv
<1>2. \A k \in Kinds : OneCaller(k) => KindInv(k)'
  BY KindInvStep DEF SlotInv
<1>3. QED
  BY <1>1, <1>2 DEF SlotInv, OneCaller

LEMMA SlotInvAlways == Spec => []SlotInv
BY SlotInvInit, SlotInvStep, PTL DEF Spec

\* The head of the list, if one thread issues it, has its field set.
LEMMA HeadIsSet ==
    ASSUME SlotInv, runQueue # <<>>, OneCaller(Head(runQueue))
    PROVE  Head(runQueue) \in Kinds /\ callback[Head(runQueue)]
<1>0. PICK h : h = Head(runQueue)
  OBVIOUS
<1>1. Len(runQueue) \in Nat \ {0} /\ h = runQueue[1] /\ h \in Kinds
  BY <1>0, TailFacts DEF SlotInv, TypeOK
<1>2. Queued(h)
  BY <1>1 DEF Queued
<1>3. QED
  BY <1>0, <1>1, <1>2 DEF SlotInv, KindInv, QueueInv

-----------------------------------------------------------------------------
(* What it implies for a kind, and for all of them.                        *)

\* The run loop never pops a NULL callback of a kind that one thread issues,
\* even if others are issued by several: a reconnect or a disconnect
\* (worker.rs 177, 240) never is what ends the process.
OwnKindsNeverNull ==
    [][(Pop /\ OneCaller(Head(runQueue))) => callback[Head(runQueue)] /\ ~crashed']_vars

\* What one thread alone requests is never popped with a NULL callback.
THEOREM OwnKindsAreNeverNull == Spec => OwnKindsNeverNull
<1>1. SlotInv => ((Pop /\ OneCaller(Head(runQueue))) => callback[Head(runQueue)] /\ ~crashed')
  BY HeadIsSet DEF Pop
<1>2. QED
  BY <1>1, SlotInvAlways, PTL DEF OwnKindsNeverNull

\* The field of such a kind is exact, whatever happens to the others.
THEOREM OwnFieldsAreExact == Spec => [](\A k \in Kinds : OneCaller(k) => FieldExact(k))
<1>1. SlotInv => \A k \in Kinds : OneCaller(k) => FieldExact(k)
  BY DEF SlotInv, KindInv
<1>2. QED
  BY <1>1, SlotInvAlways, PTL

\* With one caller per kind the run loop never calls a NULL callback.
THEOREM NullCallFree ==
    ASSUME OneCallerPerKind PROVE Spec => []NoNullCall
<1>1. Init => NoNullCall
  BY DEF Init, NoNullCall
<1>2. SlotInv /\ NoNullCall /\ [Next]_vars => NoNullCall'
  <2> SUFFICES ASSUME SlotInv, NoNullCall, [Next]_vars PROVE NoNullCall'
    OBVIOUS
  <2>1. CASE Pop
    <3>1. Head(runQueue) \in Kinds
      BY <2>1, TailFacts DEF Pop, SlotInv, TypeOK
    <3>2. callback[Head(runQueue)]
      BY <2>1, <3>1, HeadIsSet DEF Pop, OneCallerPerKind
    <3>3. QED
      BY <2>1, <3>2 DEF Pop, NoNullCall
  <2>2. CASE ~Pop
    BY <2>2 DEF NoNullCall, Next, Post, CallerStep, Check, Register, Enqueue, MainStep, Work, Clear, vars
  <2>3. QED
    BY <2>1, <2>2
<1>3. QED
  BY <1>1, <1>2, SlotInvAlways, PTL DEF Spec

\* With one caller per kind the field is non-NULL exactly while the
\* registration is in flight.
THEOREM FieldIsExact ==
    ASSUME OneCallerPerKind PROVE Spec => []FieldMeansInFlight
<1>1. SlotInv => FieldMeansInFlight
  BY DEF SlotInv, KindInv, OneCallerPerKind, FieldMeansInFlight
<1>2. QED
  BY <1>1, SlotInvAlways, PTL

-----------------------------------------------------------------------------
(* The safety half of CoalescedIsServed: input that the handler will look  *)
(* at stays so until it has.                                               *)

\* No step loses input that is coalesced with a request on its way: the
\* field is not reset, nor the handler's work done, without its being read.
CoalescedIsKept == [][\A k \in Kinds : WillBeRead(k) => WillBeRead(k)' \/ ~unread'[k]]_vars

LEMMA CoalescedStep ==
    ASSUME TypeOK, SampledRuns, [Next]_vars, NEW k \in Kinds, WillBeRead(k)
    PROVE  WillBeRead(k)' \/ ~unread'[k]
<1> USE MayCallAssumption, NoKindAssumption DEF WillBeRead
<1>1. ASSUME NEW t \in Callers, NEW m \in Kinds, Post(t, m) PROVE WillBeRead(k)'
  BY <1>1 DEF TypeOK, Post
<1>2. ASSUME NEW t \in Callers, Check(t) \/ Register(t) \/ Enqueue(t) PROVE WillBeRead(k)'
  BY <1>2 DEF TypeOK, Check, Register, Enqueue
<1>3. CASE Pop
  BY <1>3 DEF SampledRuns, Pop
<1>4. CASE Work
  BY <1>4 DEF TypeOK, Work
<1>5. CASE Clear
  <2>1. running # k
    BY <1>5 DEF Clear
  <2>2. callback'[k] /\ unread'[k] /\ running' # k
    BY <1>5, <2>1 DEF TypeOK, Clear
  <2>3. QED
    BY <2>2
<1>6. CASE UNCHANGED vars
  BY <1>6 DEF vars
<1>7. QED
  BY <1>1, <1>2, <1>3, <1>4, <1>5, <1>6 DEF Next, CallerStep, MainStep

\* Whoever issues which request, no step drops coalesced input.  That a step
\* reads it is what CoalescedIsServed adds, by fairness and one caller per kind.
THEOREM CoalescedIsNeverDropped == Spec => CoalescedIsKept
<1>1. SlotInv /\ [Next]_vars =>
          [\A k \in Kinds : WillBeRead(k) => WillBeRead(k)' \/ ~unread'[k]]_vars
  BY CoalescedStep DEF SlotInv
<1>2. QED
  BY <1>1, SlotInvAlways, PTL DEF Spec, CoalescedIsKept

-----------------------------------------------------------------------------
(* The protocol implements the abstract slots.                             *)

\* Every step of the protocol is a step of one slot, or leaves them alone,
\* as far as kinds are concerned that one thread issues.
Own == {k \in Kinds : OneCaller(k)}
OwnSlots == INSTANCE RequestSlot WITH Kinds <- Own, slot <- [k \in Own |-> slotOf[k]]

LEMMA SlotStep ==
    ASSUME SlotInv, [Next]_vars PROVE [OwnSlots!Next]_([k \in Own |-> slotOf[k]])
<1> DEFINE own == [k \in Own |-> slotOf[k]]
<1>t. TypeOK /\ Own \subseteq Kinds
  BY DEF SlotInv, Own
<1>o. Own' = Own
  BY DEF Own, OneCaller
<1>k. \A k \in Own : KindInv(k)
  BY DEF SlotInv, Own
<1> USE MayCallAssumption, NoKindAssumption
<1>0. /\ \A k \in Own : own[k] = IF running = k THEN "running"
                                 ELSE IF callback[k] THEN "pending" ELSE "free"
      /\ own' = [k \in Own |-> IF running' = k THEN "running"
                               ELSE IF callback'[k] THEN "pending" ELSE "free"]
  BY <1>t, <1>o DEF slotOf
<1>1. ASSUME \A k \in Own : callback'[k] = callback[k] /\ (running' = k <=> running = k)
      PROVE  own' = own
  BY <1>0, <1>1
<1>2. ASSUME NEW t \in Callers, NEW k \in Kinds, Post(t, k) PROVE own' = own
  BY <1>1, <1>2 DEF Post
<1>3. ASSUME NEW t \in Callers, Check(t) PROVE own' = own
  BY <1>1, <1>3 DEF Check
<1>4. ASSUME NEW t \in Callers, Register(t) PROVE OwnSlots!Next \/ own' = own
  <2>1. PICK k \in Kinds : k = kindOf[t]
    BY <1>t, <1>4 DEF TypeOK, Register
  <2>2. running' = running /\ \A m \in Kinds : callback'[m] = IF m = k THEN TRUE ELSE callback[m]
    BY <2>1, <1>t, <1>4 DEF TypeOK, Register
  <2>3. CASE k \in Own
    <3>1. ~callback[k] /\ running # k
      BY <1>k, <2>1, <2>3, <1>4 DEF KindInv, CallerInv, FieldExact, Register
    <3>2. own[k] = "free" /\ own' = [own EXCEPT ![k] = "pending"]
      BY <1>0, <1>t, <2>2, <2>3, <3>1
    <3>3. QED
      BY <2>3, <3>2 DEF OwnSlots!Next, OwnSlots!Raise
  <2>4. CASE k \notin Own
    BY <1>1, <1>t, <2>2, <2>4
  <2>5. QED
    BY <2>3, <2>4
<1>5. ASSUME NEW t \in Callers, Enqueue(t) PROVE own' = own
  BY <1>1, <1>5 DEF Enqueue
<1>6. ASSUME Pop PROVE OwnSlots!Next \/ own' = own
  <2>1. PICK k \in Kinds : k = Head(runQueue)
    BY <1>t, <1>6, TailFacts DEF TypeOK, Pop
  <2>2. callback' = callback /\ running = NoKind /\ running' = IF callback[k] THEN k ELSE running
    BY <2>1, <1>6 DEF Pop
  <2>3. CASE k \in Own
    <3>1. callback[k]
      BY <2>1, <2>3, <1>6, HeadIsSet DEF Own, Pop
    <3>2. own[k] = "pending" /\ own' = [own EXCEPT ![k] = "running"]
      BY <1>0, <1>t, <2>2, <2>3, <3>1
    <3>3. QED
      BY <2>3, <3>2 DEF OwnSlots!Next, OwnSlots!Start
  <2>4. CASE k \notin Own
    BY <1>1, <1>t, <2>2, <2>4
  <2>5. QED
    BY <2>3, <2>4
<1>7. ASSUME Work PROVE OwnSlots!Next \/ own' = own
  BY <1>1, <1>7 DEF Work
<1>8. ASSUME Clear PROVE OwnSlots!Next \/ own' = own
  <2>1. PICK k \in Kinds : k = running
    BY <1>t, <1>8 DEF SlotInv, SampledRuns, TypeOK, Clear
  <2>2. running' = NoKind /\ \A m \in Kinds : callback'[m] = IF m = k THEN FALSE ELSE callback[m]
    BY <2>1, <1>t, <1>8 DEF TypeOK, Clear
  <2>3. CASE k \in Own
    <3>1. own[k] = "running" /\ own' = [own EXCEPT ![k] = "free"]
      BY <1>0, <1>t, <2>1, <2>2, <2>3
    <3>2. QED
      BY <2>3, <3>1 DEF OwnSlots!Next, OwnSlots!Finish
  <2>4. CASE k \notin Own
    BY <1>1, <1>t, <2>1, <2>2, <2>4
  <2>5. QED
    BY <2>3, <2>4
<1>9. ASSUME UNCHANGED vars PROVE OwnSlots!Next \/ own' = own
  BY <1>1, <1>9 DEF vars
<1> HIDE DEF own
<1>10. OwnSlots!Next \/ own' = own
  BY <1>2, <1>3, <1>4, <1>5, <1>6, <1>7, <1>8, <1>9 DEF Next, CallerStep, MainStep
<1>11. QED
  BY <1>10 DEF own

\* The hand-over of the kinds that one thread issues implements one slot for
\* each of them, though the other kinds are handed over beside them.
THEOREM OwnKindsRefineSlots == Spec => OwnSlots!SafeSpec
<1>1. Init => OwnSlots!Init
  BY NoKindAssumption DEF Init, OwnSlots!Init, slotOf, Own
<1>2. SlotInv /\ [Next]_vars => [OwnSlots!Next]_([k \in Own |-> slotOf[k]])
  BY SlotStep
<1>3. QED
  BY <1>1, <1>2, SlotInvAlways, PTL DEF Spec, OwnSlots!SafeSpec

\* With one caller per kind the registration protocol implements one slot
\* per kind of request (the safety half of ImplementsSlots).
THEOREM RefinesSlots ==
    ASSUME OneCallerPerKind PROVE Spec => Slots!SafeSpec
<1>1. Own = Kinds /\ [k \in Own |-> slotOf[k]] = slotOf
  BY DEF OneCallerPerKind, Own, slotOf
<1>2. Init => Slots!Init
  BY NoKindAssumption DEF Init, Slots!Init, slotOf
<1>3. SlotInv /\ [Next]_vars => [Slots!Next]_slotOf
  <2>1. (Own = Kinds)' /\ ([k \in Own |-> slotOf[k]] = slotOf)'
    BY DEF OneCallerPerKind, Own, slotOf
  <2>2. QED
    BY <1>1, <2>1, SlotStep
       DEF OwnSlots!Next, OwnSlots!Raise, OwnSlots!Start, OwnSlots!Finish,
           Slots!Next, Slots!Raise, Slots!Start, Slots!Finish
<1>4. QED
  BY <1>2, <1>3, SlotInvAlways, PTL DEF Spec, Slots!SafeSpec
=============================================================================

-------------------------- MODULE MainThreadCalls --------------------------
(***************************************************************************)
(* How other threads get work done on the BTStack thread.                  *)
(*                                                                         *)
(* reconnect_gamepad, sync_gamepad and disconnect_gamepad each own one     *)
(* registration object.  The caller reads its callback field, and if it is *)
(* NULL sets it and hands the object to the run loop.  The handler, on the *)
(* BTStack thread, does its work and then resets the field to NULL.  None  *)
(* of this is under a lock, so the steps below are the single reads and    *)
(* writes of the field.                                                    *)
(*                                                                         *)
(* The run loop (btstack_run_loop_execute_on_main_thread and the loop that *)
(* pops the list) is a library: it keeps a locked list, does not insert an *)
(* object twice, and calls the callback field it finds when it pops.       *)
(***************************************************************************)
EXTENDS Naturals, Sequences

CONSTANTS
    Callers,        \* the threads that issue requests
    Kinds,          \* the registrations
    MayCall,        \* which kinds each thread requests
    NoKind          \* no handler is running

ASSUME MayCallAssumption == MayCall \in [Callers -> SUBSET Kinds]
ASSUME NoKindAssumption  == NoKind \notin Kinds

VARIABLES
    callback,       \* is <kind>_callback_reg.callback non-NULL?
    pc,             \* where each caller is
    kindOf,         \* the registration each caller works on
    runQueue,       \* the run loop's list of registrations
    running,        \* the handler the BTStack thread executes, or NoKind
    sampled,        \* has that handler done its work (not yet reset the field)?
    unread,         \* input written for a kind that no handler has looked at
    crashed         \* the run loop called a NULL callback

vars == <<callback, pc, kindOf, runQueue, running, sampled, unread, crashed>>

Queued(k) == \E i \in 1..Len(runQueue) : runQueue[i] = k

TypeOK ==
    /\ callback \in [Kinds -> BOOLEAN]
    /\ pc \in [Callers -> {"idle", "posted", "checked", "registered"}]
    /\ kindOf \in [Callers -> Kinds \cup {NoKind}]
    /\ \A t \in Callers : pc[t] # "idle" => kindOf[t] \in MayCall[t]
    /\ runQueue \in Seq(Kinds)
    /\ running \in Kinds \cup {NoKind}
    /\ sampled \in BOOLEAN
    /\ unread \in [Kinds -> BOOLEAN]
    /\ crashed \in BOOLEAN

Init ==
    /\ callback = [k \in Kinds |-> FALSE]
    /\ pc = [t \in Callers |-> "idle"]
    /\ kindOf = [t \in Callers |-> NoKind]
    /\ runQueue = <<>>
    /\ running = NoKind
    /\ sampled = FALSE
    /\ unread = [k \in Kinds |-> FALSE]
    /\ crashed = FALSE

-----------------------------------------------------------------------------
(* The caller's side.                                                      *)

\* A thread decides on a request and writes its input: for a reconnect the
\* imported link keys, for the others just the wish to have it done.
MutPostStale(t, k) ==
    /\ ~crashed
    /\ pc[t] = "idle"
    /\ k \in MayCall[t]
    /\ pc' = [pc EXCEPT ![t] = "posted"]
    /\ unread' = [unread EXCEPT ![k] = TRUE]
    /\ UNCHANGED <<callback, kindOf, runQueue, running, sampled, crashed>>

Post(t, k) ==
    /\ ~crashed
    /\ pc[t] = "idle"
    /\ k \in MayCall[t]
    /\ pc' = [pc EXCEPT ![t] = "posted"]
    /\ kindOf' = [kindOf EXCEPT ![t] = k]
    /\ unread' = [unread EXCEPT ![k] = TRUE]
    /\ UNCHANGED <<callback, runQueue, running, sampled, crashed>>

\* if (reg.callback) return;
AlreadyQueued(k) == callback[k]

Check(t) ==
    /\ ~crashed
    /\ pc[t] = "posted"
    /\ pc' = [pc EXCEPT ![t] = IF AlreadyQueued(kindOf[t]) THEN "idle" ELSE "checked"]
    /\ UNCHANGED <<callback, kindOf, runQueue, running, sampled, unread, crashed>>

\* reg.callback = &do_..._on_main;
Register(t) ==
    /\ ~crashed
    /\ pc[t] = "checked"
    /\ callback' = [callback EXCEPT ![kindOf[t]] = TRUE]
    /\ pc' = [pc EXCEPT ![t] = "registered"]
    /\ UNCHANGED <<kindOf, runQueue, running, sampled, unread, crashed>>

\* btstack_run_loop_execute_on_main_thread(&reg): an object already in the
\* list is not inserted again.
MutEnqueueFirst(t) ==
    /\ ~crashed
    /\ pc[t] \in {"checked", "registered"}
    /\ runQueue' = IF Queued(kindOf[t]) THEN runQueue ELSE Append(runQueue, kindOf[t])
    /\ pc' = [pc EXCEPT ![t] = "idle"]
    /\ UNCHANGED <<callback, kindOf, running, sampled, unread, crashed>>

Enqueue(t) ==
    /\ ~crashed
    /\ pc[t] = "registered"
    /\ runQueue' = IF Queued(kindOf[t]) THEN runQueue ELSE Append(runQueue, kindOf[t])
    /\ pc' = [pc EXCEPT ![t] = "idle"]
    /\ UNCHANGED <<callback, kindOf, running, sampled, unread, crashed>>

-----------------------------------------------------------------------------
(* The BTStack thread.                                                     *)

\* The run loop pops a registration and calls through its callback field.
Pop ==
    /\ ~crashed
    /\ running = NoKind
    /\ runQueue # <<>>
    /\ runQueue' = Tail(runQueue)
    /\ IF callback[Head(runQueue)]
         THEN running' = Head(runQueue) /\ UNCHANGED crashed
         ELSE crashed' = TRUE /\ UNCHANGED running
    /\ UNCHANGED <<callback, pc, kindOf, sampled, unread>>

\* do_reconnect_on_main, do_sync_on_main and do_disconnect_on_main up to
\* their last statement: they read the input of the request.
Work ==
    /\ ~crashed
    /\ running # NoKind
    /\ ~sampled
    /\ unread' = [unread EXCEPT ![running] = FALSE]
    /\ sampled' = TRUE
    /\ UNCHANGED <<callback, pc, kindOf, runQueue, running, crashed>>

\* Their last statement: reg.callback = NULL.
MutClearForgotten ==
    /\ ~crashed
    /\ sampled
    /\ running' = NoKind
    /\ sampled' = FALSE
    /\ UNCHANGED <<callback, pc, kindOf, runQueue, unread, crashed>>

Clear ==
    /\ ~crashed
    /\ sampled
    /\ callback' = [callback EXCEPT ![running] = FALSE]
    /\ running' = NoKind
    /\ sampled' = FALSE
    /\ UNCHANGED <<pc, kindOf, runQueue, unread, crashed>>

-----------------------------------------------------------------------------
CallerStep(t) == Check(t) \/ Register(t) \/ Enqueue(t)
MainStep == Pop \/ Work \/ Clear

Next ==
    \/ \E t \in Callers : \E k \in Kinds : Post(t, k)
    \/ \E t \in Callers : CallerStep(t)
    \/ MainStep

\* A thread that started a call finishes it and the BTStack thread keeps
\* serving its list; nobody is obliged to issue requests.
Spec ==
    /\ Init
    /\ [][Next]_vars
    /\ \A t \in Callers : WF_vars(CallerStep(t))
    /\ WF_vars(MainStep)

-----------------------------------------------------------------------------
(* Properties.                                                             *)

\* One thread issues requests of this kind: in the worker, the main thread
\* those to reconnect and to disconnect (worker.rs 177, 240), but for a sync only as
\* long as one sync loop is alive and no Sync command comes while it is.
OneCaller(k) == \A t, u \in Callers : (k \in MayCall[t] /\ k \in MayCall[u]) => t = u

OneCallerPerKind == \A k \in Kinds : OneCaller(k)

\* The run loop never calls a NULL callback (btkeyLib.c 590-643: the
\* functions are "safe to call from any thread").
NoNullCall == ~crashed

FieldExact(k) ==
    callback[k] <=> \/ \E t \in Callers : pc[t] = "registered" /\ kindOf[t] = k
                    \/ Queued(k)
                    \/ running = k

\* The callback field is non-NULL exactly while the registration is on its
\* way: between the two statements of its caller, in the list, or running.
FieldMeansInFlight == \A k \in Kinds : FieldExact(k)

\* The input of a kind that is on its way and whose handler has not done its work.
WillBeRead(k) == callback[k] /\ unread[k] /\ ~(running = k /\ sampled)

\* A request that comes while one of its kind is on its way is coalesced
\* with it: as long as the handler has not done its work, it will look at
\* the input of both (btkeyLib.c 597 and ipc.rs 36: the keys a reconnect
\* imports are those it reconnects with).
CoalescedIsServed == \A k \in Kinds : WillBeRead(k) ~> ~unread[k]

\* The protocol implements one slot per kind (RequestSlot): a slot is
\* taken as long as the callback field is non-NULL, and is freed again.
slotOf == [k \in Kinds |-> IF running = k THEN "running"
                           ELSE IF callback[k] THEN "pending" ELSE "free"]
Slots == INSTANCE RequestSlot WITH slot <- slotOf
ImplementsSlots == Slots!Spec
=============================================================================

---------------------------- MODULE RequestSlot ----------------------------
(***************************************************************************)
(* What reconnect_gamepad, sync_gamepad and disconnect_gamepad promise to  *)
(* their callers (src/csrc/btkeyLib.c 590-644): each kind of request has   *)
(* one slot.  A request raised while the slot is free is executed on the   *)
(* BTStack thread, once, and the slot becomes free again.  A request       *)
(* raised while the slot is taken changes nothing.                         *)
(***************************************************************************)
CONSTANT Kinds          \* the registrations: reconnect, sync, disconnect

VARIABLE slot           \* the state of each kind's registration

Init == slot = [k \in Kinds |-> "free"]

Raise(k)  == slot[k] = "free"    /\ slot' = [slot EXCEPT ![k] = "pending"]
Start(k)  == slot[k] = "pending" /\ slot' = [slot EXCEPT ![k] = "running"]
Finish(k) == slot[k] = "running" /\ slot' = [slot EXCEPT ![k] = "free"]

Next == \E k \in Kinds : Raise(k) \/ Start(k) \/ Finish(k)

SafeSpec == Init /\ [][Next]_slot

Spec == /\ SafeSpec
        /\ \A k \in Kinds : WF_slot(Start(k)) /\ WF_slot(Finish(k))
=============================================================================

------------------------------ MODULE Registry ------------------------------
(***************************************************************************)
(* What the registry of src/src/controller.rs promises to those who hold   *)
(* an id: the id stands for one worker, is listed at most once, and leaves *)
(* the list only when its worker has ended.  It then does leave it, unless *)
(* the worker had ended before the id was listed: such an id is a stray    *)
(* one, which nobody takes out any more.                                   *)
(***************************************************************************)
CONSTANT Ids

VARIABLES
    entry,          \* what the registry holds of each id
    ended           \* external: ids whose worker has ended

rvars == <<entry, ended>>

Init ==
    /\ entry = [i \in Ids |-> "new"]
    /\ ended = {}

Enter(i) ==
    /\ entry[i] = "new"
    /\ \/ entry' = [entry EXCEPT ![i] = "listed"]
       \/ i \in ended /\ entry' = [entry EXCEPT ![i] = "stray"]
    /\ UNCHANGED ended

WorkerEnds(i) ==
    /\ i \notin ended
    /\ ended' = ended \cup {i}
    /\ UNCHANGED entry

Leave(i) ==
    /\ entry[i] = "listed"
    /\ i \in ended
    /\ entry' = [entry EXCEPT ![i] = "gone"]
    /\ UNCHANGED ended

Next == \E i \in Ids : Enter(i) \/ WorkerEnds(i) \/ Leave(i)

SafeSpec == Init /\ [][Next]_rvars

\* No id is taken out while its worker runs.
GoneHaveEnded == \A i \in Ids : entry[i] = "gone" => i \in ended

Spec == SafeSpec /\ \A i \in Ids : WF_rvars(Leave(i))
=============================================================================

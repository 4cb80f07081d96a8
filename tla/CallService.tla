---------------------------- MODULE CallService ----------------------------
(***************************************************************************)
(* What the thread pool promises the callers of DispatchRpcCall, without    *)
(* threads, queues or pipes: a call is refused or accepted once; an         *)
(* accepted call is begun at most once; a call that was begun finishes or   *)
(* is killed, once, and nothing happens to it afterwards.                   *)
(***************************************************************************)
CONSTANT Calls
VARIABLE status

Statuses == {"none", "rejected", "accepted", "running", "finished", "killed"}

Init == status = [c \in Calls |-> "none"]

Move(c, from, to) ==
    /\ status[c] = from
    /\ status' = [status EXCEPT ![c] = to]

Next ==
    \E c \in Calls :
        \/ Move(c, "none", "rejected")
        \/ Move(c, "none", "accepted")
        \/ Move(c, "accepted", "running")
        \/ Move(c, "running", "finished")
        \/ Move(c, "running", "killed")

Spec == Init /\ [][Next]_status
=============================================================================

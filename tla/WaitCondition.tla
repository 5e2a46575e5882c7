--------------------------- MODULE WaitCondition ---------------------------
(***************************************************************************)
(* kernel/sync/wait_condition.rs: the contexts that wait for one thing to  *)
(* happen.  WaitQueue and Pipe build on it.                                *)
(***************************************************************************)
EXTENDS Context

VARIABLE
    condition  \* WaitCondition::contexts; notify treats all of them alike, so
               \* that their order and their multiplicity are left out

(* WaitCondition::wait, up to and including the call of switch().          *)
wait(c) ==
    /\ condition' = condition \cup {c}
    /\ switch(block(status, c), c)

(* Bug: only one waiter is woken, and the list is emptied.                 *)
notify_one ==
    /\ condition' = {}
    /\ stay(unblock(status, IF condition = {} THEN {} ELSE {Min(condition)}))

(* WaitCondition::notify                                                   *)
notify ==
    /\ condition' = {}
    /\ stay(unblock(status, condition))
=============================================================================

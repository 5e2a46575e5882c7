-------------------------------- MODULE Fifo --------------------------------
(***************************************************************************)
(* What a WaitQueue promises its users: the values sent are received once  *)
(* each, in the order they were sent, and a receive takes at most as many  *)
(* values as the buffer holds.                                             *)
(***************************************************************************)
EXTENDS Naturals, Sequences

CONSTANTS
    MaxSent,  \* bound on the values sent
    MaxBuf    \* bound on the length of a buffer

VARIABLES
    sent,     \* the number of values sent; the values are 1, 2, ...
    received  \* the values received so far, in order

fifoVars == <<sent, received>>

Init == sent = 0 /\ received = <<>>

Send ==
    /\ \E k \in 1 .. MaxBuf : sent' = sent + k
    /\ sent' <= MaxSent
    /\ UNCHANGED received

(* The next values in order, no more of them than were sent.               *)
Receive ==
    /\ \E k \in 1 .. MaxBuf :
           /\ Len(received) + k <= sent
           /\ received' = received \o [i \in 1 .. k |-> Len(received) + i]
    /\ UNCHANGED sent

Next == Send \/ Receive

Spec == Init /\ [][Next]_fifoVars

=============================================================================

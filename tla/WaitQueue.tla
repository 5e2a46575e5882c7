----------------------------- MODULE WaitQueue -----------------------------
(***************************************************************************)
(* kernel/sync/wait_queue.rs on top of WaitCondition: one WaitQueue that   *)
(* contexts read from and that contexts and interrupt handlers send to.    *)
(* The event queue of a context, the request queue of a user scheme and    *)
(* the input of the debug scheme are such queues.                          *)
(*                                                                         *)
(* The values are the numbers 1, 2, ... in the order they are sent.        *)
(***************************************************************************)
EXTENDS WaitCondition, Sequences

CONSTANTS
    MaxSent,     \* bound on the values sent
    MaxBuf       \* bound on the length of a buffer

ASSUME WaitQueueAssumption ==
    /\ MaxSent \in Nat
    /\ MaxBuf \in Nat

VARIABLES
    inner,      \* WaitQueue::inner
    room,       \* the length of the buffer of a suspended receive_into
    sent,       \* how many values were sent
    received    \* the values received so far, in order

queueVars == <<inner, condition, room, sent, received>>
vars == <<contextVars, queueVars>>

Calls == {"user", "receive", "sleep"}

TypeOK ==
    /\ ContextTypeOK
    /\ inner \in Seq(1 .. MaxSent)
    /\ condition \in SUBSET Ids
    /\ pc \in [Contexts -> Calls]
    /\ room \in [Contexts -> 0 .. MaxBuf]
    /\ sent \in 0 .. MaxSent
    /\ received \in Seq(1 .. MaxSent)

Init ==
    /\ ContextInit(Contexts)
    /\ inner = <<>>
    /\ condition = {}
    /\ room = [c \in Contexts |-> 0]
    /\ sent = 0
    /\ received = <<>>

-----------------------------------------------------------------------------
(* Bug: the values are taken from the back of the queue.                   *)
take_back(n) ==
    /\ inner' = SubSeq(inner, 1, Len(inner) - n)
    /\ received' = received \o SubSeq(inner, Len(inner) - n + 1, Len(inner))

(* The first n values move from the queue to the buffer of the caller.     *)
take(n) ==
    /\ inner' = SubSeq(inner, n + 1, Len(inner))
    /\ received' = received \o SubSeq(inner, 1, n)

-----------------------------------------------------------------------------
(* The body of the loop of receive, and the rest of receive_into once a    *)
(* value is there.  An empty queue suspends the caller.                    *)
receive(c, n) ==
    /\ \/ /\ inner # <<>>
          /\ take(Min({n, Len(inner)}))
          /\ goto(c, "user")
          /\ stay(status)
          /\ UNCHANGED condition
       \/ /\ inner = <<>>
          /\ wait(c)
          /\ goto(c, "receive")
          /\ UNCHANGED <<inner, received>>
    /\ UNCHANGED <<wake, now, sent>>

(* receive_into(buf, block) with a buffer of n entries.                    *)
receive_into(c, n, blocking) ==
    /\ At(c, "user")
    /\ \/ /\ blocking
          /\ n > 0
          /\ receive(c, n)
          /\ room' = [room EXCEPT ![c] = n]
       \/ /\ ~blocking \/ n = 0
          /\ take(Min({n, Len(inner)}))
          /\ UNCHANGED <<contextVars, condition, room, sent>>

(* Bug: the context yields, and decides on what it saw before it waited.   *)
receive_again_stale(c) ==
    /\ At(c, "receive")
    /\ switch(status, c)
    /\ UNCHANGED <<wake, now, pc, queueVars>>

(* The context returns from the switch() of wait and tries again.          *)
receive_again(c) ==
    /\ At(c, "receive")
    /\ receive(c, room[c])
    /\ UNCHANGED room

(* send_from with k values, send with k = 1, called by a context or by an  *)
(* interrupt handler.                                                      *)
send_from(k) ==
    /\ InterruptsEnabled
    /\ sent + k <= MaxSent
    /\ sent' = sent + k
    /\ inner' = inner \o [i \in 1 .. k |-> sent + i]
    /\ notify
    /\ UNCHANGED <<wake, now, pc, room, received>>

-----------------------------------------------------------------------------
Next ==
    \/ \E c \in Contexts :
        \/ \E n \in 0 .. MaxBuf, blocking \in BOOLEAN : receive_into(c, n, blocking)
        \/ receive_again(c)
        \/ signal_handler(c) /\ UNCHANGED queueVars
    \/ \E k \in 1 .. MaxBuf : send_from(k)
    \/ schedule /\ UNCHANGED queueVars

Spec == Init /\ [][Next]_vars

FairSpec ==
    /\ Spec
    /\ ScheduleFairness
    /\ \A c \in Contexts : WF_vars(receive_again(c))

-----------------------------------------------------------------------------
(* A wake-up is never lost: while WaitQueue::inner holds a value, no       *)
(* context sleeps inside receive(), although the test of the queue and the *)
(* entry in the list of waiters are two steps of the code, and although    *)
(* signals and expired wake times also unblock waiters.                    *)
NoLostWakeup ==
    inner # <<>> => \A c \in Contexts : pc[c] = "receive" => status[c] # "Blocked"

(* Why no wake-up is lost: a context asleep in receive() is in the list    *)
(* that notify() empties, that list is empty while there are values, and   *)
(* a live context in it has not left receive(), so no later notify() can   *)
(* wake it from another sleep.                                             *)
WaitersListed ==
    /\ \A c \in Contexts : pc[c] = "receive" /\ status[c] = "Blocked" => c \in condition
    /\ \A c \in condition : c \in Contexts /\ (pc[c] = "receive" \/ status[c] = "Exited")
    /\ inner # <<>> => condition = {}

(* The invariant the proofs use.                                           *)
IInv == TypeOK /\ WaitersListed /\ RunsRunnable /\ SleepersTimed

ChannelSpec == INSTANCE Fifo

(* The queue delivers every value once, in the order of the calls of send, *)
(* whichever contexts receive them and whichever of them are killed.       *)
FifoSpec == ChannelSpec!Spec

(* A receiver that finds values in the queue, or for which values arrive   *)
(* while it waits, returns from receive() unless others empty the queue.   *)
ReceiverReturns ==
    \A c \in Contexts :
        (inner # <<>> /\ pc[c] = "receive") ~> (inner = <<>> \/ pc[c] # "receive" \/ status[c] = "Exited")
=============================================================================

----------------------------- MODULE SyncProofs -----------------------------
(***************************************************************************)
(* Proofs about the two ways contexts wait for each other: the WaitQueue   *)
(* of the kernel and the futex of programs, for any number of contexts,    *)
(* any bounds and any sequence of calls.  The inductive invariants are     *)
(* IInv of WaitQueue and FutexIInv of Futex.                               *)
(***************************************************************************)
EXTENDS WaitQueue, Futex, FiniteSetTheorems

-----------------------------------------------------------------------------
(* The queue.                                                              *)

(* Moving n values out of the queue keeps the two sequences well typed.    *)
LEMMA TakeType ==
    ASSUME TypeOK, NEW n \in 0 .. Len(inner), take(n)
    PROVE  inner' \in Seq(1 .. MaxSent) /\ received' \in Seq(1 .. MaxSent)
<1>1. inner \in Seq(1 .. MaxSent) /\ received \in Seq(1 .. MaxSent)
  BY DEF TypeOK
<1>2. /\ SubSeq(inner, n + 1, Len(inner)) \in Seq(1 .. MaxSent)
      /\ SubSeq(inner, 1, n) \in Seq(1 .. MaxSent)
  BY <1>1, SplitSeq
<1>3. received \o SubSeq(inner, 1, n) \in Seq(1 .. MaxSent)
  BY <1>1, <1>2, ConcatProperties
<1> QED  BY <1>2, <1>3 DEF take

(* The number of values a receiver takes is within the queue.              *)
LEMMA TakeCount ==
    ASSUME TypeOK, NEW n \in Nat
    PROVE  /\ Min({n, Len(inner)}) \in 0 .. Len(inner)
           /\ Min({n, Len(inner)}) = IF n <= Len(inner) THEN n ELSE Len(inner)
<1>1. Len(inner) \in Nat
  BY LenProperties DEF TypeOK
<1>2. {n, Len(inner)} \in SUBSET Nat /\ {n, Len(inner)} # {}
  BY <1>1
<1>3. /\ Min({n, Len(inner)}) \in {n, Len(inner)}
      /\ \A y \in {n, Len(inner)} : Min({n, Len(inner)}) <= y
  BY <1>2, MinNat
<1> QED  BY <1>1, <1>3

-----------------------------------------------------------------------------
(* Initially every context is in user mode and the queue is empty.         *)
LEMMA InitIInv == Init => IInv
<1> SUFFICES ASSUME Init PROVE IInv  OBVIOUS
<1>1. ContextIInv
  BY ContextInitial DEF Init
<1>2. TypeOK
  BY <1>1, WaitQueueAssumption DEF Init, ContextInit, ContextIInv, TypeOK, Calls
<1>3. WaitersListed
  BY DEF Init, ContextInit, WaitersListed
<1> QED  BY <1>1, <1>2, <1>3 DEF IInv, ContextIInv

(* A step that leaves the queue alone and moves no context that waits in   *)
(* receive() keeps the invariant.                                          *)
LEMMA OthersKeep ==
    ASSUME IInv, ContextIInv', UNCHANGED queueVars, pc' \in [Contexts -> Calls],
           \A x \in Contexts :
              \/ Undisturbed(x)
              \/ status[x] = "Runnable" /\ {pc[x], pc'[x]} \subseteq {"user", "sleep"}
    PROVE  IInv'
<1>1. TypeOK'
  BY DEF IInv, TypeOK, ContextIInv, queueVars
<1>2. WaitersListed'
  BY DEF IInv, WaitersListed, Undisturbed, queueVars
<1> QED  BY <1>1, <1>2 DEF IInv, ContextIInv

(* The body of the loop of receive() keeps the invariant.                  *)
LEMMA ReceiveIInv ==
    ASSUME IInv, NEW c \in Contexts, NEW n \in 0 .. MaxBuf, CONTEXT_ID = c,
           pc[c] \in {"user", "receive"}, receive(c, n),
           room' \in [Contexts -> 0 .. MaxBuf]
    PROVE  IInv'
<1>1. TypeOK /\ ContextTypeOK /\ WaitersListed /\ ContextIInv /\ RunsRunnable
  BY DEF IInv, TypeOK, ContextIInv
<1>2. c \in Ids /\ KMAIN \in Ids /\ c # KMAIN /\ Contexts \subseteq Ids
  BY ContextAssumption DEF Ids
<1>3. CASE /\ inner # <<>> /\ take(Min({n, Len(inner)}))
           /\ pc' = [pc EXCEPT ![c] = "user"] /\ stay(status)
           /\ UNCHANGED <<wake, now, sent, condition>>
  <2>1. inner' \in Seq(1 .. MaxSent) /\ received' \in Seq(1 .. MaxSent)
    BY <1>1, <1>3, TakeCount, TakeType, WaitQueueAssumption
  <2>2. TypeOK'
    BY <1>1, <1>3, <2>1 DEF TypeOK, ContextTypeOK, stay, Calls
  <2>3. WaitersListed'
    BY <1>1, <1>3 DEF WaitersListed, TypeOK, stay
  <2>4. RunsRunnable' /\ SleepersTimed'
    BY <1>1, <1>3 DEF ContextIInv, RunsRunnable, SleepersTimed, TypeOK, stay
  <2> QED  BY <2>2, <2>3, <2>4 DEF IInv
<1>4. CASE /\ inner = <<>> /\ wait(c)
           /\ pc' = [pc EXCEPT ![c] = "receive"]
           /\ UNCHANGED <<wake, now, sent, inner, received>>
  <2>1. switch(block(status, c), c) /\ condition' = condition \cup {c}
    BY <1>4 DEF wait
  <2>2. pc \in [Contexts -> Calls] /\ goto(c, "receive") /\ UNCHANGED <<wake, now>>
    BY <1>1, <1>4 DEF TypeOK, goto
  <2>3. ContextIInv' /\ pc'[c] = "receive" /\ \A x \in Contexts \ {c} : Undisturbed(x)
    BY <1>1, <2>1, <2>2, BlockKeeps
  <2>4. TypeOK'
    BY <1>1, <1>2, <1>4, <2>1, <2>3 DEF TypeOK, ContextIInv, Calls
  <2>5. WaitersListed'
    BY <1>1, <1>4, <2>1, <2>3 DEF WaitersListed, Undisturbed
  <2> QED  BY <2>3, <2>4, <2>5 DEF IInv, ContextIInv
<1> QED  BY <1>3, <1>4 DEF receive, goto

(* Every step keeps the invariant.                                         *)
LEMMA NextIInv == IInv /\ [Next]_vars => IInv'
<1> SUFFICES ASSUME IInv, [Next]_vars PROVE IInv'  OBVIOUS
<1> USE WaitQueueAssumption
<1>1. TypeOK /\ ContextTypeOK /\ WaitersListed /\ ContextIInv
  BY DEF IInv, TypeOK, ContextIInv
<1>2. ASSUME NEW c \in Contexts, NEW n \in 0 .. MaxBuf, NEW blocking \in BOOLEAN,
             receive_into(c, n, blocking)
      PROVE  IInv'
  <2>1. CASE receive(c, n) /\ room' = [room EXCEPT ![c] = n]
    <3>1. room' \in [Contexts -> 0 .. MaxBuf]
      BY <1>1, <2>1 DEF TypeOK
    <3> QED  BY <1>2, <2>1, <3>1, ReceiveIInv DEF receive_into, At
  <2>2. CASE take(Min({n, Len(inner)})) /\ UNCHANGED <<contextVars, condition, room, sent>>
    <3>1. inner' \in Seq(1 .. MaxSent) /\ received' \in Seq(1 .. MaxSent)
      BY <1>1, <2>2, TakeCount, TakeType
    <3>2. TypeOK'
      BY <1>1, <2>2, <3>1 DEF TypeOK, ContextTypeOK, contextVars
    <3>3. Min({n, Len(inner)}) \in 0 .. Len(inner)
      BY <1>1, TakeCount
    <3>4. inner = <<>> => inner' = <<>>
      BY <2>2, <3>3, SubSeqEmpty DEF take
    <3>5. WaitersListed'
      BY <1>1, <2>2, <3>4 DEF WaitersListed, contextVars
    <3>6. RunsRunnable' /\ SleepersTimed'
      BY <1>1, <2>2 DEF ContextIInv, RunsRunnable, SleepersTimed, contextVars
    <3> QED  BY <3>2, <3>5, <3>6 DEF IInv
  <2> QED  BY <1>2, <2>1, <2>2 DEF receive_into
<1>3. ASSUME NEW c \in Contexts, receive_again(c) PROVE IInv'
  <2>1. room[c] \in 0 .. MaxBuf /\ room' \in [Contexts -> 0 .. MaxBuf]
    BY <1>1, <1>3 DEF receive_again, TypeOK
  <2> QED  BY <1>3, <2>1, ReceiveIInv DEF receive_again, At
<1>4. ASSUME NEW c \in Contexts, signal_handler(c), UNCHANGED queueVars PROVE IInv'
  BY <1>1, <1>4, SignalKeeps, OthersKeep DEF TypeOK
<1>5. ASSUME NEW k \in 1 .. MaxBuf, send_from(k) PROVE IInv'
  <2> DEFINE new == [i \in 1 .. k |-> sent + i]
  <2>1. /\ sent + k <= MaxSent /\ sent' = sent + k /\ inner' = inner \o new
        /\ condition' = {} /\ status' = unblock(status, condition)
        /\ UNCHANGED <<wake, now, pc, room, received, pending, CONTEXT_ID, signalled>>
    BY <1>5 DEF send_from, notify, stay
  <2>2. sent \in Nat /\ k \in Nat
    BY <1>1 DEF TypeOK
  <2>3. new \in Seq(1 .. MaxSent)
    BY <2>1, <2>2
  <2>4. inner' \in Seq(1 .. MaxSent)
    BY <1>1, <2>1, <2>3, ConcatProperties DEF TypeOK
  <2> HIDE DEF new
  <2>5. /\ status' \in [Ids -> Status]
        /\ \A c \in Ids : \/ status'[c] = status[c] /\ (c \in condition => status[c] # "Blocked")
                          \/ c \in condition /\ status[c] = "Blocked" /\ status'[c] = "Runnable"
    BY <1>1, <2>1 DEF unblock, ContextTypeOK, Status
  <2>6. TypeOK'
    BY <1>1, <2>1, <2>2, <2>4, <2>5 DEF TypeOK, ContextTypeOK
  <2>7. KMAIN \in Ids /\ Contexts \subseteq Ids
    BY DEF Ids
  <2>8. WaitersListed'
    BY <1>1, <2>1, <2>5, <2>7 DEF WaitersListed
  <2>9. RunsRunnable'
    BY <1>1, <2>1, <2>5, <2>7 DEF ContextIInv, RunsRunnable, ContextTypeOK
  <2>10. SleepersTimed'
    BY <1>1, <2>1, <2>5, <2>7 DEF ContextIInv, SleepersTimed, WaitersListed
  <2> QED  BY <2>6, <2>8, <2>9, <2>10 DEF IInv
<1>6. CASE schedule /\ UNCHANGED queueVars
  <2>1. pc \in [Contexts -> Calls] /\ {"user", "sleep"} \subseteq Calls
    BY <1>1 DEF TypeOK, Calls
  <2> QED  BY <1>1, <1>6, <2>1, ScheduleKeeps, OthersKeep
<1>7. CASE UNCHANGED vars
  BY <1>1, <1>7 DEF IInv, TypeOK, ContextTypeOK, ContextIInv, WaitersListed, RunsRunnable,
     SleepersTimed, vars, contextVars, queueVars
<1> QED
  BY <1>2, <1>3, <1>4, <1>5, <1>6, <1>7 DEF Next

-----------------------------------------------------------------------------
(* The invariant holds in every reachable state.                           *)
THEOREM IInvHolds == Spec => []IInv
BY InitIInv, NextIInv, PTL DEF Spec

(* The variables of the scheduler and of the queue keep their types.       *)
THEOREM TypeCorrect == Spec => []TypeOK
<1>1. IInv => TypeOK
  BY DEF IInv
<1> QED  BY <1>1, IInvHolds, PTL

(* No wake-up of WaitCondition is ever lost: no context sleeps in          *)
(* receive() while the queue holds a value.                                *)
THEOREM WakeupsKept == Spec => []NoLostWakeup
<1>1. IInv => NoLostWakeup
  BY DEF IInv, WaitersListed, NoLostWakeup
<1> QED  BY <1>1, IInvHolds, PTL

(* nanosleep() only returns to the program when its time has passed,       *)
(* whatever queues the context waited on before.                           *)
THEOREM SleepsComplete == Spec => []SleepsFullTime
<1>1. IInv => SleepsFullTime
  BY DEF IInv, SleepersTimed, RunsRunnable, SleepsFullTime, At
<1> QED  BY <1>1, IInvHolds, PTL

(* switch() only runs runnable contexts.                                   *)
THEOREM CpuRunsRunnable == Spec => []RunsRunnable
<1>1. IInv => RunsRunnable
  BY DEF IInv
<1> QED  BY <1>1, IInvHolds, PTL

-----------------------------------------------------------------------------
(* The values received, followed by the values still in the queue, are the *)
(* values sent, in order.                                                  *)
QueueInv ==
    /\ Len(received) + Len(inner) = sent
    /\ \A i \in 1 .. Len(received) : received[i] = i
    /\ \A i \in 1 .. Len(inner) : inner[i] = Len(received) + i

(* Taking values from the front of the queue is a Receive of Fifo, or      *)
(* nothing if there is no value or no room, and keeps the order.           *)
LEMMA TakeFifo ==
    ASSUME TypeOK, QueueInv, NEW n \in 0 .. Len(inner), n <= MaxBuf,
           take(n), sent' = sent
    PROVE  QueueInv' /\ [ChannelSpec!Next]_<<sent, received>>
<1> DEFINE out == SubSeq(inner, 1, n)
<1> DEFINE rest == SubSeq(inner, n + 1, Len(inner))
<1>1. /\ inner \in Seq(1 .. MaxSent) /\ received \in Seq(1 .. MaxSent)
      /\ Len(inner) \in Nat /\ Len(received) \in Nat /\ sent \in Nat
  BY LenProperties DEF TypeOK
<1>2. /\ out \in Seq(1 .. MaxSent) /\ Len(out) = n
      /\ \A i \in 1 .. n : out[i] = inner[i]
      /\ rest \in Seq(1 .. MaxSent) /\ Len(rest) = Len(inner) - n
      /\ \A i \in 1 .. Len(inner) - n : rest[i] = inner[n + i]
  BY <1>1, SplitSeq, ZenonT(60)
<1>3. inner' = rest /\ received' = received \o out
  BY DEF take
<1> HIDE DEF out, rest
<1>4. /\ Len(received') = Len(received) + n
      /\ \A i \in 1 .. Len(received) + n :
            received'[i] = IF i <= Len(received) THEN received[i] ELSE out[i - Len(received)]
  <2>1. /\ Len(received \o out) = Len(received) + Len(out)
        /\ \A i \in 1 .. Len(received) + Len(out) :
             (received \o out)[i] = IF i <= Len(received) THEN received[i] ELSE out[i - Len(received)]
    BY <1>1, <1>2, ConcatProperties
  <2> QED  BY <1>2, <1>3, <2>1
<1>5. \A i \in 1 .. n : out[i] = Len(received) + i
  BY <1>1, <1>2 DEF QueueInv
<1>6. QueueInv'
  <2>1. Len(received') + Len(inner') = sent'
    <3>1. Len(inner') = Len(inner) - n /\ Len(received) + Len(inner) = sent
      BY <1>2, <1>3 DEF QueueInv
    <3> QED  BY <1>1, <1>4, <3>1
  <2>2. ASSUME NEW i \in 1 .. Len(received')  PROVE received'[i] = i
    <3>1. CASE i <= Len(received)
      BY <1>1, <1>4, <3>1 DEF QueueInv
    <3>2. CASE ~ (i <= Len(received))
      <4>1. i - Len(received) \in 1 .. n
        BY <1>1, <1>4, <3>2
      <4> QED  BY <1>1, <1>4, <1>5, <3>2, <4>1
    <3> QED  BY <3>1, <3>2
  <2>3. ASSUME NEW i \in 1 .. Len(inner')  PROVE inner'[i] = Len(received') + i
    <3>1. i \in 1 .. Len(inner) - n /\ n + i \in 1 .. Len(inner)
      BY <1>1, <1>2, <1>3
    <3>2. inner'[i] = inner[n + i]
      BY <1>2, <1>3, <3>1
    <3>3. inner[n + i] = Len(received) + (n + i)
      BY <3>1 DEF QueueInv
    <3> QED  BY <1>1, <1>4, <3>2, <3>3
  <2> QED  BY <2>1, <2>2, <2>3 DEF QueueInv
<1>7. CASE n = 0
  <2>1. out = <<>>
    BY <1>2, <1>7, EmptySeq
  <2>2. received' = received
    BY <1>1, <1>3, <2>1, ConcatEmptySeq
  <2> QED  BY <1>6, <2>2
<1>8. CASE n # 0
  <2>1. n \in 1 .. MaxBuf /\ Len(received) + n <= sent
    BY <1>1, <1>8, WaitQueueAssumption DEF QueueInv
  <2>2. out = [i \in 1 .. n |-> Len(received) + i]
    BY <1>1, <1>2, <1>5, LenProperties
  <2> QED  BY <1>3, <1>6, <2>1, <2>2 DEF ChannelSpec!Next, ChannelSpec!Receive
<1> QED  BY <1>7, <1>8

(* Every step keeps the order of the values and is a step of Fifo or none. *)
LEMMA NextFifo ==
    ASSUME IInv, QueueInv, [Next]_vars
    PROVE  QueueInv' /\ [ChannelSpec!Next]_<<sent, received>>
<1> USE ContextAssumption, WaitQueueAssumption
<1>1. TypeOK /\ Len(inner) \in Nat /\ Len(received) \in Nat /\ sent \in Nat
  BY LenProperties DEF IInv, TypeOK
<1>2. CASE UNCHANGED <<inner, sent, received>>
  BY <1>2 DEF QueueInv
<1>3. ASSUME NEW n \in 0 .. MaxBuf, take(Min({n, Len(inner)})), sent' = sent
      PROVE  QueueInv' /\ [ChannelSpec!Next]_<<sent, received>>
  <2>1. Min({n, Len(inner)}) \in 0 .. Len(inner) /\ Min({n, Len(inner)}) <= MaxBuf
    BY <1>1, TakeCount
  <2> QED  BY <1>1, <1>3, <2>1, TakeFifo
<1>4. ASSUME NEW c \in Contexts, NEW n \in 0 .. MaxBuf, receive(c, n)
      PROVE  QueueInv' /\ [ChannelSpec!Next]_<<sent, received>>
  BY <1>2, <1>3, <1>4 DEF receive
<1>5. ASSUME NEW c \in Contexts, NEW n \in 0 .. MaxBuf, NEW blocking \in BOOLEAN,
             receive_into(c, n, blocking)
      PROVE  QueueInv' /\ [ChannelSpec!Next]_<<sent, received>>
  BY <1>3, <1>4, <1>5 DEF receive_into
<1>6. ASSUME NEW c \in Contexts, receive_again(c)
      PROVE  QueueInv' /\ [ChannelSpec!Next]_<<sent, received>>
  BY <1>1, <1>4, <1>6 DEF receive_again, TypeOK
<1>7. ASSUME NEW k \in 1 .. MaxBuf, send_from(k)
      PROVE  QueueInv' /\ [ChannelSpec!Next]_<<sent, received>>
  <2> DEFINE new == [i \in 1 .. k |-> sent + i]
  <2>1. /\ sent + k <= MaxSent /\ sent' = sent + k /\ received' = received
        /\ inner' = inner \o new
    BY <1>7 DEF send_from
  <2>2. new \in Seq(1 .. MaxSent) /\ Len(new) = k /\ \A i \in 1 .. k : new[i] = sent + i
    BY <1>1, <2>1
  <2> HIDE DEF new
  <2>3. /\ Len(inner') = Len(inner) + k
        /\ \A i \in 1 .. Len(inner) + k :
              inner'[i] = IF i <= Len(inner) THEN inner[i] ELSE new[i - Len(inner)]
    <3>1. inner \in Seq(1 .. MaxSent)
      BY <1>1 DEF TypeOK
    <3> QED  BY <2>1, <2>2, <3>1, ConcatProperties, ZenonT(60)
  <2>4. Len(received') + Len(inner') = sent'
    <3>1. Len(received) + Len(inner) = sent /\ Len(received') = Len(received)
      BY <2>1 DEF QueueInv
    <3>2. sent' = sent + k /\ Len(inner') = Len(inner) + k
      BY <2>1, <2>3
    <3> QED  BY <1>1, <3>1, <3>2
  <2>5. ASSUME NEW i \in 1 .. Len(inner')  PROVE inner'[i] = Len(received') + i
    <3>1. CASE i <= Len(inner)
      BY <1>1, <2>1, <2>3, <3>1 DEF QueueInv
    <3>2. CASE ~ (i <= Len(inner))
      <4>1. i - Len(inner) \in 1 .. k
        BY <1>1, <2>3, <3>2
      <4>2. inner'[i] = sent + (i - Len(inner))
        BY <1>1, <2>2, <2>3, <3>2, <4>1
      <4>3. sent = Len(received) + Len(inner)
        BY <1>1 DEF QueueInv
      <4> QED  BY <1>1, <2>1, <4>2, <4>3
    <3> QED  BY <3>1, <3>2
  <2>6. QueueInv'
    BY <2>1, <2>4, <2>5 DEF QueueInv
  <2>7. ChannelSpec!Next
    BY <1>1, <2>1 DEF ChannelSpec!Next, ChannelSpec!Send
  <2> QED  BY <2>6, <2>7
<1>8. CASE UNCHANGED queueVars \/ UNCHANGED vars
  BY <1>2, <1>8 DEF queueVars, vars
<1> QED
  BY <1>5, <1>6, <1>7, <1>8 DEF Next

(* The WaitQueue delivers every value once and in order, whichever         *)
(* contexts receive and whichever of them are killed: it implements Fifo.  *)
THEOREM ImplementsFifo == Spec => FifoSpec
<1>1. Init => QueueInv
  BY DEF Init, QueueInv
<1>2. IInv /\ QueueInv /\ [Next]_vars => QueueInv' /\ [ChannelSpec!Next]_<<sent, received>>
  BY NextFifo
<1>3. Init => ChannelSpec!Init
  BY DEF Init, ChannelSpec!Init
<1> QED
  BY <1>1, <1>2, <1>3, IInvHolds, PTL
     DEF Spec, FifoSpec, ChannelSpec!Spec, ChannelSpec!fifoVars

-----------------------------------------------------------------------------
(* Induction over the naturals, for a set of them.                         *)
LEMMA SetInduction ==
    ASSUME NEW S, 0 \in S, \A n \in Nat : n \in S => n + 1 \in S
    PROVE  Nat \subseteq S
<1> DEFINE R == OpToRel(<, Nat)
           T == Nat \ S
<1>1. IsWellFoundedOn(R, Nat)
  BY NatLessThanWellFounded
<1>2. \A x, y \in Nat : y < x => <<y, x>> \in R
  BY DEF OpToRel
<1> HIDE DEF R
<1> SUFFICES ASSUME T # {}
             PROVE  FALSE
  OBVIOUS
<1>3. PICK m \in T : \A k \in T : ~ (<<k, m>> \in R)
  BY <1>1, WFMin
<1>4. m - 1 \in Nat /\ m - 1 < m /\ (m - 1) + 1 = m
  BY 0 \in S
<1>5. m - 1 \in S
  BY <1>2, <1>3, <1>4
<1> QED  BY <1>4, <1>5

(* Sets that f maps onto each other one to one have the same size.         *)
LEMMA SameSize ==
    ASSUME NEW S, NEW T, NEW f, IsFiniteSet(S), \A x \in S : f[x] \in T,
           \A x, y \in S : f[x] = f[y] => x = y, \A t \in T : \E x \in S : f[x] = t
    PROVE  IsFiniteSet(T) /\ Cardinality(T) = Cardinality(S)
<1> DEFINE g == [x \in S |-> f[x]]
<1>1. g \in [S -> T] /\ \A x, y \in S : g[x] = g[y] => x = y
  OBVIOUS
<1>2. \A t \in T : \E x \in S : g[x] = t
  OBVIOUS
<1> HIDE DEF g
<1>3. g \in Bijection(S, T)
  BY <1>1, <1>2 DEF Bijection, Injection, Surjection, IsInjective
<1>4. ExistsBijection(S, T)
  BY <1>3 DEF ExistsBijection
<1> QED  BY <1>4, FS_Bijection

(* A set of indexes of a sequence is finite.                               *)
LEMMA FiniteIndexes ==
    ASSUME NEW n \in Nat, NEW S \in SUBSET (1 .. n)
    PROVE  IsFiniteSet(S) /\ Cardinality(S) \in Nat
<1>1. IsFiniteSet(1 .. n)
  BY FS_Interval
<1>2. IsFiniteSet(S)
  BY <1>1, FS_Subset
<1> QED  BY <1>2, FS_CardinalityType

-----------------------------------------------------------------------------
(* VecDeque::swap_remove_back: the last entry takes the place i.           *)
LEMMA SwapRemove ==
    ASSUME NEW S, NEW q \in Seq(S), NEW i \in 1 .. Len(q)
    PROVE  LET r == swap_remove_back(q, i)
           IN  /\ r \in Seq(S) /\ Len(r) = Len(q) - 1
               /\ \A j \in 1 .. Len(q) - 1 : r[j] = q[IF j = i THEN Len(q) ELSE j]
<1> DEFINE n == Len(q)
           p == [q EXCEPT ![i] = q[n]]
<1>1. n \in Nat /\ n >= 1 /\ q \in [1 .. n -> S] /\ n - 1 \in 0 .. n
  BY LenProperties
<1>2. p \in [1 .. n -> S]
  BY <1>1
<1>3. p \in Seq(S) /\ Len(p) = n
  BY <1>1, <1>2
<1>4. \A j \in 1 .. n - 1 : p[j] = q[IF j = i THEN n ELSE j]
  BY <1>1
<1> HIDE DEF p, n
<1>5. n - 1 \in 0 .. Len(p)
  BY <1>1, <1>3
<1>6. /\ SubSeq(p, 1, n - 1) \in Seq(S) /\ Len(SubSeq(p, 1, n - 1)) = n - 1
      /\ \A j \in 1 .. n - 1 : SubSeq(p, 1, n - 1)[j] = p[j]
  BY <1>3, <1>5, SplitSeq
<1>7. swap_remove_back(q, i) = SubSeq(p, 1, n - 1)
  BY DEF swap_remove_back, p, n
<1> QED  BY <1>4, <1>6, <1>7 DEF n

(* The loop of FUTEX_WAKE, turn by turn.                                   *)
LEMMA TurnsSteps ==
    ASSUME NEW q, Len(q) \in Nat, NEW a, NEW n
    PROVE  LET f == turns(q, a, n)
           IN  /\ f[0] = [list |-> q, next |-> 1, woken |-> <<>>]
               /\ \A k \in 1 .. Len(q) : f[k] = turn(f[k - 1], a, n)
<1> DEFINE e == [list |-> q, next |-> 1, woken |-> <<>>]
           G(f, m) == [k \in 0 .. m |-> IF k = 0 THEN e ELSE turn(f[k - 1], a, n)]
           S == {m \in Nat : \E f : f = G(f, m)}
           N == Len(q)
           t == turns(q, a, n)
<1>4. t = CHOOSE f : f = G(f, N)
  BY DEF turns
<1> HIDE DEF e, N, t
<1>1. 0 \in S
  <2> DEFINE g == [k \in 0 .. 0 |-> e]
  <2>1. g = G(g, 0)
    OBVIOUS
  <2> QED  BY <2>1
<1>2. \A m \in Nat : m \in S => m + 1 \in S
  <2> SUFFICES ASSUME NEW m \in Nat, m \in S
               PROVE  m + 1 \in S
    OBVIOUS
  <2>1. PICK g : g = G(g, m)
    OBVIOUS
  <2> DEFINE h == [k \in 0 .. m + 1 |-> IF k = m + 1 THEN turn(g[m], a, n) ELSE g[k]]
  <2>2. \A k \in 0 .. m + 1 : h[k] = IF k = 0 THEN e ELSE turn(h[k - 1], a, n)
    <3> SUFFICES ASSUME NEW k \in 0 .. m + 1
                 PROVE  h[k] = IF k = 0 THEN e ELSE turn(h[k - 1], a, n)
      OBVIOUS
    <3>1. CASE k = m + 1
      <4>1. k # 0 /\ k - 1 = m /\ h[k - 1] = g[m]
        BY <3>1
      <4>2. h[k] = turn(g[m], a, n)
        BY <3>1
      <4> QED  BY <4>1, <4>2
    <3>2. CASE k # m + 1
      <4>1. k \in 0 .. m /\ h[k] = g[k]
        BY <3>2
      <4>2. g[k] = IF k = 0 THEN e ELSE turn(g[k - 1], a, n)
        BY <2>1, <4>1
      <4>3. k # 0 => k - 1 \in 0 .. m + 1 /\ k - 1 # m + 1 /\ h[k - 1] = g[k - 1]
        BY <4>1
      <4> QED  BY <4>1, <4>2, <4>3
    <3> QED  BY <3>1, <3>2
  <2>3. h = G(h, m + 1)
    BY <2>2
  <2>4. \E f : f = G(f, m + 1)
    BY <2>3
  <2>5. m + 1 \in Nat
    OBVIOUS
  <2> QED  BY ONLY <2>4, <2>5
<1>3. \E f : f = G(f, N)
  <2>1. Nat \subseteq S
    BY <1>1, <1>2, SetInduction
  <2> QED  BY <2>1 DEF N
<1>5. t = G(t, N)
  BY <1>3, <1>4
<1>6. \A k \in 0 .. N : t[k] = IF k = 0 THEN e ELSE turn(t[k - 1], a, n)
  BY <1>5
<1>7. t[0] = e
  BY <1>6 DEF N
<1>8. \A k \in 1 .. N : t[k] = turn(t[k - 1], a, n)
  BY <1>6 DEF N
<1> QED  BY <1>7, <1>8 DEF e, N, t

(* Where the entries of the loop's state s come from: the list and the     *)
(* contexts taken from it are the entries of q, each of them once, g and h *)
(* say which, and those taken have the address a.                          *)
Traced(q, a, s, g, h) ==
    /\ s.list \in Seq(Entry) /\ s.woken \in Seq(Contexts)
    /\ g \in [1 .. Len(s.list) -> 1 .. Len(q)]
    /\ h \in [1 .. Len(s.woken) -> 1 .. Len(q)]
    /\ \A i \in 1 .. Len(s.list) : s.list[i] = q[g[i]]
    /\ \A i \in 1 .. Len(s.woken) : q[h[i]] = <<a, s.woken[i]>>
    /\ \A i, j \in 1 .. Len(s.list) : g[i] = g[j] => i = j
    /\ \A i, j \in 1 .. Len(s.woken) : h[i] = h[j] => i = j
    /\ \A i \in 1 .. Len(s.list), j \in 1 .. Len(s.woken) : g[i] # h[j]
    /\ \A k \in 1 .. Len(q) : \/ \E i \in 1 .. Len(s.list) : g[i] = k
                              \/ \E i \in 1 .. Len(s.woken) : h[i] = k

(* A turn that takes an entry from the list.                               *)
Swapped(q, a, s, x, t) ==
    /\ Len(t.list) = Len(s.list) - 1 /\ Len(t.woken) = Len(s.woken) + 1
    /\ \A i \in 1 .. x - 1 : i \in 1 .. Len(t.list) /\ t.list[i] = s.list[i]
    /\ \E g1, h1 : Traced(q, a, t, g1, h1)

LEMMA TakingTraced ==
    ASSUME NEW q \in Seq(Entry), NEW a, NEW s, NEW g, NEW h, Traced(q, a, s, g, h),
           NEW x \in 1 .. Len(s.list), s.list[x][1] = a,
           NEW t, t.list = swap_remove_back(s.list, x), t.woken = Append(s.woken, s.list[x][2])
    PROVE  Swapped(q, a, s, x, t)
<1> DEFINE n == Len(s.list)
           m == Len(s.woken)
           K == 1 .. Len(q)
           g1 == [i \in 1 .. n - 1 |-> g[IF i = x THEN n ELSE i]]
           h1 == [i \in 1 .. m + 1 |-> IF i = m + 1 THEN g[x] ELSE h[i]]
<1>1. /\ s.list \in Seq(Entry) /\ s.woken \in Seq(Contexts)
      /\ g \in [1 .. n -> K] /\ h \in [1 .. m -> K]
      /\ \A i \in 1 .. n : s.list[i] = q[g[i]]
      /\ \A i \in 1 .. m : q[h[i]] = <<a, s.woken[i]>>
  BY DEF Traced
<1>2. /\ \A i, j \in 1 .. n : g[i] = g[j] => i = j
      /\ \A i, j \in 1 .. m : h[i] = h[j] => i = j
      /\ \A i \in 1 .. n, j \in 1 .. m : g[i] # h[j]
      /\ \A k \in K : (\E i \in 1 .. n : g[i] = k) \/ (\E i \in 1 .. m : h[i] = k)
  BY DEF Traced
<1>3. n \in Nat /\ m \in Nat /\ x \in 1 .. n /\ n >= 1 /\ s.list[x] \in Entry
  BY <1>1, LenProperties
<1>4. /\ t.list \in Seq(Entry) /\ Len(t.list) = n - 1
      /\ \A j \in 1 .. n - 1 : t.list[j] = s.list[IF j = x THEN n ELSE j]
  <2> DEFINE l == s.list
  <2>1. l \in Seq(Entry) /\ x \in 1 .. Len(l)
    BY <1>1
  <2> HIDE DEF l
  <2>2. LET p == swap_remove_back(l, x)
        IN  /\ p \in Seq(Entry) /\ Len(p) = Len(l) - 1
            /\ \A j \in 1 .. Len(l) - 1 : p[j] = l[IF j = x THEN Len(l) ELSE j]
    BY <2>1, SwapRemove
  <2> QED  BY <2>2 DEF l
<1>5. s.list[x] = <<a, s.list[x][2]>> /\ s.list[x][2] \in Contexts
  BY <1>3 DEF Entry
<1>6. /\ t.woken \in Seq(Contexts) /\ Len(t.woken) = m + 1
      /\ \A j \in 1 .. m : t.woken[j] = s.woken[j]
      /\ t.woken[m + 1] = s.list[x][2]
  BY <1>1, <1>5, AppendProperties
<1> HIDE DEF n, m, K
<1>7. \A i \in 1 .. n - 1 : (IF i = x THEN n ELSE i) \in 1 .. n /\ (IF i = x THEN n ELSE i) # x
  BY <1>3
<1>8. /\ g1 \in [1 .. n - 1 -> K]
      /\ \A i \in 1 .. n - 1 : g1[i] = g[IF i = x THEN n ELSE i]
  BY <1>1, <1>7
<1>9. \A i \in 1 .. m + 1 : i \in 1 .. m \/ i = m + 1
  BY <1>3
<1>10. m + 1 \in 1 .. m + 1 /\ \A i \in 1 .. m : i \in 1 .. m + 1 /\ i # m + 1
  BY <1>3
<1>11. /\ h1 \in [1 .. m + 1 -> K] /\ h1[m + 1] = g[x] /\ \A i \in 1 .. m : h1[i] = h[i]
  BY <1>1, <1>3, <1>9, <1>10
<1> HIDE DEF g1, h1
<1>12. \A i \in 1 .. n - 1 : t.list[i] = q[g1[i]]
  <2> SUFFICES ASSUME NEW i \in 1 .. n - 1
               PROVE  t.list[i] = q[g1[i]]
    OBVIOUS
  <2> DEFINE j == IF i = x THEN n ELSE i
  <2>1. j \in 1 .. n
    BY ONLY <1>7, i \in 1 .. n - 1
  <2>2. t.list[i] = s.list[j] /\ g1[i] = g[j]
    BY ONLY <1>4, <1>8, i \in 1 .. n - 1
  <2> HIDE DEF j
  <2>3. s.list[j] = q[g[j]]
    BY ONLY <1>1, <2>1
  <2> QED  BY ONLY <2>2, <2>3
<1>13. \A i \in 1 .. m + 1 : q[h1[i]] = <<a, t.woken[i]>>
  <2>1. q[h1[m + 1]] = <<a, t.woken[m + 1]>>
    BY <1>1, <1>3, <1>5, <1>6, <1>11
  <2>2. \A i \in 1 .. m : q[h1[i]] = <<a, t.woken[i]>>
    BY <1>1, <1>6, <1>11
  <2> QED  BY <1>9, <2>1, <2>2
<1>14. \A i, j \in 1 .. n - 1 : g1[i] = g1[j] => i = j
  <2> SUFFICES ASSUME NEW i \in 1 .. n - 1, NEW j \in 1 .. n - 1, g1[i] = g1[j]
               PROVE  i = j
    OBVIOUS
  <2>1. (IF i = x THEN n ELSE i) = (IF j = x THEN n ELSE j)
    BY <1>2, <1>7, <1>8
  <2> QED  BY <1>3, <2>1
<1>15. \A i, j \in 1 .. m + 1 : h1[i] = h1[j] => i = j
  <2> SUFFICES ASSUME NEW i \in 1 .. m + 1, NEW j \in 1 .. m + 1, h1[i] = h1[j]
               PROVE  i = j
    OBVIOUS
  <2>1. CASE i \in 1 .. m /\ j \in 1 .. m
    BY <1>2, <1>11, <2>1
  <2>2. CASE i \in 1 .. m /\ j = m + 1
    BY <1>2, <1>3, <1>11, <2>2
  <2>3. CASE i = m + 1 /\ j \in 1 .. m
    BY <1>2, <1>3, <1>11, <2>3
  <2> QED  BY <1>9, <2>1, <2>2, <2>3
<1>16. \A i \in 1 .. n - 1, j \in 1 .. m + 1 : g1[i] # h1[j]
  BY <1>2, <1>3, <1>7, <1>8, <1>9, <1>11
<1>17. ASSUME NEW k \in K
       PROVE  (\E i \in 1 .. n - 1 : g1[i] = k) \/ (\E i \in 1 .. m + 1 : h1[i] = k)
  <2>1. CASE \E i \in 1 .. m : h[i] = k
    BY <1>10, <1>11, <2>1
  <2>2. CASE \E i \in 1 .. n : g[i] = k
    <3>1. PICK i \in 1 .. n : g[i] = k
      BY <2>2
    <3>2. CASE i = x
      BY <1>10, <1>11, <3>1, <3>2
    <3>3. CASE i # x /\ i = n
      <4>1. x \in 1 .. n - 1
        BY <1>3, <3>3
      <4> QED  BY <1>8, <3>1, <3>3, <4>1
    <3>4. CASE i # x /\ i # n
      <4>1. i \in 1 .. n - 1
        BY <1>3, <3>4
      <4> QED  BY <1>8, <3>1, <3>4, <4>1
    <3> QED  BY <3>2, <3>3, <3>4
  <2> QED  BY <1>2, <2>1, <2>2
<1>18. Traced(q, a, t, g1, h1)
  <2>1. Len(t.list) = n - 1 /\ Len(t.woken) = m + 1
    BY ONLY <1>4, <1>6
  <2>2. /\ t.list \in Seq(Entry) /\ t.woken \in Seq(Contexts)
        /\ g1 \in [1 .. n - 1 -> K] /\ h1 \in [1 .. m + 1 -> K]
    BY ONLY <1>4, <1>6, <1>8, <1>11
  <2>3. \A k \in K : (\E i \in 1 .. n - 1 : g1[i] = k) \/ (\E i \in 1 .. m + 1 : h1[i] = k)
    BY ONLY <1>17
  <2> QED  BY ONLY <1>12, <1>13, <1>14, <1>15, <1>16, <2>1, <2>2, <2>3 DEF Traced, K
<1>19. \A i \in 1 .. x - 1 : i \in 1 .. n - 1 /\ t.list[i] = s.list[i]
  <2> SUFFICES ASSUME NEW i \in 1 .. x - 1
               PROVE  i \in 1 .. n - 1 /\ t.list[i] = s.list[i]
    OBVIOUS
  <2>1. i \in 1 .. n - 1 /\ i # x
    BY <1>3
  <2> QED  BY <1>4, <2>1
<1> QED  BY <1>4, <1>6, <1>18, <1>19 DEF n, m, Swapped

(* What holds of the loop after k turns: no entry before the index next    *)
(* has the address a, no more than n were taken, and it has ended or is    *)
(* one entry nearer to the end of the list for each turn.                  *)
Loop(q, a, n, s, k) ==
    /\ s = [list |-> s.list, next |-> s.next, woken |-> s.woken]
    /\ \E g, h : Traced(q, a, s, g, h)
    /\ s.next \in 1 .. Len(s.list) + 1
    /\ \A i \in 1 .. s.next - 1 : s.list[i][1] # a
    /\ Len(s.woken) <= n /\ Len(s.list) + Len(s.woken) = Len(q)
    /\ \/ s.next > Len(s.list)
       \/ Len(s.woken) >= n
       \/ Len(s.list) - s.next + 1 = Len(q) - k

LEMMA LoopStarts ==
    ASSUME NEW q \in Seq(Entry), NEW a, NEW n \in Nat
    PROVE  Loop(q, a, n, [list |-> q, next |-> 1, woken |-> <<>>], 0)
<1> DEFINE s == [list |-> q, next |-> 1, woken |-> <<>>]
           g == [i \in 1 .. Len(q) |-> i]
           h == [i \in 1 .. 0 |-> i]
<1>1. s.list = q /\ s.next = 1 /\ s.woken = <<>> /\ Len(s.woken) = 0 /\ s.woken \in Seq(Contexts)
  OBVIOUS
<1>2. Len(q) \in Nat
  BY LenProperties
<1> HIDE DEF s
<1>3. Traced(q, a, s, g, h)
  BY <1>1, <1>2 DEF Traced
<1>4. s = [list |-> s.list, next |-> s.next, woken |-> s.woken]
  BY <1>1 DEF s
<1>5. s.next \in 1 .. Len(s.list) + 1 /\ 1 .. s.next - 1 = {}
  BY <1>1, <1>2
<1>6. \E g1, h1 : Traced(q, a, s, g1, h1)
  BY <1>3
<1>7. Len(s.woken) <= n /\ Len(s.list) + Len(s.woken) = Len(q) /\ Len(s.list) - s.next + 1 = Len(q) - 0
  BY <1>1, <1>2
<1>8. Loop(q, a, n, s, 0)
  BY <1>4, <1>5, <1>6, <1>7 DEF Loop
<1> QED  BY <1>8 DEF s

LEMMA LoopTurns ==
    ASSUME NEW q \in Seq(Entry), NEW a, NEW n \in Nat, NEW s, NEW k \in Nat, Loop(q, a, n, s, k)
    PROVE  Loop(q, a, n, turn(s, a, n), k + 1)
<1>1. PICK g, h : Traced(q, a, s, g, h)
  BY DEF Loop
<1>2. /\ s.list \in Seq(Entry) /\ Len(s.list) \in Nat /\ Len(s.woken) \in Nat /\ Len(q) \in Nat
      /\ s.woken \in Seq(Contexts)
  BY <1>1, LenProperties DEF Traced
<1>3. /\ s.next \in 1 .. Len(s.list) + 1 /\ \A i \in 1 .. s.next - 1 : s.list[i][1] # a
      /\ Len(s.woken) <= n /\ Len(s.list) + Len(s.woken) = Len(q)
      /\ \/ s.next > Len(s.list) \/ Len(s.woken) >= n
         \/ Len(s.list) - s.next + 1 = Len(q) - k
      /\ s = [list |-> s.list, next |-> s.next, woken |-> s.woken]
  BY DEF Loop
<1>4. CASE s.next > Len(s.list) \/ Len(s.woken) >= n
  <2>1. turn(s, a, n) = s
    BY <1>4 DEF turn
  <2> QED  BY <1>1, <1>3, <1>4, <2>1 DEF Loop
<1>5. CASE ~(s.next > Len(s.list) \/ Len(s.woken) >= n) /\ s.list[s.next][1] # a
  <2> DEFINE t == [s EXCEPT !.next = @ + 1]
  <2>1. turn(s, a, n) = t
    BY <1>5 DEF turn
  <2>2. t.list = s.list /\ t.next = s.next + 1 /\ t.woken = s.woken
        /\ t = [list |-> t.list, next |-> t.next, woken |-> t.woken]
    BY <1>3
  <2> HIDE DEF t
  <2>3. Traced(q, a, t, g, h)
    BY <1>1, <2>2 DEF Traced
  <2>4. t.next \in 1 .. Len(t.list) + 1 /\ Len(t.list) - t.next + 1 = Len(q) - (k + 1)
    BY <1>2, <1>3, <1>5, <2>2
  <2>5. \A i \in 1 .. t.next - 1 : t.list[i][1] # a
    <3>1. \A i \in 1 .. t.next - 1 : i \in 1 .. s.next - 1 \/ i = s.next
      BY <1>2, <1>3, <2>2
    <3> QED  BY <1>3, <1>5, <2>2, <3>1
  <2>6. Len(t.woken) <= n /\ Len(t.list) + Len(t.woken) = Len(q)
    BY <1>3, <2>2
  <2>7. Loop(q, a, n, t, k + 1)
    BY <2>2, <2>3, <2>4, <2>5, <2>6 DEF Loop
  <2> QED  BY <2>1, <2>7
<1>6. CASE ~(s.next > Len(s.list) \/ Len(s.woken) >= n) /\ s.list[s.next][1] = a
  <2> DEFINE t == [list |-> swap_remove_back(s.list, s.next), next |-> s.next,
                   woken |-> Append(s.woken, s.list[s.next][2])]
  <2>1. turn(s, a, n) = t
    BY <1>6 DEF turn
  <2>2. /\ t.list = swap_remove_back(s.list, s.next) /\ t.next = s.next
        /\ t.woken = Append(s.woken, s.list[s.next][2])
        /\ t = [list |-> t.list, next |-> t.next, woken |-> t.woken]
    OBVIOUS
  <2> HIDE DEF t
  <2>3. s.next \in 1 .. Len(s.list)
    BY <1>2, <1>3, <1>6
  <2>4. /\ Len(t.list) = Len(s.list) - 1 /\ Len(t.woken) = Len(s.woken) + 1
        /\ \A i \in 1 .. s.next - 1 : i \in 1 .. Len(t.list) /\ t.list[i] = s.list[i]
        /\ \E g1, h1 : Traced(q, a, t, g1, h1)
    <3>1. Swapped(q, a, s, s.next, t)
      BY <1>1, <1>6, <2>2, <2>3, TakingTraced
    <3> QED  BY ONLY <3>1 DEF Swapped
  <2>5. t.next \in 1 .. Len(t.list) + 1 /\ Len(t.list) - t.next + 1 = Len(q) - (k + 1)
    <3> DEFINE l == Len(s.list)
               x == s.next
               w == Len(s.woken)
               b == Len(q)
    <3>1. /\ l \in Nat /\ w \in Nat /\ b \in Nat /\ x \in 1 .. l
          /\ x > l \/ w >= n \/ l - x + 1 = b - k
          /\ ~(x > l \/ w >= n)
      BY <1>2, <1>3, <1>6, <2>3
    <3>2. t.next = x /\ Len(t.list) = l - 1
      BY <2>2, <2>4
    <3> HIDE DEF l, x, w, b
    <3>3. x \in 1 .. (l - 1) + 1 /\ (l - 1) - x + 1 = b - (k + 1)
      BY <3>1
    <3> QED  BY <3>2, <3>3 DEF b
  <2>6. \A i \in 1 .. t.next - 1 : t.list[i][1] # a
    BY <1>3, <2>2, <2>4
  <2>7. Len(t.woken) <= n /\ Len(t.list) + Len(t.woken) = Len(q)
    <3> DEFINE l == Len(s.list)
               w == Len(s.woken)
    <3>1. l \in Nat /\ w \in Nat /\ w <= n /\ ~(w >= n) /\ l + w = Len(q)
      BY <1>2, <1>3, <1>6
    <3>2. Len(t.list) = l - 1 /\ Len(t.woken) = w + 1
      BY <2>4
    <3> HIDE DEF l, w
    <3>3. w + 1 <= n /\ (l - 1) + (w + 1) = l + w
      BY <3>1
    <3> QED  BY <3>1, <3>2, <3>3
  <2>8. Loop(q, a, n, t, k + 1)
    BY <2>2, <2>4, <2>5, <2>6, <2>7 DEF Loop
  <2> QED  BY <2>1, <2>8
<1> QED  BY <1>4, <1>5, <1>6

(* The loop of FUTEX_WAKE ends after as many turns as the list has         *)
(* entries: nothing in the list before next has the address a, and either  *)
(* the whole list was looked at or n entries were taken.                   *)
LEMMA LoopEnds ==
    ASSUME NEW q \in Seq(Entry), NEW a, NEW n \in Nat
    PROVE  LET s == wake_loop(q, a, n)
           IN  Loop(q, a, n, s, Len(q)) /\ (s.next > Len(s.list) \/ Len(s.woken) >= n)
<1> DEFINE f == turns(q, a, n)
           N == Len(q)
           S == {k \in Nat : k <= N => Loop(q, a, n, f[k], k)}
<1>1. N \in Nat
  BY LenProperties
<1>2. f[0] = [list |-> q, next |-> 1, woken |-> <<>>] /\ \A k \in 1 .. N : f[k] = turn(f[k - 1], a, n)
  BY <1>1, TurnsSteps
<1>3. wake_loop(q, a, n) = f[N]
  BY DEF wake_loop
<1> HIDE DEF f
<1>4. 0 \in S
  BY <1>2, LoopStarts
<1>5. ASSUME NEW k \in Nat, k \in S
      PROVE  k + 1 \in S
  <2>1. CASE k + 1 <= N
    <3>1. Loop(q, a, n, f[k], k) /\ k + 1 \in 1 .. N /\ (k + 1) - 1 = k
      BY <1>1, <1>5, <2>1
    <3>2. f[k + 1] = turn(f[k], a, n)
      BY <1>2, <3>1
    <3> QED  BY <3>1, <3>2, LoopTurns
  <2>2. CASE ~(k + 1 <= N)
    BY <2>2
  <2> QED  BY <2>1, <2>2
<1>6. N \in S
  BY <1>1, <1>4, <1>5, SetInduction
<1>7. Loop(q, a, n, f[N], N)
  BY <1>1, <1>6
<1>8. f[N].next > Len(f[N].list) \/ Len(f[N].woken) >= n
  <2>1. PICK g, h : Traced(q, a, f[N], g, h)
    BY <1>7 DEF Loop
  <2>2. Len(f[N].list) \in Nat
    BY <2>1, LenProperties DEF Traced
  <2>3. /\ f[N].next \in 1 .. Len(f[N].list) + 1
        /\ \/ f[N].next > Len(f[N].list)
           \/ Len(f[N].woken) >= n
           \/ Len(f[N].list) - f[N].next + 1 = N - N
    BY <1>7 DEF Loop
  <2> QED  BY <1>1, <2>2, <2>3
<1> QED  BY <1>3, <1>7, <1>8

-----------------------------------------------------------------------------
(* How many entries the loops take and move.                               *)
LEMMA MinTwo ==
    ASSUME NEW n \in Nat, NEW m \in Nat
    PROVE  Min({n, m}) = IF n <= m THEN n ELSE m
<1>1. {n, m} \in SUBSET Nat /\ {n, m} # {}
  OBVIOUS
<1>2. Min({n, m}) \in {n, m} /\ \A y \in {n, m} : Min({n, m}) <= y
  BY <1>1, MinNat
<1> QED  BY <1>2

LEMMA WaitersFinite ==
    ASSUME NEW q \in Seq(Entry), NEW a
    PROVE  /\ IsFiniteSet({i \in 1 .. Len(q) : q[i][1] = a})
           /\ waiters(q, a) = Cardinality({i \in 1 .. Len(q) : q[i][1] = a})
           /\ waiters(q, a) \in Nat
<1>1. Len(q) \in Nat /\ DOMAIN q = 1 .. Len(q)
  BY LenProperties
<1> QED  BY <1>1, FiniteIndexes DEF waiters

(* The loop loses no entry of another address.                             *)
LEMMA OthersKept ==
    ASSUME NEW q \in Seq(Entry), NEW a, NEW s, NEW g, NEW h, Traced(q, a, s, g, h), NEW b, b # a
    PROVE  waiters(s.list, b) = waiters(q, b)
<1> DEFINE l == s.list
           S == {i \in 1 .. Len(l) : l[i][1] = b}
           T == {i \in 1 .. Len(q) : q[i][1] = b}
<1>1. l \in Seq(Entry) /\ g \in [1 .. Len(l) -> 1 .. Len(q)]
  BY DEF Traced
<1>2. IsFiniteSet(S) /\ waiters(l, b) = Cardinality(S) /\ waiters(q, b) = Cardinality(T)
  BY <1>1, WaitersFinite
<1>3. \A x \in S : g[x] \in T
  BY <1>1 DEF Traced
<1>4. \A x, y \in S : g[x] = g[y] => x = y
  BY DEF Traced
<1>5. \A t \in T : \E x \in S : g[x] = t
  <2> SUFFICES ASSUME NEW t \in T
               PROVE  \E x \in S : g[x] = t
    OBVIOUS
  <2>1. ~ \E i \in 1 .. Len(s.woken) : h[i] = t
    BY DEF Traced
  <2>2. PICK i \in 1 .. Len(l) : g[i] = t
    BY <2>1 DEF Traced
  <2> QED  BY <2>2 DEF Traced
<1>6. Cardinality(T) = Cardinality(S)
  <2> HIDE DEF S, T
  <2> QED  BY <1>2, <1>3, <1>4, <1>5, SameSize
<1> QED  BY <1>2, <1>6

(* The entries of the address that left the list are those taken.          *)
LEMMA TakenCounted ==
    ASSUME NEW q \in Seq(Entry), NEW a, NEW s, NEW g, NEW h, Traced(q, a, s, g, h)
    PROVE  waiters(q, a) = waiters(s.list, a) + Len(s.woken)
<1> DEFINE l == s.list
           m == Len(s.woken)
           S == {i \in 1 .. Len(l) : l[i][1] = a}
           T == {i \in 1 .. Len(q) : q[i][1] = a}
           T1 == {g[i] : i \in S}
           T2 == {h[i] : i \in 1 .. m}
<1>1. /\ l \in Seq(Entry) /\ g \in [1 .. Len(l) -> 1 .. Len(q)]
      /\ s.woken \in Seq(Contexts) /\ h \in [1 .. m -> 1 .. Len(q)]
  BY DEF Traced
<1>2. /\ IsFiniteSet(S) /\ waiters(l, a) = Cardinality(S) /\ waiters(q, a) = Cardinality(T)
      /\ waiters(l, a) \in Nat
  BY <1>1, WaitersFinite
<1>3. m \in Nat
  BY <1>1, LenProperties
<1>4. IsFiniteSet(1 .. m) /\ Cardinality(1 .. m) = m
  <2>1. 1 \in Int /\ m \in Int
    BY <1>3
  <2>2. IsFiniteSet(1 .. m) /\ Cardinality(1 .. m) = IF 1 > m THEN 0 ELSE m - 1 + 1
    BY ONLY <2>1, FS_Interval
  <2> QED  BY <1>3, <2>2
<1>5. T = T1 \cup T2
  <2>1. T1 \subseteq T
    BY <1>1 DEF Traced
  <2>2. T2 \subseteq T
    <3>1. \A i \in 1 .. m : h[i] \in 1 .. Len(q) /\ q[h[i]] = <<a, s.woken[i]>>
      BY <1>1 DEF Traced
    <3>2. \A i \in 1 .. m : q[h[i]][1] = a
      BY <3>1
    <3> QED  BY <3>1, <3>2
  <2>3. ASSUME NEW t \in T
        PROVE  t \in T1 \cup T2
    <3>1. CASE \E i \in 1 .. m : h[i] = t
      BY <3>1
    <3>2. CASE \E i \in 1 .. Len(l) : g[i] = t
      <4>1. PICK i \in 1 .. Len(l) : g[i] = t
        BY <3>2
      <4>2. i \in S
        BY <4>1 DEF Traced
      <4> QED  BY <4>1, <4>2
    <3> QED  BY <3>1, <3>2 DEF Traced
  <2> QED  BY <2>1, <2>2, <2>3
<1>6. T1 \cap T2 = {}
  BY DEF Traced
<1>7. \A x, y \in S : g[x] = g[y] => x = y
  BY DEF Traced
<1>8. \A x, y \in 1 .. m : h[x] = h[y] => x = y
  BY DEF Traced
<1>9. \A x \in S : g[x] \in T1
  OBVIOUS
<1>10. \A t \in T1 : \E x \in S : g[x] = t
  OBVIOUS
<1>15. \A x \in 1 .. m : h[x] \in T2
  OBVIOUS
<1>16. \A t \in T2 : \E x \in 1 .. m : h[x] = t
  OBVIOUS
<1> HIDE DEF S, T, T1, T2, m, l
<1>11. IsFiniteSet(T1) /\ Cardinality(T1) = Cardinality(S)
  <2>1. IsFiniteSet(S)
    BY <1>2
  <2> QED  BY ONLY <2>1, <1>7, <1>9, <1>10, SameSize
<1>12. IsFiniteSet(T2) /\ Cardinality(T2) = m
  <2> DEFINE U == 1 .. m
  <2>1. /\ IsFiniteSet(U) /\ Cardinality(U) = m
        /\ \A x, y \in U : h[x] = h[y] => x = y
    BY <1>4, <1>8
  <2>2. \A x \in U : h[x] \in T2
    BY <1>15
  <2>3. \A t \in T2 : \E x \in U : h[x] = t
    BY <1>16
  <2> HIDE DEF U
  <2> QED  BY ONLY <2>1, <2>2, <2>3, SameSize
<1>13. Cardinality(T) = Cardinality(T1) + Cardinality(T2) - Cardinality({})
  BY <1>5, <1>6, <1>11, <1>12, FS_Union
<1>14. Cardinality(T) = Cardinality(S) + m
  BY <1>2, <1>3, <1>11, <1>12, <1>13, FS_EmptySet
<1> QED  BY <1>2, <1>14 DEF m, l

(* FUTEX_WAKE takes as many entries as it is asked for, if there are.      *)
LEMMA WakeCounts ==
    ASSUME NEW q \in Seq(Entry), NEW a, NEW n \in Nat
    PROVE  LET s == wake_loop(q, a, n)
           IN  /\ waiters(s.list, a) = waiters(q, a) - Min({n, waiters(q, a)})
               /\ Len(s.list) + Len(s.woken) = Len(q)
<1> DEFINE s == wake_loop(q, a, n)
           w == waiters(q, a)
           l == waiters(s.list, a)
           m == Len(s.woken)
<1>1. Loop(q, a, n, s, Len(q)) /\ (s.next > Len(s.list) \/ m >= n)
  BY LoopEnds
<1> HIDE DEF s
<1>2. PICK g, h : Traced(q, a, s, g, h)
  BY <1>1 DEF Loop
<1>3. s.list \in Seq(Entry) /\ m \in Nat /\ Len(s.list) \in Nat
  BY <1>2, LenProperties DEF Traced
<1>4. w = l + m /\ w \in Nat /\ l \in Nat
  BY <1>2, <1>3, TakenCounted, WaitersFinite
<1>5. m <= n /\ Len(s.list) + m = Len(q)
  BY <1>1 DEF Loop
<1>6. s.next > Len(s.list) => l = 0
  <2> SUFFICES ASSUME s.next > Len(s.list)
               PROVE  l = 0
    OBVIOUS
  <2>1. s.next \in 1 .. Len(s.list) + 1 /\ \A i \in 1 .. s.next - 1 : s.list[i][1] # a
    BY <1>1 DEF Loop
  <2>2. \A i \in 1 .. Len(s.list) : i \in 1 .. s.next - 1
    BY <1>3, <2>1
  <2>3. {i \in 1 .. Len(s.list) : s.list[i][1] = a} = {}
    BY <2>1, <2>2
  <2> QED  BY <1>3, <2>3, WaitersFinite, FS_EmptySet
<1>7. Min({n, w}) = IF n <= w THEN n ELSE w
  BY <1>4, MinTwo
<1>8. s.next > Len(s.list) \/ m >= n
  BY <1>1
<1> HIDE DEF w, l, m
<1>9. l = w - Min({n, w})
  BY <1>3, <1>4, <1>5, <1>6, <1>7, <1>8
<1> QED  BY <1>5, <1>9 DEF w, l, m, s

(* Of the indexes A of a list, m have fewer than m before them, if there   *)
(* are so many.                                                            *)
LEMMA FirstCounts ==
    ASSUME NEW N \in Nat, NEW A \in SUBSET (1 .. N), NEW m \in Nat
    PROVE  LET F == {j \in A : Cardinality({k \in A : k < j}) < m}
           IN  Cardinality(F) = IF m <= Cardinality(A) THEN m ELSE Cardinality(A)
<1> DEFINE c(j) == Cardinality({k \in A : k < j})
           B(t) == {j \in A : j <= t}
           F(t) == {j \in B(t) : c(j) < m}
           S == {t \in Nat : Cardinality(F(t)) = IF m <= Cardinality(B(t)) THEN m ELSE Cardinality(B(t))}
<1>n. \A j \in A : j \in Nat /\ 1 <= j /\ j <= N
  OBVIOUS
<1>1. \A t \in Nat : B(t) \subseteq 1 .. N /\ F(t) \subseteq 1 .. N
  OBVIOUS
<1>2. \A t \in Nat : IsFiniteSet(B(t)) /\ IsFiniteSet(F(t)) /\ Cardinality(B(t)) \in Nat /\ Cardinality(F(t)) \in Nat
  BY <1>1, FiniteIndexes
<1>3. 0 \in S
  <2>1. B(0) = {} /\ F(0) = {}
    <3>1. \A j \in A : ~(j <= 0)
      BY <1>n
    <3>2. B(0) = {}
      BY <3>1
    <3> QED  BY <3>2
  <2>2. Cardinality(B(0)) = 0 /\ Cardinality(F(0)) = 0
    BY <2>1, FS_EmptySet
  <2> QED  BY <2>2
<1>4. ASSUME NEW t \in Nat, t \in S
      PROVE  t + 1 \in S
  <2> DEFINE u == t + 1
  <2>1. CASE u \notin A
    <3>1. B(u) = B(t)
      <4>1. \A j \in A : j <= u <=> j <= t
        BY <1>n, <2>1
      <4> QED  BY <4>1
    <3>2. F(u) = F(t)
      BY <3>1
    <3> HIDE DEF B, F
    <3> QED  BY <1>4, <3>1, <3>2
  <2>2. CASE u \in A
    <3>1. B(u) = B(t) \cup {u} /\ u \notin B(t)
      <4>1. \A j \in A : j <= u <=> (j <= t \/ j = u)
        BY <1>n
      <4>2. u <= u /\ ~(u <= t)
        OBVIOUS
      <4> HIDE DEF u
      <4> QED  BY <2>2, <4>1, <4>2
    <3>2. {k \in A : k < u} = B(t)
      <4>1. \A j \in A : j < u <=> j <= t
        BY <1>n
      <4> QED  BY <4>1
    <3>3. c(u) = Cardinality(B(t))
      BY <3>2
    <3>4. F(u) = IF c(u) < m THEN F(t) \cup {u} ELSE F(t)
      <4> HIDE DEF c
      <4> QED  BY <2>2, <3>1
    <3>5. u \notin F(t)
      BY <3>1
    <3>6. Cardinality(B(u)) = Cardinality(B(t)) + 1
      BY <1>2, <3>1, FS_AddElement
    <3>7. Cardinality(F(t) \cup {u}) = Cardinality(F(t)) + 1
      BY <1>2, <3>5, FS_AddElement
    <3>8. Cardinality(F(t)) = IF m <= Cardinality(B(t)) THEN m ELSE Cardinality(B(t))
      BY <1>4
    <3>9. Cardinality(B(t)) \in Nat /\ Cardinality(F(t)) \in Nat
      <4> HIDE DEF B, F
      <4> QED  BY <1>2
    <3>12. u \in Nat
      OBVIOUS
    <3> HIDE DEF B, F, c
    <3>10. CASE Cardinality(B(t)) < m
      <4>1. Cardinality(F(u)) = Cardinality(F(t)) + 1
        BY <3>3, <3>4, <3>7, <3>10
      <4>2. Cardinality(F(u)) = IF m <= Cardinality(B(u)) THEN m ELSE Cardinality(B(u))
        <5> HIDE DEF u
        <5> QED  BY <3>6, <3>8, <3>9, <3>10, <4>1
      <4> QED  BY <3>12, <4>2
    <3>11. CASE ~(Cardinality(B(t)) < m)
      <4>1. F(u) = F(t)
        BY <3>3, <3>4, <3>11
      <4>2. Cardinality(F(u)) = IF m <= Cardinality(B(u)) THEN m ELSE Cardinality(B(u))
        <5> HIDE DEF u
        <5> QED  BY <3>6, <3>8, <3>9, <3>11, <4>1
      <4> QED  BY <3>12, <4>2
    <3> QED  BY <3>10, <3>11
  <2> QED  BY <2>1, <2>2
<1>5. N \in S
  BY <1>3, <1>4, SetInduction
<1>6. B(N) = A
  BY <1>n
<1>7. F(N) = {j \in A : Cardinality({k \in A : k < j}) < m}
  BY <1>6
<1> QED  BY <1>5, <1>6, <1>7

(* The second loop of FUTEX_REQUEUE moves as many entries as it is asked   *)
(* for, if there are, and changes nothing else.                            *)
Requeued(q, r, a, m, b) ==
    /\ r \in Seq(Entry) /\ Len(r) = Len(q)
    /\ \A j \in 1 .. Len(q) : r[j] = q[j] \/ r[j] = <<b, q[j][2]>>
    /\ waiters(r, a) = waiters(q, a) - Min({m, waiters(q, a)})
    /\ waiters(r, b) = waiters(q, b) + Min({m, waiters(q, a)})

LEMMA RequeueCounts ==
    ASSUME NEW q \in Seq(Entry), NEW a \in Addrs, NEW b \in Addrs \ {a}, NEW m \in Nat,
           NEW i \in 1 .. Len(q) + 1, \A k \in 1 .. i - 1 : q[k][1] # a
    PROVE  Requeued(q, requeue_loop(q, i, a, m, b), a, m, b)
<1> DEFINE N == Len(q)
           A == {j \in 1 .. N : q[j][1] = a}
           B == {j \in 1 .. N : q[j][1] = b}
           F == {j \in A : Cardinality({k \in A : k < j}) < m}
           r == requeue_loop(q, i, a, m, b)
<1>1. N \in Nat /\ DOMAIN q = 1 .. N /\ \A j \in 1 .. N : q[j] \in Entry
  BY LenProperties
<1>2. \A j \in A : j >= i
  BY <1>1
<1>3. \A j \in 1 .. N : {k \in i .. j - 1 : q[k][1] = a} = {k \in A : k < j}
  <2> SUFFICES ASSUME NEW j \in 1 .. N
               PROVE  {k \in i .. j - 1 : q[k][1] = a} = {k \in A : k < j}
    OBVIOUS
  <2>1. \A k \in i .. j - 1 : k \in 1 .. N /\ k < j
    BY <1>1
  <2>2. \A k \in A : k < j => k \in i .. j - 1
    BY <1>1, <1>2
  <2> QED  BY <2>1, <2>2
<1>4. r = [j \in 1 .. N |-> IF j >= i /\ q[j][1] = a /\ Cardinality({k \in i .. j - 1 : q[k][1] = a}) < m
                            THEN <<b, q[j][2]>> ELSE q[j]]
  BY <1>1 DEF requeue_loop
<1>5. \A j \in 1 .. N : r[j] = IF j \in F THEN <<b, q[j][2]>> ELSE q[j]
  <2> SUFFICES ASSUME NEW j \in 1 .. N
               PROVE  r[j] = IF j \in F THEN <<b, q[j][2]>> ELSE q[j]
    OBVIOUS
  <2>1. r[j] = IF j >= i /\ q[j][1] = a /\ Cardinality({k \in i .. j - 1 : q[k][1] = a}) < m
               THEN <<b, q[j][2]>> ELSE q[j]
    BY <1>4
  <2>2. Cardinality({k \in i .. j - 1 : q[k][1] = a}) = Cardinality({k \in A : k < j})
    BY <1>3
  <2>3. j \in F <=> j >= i /\ q[j][1] = a /\ Cardinality({k \in A : k < j}) < m
    BY <1>2
  <2> QED  BY <2>1, <2>2, <2>3
<1>6. DOMAIN r = 1 .. N
  BY <1>4
<1>7. F \subseteq A /\ A \subseteq 1 .. N /\ B \subseteq 1 .. N
  OBVIOUS
<1>8. Cardinality(F) = IF m <= Cardinality(A) THEN m ELSE Cardinality(A)
  <2> HIDE DEF A
  <2> QED  BY <1>1, <1>7, FirstCounts
<1>9. waiters(q, a) = Cardinality(A) /\ waiters(q, b) = Cardinality(B)
  BY WaitersFinite
<1> HIDE DEF F, N, r
<1>10. /\ IsFiniteSet(A) /\ IsFiniteSet(B) /\ IsFiniteSet(F)
       /\ Cardinality(A) \in Nat /\ Cardinality(B) \in Nat /\ Cardinality(F) \in Nat
  <2> HIDE DEF A, B
  <2>1. F \subseteq 1 .. N
    BY <1>7
  <2> QED  BY <1>1, <1>7, <2>1, FiniteIndexes
<1>11. Cardinality(F) = Min({m, waiters(q, a)})
  BY <1>8, <1>9, <1>10, MinTwo
<1>12. /\ r \in Seq(Entry) /\ Len(r) = N
  <2>1. \A j \in 1 .. N : r[j] \in Entry
    <3> SUFFICES ASSUME NEW j \in 1 .. N
                 PROVE  r[j] \in Entry
      OBVIOUS
    <3>1. q[j] \in Entry /\ <<b, q[j][2]>> \in Entry
      BY <1>1 DEF Entry
    <3> QED  BY <1>5, <3>1
  <2>2. r = [j \in 1 .. N |-> r[j]]
    BY <1>4, <1>6
  <2>3. r \in [1 .. N -> Entry]
    BY <2>1, <2>2
  <2> QED  BY <1>1, <2>3
<1>13. {j \in 1 .. Len(r) : r[j][1] = a} = A \ F
  BY <1>5, <1>7, <1>12
<1>14. {j \in 1 .. Len(r) : r[j][1] = b} = B \cup F
  <2>1. \A j \in 1 .. N : r[j][1] = b <=> j \in B \/ j \in F
    <3> SUFFICES ASSUME NEW j \in 1 .. N
                 PROVE  r[j][1] = b <=> j \in B \/ j \in F
      OBVIOUS
    <3>1. CASE j \in F
      <4>1. r[j] = <<b, q[j][2]>>
        BY <1>5, <3>1
      <4> QED  BY <3>1, <4>1
    <3>2. CASE j \notin F
      <4>1. r[j] = q[j]
        BY <1>5, <3>2
      <4> QED  BY <3>2, <4>1
    <3> QED  BY <3>1, <3>2
  <2>2. F \subseteq 1 .. N
    BY <1>7
  <2> QED  BY <1>7, <1>12, <2>1, <2>2
<1>15. Cardinality(A \ F) = Cardinality(A) - Cardinality(F)
  <2> DEFINE E == A \ F
  <2>1. IsFiniteSet(E) /\ Cardinality(E) \in Nat
    BY <1>1, <1>7, FiniteIndexes
  <2>2. E \cup F = A /\ E \cap F = {}
    BY <1>7
  <2> HIDE DEF E, A
  <2>3. Cardinality(E \cup F) = Cardinality(E) + Cardinality(F) - Cardinality(E \cap F)
    BY <1>10, <2>1, FS_Union
  <2>4. Cardinality(A) = Cardinality(E) + Cardinality(F)
    <3>1. Cardinality(E \cap F) = 0
      BY <2>2, FS_EmptySet, Zenon
    <3>2. Cardinality(E \cup F) = Cardinality(A)
      BY <2>2, Zenon
    <3> QED  BY <1>10, <2>1, <2>3, <3>1, <3>2
  <2>5. Cardinality(E) = Cardinality(A) - Cardinality(F)
    BY <1>10, <2>1, <2>4
  <2> QED  BY <2>5 DEF E
<1>16. Cardinality(B \cup F) = Cardinality(B) + Cardinality(F)
  <2>1. B \cap F = {}
    BY <1>7
  <2> HIDE DEF A, B
  <2>2. Cardinality(B \cup F) = Cardinality(B) + Cardinality(F) - Cardinality(B \cap F)
    BY <1>10, FS_Union
  <2>3. Cardinality(B \cap F) = 0
    BY <2>1, FS_EmptySet, Zenon
  <2> QED  BY <1>10, <2>2, <2>3
<1>17. waiters(r, a) = Cardinality(A \ F) /\ waiters(r, b) = Cardinality(B \cup F)
  <2>1. /\ waiters(r, a) = Cardinality({j \in 1 .. Len(r) : r[j][1] = a})
        /\ waiters(r, b) = Cardinality({j \in 1 .. Len(r) : r[j][1] = b})
    BY <1>12, WaitersFinite
  <2> QED  BY <1>13, <1>14, <2>1
<1>18. /\ waiters(r, a) = waiters(q, a) - Min({m, waiters(q, a)})
       /\ waiters(r, b) = waiters(q, b) + Min({m, waiters(q, a)})
  <2> HIDE DEF A, B
  <2> QED  BY <1>9, <1>11, <1>15, <1>16, <1>17
<1>19. \A j \in 1 .. N : r[j] = q[j] \/ r[j] = <<b, q[j][2]>>
  BY <1>5
<1> QED  BY <1>12, <1>18, <1>19 DEF r, N, Requeued

(* FUTEX_WAKE and FUTEX_REQUEUE take what they are asked for, from any     *)
(* list.                                                                   *)
LEMMA WakeTakesAlways ==
    ASSUME FutexTypeOK
    PROVE  WakeTakes
<1> SUFFICES ASSUME NEW a \in Addrs, NEW n \in 0 .. MaxEntries
             PROVE  LET done == wake_loop(futexes, a, n)
                        left == waiters(futexes, a) - Min({n, waiters(futexes, a)})
                    IN  /\ waiters(done.list, a) = left
                        /\ Len(done.list) + Len(done.woken) = Len(futexes)
                        /\ \A m \in 0 .. MaxEntries, b \in Addrs \ {a} :
                              LET list == requeue_loop(done.list, done.next, a, m, b)
                              IN  /\ waiters(list, a) = left - Min({m, left})
                                  /\ waiters(list, b) = waiters(futexes, b) + Min({m, left})
  BY DEF WakeTakes
<1> DEFINE s == wake_loop(futexes, a, n)
           left == waiters(futexes, a) - Min({n, waiters(futexes, a)})
<1>1. futexes \in Seq(Entry) /\ n \in Nat /\ MaxEntries \in Nat
  BY FutexAssumption DEF FutexTypeOK
<1>2. /\ waiters(s.list, a) = left
      /\ Len(s.list) + Len(s.woken) = Len(futexes)
  <2>1. waiters(wake_loop(futexes, a, n).list, a) = waiters(futexes, a) - Min({n, waiters(futexes, a)})
    BY <1>1, WakeCounts
  <2>2. Len(wake_loop(futexes, a, n).list) + Len(wake_loop(futexes, a, n).woken) = Len(futexes)
    BY <1>1, WakeCounts
  <2> QED  BY <2>1, <2>2
<1>3. Loop(futexes, a, n, s, Len(futexes))
  BY <1>1, LoopEnds
<1> HIDE DEF s, left
<1>4. /\ s.list \in Seq(Entry) /\ s.next \in 1 .. Len(s.list) + 1
      /\ \A k \in 1 .. s.next - 1 : s.list[k][1] # a
  BY <1>3 DEF Loop, Traced
<1>5. ASSUME NEW m \in 0 .. MaxEntries, NEW b \in Addrs \ {a}
      PROVE  LET list == requeue_loop(s.list, s.next, a, m, b)
             IN  /\ waiters(list, a) = left - Min({m, left})
                 /\ waiters(list, b) = waiters(futexes, b) + Min({m, left})
  <2> DEFINE l == s.list
             x == s.next
             list == requeue_loop(l, x, a, m, b)
  <2>1. m \in Nat /\ l \in Seq(Entry) /\ x \in 1 .. Len(l) + 1 /\ \A k \in 1 .. x - 1 : l[k][1] # a
    BY <1>1, <1>4
  <2>2. waiters(l, a) = left /\ waiters(l, b) = waiters(futexes, b)
    <3>1. PICK g, h : Traced(futexes, a, s, g, h)
      BY <1>3 DEF Loop
    <3> QED  BY <1>1, <1>2, <3>1, OthersKept
  <2> HIDE DEF l, x
  <2>3. /\ waiters(list, a) = waiters(l, a) - Min({m, waiters(l, a)})
        /\ waiters(list, b) = waiters(l, b) + Min({m, waiters(l, a)})
    <3>1. Requeued(l, list, a, m, b)
      BY ONLY <2>1, a \in Addrs, b \in Addrs \ {a}, RequeueCounts
    <3> QED  BY ONLY <3>1 DEF Requeued
  <2> QED  BY <2>2, <2>3 DEF l, x
<1> QED  BY <1>2, <1>5 DEF s, left

-----------------------------------------------------------------------------
(* What the loop of FUTEX_WAKE does to the list FUTEXES: it keeps an entry *)
(* or takes it, and takes all of the address if it may take so many.       *)
Woken(s) == {s.woken[i] : i \in DOMAIN s.woken}

Takes(q, a, n, s) ==
    /\ s.list \in Seq(Entry) /\ Len(s.list) <= MaxEntries /\ Woken(s) \subseteq Contexts
    /\ s.next \in 1 .. Len(s.list) + 1 /\ \A i \in 1 .. s.next - 1 : s.list[i][1] # a
    /\ \A k \in DOMAIN q :
          \/ \E i \in DOMAIN s.list : s.list[i] = q[k]
          \/ q[k][2] \in Woken(s)
    /\ \A i \in DOMAIN s.list : \E k \in DOMAIN q : s.list[i] = q[k]
    /\ \A x : (\A k, m \in DOMAIN q : q[k][2] = x /\ q[m][2] = x => k = m) =>
          \A i \in DOMAIN s.list : s.list[i][2] = x =>
             x \notin Woken(s) /\ \A j \in DOMAIN s.list : s.list[j][2] = x => i = j
    /\ n >= Len(q) => \A i \in DOMAIN s.list : s.list[i][1] # a

LEMMA WakeEffect ==
    ASSUME FutexTypeOK, NEW a \in Addrs, NEW n \in 0 .. MaxEntries
    PROVE  Takes(futexes, a, n, wake_loop(futexes, a, n))
<1> DEFINE s == wake_loop(futexes, a, n)
<1>1. futexes \in Seq(Entry) /\ n \in Nat /\ Len(futexes) <= MaxEntries /\ MaxEntries \in Nat
  BY FutexAssumption DEF FutexTypeOK
<1>2. Loop(futexes, a, n, s, Len(futexes)) /\ (s.next > Len(s.list) \/ Len(s.woken) >= n)
  BY <1>1, LoopEnds
<1> HIDE DEF s
<1>3. PICK g, h : Traced(futexes, a, s, g, h)
  BY <1>2 DEF Loop
<1>4. /\ s.next \in 1 .. Len(s.list) + 1 /\ \A i \in 1 .. s.next - 1 : s.list[i][1] # a
      /\ Len(s.list) + Len(s.woken) = Len(futexes)
  BY <1>2 DEF Loop
<1>5. /\ s.list \in Seq(Entry) /\ DOMAIN s.list = 1 .. Len(s.list) /\ Len(s.list) \in Nat
      /\ s.woken \in Seq(Contexts) /\ DOMAIN s.woken = 1 .. Len(s.woken) /\ Len(s.woken) \in Nat
      /\ DOMAIN futexes = 1 .. Len(futexes) /\ Len(futexes) \in Nat
      /\ \A i \in 1 .. Len(s.woken) : s.woken[i] \in Contexts
  BY <1>1, <1>3, LenProperties DEF Traced
<1>6. Woken(s) \subseteq Contexts
  BY <1>5 DEF Woken
<1>7. Len(s.list) <= MaxEntries
  <2> DEFINE l == Len(s.list)
             w == Len(s.woken)
  <2>1. l \in Nat /\ w \in Nat /\ l + w = Len(futexes)
    BY <1>4, <1>5
  <2> HIDE DEF l, w
  <2>2. l <= MaxEntries
    BY <1>1, <2>1
  <2> QED  BY <2>2 DEF l
<1>8. ASSUME NEW k \in DOMAIN futexes
      PROVE  \/ \E i \in DOMAIN s.list : s.list[i] = futexes[k]
             \/ futexes[k][2] \in Woken(s)
  <2>1. CASE \E i \in 1 .. Len(s.list) : g[i] = k
    BY <1>3, <1>5, <2>1 DEF Traced
  <2>2. CASE \E i \in 1 .. Len(s.woken) : h[i] = k
    <3>1. PICK i \in 1 .. Len(s.woken) : h[i] = k
      BY <2>2
    <3>2. futexes[k] = <<a, s.woken[i]>>
      BY <1>3, <3>1 DEF Traced
    <3> QED  BY <1>5, <3>2 DEF Woken
  <2> QED  BY <1>3, <1>5, <2>1, <2>2 DEF Traced
<1>9. \A i \in DOMAIN s.list : g[i] \in DOMAIN futexes /\ s.list[i] = futexes[g[i]]
  BY <1>3, <1>5 DEF Traced
<1>10. ASSUME NEW x, \A k, m \in DOMAIN futexes : futexes[k][2] = x /\ futexes[m][2] = x => k = m,
              NEW i \in DOMAIN s.list, s.list[i][2] = x
       PROVE  x \notin Woken(s) /\ \A j \in DOMAIN s.list : s.list[j][2] = x => i = j
  <2>1. ASSUME NEW j \in DOMAIN s.list, s.list[j][2] = x
        PROVE  i = j
    <3>1. g[i] = g[j]
      BY <1>9, <1>10, <2>1
    <3> QED  BY <1>3, <1>5, <3>1 DEF Traced
  <2>2. ASSUME x \in Woken(s)
        PROVE  FALSE
    <3>1. PICK j \in 1 .. Len(s.woken) : s.woken[j] = x
      BY <1>5, <2>2 DEF Woken
    <3>2. h[j] \in DOMAIN futexes /\ futexes[h[j]] = <<a, x>>
      BY <1>3, <1>5, <3>1 DEF Traced
    <3>3. futexes[h[j]][2] = x
      BY <3>2
    <3>4. h[j] = g[i]
      BY <1>9, <1>10, <3>2, <3>3
    <3> QED  BY <1>3, <1>5, <3>4 DEF Traced
  <2> QED  BY <2>1, <2>2
<1>11. ASSUME n >= Len(futexes), NEW i \in DOMAIN s.list
       PROVE  s.list[i][1] # a
  <2> DEFINE l == Len(s.list)
             w == Len(s.woken)
             x == s.next
             b == Len(futexes)
  <2>1. /\ l \in Nat /\ w \in Nat /\ b \in Nat /\ i \in 1 .. l /\ x \in 1 .. l + 1
        /\ l + w = b /\ n >= b /\ (x > l \/ w >= n)
    BY <1>2, <1>4, <1>5, <1>11
  <2> HIDE DEF l, w, x, b
  <2>2. i \in 1 .. x - 1
    BY <1>1, <2>1
  <2> QED  BY <1>4, <2>2 DEF x
<1>12. \A i \in DOMAIN s.list : \E k \in DOMAIN futexes : s.list[i] = futexes[k]
  BY <1>9
<1>13. Takes(futexes, a, n, s)
  BY <1>4, <1>5, <1>6, <1>7, <1>8, <1>10, <1>11, <1>12 DEF Takes
<1> QED  BY <1>13 DEF s

-----------------------------------------------------------------------------
(* A context whose entry may be stale: it has slept before, or a signal    *)
(* has taken it out of its wait.  It stays so.                             *)
Excused(x) == wake[x] # None \/ x \in signalled \/ status[x] = "Exited"

(* What a step does to the excuse of x, and when it may wake x.            *)
Excusable(x) ==
    /\ Excused(x) => Excused(x)'
    /\ status[x] = "Blocked" => status'[x] = "Blocked" \/ Excused(x)'

LEMMA SwitchExcuses ==
    ASSUME ContextTypeOK, RunsRunnable, NEW c \in Ids, CONTEXT_ID = c, NEW st \in [Ids -> Status],
           \A x \in Ids \ {c} : st[x] = status[x], switch(st, c),
           c \notin signalled \/ st[c] = "Exited",
           \A x \in Contexts : wake[x] # None => wake'[x] # None
    PROVE  \A x \in Contexts : Excusable(x)
<1> SUFFICES ASSUME NEW x \in Contexts
             PROVE  Excusable(x)
  OBVIOUS
<1>1. x \in Ids
  BY DEF Ids
<1>2. /\ signalled \ {c} \subseteq signalled' /\ status'[c] = st[c]
      /\ \/ status'[x] = st[x]
         \/ st[x] = "Blocked" /\ status'[x] = "Runnable" /\ (x \in signalled' \/ Expired(x))
  BY <1>1, SwitchEffect
<1>3. status[c] = "Runnable"
  BY DEF RunsRunnable
<1>4. CASE x = c
  BY <1>2, <1>3, <1>4 DEF Excusable, Excused
<1>5. CASE x # c
  BY <1>1, <1>2, <1>5 DEF Excusable, Excused, Expired
<1> QED  BY <1>4, <1>5

LEMMA ScheduleExcuses ==
    ASSUME ContextTypeOK, RunsRunnable, schedule
    PROVE  \A x \in Contexts : Excusable(x)
<1> USE ContextAssumption
<1>k. KMAIN \in Ids /\ Contexts \subseteq Ids /\ status \in [Ids -> Status]
  BY DEF Ids, ContextTypeOK
<1>1. CASE kmain
  BY <1>k, <1>1, SwitchExcuses DEF kmain
<1>2. CASE pit
  BY <1>2 DEF pit, Excusable, Excused
<1>3. ASSUME NEW pid \in KillTargets, kill(pid)
      PROVE  \A x \in Contexts : Excusable(x)
  BY <1>3 DEF kill, Excusable, Excused
<1>4. ASSUME NEW c \in Contexts, NEW d \in Delays, nanosleep(c, d)
      PROVE  \A x \in Contexts : Excusable(x)
  <2> DEFINE st == block(status, c)
  <2>1. /\ CONTEXT_ID = c /\ c \in Ids /\ c \notin signalled /\ switch(st, c)
        /\ wake' = [wake EXCEPT ![c] = now + d]
    BY <1>k, <1>4 DEF nanosleep, At
  <2>2. st \in [Ids -> Status] /\ \A x \in Ids \ {c} : st[x] = status[x]
    BY <1>k DEF block, Status
  <2>3. now + d \in Nat
    BY DEF ContextTypeOK, Time
  <2>4. \A x \in Contexts : wake[x] # None => wake'[x] # None
    BY <1>k, <2>1, <2>3 DEF ContextTypeOK
  <2> HIDE DEF st
  <2> QED  BY <2>1, <2>2, <2>4, SwitchExcuses
<1>5. ASSUME NEW c \in Contexts, nanosleep_return(c)
      PROVE  \A x \in Contexts : Excusable(x)
  BY <1>5 DEF nanosleep_return, Excusable, Excused
<1>6. ASSUME NEW c \in Contexts, sched_yield(c)
      PROVE  \A x \in Contexts : Excusable(x)
  BY <1>k, <1>6, SwitchExcuses DEF sched_yield, At
<1> QED  BY <1>1, <1>2, <1>3, <1>4, <1>5, <1>6 DEF schedule

-----------------------------------------------------------------------------
(* The inductive invariant.  EntriesWait, context by context.              *)
Waits(x) ==
    \/ Excused(x)
    \/ \A i \in DOMAIN futexes : futexes[i][2] = x =>
          /\ pc[x] = "futex" /\ status[x] = "Blocked"
          /\ \A j \in DOMAIN futexes : futexes[j][2] = x => i = j

LEMMA ByContext == FutexTypeOK => (EntriesWait <=> \A x \in Contexts : Waits(x))
<1> SUFFICES ASSUME FutexTypeOK
             PROVE  EntriesWait <=> \A x \in Contexts : Waits(x)
  OBVIOUS
<1>1. \A i \in DOMAIN futexes : futexes[i][2] \in Contexts
  BY LenProperties DEF FutexTypeOK, Entry
<1> QED  BY <1>1 DEF EntriesWait, Waits, Excused

LEMMA ByContextNext == ASSUME FutexTypeOK', \A x \in Contexts : Waits(x)'  PROVE EntriesWait'
<1>1. \A i \in DOMAIN futexes' : futexes'[i][2] \in Contexts
  BY LenProperties DEF FutexTypeOK, Entry
<1> QED  BY <1>1 DEF EntriesWait, Waits, Excused

LEMMA FutexStarts == FutexInit => FutexIInv
<1> SUFFICES ASSUME FutexInit
             PROVE  FutexIInv
  OBVIOUS
<1>1. ContextIInv
  BY ContextInitial DEF FutexInit
<1>2. FutexTypeOK
  BY <1>1, FutexAssumption DEF FutexInit, ContextInit, ContextIInv, FutexTypeOK
<1>3. WaitersQueued /\ FutexContract /\ EntriesWait
  BY DEF FutexInit, ContextInit, WaitersQueued, FutexContract, EntriesWait
<1> QED  BY <1>1, <1>2, <1>3 DEF FutexIInv, ContextIInv

(* A step of the scheduler, or of a signal handler, keeps it.              *)
LEMMA ElsewhereKeeps ==
    ASSUME FutexIInv, ContextTypeOK', RunsRunnable', UNCHANGED listVars,
           pc' \in [Contexts -> {"user", "sleep", "futex"}],
           \A x \in Contexts :
              /\ \/ Undisturbed(x)
                 \/ status[x] = "Runnable" /\ {pc[x], pc'[x]} \subseteq {"user", "sleep"}
              /\ Excusable(x)
    PROVE  FutexIInv'
<1>1. FutexTypeOK'
  BY DEF FutexIInv, FutexTypeOK, listVars
<1>2. ASSUME NEW x \in Contexts, pc'[x] = "futex", status'[x] = "Blocked"
      PROVE  pc[x] = "futex" /\ status[x] = "Blocked"
  BY <1>2 DEF Undisturbed
<1>3. WaitersQueued'
  BY <1>2 DEF FutexIInv, WaitersQueued, listVars
<1>4. FutexContract'
  BY <1>2 DEF FutexIInv, FutexContract, listVars
<1>5. ASSUME NEW x \in Contexts
      PROVE  Waits(x)'
  <2>1. Waits(x)
    BY ByContext DEF FutexIInv
  <2>2. Excusable(x) /\ (pc[x] = "futex" => pc'[x] = "futex")
    BY DEF Undisturbed
  <2> QED  BY <2>1, <2>2 DEF Waits, Excusable, listVars
<1>6. EntriesWait'
  BY <1>1, <1>5, ByContextNext
<1> QED  BY <1>1, <1>3, <1>4, <1>6 DEF FutexIInv

(* An entry is appended.                                                   *)
LEMMA AppendedEntry ==
    ASSUME NEW q \in Seq(Entry), NEW e \in Entry
    PROVE  /\ Append(q, e) \in Seq(Entry) /\ Len(Append(q, e)) = Len(q) + 1 /\ Append(q, e)[Len(q) + 1] = e
           /\ \A i \in 1 .. Len(q) : Append(q, e)[i] = q[i]
  BY AppendProperties

(* FUTEX_WAIT puts the caller to sleep with an entry of its own.           *)
LEMMA WaitKeeps ==
    ASSUME FutexIInv, NEW c \in Contexts, NEW a \in Addrs, NEW v \in Values, FUTEX_WAIT(c, a, v)
    PROVE  FutexIInv'
<1> DEFINE st == block(status, c)
           q == Append(futexes, <<a, c>>)
<1>1. /\ CONTEXT_ID = c /\ c \notin signalled /\ pc[c] = "user" /\ Len(futexes) < MaxEntries
      /\ word[a] = v /\ futexes' = q /\ waits' = [waits EXCEPT ![c] = <<a, v>>]
      /\ switch(st, c) /\ pc' = [pc EXCEPT ![c] = "futex"]
      /\ UNCHANGED <<wake, now, word, dirty>>
  BY DEF FUTEX_WAIT, At, goto, changed
<1>2. /\ ContextTypeOK /\ RunsRunnable /\ WaitersQueued /\ FutexContract /\ EntriesWait
      /\ futexes \in Seq(Entry) /\ Len(futexes) <= MaxEntries /\ Len(futexes) \in Nat
      /\ pc \in [Contexts -> {"user", "sleep", "futex"}]
      /\ waits \in [Contexts -> (Addrs \X Values) \cup {None}]
      /\ word \in [Addrs -> Values] /\ dirty \in SUBSET Addrs /\ MaxEntries \in Nat
  BY LenProperties, FutexAssumption DEF FutexIInv, FutexTypeOK
<1>3. c \in Ids /\ c # KMAIN /\ KMAIN \in Ids /\ Contexts \subseteq Ids
  BY ContextAssumption DEF Ids
<1>4. /\ st \in [Ids -> Status] /\ st[KMAIN] = "Runnable" /\ st[c] = "Blocked" /\ status[c] = "Runnable"
      /\ \A x \in Ids \ {c} : st[x] = status[x]
  BY <1>1, <1>2, <1>3 DEF block, ContextTypeOK, RunsRunnable, Status
<1> HIDE DEF st, q
<1>5. \A x \in Contexts \ {c} : pc'[x] = pc[x] /\ waits'[x] = waits[x]
  BY <1>1, <1>2
<1>6. ContextTypeOK' /\ RunsRunnable' /\ status'[c] = "Blocked" /\ \A x \in Contexts \ {c} : Undisturbed(x)
  BY <1>1, <1>2, <1>3, <1>4, <1>5, SwitchMoves
<1>7. \A x \in Contexts : Excusable(x)
  BY <1>1, <1>2, <1>3, <1>4, SwitchExcuses
<1>8. <<a, c>> \in Entry
  BY DEF Entry
<1>9. /\ q \in Seq(Entry) /\ Len(q) = Len(futexes) + 1 /\ q[Len(futexes) + 1] = <<a, c>>
      /\ \A i \in 1 .. Len(futexes) : q[i] = futexes[i]
  <2>1. futexes \in Seq(Entry)
    BY ONLY <1>2
  <2> QED  BY ONLY <1>8, <2>1, AppendedEntry DEF q
<1>10. /\ DOMAIN q = 1 .. Len(futexes) + 1 /\ DOMAIN futexes = 1 .. Len(futexes)
       /\ \A i \in DOMAIN q : i \in DOMAIN futexes \/ i = Len(futexes) + 1
       /\ \A i \in DOMAIN futexes : i \in DOMAIN q /\ q[i] = futexes[i]
       /\ Len(futexes) + 1 \in DOMAIN q
  <2> DEFINE k == Len(futexes)
  <2>1. DOMAIN q = 1 .. k + 1 /\ DOMAIN futexes = 1 .. k /\ k \in Nat
    BY ONLY <1>2, <1>9, LenProperties
  <2>2. \A i \in 1 .. k : q[i] = futexes[i]
    BY ONLY <1>9
  <2> HIDE DEF k
  <2>3. k + 1 \in 1 .. k + 1 /\ 1 .. k \subseteq 1 .. k + 1 /\ \A i \in 1 .. k + 1 : i \in 1 .. k \/ i = k + 1
    BY ONLY <2>1
  <2> QED  BY ONLY <2>1, <2>2, <2>3 DEF k
<1>11. FutexTypeOK'
  <2>1. futexes' \in Seq(Entry) /\ Len(futexes') <= MaxEntries
    <3> DEFINE k == Len(futexes)
    <3>1. k \in Nat /\ k < MaxEntries /\ MaxEntries \in Nat /\ Len(q) = k + 1
      BY ONLY <1>1, <1>2, <1>9
    <3> HIDE DEF k
    <3>2. Len(q) <= MaxEntries
      BY ONLY <3>1
    <3> QED  BY ONLY <1>1, <1>9, <3>2
  <2>2. pc' \in [Contexts -> {"user", "sleep", "futex"}] /\ waits' \in [Contexts -> (Addrs \X Values) \cup {None}]
    BY <1>1, <1>2
  <2> QED  BY <1>1, <1>2, <1>6, <2>1, <2>2 DEF FutexTypeOK
<1>12. waits'[c] = <<a, v>> /\ pc'[c] = "futex"
  BY <1>1, <1>2
<1>13. ASSUME NEW x \in Contexts, x # c, pc'[x] = "futex", status'[x] = "Blocked"
       PROVE  pc[x] = "futex" /\ status[x] = "Blocked" /\ waits'[x] = waits[x]
  BY <1>5, <1>6, <1>13 DEF Undisturbed
<1>14. WaitersQueued'
  <2> SUFFICES ASSUME NEW x \in Contexts, pc'[x] = "futex", status'[x] = "Blocked", waits'[x] # None
               PROVE  \E i \in DOMAIN q : q[i] = <<waits'[x][1], x>>
    BY <1>1 DEF WaitersQueued
  <2>1. CASE x = c
    BY <1>9, <1>10, <1>12, <2>1
  <2>2. CASE x # c
    <3>1. PICK i \in DOMAIN futexes : futexes[i] = <<waits[x][1], x>>
      BY <1>2, <1>13, <2>2 DEF WaitersQueued
    <3> QED  BY <1>10, <1>13, <2>2, <3>1
  <2> QED  BY <2>1, <2>2
<1>15. FutexContract'
  <2> SUFFICES ASSUME NEW x \in Contexts, pc'[x] = "futex", status'[x] = "Blocked", waits'[x] # None
               PROVE  word[waits'[x][1]] = waits'[x][2] \/ waits'[x][1] \in dirty
    BY <1>1 DEF FutexContract
  <2>1. CASE x = c
    <3>1. waits'[x] = <<a, v>>
      BY ONLY <1>12, <2>1
    <3>2. word[a] = v
      BY ONLY <1>1
    <3> QED  BY ONLY <3>1, <3>2
  <2>2. CASE x # c
    BY <1>2, <1>13, <2>2 DEF FutexContract
  <2> QED  BY <2>1, <2>2
<1>16. ASSUME NEW x \in Contexts
       PROVE  Waits(x)'
  <2>1. Waits(x) /\ Excusable(x)
    BY <1>7, ByContext DEF FutexIInv
  <2>2. CASE Excused(x)
    BY <2>1, <2>2 DEF Waits, Excusable
  <2>3. CASE ~Excused(x) /\ x = c
    <3>1. \A k \in DOMAIN futexes : futexes[k][2] # c
      BY <1>1, <2>1, <2>3 DEF Waits
    <3>2. \A i, j \in DOMAIN q : q[i][2] = c /\ q[j][2] = c => i = j
      BY <1>10, <3>1
    <3> QED  BY <1>1, <1>6, <1>12, <2>3, <3>2 DEF Waits
  <2>4. CASE ~Excused(x) /\ x # c
    <3>1. \A j \in DOMAIN q : q[j][2] = x => j \in DOMAIN futexes /\ futexes[j][2] = x
      <4> SUFFICES ASSUME NEW j \in DOMAIN q, q[j][2] = x
                   PROVE  j \in DOMAIN futexes /\ futexes[j][2] = x
        OBVIOUS
      <4>1. q[Len(futexes) + 1][2] = c
        BY ONLY <1>9
      <4>2. j # Len(futexes) + 1
        BY ONLY <2>4, <4>1, q[j][2] = x
      <4>3. j \in DOMAIN futexes /\ q[j] = futexes[j]
        BY ONLY <1>10, <4>2, j \in DOMAIN q
      <4> QED  BY ONLY <4>3, q[j][2] = x
    <3> QED  BY <1>1, <1>5, <2>1, <2>4, <3>1 DEF Waits, Excusable
  <2> QED  BY <2>2, <2>3, <2>4
<1>17. EntriesWait'
  BY <1>11, <1>16, ByContextNext
<1> QED  BY <1>6, <1>11, <1>14, <1>15, <1>17 DEF FutexIInv

(* What FUTEX_WAKE and FUTEX_REQUEUE have in common: they unblock those    *)
(* the loop has taken, and change the entries only of waiters who no       *)
(* longer wait with a value.                                               *)
LEMMA WakeKeeps ==
    ASSUME FutexIInv, NEW a \in Addrs, NEW n \in 0 .. MaxEntries,
           NEW s, Takes(futexes, a, n, s),
           NEW l \in Seq(Entry), Len(l) = Len(s.list), futexes' = l,
           \A j \in DOMAIN l : l[j][2] = s.list[j][2],
           \A j \in DOMAIN l : l[j] # s.list[j] => waits'[l[j][2]] = None,
           waits' \in [Contexts -> (Addrs \X Values) \cup {None}],
           \A x \in Contexts : waits'[x] \in {None, waits[x]},
           stay(unblock(status, Woken(s))), dirty' = cleaned(a, n), UNCHANGED <<wake, now, pc, word>>
    PROVE  FutexIInv'
<1>1. /\ FutexTypeOK /\ ContextTypeOK /\ RunsRunnable /\ WaitersQueued /\ FutexContract /\ EntriesWait
      /\ Contexts \subseteq Ids /\ KMAIN \in Ids /\ futexes \in Seq(Entry)
  BY DEF FutexIInv, FutexTypeOK, Ids
<1>e. /\ s.list \in Seq(Entry) /\ Len(s.list) <= MaxEntries /\ Woken(s) \subseteq Contexts
      /\ s.next \in 1 .. Len(s.list) + 1 /\ \A i \in 1 .. s.next - 1 : s.list[i][1] # a
      /\ \A k \in DOMAIN futexes :
            \/ \E i \in DOMAIN s.list : s.list[i] = futexes[k]
            \/ futexes[k][2] \in Woken(s)
      /\ \A i \in DOMAIN s.list : \E k \in DOMAIN futexes : s.list[i] = futexes[k]
      /\ \A x : (\A k, m \in DOMAIN futexes : futexes[k][2] = x /\ futexes[m][2] = x => k = m) =>
            \A i \in DOMAIN s.list : s.list[i][2] = x =>
               x \notin Woken(s) /\ \A j \in DOMAIN s.list : s.list[j][2] = x => i = j
      /\ n >= Len(futexes) => \A i \in DOMAIN s.list : s.list[i][1] # a
  BY DEF Takes
<1>2. /\ s.list \in Seq(Entry) /\ Len(s.list) <= MaxEntries
      /\ \A i \in DOMAIN s.list : \E k \in DOMAIN futexes : s.list[i] = futexes[k]
      /\ n >= Len(futexes) => \A i \in DOMAIN s.list : s.list[i][1] # a
  BY ONLY <1>e
<1>3. /\ DOMAIN l = DOMAIN s.list
  BY <1>2, LenProperties
<1>4. \A x \in Ids : status'[x] = IF x \in Woken(s) /\ status[x] = "Blocked" THEN "Runnable" ELSE status[x]
  BY DEF stay, unblock
<1>5. ContextTypeOK'
  <2>1. status' \in [Ids -> Status]
    BY <1>1 DEF stay, unblock, ContextTypeOK, Status
  <2> QED  BY <1>1, <2>1 DEF stay, ContextTypeOK
<1>6. RunsRunnable'
  BY <1>1, <1>4 DEF RunsRunnable, ContextTypeOK, stay
<1>7. dirty' \in SUBSET Addrs
  BY <1>1 DEF FutexTypeOK, cleaned
<1>8. FutexTypeOK'
  BY <1>1, <1>2, <1>5, <1>7 DEF FutexTypeOK
<1>9. ASSUME NEW x \in Contexts, status'[x] = "Blocked", waits'[x] # None
      PROVE  status[x] = "Blocked" /\ x \notin Woken(s) /\ waits'[x] = waits[x]
  BY <1>1, <1>4, <1>9
<1>10. ASSUME NEW x \in Contexts, pc[x] = "futex", status'[x] = "Blocked", waits'[x] # None
       PROVE  \E i \in DOMAIN s.list : s.list[i] = <<waits[x][1], x>> /\ l[i] = s.list[i]
  <2>1. PICK k \in DOMAIN futexes : futexes[k] = <<waits[x][1], x>>
    <3>1. status[x] = "Blocked" /\ waits[x] # None
      BY <1>9, <1>10
    <3> QED  BY ONLY <1>1, <1>10, <3>1, x \in Contexts DEF WaitersQueued
  <2>2. futexes[k][2] = x
    BY ONLY <2>1
  <2>3. PICK i \in DOMAIN s.list : s.list[i] = <<waits[x][1], x>>
    <3>1. x \notin Woken(s)
      BY <1>9, <1>10
    <3>2. \/ \E j \in DOMAIN s.list : s.list[j] = futexes[k]
          \/ futexes[k][2] \in Woken(s)
      BY ONLY <1>e, k \in DOMAIN futexes
    <3> QED  BY ONLY <2>1, <2>2, <3>1, <3>2
  <2>4. l[i][2] = x
    <3>1. l[i][2] = s.list[i][2]
      BY <1>3
    <3> QED  BY ONLY <2>3, <3>1
  <2> QED  BY <1>3, <1>10, <2>3, <2>4
<1>11. WaitersQueued'
  <2> SUFFICES ASSUME NEW x \in Contexts, pc[x] = "futex", status'[x] = "Blocked", waits'[x] # None
               PROVE  \E i \in DOMAIN l : l[i] = <<waits'[x][1], x>>
    BY DEF WaitersQueued
  <2>1. PICK i \in DOMAIN s.list : s.list[i] = <<waits[x][1], x>> /\ l[i] = s.list[i]
    BY <1>10
  <2>2. waits'[x] = waits[x]
    BY <1>9
  <2> QED  BY <1>3, <2>1, <2>2
<1>12. FutexContract'
  <2> SUFFICES ASSUME NEW x \in Contexts, pc[x] = "futex", status'[x] = "Blocked", waits'[x] # None
               PROVE  word[waits[x][1]] = waits[x][2] \/ waits[x][1] \in dirty'
    BY <1>9 DEF FutexContract
  <2>1. word[waits[x][1]] = waits[x][2] \/ waits[x][1] \in dirty
    BY <1>1, <1>9 DEF FutexContract
  <2>2. PICK i \in DOMAIN s.list : s.list[i] = <<waits[x][1], x>>
    BY <1>10
  <2>3. n >= Len(futexes) => waits[x][1] # a
    <3>1. s.list[i][1] = waits[x][1]
      BY ONLY <2>2
    <3> QED  BY ONLY <1>2, <2>2, <3>1
  <2> QED  BY <2>1, <2>3 DEF cleaned
<1>13. ASSUME NEW x \in Contexts
       PROVE  Waits(x)'
  <2>1. Waits(x)
    BY <1>1, ByContext
  <2>2. CASE Excused(x)
    BY <1>1, <1>4, <2>2 DEF Waits, Excused, stay
  <2>3. CASE ~Excused(x)
    <3>1. \A i \in DOMAIN futexes : futexes[i][2] = x =>
             /\ pc[x] = "futex" /\ status[x] = "Blocked"
             /\ \A j \in DOMAIN futexes : futexes[j][2] = x => i = j
      BY <2>1, <2>3 DEF Waits
    <3>2. \A i \in DOMAIN s.list : s.list[i][2] = x =>
             x \notin Woken(s) /\ \A j \in DOMAIN s.list : s.list[j][2] = x => i = j
      <4>1. \A k, m \in DOMAIN futexes : futexes[k][2] = x /\ futexes[m][2] = x => k = m
        BY <3>1
      <4> QED  BY ONLY <1>e, <4>1
    <3>3. \A i \in DOMAIN s.list : s.list[i][2] = x => pc[x] = "futex" /\ status[x] = "Blocked"
      BY <1>2, <3>1
    <3>4. \A i \in DOMAIN l : l[i][2] = x =>
             /\ pc[x] = "futex" /\ status'[x] = "Blocked"
             /\ \A j \in DOMAIN l : l[j][2] = x => i = j
      BY <1>1, <1>3, <1>4, <3>2, <3>3
    <3> QED  BY <3>4 DEF Waits
  <2> QED  BY <2>2, <2>3
<1>14. EntriesWait'
  BY <1>8, <1>13, ByContextNext
<1> QED  BY <1>6, <1>8, <1>11, <1>12, <1>14 DEF FutexIInv

LEMMA WakesKeep ==
    ASSUME FutexIInv, NEW c \in Contexts, NEW a \in Addrs, NEW n \in 0 .. MaxEntries,
           \/ FUTEX_WAKE(c, a, n)
           \/ \E m \in 0 .. MaxEntries, b \in Addrs \ {a} : FUTEX_REQUEUE(c, a, n, m, b)
    PROVE  FutexIInv'
<1> DEFINE s == wake_loop(futexes, a, n)
<1>1. FutexTypeOK /\ waits \in [Contexts -> (Addrs \X Values) \cup {None}]
  BY DEF FutexIInv, FutexTypeOK
<1>2. /\ s.list \in Seq(Entry) /\ s.next \in 1 .. Len(s.list) + 1
      /\ \A i \in 1 .. s.next - 1 : s.list[i][1] # a
  BY <1>1, WakeEffect DEF Takes
<1>3. CASE FUTEX_WAKE(c, a, n)
  <2>1. /\ futexes' = s.list /\ stay(unblock(status, Woken(s))) /\ dirty' = cleaned(a, n)
        /\ UNCHANGED <<wake, now, pc, word>> /\ waits' = waits
    BY <1>3 DEF FUTEX_WAKE, Woken
  <2> HIDE DEF s
  <2>2. PICK z : z = s
    OBVIOUS
  <2>3. Takes(futexes, a, n, z)
    BY <1>1, <2>2, WakeEffect DEF s
  <2>4. z.list \in Seq(Entry) /\ futexes' = z.list /\ stay(unblock(status, Woken(z)))
    BY <1>2, <2>1, <2>2
  <2> HIDE <2>2
  <2> QED  BY <1>1, <2>1, <2>3, <2>4, WakeKeeps
<1>4. ASSUME NEW m \in 0 .. MaxEntries, NEW b \in Addrs \ {a}, FUTEX_REQUEUE(c, a, n, m, b)
      PROVE  FutexIInv'
  <2> DEFINE l == requeue_loop(s.list, s.next, a, m, b)
             moved == {l[i][2] : i \in {j \in DOMAIN l : l[j] # s.list[j]}}
  <2>1. /\ futexes' = l /\ stay(unblock(status, Woken(s))) /\ dirty' = cleaned(a, n)
        /\ waits' = [d \in Contexts |-> IF d \in moved THEN None ELSE waits[d]]
        /\ UNCHANGED <<wake, now, pc, word>>
    BY <1>4 DEF FUTEX_REQUEUE, Woken
  <2>2. m \in Nat
    BY FutexAssumption
  <2>3. /\ l \in Seq(Entry) /\ Len(l) = Len(s.list)
        /\ \A j \in 1 .. Len(s.list) : l[j] = s.list[j] \/ l[j] = <<b, s.list[j][2]>>
    <3> DEFINE q == s.list
               i == s.next
               r == requeue_loop(q, i, a, m, b)
    <3> HIDE DEF s
    <3>1. q \in Seq(Entry) /\ i \in 1 .. Len(q) + 1 /\ \A k \in 1 .. i - 1 : q[k][1] # a
      BY <1>2
    <3> HIDE DEF q, i
    <3>2. Requeued(q, r, a, m, b)
      BY ONLY <2>2, <3>1, RequeueCounts, a \in Addrs, b \in Addrs \ {a}
    <3>3. /\ r \in Seq(Entry) /\ Len(r) = Len(q)
          /\ \A j \in 1 .. Len(q) : r[j] = q[j] \/ r[j] = <<b, q[j][2]>>
      BY ONLY <3>2 DEF Requeued
    <3> QED  BY <3>3 DEF q, i
  <2> HIDE DEF l, s
  <2>4. \A j \in DOMAIN l : l[j][2] = s.list[j][2] /\ l[j][2] \in Contexts
    <3> SUFFICES ASSUME NEW j \in DOMAIN l
                 PROVE  l[j][2] = s.list[j][2] /\ l[j][2] \in Contexts
      OBVIOUS
    <3>1. j \in 1 .. Len(s.list) /\ l[j] \in Entry
      BY ONLY <2>3, j \in DOMAIN l, LenProperties
    <3>2. l[j] = s.list[j] \/ l[j] = <<b, s.list[j][2]>>
      BY ONLY <2>3, <3>1
    <3>3. l[j][2] \in Contexts
      BY ONLY <3>1 DEF Entry
    <3>4. l[j][2] = s.list[j][2]
      BY ONLY <3>2
    <3> QED  BY <3>3, <3>4
  <2>5. \A j \in DOMAIN l : l[j] # s.list[j] => waits'[l[j][2]] = None
    BY <2>1, <2>4
  <2> HIDE DEF moved
  <2>6. waits' \in [Contexts -> (Addrs \X Values) \cup {None}]
    BY <1>1, <2>1
  <2>7. \A x \in Contexts : waits'[x] \in {None, waits[x]}
    BY <2>1
  <2>8. PICK z : z = s
    OBVIOUS
  <2>9. PICK r : r = l
    OBVIOUS
  <2>10. Takes(futexes, a, n, z)
    BY <1>1, <2>8, WakeEffect DEF s
  <2>11. /\ r \in Seq(Entry) /\ Len(r) = Len(z.list) /\ futexes' = r
         /\ \A j \in DOMAIN r : r[j][2] = z.list[j][2]
         /\ \A j \in DOMAIN r : r[j] # z.list[j] => waits'[r[j][2]] = None
         /\ stay(unblock(status, Woken(z)))
    BY <2>1, <2>3, <2>4, <2>5, <2>8, <2>9
  <2> HIDE <2>8, <2>9
  <2> QED  BY <2>1, <2>6, <2>7, <2>10, <2>11, WakeKeeps
<1> QED  BY <1>3, <1>4

-----------------------------------------------------------------------------
(* Every step keeps the invariant.                                         *)
LEMMA FutexSteps == FutexIInv /\ [FutexNext]_futexVars => FutexIInv'
<1> SUFFICES ASSUME FutexIInv, [FutexNext]_futexVars
             PROVE  FutexIInv'
  OBVIOUS
<1>1. /\ FutexTypeOK /\ ContextTypeOK /\ RunsRunnable /\ WaitersQueued /\ FutexContract /\ EntriesWait
      /\ pc \in [Contexts -> {"user", "sleep", "futex"}]
      /\ waits \in [Contexts -> (Addrs \X Values) \cup {None}]
      /\ word \in [Addrs -> Values] /\ dirty \in SUBSET Addrs
      /\ Contexts \subseteq Ids /\ KMAIN \in Ids /\ KMAIN \notin Contexts
  BY ContextAssumption DEF FutexIInv, FutexTypeOK, Ids
<1>2. CASE UNCHANGED futexVars
  BY <1>1, <1>2 DEF futexVars, listVars, contextVars, FutexIInv, FutexTypeOK, ContextTypeOK, RunsRunnable,
                    WaitersQueued, FutexContract, EntriesWait
<1>3. ASSUME NEW c \in Contexts, NEW a \in Addrs, NEW v \in Values, FUTEX_WAIT(c, a, v)
      PROVE  FutexIInv'
  BY <1>3, WaitKeeps
<1>4. ASSUME NEW c \in Contexts, NEW a \in Addrs, NEW v \in Values, FUTEX_WAIT_again(c, a, v)
      PROVE  FutexIInv'
  BY <1>2, <1>4 DEF FUTEX_WAIT_again
<1>5. ASSUME NEW c \in Contexts, NEW a \in Addrs, NEW v \in Values, store(c, a, v)
      PROVE  FutexIInv'
  <2>1. /\ word' = [word EXCEPT ![a] = v] /\ dirty' = dirty \cup {a} /\ futexes' = futexes /\ waits' = waits
        /\ UNCHANGED contextVars
    BY <1>5 DEF store
  <2>2. FutexTypeOK' /\ RunsRunnable'
    BY <1>1, <2>1 DEF FutexTypeOK, ContextTypeOK, RunsRunnable, contextVars
  <2>3. WaitersQueued' /\ EntriesWait'
    BY <1>1, <2>1 DEF WaitersQueued, EntriesWait, contextVars
  <2>4. \A b \in Addrs : b \in dirty' \/ word'[b] = word[b]
    BY <1>1, <2>1
  <2>5. FutexContract'
    <3> SUFFICES ASSUME NEW x \in Contexts, pc[x] = "futex", status[x] = "Blocked", waits[x] # None
                 PROVE  word'[waits[x][1]] = waits[x][2] \/ waits[x][1] \in dirty'
      BY <2>1 DEF FutexContract, contextVars
    <3>1. waits[x][1] \in Addrs
      BY <1>1
    <3> QED  BY <1>1, <2>1, <2>4, <3>1 DEF FutexContract
  <2> QED  BY <2>2, <2>3, <2>5 DEF FutexIInv
<1>6. ASSUME NEW c \in Contexts, FUTEX_WAIT_return(c)
      PROVE  FutexIInv'
  <2>1. /\ CONTEXT_ID = c /\ pc' = [pc EXCEPT ![c] = "user"] /\ waits' = [waits EXCEPT ![c] = None]
        /\ UNCHANGED <<status, pending, wake, CONTEXT_ID, signalled, now, futexes, word, dirty>>
    BY <1>6 DEF FUTEX_WAIT_return, At, goto
  <2>2. FutexTypeOK' /\ RunsRunnable'
    BY <1>1, <2>1 DEF FutexTypeOK, ContextTypeOK, RunsRunnable
  <2>3. status[c] = "Runnable" /\ pc'[c] = "user"
    BY <1>1, <2>1 DEF RunsRunnable
  <2>4. \A x \in Contexts \ {c} : pc'[x] = pc[x] /\ waits'[x] = waits[x]
    BY <1>1, <2>1
  <2>5. WaitersQueued' /\ FutexContract'
    BY <1>1, <2>1, <2>3, <2>4 DEF WaitersQueued, FutexContract
  <2>6. ASSUME NEW x \in Contexts
        PROVE  Waits(x)'
    <3>1. Waits(x)
      BY <1>1, ByContext
    <3>2. CASE x = c
      BY <2>1, <2>3, <3>1, <3>2 DEF Waits, Excused
    <3>3. CASE x # c
      BY <2>1, <2>4, <3>1, <3>3 DEF Waits, Excused
    <3> QED  BY <3>2, <3>3
  <2> QED  BY <2>2, <2>5, <2>6, ByContextNext DEF FutexIInv
<1>7. ASSUME NEW c \in Contexts, NEW a \in Addrs, NEW n \in 0 .. MaxEntries,
             \/ FUTEX_WAKE(c, a, n)
             \/ \E m \in 0 .. MaxEntries, b \in Addrs \ {a} : FUTEX_REQUEUE(c, a, n, m, b)
      PROVE  FutexIInv'
  BY <1>7, WakesKeep
<1>8. ASSUME NEW c \in Contexts, signal_handler(c), UNCHANGED listVars
      PROVE  FutexIInv'
  <2> DEFINE st == [status EXCEPT ![c] = "Exited"]
  <2>1. /\ CONTEXT_ID = c /\ switch(st, c) /\ UNCHANGED <<wake, now>> /\ pc' = pc /\ c \in Ids
        /\ st \in [Ids -> Status] /\ st[KMAIN] = "Runnable" /\ st[c] = "Exited"
        /\ \A x \in Ids \ {c} : st[x] = status[x]
    BY <1>1, <1>8 DEF signal_handler, ContextTypeOK, RunsRunnable, Status
  <2> HIDE DEF st
  <2>2. /\ ContextTypeOK' /\ RunsRunnable' /\ status'[c] = "Exited"
        /\ \A x \in Contexts \ {c} : Undisturbed(x)
    BY <1>1, <2>1, SwitchMoves
  <2>3. Undisturbed(c)
    BY <2>1, <2>2 DEF Undisturbed
  <2>4. \A x \in Contexts : Excusable(x)
    BY <1>1, <2>1, SwitchExcuses
  <2> QED  BY <1>1, <1>8, <2>1, <2>2, <2>3, <2>4, ElsewhereKeeps
<1>9. ASSUME schedule, UNCHANGED listVars
      PROVE  FutexIInv'
  <2> DEFINE PCs == {"user", "sleep", "futex"}
  <2>1. /\ ContextTypeOK' /\ RunsRunnable' /\ pc' \in [Contexts -> PCs]
        /\ \A x \in Contexts :
              \/ Undisturbed(x)
              \/ status[x] = "Runnable" /\ {pc[x], pc'[x]} \subseteq {"user", "sleep"}
    <3>1. {"user", "sleep"} \subseteq PCs /\ pc \in [Contexts -> PCs]
      BY <1>1
    <3> HIDE DEF PCs
    <3> QED  BY <1>1, <1>9, <3>1, ScheduleMoves
  <2>2. \A x \in Contexts : Excusable(x)
    BY <1>1, <1>9, ScheduleExcuses
  <2> QED  BY <1>9, <2>1, <2>2, ElsewhereKeeps
<1> QED  BY <1>2, <1>3, <1>4, <1>5, <1>6, <1>7, <1>8, <1>9 DEF FutexNext

(* futex.rs as a whole: nobody sleeps in FUTEX_WAIT on a word that has     *)
(* changed and whose waiters were all woken since, an entry of the list is *)
(* a context that waits, and the loops of FUTEX_WAKE and FUTEX_REQUEUE     *)
(* take as many entries as they are asked for, for any number of contexts, *)
(* words and entries.                                                      *)
THEOREM FutexCorrect == FutexSpec => []FutexExact
<1>1. FutexIInv => FutexExact
  BY WakeTakesAlways DEF FutexIInv, FutexExact
<1> QED  BY <1>1, FutexStarts, FutexSteps, PTL DEF FutexSpec

=============================================================================

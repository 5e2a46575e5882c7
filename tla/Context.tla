------------------------------ MODULE Context ------------------------------
(***************************************************************************)
(* The contexts of the kernel and the code that moves the CPU between      *)
(* them: kernel/context/switch.rs, the block and unblock operations of     *)
(* kernel/context/context.rs, the delivery of signals, the clock and the   *)
(* idle loop of kmain.                                                     *)
(*                                                                         *)
(* Only CPU 0 runs contexts (kmain_ap halts every other CPU), system calls *)
(* and interrupt handlers run with interrupts disabled, and no interrupt   *)
(* handler calls switch().  A stretch of kernel code between two calls of  *)
(* switch() is therefore one atomic step of the context CONTEXT_ID, and an *)
(* interrupt can only arrive while that context is in user mode or is the  *)
(* idle loop.  The flag Context::running of the code is CONTEXT_ID = c.    *)
(*                                                                         *)
(* A component module EXTENDS this one, adds its own variables and builds  *)
(* its actions from the operators below.                                   *)
(***************************************************************************)
EXTENDS Naturals, FiniteSets, FiniteSetsExt, SequenceTheorems, WellFoundedInduction, TLAPS

CONSTANTS
    Contexts,   \* the ids of the contexts that run user programs
    KMAIN,      \* the id of the context of kmain, which idles
    None,       \* Option::None
    MaxTime,    \* bound on the clock
    MaxSignals, \* bound on the signals sent to one context
    Delays,     \* the times a program may sleep
    KillTargets \* the contexts that may be sent signals

ASSUME ContextAssumption ==
    /\ Contexts \subseteq Nat
    /\ KMAIN \in Nat \ Contexts
    /\ None \notin Nat
    /\ MaxTime \in Nat
    /\ MaxSignals \in Nat
    /\ Delays \subseteq Nat
    /\ KillTargets \subseteq Contexts

Ids == Contexts \cup {KMAIN}

Time == 0 .. MaxTime

VARIABLES
    status,     \* Context::status; "Absent" for an id not in the context list
    pending,    \* Context::pending, the number of signals queued
    wake,       \* Context::wake
    CONTEXT_ID, \* the context the CPU runs
    signalled,  \* contexts whose stack has signal_handler pushed on it
    now,        \* arch::time::monotonic()
    pc          \* what a context does: "user" mode, or the system call it is
                \* suspended in

contextVars == <<status, pending, wake, CONTEXT_ID, signalled, now, pc>>

Status == {"Absent", "Runnable", "Blocked", "Exited"}

ContextTypeOK ==
    /\ status \in [Ids -> Status]
    /\ pending \in [Ids -> Nat]
    /\ wake \in [Ids -> Time \cup {None}]
    /\ CONTEXT_ID \in Ids
    /\ signalled \in SUBSET Ids
    /\ now \in Time

(* kmain runs, and the contexts of the set live exist and wait for the CPU. *)
ContextInit(live) ==
    /\ status = [c \in Ids |-> IF c \in live \cup {KMAIN} THEN "Runnable" ELSE "Absent"]
    /\ pending = [c \in Ids |-> 0]
    /\ wake = [c \in Ids |-> None]
    /\ CONTEXT_ID = KMAIN
    /\ signalled = {}
    /\ now = 0
    /\ pc = [c \in Contexts |-> "user"]

-----------------------------------------------------------------------------
(* Context::block of c, on the statuses st.                                *)
block(st, c) == [st EXCEPT ![c] = IF @ = "Runnable" THEN "Blocked" ELSE @]

(* Context::unblock of every context of the set cs.                        *)
unblock(st, cs) ==
    [c \in Ids |-> IF c \in cs /\ st[c] = "Blocked" THEN "Runnable" ELSE st[c]]

(* The clock has reached the wake time of c.  Nothing resets wake.         *)
Expired(c) == wake[c] # None /\ wake[c] <= now

(* check_context: would switch() run c, given the statuses st.  A blocked  *)
(* context is unblocked first if it has a signal or its time has come.     *)
check_context(st, c) ==
    \/ st[c] = "Runnable"
    \/ st[c] = "Blocked" /\ (pending[c] > 0 \/ Expired(c))

(* The scan of switch(): the ids above from in increasing order, then the  *)
(* ids below it.                                                           *)
FirstFrom(from, ready) ==
    LET above == {c \in ready : c > from}
    IN  IF above # {} THEN Min(above) ELSE Min(ready)

(* pending.pop_front() of the context that gets the CPU.                   *)
pop_front(to) == [pending EXCEPT ![to] = IF @ > 0 THEN @ - 1 ELSE @]

(* switch() called by from when the statuses are st.  One signal of the    *)
(* context that gets the CPU is taken from its queue, and signal_handler   *)
(* is what it runs first; a context that calls switch() has already begun  *)
(* to run it.  If no other context can run, from goes on.                  *)
switch(st, from) ==
    LET ready == {c \in Ids \ {from} : check_context(st, c)}
        to == FirstFrom(from, ready)
    IN  \/ /\ ready = {}
           /\ status' = st
           /\ signalled' = signalled \ {from}
           /\ UNCHANGED <<pending, CONTEXT_ID>>
        \/ /\ ready # {}
           /\ status' = unblock(st, {to})
           /\ pending' = pop_front(to)
           /\ signalled' = (signalled \ {from}) \cup (IF pending[to] > 0 THEN {to} ELSE {})
           /\ CONTEXT_ID' = to

(* The CPU stays with CONTEXT_ID and only the statuses change.             *)
stay(st) ==
    /\ status' = st
    /\ UNCHANGED <<pending, CONTEXT_ID, signalled>>

-----------------------------------------------------------------------------
(* c has the CPU and runs the user program, or goes on with the system     *)
(* call it was suspended in.                                               *)
At(c, call) ==
    /\ CONTEXT_ID = c
    /\ c \in Contexts
    /\ c \notin signalled
    /\ pc[c] = call

goto(c, call) == pc' = [pc EXCEPT ![c] = call]

(* Interrupts are enabled in user mode and in the idle loop.               *)
InterruptsEnabled == CONTEXT_ID = KMAIN \/ At(CONTEXT_ID, "user")

(* The loop of kmain: give the CPU to a context that can run.              *)
kmain ==
    /\ CONTEXT_ID = KMAIN
    /\ KMAIN \notin signalled
    /\ switch(status, KMAIN)
    /\ UNCHANGED <<wake, now, pc>>

(* The timer interrupt moves the clock; it does not call switch().         *)
pit ==
    /\ InterruptsEnabled
    /\ now < MaxTime
    /\ now' = now + 1
    /\ UNCHANGED <<status, pending, wake, CONTEXT_ID, signalled, pc>>

(* kill(pid, sig) by a context that may signal pid.                        *)
kill(pid) ==
    /\ At(CONTEXT_ID, "user")
    /\ status[pid] # "Absent"
    /\ pending[pid] < MaxSignals
    /\ pending' = [pending EXCEPT ![pid] = @ + 1]
    /\ UNCHANGED <<status, wake, CONTEXT_ID, signalled, now, pc>>

(* nanosleep of d time units, up to the call of switch().                  *)
nanosleep(c, d) ==
    /\ At(c, "user")
    /\ now + d <= MaxTime
    /\ wake' = [wake EXCEPT ![c] = now + d]
    /\ switch(block(status, c), c)
    /\ goto(c, "sleep")
    /\ UNCHANGED now

(* nanosleep returns to the program.                                       *)
nanosleep_return(c) ==
    /\ At(c, "sleep")
    /\ goto(c, "user")
    /\ UNCHANGED <<status, pending, wake, CONTEXT_ID, signalled, now>>

sched_yield(c) ==
    /\ At(c, "user")
    /\ switch(status, c)
    /\ UNCHANGED <<wake, now, pc>>

(* The calls that have no state of their own.                              *)
schedule ==
    \/ kmain
    \/ pit
    \/ \E pid \in KillTargets : kill(pid)
    \/ \E c \in Contexts :
        \/ \E d \in Delays : nanosleep(c, d)
        \/ nanosleep_return(c)
        \/ sched_yield(c)

(* signal_handler calls exit, which does not return.                       *)
signal_handler(c) ==
    /\ CONTEXT_ID = c
    /\ c \in signalled
    /\ switch([status EXCEPT ![c] = "Exited"], c)
    /\ UNCHANGED <<wake, now, pc>>

(* Kernel code runs to its end, the timer ticks, kmain loops, and no       *)
(* program keeps the CPU for ever: the kernel does not preempt, so the     *)
(* last is an assumption on programs.                                      *)
ScheduleFairness ==
    /\ WF_contextVars(kmain)
    /\ WF_contextVars(pit)
    /\ \A c \in Contexts :
        /\ WF_contextVars(signal_handler(c))
        /\ WF_contextVars(nanosleep_return(c))
        /\ WF_contextVars(sched_yield(c))

-----------------------------------------------------------------------------
(* switch() never gives the CPU to a blocked or an exited context, and the *)
(* idle loop of kmain can always run, so that no context that blocks or    *)
(* exits is returned to by the switch() it called: the unreachable!() at   *)
(* the end of exit() is not reached.                                       *)
RunsRunnable == status[CONTEXT_ID] = "Runnable" /\ status[KMAIN] = "Runnable"

(* nanosleep only returns to the program once the requested time has       *)
(* passed: no queue or list the context waited on before wakes it.         *)
SleepsFullTime == \A c \in Contexts : At(c, "sleep") => wake[c] <= now

(* Why no sleep is cut short: a sleeper stays blocked until its time has   *)
(* come or a signal takes it out of nanosleep() for good.                  *)
SleepersTimed ==
    \A c \in Contexts : pc[c] = "sleep" =>
        /\ wake[c] \in Time
        /\ status[c] \in {"Blocked", "Exited"} \/ wake[c] <= now \/ c \in signalled

-----------------------------------------------------------------------------
(* Facts about the operators of Context.                                   *)

(* A nonempty set of naturals has a least element, and Min is it: the scan *)
(* of switch() finds a context whenever one can run.                       *)
LEMMA MinNat ==
    ASSUME NEW S \in SUBSET Nat, S # {}
    PROVE  Min(S) \in S /\ \A y \in S : Min(S) <= y
<1> DEFINE R == OpToRel(<, Nat)
<1>1. IsWellFoundedOn(R, Nat)
  BY NatLessThanWellFounded
<1>2. \A x, y \in Nat : y < x => <<y, x>> \in R
  BY DEF OpToRel
<1> HIDE DEF R
<1>3. \E x \in S : \A y \in S : ~ (<<y, x>> \in R)
  BY <1>1, WFMin
<1>4. \E x \in S : \A y \in S : x <= y
  <2>1. PICK x \in S : \A y \in S : ~ (<<y, x>> \in R)
    BY <1>3
  <2>2. ASSUME NEW y \in S  PROVE x <= y
    <3>1. ~ (y < x)
      BY <1>2, <2>1
    <3> QED  BY <3>1
  <2> QED  BY <2>2
<1> QED  BY <1>4 DEF Min

(* The scan of switch() returns one of the contexts that can run.          *)
LEMMA FirstFromReady ==
    ASSUME NEW ready \in SUBSET Ids, ready # {}, NEW from \in Ids
    PROVE  FirstFrom(from, ready) \in ready
<1>1. Ids \subseteq Nat
  BY ContextAssumption DEF Ids
<1> DEFINE above == {c \in ready : c > from}
<1>2. CASE above # {}
  BY <1>1, <1>2, MinNat, above \in SUBSET Nat DEF FirstFrom
<1>3. CASE above = {}
  BY <1>1, <1>3, MinNat DEF FirstFrom
<1> QED  BY <1>2, <1>3

(* What a call of switch() does: the types are preserved, and the only     *)
(* context whose status changes is a blocked one that becomes runnable     *)
(* because its time has come or because it now has signal_handler to run.  *)
LEMMA SwitchEffect ==
    ASSUME ContextTypeOK, NEW st \in [Ids -> Status], NEW from \in Ids,
           switch(st, from)
    PROVE  /\ status' \in [Ids -> Status]
           /\ pending' \in [Ids -> Nat]
           /\ CONTEXT_ID' \in Ids
           /\ signalled' \in SUBSET Ids
           /\ signalled \ {from} \subseteq signalled'
           /\ \A c \in Ids :
                \/ status'[c] = st[c]
                \/ st[c] = "Blocked" /\ status'[c] = "Runnable" /\ (c \in signalled' \/ Expired(c))
           /\ status'[from] = st[from]
           /\ \/ CONTEXT_ID' # from /\ status'[CONTEXT_ID'] = "Runnable"
              \/ CONTEXT_ID' = CONTEXT_ID /\ \A c \in Ids \ {from} : st[c] # "Runnable"
<1> DEFINE ready == {c \in Ids \ {from} : check_context(st, c)}
<1> DEFINE to == FirstFrom(from, ready)
<1>1. CASE ready = {}
  <2>1. status' = st /\ signalled' = signalled \ {from} /\ UNCHANGED <<pending, CONTEXT_ID>>
    BY <1>1 DEF switch
  <2>2. \A c \in Ids \ {from} : st[c] # "Runnable"
    BY <1>1 DEF check_context
  <2> QED  BY <2>1, <2>2 DEF ContextTypeOK
<1>2. CASE ready # {}
  <2>1. to \in Ids \ {from} /\ check_context(st, to)
    BY <1>2, FirstFromReady
  <2>2. /\ status' = unblock(st, {to})
        /\ pending' = pop_front(to)
        /\ signalled' = (signalled \ {from}) \cup (IF pending[to] > 0 THEN {to} ELSE {})
        /\ CONTEXT_ID' = to
    BY <1>2 DEF switch
  <2> HIDE DEF to, ready
  <2>3. pending' \in [Ids -> Nat]
    BY <2>1, <2>2 DEF pop_front, ContextTypeOK
  <2>4. status' \in [Ids -> Status]
    BY <2>1, <2>2 DEF unblock, Status
  <2>5. signalled' \in SUBSET Ids /\ signalled \ {from} \subseteq signalled'
    BY <2>1, <2>2 DEF ContextTypeOK
  <2>6. ASSUME NEW c \in Ids, status'[c] # st[c]
        PROVE  st[c] = "Blocked" /\ status'[c] = "Runnable" /\ (c \in signalled' \/ Expired(c))
    <3>1. c = to /\ st[c] = "Blocked" /\ status'[c] = "Runnable"
      BY <2>2, <2>6 DEF unblock
    <3>2. pending[c] > 0 \/ Expired(c)
      BY <2>1, <3>1 DEF check_context
    <3> QED  BY <2>2, <3>1, <3>2
  <2>7. status'[to] = "Runnable"
    BY <2>1, <2>2 DEF unblock, check_context
  <2>8. status'[from] = st[from]
    BY <2>1, <2>2 DEF unblock
  <2> QED  BY <2>1, <2>2, <2>3, <2>4, <2>5, <2>6, <2>7, <2>8
<1> QED  BY <1>1, <1>2

-----------------------------------------------------------------------------
(* The part of an inductive invariant that is about the scheduler alone.   *)
ContextIInv == ContextTypeOK /\ RunsRunnable /\ SleepersTimed

(* What a step of another context may do to x.                             *)
Undisturbed(x) ==
    /\ pc'[x] = pc[x]
    /\ status'[x] = "Blocked" => status[x] = "Blocked"
    /\ status[x] = "Exited" => status'[x] = "Exited"

(* Initially every context is runnable and none sleeps.                    *)
LEMMA ContextInitial ==
    ASSUME NEW live \in SUBSET Contexts, ContextInit(live)
    PROVE  ContextIInv
BY ContextAssumption DEF ContextInit, ContextIInv, ContextTypeOK, RunsRunnable,
   SleepersTimed, Ids, Status, Time

(* A switch() of the running context hands the CPU to a runnable context,  *)
(* because the idle loop of kmain is always there to take it.              *)
LEMMA SwitchRuns ==
    ASSUME ContextTypeOK, NEW st \in [Ids -> Status],
           st[KMAIN] = "Runnable", switch(st, CONTEXT_ID)
    PROVE  RunsRunnable'
<1>1. CONTEXT_ID \in Ids /\ KMAIN \in Ids
  BY DEF ContextTypeOK, Ids
<1>2. /\ \A c \in Ids :
            \/ status'[c] = st[c]
            \/ st[c] = "Blocked" /\ status'[c] = "Runnable"
      /\ \/ status'[CONTEXT_ID'] = "Runnable"
         \/ CONTEXT_ID' = CONTEXT_ID /\ \A c \in Ids \ {CONTEXT_ID} : st[c] # "Runnable"
  BY <1>1, SwitchEffect
<1> QED  BY <1>1, <1>2 DEF RunsRunnable

(* A call of switch() by c, whatever the call did to the status of c and   *)
(* wherever c waits: the invariant is kept, and no other context is put to *)
(* sleep, revived or moved.                                                *)
LEMMA SwitchKeeps ==
    ASSUME ContextIInv, NEW c \in Ids, CONTEXT_ID = c, NEW st \in [Ids -> Status],
           \A x \in Ids \ {c} : st[x] = status[x], st[KMAIN] = "Runnable",
           switch(st, c), UNCHANGED <<wake, now>>,
           \A x \in Contexts \ {c} : pc'[x] = pc[x],
           \/ c \notin Contexts
           \/ pc'[c] # "sleep"
           \/ pc'[c] = pc[c] /\ st[c] = "Exited"
           \/ pc'[c] = pc[c] /\ st[c] = status[c] /\ c \notin signalled
    PROVE  /\ ContextIInv'
           /\ status'[c] = st[c]
           /\ \A x \in Contexts \ {c} : Undisturbed(x)
<1> USE DEF ContextIInv
<1>1. Contexts \subseteq Ids
  BY DEF Ids
<1>2. /\ status' \in [Ids -> Status] /\ pending' \in [Ids -> Nat]
      /\ CONTEXT_ID' \in Ids /\ signalled' \in SUBSET Ids
      /\ signalled \ {c} \subseteq signalled' /\ status'[c] = st[c]
      /\ \A x \in Ids :
            \/ status'[x] = st[x]
            \/ st[x] = "Blocked" /\ status'[x] = "Runnable" /\ (x \in signalled' \/ Expired(x))
  BY SwitchEffect
<1>3. RunsRunnable'
  BY SwitchRuns
<1>4. ContextTypeOK'
  BY <1>2 DEF ContextTypeOK
<1>5. ASSUME NEW x \in Contexts, x # c  PROVE Undisturbed(x)
  BY <1>1, <1>2, <1>5 DEF Undisturbed
<1>6. ASSUME NEW x \in Contexts, pc'[x] = "sleep"
      PROVE  /\ wake[x] \in Time
             /\ \/ status'[x] \in {"Blocked", "Exited"} \/ wake[x] <= now
                \/ x \in signalled'
  <2>1. pc[x] = "sleep"
    BY <1>6
  <2>2. /\ wake[x] \in Time
        /\ status[x] \in {"Blocked", "Exited"} \/ wake[x] <= now \/ x \in signalled
    BY <2>1 DEF SleepersTimed
  <2>3. x \in Ids
    BY <1>1
  <2>4. CASE x = c
    BY <1>2, <1>6, <2>2, <2>4
  <2>5. CASE x # c
    BY <1>2, <2>2, <2>3, <2>5 DEF Expired
  <2> QED  BY <2>4, <2>5
<1>7. SleepersTimed'
  BY <1>6 DEF SleepersTimed
<1> QED  BY <1>2, <1>3, <1>4, <1>5, <1>7

(* A program blocks in a system call other than nanosleep.                 *)
LEMMA BlockKeeps ==
    ASSUME ContextIInv, NEW c \in Contexts, CONTEXT_ID = c, NEW PCs,
           pc \in [Contexts -> PCs], NEW call, call # "sleep", goto(c, call),
           switch(block(status, c), c), UNCHANGED <<wake, now>>
    PROVE  /\ ContextIInv'
           /\ status'[c] = "Blocked" /\ pc'[c] = call
           /\ \A x \in Contexts \ {c} : Undisturbed(x)
<1> DEFINE st == block(status, c)
<1>1. c \in Ids /\ c # KMAIN /\ KMAIN \in Ids
  BY ContextAssumption DEF Ids
<1>2. /\ switch(st, c)
      /\ st \in [Ids -> Status] /\ st[KMAIN] = "Runnable" /\ st[c] = "Blocked"
      /\ \A x \in Ids \ {c} : st[x] = status[x]
  BY <1>1 DEF block, ContextIInv, ContextTypeOK, RunsRunnable, Status
<1>3. pc'[c] = call /\ \A x \in Contexts \ {c} : pc'[x] = pc[x]
  BY DEF goto
<1> HIDE DEF st
<1>4. pc'[c] # "sleep"
  BY <1>3
<1>5. ContextIInv' /\ status'[c] = st[c] /\ \A x \in Contexts \ {c} : Undisturbed(x)
  BY <1>1, <1>2, <1>3, <1>4, SwitchKeeps
<1> QED  BY <1>2, <1>3, <1>5

(* exit() by signal_handler ends c and moves no other context.             *)
LEMMA SignalKeeps ==
    ASSUME ContextIInv, NEW c \in Contexts, signal_handler(c)
    PROVE  /\ ContextIInv'
           /\ status'[c] = "Exited"
           /\ pc' = pc
           /\ \A x \in Contexts : Undisturbed(x)
<1> DEFINE st == [status EXCEPT ![c] = "Exited"]
<1>1. c \in Ids /\ c # KMAIN /\ KMAIN \in Ids /\ Contexts \subseteq Ids
  BY ContextAssumption DEF Ids
<1>2. /\ CONTEXT_ID = c /\ switch(st, c) /\ UNCHANGED <<wake, now>> /\ pc' = pc
      /\ st \in [Ids -> Status] /\ st[KMAIN] = "Runnable" /\ st[c] = "Exited"
      /\ \A x \in Ids \ {c} : st[x] = status[x]
  BY <1>1 DEF signal_handler, ContextIInv, ContextTypeOK, RunsRunnable, Status
<1> HIDE DEF st
<1>3. ContextIInv' /\ status'[c] = "Exited" /\ \A x \in Contexts \ {c} : Undisturbed(x)
  BY <1>1, <1>2, SwitchKeeps
<1> QED  BY <1>2, <1>3 DEF Undisturbed

(* A step of the scheduler keeps the invariant.  It leaves a context in    *)
(* its system call, except that a running program may enter nanosleep and  *)
(* return from it.                                                         *)
LEMMA ScheduleKeeps ==
    ASSUME ContextIInv, NEW PCs, {"user", "sleep"} \subseteq PCs,
           pc \in [Contexts -> PCs], schedule
    PROVE  /\ ContextIInv'
           /\ pc' \in [Contexts -> PCs]
           /\ \A x \in Contexts :
                \/ Undisturbed(x)
                \/ status[x] = "Runnable" /\ {pc[x], pc'[x]} \subseteq {"user", "sleep"}
<1> USE ContextAssumption DEF ContextIInv
<1>k. KMAIN \in Ids /\ Contexts \subseteq Ids /\ KMAIN \notin Contexts
  BY DEF Ids
<1>1. CASE kmain
  <2>1. /\ CONTEXT_ID = KMAIN /\ switch(status, KMAIN) /\ UNCHANGED <<wake, now, pc>>
        /\ status \in [Ids -> Status] /\ status[KMAIN] = "Runnable"
    BY <1>1 DEF kmain, ContextTypeOK, RunsRunnable
  <2> QED  BY <1>k, <2>1, SwitchKeeps
<1>2. CASE pit
  <2>1. ContextTypeOK'
    BY <1>2 DEF pit, ContextTypeOK, Time
  <2>2. RunsRunnable'
    BY <1>2 DEF pit, RunsRunnable
  <2>3. SleepersTimed'
    BY <1>2 DEF pit, SleepersTimed, ContextTypeOK, Time
  <2> QED  BY <1>2, <2>1, <2>2, <2>3 DEF pit, Undisturbed
<1>3. ASSUME NEW pid \in KillTargets, kill(pid)
      PROVE  ContextIInv' /\ pc' = pc /\ \A x \in Contexts : Undisturbed(x)
  <2>1. pending' \in [Ids -> Nat]
    BY <1>3, <1>k DEF kill, ContextTypeOK
  <2>2. ContextTypeOK'
    BY <1>3, <2>1 DEF kill, ContextTypeOK
  <2>3. RunsRunnable' /\ SleepersTimed'
    BY <1>3 DEF kill, RunsRunnable, SleepersTimed
  <2> QED  BY <1>3, <2>2, <2>3 DEF kill, Undisturbed
<1>4. ASSUME NEW c \in Contexts, NEW d \in Delays, nanosleep(c, d)
      PROVE  /\ ContextIInv'
             /\ pc' \in [Contexts -> PCs]
             /\ status[c] = "Runnable" /\ {pc[c], pc'[c]} \subseteq {"user", "sleep"}
             /\ \A x \in Contexts \ {c} : Undisturbed(x)
  <2> DEFINE st == block(status, c)
  <2>1. /\ CONTEXT_ID = c /\ pc[c] = "user" /\ switch(st, c)
        /\ now + d <= MaxTime /\ wake' = [wake EXCEPT ![c] = now + d]
        /\ pc' = [pc EXCEPT ![c] = "sleep"] /\ now' = now
    BY <1>4 DEF nanosleep, At, goto
  <2>2. /\ st \in [Ids -> Status] /\ st[KMAIN] = "Runnable"
        /\ \A x \in Ids \ {c} : st[x] = status[x]
        /\ st[c] = "Blocked" /\ status[c] = "Runnable"
    BY <1>k, <2>1 DEF block, ContextTypeOK, RunsRunnable, Status
  <2> HIDE DEF st
  <2>3. /\ status' \in [Ids -> Status] /\ pending' \in [Ids -> Nat]
        /\ CONTEXT_ID' \in Ids /\ signalled' \in SUBSET Ids
        /\ signalled \ {c} \subseteq signalled' /\ status'[c] = "Blocked"
        /\ \A x \in Ids :
              \/ status'[x] = st[x]
              \/ st[x] = "Blocked" /\ status'[x] = "Runnable" /\ (x \in signalled' \/ Expired(x))
    BY <1>k, <2>1, <2>2, SwitchEffect
  <2>4. wake' \in [Ids -> Time \cup {None}] /\ wake'[c] \in Time
    BY <1>k, <2>1 DEF ContextTypeOK, Time
  <2>5. ContextTypeOK'
    BY <2>1, <2>3, <2>4 DEF ContextTypeOK
  <2>6. RunsRunnable'
    BY <2>1, <2>2, SwitchRuns
  <2>7. ASSUME NEW x \in Contexts, x # c
        PROVE  wake'[x] = wake[x] /\ Undisturbed(x)
    BY <1>k, <2>1, <2>2, <2>3, <2>7 DEF Undisturbed, ContextTypeOK
  <2>8. ASSUME NEW x \in Contexts, x # c, pc'[x] = "sleep"
        PROVE  /\ wake'[x] \in Time
               /\ \/ status'[x] \in {"Blocked", "Exited"} \/ wake'[x] <= now'
                  \/ x \in signalled'
    <3>1. /\ wake[x] \in Time
          /\ status[x] \in {"Blocked", "Exited"} \/ wake[x] <= now \/ x \in signalled
      BY <2>7, <2>8 DEF SleepersTimed, Undisturbed
    <3> QED  BY <1>k, <2>1, <2>2, <2>3, <2>7, <2>8, <3>1 DEF Expired
  <2>9. SleepersTimed'
    BY <2>3, <2>4, <2>8 DEF SleepersTimed
  <2> QED  BY <2>1, <2>2, <2>5, <2>6, <2>7, <2>9
<1>5. ASSUME NEW c \in Contexts, nanosleep_return(c)
      PROVE  /\ ContextIInv'
             /\ pc' \in [Contexts -> PCs]
             /\ status[c] = "Runnable" /\ {pc[c], pc'[c]} \subseteq {"user", "sleep"}
             /\ \A x \in Contexts \ {c} : Undisturbed(x)
  <2>1. ContextTypeOK' /\ RunsRunnable'
    BY <1>5 DEF nanosleep_return, ContextTypeOK, RunsRunnable
  <2>2. SleepersTimed'
    BY <1>5 DEF nanosleep_return, goto, SleepersTimed
  <2> QED  BY <1>5, <2>1, <2>2 DEF nanosleep_return, goto, At, Undisturbed, RunsRunnable
<1>6. ASSUME NEW c \in Contexts, sched_yield(c)
      PROVE  ContextIInv' /\ pc' = pc /\ \A x \in Contexts : Undisturbed(x)
  <2>1. /\ CONTEXT_ID = c /\ switch(status, c) /\ UNCHANGED <<wake, now>>
        /\ c \notin signalled /\ pc' = pc
        /\ status \in [Ids -> Status] /\ status[KMAIN] = "Runnable"
    BY <1>6 DEF sched_yield, At, ContextTypeOK, RunsRunnable
  <2>2. ContextIInv' /\ status'[c] = status[c] /\ \A x \in Contexts \ {c} : Undisturbed(x)
    BY <1>k, <2>1, SwitchKeeps
  <2> QED  BY <2>1, <2>2 DEF Undisturbed
<1> QED  BY <1>1, <1>2, <1>3, <1>4, <1>5, <1>6 DEF schedule
(* Splitting a sequence after its n-th element.                            *)
LEMMA SplitSeq ==
    ASSUME NEW S, NEW s \in Seq(S), NEW n \in 0 .. Len(s)
    PROVE  /\ SubSeq(s, 1, n) \in Seq(S)
           /\ Len(SubSeq(s, 1, n)) = n
           /\ \A i \in 1 .. n : SubSeq(s, 1, n)[i] = s[i]
           /\ SubSeq(s, n + 1, Len(s)) \in Seq(S)
           /\ Len(SubSeq(s, n + 1, Len(s))) = Len(s) - n
           /\ \A i \in 1 .. Len(s) - n : SubSeq(s, n + 1, Len(s))[i] = s[n + i]
<1>1. Len(s) \in Nat /\ \A i \in 1 .. Len(s) : s[i] \in S
  BY LenProperties
<1>2. 1 \in Int /\ n \in Int /\ \A i \in 1 .. n : s[i] \in S
  BY <1>1
<1>3. n + 1 \in Int /\ Len(s) \in Int /\ \A i \in n + 1 .. Len(s) : s[i] \in S
  BY <1>1
<1>4. /\ SubSeq(s, 1, n) \in Seq(S)
      /\ Len(SubSeq(s, 1, n)) = IF 1 <= n THEN n - 1 + 1 ELSE 0
      /\ \A i \in 1 .. n - 1 + 1 : SubSeq(s, 1, n)[i] = s[1 + i - 1]
  BY <1>2, SubSeqProperties
<1>5. /\ SubSeq(s, n + 1, Len(s)) \in Seq(S)
      /\ Len(SubSeq(s, n + 1, Len(s))) =
            IF n + 1 <= Len(s) THEN Len(s) - (n + 1) + 1 ELSE 0
      /\ \A i \in 1 .. Len(s) - (n + 1) + 1 :
            SubSeq(s, n + 1, Len(s))[i] = s[n + 1 + i - 1]
  BY <1>3, SubSeqProperties
<1>6. n - 1 + 1 = n /\ Len(s) - (n + 1) + 1 = Len(s) - n
  BY <1>1
<1>7. ASSUME NEW i \in 1 .. n  PROVE SubSeq(s, 1, n)[i] = s[i]
  <2>1. 1 + i - 1 = i
    OBVIOUS
  <2> QED  BY <1>4, <1>6, <2>1
<1>8. ASSUME NEW i \in 1 .. Len(s) - n  PROVE SubSeq(s, n + 1, Len(s))[i] = s[n + i]
  <2>1. n + 1 + i - 1 = n + i
    BY <1>1
  <2> QED  BY <1>5, <1>6, <2>1
<1>9. Len(SubSeq(s, 1, n)) = n /\ Len(SubSeq(s, n + 1, Len(s))) = Len(s) - n
  BY <1>1, <1>4, <1>5
<1> QED  BY <1>4, <1>5, <1>7, <1>8, <1>9

(* The two lemmas below do without SleepersTimed, for components whose     *)
(* waiters may leave a stale entry behind and be woken out of a sleep.     *)

(* A call of switch() by c that may have woken others.                     *)
LEMMA SwitchMoves ==
    ASSUME ContextTypeOK, NEW c \in Ids, CONTEXT_ID = c, NEW st \in [Ids -> Status],
           \A x \in Ids \ {c} :
               st[x] = status[x] \/ (status[x] = "Blocked" /\ st[x] = "Runnable"),
           st[KMAIN] = "Runnable", switch(st, c), UNCHANGED <<wake, now>>,
           \A x \in Contexts \ {c} : pc'[x] = pc[x]
    PROVE  /\ ContextTypeOK' /\ RunsRunnable'
           /\ status'[c] = st[c]
           /\ \A x \in Contexts \ {c} :
                /\ Undisturbed(x)
                /\ status'[x] = st[x] \/ (st[x] = "Blocked" /\ status'[x] = "Runnable")
<1>1. Contexts \subseteq Ids
  BY DEF Ids
<1>2. /\ status' \in [Ids -> Status] /\ pending' \in [Ids -> Nat]
      /\ CONTEXT_ID' \in Ids /\ signalled' \in SUBSET Ids
      /\ status'[c] = st[c]
      /\ \A x \in Ids : \/ status'[x] = st[x]
                        \/ st[x] = "Blocked" /\ status'[x] = "Runnable"
  BY SwitchEffect
<1>3. RunsRunnable'
  BY SwitchRuns
<1>4. ContextTypeOK'
  BY <1>2 DEF ContextTypeOK
<1>5. ASSUME NEW x \in Contexts \ {c}
      PROVE  /\ Undisturbed(x)
             /\ status'[x] = st[x] \/ (st[x] = "Blocked" /\ status'[x] = "Runnable")
  BY <1>1, <1>2, <1>5 DEF Undisturbed
<1> QED  BY <1>2, <1>3, <1>4, <1>5

(* A step of the scheduler.                                                *)
LEMMA ScheduleMoves ==
    ASSUME ContextTypeOK, RunsRunnable, NEW PCs, {"user", "sleep"} \subseteq PCs,
           pc \in [Contexts -> PCs], schedule
    PROVE  /\ ContextTypeOK' /\ RunsRunnable'
           /\ pc' \in [Contexts -> PCs]
           /\ \A x \in Contexts : status'[x] = "Exited" => status[x] = "Exited"
           /\ \A x \in Contexts :
                \/ Undisturbed(x)
                \/ status[x] = "Runnable" /\ {pc[x], pc'[x]} \subseteq {"user", "sleep"}
<1> USE ContextAssumption
<1>k. KMAIN \in Ids /\ Contexts \subseteq Ids /\ KMAIN \notin Contexts
  BY DEF Ids
<1>1. CASE kmain
  <2>1. /\ CONTEXT_ID = KMAIN /\ switch(status, KMAIN) /\ UNCHANGED <<wake, now, pc>>
        /\ status \in [Ids -> Status] /\ status[KMAIN] = "Runnable"
    BY <1>1 DEF kmain, ContextTypeOK, RunsRunnable
  <2> QED  BY <1>k, <2>1, SwitchMoves DEF Status
<1>2. CASE pit
  <2>1. ContextTypeOK' /\ RunsRunnable'
    BY <1>2 DEF pit, ContextTypeOK, Time, RunsRunnable
  <2> QED  BY <1>2, <2>1 DEF pit, Undisturbed
<1>3. ASSUME NEW pid \in KillTargets, kill(pid)
      PROVE  /\ ContextTypeOK' /\ RunsRunnable' /\ pc' = pc
             /\ \A x \in Contexts : Undisturbed(x) /\ (status'[x] = "Exited" => status[x] = "Exited")
  <2>1. pending' \in [Ids -> Nat]
    BY <1>3, <1>k DEF kill, ContextTypeOK
  <2> QED  BY <1>3, <2>1 DEF kill, ContextTypeOK, RunsRunnable, Undisturbed
<1>4. ASSUME NEW c \in Contexts, NEW d \in Delays, nanosleep(c, d)
      PROVE  /\ ContextTypeOK' /\ RunsRunnable'
             /\ pc' \in [Contexts -> PCs]
             /\ status[c] = "Runnable" /\ status'[c] # "Exited"
             /\ {pc[c], pc'[c]} \subseteq {"user", "sleep"}
             /\ \A x \in Contexts \ {c} :
                  Undisturbed(x) /\ (status'[x] = "Exited" => status[x] = "Exited")
  <2> DEFINE st == block(status, c)
  <2>1. /\ CONTEXT_ID = c /\ pc[c] = "user" /\ switch(st, c)
        /\ now + d <= MaxTime /\ wake' = [wake EXCEPT ![c] = now + d]
        /\ pc' = [pc EXCEPT ![c] = "sleep"] /\ now' = now
    BY <1>4 DEF nanosleep, At, goto
  <2>2. /\ st \in [Ids -> Status] /\ st[KMAIN] = "Runnable"
        /\ \A x \in Ids \ {c} : st[x] = status[x]
        /\ st[c] = "Blocked" /\ status[c] = "Runnable"
    BY <1>k, <2>1 DEF block, ContextTypeOK, RunsRunnable, Status
  <2> HIDE DEF st
  <2>3. /\ status' \in [Ids -> Status] /\ pending' \in [Ids -> Nat]
        /\ CONTEXT_ID' \in Ids /\ signalled' \in SUBSET Ids /\ status'[c] = "Blocked"
        /\ \A x \in Ids : \/ status'[x] = st[x]
                          \/ st[x] = "Blocked" /\ status'[x] = "Runnable"
    BY <1>k, <2>1, <2>2, SwitchEffect
  <2>4. wake' \in [Ids -> Time \cup {None}]
    BY <1>k, <2>1 DEF ContextTypeOK, Time
  <2>5. ContextTypeOK'
    BY <2>1, <2>3, <2>4 DEF ContextTypeOK
  <2>6. RunsRunnable'
    BY <2>1, <2>2, SwitchRuns
  <2>7. ASSUME NEW x \in Contexts \ {c}
        PROVE  Undisturbed(x) /\ (status'[x] = "Exited" => status[x] = "Exited")
    BY <1>k, <2>1, <2>2, <2>3, <2>7 DEF Undisturbed
  <2> QED  BY <2>1, <2>2, <2>3, <2>5, <2>6, <2>7
<1>5. ASSUME NEW c \in Contexts, nanosleep_return(c)
      PROVE  /\ ContextTypeOK' /\ RunsRunnable'
             /\ pc' \in [Contexts -> PCs]
             /\ status[c] = "Runnable" /\ status'[c] # "Exited"
             /\ {pc[c], pc'[c]} \subseteq {"user", "sleep"}
             /\ \A x \in Contexts \ {c} :
                  Undisturbed(x) /\ (status'[x] = "Exited" => status[x] = "Exited")
  <2>1. ContextTypeOK' /\ RunsRunnable'
    BY <1>5 DEF nanosleep_return, ContextTypeOK, RunsRunnable
  <2> QED  BY <1>5, <2>1 DEF nanosleep_return, goto, At, Undisturbed, RunsRunnable
<1>6. ASSUME NEW c \in Contexts, sched_yield(c)
      PROVE  /\ ContextTypeOK' /\ RunsRunnable' /\ pc' = pc
             /\ \A x \in Contexts : Undisturbed(x) /\ (status'[x] = "Exited" => status[x] = "Exited")
  <2>1. /\ CONTEXT_ID = c /\ switch(status, c) /\ UNCHANGED <<wake, now, pc>>
        /\ status \in [Ids -> Status] /\ status[KMAIN] = "Runnable"
    BY <1>6 DEF sched_yield, At, ContextTypeOK, RunsRunnable
  <2>2. /\ ContextTypeOK' /\ RunsRunnable'
        /\ status'[c] = status[c]
        /\ \A x \in Contexts \ {c} :
             Undisturbed(x) /\ (status'[x] = "Exited" => status[x] = "Exited")
    BY <1>k, <2>1, SwitchMoves
  <2> QED  BY <2>1, <2>2 DEF Undisturbed
<1> QED  BY <1>1, <1>2, <1>3, <1>4, <1>5, <1>6 DEF schedule
=============================================================================

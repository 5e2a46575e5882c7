------------------------------ MODULE Process ------------------------------
(***************************************************************************)
(* kernel/syscall/process.rs: clone with and without CLONE_VFORK, exec,    *)
(* exit, waitpid and reap, on the context list of kernel/context/list.rs   *)
(* and with the WaitMap of kernel/sync/wait_map.rs that carries the exit   *)
(* statuses.                                                               *)
(*                                                                         *)
(* clone, exec and exit call the schemes of the open files.  If one is a   *)
(* user scheme the caller waits for its daemon, and everything it has read *)
(* before may have changed when it goes on; files of kernel schemes only   *)
(* make clone, exec and exit atomic.  Ids are not reused: the limit        *)
(* CONTEXT_MAX_CONTEXTS is out of reach.  Contexts bounds the clones.      *)
(***************************************************************************)
EXTENDS Context

CONSTANT
    FIRST       \* the id of the first user context; ids are not 0

VARIABLES
    userFiles, \* whether open files belong to user schemes; never changes
    ppid,      \* Context::ppid, 0 for none
    vfork,     \* Context::vfork
    waitpid,   \* Context::waitpid: the children whose status is in the map
    listed,    \* contexts in the WaitCondition of their own waitpid map
    target,    \* the pid a suspended waitpid waits for, 0 for any
    saved,     \* the locals ppid and vfork of a suspended exec or exit
    replies,   \* suspended callers of a user scheme that were answered
    next_id,   \* ContextList::next_id
    readers    \* contexts that hold the read lock of the context list

processVars == <<userFiles, ppid, vfork, waitpid, listed, target, saved, replies, next_id, readers>>
vars == <<contextVars, processVars>>

(* Suspended in a call of a user scheme.                                   *)
SchemeCalls == {"clone", "vfork", "exec_open", "exec_dup", "exit"}

Calls == SchemeCalls \cup {"user", "sleep", "clone_ret", "waitpid", "spin"}

TypeOK ==
    /\ ContextTypeOK
    /\ pc \in [Contexts -> Calls]
    /\ userFiles \in BOOLEAN
    /\ ppid \in [Contexts -> Contexts \cup {0}]
    /\ vfork \in [Contexts -> BOOLEAN]
    /\ waitpid \in [Contexts -> SUBSET Contexts]
    /\ listed \in SUBSET Contexts
    /\ target \in [Contexts -> Contexts \cup {0}]
    /\ saved \in [Contexts -> [ppid : Contexts \cup {0}, vfork : BOOLEAN]]
    /\ replies \in SUBSET Contexts
    /\ next_id \in Nat
    /\ readers \in SUBSET Contexts

NoLocals == [ppid |-> 0, vfork |-> FALSE]

Init ==
    /\ ContextInit({FIRST})
    /\ userFiles \in BOOLEAN
    /\ ppid = [c \in Contexts |-> 0]
    /\ vfork = [c \in Contexts |-> FALSE]
    /\ waitpid = [c \in Contexts |-> {}]
    /\ listed = {}
    /\ target = [c \in Contexts |-> 0]
    /\ saved = [c \in Contexts |-> NoLocals]
    /\ replies = {}
    /\ next_id = FIRST + 1
    /\ readers = {}

live(c) == status[c] \in {"Runnable", "Blocked"}

-----------------------------------------------------------------------------
(* A call of a user scheme: the caller waits for the answer in call.       *)
await(c, call) ==
    /\ userFiles
    /\ goto(c, call)
    /\ replies' = replies \ {c}
    /\ switch(block(status, c), c)

(* The daemon answers the call of c.                                       *)
reply(c) ==
    /\ InterruptsEnabled
    /\ live(c)
    /\ pc[c] \in SchemeCalls
    /\ c \notin replies
    /\ replies' = replies \cup {c}
    /\ stay(unblock(status, {c}))
    /\ UNCHANGED <<wake, now, userFiles, pc, ppid, vfork, waitpid, listed, target, saved, next_id, readers>>

(* The call of c was answered, and c goes on with it.                      *)
answered(c, call) == At(c, call) /\ c \in replies

(* The call of c ends, and with it what its stack held.                    *)
finish(c) ==
    /\ saved' = [saved EXCEPT ![c] = NoLocals]
    /\ replies' = replies \ {c}

(* The caller runs again before it was answered, and waits again.          *)
await_again(c) ==
    /\ \E call \in SchemeCalls : At(c, call)
    /\ c \notin replies
    /\ switch(block(status, c), c)
    /\ UNCHANGED <<wake, now, pc, processVars>>

(* A call of contexts_mut() while somebody holds the read lock never ends: *)
(* the kernel does not preempt, and interrupts are disabled.               *)
spin(c) == At(c, "spin") /\ UNCHANGED vars

-----------------------------------------------------------------------------
(* The end of clone: a vfork blocks the caller, the new context enters the *)
(* list, and switch() is called.                                           *)
clone_end(c, call) ==
    LET st == IF call = "vfork" THEN block(status, c) ELSE status
        pid == next_id
    IN  \/ /\ readers # {}
           /\ stay(st)
           /\ goto(c, "spin")
           /\ UNCHANGED <<next_id, ppid, vfork>>
        \/ /\ readers = {}
           /\ pid \in Contexts
           /\ next_id' = next_id + 1
           /\ ppid' = [ppid EXCEPT ![pid] = c]
           /\ vfork' = [vfork EXCEPT ![pid] = (call = "vfork")]
           /\ switch([st EXCEPT ![pid] = "Runnable"], c)
           /\ goto(c, "clone_ret")

(* The loop of clone that dups the open files, from the start or from the  *)
(* answer to the last dup on.                                              *)
clone(c, call) ==
    /\ At(c, "user") \/ answered(c, call)
    /\ \/ await(c, call) /\ UNCHANGED <<next_id, ppid, vfork>>
       \/ clone_end(c, call) /\ replies' = replies \ {c}
    /\ UNCHANGED <<wake, now, userFiles, waitpid, listed, target, saved, readers>>

(* The scheme of an open file is gone: EBADF.                              *)
clone_error(c, call) ==
    /\ answered(c, call)
    /\ goto(c, "user")
    /\ finish(c)
    /\ UNCHANGED <<status, pending, wake, CONTEXT_ID, signalled, now>>
    /\ UNCHANGED <<userFiles, ppid, vfork, waitpid, listed, target, next_id, readers>>

(* switch() returns to the caller of clone.                                *)
clone_return(c) ==
    /\ At(c, "clone_ret")
    /\ goto(c, "user")
    /\ UNCHANGED <<status, pending, wake, CONTEXT_ID, signalled, now, processVars>>

-----------------------------------------------------------------------------
(* The end of exec: a parent halted by vfork goes on, and the read lock of *)
(* the context list is released.                                           *)
exec_end(c, s) ==
    /\ stay(IF s.vfork /\ s.ppid # 0 THEN unblock(status, {s.ppid}) ELSE status)
    /\ goto(c, "user")
    /\ finish(c)
    /\ readers' = readers \ {c}

(* exec up to the end of the file: open, fstat, read and close.            *)
exec_open(c) ==
    /\ At(c, "user") \/ answered(c, "exec_open")
    /\ await(c, "exec_open")
    /\ UNCHANGED <<wake, now, userFiles, ppid, vfork, waitpid, listed, target, saved, next_id, readers>>

(* No such file, no permission, or not an ELF file.                        *)
exec_error(c) ==
    /\ answered(c, "exec_open")
    /\ goto(c, "user")
    /\ finish(c)
    /\ UNCHANGED <<status, pending, wake, CONTEXT_ID, signalled, now>>
    /\ UNCHANGED <<userFiles, ppid, vfork, waitpid, listed, target, next_id, readers>>

take_vfork(c) == vfork' = [vfork EXCEPT ![c] = FALSE]

(* The new image replaces the old one, under the read lock of the context  *)
(* list.  It is held while the files are dupped and closed.                *)
exec(c) ==
    LET s == [ppid |-> ppid[c], vfork |-> vfork[c]]
    IN  /\ At(c, "user") \/ answered(c, "exec_open")
        /\ take_vfork(c)
        /\ \/ /\ await(c, "exec_dup")
              /\ saved' = [saved EXCEPT ![c] = s]
              /\ readers' = readers \cup {c}
           \/ exec_end(c, s)
        /\ UNCHANGED <<wake, now, userFiles, ppid, waitpid, listed, target, next_id>>

exec_dup(c) ==
    /\ answered(c, "exec_dup")
    /\ \/ await(c, "exec_dup") /\ UNCHANGED <<saved, readers>>
       \/ exec_end(c, saved[c])
    /\ UNCHANGED <<wake, now, userFiles, ppid, vfork, waitpid, listed, target, next_id>>

-----------------------------------------------------------------------------
(* Bug: the statuses are copied to the parent and stay in the map as well. *)
receive_all_copy(c) == waitpid

(* WaitMap::receive_all                                                    *)
receive_all(c) == [waitpid EXCEPT ![c] = {}]

(* The statuses that c sends to its parent.                                *)
statuses(c) == waitpid[c] \cup {c}

(* The children of c get the parent p.                                     *)
transfer(c, p) == [x \in Contexts |-> IF ppid[x] = c THEN p ELSE ppid[x]]

(* The parent that c keeps halted.                                         *)
halted(c, p) == IF vfork[c] THEN {p} ELSE {}

(* WaitMap::send wakes those who wait for the map of p.                    *)
notified(p) == listed \cap {p}

(* exit after the files are closed, with p the parent c had when it began: *)
(* the children go to p, and p gets their statuses and that of c.          *)
exit_end(c, p) ==
    LET st == [status EXCEPT ![c] = "Exited"]
        woken == halted(c, p) \cup notified(p)
    IN  /\ ppid' = transfer(c, p)
        /\ vfork' = [x \in Contexts |-> vfork[x] /\ x # c /\ ppid[x] # c]
        /\ IF p # 0 /\ status[p] # "Absent"
           THEN /\ waitpid' = [receive_all(c) EXCEPT ![p] = @ \cup statuses(c)]
                /\ listed' = listed \ {p}
                /\ switch(unblock(st, woken), c)
           ELSE /\ waitpid' = receive_all(c)
                /\ switch(st, c)
                /\ UNCHANGED listed
        /\ goto(c, "exit")
        /\ finish(c)

(* exit, called by the program or by signal_handler, wherever c was.  No   *)
(* files are left to close in a second exit, nor in one out of exec's loop *)
(* over the files, which keeps its own reference to them.                  *)
exit(c) ==
    /\ At(c, "user") \/ (CONTEXT_ID = c /\ c \in signalled)
    /\ \/ /\ pc[c] \notin {"exit", "exec_dup"}
          /\ await(c, "exit")
          /\ saved' = [saved EXCEPT ![c] = [ppid |-> ppid[c], vfork |-> FALSE]]
          /\ UNCHANGED <<ppid, vfork, waitpid, listed>>
       \/ exit_end(c, ppid[c])
    /\ UNCHANGED <<wake, now, userFiles, target, next_id, readers>>

(* The loop of exit that closes the files goes on.                         *)
exit_close(c) ==
    /\ answered(c, "exit")
    /\ \/ await(c, "exit") /\ UNCHANGED <<ppid, vfork, waitpid, listed, saved>>
       \/ exit_end(c, saved[c].ppid)
    /\ UNCHANGED <<wake, now, userFiles, target, next_id, readers>>

-----------------------------------------------------------------------------
(* reap(k) and the return of waitpid.                                      *)
reap(c, k) ==
    \/ /\ readers # {}
       /\ goto(c, "spin")
       /\ UNCHANGED status
    \/ /\ readers = {}
       /\ goto(c, "user")
       /\ status' = [status EXCEPT ![k] = "Absent"]

(* The keys WaitMap::receive (of pid) or receive_any (pid = 0) can take:   *)
(* the lowest one.                                                         *)
available(c, pid) ==
    IF pid # 0 THEN waitpid[c] \cap {pid}
    ELSE IF waitpid[c] = {} THEN {} ELSE {Min(waitpid[c])}

(* The body of the loops of receive and receive_any.                       *)
waitpid_receive(c, pid, nohang) ==
    /\ \/ \E k \in available(c, pid) :
            /\ waitpid' = [waitpid EXCEPT ![c] = @ \ {k}]
            /\ target' = [target EXCEPT ![c] = 0]
            /\ reap(c, k)
            /\ UNCHANGED <<pending, CONTEXT_ID, signalled, listed>>
       \/ /\ available(c, pid) = {}
          /\ ~nohang
          /\ listed' = listed \cup {c}
          /\ target' = [target EXCEPT ![c] = pid]
          /\ switch(block(status, c), c)
          /\ goto(c, "waitpid")
          /\ UNCHANGED waitpid
       \/ /\ available(c, pid) = {}
          /\ nohang
          /\ UNCHANGED <<status, pending, CONTEXT_ID, signalled, pc, waitpid, listed, target>>
    /\ UNCHANGED <<wake, now, userFiles, ppid, vfork, saved, replies, next_id, readers>>

waitpid_call(c, pid, nohang) == At(c, "user") /\ waitpid_receive(c, pid, nohang)

waitpid_again(c) == At(c, "waitpid") /\ waitpid_receive(c, target[c], FALSE)

-----------------------------------------------------------------------------
Next ==
    \/ \E c \in Contexts :
        \/ \E call \in {"clone", "vfork"} : clone(c, call) \/ clone_error(c, call)
        \/ clone_return(c)
        \/ exec_open(c) \/ exec_error(c) \/ exec(c) \/ exec_dup(c)
        \/ exit(c) \/ exit_close(c)
        \/ \E pid \in Contexts \cup {0}, nohang \in BOOLEAN : waitpid_call(c, pid, nohang)
        \/ waitpid_again(c)
        \/ reply(c) \/ await_again(c) \/ spin(c)
    \/ schedule /\ UNCHANGED processVars

Spec == Init /\ [][Next]_vars

-----------------------------------------------------------------------------
(* Every exit status is in the waitpid map of at most one context, and the *)
(* context it is of has exited and is still in the list: waitpid() never   *)
(* reaps a context that is alive, and never one that is gone, whoever      *)
(* exits while exit() waits for a daemon, is signalled again, or hands on  *)
(* the statuses of its children.                                           *)
ReapsExited ==
    \A p \in Contexts : \A k \in waitpid[p] :
        /\ status[k] = "Exited"
        /\ \A q \in Contexts : k \in waitpid[q] => q = p

(* A context in the list has a parent that is alive, or none: exit() hands *)
(* its children to its own parent before it is itself an exited context.   *)
ParentAlive == \A c \in Contexts : live(c) => ppid[c] = 0 \/ live(ppid[c])

(* The status of an exited context waits for its parent, who is alive: no  *)
(* zombie is left that nobody can reap, but for those of FIRST's children  *)
(* that outlive it.  This and ParentAlive are what exit() keeps if closing *)
(* the files does not suspend it.                                          *)
ZombieHasReaper ==
    ~userFiles =>
        /\ ParentAlive
        /\ \A c \in Contexts :
             status[c] = "Exited" => ppid[c] = 0 \/ (live(ppid[c]) /\ c \in waitpid[ppid[c]])

(* While a vfork child runs in the memory of its parent the parent does    *)
(* not: it is halted in clone(), or a signal has taken it to exit(), until *)
(* the child execs or exits.  Not so for a parent that has slept before:   *)
(* its wake time of then is not reset, and switch() unblocks it at once.   *)
VforkHalts ==
    \A c \in Contexts :
        live(c) /\ vfork[c] =>
            ppid[c] # 0 /\ (pc[ppid[c]] \in {"clone_ret", "exit"} \/ wake[ppid[c]] # None)

(* A parent halted by vfork has a child that will let it go on: no exec,   *)
(* exit or signal of the child forgets the parent, if exec() is not        *)
(* suspended while it has taken the child's vfork.                         *)
VforkReleases ==
    \A p \in Contexts :
        ~userFiles /\ pc[p] = "clone_ret" /\ status[p] = "Blocked" =>
            \E c \in Contexts : live(c) /\ ppid[c] = p /\ vfork[c]

(* Nobody is blocked in waitpid() while the status it waits for is there:  *)
(* the loops of WaitMap::receive look again before each wait, and every    *)
(* send wakes the waiter, whichever child its status is of.                *)
WaitpidWakes ==
    \A c \in Contexts :
        pc[c] = "waitpid" /\ status[c] = "Blocked" =>
            c \in listed /\ available(c, target[c]) = {}

(* Processes as a whole: who exited is reaped once, by a parent that is    *)
(* there and is woken for it, and a parent halts for a vforked child       *)
(* exactly until the child has its own memory or is gone.                  *)
ProcessExact == ReapsExited /\ ZombieHasReaper /\ VforkHalts /\ VforkReleases /\ WaitpidWakes
-----------------------------------------------------------------------------
(* ProcessExact for any number of contexts, signals and sleeps.            *)

(* What the proofs need of the constants.                                  *)
Assumptions == FIRST \in Contexts /\ 0 \notin Contexts

(* The context that has the CPU can run, or spins on the lock of the list. *)
Runs ==
    /\ status[KMAIN] = "Runnable"
    /\ status[CONTEXT_ID] = "Runnable" \/ At(CONTEXT_ID, "spin")

(* Ids that were not given out, and parents are older than their children. *)
Fresh ==
    /\ \A c \in Contexts : c >= next_id => status[c] = "Absent" /\ pc[c] = "user"
    /\ \A c \in Contexts : ppid[c] < c /\ saved[c].ppid < c

(* Who is listed waits for a status that has not come, or was taken out of *)
(* waitpid by a signal.                                                    *)
Waits ==
    /\ \A c \in listed :
         pc[c] = "exit" \/ (pc[c] = "waitpid" /\ available(c, target[c]) = {})
    /\ \A c \in Contexts : pc[c] = "waitpid" /\ status[c] = "Blocked" => c \in listed

(* Without files of user schemes nothing suspends clone, exec or exit.     *)
Quiet ==
    ~userFiles =>
        /\ replies = {} /\ readers = {}
        /\ \A c \in Contexts : pc[c] \in SchemeCalls => ~live(c)

(* c keeps p halted: by its vfork, or by the one it has taken in exec.     *)
Halting(c, p) ==
    /\ live(c)
    /\ \/ vfork[c] /\ ppid[c] = p
       \/ pc[c] = "exec_dup" /\ saved[c].vfork /\ saved[c].ppid = p

(* p is halted, is exiting, or has slept before.                           *)
Held(p) ==
    \/ pc[p] = "exit" \/ wake[p] # None
    \/ pc[p] = "clone_ret" /\ (status[p] = "Blocked" \/ p \in signalled)

Halts ==
    /\ \A c \in Contexts : live(c) /\ vfork[c] => ppid[c] # 0 /\ pc[c] # "exec_dup"
    /\ \A c, p \in Contexts : Halting(c, p) => Held(p)
    /\ \A c, d, p \in Contexts :
         Halting(c, p) /\ Halting(d, p) => c = d \/ wake[p] # None \/ pc[p] = "exit"
    /\ \A c \in Contexts : live(c) /\ vfork[c] /\ pc[c] = "exit" => saved[c].ppid = ppid[c]

IInv ==
    /\ TypeOK /\ Runs /\ Fresh /\ Waits /\ Quiet /\ Halts
    /\ ReapsExited /\ ZombieHasReaper /\ VforkReleases

LEMMA IdFacts ==
    /\ Contexts \subseteq Ids /\ Contexts \subseteq Nat
    /\ KMAIN \in Ids /\ KMAIN \notin Contexts /\ None \notin Nat
  BY ContextAssumption DEF Ids

(* A context that has the CPU and does not spin can run and has its id.    *)
LEMMA RunningLives ==
    ASSUME IInv, NEW c \in Contexts, CONTEXT_ID = c, c \in signalled \/ pc[c] # "spin"
    PROVE  status[c] = "Runnable" /\ live(c) /\ c < next_id
<1>1. status[c] = "Runnable"
  BY DEF IInv, Runs, At
<1>2. c < next_id
  BY <1>1, IdFacts DEF IInv, Fresh, TypeOK
<1> QED
  BY <1>1, <1>2 DEF live

(* A call of switch() by c.                                                *)
LEMMA Switched ==
    ASSUME IInv, NEW c \in Contexts, CONTEXT_ID = c, NEW st \in [Ids -> Status],
           st[KMAIN] = "Runnable", switch(st, c), UNCHANGED <<wake, now>>
    PROVE  /\ ContextTypeOK' /\ Runs'
           /\ status'[c] = st[c]
           /\ signalled \ {c} \subseteq signalled'
           /\ \A x \in Contexts :
                \/ status'[x] = st[x]
                \/ st[x] = "Blocked" /\ status'[x] = "Runnable" /\ (x \in signalled' \/ wake[x] # None)
<1>1. ContextTypeOK
  BY DEF IInv, TypeOK
<1>2. /\ status' \in [Ids -> Status] /\ pending' \in [Ids -> Nat]
      /\ CONTEXT_ID' \in Ids /\ signalled' \in SUBSET Ids
      /\ signalled \ {c} \subseteq signalled' /\ status'[c] = st[c]
      /\ \A x \in Ids :
            \/ status'[x] = st[x]
            \/ st[x] = "Blocked" /\ status'[x] = "Runnable" /\ (x \in signalled' \/ Expired(x))
  BY <1>1, IdFacts, SwitchEffect
<1>3. RunsRunnable'
  BY <1>1, SwitchRuns
<1>4. ContextTypeOK'
  BY <1>1, <1>2 DEF ContextTypeOK
<1> QED
  BY <1>2, <1>3, <1>4, IdFacts DEF Runs, RunsRunnable, Expired

(* c blocks, and switch() is called.                                       *)
LEMMA Blocks ==
    ASSUME IInv, NEW c \in Contexts, CONTEXT_ID = c, status[c] = "Runnable",
           switch(block(status, c), c), UNCHANGED <<wake, now>>
    PROVE  /\ ContextTypeOK' /\ Runs'
           /\ status'[c] = "Blocked"
           /\ signalled \ {c} \subseteq signalled'
           /\ \A x \in Contexts \ {c} :
                \/ status'[x] = status[x]
                \/ status[x] = "Blocked" /\ status'[x] = "Runnable" /\ (x \in signalled' \/ wake[x] # None)
<1> DEFINE st == block(status, c)
<1>1. /\ st \in [Ids -> Status] /\ st[KMAIN] = "Runnable" /\ st[c] = "Blocked"
      /\ \A x \in Contexts \ {c} : st[x] = status[x]
  BY IdFacts DEF IInv, TypeOK, ContextTypeOK, Runs, block, Status
<1>2. switch(st, c)
  OBVIOUS
<1> HIDE DEF st
<1> QED
  BY <1>1, <1>2, Switched

(* The CPU stays with c, and the contexts cs are unblocked.                *)
LEMMA Wakes ==
    ASSUME IInv, NEW cs, stay(unblock(status, cs)), UNCHANGED <<wake, now>>
    PROVE  /\ ContextTypeOK'
           /\ CONTEXT_ID' = CONTEXT_ID /\ signalled' = signalled
           /\ status'[KMAIN] = "Runnable"
           /\ \A x \in Ids : status'[x] = IF x \in cs /\ status[x] = "Blocked" THEN "Runnable"
                                          ELSE status[x]
<1>1. /\ status' \in [Ids -> Status]
      /\ \A x \in Ids : status'[x] = IF x \in cs /\ status[x] = "Blocked" THEN "Runnable"
                                     ELSE status[x]
  BY DEF IInv, TypeOK, ContextTypeOK, stay, unblock, Status
<1>2. UNCHANGED <<pending, CONTEXT_ID, signalled>>
  BY DEF stay
<1> QED
  BY <1>1, <1>2, IdFacts DEF IInv, TypeOK, ContextTypeOK, Runs

-----------------------------------------------------------------------------
(* A step of c that changes no parent and no map and ends nobody: its call *)
(* goes on, waits or returns.  It may take its own vfork, and must then    *)
(* wake its parent or keep the vfork in saved.                             *)
GentleStep(c) ==
    /\ CONTEXT_ID = c /\ status[c] = "Runnable"
    /\ UNCHANGED <<wake, userFiles, ppid, waitpid, next_id, listed, target>>
    /\ \A x \in Contexts \ {c} : pc'[x] = pc[x] /\ saved'[x] = saved[x] /\ vfork'[x] = vfork[x]
    /\ \A x \in Contexts \ {c} :
         \/ status'[x] = status[x]
         \/ /\ status[x] = "Blocked" /\ status'[x] = "Runnable"
            /\ \/ x \in signalled' \/ wake[x] # None
               \/ Halting(c, x) /\ ~Halting(c, x)'
    /\ status'[c] \in {"Runnable", "Blocked"}
    /\ signalled \ {c} \subseteq signalled'
    /\ pc'[c] = "exit" \/ (c \notin signalled /\ pc[c] \notin {"exit", "waitpid"})
    /\ pc'[c] \notin {"waitpid", "clone_ret"}
    /\ saved'[c].ppid \in {saved[c].ppid, ppid[c], 0}
    /\ vfork'[c] => vfork[c]
    /\ pc'[c] = "exec_dup" => ~vfork'[c] /\ (saved'[c].vfork => Halting(c, saved'[c].ppid))
    /\ pc'[c] = "exit" /\ vfork'[c] => saved'[c].ppid = ppid[c]
    /\ ~userFiles =>
         /\ pc'[c] \notin SchemeCalls /\ replies' = {} /\ readers' = {}
         /\ vfork[c] /\ ~vfork'[c] => status'[ppid[c]] # "Blocked"

LEMMA GentleLives ==
    ASSUME IInv, NEW c \in Contexts, GentleStep(c)
    PROVE  \A x \in Contexts : /\ live(x)' <=> live(x)
                               /\ status'[x] = status[x] \/ (live(x) /\ live(x)')
  BY DEF GentleStep, live

LEMMA GentleFamily ==
    ASSUME Assumptions, IInv, NEW c \in Contexts, GentleStep(c)
    PROVE  Fresh' /\ ReapsExited' /\ ZombieHasReaper'
<1>1. \A x \in Contexts : /\ live(x)' <=> live(x)
                          /\ status'[x] = status[x] \/ (live(x) /\ live(x)')
  BY GentleLives
<1>2. Fresh'
  <2>1. c < next_id /\ next_id \in Nat
    BY RunningLives, IdFacts DEF IInv, GentleStep, TypeOK, Fresh
  <2>2. \A x \in Contexts : x >= next_id => status'[x] = "Absent" /\ pc'[x] = "user"
    BY <1>1, <2>1, IdFacts DEF IInv, GentleStep, Fresh, live
  <2>3. \A x \in Contexts : ppid'[x] < x /\ saved'[x].ppid < x
    <3>1. \A x \in Contexts : ppid[x] < x /\ saved[x].ppid < x /\ 0 < x
      BY IdFacts DEF IInv, Fresh, Assumptions
    <3> QED
      BY <3>1 DEF GentleStep
  <2>4. next_id' = next_id
    BY DEF GentleStep
  <2> QED
    BY <2>2, <2>3, <2>4 DEF Fresh
<1>3. ReapsExited'
  BY <1>1 DEF IInv, ReapsExited, GentleStep, live, TypeOK
<1>4. ZombieHasReaper'
  <2>1. UNCHANGED <<userFiles, ppid, waitpid>>
    BY DEF GentleStep
  <2>2. \A x \in Contexts : ppid[x] \in Contexts \cup {0}
    BY DEF IInv, TypeOK
  <2>3. \A x \in Contexts : status'[x] = "Exited" => status[x] = "Exited"
    BY <1>1 DEF live
  <2> QED
    BY <1>1, <2>1, <2>2, <2>3 DEF IInv, ZombieHasReaper, ParentAlive
<1> QED
  BY <1>2, <1>3, <1>4

LEMMA GentleWaits ==
    ASSUME IInv, TypeOK', NEW c \in Contexts, GentleStep(c)
    PROVE  Waits' /\ Quiet' /\ VforkReleases'
<1>1. \A x \in Contexts : live(x)' <=> live(x)
  BY GentleLives
<1>2. Waits'
  <2>1. \A x \in Contexts : available(x, target[x])' = available(x, target[x])
    BY DEF GentleStep, available
  <2>2. listed' = listed /\ listed \subseteq Contexts /\ target' = target
    BY DEF GentleStep, IInv, TypeOK
  <2>3. \A x \in listed' : pc'[x] = "exit" \/ (pc'[x] = "waitpid" /\ available(x, target[x])' = {})
    BY <2>1, <2>2 DEF GentleStep, IInv, Waits
  <2>4. \A x \in Contexts : pc'[x] = "waitpid" /\ status'[x] = "Blocked" => x \in listed'
    BY <2>2 DEF GentleStep, IInv, Waits
  <2> QED
    BY <2>3, <2>4 DEF Waits
<1>3. Quiet'
  BY <1>1 DEF GentleStep, IInv, Quiet
<1>4. VforkReleases'
  <2> SUFFICES ASSUME NEW p \in Contexts, ~userFiles', pc'[p] = "clone_ret", status'[p] = "Blocked"
               PROVE  \E d \in Contexts : live(d)' /\ ppid'[d] = p /\ vfork'[d]
    BY DEF VforkReleases
  <2>1. p # c /\ pc[p] = "clone_ret" /\ status[p] = "Blocked" /\ ~userFiles
    BY DEF GentleStep
  <2>2. PICK d \in Contexts : live(d) /\ ppid[d] = p /\ vfork[d]
    BY <2>1 DEF IInv, VforkReleases
  <2>3. vfork'[d] /\ ppid'[d] = p
    BY <2>1, <2>2 DEF GentleStep, TypeOK
  <2> QED
    BY <1>1, <2>2, <2>3
<1> QED
  BY <1>2, <1>3, <1>4

LEMMA GentleHalts ==
    ASSUME Assumptions, IInv, TypeOK', NEW c \in Contexts, GentleStep(c)
    PROVE  Halts'
<1>1. \A x \in Contexts : live(x)' <=> live(x)
  BY GentleLives
<1>2. UNCHANGED <<wake, ppid>>
  BY DEF GentleStep
<1>3. live(c)
  BY DEF GentleStep, live
<1>4. \A x, p \in Contexts : Halting(x, p)' => Halting(x, p)
  <2> SUFFICES ASSUME NEW x \in Contexts, NEW p \in Contexts, Halting(x, p)'
               PROVE  Halting(x, p)
    OBVIOUS
  <2>1. CASE x # c
    BY <1>1, <2>1 DEF Halting, GentleStep
  <2>2. CASE x = c
    BY <1>3, <2>2 DEF Halting, GentleStep
  <2> QED
    BY <2>1, <2>2
<1>5. \A p \in Contexts : pc[p] = "exit" => pc'[p] = "exit"
  BY DEF GentleStep
<1>6. \A x, p \in Contexts : Halting(x, p)' => Held(p)'
  <2> SUFFICES ASSUME NEW x \in Contexts, NEW p \in Contexts, Halting(x, p)',
                      pc[p] # "exit", wake[p] = None
               PROVE  Held(p)'
    BY <1>2, <1>5 DEF Held
  <2>1. pc[p] = "clone_ret" /\ (status[p] = "Blocked" \/ p \in signalled)
    BY <1>4 DEF IInv, Halts, Held
  <2>2. CASE p = c
    BY <2>1, <2>2 DEF GentleStep, Held
  <2>3. CASE p # c
    <3>1. pc'[p] = "clone_ret"
      BY <2>1, <2>3 DEF GentleStep
    <3>2. ~(Halting(c, p) /\ ~Halting(c, p)')
      BY <1>4 DEF IInv, Halts
    <3>3. status'[p] = "Blocked" \/ p \in signalled'
      BY <2>1, <2>3, <3>2 DEF GentleStep
    <3> QED
      BY <3>1, <3>3 DEF Held
  <2> QED
    BY <2>2, <2>3
<1>7. \A x \in Contexts : live(x)' /\ vfork'[x] => live(x) /\ vfork[x]
  BY <1>1 DEF GentleStep
<1>8. \A x, d, p \in Contexts :
        Halting(x, p)' /\ Halting(d, p)' => x = d \/ wake'[p] # None \/ pc'[p] = "exit"
  BY <1>2, <1>4, <1>5 DEF IInv, Halts
<1>9. \A x \in Contexts : live(x)' /\ vfork'[x] /\ pc'[x] = "exit" => saved'[x].ppid = ppid'[x]
  BY <1>2, <1>7, ZenonT(60) DEF IInv, Halts, GentleStep
<1>10. \A x \in Contexts : live(x)' /\ vfork'[x] => ppid'[x] # 0 /\ pc'[x] # "exec_dup"
  BY <1>2, <1>7 DEF IInv, Halts, GentleStep
<1> QED
  BY <1>6, <1>8, <1>9, <1>10 DEF Halts

LEMMA GentleKeeps ==
    ASSUME Assumptions, IInv, TypeOK', Runs', NEW c \in Contexts, GentleStep(c)
    PROVE  IInv'
  BY GentleFamily, GentleWaits, GentleHalts DEF IInv

LEMMA Acting ==
    ASSUME IInv, NEW c \in Contexts, NEW call, call # "spin", At(c, call)
    PROVE  /\ CONTEXT_ID = c /\ c \notin signalled /\ pc[c] = call
           /\ status[c] = "Runnable" /\ live(c) /\ c < next_id
           /\ call \in SchemeCalls => userFiles
<1>1. CONTEXT_ID = c /\ c \notin signalled /\ pc[c] = call
  BY DEF At
<1>2. status[c] = "Runnable" /\ live(c) /\ c < next_id
  BY <1>1, RunningLives
<1> QED
  BY <1>1, <1>2 DEF IInv, Quiet

(* The call of c is suspended, or goes on to be.                           *)
LEMMA AwaitKeeps ==
    ASSUME Assumptions, IInv, NEW c \in Contexts, CONTEXT_ID = c, status[c] = "Runnable", userFiles,
           switch(block(status, c), c),
           UNCHANGED <<wake, now, userFiles, ppid, waitpid, next_id, listed, target>>,
           NEW call \in SchemeCalls, goto(c, call),
           NEW s \in [ppid : Contexts \cup {0}, vfork : BOOLEAN], saved' = [saved EXCEPT ![c] = s],
           NEW v \in BOOLEAN, vfork' = [vfork EXCEPT ![c] = v], v => vfork[c],
           replies' \in SUBSET Contexts, readers' \in SUBSET Contexts,
           s.ppid \in {saved[c].ppid, ppid[c]},
           call = "exit" \/ (c \notin signalled /\ pc[c] \notin {"exit", "waitpid"}),
           call = "exec_dup" => ~v /\ (s.vfork => Halting(c, s.ppid)),
           call = "exit" /\ v => s.ppid = ppid[c]
    PROVE  IInv'
<1>1. /\ ContextTypeOK' /\ Runs'
      /\ status'[c] = "Blocked"
      /\ signalled \ {c} \subseteq signalled'
      /\ \A x \in Contexts \ {c} :
           \/ status'[x] = status[x]
           \/ status[x] = "Blocked" /\ status'[x] = "Runnable" /\ (x \in signalled' \/ wake[x] # None)
  BY Blocks
<1>2. /\ pc'[c] = call /\ saved'[c] = s /\ vfork'[c] = v
      /\ \A x \in Contexts \ {c} : pc'[x] = pc[x] /\ saved'[x] = saved[x] /\ vfork'[x] = vfork[x]
  BY DEF IInv, TypeOK, goto
<1>3. TypeOK'
  <2>1. pc' \in [Contexts -> Calls] /\ vfork' \in [Contexts -> BOOLEAN]
    BY DEF IInv, TypeOK, goto, Calls
  <2>2. saved' \in [Contexts -> [ppid : Contexts \cup {0}, vfork : BOOLEAN]]
    BY DEF IInv, TypeOK
  <2> QED
    BY <1>1, <2>1, <2>2 DEF IInv, TypeOK
<1>4. pc'[c] \notin {"waitpid", "clone_ret"}
  BY <1>2 DEF SchemeCalls
<1>5. GentleStep(c)
  BY <1>1, <1>2, <1>4 DEF GentleStep
<1> QED
  BY <1>1, <1>3, <1>5, GentleKeeps

(* The same with the locals and the vfork of c as they are.                *)
LEMMA AwaitMore ==
    ASSUME Assumptions, IInv, NEW c \in Contexts, CONTEXT_ID = c, status[c] = "Runnable", userFiles,
           c \notin signalled, pc[c] \in SchemeCalls \cup {"user"},
           switch(block(status, c), c),
           UNCHANGED <<wake, now, userFiles, ppid, vfork, waitpid, next_id, listed, target, saved>>,
           NEW call \in SchemeCalls, goto(c, call),
           replies' \in SUBSET Contexts, readers' \in SUBSET Contexts,
           call \in {"exit", "exec_dup"} \/ pc[c] = "exit" => pc[c] = call
    PROVE  IInv'
<1>1. /\ saved[c] \in [ppid : Contexts \cup {0}, vfork : BOOLEAN]
      /\ saved' = [saved EXCEPT ![c] = saved[c]]
      /\ vfork[c] \in BOOLEAN /\ vfork' = [vfork EXCEPT ![c] = vfork[c]]
  BY DEF IInv, TypeOK
<1>2. live(c)
  BY DEF live
<1>3. call = "exit" \/ (c \notin signalled /\ pc[c] \notin {"exit", "waitpid"})
  BY DEF SchemeCalls
<1>4. call = "exec_dup" => ~vfork[c] /\ (saved[c].vfork => Halting(c, saved[c].ppid))
  BY <1>2 DEF IInv, Halts, Halting
<1>5. call = "exit" /\ vfork[c] => saved[c].ppid = ppid[c]
  BY <1>2 DEF IInv, Halts
<1> DEFINE s == saved[c]
           v == vfork[c]
<1>6. s \in [ppid : Contexts \cup {0}, vfork : BOOLEAN] /\ v \in BOOLEAN
      /\ s.ppid = saved[c].ppid /\ s.vfork = saved[c].vfork
  BY <1>1
<1> QED
  BY <1>1, <1>3, <1>4, <1>5, <1>6, AwaitKeeps

LEMMA ExecOpenKeeps ==
    ASSUME Assumptions, IInv, NEW c \in Contexts, exec_open(c)
    PROVE  IInv'
<1>1. PICK call \in {"user", "exec_open"} : At(c, call)
  BY DEF exec_open, answered
<1>2. CONTEXT_ID = c /\ c \notin signalled /\ pc[c] = call /\ status[c] = "Runnable"
  BY <1>1, Acting
<1>3. replies' \in SUBSET Contexts /\ readers' \in SUBSET Contexts
  BY DEF exec_open, await, IInv, TypeOK
<1> QED
  BY <1>2, <1>3, AwaitMore DEF exec_open, await, SchemeCalls

LEMMA AwaitAgainKeeps ==
    ASSUME Assumptions, IInv, NEW c \in Contexts, await_again(c)
    PROVE  IInv'
<1>1. PICK call \in SchemeCalls : At(c, call)
  BY DEF await_again
<1>2. CONTEXT_ID = c /\ c \notin signalled /\ pc[c] = call /\ status[c] = "Runnable" /\ userFiles
  BY <1>1, Acting DEF SchemeCalls
<1>3. replies' \in SUBSET Contexts /\ readers' \in SUBSET Contexts
  BY DEF await_again, processVars, IInv, TypeOK
<1>4. goto(c, call)
  BY <1>2 DEF await_again, goto, IInv, TypeOK
<1>5. /\ switch(block(status, c), c)
      /\ UNCHANGED <<wake, now, userFiles, ppid, vfork, waitpid, next_id, listed, target, saved>>
  BY DEF await_again, processVars
<1> QED
  BY <1>2, <1>3, <1>4, <1>5, AwaitMore

(* The call of c returns, and the contexts cs that c kept halted go on.    *)
LEMMA ReturnKeeps ==
    ASSUME Assumptions, IInv, NEW c \in Contexts,
           NEW call \in {"user", "clone_ret"} \cup SchemeCalls, call # "exit", At(c, call),
           NEW cs \in SUBSET Contexts,
           ContextTypeOK', CONTEXT_ID' = CONTEXT_ID, signalled' = signalled, status'[KMAIN] = "Runnable",
           \A x \in Ids : status'[x] = IF x \in cs /\ status[x] = "Blocked" THEN "Runnable" ELSE status[x],
           UNCHANGED <<wake, userFiles, ppid, waitpid, next_id, listed, target>>,
           goto(c, "user"),
           NEW s \in {saved[c], NoLocals}, saved' = [saved EXCEPT ![c] = s],
           NEW v \in BOOLEAN, vfork' = [vfork EXCEPT ![c] = v], v => vfork[c],
           replies' \subseteq replies, readers' \subseteq readers,
           \A x \in cs : Halting(c, x) /\ ~(v /\ ppid[c] = x),
           vfork[c] /\ ~v => ppid[c] \in cs
    PROVE  IInv'
<1>1. CONTEXT_ID = c /\ c \notin signalled /\ pc[c] = call /\ status[c] = "Runnable"
  <2>1. call # "spin"
    BY DEF SchemeCalls
  <2> QED
    BY <2>1, Acting
<1>2. /\ pc'[c] = "user" /\ saved'[c] = s /\ vfork'[c] = v
      /\ \A x \in Contexts \ {c} : pc'[x] = pc[x] /\ saved'[x] = saved[x] /\ vfork'[x] = vfork[x]
  BY DEF IInv, TypeOK, goto
<1>3. NoLocals \in [ppid : Contexts \cup {0}, vfork : BOOLEAN] /\ NoLocals.ppid = 0
  BY DEF NoLocals
<1>4. TypeOK'
  <2>1. pc' \in [Contexts -> Calls] /\ vfork' \in [Contexts -> BOOLEAN]
    BY DEF IInv, TypeOK, goto, Calls
  <2>2. saved' \in [Contexts -> [ppid : Contexts \cup {0}, vfork : BOOLEAN]]
    BY <1>3 DEF IInv, TypeOK
  <2> QED
    BY <2>1, <2>2 DEF IInv, TypeOK
<1>5. Runs'
  BY <1>1, IdFacts DEF Runs
<1>6. \A x \in cs : Halting(c, x) /\ ~Halting(c, x)'
  BY <1>2 DEF Halting
<1>7. status'[c] = "Runnable"
  BY <1>1, IdFacts
<1>8. \A x \in Contexts \ {c} :
        \/ status'[x] = status[x]
        \/ status[x] = "Blocked" /\ status'[x] = "Runnable" /\ Halting(c, x) /\ ~Halting(c, x)'
  BY <1>6, IdFacts
<1>9. ~userFiles => /\ replies' = {} /\ readers' = {}
                    /\ vfork[c] /\ ~vfork'[c] => status'[ppid[c]] # "Blocked"
  <2>1. \A x \in cs : status'[x] # "Blocked"
    BY IdFacts
  <2> QED
    BY <1>2, <2>1 DEF IInv, Quiet
<1>10. saved'[c].ppid \in {saved[c].ppid, ppid[c], 0}
  BY <1>2, <1>3
<1>11. pc[c] \notin {"exit", "waitpid"} /\ pc'[c] \notin {"waitpid", "clone_ret"} \cup SchemeCalls
  BY <1>1, <1>2 DEF SchemeCalls
<1>12. GentleStep(c)
  <2>1. pc'[c] # "exec_dup" /\ pc'[c] # "exit"
    BY <1>2
  <2> QED
    BY <1>1, <1>2, <1>7, <1>8, <1>9, <1>10, <1>11, <2>1 DEF GentleStep
<1> QED
  BY <1>4, <1>5, <1>12, GentleKeeps

LEMMA NobodyWoken ==
    ASSUME IInv, UNCHANGED <<status, pending, wake, CONTEXT_ID, signalled, now>>
    PROVE  /\ ContextTypeOK' /\ status'[KMAIN] = "Runnable"
           /\ \A x \in Ids : status'[x] = IF x \in {} /\ status[x] = "Blocked" THEN "Runnable"
                                          ELSE status[x]
  BY DEF IInv, TypeOK, ContextTypeOK, Runs

LEMMA ErrorKeeps ==
    ASSUME Assumptions, IInv, NEW c \in Contexts, NEW call \in SchemeCalls \ {"exit"},
           answered(c, call), goto(c, "user"), finish(c),
           UNCHANGED <<status, pending, wake, CONTEXT_ID, signalled, now>>,
           UNCHANGED <<userFiles, ppid, vfork, waitpid, listed, target, next_id, readers>>
    PROVE  IInv'
<1> DEFINE v == vfork[c]
           cs == {}
           s == NoLocals
<1>1. At(c, call) /\ call \in {"user", "clone_ret"} \cup SchemeCalls /\ call # "exit"
  BY DEF answered
<1>2. v \in BOOLEAN /\ vfork' = [vfork EXCEPT ![c] = v] /\ (v <=> vfork[c])
  BY DEF IInv, TypeOK
<1>3. saved' = [saved EXCEPT ![c] = s] /\ s \in {saved[c], NoLocals} /\ replies' \subseteq replies
  BY DEF finish
<1>4. cs \in SUBSET Contexts /\ readers' \subseteq readers
  OBVIOUS
<1>5. /\ ContextTypeOK' /\ status'[KMAIN] = "Runnable"
      /\ \A x \in Ids : status'[x] = IF x \in cs /\ status[x] = "Blocked" THEN "Runnable" ELSE status[x]
  BY NobodyWoken
<1>6. \A x \in cs : Halting(c, x) /\ ~(v /\ ppid[c] = x)
  OBVIOUS
<1> HIDE DEF v, cs, s
<1> QED
  BY <1>1, <1>2, <1>3, <1>4, <1>5, <1>6, ReturnKeeps

LEMMA CloneReturnKeeps ==
    ASSUME Assumptions, IInv, NEW c \in Contexts, clone_return(c)
    PROVE  IInv'
<1> DEFINE v == vfork[c]
           cs == {}
           s == saved[c]
           call == "clone_ret"
<1>1. At(c, call) /\ call \in {"user", "clone_ret"} \cup SchemeCalls /\ call # "exit"
  BY DEF clone_return
<1>2. v \in BOOLEAN /\ vfork' = [vfork EXCEPT ![c] = v] /\ (v <=> vfork[c])
  BY DEF IInv, TypeOK, clone_return, processVars
<1>3. saved' = [saved EXCEPT ![c] = s] /\ s \in {saved[c], NoLocals}
  BY DEF IInv, TypeOK, clone_return, processVars
<1>4. cs \in SUBSET Contexts /\ replies' \subseteq replies /\ readers' \subseteq readers
  BY DEF clone_return, processVars
<1>5. /\ ContextTypeOK' /\ status'[KMAIN] = "Runnable"
      /\ \A x \in Ids : status'[x] = IF x \in cs /\ status[x] = "Blocked" THEN "Runnable" ELSE status[x]
  BY NobodyWoken DEF clone_return
<1>6. \A x \in cs : Halting(c, x) /\ ~(v /\ ppid[c] = x)
  OBVIOUS
<1>7. /\ goto(c, "user") /\ CONTEXT_ID' = CONTEXT_ID /\ signalled' = signalled
      /\ UNCHANGED <<wake, userFiles, ppid, waitpid, next_id, listed, target>>
  BY DEF clone_return, processVars
<1> HIDE DEF v, cs, s, call
<1> QED
  BY <1>1, <1>2, <1>3, <1>4, <1>5, <1>6, <1>7, ReturnKeeps

(* exec_end, with v the vfork that c is left with.                         *)
LEMMA ExecEndKeeps ==
    ASSUME Assumptions, IInv, NEW c \in Contexts, NEW call \in {"user", "exec_open", "exec_dup"}, At(c, call),
           NEW s \in [ppid : Contexts \cup {0}, vfork : BOOLEAN], exec_end(c, s),
           UNCHANGED <<wake, now, userFiles, ppid, waitpid, listed, target, next_id>>,
           NEW v \in BOOLEAN, vfork' = [vfork EXCEPT ![c] = v], ~v,
           s.vfork => Halting(c, s.ppid),
           vfork[c] => s.vfork /\ s.ppid = ppid[c]
    PROVE  IInv'
<1> DEFINE cs == IF s.vfork /\ s.ppid # 0 THEN {s.ppid} ELSE {}
           t == NoLocals
<1>1. call \in {"user", "clone_ret"} \cup SchemeCalls /\ call # "exit"
  BY DEF SchemeCalls
<1>2. saved' = [saved EXCEPT ![c] = t] /\ t \in {saved[c], NoLocals}
  BY DEF exec_end, finish
<1>3. cs \in SUBSET Contexts /\ replies' \subseteq replies /\ readers' \subseteq readers
  BY DEF exec_end, finish
<1>4. CONTEXT_ID' = CONTEXT_ID /\ signalled' = signalled /\ goto(c, "user")
  BY DEF exec_end, stay
<1>5. /\ ContextTypeOK' /\ status'[KMAIN] = "Runnable"
      /\ \A x \in Ids : status'[x] = IF x \in cs /\ status[x] = "Blocked" THEN "Runnable" ELSE status[x]
  <2>1. CASE s.vfork /\ s.ppid # 0
    BY <2>1, Wakes DEF exec_end
  <2>2. CASE ~(s.vfork /\ s.ppid # 0)
    <3>1. UNCHANGED <<status, pending, wake, CONTEXT_ID, signalled, now>>
      BY <2>2 DEF exec_end, stay
    <3> QED
      BY <2>2, <3>1, NobodyWoken
  <2> QED
    BY <2>1, <2>2
<1>6. \A x \in cs : Halting(c, x) /\ ~(v /\ ppid[c] = x)
  OBVIOUS
<1>7. vfork[c] /\ ~v => ppid[c] \in cs
  <2>1. live(c)
    BY Acting
  <2> QED
    BY <2>1 DEF IInv, Halts
<1> HIDE DEF cs, t
<1> QED
  BY <1>1, <1>2, <1>3, <1>4, <1>5, <1>6, <1>7, ReturnKeeps

LEMMA ExecKeeps ==
    ASSUME Assumptions, IInv, NEW c \in Contexts, exec(c)
    PROVE  IInv'
<1>1. PICK call \in {"user", "exec_open"} : At(c, call)
  BY DEF exec, answered
<1>2. /\ CONTEXT_ID = c /\ c \notin signalled /\ pc[c] = call
      /\ status[c] = "Runnable" /\ live(c)
  BY <1>1, Acting
<1> DEFINE s == [ppid |-> ppid[c], vfork |-> vfork[c]]
           v == FALSE
<1>3. /\ s \in [ppid : Contexts \cup {0}, vfork : BOOLEAN]
      /\ s.ppid = ppid[c] /\ (s.vfork <=> vfork[c])
      /\ v \in BOOLEAN /\ ~v /\ vfork' = [vfork EXCEPT ![c] = v]
  BY DEF IInv, TypeOK, exec, take_vfork
<1>4. s.vfork => Halting(c, s.ppid)
  BY <1>2, <1>3 DEF Halting
<1>5. UNCHANGED <<wake, now, userFiles, ppid, waitpid, listed, target, next_id>>
  BY DEF exec
<1>6. CASE await(c, "exec_dup") /\ saved' = [saved EXCEPT ![c] = s] /\ readers' = readers \cup {c}
  <2>1. replies' \in SUBSET Contexts /\ readers' \in SUBSET Contexts
    BY <1>6 DEF await, IInv, TypeOK
  <2> DEFINE to == "exec_dup"
  <2>2. /\ userFiles /\ goto(c, to) /\ switch(block(status, c), c)
        /\ saved' = [saved EXCEPT ![c] = s]
        /\ to \in SchemeCalls /\ to # "exit"
    BY <1>6 DEF await, SchemeCalls
  <2> HIDE DEF s, v, to
  <2> QED
    BY <1>2, <1>3, <1>4, <1>5, <2>1, <2>2, AwaitKeeps
<1>7. CASE exec_end(c, s)
  <2>1. vfork[c] => s.vfork /\ s.ppid = ppid[c]
    BY <1>3
  <2> HIDE DEF s, v
  <2> QED
    BY <1>1, <1>3, <1>4, <1>5, <1>7, <2>1, ExecEndKeeps
<1> QED
  BY <1>6, <1>7 DEF exec

LEMMA ExecDupKeeps ==
    ASSUME Assumptions, IInv, NEW c \in Contexts, exec_dup(c)
    PROVE  IInv'
<1> DEFINE call == "exec_dup"
           s == saved[c]
           v == FALSE
<1>1. At(c, call) /\ call # "spin" /\ call \in SchemeCalls
  BY DEF exec_dup, answered, SchemeCalls
<1>2. /\ CONTEXT_ID = c /\ c \notin signalled /\ pc[c] = call
      /\ status[c] = "Runnable" /\ live(c)
  BY <1>1, Acting
<1>3. ~vfork[c]
  BY <1>2 DEF IInv, Halts
<1>4. UNCHANGED <<wake, now, userFiles, ppid, vfork, waitpid, listed, target, next_id>>
  BY DEF exec_dup
<1>5. CASE await(c, "exec_dup") /\ UNCHANGED <<saved, readers>>
  <2>1. replies' \in SUBSET Contexts /\ readers' \in SUBSET Contexts
    BY <1>5 DEF await, IInv, TypeOK
  <2>2. userFiles /\ goto(c, call) /\ switch(block(status, c), c) /\ saved' = saved
    BY <1>5 DEF await
  <2> HIDE DEF call
  <2> QED
    BY <1>1, <1>2, <1>4, <2>1, <2>2, AwaitMore
<1>6. CASE exec_end(c, s)
  <2>1. /\ s \in [ppid : Contexts \cup {0}, vfork : BOOLEAN]
        /\ v \in BOOLEAN /\ ~v /\ vfork' = [vfork EXCEPT ![c] = v]
    <3>1. vfork[c] = FALSE /\ vfork \in [Contexts -> BOOLEAN]
      BY <1>3 DEF IInv, TypeOK
    <3> QED
      BY <3>1, <1>4 DEF IInv, TypeOK
  <2>2. s.vfork => Halting(c, s.ppid)
    BY <1>2 DEF Halting
  <2>3. call \in {"user", "exec_open", "exec_dup"}
    OBVIOUS
  <2> HIDE DEF s, v, call
  <2> QED
    BY <1>1, <1>3, <1>4, <1>6, <2>1, <2>2, <2>3, ExecEndKeeps
<1> QED
  BY <1>5, <1>6 DEF exec_dup

(* clone waits for the list's lock for ever.                               *)
LEMMA CloneSpins ==
    ASSUME Assumptions, IInv, NEW c \in Contexts, NEW call \in {"clone", "vfork"},
           NEW k \in {"user", "clone", "vfork"}, At(c, k),
           readers # {}, NEW st \in {status, block(status, c)}, stay(st), goto(c, "spin"),
           replies' = replies \ {c},
           UNCHANGED <<next_id, ppid, vfork, wake, now, userFiles, waitpid, listed, target, saved, readers>>
    PROVE  IInv'
<1>1. /\ CONTEXT_ID = c /\ c \notin signalled /\ pc[c] = k
      /\ status[c] = "Runnable"
  BY Acting
<1>2. /\ status' \in [Ids -> Status] /\ status'[c] \in {"Runnable", "Blocked"}
      /\ \A x \in Ids \ {c} : status'[x] = status[x]
  <2>1. st \in [Ids -> Status] /\ st[c] \in {"Runnable", "Blocked"} /\ \A x \in Ids \ {c} : st[x] = status[x]
    BY <1>1, IdFacts DEF IInv, TypeOK, ContextTypeOK, block, Status
  <2> QED
    BY <2>1 DEF stay
<1>3. ContextTypeOK' /\ CONTEXT_ID' = c /\ signalled' = signalled
  BY <1>1, <1>2 DEF IInv, TypeOK, ContextTypeOK, stay
<1>4. /\ pc'[c] = "spin" /\ pc' \in [Contexts -> Calls]
      /\ \A x \in Contexts \ {c} : pc'[x] = pc[x]
  BY DEF IInv, TypeOK, goto, Calls
<1>5. TypeOK'
  BY <1>3, <1>4 DEF IInv, TypeOK
<1>6. Runs'
  BY <1>1, <1>2, <1>3, <1>4, IdFacts DEF IInv, Runs, At
<1>7. userFiles
  BY DEF IInv, Quiet
<1>8. GentleStep(c)
  BY <1>1, <1>2, <1>3, <1>4, <1>7, IdFacts DEF GentleStep
<1> QED
  BY <1>5, <1>6, <1>8, GentleKeeps

(* clone puts the new context pid into the list.                           *)
CloneStep(c, k, call, pid) ==
    /\ CONTEXT_ID = c /\ pc[c] = k /\ status[c] = "Runnable" /\ c < pid /\ pid \in Nat
    /\ pid = next_id /\ next_id' = pid + 1 /\ status[pid] = "Absent" /\ pc[pid] = "user"
    /\ UNCHANGED <<wake, userFiles, waitpid, listed, target, saved>>
    /\ \A x \in Contexts \ {pid} : ppid'[x] = ppid[x] /\ vfork'[x] = vfork[x]
    /\ ppid'[pid] = c /\ (vfork'[pid] <=> call = "vfork")
    /\ \A x \in Contexts \ {c} : pc'[x] = pc[x]
    /\ pc'[c] = "clone_ret"
    /\ status'[pid] = "Runnable"
    /\ status'[c] = IF call = "vfork" THEN "Blocked" ELSE "Runnable"
    /\ \A x \in Contexts \ {c, pid} :
         \/ status'[x] = status[x]
         \/ status[x] = "Blocked" /\ status'[x] = "Runnable" /\ (x \in signalled' \/ wake[x] # None)
    /\ signalled \ {c} \subseteq signalled'
    /\ replies' = replies \ {c} /\ readers' = readers

LEMMA CloneSteps ==
    ASSUME Assumptions, IInv, NEW c \in Contexts, NEW call \in {"clone", "vfork"},
           NEW k \in {"user", "clone", "vfork"}, At(c, k), next_id \in Contexts,
           NEW st, st = IF call = "vfork" THEN block(status, c) ELSE status,
           next_id' = next_id + 1,
           ppid' = [ppid EXCEPT ![next_id] = c],
           vfork' = [vfork EXCEPT ![next_id] = (call = "vfork")],
           switch([st EXCEPT ![next_id] = "Runnable"], c),
           goto(c, "clone_ret"),
           replies' = replies \ {c},
           UNCHANGED <<wake, now, userFiles, waitpid, listed, target, saved, readers>>
    PROVE  CloneStep(c, k, call, next_id) /\ TypeOK' /\ Runs'
<1> DEFINE pid == next_id
           nst == [st EXCEPT ![pid] = "Runnable"]
<1>1. /\ CONTEXT_ID = c /\ c \notin signalled /\ pc[c] = k
      /\ status[c] = "Runnable" /\ c < pid
  BY Acting
<1>2. pid \in Contexts /\ pid \in Nat /\ pid # c /\ pid # KMAIN /\ status[pid] = "Absent" /\ pc[pid] = "user"
  <2>1. pid \in Nat /\ pid >= pid
    BY DEF IInv, TypeOK
  <2> QED
    BY <1>1, <2>1, IdFacts DEF IInv, Fresh
<1>3. /\ st \in [Ids -> Status] /\ st[c] = IF call = "vfork" THEN "Blocked" ELSE "Runnable"
      /\ \A x \in Ids \ {c} : st[x] = status[x]
  BY <1>1, IdFacts DEF IInv, TypeOK, ContextTypeOK, block, Status
<1>4. /\ nst \in [Ids -> Status] /\ nst[pid] = "Runnable" /\ nst[KMAIN] = "Runnable"
      /\ nst[c] = IF call = "vfork" THEN "Blocked" ELSE "Runnable"
      /\ \A x \in Contexts \ {c, pid} : nst[x] = status[x]
  BY <1>2, <1>3, IdFacts DEF IInv, Runs, Status
<1>5. switch(nst, c)
  OBVIOUS
<1>6. /\ ContextTypeOK' /\ Runs'
      /\ status'[c] = nst[c]
      /\ signalled \ {c} \subseteq signalled'
      /\ \A x \in Contexts :
           \/ status'[x] = nst[x]
           \/ nst[x] = "Blocked" /\ status'[x] = "Runnable" /\ (x \in signalled' \/ wake[x] # None)
  <2> HIDE DEF nst
  <2> QED
    BY <1>1, <1>4, <1>5, Switched
<1>7. /\ pc' \in [Contexts -> Calls] /\ ppid' \in [Contexts -> Contexts \cup {0}]
      /\ vfork' \in [Contexts -> BOOLEAN] /\ next_id' \in Nat
      /\ replies' \in SUBSET Contexts
      /\ pc'[c] = "clone_ret" /\ ppid'[pid] = c /\ (vfork'[pid] <=> call = "vfork")
      /\ \A x \in Contexts \ {c} : pc'[x] = pc[x]
      /\ \A x \in Contexts \ {pid} : ppid'[x] = ppid[x] /\ vfork'[x] = vfork[x]
  <2>1. (call = "vfork") \in BOOLEAN
    OBVIOUS
  <2>2. vfork' \in [Contexts -> BOOLEAN] /\ (vfork'[pid] <=> call = "vfork")
    BY <1>2, <2>1 DEF IInv, TypeOK
  <2> QED
    BY <1>2, <2>2 DEF IInv, TypeOK, goto, Calls
<1>8. TypeOK'
  BY <1>6, <1>7 DEF IInv, TypeOK
<1>9. /\ status'[pid] = "Runnable"
      /\ status'[c] = IF call = "vfork" THEN "Blocked" ELSE "Runnable"
      /\ \A x \in Contexts \ {c, pid} :
           \/ status'[x] = status[x]
           \/ status[x] = "Blocked" /\ status'[x] = "Runnable" /\ (x \in signalled' \/ wake[x] # None)
  <2> HIDE DEF nst
  <2> QED
    BY <1>2, <1>4, <1>6
<1>10. CloneStep(c, k, call, pid)
  BY <1>1, <1>2, <1>6, <1>7, <1>9 DEF CloneStep
<1> QED
  BY <1>6, <1>8, <1>10

LEMMA CloneHalts ==
    ASSUME Assumptions, IInv, TypeOK', NEW c \in Contexts, NEW pid \in Contexts,
           NEW call \in {"clone", "vfork"},
           NEW k \in {"user", "clone", "vfork"}, CloneStep(c, k, call, pid)
    PROVE  Halts'
<1>1. pid # c /\ ~live(pid) /\ pc'[pid] = "user"
  BY IdFacts DEF CloneStep, live
<1>2. \A x \in Contexts \ {pid} : live(x)' <=> live(x)
  BY DEF CloneStep, live
<1>3. wake' = wake
  BY DEF CloneStep
<1>4. \A x, p \in Contexts : Halting(x, p)' => Halting(x, p) \/ (x = pid /\ p = c /\ call = "vfork")
  <2> SUFFICES ASSUME NEW x \in Contexts, NEW p \in Contexts, Halting(x, p)'
               PROVE  Halting(x, p) \/ (x = pid /\ p = c /\ call = "vfork")
    OBVIOUS
  <2>1. CASE x = pid
    BY <1>1, <2>1 DEF Halting, CloneStep
  <2>2. CASE x # pid
    BY <1>2, <2>2 DEF Halting, CloneStep
  <2> QED
    BY <2>1, <2>2
<1>5. \A x \in Contexts : Halting(x, c) => wake[c] # None
  BY DEF IInv, Halts, Held, CloneStep
<1>6. \A x, p \in Contexts : Halting(x, p)' => Held(p)'
  <2> SUFFICES ASSUME NEW x \in Contexts, NEW p \in Contexts, Halting(x, p)', wake[p] = None
               PROVE  Held(p)'
    BY <1>3 DEF Held
  <2>1. CASE p = c
    BY <1>4, <1>5, <2>1 DEF Held, CloneStep
  <2>2. CASE p # c
    <3>1. pc'[p] = pc[p] /\ Held(p)
      BY <1>4, <2>2 DEF CloneStep, IInv, Halts
    <3>2. CASE p = pid
      BY <1>1, <3>1, <3>2 DEF Held
    <3>3. CASE p # pid
      BY <2>2, <3>1, <3>3 DEF Held, CloneStep
    <3> QED
      BY <3>2, <3>3
  <2> QED
    BY <2>1, <2>2
<1>7. \A x, d, p \in Contexts :
        Halting(x, p)' /\ Halting(d, p)' => x = d \/ wake'[p] # None \/ pc'[p] = "exit"
  <2> SUFFICES ASSUME NEW x \in Contexts, NEW d \in Contexts, NEW p \in Contexts,
                      Halting(x, p)', Halting(d, p)', x # d, wake[p] = None
               PROVE  pc'[p] = "exit"
    BY <1>3
  <2>1. p # c
    BY <1>4, <1>5
  <2> QED
    BY <1>4, <2>1, SMTT(30) DEF IInv, Halts, CloneStep
<1>8. \A x \in Contexts : live(x)' /\ vfork'[x] =>
        ppid'[x] # 0 /\ pc'[x] # "exec_dup" /\ (pc'[x] = "exit" => saved'[x].ppid = ppid'[x])
  <2>1. \A x \in Contexts : live(x) /\ vfork[x] =>
          ppid[x] # 0 /\ pc[x] # "exec_dup" /\ (pc[x] = "exit" => saved[x].ppid = ppid[x])
    BY DEF IInv, Halts
  <2>2. /\ \A x \in Contexts \ {pid} : ppid'[x] = ppid[x] /\ vfork'[x] = vfork[x]
        /\ \A x \in Contexts \ {c} : pc'[x] = pc[x]
        /\ saved' = saved /\ pc'[c] = "clone_ret" /\ ppid'[pid] = c /\ c # 0
    BY DEF CloneStep, Assumptions
  <2>3. \A x \in Contexts \ {pid} : live(x)' /\ vfork'[x] =>
          ppid'[x] # 0 /\ pc'[x] # "exec_dup" /\ (pc'[x] = "exit" => saved'[x].ppid = ppid'[x])
    <3> SUFFICES ASSUME NEW x \in Contexts \ {pid}, live(x)', vfork'[x]
                 PROVE  /\ ppid'[x] # 0 /\ pc'[x] # "exec_dup"
                        /\ pc'[x] = "exit" => saved'[x].ppid = ppid'[x]
      OBVIOUS
    <3>1. live(x) /\ vfork[x] /\ ppid'[x] = ppid[x] /\ saved'[x] = saved[x]
      BY <1>2, <2>2
    <3>2. pc'[x] = pc[x] \/ pc'[x] = "clone_ret"
      BY <2>2
    <3> QED
      BY <2>1, <3>1, <3>2
  <2> QED
    BY <1>1, <2>2, <2>3
<1> QED
  BY <1>6, <1>7, <1>8 DEF Halts

LEMMA CloneStepKeeps ==
    ASSUME Assumptions, IInv, TypeOK', Runs', NEW c \in Contexts, NEW pid \in Contexts,
           NEW call \in {"clone", "vfork"},
           NEW k \in {"user", "clone", "vfork"}, CloneStep(c, k, call, pid)
    PROVE  IInv'
<1>1. pid # c /\ ~live(pid) /\ pc'[pid] = "user" /\ live(pid)' /\ live(c) /\ live(c)'
  BY IdFacts DEF CloneStep, live
<1>2. \A x \in Contexts \ {pid} : live(x)' <=> live(x)
  BY DEF CloneStep, live
<1>3. Fresh'
  <2>1. \A x \in Contexts : x >= pid + 1 => x >= pid /\ x # pid /\ x # c
    <3>1. c < pid /\ pid \in Nat
      BY DEF CloneStep
    <3> QED
      BY <3>1, IdFacts
  <2>2. \A x \in Contexts : x >= next_id' => status'[x] = "Absent" /\ pc'[x] = "user"
    <3>1. \A x \in Contexts : x >= pid => status[x] = "Absent" /\ pc[x] = "user"
      BY DEF CloneStep, IInv, Fresh
    <3>2. /\ next_id' = pid + 1
          /\ \A x \in Contexts \ {c} : pc'[x] = pc[x]
          /\ \A x \in Contexts \ {c, pid} : status'[x] = status[x] \/ status[x] = "Blocked"
      BY DEF CloneStep
    <3> QED
      BY <2>1, <3>1, <3>2
  <2>3. \A x \in Contexts : ppid'[x] < x /\ saved'[x].ppid < x
    <3>1. ppid'[pid] < pid /\ saved' = saved
      BY DEF CloneStep
    <3>2. \A x \in Contexts : ppid[x] < x /\ saved[x].ppid < x
      BY DEF IInv, Fresh
    <3>3. \A x \in Contexts \ {pid} : ppid'[x] = ppid[x]
      BY DEF CloneStep
    <3>4. \A x \in Contexts : saved'[x].ppid < x
      BY <3>1, <3>2
    <3>5. \A x \in Contexts : ppid'[x] < x
      BY <3>1, <3>2, <3>3
    <3> QED
      BY <3>4, <3>5
  <2> QED
    BY <2>2, <2>3 DEF Fresh
<1>4. Waits'
  <2>1. \A x \in Contexts : available(x, target[x])' = available(x, target[x])
    BY DEF CloneStep, available
  <2>2. listed' = listed /\ listed \subseteq Contexts /\ target' = target /\ c \notin listed
    BY DEF CloneStep, IInv, TypeOK, Waits
  <2>3. \A x \in listed' : pc'[x] = "exit" \/ (pc'[x] = "waitpid" /\ available(x, target[x])' = {})
    <3>1. \A x \in listed : pc[x] = "exit" \/ (pc[x] = "waitpid" /\ available(x, target[x]) = {})
      BY DEF IInv, Waits
    <3>2. \A x \in listed : x \in Contexts /\ x # c
      BY <2>2
    <3>3. \A x \in listed : pc'[x] = pc[x]
      BY <3>2 DEF CloneStep
    <3> QED
      BY <2>1, <2>2, <3>1, <3>2, <3>3
  <2>4. \A x \in Contexts : pc'[x] = "waitpid" /\ status'[x] = "Blocked" => x \in listed'
    <3> SUFFICES ASSUME NEW x \in Contexts, pc'[x] = "waitpid", status'[x] = "Blocked"
                 PROVE  x \in listed
      BY <2>2
    <3>1. x # c /\ x # pid
      BY <1>1 DEF CloneStep
    <3>2. pc[x] = "waitpid" /\ status[x] = "Blocked"
      BY <3>1 DEF CloneStep
    <3> QED
      BY <3>2 DEF IInv, Waits
  <2> QED
    BY <2>3, <2>4 DEF Waits
<1>5. Quiet'
  BY <1>1, <1>2, SMTT(30) DEF CloneStep, IInv, Quiet, SchemeCalls
<1>6. ReapsExited'
  BY DEF CloneStep, IInv, ReapsExited, TypeOK
<1>7. ZombieHasReaper'
  <2> SUFFICES ASSUME ~userFiles
               PROVE  /\ \A x \in Contexts : live(x)' => ppid'[x] = 0 \/ live(ppid[x])'
                      /\ \A x \in Contexts : status'[x] = "Exited" =>
                            ppid'[x] = 0 \/ (live(ppid[x])' /\ x \in waitpid'[ppid'[x]])
    BY DEF ZombieHasReaper, ParentAlive, CloneStep
  <2>1. \A x \in Contexts : ppid[x] \in Contexts \cup {0}
    BY DEF IInv, TypeOK
  <2>2. \A x \in Contexts : live(x) => live(x)'
    BY <1>1, <1>2
  <2>3. \A x \in Contexts : live(x)' => ppid'[x] = 0 \/ live(ppid[x])'
    <3> SUFFICES ASSUME NEW x \in Contexts, live(x)'
                 PROVE  ppid'[x] = 0 \/ live(ppid[x])'
      OBVIOUS
    <3>1. CASE x = pid
      BY <1>1, <3>1 DEF CloneStep
    <3>2. CASE x # pid
      <4>1. ppid'[x] = ppid[x] /\ live(x)
        BY <1>2, <3>2 DEF CloneStep
      <4>2. ppid[x] = 0 \/ live(ppid[x])
        BY <4>1 DEF IInv, ZombieHasReaper, ParentAlive
      <4> QED
        BY <2>1, <2>2, <4>1, <4>2 DEF live
    <3> QED
      BY <3>1, <3>2
  <2>4. \A x \in Contexts : status'[x] = "Exited" =>
            ppid'[x] = 0 \/ (live(ppid[x])' /\ x \in waitpid'[ppid'[x]])
    <3> SUFFICES ASSUME NEW x \in Contexts, status'[x] = "Exited"
                 PROVE  ppid'[x] = 0 \/ (live(ppid[x])' /\ x \in waitpid'[ppid'[x]])
      OBVIOUS
    <3>1. x # pid /\ status[x] = "Exited" /\ ppid'[x] = ppid[x] /\ waitpid' = waitpid
      BY DEF CloneStep
    <3>2. ppid[x] = 0 \/ (live(ppid[x]) /\ x \in waitpid[ppid[x]])
      BY <3>1 DEF IInv, ZombieHasReaper
    <3> QED
      BY <2>1, <2>2, <3>1, <3>2 DEF live
  <2> QED
    BY <2>3, <2>4
<1>8. VforkReleases'
  <2> SUFFICES ASSUME NEW p \in Contexts, ~userFiles', pc'[p] = "clone_ret", status'[p] = "Blocked"
               PROVE  \E d \in Contexts : live(d)' /\ ppid'[d] = p /\ vfork'[d]
    BY DEF VforkReleases
  <2>1. CASE p = c
    BY <1>1, <2>1 DEF CloneStep
  <2>2. CASE p # c
    <3>1. PICK d \in Contexts : live(d) /\ ppid[d] = p /\ vfork[d]
      <4>1. pc[p] = "clone_ret" /\ p # pid /\ ~userFiles
        BY <1>1, <2>2 DEF CloneStep
      <4>2. status[p] = "Blocked"
        BY <2>2, <4>1 DEF CloneStep
      <4> QED
        BY <4>1, <4>2 DEF IInv, VforkReleases
    <3> QED
      BY <1>1, <1>2, <3>1 DEF CloneStep
  <2> QED
    BY <2>1, <2>2
<1>9. Halts'
  BY CloneHalts
<1> QED
  BY <1>3, <1>4, <1>5, <1>6, <1>7, <1>8, <1>9 DEF IInv

LEMMA CloneKeeps ==
    ASSUME Assumptions, IInv, NEW c \in Contexts, NEW call \in {"clone", "vfork"}, clone(c, call)
    PROVE  IInv'
<1>1. PICK k \in {"user", "clone", "vfork"} : At(c, k) /\ k \in {"user", call}
  BY DEF clone, answered
<1>2. UNCHANGED <<wake, now, userFiles, waitpid, listed, target, saved, readers>>
  BY DEF clone
<1>3. CASE await(c, call) /\ UNCHANGED <<next_id, ppid, vfork>>
  <2>1. CONTEXT_ID = c /\ c \notin signalled /\ pc[c] = k /\ status[c] = "Runnable"
    BY <1>1, Acting
  <2>2. replies' \in SUBSET Contexts /\ readers' \in SUBSET Contexts
    BY <1>2, <1>3 DEF await, IInv, TypeOK
  <2> QED
    BY <1>1, <1>2, <1>3, <2>1, <2>2, AwaitMore DEF await, SchemeCalls
<1>4. CASE clone_end(c, call) /\ replies' = replies \ {c}
  <2> DEFINE st == IF call = "vfork" THEN block(status, c) ELSE status
  <2>1. CASE readers # {} /\ stay(st) /\ goto(c, "spin") /\ UNCHANGED <<next_id, ppid, vfork>>
    <3>1. st \in {status, block(status, c)} /\ stay(st)
      BY <2>1
    <3> HIDE DEF st
    <3> QED
      BY <1>1, <1>2, <1>4, <2>1, <3>1, CloneSpins
  <2>2. CASE /\ readers = {} /\ next_id \in Contexts /\ next_id' = next_id + 1
             /\ ppid' = [ppid EXCEPT ![next_id] = c]
             /\ vfork' = [vfork EXCEPT ![next_id] = (call = "vfork")]
             /\ switch([st EXCEPT ![next_id] = "Runnable"], c)
             /\ goto(c, "clone_ret")
    <3>1. CloneStep(c, k, call, next_id) /\ TypeOK' /\ Runs'
      BY <1>1, <1>2, <1>4, <2>2, CloneSteps
    <3> QED
      BY <1>1, <2>2, <3>1, CloneStepKeeps
  <2> QED
    BY <1>4, <2>1, <2>2 DEF clone_end
<1> QED
  BY <1>3, <1>4 DEF clone

-----------------------------------------------------------------------------
(* exit tells p of the end of c.                                           *)
Sends(p) == p # 0 /\ status[p] # "Absent"

(* What exit_end(c, p) does: p is the parent of c, or was when the exit    *)
(* began.                                                                  *)
ExitStep(c, p) ==
    /\ CONTEXT_ID = c /\ status[c] = "Runnable" /\ c < next_id
    /\ p < c /\ p \in Contexts \cup {0}
    /\ vfork[c] \/ ~userFiles => p = ppid[c]
    /\ UNCHANGED <<wake, userFiles, target, next_id, readers>>
    /\ \A x \in Contexts : ppid'[x] = IF ppid[x] = c THEN p ELSE ppid[x]
    /\ \A x \in Contexts : vfork'[x] <=> vfork[x] /\ x # c /\ ppid[x] # c
    /\ \A x \in Contexts \ {c} : pc'[x] = pc[x] /\ saved'[x] = saved[x]
    /\ pc'[c] = "exit" /\ saved'[c].ppid = 0
    /\ waitpid'[c] = {}
    /\ \A x \in Contexts \ {c} : waitpid'[x] = IF Sends(p) /\ x = p THEN waitpid[p] \cup statuses(c)
                                               ELSE waitpid[x]
    /\ listed' = IF Sends(p) THEN listed \ {p} ELSE listed
    /\ status'[c] = "Exited"
    /\ \A x \in Contexts \ {c} :
         \/ status'[x] = status[x]
         \/ /\ status[x] = "Blocked" /\ status'[x] = "Runnable"
            /\ \/ x \in signalled' \/ wake[x] # None
               \/ Sends(p) /\ x = p /\ (vfork[c] \/ p \in listed)
    /\ Sends(p) /\ (vfork[c] \/ p \in listed) => status'[p] # "Blocked"
    /\ signalled \ {c} \subseteq signalled'
    /\ replies' = replies \ {c}

LEMMA ExitLives ==
    ASSUME IInv, NEW c \in Contexts, NEW p, ExitStep(c, p)
    PROVE  /\ live(c) /\ ~live(c)' /\ p # c
           /\ \A x \in Contexts \ {c} : live(x)' <=> live(x)
           /\ \A x \in Contexts \ {c} : status'[x] = status[x] \/ live(x)
<1>1. status[c] = "Runnable" /\ status'[c] = "Exited"
  BY DEF ExitStep
<1>2. p # c
  <2>1. p < c /\ p \in Contexts \cup {0}
    BY DEF ExitStep
  <2> QED
    BY <2>1, IdFacts
<1>3. \A x \in Contexts \ {c} : status'[x] = status[x] \/ (status[x] = "Blocked" /\ status'[x] = "Runnable")
  BY DEF ExitStep
<1> QED
  BY <1>1, <1>2, <1>3 DEF live

LEMMA ExitHalts ==
    ASSUME IInv, NEW c \in Contexts, NEW p, ExitStep(c, p)
    PROVE  Halts'
<1>1. /\ live(c) /\ ~live(c)'
      /\ \A x \in Contexts \ {c} : live(x)' <=> live(x)
  BY ExitLives
<1>2. wake' = wake
  BY DEF ExitStep
<1>3. \A x \in Contexts : live(x)' /\ vfork'[x] => x # c /\ live(x) /\ vfork[x] /\ ppid'[x] = ppid[x]
  BY <1>1 DEF ExitStep
<1>4. \A x, q \in Contexts : Halting(x, q)' => x # c /\ Halting(x, q)
  <2> SUFFICES ASSUME NEW x \in Contexts, NEW q \in Contexts, Halting(x, q)'
               PROVE  x # c /\ Halting(x, q)
    OBVIOUS
  <2>1. x # c /\ live(x)
    BY <1>1 DEF Halting
  <2>2. pc'[x] = pc[x] /\ saved'[x] = saved[x]
    BY <2>1 DEF ExitStep
  <2> QED
    BY <1>3, <2>1, <2>2 DEF Halting
<1>5. \A q \in Contexts : pc[q] = "exit" => pc'[q] = "exit"
  BY DEF ExitStep
<1>6. \A x, q \in Contexts : Halting(x, q)' => Held(q)'
  <2> SUFFICES ASSUME NEW x \in Contexts, NEW q \in Contexts, Halting(x, q)',
                      wake[q] = None, pc[q] # "exit", q # c
               PROVE  Held(q)'
    <3>1. pc'[c] = "exit"
      BY DEF ExitStep
    <3> QED
      BY <1>2, <1>5, <3>1 DEF Held
  <2>1. pc[q] = "clone_ret" /\ (status[q] = "Blocked" \/ q \in signalled) /\ pc'[q] = "clone_ret"
    <3>1. Halting(x, q)
      BY <1>4
    <3>2. Held(q)
      BY <3>1 DEF IInv, Halts
    <3>3. pc'[q] = pc[q]
      BY DEF ExitStep
    <3> QED
      BY <3>2, <3>3 DEF Held
  <2>2. q \notin listed
    BY <2>1 DEF IInv, Waits
  <2>3. ~(q = p /\ vfork[c])
    <3> SUFFICES ASSUME q = p, vfork[c]
                 PROVE  FALSE
      OBVIOUS
    <3>1. Halting(c, q)
      BY <1>1 DEF Halting, ExitStep
    <3> QED
      BY <1>4, <3>1 DEF IInv, Halts
  <2>4. status'[q] = "Blocked" \/ q \in signalled'
    BY <2>1, <2>2, <2>3 DEF ExitStep
  <2> QED
    BY <2>1, <2>4 DEF Held
<1>7. \A x, d, q \in Contexts :
        Halting(x, q)' /\ Halting(d, q)' => x = d \/ wake'[q] # None \/ pc'[q] = "exit"
  BY <1>2, <1>4, <1>5 DEF IInv, Halts
<1>8. \A x \in Contexts : live(x)' /\ vfork'[x] =>
        ppid'[x] # 0 /\ pc'[x] # "exec_dup" /\ (pc'[x] = "exit" => saved'[x].ppid = ppid'[x])
  <2>1. \A x \in Contexts : live(x) /\ vfork[x] =>
          ppid[x] # 0 /\ pc[x] # "exec_dup" /\ (pc[x] = "exit" => saved[x].ppid = ppid[x])
    BY DEF IInv, Halts
  <2>2. \A x \in Contexts \ {c} : pc'[x] = pc[x] /\ saved'[x] = saved[x]
    BY DEF ExitStep
  <2> QED
    BY <1>3, <2>1, <2>2
<1> QED
  BY <1>6, <1>7, <1>8 DEF Halts

LEMMA ExitReaps ==
    ASSUME IInv, NEW c \in Contexts, NEW p, ExitStep(c, p)
    PROVE  ReapsExited'
<1>1. \A q \in Contexts : \A k \in waitpid'[q] :
        /\ q # c
        /\ k \in waitpid[q] \/ (q = p /\ k \in waitpid[c]) \/ (q = p /\ k = c)
  <2>1. waitpid'[c] = {}
    BY DEF ExitStep
  <2>2. \A q \in Contexts \ {c} :
          waitpid'[q] = waitpid[q] \/ (q = p /\ waitpid'[q] = waitpid[q] \cup statuses(c))
    BY DEF ExitStep
  <2> QED
    BY <2>1, <2>2 DEF statuses
<1>2. \A q \in Contexts : \A k \in waitpid[q] : k \in Contexts /\ k # c /\ status[k] = "Exited"
  BY DEF IInv, TypeOK, ReapsExited, ExitStep
<1>3. \A k \in Contexts \ {c} : status[k] = "Exited" => status'[k] = "Exited"
  BY DEF ExitStep
<1>4. status'[c] = "Exited"
  BY DEF ExitStep
<1>5. \A q \in Contexts : \A k \in waitpid'[q] : status'[k] = "Exited"
  BY <1>1, <1>2, <1>3, <1>4
<1>6. \A q \in Contexts : \A k \in waitpid'[q] : \A r \in Contexts : k \in waitpid'[r] => r = q
  <2>1. \A q, r \in Contexts : \A k \in waitpid[q] : k \in waitpid[r] => r = q
    BY DEF IInv, ReapsExited
  <2> QED
    BY <1>1, <1>2, <2>1
<1> QED
  BY <1>5, <1>6 DEF ReapsExited

LEMMA ExitZombies ==
    ASSUME Assumptions, IInv, NEW c \in Contexts, NEW p, ExitStep(c, p)
    PROVE  ZombieHasReaper'
<1> SUFFICES ASSUME ~userFiles
             PROVE  /\ \A x \in Contexts : live(x)' => ppid'[x] = 0 \/ live(ppid[x])'
                    /\ \A x \in Contexts : status'[x] = "Exited" =>
                          ppid'[x] = 0 \/ (live(ppid[x])' /\ x \in waitpid'[ppid'[x]])
  BY DEF ZombieHasReaper, ParentAlive, ExitStep
<1>1. /\ live(c) /\ ~live(c)' /\ p # c
      /\ \A x \in Contexts \ {c} : live(x) => status'[x] \in {"Runnable", "Blocked"}
      /\ \A x \in Contexts \ {c} : live(x)' => live(x)
  BY ExitLives DEF live
<1>2. p = ppid[c]
  BY DEF ExitStep
<1>3. \A x \in Contexts : ppid[x] \in Contexts \cup {0}
  BY DEF IInv, TypeOK
<1>4. /\ \A x \in Contexts : live(x) => ppid[x] = 0 \/ live(ppid[x])
      /\ \A x \in Contexts : status[x] = "Exited" => ppid[x] = 0 \/ (live(ppid[x]) /\ x \in waitpid[ppid[x]])
  BY DEF IInv, ZombieHasReaper, ParentAlive
<1>5. p = 0 \/ (p \in Contexts \ {c} /\ live(p) /\ Sends(p))
  BY <1>1, <1>2, <1>3, <1>4 DEF Sends, live
<1>6. \A x \in Contexts : ppid'[x] = IF ppid[x] = c THEN p ELSE ppid[x]
  BY DEF ExitStep
<1>7. p # 0 => waitpid'[p] = waitpid[p] \cup waitpid[c] \cup {c}
  BY <1>5 DEF ExitStep, statuses
<1>8. \A x \in Contexts \ {c} : waitpid[x] \subseteq waitpid'[x]
  BY <1>5 DEF ExitStep
<1>9. \A x \in Contexts : live(x)' => ppid'[x] = 0 \/ live(ppid[x])'
  <2> SUFFICES ASSUME NEW x \in Contexts, live(x)', ppid'[x] # 0
               PROVE  status'[ppid'[x]] \in {"Runnable", "Blocked"}
    BY DEF live
  <2>1. live(x)
    BY <1>1
  <2>2. ppid'[x] \in Contexts \ {c} /\ live(ppid'[x])
    BY <1>1, <1>3, <1>4, <1>5, <1>6, <2>1
  <2> QED
    BY <1>1, <2>2
<1>10. \A x \in Contexts : status'[x] = "Exited" =>
          ppid'[x] = 0 \/ (live(ppid[x])' /\ x \in waitpid'[ppid'[x]])
  <2> SUFFICES ASSUME NEW x \in Contexts, status'[x] = "Exited", ppid'[x] # 0
               PROVE  status'[ppid'[x]] \in {"Runnable", "Blocked"} /\ x \in waitpid'[ppid'[x]]
    BY DEF live
  <2>1. x # c => status[x] = "Exited"
    BY DEF ExitStep
  <2>2. ppid'[c] = p
    BY <1>1, <1>2, <1>6
  <2>3. ppid'[x] \in Contexts \ {c} /\ live(ppid'[x]) /\ x \in waitpid'[ppid'[x]]
    <3>1. CASE x = c
      BY <1>5, <1>7, <2>2, <3>1
    <3>2. CASE x # c /\ ppid[x] = c
      <4>1. ppid'[x] = p /\ ppid[x] # 0
        BY <1>6, <3>2 DEF Assumptions
      <4>2. x \in waitpid[c]
        BY <1>4, <2>1, <3>2, <4>1
      <4> QED
        BY <1>5, <1>7, <4>1, <4>2
    <3>3. CASE x # c /\ ppid[x] # c
      <4>1. ppid'[x] = ppid[x] /\ ppid[x] \in Contexts \ {c}
        BY <1>3, <1>6, <3>3
      <4>2. live(ppid[x]) /\ x \in waitpid[ppid[x]]
        BY <1>4, <2>1, <3>3, <4>1
      <4> QED
        BY <1>8, <4>1, <4>2
    <3> QED
      BY <3>1, <3>2, <3>3
  <2> QED
    BY <1>1, <2>3
<1> QED
  BY <1>9, <1>10

LEMMA ExitStepKeeps ==
    ASSUME Assumptions, IInv, TypeOK', Runs', NEW c \in Contexts, NEW p, ExitStep(c, p)
    PROVE  IInv'
<1>1. /\ live(c) /\ ~live(c)' /\ p # c
      /\ \A x \in Contexts \ {c} : live(x)' <=> live(x)
      /\ \A x \in Contexts \ {c} : status'[x] = status[x] \/ live(x)
  BY ExitLives
<1>2. Fresh'
  <2>1. c < next_id /\ next_id \in Nat /\ p < c /\ p \in Nat /\ next_id' = next_id /\ 0 < c
    <3>1. c < next_id /\ p < c /\ p \in Contexts \cup {0} /\ next_id' = next_id
      BY DEF ExitStep
    <3>2. next_id \in Nat
      BY DEF IInv, TypeOK
    <3>3. c \in Nat /\ c # 0 /\ p \in Nat
      BY <3>1, IdFacts DEF Assumptions
    <3> QED
      BY <3>1, <3>2, <3>3
  <2>2. \A x \in Contexts : x >= next_id => status'[x] = "Absent" /\ pc'[x] = "user"
    <3> SUFFICES ASSUME NEW x \in Contexts, x >= next_id
                 PROVE  status'[x] = "Absent" /\ pc'[x] = "user"
      OBVIOUS
    <3>1. x # c
      BY <2>1, IdFacts
    <3>2. status[x] = "Absent" /\ pc[x] = "user"
      BY DEF IInv, Fresh
    <3> QED
      BY <3>1, <3>2 DEF ExitStep
  <2>3. /\ \A x \in Contexts : ppid[x] < x
        /\ \A x \in Contexts : saved[x].ppid < x
    BY DEF IInv, Fresh
  <2>4. \A x \in Contexts : ppid'[x] < x
    <3>1. \A x \in Contexts : x \in Nat
      BY IdFacts
    <3>2. \A x \in Contexts : ppid[x] = c => p < x
      BY <2>1, <2>3, <3>1
    <3>3. \A x \in Contexts : ppid'[x] = IF ppid[x] = c THEN p ELSE ppid[x]
      BY DEF ExitStep
    <3> QED
      BY <2>3, <3>2, <3>3
  <2>5. \A x \in Contexts : saved'[x].ppid < x
    <3>1. saved'[c].ppid = 0 /\ \A x \in Contexts \ {c} : saved'[x] = saved[x]
      BY DEF ExitStep
    <3> QED
      BY <2>1, <2>3, <3>1
  <2> QED
    BY <2>1, <2>2, <2>4, <2>5 DEF Fresh
<1>3. Waits'
  <2>1. listed \subseteq Contexts /\ listed' \subseteq listed
    BY DEF IInv, TypeOK, ExitStep
  <2>2. \A x \in listed' : pc'[x] = "exit" \/ (pc'[x] = "waitpid" /\ available(x, target[x])' = {})
    <3> SUFFICES ASSUME NEW x \in listed', x # c
                 PROVE  pc'[x] = "exit" \/ (pc'[x] = "waitpid" /\ available(x, target[x])' = {})
      BY DEF ExitStep
    <3>1. x \in listed /\ x \in Contexts /\ pc'[x] = pc[x] /\ target' = target
      BY <2>1 DEF ExitStep
    <3>2. waitpid'[x] = waitpid[x]
      BY <3>1 DEF ExitStep
    <3>3. available(x, target[x])' = available(x, target[x])
      BY <3>1, <3>2 DEF available
    <3> QED
      BY <3>1, <3>3 DEF IInv, Waits
  <2>3. \A x \in Contexts : pc'[x] = "waitpid" /\ status'[x] = "Blocked" => x \in listed'
    <3> SUFFICES ASSUME NEW x \in Contexts, pc'[x] = "waitpid", status'[x] = "Blocked"
                 PROVE  x \in listed'
      OBVIOUS
    <3>1. x # c /\ pc[x] = "waitpid" /\ status[x] = "Blocked"
      BY DEF ExitStep
    <3>2. x \in listed
      BY <3>1 DEF IInv, Waits
    <3> QED
      BY <3>2 DEF ExitStep
  <2> QED
    BY <2>2, <2>3 DEF Waits
<1>4. Quiet'
  BY <1>1 DEF ExitStep, IInv, Quiet
<1>5. VforkReleases'
  <2> SUFFICES ASSUME NEW q \in Contexts, ~userFiles', pc'[q] = "clone_ret", status'[q] = "Blocked"
               PROVE  \E d \in Contexts : live(d)' /\ ppid'[d] = q /\ vfork'[d]
    BY DEF VforkReleases
  <2>1. q # c /\ pc[q] = "clone_ret" /\ status[q] = "Blocked" /\ ~userFiles /\ q # 0
    BY DEF ExitStep, Assumptions
  <2>2. PICK d \in Contexts : live(d) /\ ppid[d] = q /\ vfork[d]
    BY <2>1 DEF IInv, VforkReleases
  <2>3. d # c
    BY <2>1, <2>2 DEF ExitStep, Sends
  <2> QED
    BY <1>1, <2>1, <2>2, <2>3 DEF ExitStep
<1>6. Halts' /\ ReapsExited' /\ ZombieHasReaper'
  BY ExitHalts, ExitReaps, ExitZombies
<1> QED
  BY <1>2, <1>3, <1>4, <1>5, <1>6 DEF IInv

LEMMA ExitSteps ==
    ASSUME Assumptions, IInv, NEW c \in Contexts, CONTEXT_ID = c, status[c] = "Runnable", c < next_id,
           NEW p \in Contexts \cup {0}, p < c, vfork[c] \/ ~userFiles => p = ppid[c],
           exit_end(c, p),
           UNCHANGED <<wake, now, userFiles, target, next_id, readers>>
    PROVE  IInv'
<1> DEFINE st == [status EXCEPT ![c] = "Exited"]
           woken == halted(c, p) \cup notified(p)
           nst == IF Sends(p) THEN unblock(st, woken) ELSE st
<1>1. /\ st \in [Ids -> Status] /\ st[c] = "Exited" /\ st[KMAIN] = "Runnable"
      /\ \A x \in Contexts \ {c} : st[x] = status[x]
  BY IdFacts DEF IInv, TypeOK, ContextTypeOK, Runs, Status
<1>2. p # c /\ (Sends(p) => p \in Contexts)
  BY IdFacts DEF Sends
<1>3. woken \subseteq {p} /\ (p \in woken <=> vfork[c] \/ p \in listed)
  BY DEF halted, notified
<1>4. /\ nst \in [Ids -> Status] /\ nst[c] = "Exited" /\ nst[KMAIN] = "Runnable"
      /\ \A x \in Contexts \ {c} :
           nst[x] = IF Sends(p) /\ x \in woken /\ status[x] = "Blocked" THEN "Runnable" ELSE status[x]
  <2> HIDE DEF st, woken
  <2>1. CASE Sends(p)
    BY <1>1, <2>1, IdFacts DEF unblock, Status
  <2>2. CASE ~Sends(p)
    BY <1>1, <2>2
  <2> QED
    BY <2>1, <2>2
<1>5. switch(nst, c)
  BY DEF exit_end, Sends
<1>6. /\ ContextTypeOK' /\ Runs'
      /\ status'[c] = nst[c]
      /\ signalled \ {c} \subseteq signalled'
      /\ \A x \in Contexts :
           \/ status'[x] = nst[x]
           \/ nst[x] = "Blocked" /\ status'[x] = "Runnable" /\ (x \in signalled' \/ wake[x] # None)
  <2> HIDE DEF nst
  <2> QED
    BY <1>4, <1>5, Switched
<1>7. /\ status'[c] = "Exited"
      /\ \A x \in Contexts \ {c} :
           \/ status'[x] = status[x]
           \/ /\ status[x] = "Blocked" /\ status'[x] = "Runnable"
              /\ \/ x \in signalled' \/ wake[x] # None
                 \/ Sends(p) /\ x = p /\ (vfork[c] \/ p \in listed)
      /\ Sends(p) /\ (vfork[c] \/ p \in listed) => status'[p] # "Blocked"
  <2> HIDE DEF nst, woken
  <2> QED
    BY <1>2, <1>3, <1>4, <1>6
<1>8. /\ ppid' \in [Contexts -> Contexts \cup {0}]
      /\ \A x \in Contexts : ppid'[x] = IF ppid[x] = c THEN p ELSE ppid[x]
  BY DEF exit_end, transfer, IInv, TypeOK
<1>9. /\ vfork' \in [Contexts -> BOOLEAN]
      /\ \A x \in Contexts : vfork'[x] <=> vfork[x] /\ x # c /\ ppid[x] # c
  <2>1. \A x \in Contexts : (vfork[x] /\ x # c /\ ppid[x] # c) \in BOOLEAN
    OBVIOUS
  <2> QED
    BY <2>1 DEF exit_end
<1>10. /\ waitpid' \in [Contexts -> SUBSET Contexts] /\ waitpid'[c] = {}
       /\ \A x \in Contexts \ {c} : waitpid'[x] = IF Sends(p) /\ x = p THEN waitpid[p] \cup statuses(c)
                                                  ELSE waitpid[x]
  <2> DEFINE r == receive_all(c)
  <2>1. /\ r \in [Contexts -> SUBSET Contexts] /\ r[c] = {}
        /\ \A x \in Contexts \ {c} : r[x] = waitpid[x]
    BY DEF receive_all, IInv, TypeOK
  <2>2. statuses(c) \subseteq Contexts
    BY DEF statuses, IInv, TypeOK
  <2>3. waitpid' = IF Sends(p) THEN [r EXCEPT ![p] = @ \cup statuses(c)] ELSE r
    BY DEF exit_end, Sends
  <2> HIDE DEF r
  <2> QED
    BY <1>2, <2>1, <2>2, <2>3
<1>11. /\ listed' = IF Sends(p) THEN listed \ {p} ELSE listed
       /\ listed' \in SUBSET Contexts
  BY DEF exit_end, Sends, IInv, TypeOK
<1>12. /\ pc' \in [Contexts -> Calls] /\ pc'[c] = "exit"
       /\ \A x \in Contexts \ {c} : pc'[x] = pc[x]
  BY DEF exit_end, goto, IInv, TypeOK, Calls, SchemeCalls
<1>13. /\ saved' \in [Contexts -> [ppid : Contexts \cup {0}, vfork : BOOLEAN]] /\ saved'[c].ppid = 0
       /\ \A x \in Contexts \ {c} : saved'[x] = saved[x]
  <2>1. NoLocals \in [ppid : Contexts \cup {0}, vfork : BOOLEAN] /\ NoLocals.ppid = 0
    BY DEF NoLocals
  <2> QED
    BY <2>1 DEF exit_end, finish, IInv, TypeOK
<1>14. replies' = replies \ {c}
  BY DEF exit_end, finish
<1>15. TypeOK'
  BY <1>6, <1>8, <1>9, <1>10, <1>11, <1>12, <1>13, <1>14 DEF IInv, TypeOK
<1>16. ExitStep(c, p)
  <2> HIDE DEF nst, woken, st
  <2> QED
    BY <1>6, <1>7, <1>8, <1>9, <1>10, <1>11, <1>12, <1>13, <1>14 DEF ExitStep
<1> QED
  BY <1>6, <1>15, <1>16, ExitStepKeeps

LEMMA ExitKeeps ==
    ASSUME Assumptions, IInv, NEW c \in Contexts, exit(c)
    PROVE  IInv'
<1>1. CONTEXT_ID = c /\ (c \in signalled \/ pc[c] # "spin")
  BY DEF exit, At
<1>2. status[c] = "Runnable" /\ live(c) /\ c < next_id
  BY <1>1, RunningLives
<1>3. UNCHANGED <<wake, now, userFiles, target, next_id, readers>>
  BY DEF exit
<1>4. CASE /\ await(c, "exit")
           /\ saved' = [saved EXCEPT ![c] = [ppid |-> ppid[c], vfork |-> FALSE]]
           /\ UNCHANGED <<ppid, vfork, waitpid, listed>>
  <2> DEFINE s == [ppid |-> ppid[c], vfork |-> FALSE]
             v == vfork[c]
             to == "exit"
  <2>1. /\ s \in [ppid : Contexts \cup {0}, vfork : BOOLEAN] /\ s.ppid = ppid[c]
        /\ v \in BOOLEAN /\ vfork' = [vfork EXCEPT ![c] = v] /\ (v <=> vfork[c])
        /\ saved' = [saved EXCEPT ![c] = s]
    BY <1>4 DEF IInv, TypeOK
  <2>2. replies' \in SUBSET Contexts /\ readers' \in SUBSET Contexts
    BY <1>3, <1>4 DEF await, IInv, TypeOK
  <2>3. /\ userFiles /\ goto(c, to) /\ switch(block(status, c), c)
        /\ to \in SchemeCalls /\ to = "exit" /\ to # "exec_dup"
    BY <1>4 DEF await, SchemeCalls
  <2> HIDE DEF s, v, to
  <2> QED
    BY <1>1, <1>2, <1>3, <1>4, <2>1, <2>2, <2>3, AwaitKeeps
<1>5. CASE exit_end(c, ppid[c])
  <2> DEFINE p == ppid[c]
  <2>1. p \in Contexts \cup {0} /\ p < c /\ exit_end(c, p) /\ p = ppid[c]
    BY <1>5 DEF IInv, TypeOK, Fresh
  <2> HIDE DEF p
  <2> QED
    BY <1>1, <1>2, <1>3, <2>1, ExitSteps
<1> QED
  BY <1>4, <1>5 DEF exit

LEMMA ExitCloseKeeps ==
    ASSUME Assumptions, IInv, NEW c \in Contexts, exit_close(c)
    PROVE  IInv'
<1> DEFINE call == "exit"
<1>1. At(c, call) /\ call # "spin" /\ call \in SchemeCalls
  BY DEF exit_close, answered, SchemeCalls
<1>2. /\ CONTEXT_ID = c /\ c \notin signalled /\ pc[c] = call
      /\ status[c] = "Runnable" /\ live(c) /\ c < next_id /\ userFiles
  <2> HIDE DEF call
  <2> QED
    BY <1>1, Acting
<1>3. UNCHANGED <<wake, now, userFiles, target, next_id, readers>>
  BY DEF exit_close
<1>4. CASE await(c, "exit") /\ UNCHANGED <<ppid, vfork, waitpid, listed, saved>>
  <2>1. replies' \in SUBSET Contexts /\ readers' \in SUBSET Contexts
    BY <1>3, <1>4 DEF await, IInv, TypeOK
  <2>2. userFiles /\ goto(c, call) /\ switch(block(status, c), c)
    BY <1>4 DEF await
  <2> HIDE DEF call
  <2> QED
    BY <1>1, <1>2, <1>3, <1>4, <2>1, <2>2, AwaitMore
<1>5. CASE exit_end(c, saved[c].ppid)
  <2> DEFINE p == saved[c].ppid
  <2>1. p \in Contexts \cup {0}
    BY DEF IInv, TypeOK
  <2>2. p < c /\ exit_end(c, p)
    BY <1>5 DEF IInv, Fresh
  <2>3. vfork[c] => p = ppid[c]
    BY <1>2 DEF IInv, Halts
  <2> HIDE DEF p
  <2> QED
    BY <1>2, <1>3, <2>1, <2>2, <2>3, ExitSteps
<1> QED
  BY <1>4, <1>5 DEF exit_close

-----------------------------------------------------------------------------
(* A step of waitpid of c: it may reap somebody, or block c.               *)
WaitStep(c) ==
    /\ CONTEXT_ID = c /\ status[c] = "Runnable" /\ c \notin signalled
    /\ pc[c] \in {"user", "waitpid"} /\ pc'[c] \in {"user", "waitpid", "spin"}
    /\ \A x \in Contexts \ {c} : pc'[x] = pc[x]
    /\ UNCHANGED <<wake, userFiles, ppid, vfork, saved, replies, next_id, readers>>
    /\ \A x \in Contexts \ {c} :
         \/ status'[x] = status[x]
         \/ status[x] = "Exited" /\ status'[x] = "Absent"
         \/ status[x] = "Blocked" /\ status'[x] = "Runnable" /\ (x \in signalled' \/ wake[x] # None)
    /\ status'[c] \in {"Runnable", "Blocked"}
    /\ signalled \ {c} \subseteq signalled'

LEMMA WaitStepKeeps ==
    ASSUME IInv, NEW c \in Contexts, WaitStep(c)
    PROVE  /\ \A x \in Contexts : live(x)' <=> live(x)
           /\ Fresh' /\ Quiet' /\ Halts' /\ VforkReleases'
<1>1. \A x \in Contexts : live(x)' <=> live(x)
  BY DEF WaitStep, live
<1>2. Fresh'
  <2>1. c < next_id /\ next_id \in Nat
    BY RunningLives DEF IInv, TypeOK, WaitStep
  <2>2. \A x \in Contexts : x >= next_id => x # c
    BY <2>1, IdFacts
  <2>3. \A x \in Contexts : x >= next_id => status'[x] = "Absent" /\ pc'[x] = "user"
    BY <2>2 DEF WaitStep, IInv, Fresh
  <2>4. UNCHANGED <<ppid, saved, next_id>>
    BY DEF WaitStep
  <2> QED
    BY <2>3, <2>4 DEF IInv, Fresh
<1>3. Quiet'
  BY <1>1 DEF WaitStep, IInv, Quiet, SchemeCalls
<1>4. Halts'
  <2>1. wake' = wake /\ \A q \in Contexts : pc[q] = "exit" => pc'[q] = "exit"
    BY DEF WaitStep
  <2>2. \A x, q \in Contexts : Halting(x, q)' => Halting(x, q)
    BY <1>1 DEF Halting, WaitStep
  <2>3. \A q \in Contexts : Held(q) => Held(q)'
    BY DEF Held, WaitStep
  <2>4. \A x, q \in Contexts : Halting(x, q)' => Held(q)'
    BY <2>2, <2>3 DEF IInv, Halts
  <2>5. \A x, d, q \in Contexts :
          Halting(x, q)' /\ Halting(d, q)' => x = d \/ wake'[q] # None \/ pc'[q] = "exit"
    BY <2>1, <2>2 DEF IInv, Halts
  <2>6. \A x \in Contexts : live(x)' /\ vfork'[x] => ppid'[x] # 0 /\ pc'[x] # "exec_dup"
    BY <1>1 DEF IInv, Halts, WaitStep
  <2>7. \A x \in Contexts : live(x)' /\ vfork'[x] /\ pc'[x] = "exit" => saved'[x].ppid = ppid'[x]
    BY <1>1 DEF IInv, Halts, WaitStep
  <2> QED
    BY <2>4, <2>5, <2>6, <2>7 DEF Halts
<1>5. VforkReleases'
  <2> SUFFICES ASSUME NEW p \in Contexts, ~userFiles', pc'[p] = "clone_ret", status'[p] = "Blocked"
               PROVE  \E d \in Contexts : live(d)' /\ ppid'[d] = p /\ vfork'[d]
    BY DEF VforkReleases
  <2>1. pc[p] = "clone_ret" /\ status[p] = "Blocked" /\ ~userFiles
    BY DEF WaitStep
  <2>2. PICK d \in Contexts : live(d) /\ ppid[d] = p /\ vfork[d]
    BY <2>1 DEF IInv, VforkReleases
  <2> QED
    BY <1>1, <2>2 DEF WaitStep
<1> QED
  BY <1>1, <1>2, <1>3, <1>4, <1>5

LEMMA StutterKeeps ==
    ASSUME IInv, UNCHANGED vars
    PROVE  IInv'
<1> USE DEF vars, contextVars, processVars
<1>1. TypeOK' /\ Runs' /\ Fresh'
  BY DEF IInv, TypeOK, ContextTypeOK, Runs, At, Fresh
<1>2. Waits' /\ Quiet'
  BY DEF IInv, Waits, available, Quiet, live
<1>3. Halts'
  <2>1. \A x, q \in Contexts : /\ live(x)' <=> live(x)
                               /\ Halting(x, q)' <=> Halting(x, q)
                               /\ Held(q)' <=> Held(q)
    BY DEF Halting, Held, live
  <2> QED
    BY <2>1 DEF IInv, Halts
<1>4. ReapsExited' /\ ZombieHasReaper' /\ VforkReleases'
  BY DEF IInv, ReapsExited, ZombieHasReaper, ParentAlive, VforkReleases, live
<1> QED
  BY <1>1, <1>2, <1>3, <1>4 DEF IInv

LEMMA AvailableHere ==
    ASSUME IInv, NEW c \in Contexts, NEW pid, NEW k \in available(c, pid)
    PROVE  k \in waitpid[c]
<1>1. waitpid[c] \in SUBSET Nat
  BY IdFacts DEF IInv, TypeOK
<1>2. waitpid[c] # {} => Min(waitpid[c]) \in waitpid[c]
  BY <1>1, MinNat
<1> QED
  BY <1>2 DEF available

LEMMA ReapKeeps ==
    ASSUME IInv, NEW c \in Contexts, NEW call \in {"user", "waitpid"}, At(c, call), c \notin listed,
           NEW k \in waitpid[c], waitpid' = [waitpid EXCEPT ![c] = @ \ {k}],
           target' = [target EXCEPT ![c] = 0], reap(c, k),
           UNCHANGED <<pending, CONTEXT_ID, signalled, listed>>,
           UNCHANGED <<wake, now, userFiles, ppid, vfork, saved, replies, next_id, readers>>
    PROVE  IInv'
<1>1. /\ CONTEXT_ID = c /\ c \notin signalled /\ pc[c] = call
      /\ status[c] = "Runnable"
  BY Acting
<1>2. k \in Contexts /\ k # c /\ status[k] = "Exited" /\ k # KMAIN
  BY <1>1, IdFacts DEF IInv, TypeOK, ReapsExited
<1>3. /\ status' \in [Ids -> Status] /\ \A x \in Ids \ {k} : status'[x] = status[x]
      /\ status'[k] \in {"Exited", "Absent"}
  BY <1>2, IdFacts DEF reap, IInv, TypeOK, ContextTypeOK, Status
<1>4. /\ pc' \in [Contexts -> Calls] /\ pc'[c] \in {"user", "spin"}
      /\ \A x \in Contexts \ {c} : pc'[x] = pc[x]
  BY DEF reap, goto, IInv, TypeOK, Calls
<1>5. /\ waitpid' \in [Contexts -> SUBSET Contexts] /\ waitpid'[c] = waitpid[c] \ {k}
      /\ \A x \in Contexts \ {c} : waitpid'[x] = waitpid[x]
  BY DEF IInv, TypeOK
<1>6. target' \in [Contexts -> Contexts \cup {0}] /\ \A x \in Contexts \ {c} : target'[x] = target[x]
  BY DEF IInv, TypeOK
<1>7. TypeOK'
  BY <1>3, <1>4, <1>5, <1>6 DEF IInv, TypeOK, ContextTypeOK
<1>8. Runs'
  BY <1>1, <1>2, <1>3, IdFacts DEF IInv, Runs
<1>9. WaitStep(c)
  BY <1>1, <1>2, <1>3, <1>4, IdFacts DEF WaitStep
<1>10. /\ \A x \in Contexts : live(x)' <=> live(x)
       /\ Fresh' /\ Quiet' /\ Halts' /\ VforkReleases'
  BY <1>9, WaitStepKeeps
<1>11. Waits'
  <2>1. \A x \in listed' : x \in listed /\ x \in Contexts \ {c}
    BY DEF IInv, TypeOK
  <2>2. \A x \in Contexts \ {c} : available(x, target[x])' = available(x, target[x])
    BY <1>5, <1>6 DEF available
  <2>3. \A x \in listed' : pc'[x] = "exit" \/ (pc'[x] = "waitpid" /\ available(x, target[x])' = {})
    BY <1>4, <2>1, <2>2 DEF IInv, Waits
  <2>4. \A x \in Contexts : pc'[x] = "waitpid" /\ status'[x] = "Blocked" => x \in listed'
    BY <1>3, <1>4, IdFacts DEF IInv, Waits
  <2> QED
    BY <2>3, <2>4 DEF Waits
<1>12. ReapsExited'
  <2>1. \A q, r \in Contexts : \A j \in waitpid[q] : status[j] = "Exited" /\ j \in Contexts
                                                     /\ (j \in waitpid[r] => r = q)
    BY DEF IInv, ReapsExited, TypeOK
  <2>2. \A q \in Contexts : \A j \in waitpid'[q] : j \in waitpid[q] /\ j # k
    BY <1>5, <2>1
  <2> QED
    BY <1>3, <2>1, <2>2, IdFacts DEF ReapsExited
<1>13. ZombieHasReaper'
  <2> SUFFICES ASSUME ~userFiles
               PROVE  /\ \A x \in Contexts : live(x)' => ppid[x] = 0 \/ live(ppid[x])'
                      /\ \A x \in Contexts : status'[x] = "Exited" =>
                            ppid[x] = 0 \/ (live(ppid[x])' /\ x \in waitpid'[ppid[x]])
    BY DEF ZombieHasReaper, ParentAlive
  <2>1. \A x \in Contexts : ppid[x] \in Contexts \cup {0}
    BY DEF IInv, TypeOK
  <2>2. /\ \A x \in Contexts : live(x) => ppid[x] = 0 \/ live(ppid[x])
        /\ \A x \in Contexts : status[x] = "Exited" => ppid[x] = 0 \/ (live(ppid[x]) /\ x \in waitpid[ppid[x]])
    BY DEF IInv, ZombieHasReaper, ParentAlive
  <2>3. \A x \in Contexts : live(x) => status'[x] \in {"Runnable", "Blocked"}
    BY <1>10 DEF live
  <2>4. \A x \in Contexts : live(x)' => ppid[x] = 0 \/ live(ppid[x])'
    BY <1>10, <2>1, <2>2, <2>3 DEF live
  <2>5. ASSUME NEW x \in Contexts, status'[x] = "Exited"
        PROVE  ppid[x] = 0 \/ (live(ppid[x])' /\ x \in waitpid'[ppid[x]])
    <3>1. status[x] = "Exited"
      BY <1>2, <1>3, <2>5, IdFacts
    <3>2. CASE x = k
      <4>1. status'[k] = "Absent" \/ readers # {}
        BY <1>2, IdFacts DEF reap, IInv, TypeOK, ContextTypeOK
      <4> QED
        BY <2>5, <3>2, <4>1 DEF IInv, Quiet
    <3>3. CASE x # k
      <4>1. \A q \in Contexts : x \in waitpid[q] => x \in waitpid'[q]
        BY <1>5, <3>3
      <4> QED
        BY <2>1, <2>2, <2>3, <3>1, <4>1 DEF live
    <3> QED
      BY <3>2, <3>3
  <2> QED
    BY <2>4, <2>5
<1> QED
  BY <1>7, <1>8, <1>10, <1>11, <1>12, <1>13 DEF IInv

LEMMA WaitKeeps ==
    ASSUME IInv, NEW c \in Contexts, NEW call \in {"user", "waitpid"}, At(c, call),
           NEW pid \in Contexts \cup {0}, available(c, pid) = {},
           listed' = listed \cup {c}, target' = [target EXCEPT ![c] = pid],
           switch(block(status, c), c), goto(c, "waitpid"),
           UNCHANGED <<waitpid, wake, now, userFiles, ppid, vfork, saved, replies, next_id, readers>>
    PROVE  IInv'
<1>1. /\ CONTEXT_ID = c /\ c \notin signalled /\ pc[c] = call
      /\ status[c] = "Runnable"
  BY Acting
<1>2. /\ ContextTypeOK' /\ Runs'
      /\ status'[c] = "Blocked"
      /\ signalled \ {c} \subseteq signalled'
      /\ \A x \in Contexts \ {c} :
           \/ status'[x] = status[x]
           \/ status[x] = "Blocked" /\ status'[x] = "Runnable" /\ (x \in signalled' \/ wake[x] # None)
  BY <1>1, Blocks
<1>3. /\ pc' \in [Contexts -> Calls] /\ pc'[c] = "waitpid"
      /\ \A x \in Contexts \ {c} : pc'[x] = pc[x]
  BY DEF goto, IInv, TypeOK, Calls
<1>4. /\ target' \in [Contexts -> Contexts \cup {0}] /\ target'[c] = pid
      /\ \A x \in Contexts \ {c} : target'[x] = target[x]
  BY DEF IInv, TypeOK
<1>5. TypeOK'
  BY <1>2, <1>3, <1>4 DEF IInv, TypeOK
<1>6. WaitStep(c)
  BY <1>1, <1>2, <1>3 DEF WaitStep
<1>7. /\ \A x \in Contexts : live(x)' <=> live(x)
      /\ Fresh' /\ Quiet' /\ Halts' /\ VforkReleases'
  BY <1>6, WaitStepKeeps
<1>8. Waits'
  <2>1. listed \subseteq Contexts
    BY DEF IInv, TypeOK
  <2>2. /\ \A x \in Contexts \ {c} : available(x, target[x])' = available(x, target[x])
        /\ available(c, target[c])' = available(c, pid)
    BY <1>4 DEF available
  <2>3. \A x \in listed' : pc'[x] = "exit" \/ (pc'[x] = "waitpid" /\ available(x, target[x])' = {})
    BY <1>3, <2>1, <2>2 DEF IInv, Waits
  <2>4. \A x \in Contexts : pc'[x] = "waitpid" /\ status'[x] = "Blocked" => x \in listed'
    BY <1>2, <1>3 DEF IInv, Waits
  <2> QED
    BY <2>3, <2>4 DEF Waits
<1>9. \A x \in Contexts : status'[x] = "Exited" <=> status[x] = "Exited"
  BY <1>1, <1>2
<1>10. ReapsExited'
  <2>1. \A q \in Contexts : waitpid[q] \subseteq Contexts
    BY DEF IInv, TypeOK
  <2> QED
    BY <1>9, <2>1 DEF IInv, ReapsExited
<1>11. ZombieHasReaper'
  <2>1. \A x \in Contexts : ppid[x] \in Contexts \cup {0}
    BY DEF IInv, TypeOK
  <2>2. \A x \in Contexts : live(x) => status'[x] \in {"Runnable", "Blocked"}
    BY <1>7 DEF live
  <2>3. \A x \in Contexts : ppid[x] # 0 /\ live(ppid[x]) => live(ppid[x])'
    BY <2>1, <2>2 DEF live
  <2> QED
    BY <1>7, <1>9, <2>1, <2>3 DEF IInv, ZombieHasReaper, ParentAlive
<1> QED
  BY <1>2, <1>5, <1>7, <1>8, <1>10, <1>11 DEF IInv

LEMMA WaitpidKeeps ==
    ASSUME IInv, NEW c \in Contexts, NEW call \in {"user", "waitpid"}, At(c, call),
           NEW pid \in Contexts \cup {0}, call = "waitpid" => pid = target[c],
           NEW nohang \in BOOLEAN, waitpid_receive(c, pid, nohang)
    PROVE  IInv'
<1>1. UNCHANGED <<wake, now, userFiles, ppid, vfork, saved, replies, next_id, readers>>
  BY DEF waitpid_receive
<1>2. CASE \E k \in available(c, pid) :
             /\ waitpid' = [waitpid EXCEPT ![c] = @ \ {k}]
             /\ target' = [target EXCEPT ![c] = 0]
             /\ reap(c, k)
             /\ UNCHANGED <<pending, CONTEXT_ID, signalled, listed>>
  <2>1. PICK k \in available(c, pid) :
             /\ waitpid' = [waitpid EXCEPT ![c] = @ \ {k}]
             /\ target' = [target EXCEPT ![c] = 0]
             /\ reap(c, k)
             /\ UNCHANGED <<pending, CONTEXT_ID, signalled, listed>>
    BY <1>2
  <2>2. k \in waitpid[c]
    BY AvailableHere
  <2>3. c \notin listed
    BY DEF IInv, Waits, At
  <2> QED
    BY <1>1, <2>1, <2>2, <2>3, ReapKeeps
<1>3. CASE /\ available(c, pid) = {}
           /\ listed' = listed \cup {c}
           /\ target' = [target EXCEPT ![c] = pid]
           /\ switch(block(status, c), c)
           /\ goto(c, "waitpid")
           /\ UNCHANGED waitpid
  BY <1>1, <1>3, WaitKeeps
<1>4. CASE UNCHANGED <<status, pending, CONTEXT_ID, signalled, pc, waitpid, listed, target>>
  <2>1. UNCHANGED vars
    BY <1>1, <1>4 DEF vars, contextVars, processVars
  <2> QED
    BY <2>1, StutterKeeps
<1> QED
  BY <1>2, <1>3, <1>4 DEF waitpid_receive

-----------------------------------------------------------------------------
(* What an interrupt, a daemon's answer or the scheduler may do to x.      *)
Calm(x) ==
    /\ pc'[x] = pc[x] \/ ({pc[x], pc'[x]} \subseteq {"user", "sleep"} /\ live(x))
    /\ \/ status'[x] = status[x]
       \/ /\ status[x] = "Blocked" /\ status'[x] = "Runnable"
          /\ x \in signalled' \/ wake'[x] # None \/ pc[x] \in SchemeCalls
       \/ status[x] = "Runnable" /\ status'[x] = "Blocked" /\ pc'[x] = "sleep"
    /\ wake[x] # None => wake'[x] # None
    /\ x \in signalled => x \in signalled'

LEMMA CalmKeeps ==
    ASSUME IInv, TypeOK', Runs', \A x \in Contexts : Calm(x), ~userFiles => replies' = {},
           UNCHANGED <<userFiles, ppid, vfork, waitpid, listed, target, saved, next_id, readers>>
    PROVE  IInv'
<1>1. \A x \in Contexts : live(x)' <=> live(x)
  BY DEF Calm, live
<1>2. \A x \in Contexts : pc'[x] = pc[x] \/ {pc[x], pc'[x]} \subseteq {"user", "sleep"}
  BY DEF Calm
<1>3. \A x \in Contexts : status'[x] = "Blocked" /\ pc'[x] # "sleep" => status[x] = "Blocked"
  BY DEF Calm
<1>4. Fresh'
  <2>1. \A x \in Contexts : x >= next_id => status'[x] = "Absent" /\ pc'[x] = "user"
    BY DEF Calm, IInv, Fresh, live
  <2> QED
    BY <2>1 DEF IInv, Fresh
<1>5. Waits'
  <2>1. \A x \in Contexts : available(x, target[x])' = available(x, target[x])
    BY DEF available
  <2>2. listed \subseteq Contexts
    BY DEF IInv, TypeOK
  <2>3. \A x \in listed' : pc'[x] = "exit" \/ (pc'[x] = "waitpid" /\ available(x, target[x])' = {})
    BY <1>2, <2>1, <2>2 DEF IInv, Waits
  <2>4. \A x \in Contexts : pc'[x] = "waitpid" /\ status'[x] = "Blocked" => x \in listed'
    BY <1>2, <1>3 DEF IInv, Waits
  <2> QED
    BY <2>3, <2>4 DEF Waits
<1>6. Quiet'
  BY <1>1, <1>2 DEF IInv, Quiet, SchemeCalls
<1>7. Halts'
  <2>1. \A q \in Contexts : (pc[q] = "exit" => pc'[q] = "exit") /\ (wake[q] # None => wake'[q] # None)
    BY <1>2 DEF Calm
  <2>2. \A x, q \in Contexts : Halting(x, q)' => Halting(x, q)
    BY <1>1, <1>2 DEF Halting
  <2>3. \A q \in Contexts : Held(q) => Held(q)'
    <3> SUFFICES ASSUME NEW q \in Contexts, pc[q] = "clone_ret", status[q] = "Blocked" \/ q \in signalled
                 PROVE  Held(q)'
      BY <2>1 DEF Held
    <3>1. pc'[q] = "clone_ret" /\ pc[q] \notin SchemeCalls
      BY <1>2 DEF SchemeCalls
    <3> QED
      BY <3>1 DEF Calm, Held
  <2>4. \A x, q \in Contexts : Halting(x, q)' => Held(q)'
    BY <2>2, <2>3 DEF IInv, Halts
  <2>5. \A x, d, q \in Contexts :
          Halting(x, q)' /\ Halting(d, q)' => x = d \/ wake'[q] # None \/ pc'[q] = "exit"
    BY <2>1, <2>2 DEF IInv, Halts
  <2>6. \A x \in Contexts : live(x)' /\ vfork'[x] => ppid'[x] # 0 /\ pc'[x] # "exec_dup"
    BY <1>1, <1>2 DEF IInv, Halts
  <2>7. \A x \in Contexts : live(x)' /\ vfork'[x] /\ pc'[x] = "exit" => saved'[x].ppid = ppid'[x]
    BY <1>1, <1>2 DEF IInv, Halts
  <2> QED
    BY <2>4, <2>5, <2>6, <2>7 DEF Halts
<1>8. \A x \in Contexts : status'[x] = "Exited" <=> status[x] = "Exited"
  BY DEF Calm
<1>9. ReapsExited'
  <2>1. \A q \in Contexts : waitpid[q] \subseteq Contexts
    BY DEF IInv, TypeOK
  <2> QED
    BY <1>8, <2>1 DEF IInv, ReapsExited
<1>10. ZombieHasReaper'
  <2>1. \A x \in Contexts : ppid[x] \in Contexts \cup {0}
    BY DEF IInv, TypeOK
  <2>2. \A x \in Contexts : live(x) => status'[x] \in {"Runnable", "Blocked"}
    BY <1>1 DEF live
  <2>3. \A x \in Contexts : ppid[x] # 0 /\ live(ppid[x]) => live(ppid[x])'
    BY <2>1, <2>2 DEF live
  <2> QED
    BY <1>1, <1>8, <2>1, <2>3 DEF IInv, ZombieHasReaper, ParentAlive
<1>11. VforkReleases'
  BY <1>1, <1>2, <1>3 DEF IInv, VforkReleases
<1> QED
  BY <1>4, <1>5, <1>6, <1>7, <1>9, <1>10, <1>11 DEF IInv

LEMMA ReplyKeeps ==
    ASSUME IInv, NEW c \in Contexts, reply(c)
    PROVE  IInv'
<1>1. /\ ContextTypeOK'
      /\ CONTEXT_ID' = CONTEXT_ID /\ signalled' = signalled
      /\ status'[KMAIN] = "Runnable"
      /\ \A x \in Ids : status'[x] = IF x \in {c} /\ status[x] = "Blocked" THEN "Runnable" ELSE status[x]
  BY Wakes DEF reply
<1>2. TypeOK'
  BY <1>1 DEF reply, IInv, TypeOK
<1>3. Runs'
  BY <1>1 DEF reply, IInv, TypeOK, ContextTypeOK, Runs, At
<1>4. \A x \in Contexts : Calm(x)
  BY <1>1, IdFacts DEF reply, Calm
<1>5. userFiles
  BY DEF reply, IInv, Quiet
<1> QED
  BY <1>2, <1>3, <1>4, <1>5, CalmKeeps DEF reply

(* The scheduler runs in user mode, in nanosleep() or in kmain's loop.     *)
LEMMA SchedulerRuns ==
    ASSUME IInv, schedule
    PROVE  RunsRunnable
<1>1. ASSUME NEW c \in Contexts, At(c, "user") \/ At(c, "sleep")
      PROVE  RunsRunnable
  BY <1>1 DEF At, IInv, Runs, RunsRunnable
<1>2. ASSUME CONTEXT_ID = KMAIN
      PROVE  RunsRunnable
  BY <1>2 DEF IInv, Runs, RunsRunnable
<1>3. At(CONTEXT_ID, "user") => CONTEXT_ID \in Contexts
  BY DEF At
<1> QED
  BY <1>1, <1>2, <1>3 DEF schedule, kmain, pit, InterruptsEnabled, kill, nanosleep, nanosleep_return, sched_yield

LEMMA SchedulerCalm ==
    ASSUME IInv, schedule
    PROVE  \A x \in Contexts : Calm(x)
<1>1. RunsRunnable /\ ContextTypeOK
  BY SchedulerRuns DEF IInv, TypeOK
<1>2. ASSUME NEW c \in Ids, CONTEXT_ID = c, c \notin signalled, NEW st \in [Ids -> Status],
             \A x \in Ids \ {c} : st[x] = status[x], switch(st, c), NEW x \in Contexts \ {c}
      PROVE  /\ \/ status'[x] = status[x]
                \/ status[x] = "Blocked" /\ status'[x] = "Runnable" /\ (x \in signalled' \/ wake[x] # None)
             /\ x \in signalled => x \in signalled'
  <2>1. /\ signalled \ {c} \subseteq signalled'
        /\ \A y \in Ids :
              \/ status'[y] = st[y]
              \/ st[y] = "Blocked" /\ status'[y] = "Runnable" /\ (y \in signalled' \/ Expired(y))
    BY <1>1, <1>2, SwitchEffect
  <2> QED
    BY <1>2, <2>1, IdFacts DEF Expired
<1>3. CASE kmain
  <2>1. /\ CONTEXT_ID = KMAIN /\ KMAIN \notin signalled /\ switch(status, KMAIN) /\ status \in [Ids -> Status]
        /\ UNCHANGED <<wake, now, pc>>
    BY <1>1, <1>3 DEF kmain, ContextTypeOK
  <2> QED
    BY <1>2, <2>1, IdFacts DEF Calm
<1>4. CASE pit
  BY <1>4 DEF pit, Calm
<1>5. ASSUME NEW pid \in KillTargets, kill(pid)
      PROVE  \A x \in Contexts : Calm(x)
  BY <1>5 DEF kill, Calm
<1>6. ASSUME NEW c \in Contexts, NEW d \in Delays, nanosleep(c, d)
      PROVE  \A x \in Contexts : Calm(x)
  <2> DEFINE st == block(status, c)
  <2>1. /\ CONTEXT_ID = c /\ pc[c] = "user" /\ c \notin signalled /\ switch(st, c)
        /\ now + d <= MaxTime /\ wake' = [wake EXCEPT ![c] = now + d]
        /\ pc' = [pc EXCEPT ![c] = "sleep"]
    BY <1>6 DEF nanosleep, At, goto
  <2>2. /\ st \in [Ids -> Status] /\ st[c] = "Blocked" /\ status[c] = "Runnable"
        /\ \A x \in Ids \ {c} : st[x] = status[x]
    BY <1>1, <2>1, IdFacts DEF block, ContextTypeOK, RunsRunnable, Status
  <2> HIDE DEF st
  <2>3. status'[c] = "Blocked"
    BY <1>1, <2>1, <2>2, IdFacts, SwitchEffect
  <2>4. now + d \in Nat
    BY <1>1, ContextAssumption DEF ContextTypeOK, Time
  <2>5. wake'[c] # None /\ \A x \in Contexts \ {c} : wake'[x] = wake[x]
    BY <1>1, <2>1, <2>4, IdFacts DEF ContextTypeOK
  <2>6. pc'[c] = "sleep" /\ \A x \in Contexts \ {c} : pc'[x] = pc[x]
    BY <2>1 DEF IInv, TypeOK
  <2>7. \A x \in Contexts \ {c} : Calm(x)
    BY <1>2, <2>1, <2>2, <2>5, <2>6, IdFacts DEF Calm
  <2>8. Calm(c)
    BY <2>1, <2>2, <2>3, <2>5, <2>6 DEF Calm, live
  <2> QED
    BY <2>7, <2>8
<1>7. ASSUME NEW c \in Contexts, nanosleep_return(c)
      PROVE  \A x \in Contexts : Calm(x)
  <2>1. status[c] = "Runnable" /\ pc[c] = "sleep" /\ pc'[c] = "user" /\ \A x \in Contexts \ {c} : pc'[x] = pc[x]
    BY <1>1, <1>7 DEF nanosleep_return, At, goto, RunsRunnable, IInv, TypeOK
  <2> QED
    BY <1>7, <2>1 DEF nanosleep_return, Calm, live
<1>8. ASSUME NEW c \in Contexts, sched_yield(c)
      PROVE  \A x \in Contexts : Calm(x)
  <2>1. /\ CONTEXT_ID = c /\ c \notin signalled /\ switch(status, c) /\ status \in [Ids -> Status]
        /\ UNCHANGED <<wake, now, pc>>
    BY <1>1, <1>8 DEF sched_yield, At, ContextTypeOK
  <2>2. status'[c] = status[c]
    BY <1>1, <2>1, IdFacts, SwitchEffect
  <2>3. \A x \in Contexts \ {c} : Calm(x)
    BY <1>2, <2>1, IdFacts DEF Calm
  <2> QED
    BY <2>1, <2>2, <2>3 DEF Calm
<1> QED
  BY <1>3, <1>4, <1>5, <1>6, <1>7, <1>8 DEF schedule

LEMMA ScheduleStep ==
    ASSUME IInv, schedule, UNCHANGED processVars
    PROVE  IInv'
<1>1. ContextTypeOK /\ pc \in [Contexts -> Calls] /\ {"user", "sleep"} \subseteq Calls
  BY DEF IInv, TypeOK, Calls
<1>2. ContextTypeOK' /\ RunsRunnable' /\ pc' \in [Contexts -> Calls]
  BY <1>1, SchedulerRuns, ScheduleMoves
<1>3. TypeOK' /\ Runs'
  BY <1>2 DEF IInv, TypeOK, processVars, Runs, RunsRunnable
<1> QED
  BY <1>3, SchedulerCalm, CalmKeeps DEF processVars, IInv, Quiet

LEMMA InitHolds ==
    ASSUME Assumptions, Init
    PROVE  IInv
<1>1. FIRST \in Nat /\ FIRST \in Contexts /\ 0 \notin Contexts
  BY IdFacts DEF Assumptions
<1>2. TypeOK
  <2>1. ContextTypeOK
    BY <1>1, ContextInitial DEF Init, ContextIInv
  <2>2. NoLocals \in [ppid : Contexts \cup {0}, vfork : BOOLEAN]
    BY DEF NoLocals
  <2>3. pc \in [Contexts -> Calls]
    BY DEF Init, ContextInit, Calls
  <2> QED
    BY <1>1, <2>1, <2>2, <2>3 DEF Init, TypeOK
<1>3. /\ \A c \in Contexts : pc[c] = "user" /\ status[c] = IF c = FIRST THEN "Runnable" ELSE "Absent"
      /\ status[KMAIN] = "Runnable" /\ CONTEXT_ID = KMAIN
  BY IdFacts DEF Init, ContextInit
<1>4. \A c \in Contexts : ppid[c] = 0 /\ vfork[c] = FALSE /\ waitpid[c] = {} /\ saved[c].ppid = 0
  BY DEF Init, NoLocals
<1>5. Runs
  BY <1>3 DEF Runs
<1>6. Fresh
  <2>1. \A c \in Contexts : c >= next_id => c # FIRST
    BY <1>1, IdFacts DEF Init
  <2>2. \A c \in Contexts : 0 < c
    BY <1>1, IdFacts
  <2> QED
    BY <1>3, <1>4, <2>1, <2>2 DEF Fresh
<1>7. Waits /\ Quiet
  BY <1>3 DEF Init, Waits, Quiet, SchemeCalls
<1>8. Halts
  BY <1>3, <1>4 DEF Halts, Halting
<1>9. ReapsExited /\ VforkReleases
  BY <1>3, <1>4 DEF ReapsExited, VforkReleases
<1>10. ZombieHasReaper
  BY <1>3, <1>4 DEF ZombieHasReaper, ParentAlive
<1> QED
  BY <1>2, <1>5, <1>6, <1>7, <1>8, <1>9, <1>10 DEF IInv

LEMMA NextKeeps ==
    ASSUME Assumptions, IInv, [Next]_vars
    PROVE  IInv'
<1>1. ASSUME NEW c \in Contexts, NEW call \in {"clone", "vfork"}, clone_error(c, call)
      PROVE  IInv'
  <2>1. call \in SchemeCalls \ {"exit"}
    BY DEF SchemeCalls
  <2> QED
    BY <1>1, <2>1, ErrorKeeps DEF clone_error
<1>2. ASSUME NEW c \in Contexts, exec_error(c)
      PROVE  IInv'
  <2> DEFINE call == "exec_open"
  <2>1. call \in SchemeCalls \ {"exit"} /\ answered(c, call)
    BY <1>2 DEF SchemeCalls, exec_error
  <2> HIDE DEF call
  <2> QED
    BY <1>2, <2>1, ErrorKeeps DEF exec_error
<1>3. ASSUME NEW c \in Contexts, NEW pid \in Contexts \cup {0}, NEW nohang \in BOOLEAN,
             waitpid_call(c, pid, nohang)
      PROVE  IInv'
  <2> DEFINE call == "user"
  <2>1. call \in {"user", "waitpid"} /\ call # "waitpid" /\ At(c, call) /\ waitpid_receive(c, pid, nohang)
    BY <1>3 DEF waitpid_call
  <2> HIDE DEF call
  <2> QED
    BY <2>1, WaitpidKeeps
<1>4. ASSUME NEW c \in Contexts, waitpid_again(c)
      PROVE  IInv'
  <2> DEFINE call == "waitpid"
             pid == target[c]
             nohang == FALSE
  <2>1. /\ call \in {"user", "waitpid"} /\ At(c, call) /\ nohang \in BOOLEAN
        /\ pid \in Contexts \cup {0} /\ pid = target[c] /\ waitpid_receive(c, pid, nohang)
    BY <1>4 DEF waitpid_again, IInv, TypeOK
  <2> HIDE DEF call, pid, nohang
  <2> QED
    BY <2>1, WaitpidKeeps
<1>5. ASSUME NEW c \in Contexts, spin(c)
      PROVE  IInv'
  BY <1>5, StutterKeeps DEF spin
<1>6. CASE UNCHANGED vars
  BY <1>6, StutterKeeps
<1>7. CASE Next
  BY <1>1, <1>2, <1>3, <1>4, <1>5, <1>7, CloneKeeps, CloneReturnKeeps, ExecOpenKeeps, ExecKeeps, ExecDupKeeps,
     ExitKeeps, ExitCloseKeeps, ReplyKeeps, AwaitAgainKeeps, ScheduleStep DEF Next
<1> QED
  BY <1>6, <1>7

LEMMA Exact ==
    ASSUME IInv
    PROVE  ProcessExact
<1>1. VforkHalts
  <2> SUFFICES ASSUME NEW c \in Contexts, live(c), vfork[c]
               PROVE  ppid[c] # 0 /\ (pc[ppid[c]] \in {"clone_ret", "exit"} \/ wake[ppid[c]] # None)
    BY DEF VforkHalts
  <2>1. ppid[c] # 0 /\ ppid[c] \in Contexts
    BY DEF IInv, Halts, TypeOK
  <2>2. Halting(c, ppid[c])
    BY DEF Halting
  <2>3. Held(ppid[c])
    BY <2>1, <2>2 DEF IInv, Halts
  <2> QED
    BY <2>1, <2>3 DEF Held
<1>2. WaitpidWakes
  BY DEF IInv, Waits, WaitpidWakes
<1> QED
  BY <1>1, <1>2 DEF IInv, ProcessExact

(* ProcessExact holds however many contexts clone, exec, exit, wait for    *)
(* each other, sleep and are signalled, and whether or not daemons suspend *)
(* them in between.                                                        *)
THEOREM ProcessesCorrect == ASSUME Assumptions PROVE Spec => []ProcessExact
<1>1. Init => IInv
  BY InitHolds
<1>2. IInv /\ [Next]_vars => IInv'
  BY NextKeeps
<1>3. IInv => ProcessExact
  BY Exact
<1> QED
  BY <1>1, <1>2, <1>3, PTL DEF Spec
=============================================================================

------------------------------- MODULE Futex -------------------------------
(***************************************************************************)
(* kernel/syscall/futex.rs: the list FUTEXES of the contexts that wait for *)
(* a word of memory, and FUTEX_WAIT, FUTEX_WAKE and FUTEX_REQUEUE on it.   *)
(*                                                                         *)
(* The contexts are threads of one program.  The list is keyed by the      *)
(* address alone, and a context woken by a signal, or by the wake time of  *)
(* a sleep that ended long ago, leaves its entry in the list.              *)
(***************************************************************************)
EXTENDS Context, Sequences

CONSTANTS
    Addrs,      \* the addresses of the words
    Values,     \* the values of a word
    MaxEntries  \* bound on the length of the list

ASSUME FutexAssumption == MaxEntries \in Nat

VARIABLES
    futexes,  \* FUTEXES, a sequence of pairs <<address, context>>
    word,     \* the words of memory
    waits,    \* the address and the value a context waits with; None once
              \* it has been requeued or has returned
    dirty     \* words stored to, and not all of whose waiters were woken since

listVars == <<futexes, word, waits, dirty>>
futexVars == <<contextVars, listVars>>

Entry == Addrs \X Contexts

FutexTypeOK ==
    /\ ContextTypeOK
    /\ pc \in [Contexts -> {"user", "sleep", "futex"}]
    /\ futexes \in Seq(Entry)
    /\ Len(futexes) <= MaxEntries
    /\ word \in [Addrs -> Values]
    /\ waits \in [Contexts -> (Addrs \X Values) \cup {None}]
    /\ dirty \in SUBSET Addrs

FutexInit ==
    /\ ContextInit(Contexts)
    /\ futexes = <<>>
    /\ word \in [Addrs -> Values]
    /\ waits = [c \in Contexts |-> None]
    /\ dirty = {}

-----------------------------------------------------------------------------
(* VecDeque::swap_remove_back                                              *)
swap_remove_back(q, i) ==
    SubSeq([q EXCEPT ![i] = q[Len(q)]], 1, Len(q) - 1)

(* Bug: the entry swapped into the place of a removed one is skipped.      *)
turn_skipping(s, a, n) ==
    LET e == s.list[s.next]
    IN  IF s.next > Len(s.list) \/ Len(s.woken) >= n THEN s
        ELSE IF e[1] # a THEN [s EXCEPT !.next = @ + 1]
        ELSE [list |-> swap_remove_back(s.list, s.next), next |-> s.next + 1, woken |-> Append(s.woken, e[2])]

(* A turn of the loop of FUTEX_WAKE at the index next: an entry of address *)
(* a leaves the list; nothing once the loop has ended.                     *)
turn(s, a, n) ==
    LET e == s.list[s.next]
    IN  IF s.next > Len(s.list) \/ Len(s.woken) >= n THEN s
        ELSE IF e[1] # a THEN [s EXCEPT !.next = @ + 1]
        ELSE [list |-> swap_remove_back(s.list, s.next), next |-> s.next, woken |-> Append(s.woken, e[2])]

(* The loop, turn by turn.  A turn removes an entry or goes on to the next *)
(* one, so that the loop has ended after Len(q) turns.                     *)
turns(q, a, n) ==
    LET after[k \in 0 .. Len(q)] ==
            IF k = 0 THEN [list |-> q, next |-> 1, woken |-> <<>>] ELSE turn(after[k - 1], a, n)
    IN  after

(* The loop of FUTEX_WAKE: at most n entries of address a leave the list.  *)
wake_loop(q, a, n) == turns(q, a, n)[Len(q)]

(* The second loop of FUTEX_REQUEUE: from index i on, at most m entries of *)
(* address a are moved to address b.                                       *)
requeue_loop(q, i, a, m, b) ==
    LET before(j) == Cardinality({k \in i .. j - 1 : q[k][1] = a})
    IN  [j \in DOMAIN q |->
            IF j >= i /\ q[j][1] = a /\ before(j) < m THEN <<b, q[j][2]>> ELSE q[j]]

-----------------------------------------------------------------------------

changed(a, v) == word[a] # v

FUTEX_WAIT(c, a, v) ==
    /\ At(c, "user")
    /\ Len(futexes) < MaxEntries
    /\ ~changed(a, v)
    /\ futexes' = Append(futexes, <<a, c>>)
    /\ waits' = [waits EXCEPT ![c] = <<a, v>>]
    /\ switch(block(status, c), c)
    /\ goto(c, "futex")
    /\ UNCHANGED <<wake, now, word, dirty>>

(* Error EAGAIN *)
FUTEX_WAIT_again(c, a, v) ==
    /\ At(c, "user")
    /\ changed(a, v)
    /\ UNCHANGED futexVars

(* Bug: a waiter that finds its word unchanged blocks again.               *)
FUTEX_WAIT_return_again(c) ==
    /\ At(c, "futex")
    /\ waits' = [waits EXCEPT ![c] = None]
    /\ IF waits[c] # None /\ word[waits[c][1]] = waits[c][2]
       THEN switch(block(status, c), c) /\ UNCHANGED pc
       ELSE stay(status) /\ goto(c, "user")
    /\ UNCHANGED <<wake, now, futexes, word, dirty>>

(* switch() returns, for whatever reason, and so does the call.            *)
FUTEX_WAIT_return(c) ==
    /\ At(c, "futex")
    /\ goto(c, "user")
    /\ waits' = [waits EXCEPT ![c] = None]
    /\ UNCHANGED <<status, pending, wake, CONTEXT_ID, signalled, now, futexes, word, dirty>>

(* dirty after at most n waiters of a were woken.                          *)
cleaned(a, n) == IF n >= Len(futexes) THEN dirty \ {a} ELSE dirty

FUTEX_WAKE(c, a, n) ==
    LET done == wake_loop(futexes, a, n)
    IN  /\ At(c, "user")
        /\ futexes' = done.list
        /\ stay(unblock(status, {done.woken[i] : i \in DOMAIN done.woken}))
        /\ dirty' = cleaned(a, n)
        /\ UNCHANGED <<wake, now, pc, word, waits>>

FUTEX_REQUEUE(c, a, n, m, b) ==
    LET done == wake_loop(futexes, a, n)
        list == requeue_loop(done.list, done.next, a, m, b)
        moved == {list[i][2] : i \in {j \in DOMAIN list : list[j] # done.list[j]}}
    IN  /\ At(c, "user")
        /\ futexes' = list
        /\ stay(unblock(status, {done.woken[i] : i \in DOMAIN done.woken}))
        /\ dirty' = cleaned(a, n)
        /\ waits' = [d \in Contexts |-> IF d \in moved THEN None ELSE waits[d]]
        /\ UNCHANGED <<wake, now, pc, word>>

(* The program stores to a word.                                           *)
store(c, a, v) ==
    /\ At(c, "user")
    /\ word[a] # v
    /\ word' = [word EXCEPT ![a] = v]
    /\ dirty' = dirty \cup {a}
    /\ UNCHANGED <<contextVars, futexes, waits>>

FutexNext ==
    \/ \E c \in Contexts :
        \/ \E a \in Addrs, v \in Values :
            \/ FUTEX_WAIT(c, a, v)
            \/ FUTEX_WAIT_again(c, a, v)
            \/ store(c, a, v)
        \/ FUTEX_WAIT_return(c)
        \/ \E a \in Addrs, n \in 0 .. MaxEntries :
            \/ FUTEX_WAKE(c, a, n)
            \/ \E m \in 0 .. MaxEntries, b \in Addrs \ {a} : FUTEX_REQUEUE(c, a, n, m, b)
        \/ signal_handler(c) /\ UNCHANGED listVars
    \/ schedule /\ UNCHANGED listVars

FutexSpec == FutexInit /\ [][FutexNext]_futexVars

FutexFairSpec ==
    /\ FutexSpec
    /\ ScheduleFairness
    /\ \A c \in Contexts : WF_futexVars(FUTEX_WAIT_return(c))

-----------------------------------------------------------------------------
(* The contract of the futex: a context only sleeps in FUTEX_WAIT while    *)
(* the word has the value it waits with, or a store to the word has not    *)
(* been followed by a wake of all its waiters yet.  The comparison with    *)
(* the word and the entry in the list are one step against FUTEX_WAKE, and *)
(* stale entries of signalled or spuriously woken contexts cost no other   *)
(* waiter its wake-up as long as wakes are for all waiters.                *)
FutexContract ==
    \A c \in Contexts :
        pc[c] = "futex" /\ status[c] = "Blocked" /\ waits[c] # None =>
            word[waits[c][1]] = waits[c][2] \/ waits[c][1] \in dirty

(* Why nobody sleeps on: a context that waits with a value has an entry    *)
(* that the next wake of all waiters finds.                                *)
WaitersQueued ==
    \A c \in Contexts :
        pc[c] = "futex" /\ status[c] = "Blocked" /\ waits[c] # None =>
            \E i \in DOMAIN futexes : futexes[i] = <<waits[c][1], c>>

(* The number of entries of address a.                                     *)
waiters(q, a) == Cardinality({i \in DOMAIN q : q[i][1] = a})

(* The in-place loops with swap_remove_back take exactly the number of     *)
(* entries asked for, if there are so many, and lose none of the others:   *)
(* FUTEX_WAKE and the first loop of FUTEX_REQUEUE take min(n, waiters of   *)
(* a) of them, and the second loop, which goes on where the first stopped, *)
(* moves min(m, those left) to b.                                          *)
WakeTakes ==
    \A a \in Addrs, n \in 0 .. MaxEntries :
        LET done == wake_loop(futexes, a, n)
            left == waiters(futexes, a) - Min({n, waiters(futexes, a)})
        IN  /\ waiters(done.list, a) = left
            /\ Len(done.list) + Len(done.woken) = Len(futexes)
            /\ \A m \in 0 .. MaxEntries, b \in Addrs \ {a} :
                  LET list == requeue_loop(done.list, done.next, a, m, b)
                  IN  /\ waiters(list, a) = left - Min({m, left})
                      /\ waiters(list, b) = waiters(futexes, b) + Min({m, left})

(* An entry of the list is a context asleep in FUTEX_WAIT, and it has no   *)
(* second one: a FUTEX_WAKE of n waiters wakes n contexts that wait.  Not  *)
(* so for a context that slept before, since its wake time of then ends    *)
(* every later wait at once, or that a signal takes out of its wait.       *)
EntriesWait ==
    \A i \in DOMAIN futexes :
        LET c == futexes[i][2]
        IN  \/ wake[c] # None \/ c \in signalled \/ status[c] = "Exited"
            \/ /\ pc[c] = "futex" /\ status[c] = "Blocked"
               /\ \A j \in DOMAIN futexes : futexes[j][2] = c => i = j

(* A waiter that FUTEX_WAKE has taken from the list returns, unless it is  *)
(* killed.                                                                 *)
WokenReturns ==
    \A c \in Contexts :
        (pc[c] = "futex" /\ \A i \in DOMAIN futexes : futexes[i][2] # c)
            ~> (pc[c] = "user" \/ status[c] = "Exited")

(* The invariant the proofs use.                                           *)
FutexIInv == FutexTypeOK /\ RunsRunnable /\ WaitersQueued /\ FutexContract /\ EntriesWait

(* The futex as a whole: nobody sleeps who should not, entries are those   *)
(* of contexts that wait, and the loops over the list of FUTEX_WAKE and    *)
(* FUTEX_REQUEUE take as many as they are asked for.                       *)
FutexExact == FutexContract /\ WakeTakes /\ EntriesWait
=============================================================================

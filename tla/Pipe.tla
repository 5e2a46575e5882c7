-------------------------------- MODULE Pipe --------------------------------
(***************************************************************************)
(* kernel/scheme/pipe.rs: one pipe, its read and write ends, and the       *)
(* contexts that use them.                                                 *)
(*                                                                         *)
(* The model begins after a program has called pipe2 and cloned itself: if *)
(* shared, the contexts are threads with one file table (CLONE_FILES), and *)
(* if not, every context has ends of its own.  The bytes are the numbers   *)
(* 1, 2, ... in the order they are written.                                *)
(***************************************************************************)
EXTENDS WaitCondition, SequenceTheorems, FiniteSetTheorems

CONSTANTS
    FlagSets,    \* the flags programs set
    MaxDups,     \* bound on the calls of dup
    MaxWritten,  \* bound on the bytes written
    MaxBuf       \* bound on the length of a buffer

ASSUME PipeAssumption ==
    /\ IsFiniteSet(Contexts)
    /\ FlagSets \subseteq SUBSET {"O_NONBLOCK", "O_CLOEXEC"}
    /\ MaxDups \in Nat /\ MaxWritten \in Nat /\ MaxBuf \in Nat

VARIABLES
    shared,   \* whether the contexts share one file table
    flags,    \* PipeRead::flags and PipeWrite::flags
    reads,    \* the ids in PIPES.0
    writes,   \* the ids in PIPES.1
    files,    \* the ids in a file table
    next_id,  \* PIPE_NEXT_ID
    vec,      \* the bytes in the pipe
    reading,  \* the end and the room of the buffer of a suspended read
    written,  \* how many bytes were written
    got,      \* the bytes read, in order
    eof       \* whether a read has returned 0 for a buffer that has room

pipeVars == <<shared, flags, reads, writes, files, next_id, vec, reading, written, got, eof>>
vars == <<contextVars, condition, pipeVars>>

Id == 1 .. 2 * Cardinality(Contexts) + MaxDups

(* The file table of c.                                                    *)
table(c) == IF shared THEN Min(Contexts) ELSE c

(* The file tables.                                                        *)
tables == {table(c) : c \in Contexts}

(* The types, and no id is both a read end and a write end.                *)
TypeOK ==
    /\ ContextTypeOK
    /\ pc \in [Contexts -> {"user", "read", "sleep"}]
    /\ condition \in SUBSET Contexts
    /\ shared \in BOOLEAN
    /\ flags \in [Id -> SUBSET {"O_NONBLOCK", "O_CLOEXEC"}]
    /\ reads \in SUBSET Id /\ writes \in SUBSET Id
    /\ reads \cap writes = {}
    /\ files \in [Contexts -> SUBSET Id]
    /\ next_id - 1 \in Id
    /\ vec \in Seq(1 .. MaxWritten) /\ got \in Seq(1 .. MaxWritten)
    /\ reading \in [Contexts -> (Id \X (0 .. MaxBuf)) \cup {None}]
    /\ written \in 0 .. MaxWritten
    /\ eof \in BOOLEAN

(* pipe() with the flags f, then dup(b"clone") of both ends for each child *)
Init ==
    LET rank(t) == Cardinality({u \in tables : u < t})
    IN  /\ ContextInit(Contexts)
        /\ shared \in BOOLEAN
        /\ condition = {}
        /\ reads = {2 * rank(t) + 1 : t \in tables}
        /\ writes = {2 * rank(t) + 2 : t \in tables}
        /\ \E f \in FlagSets :
            flags = [id \in Id |-> IF id \in reads \cup writes THEN f ELSE {}]
        /\ files = [c \in Contexts |->
                      IF c \in tables THEN {2 * rank(c) + 1, 2 * rank(c) + 2} ELSE {}]
        /\ next_id = 2 * Cardinality(tables) + 1
        /\ vec = <<>> /\ got = <<>>
        /\ reading = [c \in Contexts |-> None]
        /\ written = 0
        /\ eof = FALSE

-----------------------------------------------------------------------------
(* Whether a Weak of the bytes can be upgraded when rs are the read ends   *)
(* in the table and p is what the contexts do: a suspended read keeps an   *)
(* Arc of its end, and that of a killed context is never dropped.          *)
alive(rs, p) == rs # {} \/ \E c \in Contexts : p[c] = "read"

(* The bytes are dropped with the last Arc.                                *)
kept(v, rs, p) == IF alive(rs, p) THEN v ELSE <<>>

weak_count == Cardinality(writes)

(* Bug: the bytes are taken from the back.                                 *)
pop_back(k) ==
    /\ got' = got \o SubSeq(vec, Len(vec) - k + 1, Len(vec))
    /\ vec' = kept(SubSeq(vec, 1, Len(vec) - k), reads, pc')

pop_front_bytes(k) ==
    /\ got' = got \o SubSeq(vec, 1, k)
    /\ vec' = kept(SubSeq(vec, k + 1, Len(vec)), reads, pc')

(* One turn of the loop of PipeRead::read at the end id, with room for n.  *)
read_loop(c, id, n) ==
    /\ \/ /\ n > 0 /\ vec # <<>>
          /\ goto(c, "user")
          /\ pop_front_bytes(Min({n, Len(vec)}))
          /\ stay(status)
          /\ UNCHANGED <<condition, eof>>
       \/ /\ n = 0 \/ vec = <<>>
          /\ weak_count = 0
          /\ goto(c, "user")
          /\ pop_front_bytes(0)
          /\ eof' = (eof \/ n > 0)
          /\ stay(status)
          /\ UNCHANGED condition
       \/ /\ n = 0 \/ vec = <<>>
          /\ weak_count # 0
          /\ "O_NONBLOCK" \in flags[id]
          /\ goto(c, "user")
          /\ pop_front_bytes(0)
          /\ stay(status)
          /\ UNCHANGED <<condition, eof>>
       \/ /\ n = 0 \/ vec = <<>>
          /\ weak_count # 0
          /\ "O_NONBLOCK" \notin flags[id]
          /\ goto(c, "read")
          /\ wait(c)
          /\ UNCHANGED <<vec, got, eof>>
    /\ reading' = [reading EXCEPT ![c] = IF pc'[c] = "read" THEN <<id, n>> ELSE None]
    /\ UNCHANGED <<wake, now, shared, flags, reads, writes, files, next_id, written>>

(* PipeScheme::read                                                        *)
read(c, id, n) ==
    /\ At(c, "user")
    /\ id \in files[table(c)] \cap reads
    /\ read_loop(c, id, n)

(* Bug: the context yields, and decides on what it saw before it waited.   *)
read_again_stale(c) ==
    /\ At(c, "read")
    /\ switch(status, c)
    /\ UNCHANGED <<wake, now, pc, condition, pipeVars>>

(* The context returns from the switch() of wait and tries again, with the *)
(* end it has, also if that end has been closed meanwhile.                 *)
read_again(c) ==
    /\ At(c, "read")
    /\ read_loop(c, reading[c][1], reading[c][2])

(* PipeScheme::write of k bytes; EPIPE changes nothing.                    *)
write(c, id, k) ==
    /\ At(c, "user")
    /\ id \in files[table(c)] \cap writes
    /\ alive(reads, pc)
    /\ written + k <= MaxWritten
    /\ written' = written + k
    /\ vec' = vec \o [i \in 1 .. k |-> written + i]
    /\ notify
    /\ UNCHANGED <<wake, now, shared, pc, flags, reads, writes, files, next_id, reading, got,
                   eof>>

-----------------------------------------------------------------------------
(* Bug: the id is read and not advanced.                                   *)
fetch_load(n) == n

(* fetch_add of PIPE_NEXT_ID                                               *)
fetch_add(n) == n + 1

(* PipeRead::dup and PipeWrite::dup: the flags of the new end, as a set    *)
(* that is empty when they fail.                                           *)
end_dup(id, buf) ==
    IF buf = "exec" /\ "O_CLOEXEC" \in flags[id] THEN {}
    ELSE {IF buf = "" THEN flags[id] \ {"O_CLOEXEC"} ELSE flags[id]}

(* PipeScheme::dup with an empty buffer                                    *)
dup(c, id) ==
    /\ At(c, "user")
    /\ id \in files[table(c)]
    /\ next_id <= 2 * Cardinality(tables) + MaxDups
    /\ next_id' = fetch_add(next_id)
    /\ \E f \in end_dup(id, "") : flags' = [flags EXCEPT ![next_id] = f]
    /\ reads' = IF id \in reads THEN reads \cup {next_id} ELSE reads
    /\ writes' = IF id \in reads THEN writes ELSE writes \cup {next_id}
    /\ files' = [files EXCEPT ![table(c)] = @ \cup {next_id}]
    /\ UNCHANGED <<contextVars, condition, shared, vec, reading, written, got, eof>>

(* PipeScheme::fcntl with F_SETFL                                          *)
fcntl(c, id, arg) ==
    /\ At(c, "user")
    /\ id \in files[table(c)]
    /\ flags' = [flags EXCEPT ![id] = arg]
    /\ UNCHANGED <<contextVars, condition, shared, reads, writes, files, next_id, vec,
                   reading, written, got, eof>>

(* Bug: PipeWrite::drop does not notify.                                   *)
drop_silent(ids) == {}

(* The contexts that are woken when ids are removed from the tables:       *)
(* PipeWrite::drop calls notify.                                           *)
drop(ids) == IF ids \cap writes = {} THEN {} ELSE condition

(* The flags when the ends ids are closed: those of an end go with it, but *)
(* a suspended read keeps its end.                                         *)
flags_without(ids) ==
    [id \in Id |->
        IF id \in ids /\ \A c \in Contexts : reading[c] = None \/ reading[c][1] # id THEN {}
        ELSE flags[id]]

(* The ends ids leave the table t.                                         *)
remove(t, ids) ==
    /\ reads' = reads \ ids
    /\ writes' = writes \ ids
    /\ files' = [files EXCEPT ![t] = @ \ ids]
    /\ vec' = kept(vec, reads \ ids, pc')
    /\ condition' = condition \ drop(ids)
    /\ flags' = flags_without(ids)
    /\ UNCHANGED <<wake, now, shared, next_id, reading, written, got, eof>>

(* PipeScheme::close                                                       *)
close(c, id) ==
    /\ At(c, "user")
    /\ id \in files[table(c)]
    /\ goto(c, "user")
    /\ remove(table(c), {id})
    /\ stay(unblock(status, drop({id})))

(* exec duplicates every end with dup(b"exec") and closes the old one.     *)
(* Nobody else has the old id, so the new end keeps its name here.  dup    *)
(* fails for an end with O_CLOEXEC, which is closed only.                  *)
exec(c) ==
    LET ids == files[c]
        failed == {id \in ids : end_dup(id, "exec") = {}}
    IN  /\ At(c, "user")
        /\ ~shared
        /\ goto(c, "user")
        /\ stay(unblock(status, drop(ids)))
        /\ reads' = reads \ failed
        /\ writes' = writes \ failed
        /\ files' = [files EXCEPT ![c] = ids \ failed]
        /\ vec' = kept(vec, reads', pc')
        /\ condition' = condition \ drop(ids)
        /\ flags' = flags_without(failed)
        /\ UNCHANGED <<wake, now, shared, next_id, reading, written, got, eof>>

(* The ends exit closes: those of the file table, when no other context    *)
(* uses it.                                                                *)
close_files(c) ==
    IF \E d \in Contexts \ {c} : table(d) = table(c) /\ status[d] # "Exited" THEN {}
    ELSE files[table(c)]

(* A program exits, or signal_handler makes it exit, in a read as well.    *)
exit(c) ==
    LET ids == close_files(c)
    IN  /\ CONTEXT_ID = c
        /\ c \in signalled \/ At(c, "user")
        /\ UNCHANGED pc
        /\ remove(table(c), ids)
        /\ switch([unblock(status, drop(ids)) EXCEPT ![c] = "Exited"], c)

-----------------------------------------------------------------------------
Next ==
    \/ \E c \in Contexts :
        \/ \E id \in Id, n \in 0 .. MaxBuf : read(c, id, n) \/ write(c, id, n)
        \/ \E id \in Id : dup(c, id) \/ close(c, id)
        \/ \E id \in Id, arg \in FlagSets : fcntl(c, id, arg)
        \/ read_again(c) \/ exec(c) \/ exit(c)
    \/ schedule /\ UNCHANGED <<condition, pipeVars>>

Spec == Init /\ [][Next]_vars

FairSpec ==
    /\ Spec
    /\ ScheduleFairness
    /\ \A c \in Contexts : WF_vars(read_again(c)) /\ WF_vars(c \in signalled /\ exit(c))

-----------------------------------------------------------------------------
(* Nobody sleeps in PipeRead::read with room in the buffer while there is  *)
(* a byte to read, or after the last write end is gone: each write and     *)
(* each dropped PipeWrite wakes the readers, whichever thread or exit or   *)
(* exec drops it.                                                          *)
NoLostWakeup ==
    \A c \in Contexts : pc[c] = "read" /\ status[c] = "Blocked" /\ reading[c][2] > 0 =>
        vec = <<>> /\ writes # {}

(* End of file is final: after a read has returned 0 there are no bytes    *)
(* and no write ends, now or ever.                                         *)
EofFinal == eof => vec = <<>> /\ writes = {}

(* Readers get the bytes in the order they were written, each once, and    *)
(* none is lost while there is a reader.                                   *)
PipeOrder ==
    LET seen == got \o vec
    IN  /\ \A i \in DOMAIN seen : seen[i] = i
        /\ alive(reads, pc) => Len(seen) = written

(* A write end is in the file table of a context that lives: the exit of   *)
(* the last context with a write end gives readers their end of file.      *)
WritersLive ==
    \A id \in writes : \E c \in Contexts : status[c] # "Exited" /\ id \in files[table(c)]

(* When the last write end is gone every reader returns.                   *)
EofReached ==
    \A c \in Contexts :
        (pc[c] = "read" /\ writes = {}) ~> (pc[c] = "user" \/ status[c] = "Exited")

(* A pipe as a whole: bytes come out in order, end of file is final, and   *)
(* readers sleep only while there is nothing for them.                     *)
PipeExact == NoLostWakeup /\ EofFinal /\ PipeOrder /\ WritersLive
-----------------------------------------------------------------------------
(* PipeExact for any number of contexts, ends, bytes and signals.          *)

(* The scheduler and the types that the properties need.                   *)
Typed ==
    /\ ContextTypeOK /\ RunsRunnable
    /\ pc \in [Contexts -> {"user", "read", "sleep"}]
    /\ files \in [Contexts -> SUBSET Nat] /\ next_id \in Nat
    /\ IsFiniteSet(writes)
    /\ vec \in Seq(Nat) /\ got \in Seq(Nat) /\ written \in Nat
    /\ reading \in [Contexts -> (Nat \X Nat) \cup {None}]
    /\ \A c \in Contexts : pc[c] = "read" => reading[c] \in Nat \X Nat

(* A reader that is asleep is in the list of the next notify.              *)
Listed == \A c \in Contexts : pc[c] = "read" /\ status[c] = "Blocked" => c \in condition

(* The ids of a file table are ends that exist, of one kind or the other,  *)
(* and no other table has them.                                            *)
EndsExist ==
    \A c \in Contexts :
        /\ files[c] \subseteq reads \cup writes
        /\ \A id \in files[c] : id < next_id
        /\ \A d \in Contexts \ {c} : files[c] \cap files[d] = {}

IInv == Typed /\ Listed /\ EndsExist /\ PipeExact

LEMMA TableOf ==
    ASSUME NEW c \in Contexts
    PROVE  table(c) \in Contexts
  BY MinNat, ContextAssumption, Contexts \in SUBSET Nat, Contexts # {} DEF table

LEMMA NoWriters == IsFiniteSet(writes) => (weak_count = 0 <=> writes = {})
  BY FS_EmptySet DEF weak_count

LEMMA ConcatParts ==
    ASSUME NEW g \in Seq(Nat), NEW v \in Seq(Nat)
    PROVE  /\ g \o v \in Seq(Nat) /\ Len(g \o v) = Len(g) + Len(v)
           /\ DOMAIN (g \o v) = 1 .. Len(g) + Len(v)
           /\ \A i \in 1 .. Len(g) : (g \o v)[i] = g[i]
           /\ \A i \in 1 .. Len(v) : (g \o v)[Len(g) + i] = v[i]
<1>1. Len(g) \in Nat /\ Len(v) \in Nat
  BY LenProperties
<1>2. g \o v \in Seq(Nat) /\ Len(g \o v) = Len(g) + Len(v)
  BY ConcatProperties
<1>3. DOMAIN (g \o v) = 1 .. Len(g) + Len(v)
  BY <1>2, LenProperties
<1> QED
  BY <1>1, <1>2, <1>3, ConcatProperties

(* What is read and what is still in the pipe, position by position.       *)
LEMMA SeenInOrder ==
    ASSUME NEW g \in Seq(Nat), NEW v \in Seq(Nat)
    PROVE  /\ Len(g \o v) = Len(g) + Len(v)
           /\ (\A i \in DOMAIN (g \o v) : (g \o v)[i] = i) <=>
                 /\ \A i \in 1 .. Len(g) : g[i] = i
                 /\ \A i \in 1 .. Len(v) : v[i] = Len(g) + i
<1> DEFINE s == g \o v
<1>1. Len(g) \in Nat /\ Len(v) \in Nat
  BY LenProperties
<1>2. Len(s) = Len(g) + Len(v) /\ DOMAIN s = 1 .. Len(g) + Len(v)
  BY ConcatParts
<1>3. /\ \A i \in 1 .. Len(g) : s[i] = g[i]
      /\ \A i \in 1 .. Len(v) : s[Len(g) + i] = v[i]
  BY ConcatParts
<1> HIDE DEF s
<1>4. ASSUME \A i \in DOMAIN s : s[i] = i
      PROVE  /\ \A i \in 1 .. Len(g) : g[i] = i
             /\ \A i \in 1 .. Len(v) : v[i] = Len(g) + i
  <2>1. \A i \in 1 .. Len(g) : i \in DOMAIN s
    BY <1>1, <1>2
  <2>2. \A i \in 1 .. Len(v) : Len(g) + i \in DOMAIN s
    BY <1>1, <1>2
  <2> HIDE <1>2
  <2> QED
    BY <1>3, <1>4, <2>1, <2>2
<1>5. ASSUME \A i \in 1 .. Len(g) : g[i] = i,
             \A i \in 1 .. Len(v) : v[i] = Len(g) + i,
             NEW j \in DOMAIN s
      PROVE  s[j] = j
  <2>1. CASE j <= Len(g)
    BY <1>1, <1>2, <1>3, <1>5, <2>1
  <2>2. CASE j > Len(g)
    <3>1. j - Len(g) \in 1 .. Len(v) /\ j = Len(g) + (j - Len(g))
      BY <1>1, <1>2, <2>2
    <3> HIDE <1>2
    <3> QED
      BY <1>3, <1>5, <3>1
  <2> QED
    BY <1>1, <1>2, <2>1, <2>2
<1> QED
  BY <1>2, <1>4, <1>5 DEF s

(* Taking the first k bytes out of the pipe keeps their order and loses    *)
(* none, unless it drops the last reader.                                  *)
LEMMA Taken ==
    ASSUME Typed, PipeOrder, alive(reads, pc), NEW k \in 0 .. Len(vec), pop_front_bytes(k),
           UNCHANGED <<reads, written>>
    PROVE  /\ vec' \in Seq(Nat) /\ got' \in Seq(Nat) /\ PipeOrder'
           /\ vec = <<>> => vec' = <<>>
<1> DEFINE a == SubSeq(vec, 1, k)
           b == SubSeq(vec, k + 1, Len(vec))
<1>1. vec \in Seq(Nat) /\ got \in Seq(Nat) /\ Len(vec) \in Nat /\ Len(got) \in Nat
  BY LenProperties DEF Typed
<1>2. /\ a \in Seq(Nat) /\ Len(a) = k /\ \A i \in 1 .. k : a[i] = vec[i]
      /\ b \in Seq(Nat) /\ Len(b) = Len(vec) - k
      /\ \A i \in 1 .. Len(vec) - k : b[i] = vec[k + i]
  BY <1>1, SplitSeq
<1>3. got' = got \o a /\ (vec' = b \/ vec' = <<>>) /\ (alive(reads', pc') => vec' = b)
  BY DEF pop_front_bytes, kept
<1> HIDE DEF a, b
<1>4. /\ got' \in Seq(Nat) /\ Len(got') = Len(got) + k
      /\ \A i \in 1 .. Len(got) : got'[i] = got[i]
      /\ \A i \in 1 .. k : got'[Len(got) + i] = a[i]
  <2>1. got \o a \in Seq(Nat) /\ Len(got \o a) = Len(got) + Len(a)
    BY <1>1, <1>2, ConcatParts
  <2>2. /\ \A i \in 1 .. Len(got) : (got \o a)[i] = got[i]
        /\ \A i \in 1 .. Len(a) : (got \o a)[Len(got) + i] = a[i]
    BY <1>1, <1>2, ConcatParts
  <2>3. Len(a) = k /\ got' = got \o a
    BY <1>2, <1>3
  <2> QED
    BY <2>1, <2>2, <2>3
<1>5. vec' \in Seq(Nat)
  <2>1. <<>> \in Seq(Nat) /\ b \in Seq(Nat)
    BY <1>2, EmptySeq
  <2> QED
    BY <1>3, <2>1
<1>6. /\ \A i \in 1 .. Len(got) : got[i] = i
      /\ \A i \in 1 .. Len(vec) : vec[i] = Len(got) + i
      /\ Len(got) + Len(vec) = written
  BY <1>1, SeenInOrder DEF PipeOrder
<1>7. ASSUME NEW i \in 1 .. Len(got')
      PROVE  got'[i] = i
  <2>1. CASE i <= Len(got)
    <3>1. i \in 1 .. Len(got)
      BY <1>1, <2>1
    <3> QED
      BY <1>4, <1>6, <3>1
  <2>2. CASE i > Len(got)
    <3>1. i - Len(got) \in 1 .. k /\ i = Len(got) + (i - Len(got)) /\ i - Len(got) \in 1 .. Len(vec)
      BY <1>1, <1>4, <2>2
    <3>2. got'[i] = a[i - Len(got)]
      BY <1>4, <3>1
    <3>3. a[i - Len(got)] = vec[i - Len(got)]
      BY <1>2, <3>1
    <3> QED
      BY <1>6, <3>1, <3>2, <3>3
  <2> QED
    BY <1>1, <1>4, <2>1, <2>2
<1>8. ASSUME NEW i \in 1 .. Len(b)
      PROVE  b[i] = Len(got') + i
  <2>1. k + i \in 1 .. Len(vec) /\ i \in 1 .. Len(vec) - k
    BY <1>1, <1>2
  <2>2. b[i] = vec[k + i] /\ vec[k + i] = Len(got) + (k + i)
    BY <1>2, <1>6, <2>1
  <2> QED
    BY <1>1, <1>4, <2>1, <2>2
<1>9. \A i \in 1 .. Len(vec') : vec'[i] = Len(got') + i
  BY <1>3, <1>8
<1>10. alive(reads', pc') => Len(got') + Len(vec') = written'
  <2>1. ASSUME alive(reads', pc') PROVE vec' = b /\ written' = written
    BY <1>3, <2>1
  <2>2. Len(got') + Len(b) = written
    BY <1>1, <1>2, <1>4, <1>6
  <2> QED
    BY <2>1, <2>2
<1>11. PipeOrder'
  BY <1>4, <1>5, <1>7, <1>9, <1>10, SeenInOrder DEF PipeOrder, alive
<1>12. ASSUME vec = <<>> PROVE vec' = <<>>
  <2>1. Len(vec) = 0 /\ k = 0
    BY <1>12
  <2>2. Len(b) = 0
    BY <1>2, <2>1
  <2> QED
    BY <1>2, <1>3, <2>2, EmptySeq
<1> QED
  BY <1>4, <1>5, <1>11, <1>12

-----------------------------------------------------------------------------
(* Nobody who is undisturbed, or runs, changes what IInv says about him.   *)

(* A read that returns: the status of every context stays.                 *)
LEMMA ReturnKeeps ==
    ASSUME IInv, NEW c \in Contexts, alive(reads, pc),
           NEW k \in 0 .. Len(vec), goto(c, "user"), pop_front_bytes(k), stay(status),
           reading' = [reading EXCEPT ![c] = None],
           UNCHANGED <<wake, now, condition, shared, reads, writes, files, next_id, written>>,
           vec = <<>> \/ \A x \in Contexts \ {c} :
               ~(pc[x] = "read" /\ status[x] = "Blocked" /\ reading[x][2] > 0),
           eof' => vec = <<>> /\ writes = {}
    PROVE  IInv'
<1>1. vec' \in Seq(Nat) /\ got' \in Seq(Nat) /\ PipeOrder' /\ (vec = <<>> => vec' = <<>>)
  BY Taken DEF IInv, PipeExact
<1>2. /\ pc' \in [Contexts -> {"user", "read", "sleep"}] /\ pc'[c] = "user"
      /\ \A x \in Contexts \ {c} : pc'[x] = pc[x] /\ reading'[x] = reading[x]
      /\ reading' \in [Contexts -> (Nat \X Nat) \cup {None}]
  BY DEF IInv, Typed, goto
<1>3. status' = status /\ ContextTypeOK' /\ RunsRunnable'
  BY DEF IInv, Typed, stay, ContextTypeOK, RunsRunnable
<1>4. Typed'
  BY <1>1, <1>2, <1>3 DEF IInv, Typed
<1>5. Listed'
  BY <1>2, <1>3 DEF IInv, Listed
<1>6. EndsExist' /\ WritersLive'
  BY <1>3 DEF IInv, PipeExact, EndsExist, WritersLive, table
<1>7. NoLostWakeup'
  <2> SUFFICES ASSUME NEW x \in Contexts,
                      pc'[x] = "read", status'[x] = "Blocked", reading'[x][2] > 0
               PROVE  vec' = <<>> /\ writes' # {}
    BY DEF NoLostWakeup
  <2>1. x # c /\ pc[x] = "read" /\ status[x] = "Blocked" /\ reading[x][2] > 0
    BY <1>2, <1>3
  <2>2. vec = <<>> /\ writes # {}
    BY <2>1 DEF IInv, PipeExact, NoLostWakeup
  <2> QED
    BY <1>1, <2>2
<1>8. EofFinal'
  BY <1>1 DEF EofFinal
<1> QED
  BY <1>1, <1>4, <1>5, <1>6, <1>7, <1>8 DEF IInv, PipeExact

(* A read that waits: there is nothing for it, and it enters the list      *)
(* before it gives the CPU away.                                           *)
LEMMA WaitKeeps ==
    ASSUME IInv, NEW c \in Contexts, CONTEXT_ID = c, alive(reads, pc),
           NEW id \in Nat, NEW n \in Nat, n = 0 \/ vec = <<>>, writes # {},
           goto(c, "read"), wait(c), reading' = [reading EXCEPT ![c] = <<id, n>>],
           UNCHANGED <<wake, now, shared, reads, writes, files, next_id, written, vec, got, eof>>
    PROVE  IInv'
<1> DEFINE st == block(status, c)
<1>1. c \in Ids /\ KMAIN \in Ids /\ KMAIN # c /\ Contexts \subseteq Ids
  BY ContextAssumption DEF Ids
<1>2. /\ st \in [Ids -> Status] /\ st[KMAIN] = "Runnable" /\ st[c] = "Blocked"
      /\ \A x \in Ids \ {c} : st[x] = status[x]
  BY <1>1 DEF IInv, Typed, ContextTypeOK, RunsRunnable, block, Status
<1>3. switch(st, c) /\ condition' = condition \cup {c}
  BY DEF wait
<1>4. /\ pc' \in [Contexts -> {"user", "read", "sleep"}] /\ pc'[c] = "read"
      /\ \A x \in Contexts \ {c} : pc'[x] = pc[x] /\ reading'[x] = reading[x]
      /\ reading' \in [Contexts -> (Nat \X Nat) \cup {None}] /\ reading'[c] = <<id, n>>
  BY DEF IInv, Typed, goto
<1> HIDE DEF st
<1>5. /\ ContextTypeOK' /\ RunsRunnable' /\ status'[c] = "Blocked"
      /\ \A x \in Contexts \ {c} :
           status'[x] = status[x] \/ (status[x] = "Blocked" /\ status'[x] = "Runnable")
  <2>1. ContextTypeOK /\ UNCHANGED <<wake, now>>
    BY DEF IInv, Typed
  <2>2. /\ ContextTypeOK' /\ RunsRunnable' /\ status'[c] = st[c]
        /\ \A x \in Contexts \ {c} :
             status'[x] = st[x] \/ (st[x] = "Blocked" /\ status'[x] = "Runnable")
    BY <1>1, <1>2, <1>3, <1>4, <2>1, SwitchMoves, ZenonT(60)
  <2> QED
    BY <1>1, <1>2, <2>2
<1>6. Typed'
  BY <1>4, <1>5 DEF IInv, Typed
<1>7. Listed'
  BY <1>3, <1>4, <1>5 DEF IInv, Listed
<1>8. EndsExist' /\ EofFinal'
  BY DEF IInv, PipeExact, EndsExist, EofFinal
<1>9. WritersLive'
  <2>1. \A x \in Contexts : status[x] # "Exited" => status'[x] # "Exited"
    BY <1>5
  <2>2. \A x \in Contexts : table(x)' = table(x)
    BY DEF table
  <2> QED
    BY <2>1, <2>2 DEF IInv, PipeExact, WritersLive
<1>10. NoLostWakeup'
  BY <1>4, <1>5 DEF IInv, PipeExact, NoLostWakeup
<1>11. PipeOrder'
  BY DEF IInv, PipeExact, PipeOrder
<1> QED
  BY <1>6, <1>7, <1>8, <1>9, <1>10, <1>11 DEF IInv, PipeExact

LEMMA ReadKeeps ==
    ASSUME IInv, NEW c \in Contexts, CONTEXT_ID = c, alive(reads, pc),
           NEW id \in Nat, NEW n \in Nat, read_loop(c, id, n)
    PROVE  IInv'
<1>1. vec \in Seq(Nat) /\ Len(vec) \in Nat /\ IsFiniteSet(writes)
  BY LenProperties DEF IInv, Typed
<1>2. UNCHANGED <<wake, now, shared, reads, writes, files, next_id, written>>
  BY DEF read_loop
<1>3. reading' = [reading EXCEPT ![c] = IF pc'[c] = "read" THEN <<id, n>> ELSE None]
  BY DEF read_loop
<1>4. pc \in [Contexts -> {"user", "read", "sleep"}]
  BY DEF IInv, Typed
<1>5. weak_count = 0 <=> writes = {}
  BY <1>1, NoWriters
<1>6. goto(c, "user") => reading' = [reading EXCEPT ![c] = None]
  BY <1>3, <1>4 DEF goto
<1>7. EofFinal /\ NoLostWakeup
  BY DEF IInv, PipeExact
<1>8. CASE /\ n > 0 /\ vec # <<>>
           /\ goto(c, "user") /\ pop_front_bytes(Min({n, Len(vec)})) /\ stay(status)
           /\ UNCHANGED <<condition, eof>>
  <2>1. Min({n, Len(vec)}) \in 0 .. Len(vec)
    BY <1>1, MinNat, {n, Len(vec)} \in SUBSET Nat
  <2>2. \A x \in Contexts \ {c} : ~(pc[x] = "read" /\ status[x] = "Blocked" /\ reading[x][2] > 0)
    BY <1>7, <1>8 DEF NoLostWakeup
  <2>3. eof' => vec = <<>> /\ writes = {}
    BY <1>7, <1>8 DEF EofFinal
  <2> QED
    BY <1>2, <1>6, <1>8, <2>1, <2>2, <2>3, ReturnKeeps
<1>9. CASE /\ n = 0 \/ vec = <<>>
           /\ weak_count = 0
           /\ goto(c, "user") /\ pop_front_bytes(0) /\ stay(status)
           /\ eof' = (eof \/ n > 0)
           /\ UNCHANGED condition
  <2>1. 0 \in 0 .. Len(vec)
    BY <1>1
  <2>2. \A x \in Contexts \ {c} : ~(pc[x] = "read" /\ status[x] = "Blocked" /\ reading[x][2] > 0)
    BY <1>5, <1>7, <1>9 DEF NoLostWakeup
  <2>3. ASSUME eof' PROVE vec = <<>> /\ writes = {}
    <3>1. CASE eof
      BY <1>7, <3>1 DEF EofFinal
    <3>2. CASE n > 0
      BY <1>5, <1>9, <3>2
    <3> QED
      BY <1>9, <2>3, <3>1, <3>2
  <2> QED
    BY <1>2, <1>6, <1>9, <2>1, <2>2, <2>3, ReturnKeeps
<1>10. CASE /\ n = 0 \/ vec = <<>>
            /\ goto(c, "user") /\ pop_front_bytes(0) /\ stay(status)
            /\ UNCHANGED <<condition, eof>>
  <2>1. 0 \in 0 .. Len(vec)
    BY <1>1
  <2>2. vec = <<>> \/ \A x \in Contexts \ {c} :
            ~(pc[x] = "read" /\ status[x] = "Blocked" /\ reading[x][2] > 0)
    BY <1>7 DEF NoLostWakeup
  <2>3. eof' => vec = <<>> /\ writes = {}
    BY <1>7, <1>10 DEF EofFinal
  <2> QED
    BY <1>2, <1>6, <1>10, <2>1, <2>2, <2>3, ReturnKeeps
<1>11. CASE /\ n = 0 \/ vec = <<>>
            /\ weak_count # 0
            /\ goto(c, "read") /\ wait(c)
            /\ UNCHANGED <<vec, got, eof>>
  <2>1. reading' = [reading EXCEPT ![c] = <<id, n>>]
    BY <1>3, <1>4, <1>11 DEF goto
  <2>2. writes # {}
    BY <1>5, <1>11
  <2> QED
    BY <1>2, <1>11, <2>1, <2>2, WaitKeeps
<1> QED
  BY <1>8, <1>9, <1>10, <1>11 DEF read_loop

-----------------------------------------------------------------------------
(* Waking the contexts cs while the CPU stays where it is.                 *)
LEMMA WakeMoves ==
    ASSUME Typed, NEW cs, stay(unblock(status, cs)), UNCHANGED <<wake, now>>
    PROVE  /\ ContextTypeOK' /\ RunsRunnable'
           /\ \A x \in Contexts :
                /\ status'[x] = "Blocked" => status[x] = "Blocked" /\ x \notin cs
                /\ status'[x] = "Exited" <=> status[x] = "Exited"
<1>1. KMAIN \in Ids /\ Contexts \subseteq Ids
  BY DEF Ids
<1>2. /\ status' \in [Ids -> Status]
      /\ \A x \in Ids : status'[x] = IF x \in cs /\ status[x] = "Blocked" THEN "Runnable"
                                     ELSE status[x]
  BY DEF Typed, ContextTypeOK, stay, unblock, Status
<1>3. ContextTypeOK'
  BY <1>2 DEF Typed, ContextTypeOK, stay
<1>4. RunsRunnable'
  BY <1>1, <1>2 DEF Typed, ContextTypeOK, RunsRunnable, stay
<1> QED
  BY <1>1, <1>2, <1>3, <1>4

(* A write wakes every sleeper, so that none is left to miss its bytes.    *)
LEMMA WriteKeeps ==
    ASSUME IInv, NEW c \in Contexts, NEW id \in Nat, NEW k \in Nat, write(c, id, k)
    PROVE  IInv'
<1> DEFINE new == [i \in 1 .. k |-> written + i]
<1>1. Typed /\ Listed /\ EndsExist /\ NoLostWakeup /\ EofFinal /\ PipeOrder /\ WritersLive
  BY DEF IInv, PipeExact
<1>2. /\ condition' = {} /\ stay(unblock(status, condition))
      /\ written' = written + k /\ vec' = vec \o new
      /\ writes # {} /\ alive(reads, pc)
      /\ UNCHANGED <<wake, now>> /\ pc' = pc
      /\ UNCHANGED <<shared, reads, writes, files, next_id, reading, got, eof>>
  BY DEF write, notify
<1>3. /\ ContextTypeOK' /\ RunsRunnable'
      /\ \A x \in Contexts :
           /\ status'[x] = "Blocked" => status[x] = "Blocked" /\ x \notin condition
           /\ status'[x] = "Exited" <=> status[x] = "Exited"
  BY <1>1, <1>2, WakeMoves
<1>4. /\ vec \in Seq(Nat) /\ got \in Seq(Nat) /\ written \in Nat
      /\ Len(vec) \in Nat /\ Len(got) \in Nat
  BY <1>1, LenProperties DEF Typed
<1>5. new \in Seq(Nat) /\ Len(new) = k /\ \A i \in 1 .. k : new[i] = written + i
  BY <1>4
<1> HIDE DEF new
<1>6. /\ vec' \in Seq(Nat) /\ Len(vec') = Len(vec) + k
      /\ \A i \in 1 .. Len(vec) : vec'[i] = vec[i]
      /\ \A i \in 1 .. k : vec'[Len(vec) + i] = new[i]
  <2>1. /\ vec \o new \in Seq(Nat) /\ Len(vec \o new) = Len(vec) + Len(new)
        /\ \A i \in 1 .. Len(vec) : (vec \o new)[i] = vec[i]
        /\ \A i \in 1 .. Len(new) : (vec \o new)[Len(vec) + i] = new[i]
    BY <1>4, <1>5, ConcatParts
  <2>2. Len(new) = k /\ vec' = vec \o new
    BY <1>2, <1>5
  <2> QED
    BY <2>1, <2>2
<1>7. Typed'
  <2>1. written' \in Nat
    BY <1>2, <1>4
  <2> QED
    BY <1>1, <1>2, <1>3, <1>6, <2>1 DEF Typed
<1>8. \A x \in Contexts : ~(pc'[x] = "read" /\ status'[x] = "Blocked")
  BY <1>1, <1>2, <1>3 DEF Listed
<1>9. Listed' /\ NoLostWakeup'
  BY <1>8 DEF Listed, NoLostWakeup
<1>10. EndsExist'
  BY <1>1, <1>2 DEF EndsExist
<1>11. EofFinal'
  BY <1>1, <1>2 DEF EofFinal
<1>12. WritersLive'
  BY <1>1, <1>2, <1>3 DEF WritersLive, table
<1>13. PipeOrder'
  <2>1. /\ \A i \in 1 .. Len(got) : got[i] = i
        /\ \A i \in 1 .. Len(vec) : vec[i] = Len(got) + i
        /\ Len(got) + Len(vec) = written
    BY <1>1, <1>2, <1>4, SeenInOrder DEF PipeOrder
  <2>2. ASSUME NEW i \in 1 .. Len(vec')
        PROVE  vec'[i] = Len(got) + i
    <3>1. CASE i <= Len(vec)
      <4>1. i \in 1 .. Len(vec)
        BY <1>4, <3>1
      <4> QED
        BY <1>6, <2>1, <4>1
    <3>2. CASE i > Len(vec)
      <4>1. i - Len(vec) \in 1 .. k /\ i = Len(vec) + (i - Len(vec))
        BY <1>4, <1>6, <3>2
      <4>2. vec'[i] = new[i - Len(vec)] /\ new[i - Len(vec)] = written + (i - Len(vec))
        BY <1>5, <1>6, <4>1
      <4>3. vec'[i] = written + (i - Len(vec)) /\ Len(got) + Len(vec) = written /\ i \in Int
        BY <2>1, <4>1, <4>2
      <4>4. Len(vec) \in Nat /\ Len(got) \in Nat
        BY <1>4
      <4> HIDE <1>6
      <4> QED
        BY <4>3, <4>4
    <3> QED
      BY <1>4, <1>6, <3>1, <3>2
  <2>3. Len(got') + Len(vec') = written'
    <3>1. got' = got /\ Len(vec') = Len(vec) + k /\ written' = written + k
      BY <1>2, <1>6
    <3>2. Len(vec) \in Nat /\ Len(got) \in Nat /\ Len(got) + Len(vec) = written
      BY <1>4, <2>1
    <3> QED
      BY <3>1, <3>2
  <2> QED
    BY <1>2, <1>4, <1>6, <2>1, <2>2, <2>3, SeenInOrder DEF PipeOrder
<1> QED
  BY <1>7, <1>9, <1>10, <1>11, <1>12, <1>13 DEF IInv, PipeExact

LEMMA DupKeeps ==
    ASSUME IInv, NEW c \in Contexts, NEW id \in Nat, dup(c, id)
    PROVE  IInv'
<1>1. Typed /\ Listed /\ EndsExist /\ NoLostWakeup /\ EofFinal /\ PipeOrder /\ WritersLive
  BY DEF IInv, PipeExact
<1>2. table(c) \in Contexts /\ CONTEXT_ID = c /\ id \in files[table(c)]
  BY TableOf DEF dup, At
<1>3. /\ next_id' = next_id + 1
      /\ \/ id \in reads /\ reads' = reads \cup {next_id} /\ writes' = writes
         \/ id \notin reads /\ reads' = reads /\ writes' = writes \cup {next_id}
      /\ files' = [files EXCEPT ![table(c)] = @ \cup {next_id}]
      /\ UNCHANGED <<contextVars, condition, shared, vec, reading, written, got, eof>>
  BY DEF dup, fetch_add
<1>4. files' \in [Contexts -> SUBSET Nat] /\ next_id' \in Nat /\ IsFiniteSet(writes')
  <2>1. IsFiniteSet(writes')
    <3>1. IsFiniteSet(writes)
      BY <1>1 DEF Typed
    <3>2. IsFiniteSet(writes \cup {next_id})
      BY <3>1, FS_AddElement
    <3> QED
      BY <1>3, <3>1, <3>2
  <2> QED
    BY <1>1, <1>2, <1>3, <2>1 DEF Typed
<1>5. Typed'
  BY <1>1, <1>3, <1>4 DEF Typed, contextVars, ContextTypeOK, RunsRunnable
<1>6. Listed'
  BY <1>1, <1>3 DEF Listed, contextVars
<1>7. EndsExist'
  <2>1. next_id \in Nat /\ \A x \in Contexts : files[x] \subseteq Nat
    BY <1>1 DEF Typed
  <2>2. \A x \in Contexts : files'[x] = IF x = table(c) THEN files[x] \cup {next_id} ELSE files[x]
    BY <1>1, <1>2, <1>3 DEF Typed
  <2>3. \A x \in Contexts : next_id \notin files[x]
    BY <1>1, <2>1 DEF EndsExist
  <2>4. \A x \in Contexts : \A e \in files'[x] : e < next_id'
    BY <1>1, <1>3, <2>1, <2>2 DEF EndsExist
  <2>5. \A x \in Contexts : files'[x] \subseteq reads' \cup writes'
    BY <1>1, <1>3, <2>2 DEF EndsExist
  <2>6. \A x \in Contexts : \A d \in Contexts \ {x} : files'[x] \cap files'[d] = {}
    BY <1>1, <2>2, <2>3 DEF EndsExist
  <2> QED
    BY <2>4, <2>5, <2>6 DEF EndsExist
<1>8. NoLostWakeup'
  BY <1>1, <1>3 DEF NoLostWakeup, contextVars
<1>9. EofFinal'
  <2>1. writes = {} => id \in reads
    BY <1>1, <1>2 DEF EndsExist
  <2> QED
    BY <1>1, <1>3, <2>1 DEF EofFinal
<1>10. PipeOrder'
  <2>1. alive(reads', pc') => alive(reads, pc)
    BY <1>3 DEF alive, contextVars
  <2> QED
    BY <1>1, <1>3, <2>1 DEF PipeOrder
<1>11. WritersLive'
  <2>1. status[c] # "Exited"
    BY <1>1, <1>2 DEF Typed, RunsRunnable
  <2>2. next_id \in files'[table(c)] /\ \A x \in Contexts : files[x] \subseteq files'[x]
    BY <1>1, <1>2, <1>3 DEF Typed
  <2>3. status' = status /\ \A x \in Contexts : table(x)' = table(x)
    BY <1>3 DEF contextVars, table
  <2>4. ASSUME NEW e \in writes'
        PROVE  \E x \in Contexts : status[x] # "Exited" /\ e \in files'[table(x)]
    <3>1. CASE e \in writes
      <4>1. PICK x \in Contexts : status[x] # "Exited" /\ e \in files[table(x)]
        BY <1>1, <3>1 DEF WritersLive
      <4> QED
        BY <2>2, <4>1, TableOf
    <3>2. CASE e = next_id
      BY <2>1, <2>2, <3>2
    <3> QED
      BY <1>3, <3>1, <3>2
  <2> QED
    BY <2>3, <2>4 DEF WritersLive
<1> QED
  BY <1>5, <1>6, <1>7, <1>8, <1>9, <1>10, <1>11 DEF IInv, PipeExact

LEMMA FcntlKeeps ==
    ASSUME IInv, NEW c \in Contexts, NEW id, NEW arg, fcntl(c, id, arg)
    PROVE  IInv'
<1>1. Typed'
  BY DEF IInv, Typed, fcntl, contextVars, ContextTypeOK, RunsRunnable
<1>2. Listed' /\ EndsExist' /\ NoLostWakeup' /\ EofFinal'
  BY DEF IInv, PipeExact, Listed, EndsExist, NoLostWakeup, EofFinal, fcntl, contextVars
<1>3. PipeOrder' /\ WritersLive'
  BY DEF IInv, PipeExact, PipeOrder, WritersLive, table, alive, fcntl, contextVars
<1> QED
  BY <1>1, <1>2, <1>3 DEF IInv, PipeExact

(* The ends gone leave the table t.  If ids, which they are among, has a   *)
(* write end, then drop wakes whoever waits, and else no write end goes.   *)
LEMMA RemoveKeeps ==
    ASSUME IInv, NEW t \in Contexts, NEW ids, NEW gone \in SUBSET ids,
           reads' = reads \ gone, writes' = writes \ gone,
           files' = [files EXCEPT ![t] = @ \ gone],
           gone \subseteq files[t],
           vec' = kept(vec, reads \ gone, pc'), condition' = condition \ drop(ids),
           UNCHANGED <<shared, next_id, reading, written, got, eof>>,
           ContextTypeOK', RunsRunnable', pc' = pc,
           \A x \in Contexts : status'[x] = "Blocked" => status[x] = "Blocked" /\ x \notin drop(ids),
           WritersLive'
    PROVE  IInv'
<1>1. Typed /\ Listed /\ EndsExist /\ NoLostWakeup /\ EofFinal /\ PipeOrder
  BY DEF IInv, PipeExact
<1>2. (vec' = vec \/ vec' = <<>>) /\ (alive(reads', pc') => vec' = vec)
  BY DEF kept
<1>3. vec' \in Seq(Nat)
  BY <1>1, <1>2, EmptySeq DEF Typed
<1>4. IsFiniteSet(writes')
  <2>1. IsFiniteSet(writes) /\ writes' \in SUBSET writes
    BY <1>1 DEF Typed
  <2> QED
    BY <2>1, FS_Subset
<1>5. files' \in [Contexts -> SUBSET Nat]
  BY <1>1 DEF Typed
<1>6. Typed'
  BY <1>1, <1>3, <1>4, <1>5 DEF Typed
<1>7. Listed'
  BY <1>1 DEF Listed
<1>8. EndsExist'
  <2>1. \A x \in Contexts : files'[x] = IF x = t THEN files[x] \ gone ELSE files[x]
    BY <1>1 DEF Typed
  <2>2. \A x \in Contexts \ {t} : files[x] \cap gone = {}
    BY <1>1 DEF EndsExist
  <2> QED
    BY <1>1, <2>1, <2>2 DEF EndsExist
<1>9. NoLostWakeup'
  <2> SUFFICES ASSUME NEW x \in Contexts,
                      pc[x] = "read", status'[x] = "Blocked", reading[x][2] > 0
               PROVE  vec' = <<>> /\ writes' # {}
    BY DEF NoLostWakeup
  <2>1. status[x] = "Blocked" /\ x \notin drop(ids)
    OBVIOUS
  <2>2. vec = <<>> /\ writes # {} /\ x \in condition
    BY <1>1, <2>1 DEF NoLostWakeup, Listed
  <2>3. ids \cap writes = {}
    BY <2>1, <2>2 DEF drop
  <2> QED
    BY <1>2, <2>2, <2>3
<1>10. EofFinal'
  BY <1>1, <1>2 DEF EofFinal
<1>11. PipeOrder'
  <2>1. got \in Seq(Nat) /\ vec \in Seq(Nat) /\ got' = got /\ Len(<<>>) = 0
    BY <1>1, EmptySeq DEF Typed
  <2>2. /\ \A i \in 1 .. Len(got) : got[i] = i
        /\ \A i \in 1 .. Len(vec) : vec[i] = Len(got) + i
    BY <1>1, <2>1, SeenInOrder DEF PipeOrder
  <2>3. \A i \in 1 .. Len(vec') : vec'[i] = Len(got) + i
    BY <1>2, <2>1, <2>2
  <2>4. ASSUME alive(reads', pc') PROVE Len(got \o vec') = written'
    <3>1. alive(reads, pc) /\ vec' = vec
      BY <1>2, <2>4 DEF alive
    <3> QED
      BY <1>1, <3>1 DEF PipeOrder
  <2>5. \A i \in DOMAIN (got \o vec') : (got \o vec')[i] = i
    BY <1>3, <2>1, <2>2, <2>3, SeenInOrder
  <2> QED
    BY <2>1, <2>4, <2>5 DEF PipeOrder, alive
<1> QED
  BY <1>6, <1>7, <1>8, <1>9, <1>10, <1>11 DEF IInv, PipeExact

(* The ends that are not removed keep their live owners.                   *)
LEMMA WritersStay ==
    ASSUME IInv, NEW t \in Contexts, NEW gone,
           writes' = writes \ gone, files' = [files EXCEPT ![t] = @ \ gone], UNCHANGED shared,
           \A x \in Contexts : status'[x] = "Exited" => status[x] = "Exited"
    PROVE  WritersLive'
<1>1. \A x \in Contexts : table(x)' = table(x) /\ files[x] \ gone \subseteq files'[x]
  BY DEF IInv, Typed, table
<1>2. WritersLive
  BY DEF IInv, PipeExact
<1> QED
  BY <1>1, <1>2, TableOf DEF WritersLive

LEMMA CloseKeeps ==
    ASSUME IInv, NEW c \in Contexts, NEW id \in Nat, close(c, id)
    PROVE  IInv'
<1>1. table(c) \in Contexts /\ Typed
  BY TableOf DEF IInv
<1>2. /\ id \in files[table(c)] /\ pc' = pc
      /\ stay(unblock(status, drop({id}))) /\ UNCHANGED <<wake, now>>
  BY <1>1 DEF close, remove, goto, At, Typed
<1>3. /\ ContextTypeOK' /\ RunsRunnable'
      /\ \A x \in Contexts :
           /\ status'[x] = "Blocked" => status[x] = "Blocked" /\ x \notin drop({id})
           /\ status'[x] = "Exited" <=> status[x] = "Exited"
  BY <1>1, <1>2, WakeMoves
<1>4. remove(table(c), {id})
  BY DEF close
<1>5. WritersLive'
  BY <1>1, <1>3, <1>4, WritersStay DEF remove
<1>6. /\ reads' = reads \ {id} /\ writes' = writes \ {id}
      /\ files' = [files EXCEPT ![table(c)] = @ \ {id}]
      /\ vec' = kept(vec, reads \ {id}, pc') /\ condition' = condition \ drop({id})
      /\ UNCHANGED <<shared, next_id, reading, written, got, eof>>
  BY <1>4 DEF remove
<1>7. {id} \in SUBSET {id} /\ {id} \subseteq files[table(c)]
  BY <1>2
<1> QED
  BY <1>1, <1>2, <1>3, <1>5, <1>6, <1>7, RemoveKeeps

LEMMA ExecKeeps ==
    ASSUME IInv, NEW c \in Contexts, exec(c)
    PROVE  IInv'
<1> DEFINE ids == files[c]
           gone == {id \in ids : end_dup(id, "exec") = {}}
<1>1. Typed
  BY DEF IInv
<1>2. /\ pc' = pc /\ stay(unblock(status, drop(ids))) /\ UNCHANGED <<wake, now>>
      /\ reads' = reads \ gone /\ writes' = writes \ gone
      /\ files' = [files EXCEPT ![c] = ids \ gone]
      /\ vec' = kept(vec, reads \ gone, pc') /\ condition' = condition \ drop(ids)
      /\ UNCHANGED <<shared, next_id, reading, written, got, eof>>
  BY <1>1 DEF exec, goto, At, Typed
<1>3. gone \in SUBSET ids /\ files' = [files EXCEPT ![c] = @ \ gone]
  BY <1>2
<1> HIDE DEF gone
<1>4. /\ ContextTypeOK' /\ RunsRunnable'
      /\ \A x \in Contexts :
           /\ status'[x] = "Blocked" => status[x] = "Blocked" /\ x \notin drop(ids)
           /\ status'[x] = "Exited" <=> status[x] = "Exited"
  BY <1>1, <1>2, WakeMoves
<1>5. WritersLive'
  BY <1>2, <1>3, <1>4, WritersStay
<1>6. gone \subseteq files[c]
  BY <1>3
<1>7. \A x \in Contexts : status'[x] = "Blocked" => status[x] = "Blocked" /\ x \notin drop(ids)
  BY <1>4
<1> HIDE DEF ids
<1> QED
  BY <1>2, <1>3, <1>4, <1>5, <1>6, <1>7, RemoveKeeps

LEMMA ExitKeeps ==
    ASSUME IInv, NEW c \in Contexts, exit(c)
    PROVE  IInv'
<1> DEFINE ids == close_files(c)
           t == table(c)
           st == [unblock(status, drop(ids)) EXCEPT ![c] = "Exited"]
<1>1. t \in Contexts /\ Typed /\ ids \in SUBSET files[t]
  BY TableOf DEF IInv, close_files
<1>2. CONTEXT_ID = c /\ pc' = pc /\ remove(t, ids) /\ switch(st, c) /\ UNCHANGED <<wake, now>>
  BY DEF exit, remove
<1>3. c \in Ids /\ KMAIN \in Ids /\ KMAIN # c /\ Contexts \subseteq Ids
  BY ContextAssumption DEF Ids
<1>4. /\ st \in [Ids -> Status] /\ st[KMAIN] = "Runnable" /\ st[c] = "Exited"
      /\ \A x \in Ids \ {c} :
           /\ st[x] = status[x] \/ (status[x] = "Blocked" /\ st[x] = "Runnable")
           /\ st[x] = "Blocked" => x \notin drop(ids)
  BY <1>1, <1>3 DEF Typed, ContextTypeOK, RunsRunnable, unblock, Status
<1> HIDE DEF st
<1>5. /\ ContextTypeOK' /\ RunsRunnable' /\ status'[c] = "Exited"
      /\ \A x \in Contexts \ {c} :
           status'[x] = st[x] \/ (st[x] = "Blocked" /\ status'[x] = "Runnable")
  <2>1. ContextTypeOK /\ \A x \in Contexts \ {c} : pc'[x] = pc[x]
    BY <1>1, <1>2 DEF Typed
  <2>2. \A x \in Ids \ {c} : st[x] = status[x] \/ (status[x] = "Blocked" /\ st[x] = "Runnable")
    BY <1>4
  <2> QED
    <3>1. st \in [Ids -> Status] /\ st[KMAIN] = "Runnable" /\ st[c] = "Exited"
      BY <1>4
    <3>2. switch(st, c) /\ CONTEXT_ID = c /\ UNCHANGED <<wake, now>> /\ c \in Ids
      BY <1>2, <1>3
    <3>3. /\ ContextTypeOK' /\ RunsRunnable' /\ status'[c] = st[c]
          /\ \A x \in Contexts \ {c} :
               /\ Undisturbed(x)
               /\ status'[x] = st[x] \/ (st[x] = "Blocked" /\ status'[x] = "Runnable")
      BY <2>1, <2>2, <3>1, <3>2, SwitchMoves
    <3> QED
      BY <3>1, <3>3
<1>6. \A x \in Contexts :
        /\ status'[x] = "Blocked" => status[x] = "Blocked" /\ x \notin drop(ids)
        /\ status'[x] = "Exited" => status[x] = "Exited" \/ x = c
  BY <1>3, <1>4, <1>5
<1>7. WritersLive'
  <2>1. /\ writes' = writes \ ids /\ files' = [files EXCEPT ![t] = @ \ ids]
        /\ \A x \in Contexts : table(x)' = table(x)
    BY <1>2 DEF remove, table
  <2>2. \A x \in Contexts : files[x] \ ids \subseteq files'[x]
    BY <1>1, <2>1 DEF Typed
  <2>3. ASSUME NEW e \in writes \ ids
        PROVE  \E x \in Contexts : status'[x] # "Exited" /\ e \in files'[table(x)]
    <3>1. PICK x \in Contexts : status[x] # "Exited" /\ e \in files[table(x)]
      BY DEF IInv, PipeExact, WritersLive
    <3>2. e \in files'[table(x)]
      BY <2>2, <3>1, TableOf
    <3>3. CASE x # c
      BY <1>6, <3>1, <3>2, <3>3
    <3>4. CASE x = c
      <4>1. ids # files[t]
        BY <3>1, <3>4
      <4>2. PICK y \in Contexts \ {c} : table(y) = t /\ status[y] # "Exited"
        BY <4>1 DEF close_files
      <4> QED
        BY <1>6, <3>2, <3>4, <4>2
    <3> QED
      BY <3>3, <3>4
  <2> QED
    BY <2>1, <2>3 DEF WritersLive
<1> HIDE DEF ids, t
<1>8. /\ reads' = reads \ ids /\ writes' = writes \ ids
      /\ files' = [files EXCEPT ![t] = @ \ ids]
      /\ vec' = kept(vec, reads \ ids, pc') /\ condition' = condition \ drop(ids)
      /\ UNCHANGED <<shared, next_id, reading, written, got, eof>>
  BY <1>2 DEF remove
<1> QED
  BY <1>1, <1>2, <1>5, <1>6, <1>7, <1>8, RemoveKeeps

LEMMA SchedulerKeeps ==
    ASSUME IInv, schedule, UNCHANGED <<condition, pipeVars>>
    PROVE  IInv'
<1> DEFINE PCs == {"user", "read", "sleep"}
<1>1. /\ ContextTypeOK' /\ RunsRunnable' /\ pc' \in [Contexts -> PCs]
      /\ \A x \in Contexts : status'[x] = "Exited" => status[x] = "Exited"
      /\ \A x \in Contexts :
           \/ Undisturbed(x)
           \/ status[x] = "Runnable" /\ {pc[x], pc'[x]} \subseteq {"user", "sleep"}
  BY ScheduleMoves DEF IInv, Typed
<1>2. \A x \in Contexts : /\ pc'[x] = "read" <=> pc[x] = "read"
                          /\ pc'[x] = "read" /\ status'[x] = "Blocked" => status[x] = "Blocked"
  BY <1>1 DEF Undisturbed
<1>3. Typed'
  BY <1>1, <1>2 DEF IInv, Typed, pipeVars
<1>4. Listed' /\ EndsExist' /\ EofFinal' /\ NoLostWakeup'
  BY <1>2 DEF IInv, PipeExact, Listed, EndsExist, EofFinal, NoLostWakeup, pipeVars
<1>5. PipeOrder'
  BY <1>2 DEF IInv, PipeExact, PipeOrder, alive, pipeVars
<1>6. WritersLive'
  BY <1>1 DEF IInv, PipeExact, WritersLive, table, pipeVars
<1> QED
  BY <1>3, <1>4, <1>5, <1>6 DEF IInv, PipeExact

-----------------------------------------------------------------------------
(* The ends that pipe() and the dups of the children make are distinct.    *)
LEMMA Ranks ==
    LET rank(t) == Cardinality({u \in tables : u < t})
    IN  /\ tables \subseteq Contexts
        /\ Cardinality(tables) \in Nat
        /\ \A t \in tables : rank(t) \in Nat /\ rank(t) < Cardinality(tables)
        /\ \A t, u \in tables : t # u => rank(t) # rank(u)
<1> DEFINE below(t) == {u \in tables : u < t}
           rank(t) == Cardinality(below(t))
<1>1. tables \subseteq Contexts /\ tables \subseteq Nat
  BY TableOf, ContextAssumption DEF tables
<1>2. IsFiniteSet(tables)
  BY <1>1, PipeAssumption, FS_Subset
<1>3. Cardinality(tables) \in Nat
  BY <1>2, FS_CardinalityType
<1>4. \A t \in tables : IsFiniteSet(below(t)) /\ rank(t) \in Nat
  BY <1>2, FS_Subset, FS_CardinalityType
<1>5. ASSUME NEW t \in tables PROVE rank(t) < Cardinality(tables)
  <2>1. below(t) \in SUBSET tables /\ t \notin below(t)
    BY <1>1
  <2>2. rank(t) <= Cardinality(tables) /\ (Cardinality(tables) = rank(t) => tables = below(t))
    BY <1>2, <2>1, FS_Subset
  <2>3. Cardinality(tables) # rank(t)
    BY <2>1, <2>2
  <2>4. \A m, n \in Nat : m <= n /\ n # m => m < n
    OBVIOUS
  <2>5. rank(t) \in Nat
    BY <1>4
  <2> QED
    BY <1>3, <2>2, <2>3, <2>4, <2>5
<1>6. ASSUME NEW t \in tables, NEW u \in tables, t < u
      PROVE  rank(t) # rank(u)
  <2>1. below(t) \in SUBSET below(u) /\ t \in below(u) /\ t \notin below(t)
    <3>1. \A x \in tables : x < t => x < u
      BY <1>1, <1>6
    <3>2. ~(t < t)
      BY <1>1
    <3> QED
      BY <1>6, <3>1, <3>2
  <2>2. rank(u) = rank(t) => below(u) = below(t)
    BY <1>4, <2>1, FS_Subset
  <2> QED
    BY <2>1, <2>2
<1>7. \A t, u \in tables : t # u => t < u \/ u < t
  BY <1>1
<1>8. \A t, u \in tables : t # u => rank(t) # rank(u)
  BY <1>6, <1>7
<1> QED
  BY <1>1, <1>3, <1>4, <1>5, <1>8

LEMMA InitHolds == Init => IInv
<1> SUFFICES ASSUME Init PROVE IInv
  OBVIOUS
<1> DEFINE rank(t) == Cardinality({u \in tables : u < t})
<1>1. /\ tables \subseteq Contexts /\ Cardinality(tables) \in Nat
      /\ \A t \in tables : rank(t) \in Nat /\ rank(t) < Cardinality(tables)
      /\ \A t, u \in tables : t # u => rank(t) # rank(u)
  BY Ranks
<1>2. /\ ContextInit(Contexts) /\ condition = {} /\ writes = {2 * rank(t) + 2 : t \in tables}
      /\ reads = {2 * rank(t) + 1 : t \in tables}
      /\ files = [c \in Contexts |->
                    IF c \in tables THEN {2 * rank(c) + 1, 2 * rank(c) + 2} ELSE {}]
      /\ next_id = 2 * Cardinality(tables) + 1
      /\ vec = <<>> /\ got = <<>> /\ reading = [c \in Contexts |-> None]
      /\ written = 0 /\ eof = FALSE
  BY DEF Init
<1>3. ContextTypeOK /\ RunsRunnable
  BY <1>2, ContextInitial DEF ContextIInv
<1>4. pc = [c \in Contexts |-> "user"]
  BY <1>2 DEF ContextInit
<1> HIDE DEF rank
<1>5. IsFiniteSet(writes)
  <2>1. writes \in SUBSET Nat /\ 2 * Cardinality(tables) \in Nat
        /\ \A e \in writes : e <= 2 * Cardinality(tables)
    BY <1>1, <1>2
  <2> QED
    BY <2>1, FS_BoundedSetOfNaturals
<1>6. files \in [Contexts -> SUBSET Nat] /\ next_id \in Nat
  BY <1>1, <1>2
<1>7. Typed
  BY <1>2, <1>3, <1>4, <1>5, <1>6, EmptySeq DEF Typed
<1>8. Listed /\ NoLostWakeup
  BY <1>4 DEF Listed, NoLostWakeup
<1>9. EofFinal
  BY <1>2 DEF EofFinal
<1>10. PipeOrder
  <2>1. got \in Seq(Nat) /\ vec \in Seq(Nat) /\ Len(got) = 0 /\ Len(vec) = 0 /\ written = 0
    BY <1>2, EmptySeq
  <2> QED
    BY <2>1, SeenInOrder, SMTT(30) DEF PipeOrder
<1>11. EndsExist
  <2>1. ASSUME NEW c \in Contexts
        PROVE  files[c] \subseteq reads \cup writes /\ \A id \in files[c] : id < next_id
    BY <1>1, <1>2
  <2>2. ASSUME NEW c \in Contexts, NEW d \in Contexts \ {c}, NEW id \in files[c] \cap files[d]
        PROVE  FALSE
    <3>1. c \in tables /\ d \in tables /\ c # d
      BY <1>2
    <3>2. id \in {2 * rank(c) + 1, 2 * rank(c) + 2} /\ id \in {2 * rank(d) + 1, 2 * rank(d) + 2}
      BY <1>2, <3>1
    <3>3. rank(c) \in Nat /\ rank(d) \in Nat /\ rank(c) # rank(d)
      BY <1>1, <3>1
    <3> QED
      BY <3>2, <3>3
  <2> QED
    BY <2>1, <2>2 DEF EndsExist
<1>12. WritersLive
  <2>1. \A c \in Contexts : status[c] # "Exited"
    BY <1>2 DEF ContextInit, Ids
  <2>2. ASSUME NEW id \in writes
        PROVE  \E c \in Contexts : id \in files[table(c)]
    <3>1. PICK t \in tables : id = 2 * rank(t) + 2
      BY <1>2
    <3>2. id \in files[t]
      BY <1>1, <1>2, <3>1
    <3> QED
      BY <3>2 DEF tables
  <2> QED
    BY <2>1, <2>2 DEF WritersLive
<1> QED
  BY <1>7, <1>8, <1>9, <1>10, <1>11, <1>12 DEF IInv, PipeExact

LEMMA NextKeeps == IInv /\ [Next]_vars => IInv'
<1> SUFFICES ASSUME IInv, [Next]_vars PROVE IInv'
  OBVIOUS
<1>1. Id \subseteq Nat /\ 0 .. MaxBuf \subseteq Nat
  BY DEF Id
<1>2. ASSUME NEW c \in Contexts, NEW id \in Id, NEW n \in 0 .. MaxBuf, read(c, id, n)
      PROVE  IInv'
  <2>1. CONTEXT_ID = c /\ alive(reads, pc) /\ read_loop(c, id, n)
    BY <1>2 DEF read, At, alive
  <2> QED
    BY <1>1, <2>1, ReadKeeps
<1>3. ASSUME NEW c \in Contexts, read_again(c)
      PROVE  IInv'
  <2>1. CONTEXT_ID = c /\ alive(reads, pc) /\ read_loop(c, reading[c][1], reading[c][2])
    BY <1>3 DEF read_again, At, alive
  <2>2. reading[c][1] \in Nat /\ reading[c][2] \in Nat
    BY <1>3 DEF read_again, At, IInv, Typed
  <2> QED
    BY <2>1, <2>2, ReadKeeps
<1>4. CASE UNCHANGED vars
  <2> USE <1>4 DEF vars, contextVars, pipeVars
  <2>1. Typed'
    BY DEF IInv, Typed, ContextTypeOK, RunsRunnable
  <2>2. Listed' /\ EndsExist' /\ NoLostWakeup' /\ EofFinal'
    BY DEF IInv, PipeExact, Listed, EndsExist, NoLostWakeup, EofFinal
  <2>3. PipeOrder' /\ WritersLive'
    BY DEF IInv, PipeExact, PipeOrder, WritersLive, table, alive
  <2> QED
    BY <2>1, <2>2, <2>3 DEF IInv, PipeExact
<1> QED
  BY <1>1, <1>2, <1>3, <1>4, WriteKeeps, DupKeeps, CloseKeeps, FcntlKeeps, ExecKeeps, ExitKeeps,
     SchedulerKeeps DEF Next

(* pipe.rs, with any number of contexts, ends, bytes and signals: bytes    *)
(* are read in order and once, end of file is final and comes with the     *)
(* last writer, and no reader sleeps while there is something for it.      *)
THEOREM PipeCorrect == Spec => []PipeExact
<1>1. IInv => PipeExact
  BY DEF IInv
<1> QED
  BY <1>1, InitHolds, NextKeeps, PTL DEF Spec
=============================================================================

------------------------------- MODULE Files -------------------------------
(***************************************************************************)
(* The tables of open files, and the events of files: the calls open, dup, *)
(* close and fevent of kernel/syscall/fs.rs, what clone, exec and exit of  *)
(* kernel/syscall/process.rs do with the files, add_file and remove_file   *)
(* of kernel/context/context.rs and kernel/context/event.rs.               *)
(*                                                                         *)
(* A table is shared by the contexts that hold an Arc of it.  A slot holds *)
(* the number by which the scheme knows the file.  All files are of one    *)
(* user scheme, so that every call of the scheme suspends the caller and   *)
(* other contexts run before it goes on; a file of a kernel scheme is the  *)
(* case in which none does.  A signal takes a suspended context out of its *)
(* call, and abandons what its stack owns.                                 *)
(***************************************************************************)
EXTENDS Naturals, FiniteSets, FiniteSetsExt, TLC

CONSTANTS
    Contexts,
    None,
    EBADF,
    MaxFiles,   \* CONTEXT_MAX_FILES
    MaxNumber,  \* bound on the files the scheme opens
    MaxEvents,  \* bound on the entries of the event registry
    Watched,    \* the descriptors that programs ask events of
    Signals     \* whether contexts are sent signals

FileHandle == 0 .. MaxFiles - 1
Number == 1 .. MaxNumber
Tables == 1 .. 2 * Cardinality(Contexts) + 1

File == [number : Number, event : Number \cup {None}]

VARIABLES
    pc,        \* "absent", "user", "dead", or the call a context is in
    files,     \* the slots of the tables
    table,     \* Context::files
    mine,      \* the table that a suspended clone, exec or exit works on
    todo,      \* the slots it has not done yet
    fd,        \* the descriptor a suspended call is about
    req,       \* the number a suspended call asks the scheme about
    res,       \* the answer of the scheme, None before it comes
    numbers,   \* the files that are open for the scheme
    next,      \* the next number of the scheme
    dropped,   \* numbers that no slot was free for, or that only the stack of
               \* a context that a signal took out of its call knew
    orphans,   \* requests of contexts that a signal took out of their call:
               \* a number to close, or None for an open or a dup
    copied,    \* numbers of tables that an exec copied while others shared them
    registry   \* REGISTRY: the pairs of an event id and a ProcessKey

vars == <<pc, files, table, mine, todo, fd, req, res, numbers, next, dropped, orphans, copied, registry>>

Calls == {"open", "dup", "close", "fevent", "clone", "exec_dup", "exec_close", "exit"}

TypeOK ==
    /\ pc \in [Contexts -> Calls \cup {"absent", "user", "dead"}]
    /\ files \in [Tables -> [FileHandle -> File \cup {None}]]
    /\ table \in [Contexts -> Tables \cup {None}]
    /\ mine \in [Contexts -> Tables \cup {None}]
    /\ todo \in [Contexts -> SUBSET FileHandle]
    /\ fd \in [Contexts -> FileHandle]
    /\ req \in [Contexts -> Number \cup {None}]
    /\ res \in [Contexts -> Number \cup {None, EBADF}]
    /\ numbers \in SUBSET Number
    /\ next \in 1 .. MaxNumber + 1
    /\ dropped \in SUBSET Number
    /\ orphans \in SUBSET (Number \cup {None})
    /\ copied \in SUBSET Number
    /\ registry \in SUBSET (Number \X Contexts \X FileHandle)

Empty == [i \in FileHandle |-> None]

(* Arc::strong_count of table t.                                           *)
strong_count(t) ==
    Cardinality({c \in Contexts : table[c] = t}) + Cardinality({c \in Contexts : mine[c] = t})

(* A table nobody refers to: what Arc::new returns.                        *)
fresh == Min({t \in Tables : strong_count(t) = 0})

Init ==
    /\ \E first \in Contexts :
        /\ pc = [c \in Contexts |-> IF c = first THEN "user" ELSE "absent"]
        /\ table = [c \in Contexts |-> IF c = first THEN 1 ELSE None]
    /\ files = [t \in Tables |-> Empty]
    /\ mine = [c \in Contexts |-> None]
    /\ todo = [c \in Contexts |-> {}]
    /\ fd = [c \in Contexts |-> 0]
    /\ req = [c \in Contexts |-> None]
    /\ res = [c \in Contexts |-> None]
    /\ numbers = {}
    /\ next = 1
    /\ dropped = {}
    /\ orphans = {}
    /\ copied = {}
    /\ registry = {}

-----------------------------------------------------------------------------
(* The context asks the scheme about number n, and is suspended in call.   *)
ask(c, call, n) ==
    /\ pc' = [pc EXCEPT ![c] = call]
    /\ req' = [req EXCEPT ![c] = n]
    /\ res' = [res EXCEPT ![c] = None]

return(c) ==
    /\ pc' = [pc EXCEPT ![c] = "user"]
    /\ req' = [req EXCEPT ![c] = None]
    /\ res' = [res EXCEPT ![c] = None]

answered(c, call) == pc[c] = call /\ res[c] # None

(* The daemon of the scheme answers: open and dup make a new file or fail, *)
(* close ends one.                                                         *)
daemon(c) ==
    /\ pc[c] \in Calls
    /\ res[c] = None
    /\ \/ /\ pc[c] \in {"open", "dup", "clone", "exec_dup"}
          /\ pc[c] = "open" \/ req[c] \in numbers
          /\ next <= MaxNumber
          /\ numbers' = numbers \cup {next}
          /\ next' = next + 1
          /\ res' = [res EXCEPT ![c] = next]
       \/ /\ pc[c] \in {"close", "exec_close", "exit"}
          /\ numbers' = numbers \ {req[c]}
          /\ res' = [res EXCEPT ![c] = req[c]]
          /\ UNCHANGED next
       \/ /\ pc[c] = "fevent"
          /\ req[c] \in numbers
          /\ res' = [res EXCEPT ![c] = req[c]]
          /\ UNCHANGED <<numbers, next>>
       \/ /\ pc[c] \in {"open", "dup", "fevent", "clone", "exec_dup"}
          /\ res' = [res EXCEPT ![c] = EBADF]
          /\ UNCHANGED <<numbers, next>>
    /\ UNCHANGED <<pc, files, table, mine, todo, fd, req, dropped, orphans, registry, copied>>

(* The daemon serves a request whose caller is gone.                       *)
daemon_late(n) ==
    /\ n \in orphans
    /\ orphans' = orphans \ {n}
    /\ IF n = None
       THEN /\ next <= MaxNumber
            /\ numbers' = numbers \cup {next}
            /\ dropped' = dropped \cup {next}
            /\ next' = next + 1
       ELSE numbers' = numbers \ {n} /\ UNCHANGED <<next, dropped>>
    /\ UNCHANGED <<pc, files, table, mine, todo, fd, req, res, registry, copied>>

-----------------------------------------------------------------------------
(* Context::add_file: the lowest free slot, or EMFILE.  On EMFILE open and *)
(* dup forget the number.                                                  *)
add_file(c, n) ==
    LET free == {i \in FileHandle : files[table[c]][i] = None}
    IN  IF free = {}
        THEN dropped' = dropped \cup {n} /\ UNCHANGED files
        ELSE /\ files' = [files EXCEPT ![table[c]][Min(free)] = [number |-> n, event |-> None]]
             /\ UNCHANGED dropped

(* event::unregister of file f at descriptor i.                            *)
unregister(c, i, f) == registry \ {<<f.event, c, i>>}

open(c) ==
    /\ pc[c] = "user"
    /\ ask(c, "open", None)
    /\ UNCHANGED <<files, table, mine, todo, fd, numbers, next, dropped, orphans, registry, copied>>

dup(c, i) ==
    /\ pc[c] = "user"
    /\ files[table[c]][i] # None
    /\ ask(c, "dup", files[table[c]][i].number)
    /\ UNCHANGED <<files, table, mine, todo, fd, numbers, next, dropped, orphans, registry, copied>>

(* open and dup get their answer.                                          *)
open_return(c) ==
    /\ answered(c, "open") \/ answered(c, "dup")
    /\ IF res[c] = EBADF THEN UNCHANGED <<files, dropped>> ELSE add_file(c, res[c])
    /\ return(c)
    /\ UNCHANGED <<table, mine, todo, fd, numbers, next, orphans, registry, copied>>

(* Bug: the slot keeps the file.                                           *)
remove_file_kept(c, i) == files

(* Context::remove_file                                                    *)
remove_file(c, i) == [files EXCEPT ![table[c]][i] = None]

close(c, i) ==
    LET f == files[table[c]][i]
    IN  /\ pc[c] = "user"
        /\ f # None
        /\ files' = remove_file(c, i)
        /\ registry' = unregister(c, i, f)
        /\ ask(c, "close", f.number)
        /\ UNCHANGED <<table, mine, todo, fd, numbers, next, dropped, orphans, copied>>

close_return(c) ==
    /\ answered(c, "close")
    /\ return(c)
    /\ UNCHANGED <<files, table, mine, todo, fd, numbers, next, dropped, orphans, registry, copied>>

fevent(c, i) ==
    LET f == files[table[c]][i]
    IN  /\ pc[c] = "user"
        /\ f # None
        /\ i \in Watched
        /\ Cardinality(registry) < MaxEvents
        /\ registry' = unregister(c, i, f)
        /\ ask(c, "fevent", f.number)
        /\ fd' = [fd EXCEPT ![c] = i]
        /\ UNCHANGED <<files, table, mine, todo, numbers, next, dropped, orphans, copied>>

(* event::register of event id e, at descriptor i.                         *)
registered(c, i, e) == registry \cup {<<e, c, i>>}

(* The event id is stored in a copy of the slot: ok_or of a Copy option    *)
(* does not lead to the slot itself.                                       *)
fevent_return(c) ==
    /\ answered(c, "fevent")
    /\ registry' = IF res[c] = EBADF \/ files[table[c]][fd[c]] = None
                   THEN registry ELSE registered(c, fd[c], res[c])
    /\ return(c)
    /\ fd' = [fd EXCEPT ![c] = 0]
    /\ UNCHANGED <<files, table, mine, todo, numbers, next, dropped, orphans, copied>>

-----------------------------------------------------------------------------
(* The slots of table t that hold a file.                                  *)
used(t) == {i \in FileHandle : files[t][i] # None}

(* The slot i of the table under work gets the new number n.               *)
replaced(c, i, n) ==
    [files EXCEPT ![mine[c]][i] = IF n = EBADF THEN None ELSE [number |-> n, event |-> None]]

(* The bound on contexts leaves one for every clone that has begun.        *)
room == Cardinality({d \in Contexts : pc[d] = "absent"})
            > Cardinality({d \in Contexts : pc[d] = "clone"})

(* clone with CLONE_FILES.                                                 *)
clone_shared(c) ==
    /\ pc[c] = "user"
    /\ room
    /\ \E d \in Contexts :
        /\ pc[d] = "absent"
        /\ pc' = [pc EXCEPT ![d] = "user"]
        /\ table' = [table EXCEPT ![d] = table[c]]
    /\ UNCHANGED <<files, mine, todo, fd, req, res, numbers, next, dropped, orphans, registry, copied>>

(* The loop of clone when the slots are fs and rest is to be done in table *)
(* t: the next dup, or the new context gets the table.                     *)
clone_loop(c, fs, t, rest) ==
    /\ files' = fs
    /\ IF rest # {}
       THEN /\ ask(c, "clone", fs[t][Min(rest)].number)
            /\ mine' = [mine EXCEPT ![c] = t]
            /\ todo' = [todo EXCEPT ![c] = rest]
            /\ UNCHANGED table
       ELSE /\ \E d \in Contexts :
                /\ pc[d] = "absent"
                /\ pc' = [pc EXCEPT ![c] = "user", ![d] = "user"]
                /\ table' = [table EXCEPT ![d] = t]
            /\ mine' = [mine EXCEPT ![c] = None]
            /\ todo' = [todo EXCEPT ![c] = {}]
            /\ req' = [req EXCEPT ![c] = None]
            /\ res' = [res EXCEPT ![c] = None]
    /\ UNCHANGED <<fd, numbers, next, dropped, orphans, registry, copied>>

(* clone without CLONE_FILES: every file of a copy of the table is dupped. *)
clone(c) ==
    /\ pc[c] = "user"
    /\ room
    /\ clone_loop(c, [files EXCEPT ![fresh] = files[table[c]]], fresh, used(table[c]))

clone_dup(c) ==
    /\ answered(c, "clone")
    /\ clone_loop(c, replaced(c, Min(todo[c]), res[c]), mine[c], todo[c] \ {Min(todo[c])})

-----------------------------------------------------------------------------

(* c holds the last reference to its table.                                *)
last(c) == strong_count(table[c]) = 1

(* The tables fs when a context gives up its reference to table t.         *)
released(fs, t) ==
    IF t = None \/ strong_count(t) > 1 THEN fs ELSE [fs EXCEPT ![t] = Empty]

(* The loop of exec over the slots rest of table t.                        *)
exec_loop(c, fs, t, rest) ==
    /\ files' = fs
    /\ todo' = [todo EXCEPT ![c] = rest]
    /\ IF rest # {}
       THEN /\ ask(c, "exec_dup", fs[t][Min(rest)].number)
            /\ mine' = [mine EXCEPT ![c] = t]
       ELSE /\ return(c)
            /\ mine' = [mine EXCEPT ![c] = None]
    /\ UNCHANGED <<fd, numbers, next, dropped, orphans>>

(* exec works on a copy of its own.                                        *)
exec(c) ==
    /\ pc[c] = "user"
    /\ table' = [table EXCEPT ![c] = fresh]
    /\ exec_loop(c, [released(files, table[c]) EXCEPT ![fresh] = files[table[c]]], fresh, used(table[c]))
    /\ copied' = copied \cup
          IF last(c) THEN {} ELSE {files[table[c]][i].number : i \in used(table[c])}
    /\ UNCHANGED registry

(* A file has been dupped: the number it had is closed.                    *)
exec_dup(c) ==
    LET i == Min(todo[c])
    IN  /\ answered(c, "exec_dup")
        /\ files' = replaced(c, i, res[c])
        /\ registry' = unregister(c, i, files[mine[c]][i])
        /\ todo' = [todo EXCEPT ![c] = @ \ {i}]
        /\ ask(c, "exec_close", req[c])
        /\ UNCHANGED <<table, mine, fd, numbers, next, dropped, orphans, copied>>

exec_close(c) ==
    /\ answered(c, "exec_close")
    /\ exec_loop(c, files, mine[c], todo[c])
    /\ UNCHANGED <<table, registry, copied>>

-----------------------------------------------------------------------------
(* The loop of exit over the slots rest of table t, which nobody else has. *)
(* The table goes away with the last slot.                                 *)
exit_loop(c, fs, t, rest) ==
    LET i == Min(rest)
    IN  /\ IF rest # {}
           THEN /\ registry' = unregister(c, i, fs[t][i])
                /\ ask(c, "exit", fs[t][i].number)
                /\ mine' = [mine EXCEPT ![c] = t]
                /\ todo' = [todo EXCEPT ![c] = rest \ {i}]
                /\ files' = fs
           ELSE /\ pc' = [pc EXCEPT ![c] = "dead"]
                /\ req' = [req EXCEPT ![c] = None]
                /\ res' = [res EXCEPT ![c] = None]
                /\ mine' = [mine EXCEPT ![c] = None]
                /\ todo' = [todo EXCEPT ![c] = {}]
                /\ files' = released(fs, t)
                /\ UNCHANGED registry
        /\ fd' = [fd EXCEPT ![c] = 0]
        /\ UNCHANGED <<numbers, next, copied>>

(* The request c has made and not got an answer to.                        *)
abandoned(c) ==
    IF pc[c] \notin Calls \ {"fevent"} \/ res[c] # None THEN {}
    ELSE IF pc[c] \in {"close", "exec_close", "exit"} THEN {req[c]} ELSE {None}

(* Contexts with an answer of the scheme that is not in a slot yet.        *)
Answers == {c \in Contexts : pc[c] \in {"open", "dup", "clone", "exec_dup"} /\ res[c] \in Number}

(* The numbers that only the stack of c knows: an answer that is in no     *)
(* slot, the copy of the table that a clone fills, the files that an exit  *)
(* has still to close; and those of a table that an exec works on, because *)
(* the stack has a reference to it.                                        *)
lost(c) ==
    {res[d] : d \in {c} \cap Answers} \cup
    {files[mine[c]][i].number :
        i \in CASE pc[c] = "clone" -> used(mine[c]) \ todo[c]
                [] pc[c] = "exit" -> todo[c]
                [] pc[c] \in {"exec_dup", "exec_close"} -> used(mine[c])
                [] OTHER -> {}}

(* exit of the program, or out of a call when a signal has come.  The      *)
(* context gets a new table, which stays empty: None.  A table that only   *)
(* its stack refers to is of no use to anyone.                             *)
exit(c) ==
    LET rest == IF table[c] # None /\ last(c) THEN used(table[c]) ELSE {}
    IN  /\ pc[c] = "user" \/ (Signals /\ pc[c] \in Calls)
        /\ table' = [table EXCEPT ![c] = None]
        /\ exit_loop(c, IF mine[c] = None THEN files ELSE [files EXCEPT ![mine[c]] = Empty],
                     table[c], rest)
        /\ orphans' = orphans \cup abandoned(c)
        /\ dropped' = dropped \cup lost(c)

exit_close(c) ==
    /\ answered(c, "exit")
    /\ exit_loop(c, files, mine[c], todo[c])
    /\ UNCHANGED <<table, orphans, dropped>>

Next ==
    \/ \E n \in Number \cup {None} : daemon_late(n)
    \/ \E c \in Contexts :
        \/ daemon(c)
        \/ open(c) \/ open_return(c) \/ close_return(c) \/ fevent_return(c)
        \/ \E i \in FileHandle : dup(c, i) \/ close(c, i) \/ fevent(c, i)
        \/ clone_shared(c) \/ clone(c) \/ clone_dup(c)
        \/ exec(c) \/ exec_dup(c) \/ exec_close(c)
        \/ exit(c) \/ exit_close(c)

Spec == Init /\ [][Next]_vars

-----------------------------------------------------------------------------
(* The places that own an open number: the slots of the tables in use, the *)
(* slots a clone has filled, those an exit has still to close, and answers *)
(* that are not yet in a slot.                                             *)
Slots ==
    {<<t, i>> \in Tables \X FileHandle :
        /\ files[t][i] # None
        /\ \/ \E c \in Contexts : table[c] = t
           \/ \E c \in Contexts : pc[c] = "clone" /\ mine[c] = t /\ i \notin todo[c]
           \/ \E c \in Contexts : pc[c] = "exit" /\ mine[c] = t /\ i \in todo[c]}

SlotNumber(x) == files[x[1]][x[2]].number

Closing ==
    {c \in Contexts : pc[c] \in {"close", "exec_close", "exit"} /\ res[c] = None}

(* A number is owned by one slot, one call that will close it or one call  *)
(* that will store it, and it is open for the scheme: no file is closed    *)
(* twice, or by one process while another one still uses it, and no slot   *)
(* holds a number that is closed.  Arc::strong_count returning 1 to two    *)
(* contexts that exit, as the comment in exit fears, would violate it.     *)
(* Only the files of a table that an exec copied while others shared it    *)
(* are excepted: exec closes them under the other contexts.                *)
OwnedOnce ==
    LET Own == {x \in Slots : SlotNumber(x) \notin copied}
        Closed == {c \in Closing : req[c] \notin copied}
    IN  /\ \A x, y \in Own : SlotNumber(x) = SlotNumber(y) => x = y
        /\ \A c, d \in Closed : req[c] = req[d] => c = d
        /\ \A x \in Own, c \in Closed : SlotNumber(x) # req[c]
        /\ \A x \in Own : SlotNumber(x) \in numbers \ orphans
        /\ \A c \in Closed : req[c] \in numbers \ orphans

(* A number that is open for the scheme has an owner who can still close   *)
(* it, unless a full table made open or dup drop it, or only the stack of  *)
(* a context that a signal killed knew it: exit of contexts that share a   *)
(* table leaves the files to the last one, and does not leak them.         *)
NoLeak ==
    numbers \subseteq dropped \cup {SlotNumber(x) : x \in Slots}
        \cup {req[c] : c \in Closing} \cup {res[c] : c \in Answers} \cup orphans

(* The tables of open files as a whole: every file of the scheme is in     *)
(* one place, and none is left open that nobody can reach.                 *)
FilesExact == OwnedOnce /\ NoLeak
=============================================================================

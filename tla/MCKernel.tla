------------------------------ MODULE MCKernel ------------------------------
(***************************************************************************)
(* Parts of the kernel, one at a time: the allocator of frames on a small  *)
(* memory map, processes under the scheduler, and tables of open files.    *)
(***************************************************************************)
EXTENDS FrameAllocator, TLC

CONSTANTS
    Callers,    \* the contexts that share tables of open files
    None,
    EBADF       \* the error of a descriptor that is not open

VARIABLES part,      \* "frames", "process" or "files"
          status, pending, wake, CONTEXT_ID, signalled, now, pc,                  \* of Context
          userFiles, ppid, vfork, waitpid, listed, target, saved, replies, next_id, readers, \* of Process
          files, table, mine, slots, fd, req, res, numbers, next, dropped, orphans, copied, registry \* of Files

process == <<status, pending, wake, CONTEXT_ID, signalled, now,
             userFiles, ppid, vfork, waitpid, listed, target, saved, replies, next_id, readers>>
tables == <<files, table, mine, slots, fd, req, res, numbers, next, dropped, orphans, copied, registry>>

area(first, last) == [first |-> first, last |-> last]

(* Two areas the kernel ends in and one apart; two that touch each other.  *)
FourAreas == {area(0, 3), area(6, 12), area(13, 16), area(30, 80)}

Pr == INSTANCE Process WITH Contexts <- {2, 3, 4}, KMAIN <- 1, FIRST <- 2, MaxTime <- 0, MaxSignals <- 1, Delays <- {}, KillTargets <- {3, 4}
Fi == INSTANCE Files WITH Contexts <- Callers, MaxFiles <- 2, MaxNumber <- 3, MaxEvents <- 1, Watched <- {0}, Signals <- TRUE,
                          todo <- slots

NoProcess ==
    /\ status = {} /\ pending = {} /\ wake = {} /\ CONTEXT_ID = {} /\ signalled = {} /\ now = {} /\ userFiles = {} /\ ppid = {}
    /\ vfork = {} /\ waitpid = {} /\ listed = {} /\ target = {} /\ saved = {} /\ replies = {} /\ next_id = {} /\ readers = {}
NoFiles ==
    /\ files = {} /\ table = {} /\ mine = {} /\ slots = {} /\ fd = {} /\ req = {} /\ res = {} /\ numbers = {} /\ next = {}
    /\ dropped = {} /\ orphans = {} /\ copied = {} /\ registry = {}

KernelInit ==
    /\ AllocatorInit
    /\ \/ part = "frames" /\ NoProcess /\ NoFiles /\ pc = {}
       \/ part = "process" /\ Pr!Init /\ NoFiles
       \/ part = "files" /\ Fi!Init /\ NoProcess

KernelNext ==
    /\ UNCHANGED part
    /\ \/ part = "frames" /\ AllocatorNext /\ UNCHANGED <<process, tables, pc>>
       \/ part = "process" /\ Pr!Next /\ UNCHANGED <<allocatorVars, tables>>
       \/ part = "files" /\ Fi!Next /\ UNCHANGED <<allocatorVars, process>>

KernelSpec == KernelInit /\ [][KernelNext]_<<part, allocatorVars, process, tables, pc>>

(* The allocator alone.                                                    *)
FramesSpec == KernelInit /\ part = "frames" /\ [][KernelNext]_<<part, allocatorVars, process, tables, pc>>

(* The contexts of the tables of files are interchangeable.                *)
Symmetry == Permutations(Callers)

(* Only contexts that have exited are reaped, and once; whoever has exited *)
(* has a parent that can learn of it, and waitpid is woken for it; the     *)
(* parent of a vfork is halted as long as the child uses its memory and no *)
(* longer (kernel/syscall/process.rs; see Process).                        *)
ProcessExact == (part = "process") => Pr!ProcessExact

(* A number of a scheme's file is owned by one slot of a table or one call *)
(* in progress, and none is forgotten, whatever open, dup, close, clone,   *)
(* exec, exit and signals do between two steps of a call (fs.rs and        *)
(* process.rs; see Files).                                                 *)
FilesExact == (part = "files") => Fi!FilesExact
=============================================================================

----------------------------- MODULE MCSchemes -----------------------------
(***************************************************************************)
(* What lies behind a call of a scheme, one part at a time: the grants of  *)
(* a process, page tables, the tables of schemes, and the files of the     *)
(* kernel's own schemes.                                                   *)
(***************************************************************************)
EXTENDS Grants, Integers, TLC

VARIABLES part,      \* "grants", "pages", "schemes" or "files"
          m, want, owner, steps, calls, child,                                            \* of Paging
          schemes, cred, handles, next_file,                                              \* of Schemes
          env_of, envs, cells, opened, last_id, file, got, made                           \* of KernelFiles

pages_ == <<m, want, owner, steps, calls, child>>
tables == <<schemes, cred, handles, next_file>>
own == <<env_of, envs, cells, opened, last_id, file, got, made>>

(* mkns copies a name at most once, and none that new_ns inserts.          *)
ProperLists == {<<>>, <<"tcp", "file">>}

Pg == INSTANCE Paging WITH Levels <- 3, Frames <- 70, MaxSpaces <- 2, MaxCalls <- 5, todo <- steps
Sc == INSTANCE Schemes WITH Contexts <- {"c1"}, Uids <- {0, 1}, Gids <- {1}, Defaults <- <<"", "null">>, RootOnly <- <<"irq">>,
          Paths <- {"tcp", "file"}, NameLists <- ProperLists, MAX <- 5, MaxNs <- 2, MaxFiles <- 2
Kf == INSTANCE KernelFiles WITH MaxContexts <- 2, Names <- {"A"}, InitFiles <- [f \in {"init"} |-> <<"i", "j">>],
          Disk <- <<"d", "e", "f">>, Buffers <- {<<"x">>, <<"y", "z">>}, Jumps <- {<<"SET", 1>>, <<"CUR", -1>>, <<"END", -1>>},
          Lengths <- {1, 3}, MaxHandles <- 2, MaxCalls <- 6, handles <- opened, next_id <- last_id, calls <- made

NoGrants == grants = <<>> /\ live = {} /\ p4 = <<>> /\ mapped = <<>> /\ together = FALSE /\ panicked = FALSE
NoPages == m = {} /\ want = {} /\ owner = {} /\ steps = {} /\ calls = {} /\ child = {}
NoTables == schemes = {} /\ cred = {} /\ handles = {} /\ next_file = {}
NoFiles == env_of = {} /\ envs = {} /\ cells = {} /\ opened = {} /\ last_id = {} /\ file = {} /\ got = {} /\ made = {}

MCInit ==
    \/ part = "grants" /\ Init /\ NoPages /\ NoTables /\ NoFiles
    \/ part = "pages" /\ Pg!Init /\ NoGrants /\ NoTables /\ NoFiles
    \/ part = "schemes" /\ Sc!Init /\ NoGrants /\ NoPages /\ NoFiles
    \/ part = "files" /\ Kf!Init /\ NoGrants /\ NoPages /\ NoTables

MCNext ==
    /\ UNCHANGED part
    /\ \/ part = "grants" /\ Next /\ UNCHANGED <<pages_, tables, own>>
       \/ part = "pages" /\ Pg!Next /\ UNCHANGED <<vars, tables, own>>
       \/ part = "schemes" /\ Sc!Next /\ UNCHANGED <<vars, pages_, own>>
       \/ part = "files" /\ Kf!Next /\ UNCHANGED <<vars, pages_, tables>>

MCSpec == MCInit /\ [][MCNext]_<<part, vars, pages_, tables, own>>

(* The threads of a process are interchangeable.                          *)
Symmetry == Permutations(Threads)

(* After a call every address space maps what its regions and grants say,  *)
(* with the right contents, no temporary page is left mapped, and nothing  *)
(* the processor has cached disagrees (paging and memory.rs; see Paging).  *)
SpacesExact == (part = "pages") => Pg!SpacesExact

(* A file of the kernel's schemes holds what was written at the places of  *)
(* its handles, and a read gives it; environments that were not cloned     *)
(* with CLONE_VM share no variable (env.rs, initfs.rs, sys and live.rs;    *)
(* see KernelFiles).                                                       *)
KernelFilesExact == (part = "files") => Kf!KernelFilesExact

(* The list of schemes as a whole: namespaces share a scheme by its name   *)
(* only, no assertion of the list fails, and no call gives a context back  *)
(* what it has given up.                                                   *)
SchemesExact ==
    /\ []((part = "schemes") => Sc!NoPanic /\ Sc!SharedByName)
    /\ [][(part = "schemes") => Sc!KeepsIds]_tables
=============================================================================

------------------------------- MODULE Grants -------------------------------
(***************************************************************************)
(* The grants of a process: the ranges of pages above USER_GRANT_OFFSET    *)
(* into which physmap of kernel/syscall/driver.rs maps devices and         *)
(* capture_inner of kernel/scheme/user.rs the buffers of the clients of a  *)
(* daemon.  Both search the vector of grants for a gap; physunmap, funmap  *)
(* and release take a grant out again, and exec and exit take out all.     *)
(*                                                                         *)
(* The threads of the process share the vector, and each has a page table  *)
(* whose fourth level entry 2 leads to the tables of the grants.           *)
(***************************************************************************)
EXTENDS Naturals, Sequences, FiniteSets

CONSTANTS
    Threads,    \* contexts cloned with CLONE_VM
    None,
    USER_GRANT_OFFSET,
    Addresses,  \* the addresses that are mapped from
    Sizes,      \* the sizes that are mapped
    MaxGrants   \* bound on the length of the vector

PAGE_SIZE == 4096

ASSUME GrantsAssumption ==
    /\ USER_GRANT_OFFSET \in Nat
    /\ USER_GRANT_OFFSET % 4096 = 0
    /\ USER_GRANT_OFFSET > 0
    /\ Addresses \subseteq Nat
    /\ Sizes \subseteq Nat
    /\ MaxGrants \in Nat
    /\ None \notin Threads

VARIABLES
    grants,   \* Context::grants: the start and the size of each one
    live,     \* the threads that have not left the process
    p4,       \* entry 2 of the page table of a thread, named after the thread
              \* that made the table it leads to
    mapped,   \* the pages that are mapped in such a table
    together, \* every thread was cloned while the process had a grant
    panicked  \* an assert, an expect or an unwrap has failed

vars == <<grants, live, p4, mapped, together, panicked>>

Grant == [start : Nat, size : Nat]

TypeOK ==
    /\ grants \in Seq(Grant)
    /\ \A i \in 1 .. Len(grants) : grants[i].size % PAGE_SIZE = 0
    /\ live \in SUBSET Threads
    /\ p4 \in [Threads -> Threads \cup {None}]
    /\ mapped \in [Threads -> SUBSET Nat]
    /\ {together, panicked} \subseteq BOOLEAN

Init ==
    /\ grants = <<>>
    /\ \E c \in Threads : live = {c}
    /\ p4 = [c \in Threads |-> None]
    /\ mapped = [c \in Threads |-> {}]
    /\ together = TRUE
    /\ panicked = FALSE

-----------------------------------------------------------------------------
(* The bytes of the pages that size bytes from address on touch.           *)
full_size(address, size) ==
    (((address % PAGE_SIZE) + size + PAGE_SIZE - 1) \div PAGE_SIZE) * PAGE_SIZE

(* The first byte after the pages of grant g.                              *)
end(g) == g.start + ((g.size + PAGE_SIZE - 1) \div PAGE_SIZE) * PAGE_SIZE

(* The pages that a grant maps, by their first byte.                       *)
pages(g) ==
    {g.start + k * PAGE_SIZE : k \in 0 .. (g.size - 1) \div PAGE_SIZE}

(* to_address when the loop comes to the grant i.                          *)
to_address(gs, i) == IF i = 1 THEN USER_GRANT_OFFSET ELSE end(gs[i - 1])

(* Bug: the end of the gap is not compared with the grant after it.        *)
fits_before(gs, i, size) == i <= Len(gs) /\ to_address(gs, i) < gs[i].start

(* The gap before grant i takes size bytes.                                *)
fits(gs, i, size) == i <= Len(gs) /\ to_address(gs, i) + size < gs[i].start

(* Where the loop inserts a grant: before the first grant that leaves a    *)
(* gap, or at the end.                                                     *)
place(gs, size) ==
    CHOOSE i \in 1 .. Len(gs) + 1 :
        /\ fits(gs, i, size) \/ i = Len(gs) + 1
        /\ \A j \in 1 .. i - 1 : ~fits(gs, j, size)

(* Vec::insert and Vec::remove.                                            *)
insert(gs, i, g) ==
    [j \in 1 .. Len(gs) + 1 |-> IF j < i THEN gs[j] ELSE IF j = i THEN g ELSE gs[j - 1]]

remove(gs, i) == [j \in 1 .. Len(gs) - 1 |-> IF j < i THEN gs[j] ELSE gs[j + 1]]

(* Grant::physmap and Grant::map_inactive, in the page table of c: map_to  *)
(* asserts that a page is not in use.                                      *)
map_to(c, g) ==
    LET t == IF p4[c] = None THEN c ELSE p4[c]
    IN  /\ p4' = [p4 EXCEPT ![c] = t]
        /\ panicked' = (panicked \/ pages(g) \cap mapped[t] # {})
        /\ mapped' = [mapped EXCEPT ![t] = @ \cup pages(g)]

(* physmap, or capture_inner for the daemon c.                             *)
physmap(c, address, size) ==
    LET n == full_size(address, size)
        i == place(grants, n)
        g == [start |-> to_address(grants, i), size |-> n]
    IN  /\ c \in live
        /\ size # 0
        /\ Len(grants) < MaxGrants
        /\ grants' = insert(grants, i, g)
        /\ map_to(c, g)
        /\ UNCHANGED <<live, together>>

(* The grant holds the address.                                            *)
holds(g, address) == g.start <= address /\ address < g.start + g.size

(* Bug: only the first page is unmapped.                                   *)
unmap_first(c, ps) ==
    /\ mapped' = [mapped EXCEPT ![p4[c]] = @ \ {p \in ps : \A q \in ps : p <= q}]
    /\ UNCHANGED panicked

(* Grant::unmap and Grant::unmap_inactive of the pages ps: unmap_return    *)
(* expects the tables, and unwraps the frame.                              *)
unmap_return(c, ps) ==
    IF p4[c] = None
    THEN panicked' = (panicked \/ ps # {}) /\ UNCHANGED mapped
    ELSE /\ panicked' = (panicked \/ ~(ps \subseteq mapped[p4[c]]))
         /\ mapped' = [mapped EXCEPT ![p4[c]] = @ \ ps]

(* funmap, physunmap, or release for the daemon c: the first grant that    *)
(* holds the address.                                                      *)
funmap(c, address) ==
    /\ c \in live
    /\ \E i \in 1 .. Len(grants) :
        /\ holds(grants[i], address)
        /\ \A j \in 1 .. i - 1 : ~holds(grants[j], address)
        /\ grants' = remove(grants, i)
        /\ unmap_return(c, pages(grants[i]))
    /\ UNCHANGED <<live, p4, together>>

(* clone with CLONE_VM: the entry is copied if there are grants.           *)
clone(c, d) ==
    /\ c \in live
    /\ d \notin live
    /\ p4[d] = None
    /\ live' = live \cup {d}
    /\ together' = (together /\ grants # <<>>)
    /\ IF grants # <<>>
       THEN p4' = [p4 EXCEPT ![d] = p4[c]] /\ panicked' = (panicked \/ p4[c] = None)
       ELSE UNCHANGED <<p4, panicked>>
    /\ UNCHANGED <<grants, mapped>>

(* exit and exec: the last thread unmaps all grants.                       *)
exit(c) ==
    /\ c \in live
    /\ live' = live \ {c}
    /\ IF live = {c}
       THEN /\ grants' = <<>>
            /\ unmap_return(c, UNION {pages(grants[i]) : i \in 1 .. Len(grants)})
       ELSE UNCHANGED <<grants, mapped, panicked>>
    /\ UNCHANGED <<p4, together>>

(* The addresses that a program may have got from physmap or fmap.         *)
Known == {grants[i].start + (a % PAGE_SIZE) : i \in 1 .. Len(grants), a \in Addresses}

(* The kernel halts when it panics.                                        *)
Next ==
    /\ ~panicked
    /\ \/ \E c \in Threads, address \in Addresses, size \in Sizes : physmap(c, address, size)
       \/ \E c \in Threads, address \in Known : funmap(c, address)
       \/ \E c, d \in Threads : clone(c, d)
       \/ \E c \in Threads : exit(c)

Spec == Init /\ [][Next]_vars

-----------------------------------------------------------------------------
(* The vector stays sorted and no two grants overlap, whatever gaps the    *)
(* grants that were taken out have left: a client's buffer never shows up  *)
(* in the middle of another one, and the loops, which look only at the     *)
(* neighbour of a gap, find a place that is free.                          *)
Disjoint ==
    \A i, j \in 1 .. Len(grants) : i < j => end(grants[i]) <= grants[j].start

(* The kernel does not panic: no page is mapped twice, the entry clone     *)
(* copies is there, and what unmap takes out was mapped.  This is what the *)
(* expect and unwrap calls of the page table code take for granted.        *)
NoPanic == ~panicked

(* NoPanic for a process whose threads were all cloned while it had a      *)
(* grant, so that their page tables lead to the same tables, whichever     *)
(* thread maps, unmaps or exits first and even if no grant is left later.  *)
NoPanicTogether == together => NoPanic

(* In such a process the pages that are mapped are those of the grants,    *)
(* for every thread: nothing stays mapped when its grant is gone, and no   *)
(* thread lacks a grant of its process.                                    *)
MappedExactly ==
    together =>
        \A c \in live :
            (IF p4[c] = None THEN {} ELSE mapped[p4[c]])
                = UNION {pages(grants[i]) : i \in 1 .. Len(grants)}

(* The pages of grants as a whole: what is mapped is what the vector says, *)
(* and no assertion fails if every thread was cloned with a grant there.   *)
GrantsExact == NoPanicTogether /\ MappedExactly
=============================================================================

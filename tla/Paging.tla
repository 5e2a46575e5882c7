------------------------------- MODULE Paging -------------------------------
(***************************************************************************)
(* arch/x86_64/src/paging and the callers in kernel/context/memory.rs and  *)
(* clone: page tables that are reached through themselves.  The last entry *)
(* of every top table points at the table, so the tables of the active     *)
(* space are pages of it; `with` points that entry at another space for a  *)
(* while and so changes its tables with the same code.  What the processor *)
(* has cached of earlier translations decides which frame such an access   *)
(* really reaches.                                                         *)
(*                                                                         *)
(* A page is the sequence of its indices, one for each of Levels levels    *)
(* (the code has four).  A region of the address space is a top entry, as  *)
(* in arch/x86_64/src/lib.rs, which gives every region a PML4 entry of its *)
(* own; the five USER_TMP regions are one, and the TLS region, which clone *)
(* treats as it does the stack, is left out.  Grants of a page are read-   *)
(* only, so that they differ from the page's other entries.  A call of the *)
(* kernel is one step: nothing else runs on the processor, but its         *)
(* translations stay.                                                      *)
(***************************************************************************)
EXTENDS Naturals, Sequences, FiniteSets, TLC

CONSTANTS
    Levels,     \* levels of page tables
    Frames,     \* bound: frames of physical memory
    MaxSpaces,  \* bound on the address spaces
    MaxCalls    \* bound on the calls, switches and first touches of pages

VARIABLES
    m,      \* mem: frames as arrays of entries; cr3; tlb: translations the
            \* processor holds; next: the next free frame; panic
    want,   \* by owner of a region: the entries its pages are meant to have
    owner,  \* by space and region: the space whose tables the region has
    todo,   \* the calls clone still makes
    calls,  \* calls made so far
    child   \* the table of the latest clone

vars == <<m, want, owner, todo, calls, child>>

(* The top entries.                                                        *)
Image == 0
Heap == 1
Grant == 2
Stack == 3
Tmp == 4
Kernel == 5
Self == 6
Index == Image .. Self
Regions == Image .. Stack

page(top, low) == <<top>> \o [i \in 1 .. Levels - 2 |-> 0] \o <<low>>

ImagePage == page(Image, 0)
PercpuPage == page(Image, 1)
TmpPage == <<Image>> \o [i \in 1 .. Levels - 1 |-> 1]
HeapPages == {page(Heap, i) : i \in 0 .. 1}
GrantPages == {page(Grant, i) : i \in 0 .. 1}
StackPage == page(Stack, 0)
TmpImage == page(Tmp, 0)
TmpHeap(p) == [p EXCEPT ![1] = Tmp, ![2] = 1]
TmpGrant == [page(Tmp, 0) EXCEPT ![2] = 2]
TmpStack == [page(Tmp, 0) EXCEPT ![2] = 3]
KernelPage == page(Kernel, 0)
UserPages == {ImagePage, StackPage} \cup HeapPages \cup GrantPages
Pages == UserPages \cup {PercpuPage}

(* An entry is a frame and whether it may be written; frame 0 is none.     *)
entry(f, w) == [f |-> f, w |-> w]
Unused == entry(0, FALSE)
Cleared == [i \in Index |-> Unused]

(* What a frame holds before it is used: anything, here entries that look  *)
(* present; and what the program's image holds.                            *)
Device == Frames
Junk == [i \in Index |-> entry(Device, TRUE)]
Code == [i \in Index |-> entry(Device, FALSE)]

-----------------------------------------------------------------------------
(* The processor: a translation that is not cached is looked up and kept.  *)
walk(x, root, p) ==
    LET at[k \in 0 .. Levels] ==
            IF k = 0 THEN entry(root, TRUE)
            ELSE IF at[k - 1].f = 0 THEN Unused ELSE x.mem[at[k - 1].f][p[k]]
    IN  at[Levels]

reached(x, p) == IF p \in DOMAIN x.tlb THEN x.tlb[p] ELSE walk(x, x.cr3, p)

access(x, p) ==
    LET e == reached(x, p)
    IN  IF e.f = 0 THEN [x EXCEPT !.panic = TRUE]
        ELSE [x EXCEPT !.tlb = (p :> e) @@ @]

get(x, p, i) == x.mem[reached(x, p).f][i]

set(x, p, i, e) == [access(x, p) EXCEPT !.mem[reached(x, p).f][i] = e]

fill(x, p, data) == [access(x, p) EXCEPT !.mem[reached(x, p).f] = data]

flush_all(x) == [x EXCEPT !.tlb = <<>>]

cr3_write(x, root) == [flush_all(x) EXCEPT !.cr3 = root]

(* allocate_frame (module FrameAllocator) gives ascending frames, and what *)
(* deallocate_frame is given is never handed out again.                    *)
allocate_frame(x) == [x EXCEPT !.next = @ + 1]

-----------------------------------------------------------------------------
(* The page at which the table shows that the first k indices of p lead    *)
(* to: next_table_address shifts the table's address and appends an index. *)
table(p, k) == [i \in 1 .. Levels |->
    IF i <= Levels - k THEN Self ELSE p[i - (Levels - k)]]

P4 == table(<<>>, 0)

(* The tables above table k of p are present.                              *)
present(x, p, k) == \A j \in 0 .. k - 1 : get(x, table(p, j), p[j + 1]).f # 0

(* Walking down to p's last table reads an entry of each table above.      *)
descend(x, p) ==
    LET down[k \in 0 .. Levels - 1] ==
            IF k = 0 THEN access(x, P4)
            ELSE IF present(down[k - 1], p, k) THEN access(down[k - 1], table(p, k))
            ELSE down[k - 1]
    IN  down[Levels - 1]

next_table_create(x, p, k) ==
    LET y == access(x, table(p, k))
        z == set(allocate_frame(y), table(p, k), p[k + 1], entry(y.next, TRUE))
    IN  IF get(y, table(p, k), p[k + 1]).f # 0 THEN y
        ELSE fill(z, table(p, k + 1), Cleared)

map_to(x, p, e) ==
    LET made[k \in 0 .. Levels - 1] ==
            IF k = 0 THEN x ELSE next_table_create(made[k - 1], p, k - 1)
        y == made[Levels - 1]
    IN  IF get(y, table(p, Levels - 1), p[Levels]) # Unused
        THEN [y EXCEPT !.panic = TRUE]
        ELSE set(y, table(p, Levels - 1), p[Levels], e)

map(x, p, w) == map_to(allocate_frame(x), p, entry(x.next, w))

translate_page(x, p) ==
    IF present(x, p, Levels - 1) THEN get(x, table(p, Levels - 1), p[Levels]) ELSE Unused

(* unmap and unmap_return: the first gives the frame back, which is void.  *)
unmap(x, p) ==
    LET y == descend(x, p)
    IN  IF translate_page(y, p).f = 0 THEN [y EXCEPT !.panic = TRUE]
        ELSE set(y, table(p, Levels - 1), p[Levels], Unused)

remap(x, p, w) ==
    LET y == descend(x, p)
        e == translate_page(y, p)
    IN  IF e.f = 0 THEN [y EXCEPT !.panic = TRUE]
        ELSE set(y, table(p, Levels - 1), p[Levels], entry(e.f, w))

-----------------------------------------------------------------------------
temporary_map(x, tmp, f) ==
    LET y == descend(x, tmp)
    IN  IF translate_page(y, tmp).f # 0 THEN [y EXCEPT !.panic = TRUE]
        ELSE map_to(y, tmp, entry(f, TRUE))

(* Bug: the processor keeps the translations of the active tables.         *)
redirect_unflushed(x, root, tmp) ==
    set(temporary_map(x, tmp, x.cr3), P4, Self, entry(root, TRUE))

(* ActivePageTable::with, before and after the work on the tables of the   *)
(* space root: the entry Self of the active table leads to that space, and *)
(* the active table stays reachable at the page tmp; and back.             *)
redirect(x, root, tmp) ==
    flush_all(set(temporary_map(x, tmp, x.cr3), P4, Self, entry(root, TRUE)))

restore(x, tmp) == unmap(flush_all(set(x, tmp, Self, entry(x.cr3, TRUE))), tmp)

(* InactivePageTable::new, for a frame that was just allocated.            *)
new_table(x, f, tmp) ==
    LET y == fill(temporary_map(x, tmp, f), tmp, Cleared)
    IN  unmap(set(y, tmp, Self, entry(f, TRUE)), tmp)

-----------------------------------------------------------------------------
(* Memory::new of one page, with flush; clear is a parameter.              *)
memory_new(x, p, w, clear) ==
    LET y == flush_all(map(x, p, w))
    IN  IF clear THEN fill(y, p, Cleared) ELSE y

(* clone's copy of a page at a temporary address.  The flags come from the *)
(* Memory that describes the page, which says what its entry does.         *)
duplicate(x, p, tmp) ==
    LET flags == translate_page(x, p).w
        y == memory_new(x, tmp, TRUE, FALSE)
        z == fill(access(y, p), tmp, y.mem[reached(y, p).f])
    IN  flush_all(remap(z, tmp, flags))

(* Memory::move_to, for a page.                                            *)
move_to(x, p, to, root) ==
    LET e == translate_page(x, p)
    IN  flush_all(restore(map_to(redirect(unmap(x, p), root, TmpPage), to, e), TmpPage))

Spaces == DOMAIN owner
meant(s, p) == want[owner[s][p[1]]][p]
mapped(s, ps) == {p \in ps : meant(s, p) # Unused}
wanted(s, p, e) == [want EXCEPT ![owner[s][p[1]]][p] = e]

(* With CLONE_VM: the child gets the parent's tables of a region.          *)
share_region(x, root, top) ==
    LET y == access(x, P4)
        e == get(y, P4, top)
    IN  restore(set(redirect(y, root, TmpPage), P4, top, e), TmpPage)

map_percpu(x, root) ==
    LET y == descend(x, PercpuPage)
        e == translate_page(y, PercpuPage)
    IN  restore(map_to(redirect(y, root, TmpPage), PercpuPage, entry(e.f, TRUE)), TmpPage)

(* clone is a sequence of such calls: what is copied, at a temporary       *)
(* address; the new table; the regions it shares with the parent; what is  *)
(* moved to it.                                                            *)
call(op, top, p) == [op |-> op, top |-> top, p |-> p]
tmp_of(p) ==
    CASE p = ImagePage -> TmpImage [] p = StackPage -> TmpStack [] OTHER -> TmpHeap(p)

heap_pages == LET n == Cardinality(mapped(m.cr3, HeapPages))
              IN  [i \in 1 .. n |-> page(Heap, i - 1)]

clone_calls(share) ==
    LET own == IF share THEN <<StackPage>> ELSE <<ImagePage>> \o heap_pages \o <<StackPage>>
        regions == <<Image, Heap>> \o (IF mapped(m.cr3, GrantPages) = {} THEN <<>> ELSE <<Grant>>)
        copies == [i \in DOMAIN own |-> call("copy", Image, own[i])]
        shares == [i \in DOMAIN regions |-> call("share", regions[i], P4)]
        moves == [i \in DOMAIN own |-> call("move", Image, own[i])]
    IN  copies \o <<call("table", Image, P4), call("share", Kernel, P4)>>
        \o (IF share THEN shares ELSE <<call("percpu", Image, PercpuPage)>>) \o moves

clone(share) ==
    /\ todo = <<>>
    /\ todo' = clone_calls(share)
    /\ UNCHANGED <<m, want, owner, child>>

copy(c) ==
    /\ c.op = "copy"
    /\ m' = duplicate(m, c.p, tmp_of(c.p))
    /\ UNCHANGED <<want, owner, child>>

make_table(c) ==
    /\ c.op = "table"
    /\ child' = m.next
    /\ m' = new_table(allocate_frame(m), m.next, TmpPage)
    /\ owner' = (m.next :> [r \in Regions |-> m.next]) @@ owner
    /\ want' = (m.next :> [p \in Pages |-> Unused]) @@ want

share(c) ==
    /\ c.op = "share"
    /\ m' = share_region(m, child, c.top)
    /\ owner' = IF c.top = Kernel THEN owner
                ELSE [owner EXCEPT ![child][c.top] = owner[m.cr3][c.top]]
    /\ UNCHANGED <<want, child>>

percpu(c) ==
    /\ c.op = "percpu"
    /\ m' = map_percpu(m, child)
    /\ want' = wanted(child, PercpuPage, meant(m.cr3, PercpuPage))
    /\ UNCHANGED <<owner, child>>

move(c) ==
    /\ c.op = "move"
    /\ m' = move_to(m, tmp_of(c.p), c.p, child)
    /\ want' = wanted(child, c.p, walk(m, m.cr3, tmp_of(c.p)))
    /\ UNCHANGED <<owner, child>>

boot(c) ==
    /\ c.op = "map"
    /\ LET x == memory_new(m, c.p, TRUE, TRUE)
       IN  m' = IF c.p = ImagePage THEN flush_all(remap(fill(x, c.p, Code), c.p, FALSE)) ELSE x
    /\ want' = IF c.p = KernelPage THEN want
               ELSE wanted(m.cr3, c.p, entry(m.next, c.p # ImagePage))
    /\ UNCHANGED <<owner, child>>

kernel_step ==
    /\ todo # <<>>
    /\ todo' = Tail(todo)
    /\ LET c == Head(todo)
       IN  boot(c) \/ copy(c) \/ make_table(c) \/ share(c) \/ percpu(c) \/ move(c)

(* brk: Memory::resize of the heap by a page, which maps or unmaps only     *)
(* what the tables say is not, or is, mapped.                              *)
grow(p) ==
    /\ p \in HeapPages \ mapped(m.cr3, HeapPages)
    /\ LET x == descend(m, p)
           y == IF translate_page(x, p).f = 0 THEN flush_all(map(x, p, TRUE)) ELSE x
       IN  /\ m' = fill(y, p, Cleared)
           /\ want' = wanted(m.cr3, p, entry(x.next, TRUE))
    /\ UNCHANGED <<owner, todo, child>>

shrink(p) ==
    /\ p \in mapped(m.cr3, HeapPages) /\ p[Levels] = 1
    /\ LET x == descend(m, p)
       IN  m' = IF translate_page(x, p).f # 0 THEN flush_all(unmap(x, p)) ELSE x
    /\ want' = wanted(m.cr3, p, Unused)
    /\ UNCHANGED <<owner, todo, child>>

(* Grant::physmap and Grant::unmap, in the active space.                   *)
physmap(p) ==
    /\ p \in GrantPages \ mapped(m.cr3, GrantPages)
    /\ m' = flush_all(map_to(m, p, entry(Device, TRUE)))
    /\ want' = wanted(m.cr3, p, entry(Device, TRUE))
    /\ UNCHANGED <<owner, todo, child>>

grant_unmap(p) ==
    /\ p \in mapped(m.cr3, GrantPages)
    /\ m' = flush_all(unmap(m, p))
    /\ want' = wanted(m.cr3, p, Unused)
    /\ UNCHANGED <<owner, todo, child>>

(* Grant::map_inactive: the scheme s gets the caller's page.               *)
map_inactive(s, from, p) ==
    /\ from \in mapped(m.cr3, HeapPages \cup {StackPage})
    /\ p \in GrantPages \ mapped(s, GrantPages)
    /\ LET x == descend(m, from)
           e == entry(translate_page(x, from).f, FALSE)
       IN  m' = restore(map_to(redirect(x, s, TmpGrant), p, e), TmpGrant)
    /\ want' = wanted(s, p, entry(meant(m.cr3, from).f, FALSE))
    /\ UNCHANGED <<owner, todo, child>>

unmap_inactive(s, p) ==
    /\ p \in mapped(s, GrantPages)
    /\ m' = restore(unmap(redirect(m, s, TmpGrant), p), TmpGrant)
    /\ want' = wanted(s, p, Unused)
    /\ UNCHANGED <<owner, todo, child>>

(* The program touches a page it has; the kernel runs another context.     *)
run(p) ==
    /\ p \in mapped(m.cr3, UserPages) \ DOMAIN m.tlb
    /\ m' = access(m, p)
    /\ UNCHANGED <<want, owner, todo, child>>

switch_to(s) ==
    /\ s # m.cr3
    /\ m' = cr3_write(m, s)
    /\ UNCHANGED <<want, owner, todo, child>>

-----------------------------------------------------------------------------
(* The space of the first context, before paging::init and exec map what   *)
(* it starts with.                                                         *)
First == 1
Boot == <<KernelPage, PercpuPage, ImagePage, StackPage, page(Heap, 0)>>

Init ==
    /\ m = [mem |-> [f \in 0 .. Frames |->
                        IF f = First THEN [Cleared EXCEPT ![Self] = entry(First, TRUE)] ELSE Junk],
            cr3 |-> First, tlb |-> <<>>, next |-> First + 1, panic |-> FALSE]
    /\ owner = (First :> [r \in Regions |-> First])
    /\ want = (First :> [p \in Pages |-> Unused])
    /\ todo = [i \in DOMAIN Boot |-> call("map", Image, Boot[i])]
    /\ child = First /\ calls = 0

Next ==
    \/ kernel_step /\ UNCHANGED calls
    \/ /\ todo = <<>> /\ calls < MaxCalls /\ calls' = calls + 1
       /\ \/ \E s \in BOOLEAN : Cardinality(Spaces) < MaxSpaces /\ clone(s)
          \/ \E p \in HeapPages : grow(p) \/ shrink(p)
          \/ \E p \in GrantPages : physmap(p) \/ grant_unmap(p)
          \/ \E s \in Spaces, from \in HeapPages \cup {StackPage}, p \in GrantPages :
                map_inactive(s, from, p)
          \/ \E s \in Spaces, p \in GrantPages : unmap_inactive(s, p)
          \/ \E p \in UserPages : run(p)
          \/ \E s \in Spaces : switch_to(s)

Spec == Init /\ [][Next]_vars

-----------------------------------------------------------------------------
Temporary == {TmpPage, TmpImage, TmpGrant, TmpStack} \cup {TmpHeap(p) : p \in HeapPages}

(* Every space translates exactly the pages it is meant to have, to frames *)
(* with the right contents, after any sequence of calls made in whichever  *)
(* space was active: its tables were changed through the recursive entry   *)
(* of another space.  That entry leads back to the space itself, no        *)
(* temporary page is left behind, and the processor holds no translation   *)
(* of a page the running program does not have.                            *)
SpacesExact ==
    /\ ~ m.panic
    /\ todo = <<>> =>
       /\ \A s \in Spaces :
             /\ m.mem[s][Self] = entry(s, TRUE)
             /\ \A p \in Pages : walk(m, s, p) = meant(s, p)
             /\ \A p \in Temporary : walk(m, s, p) = Unused
             /\ walk(m, s, KernelPage) = walk(m, First, KernelPage)
             /\ m.mem[meant(s, ImagePage).f] = Code
             /\ \A p \in mapped(s, HeapPages \cup {StackPage}) : m.mem[meant(s, p).f] = Cleared
       /\ \A p \in DOMAIN m.tlb \cap Pages : m.tlb[p] = meant(m.cr3, p)
=============================================================================

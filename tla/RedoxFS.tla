------------------------------ MODULE RedoxFS ------------------------------
(***************************************************************************)
(* RedoxFS: the file system library (schemes/redoxfs/src), the file:       *)
(* scheme daemon that serves it (schemes/redoxfs/scheme), the FUSE server  *)
(* and the redoxfs utility that mount the same image.                      *)
(*                                                                         *)
(* A request runs to its end before the next one is read, but it reaches   *)
(* the disk as a sequence of block writes, and the machine may stop after  *)
(* any of them.  An operation of the library is therefore an operator that *)
(* takes a file system value (the disk as the program sees it, and the     *)
(* writes made so far) and returns the next one; a request leaves its      *)
(* writes in `writes', flush carries them out one by one, and crash drops  *)
(* those that are left.                                                    *)
(***************************************************************************)
EXTENDS Integers, SequencesExt, FiniteSetsExt

CONSTANTS Size,        \* blocks of the disk
          BS,          \* bytes of a block (512 in the code)
          NE,          \* extents of a node (15 in the code)
          Names,       \* names of files and directories
          Paths,       \* paths a request may give: sequences of names
          Users,       \* users that send requests; 0 is root
          Perms,       \* permissions a request may give: [u, g, o]
          Flags,       \* open flags a request may give
          Lengths,     \* lengths of the buffers written and of truncations
          Servers,     \* the programs that mount the image
          MaxOpen,     \* bound on the open files of the scheme
          MaxRequests  \* bound on the requests that write to the disk

VARIABLES disk,        \* block -> what it holds
          writes,      \* the writes of the request that runs, not yet made
          mounted,     \* the program that has mounted the image, or "no"
          files,       \* FileScheme.files: handle -> resource
          cwd,         \* the shell's current directory
          requests,    \* requests made that write to the disk
          tree,        \* history: node -> its directory, name and bytes
          after,       \* history: tree as it will be when the request is done
          marks        \* history: where the code departs from that promise

vars == <<disk, writes, mounted, files, cwd, requests, tree, after, marks>>

Root == 1
Free == 2
Blocks == 0 .. Size - 1

Ext(b, l) == [block |-> b, length |-> l]
All == {"r", "w", "x"}
NoPerm == [u |-> {}, g |-> {}, o |-> {}]

(* What a block holds: the header, a node, or file data.                   *)
NodeNew(type, perm, name, parent) ==
    [tag |-> "node", type |-> type, perm |-> perm, name |-> name, uid |-> 0,
     parent |-> parent, next |-> 0, extents |-> [i \in 1 .. NE |-> Ext(0, 0)]]

NodeDefault == NodeNew("none", NoPerm, "", 0)
Header == [tag |-> "header"]
Data(b) == [tag |-> "data", bytes |-> b]

(* A block of zeros is a default node; as data it is zeros.  The bytes of  *)
(* other node images are not told apart.                                   *)
bytes(x) == IF x.tag = "data" THEN x.bytes ELSE [i \in 1 .. BS |-> 0]

up(n) == ((n + BS - 1) \div BS) * BS

(***************************************************************************)
(* FileSystem                                                              *)
(***************************************************************************)
(* The disk, the writes made to it, the marks that stay, and those that    *)
(* are in force from the next write on: Gaps between two writes.           *)
fs == [d |-> disk, w |-> <<>>, m |-> {}, gap |-> {}]

Gaps == {"split", "stale"}

write_at(f, b, x) ==
    [f EXCEPT !.d[b] = x, !.w = Append(@, [block |-> b, data |-> x, gap |-> f.gap])]

(* The last write ends a gap. *)
ended(f, gap) == [f EXCEPT !.gap = @ \ {gap}, !.w[Len(f.w)].gap = @ \ {gap}]

node(f, b) == IF f.d[b].tag = "node" THEN f.d[b] ELSE NodeDefault

allocate(f, length) ==
    LET free == node(f, Free)
        fit  == {i \in 1 .. NE : free.extents[i].length \div BS >= length}
        i    == Min(fit)
        e    == free.extents[i]
    IN  IF fit = {} THEN [f |-> f, block |-> 0]
        ELSE [f |-> write_at(f, Free, [free EXCEPT !.extents[i] =
                                Ext(e.block + length, e.length - length * BS)]),
              block |-> e.block]

(* Extent::blocks                                                          *)
blocks(e) == [k \in 1 .. up(e.length) \div BS |->
                 [block |-> e.block + k - 1, size |-> Min({BS, e.length - (k - 1) * BS})]]

RECURSIVE node_blocks(_, _)
node_blocks(f, b) ==
    IF b = 0 THEN <<>>
    ELSE FlattenSeq([i \in 1 .. NE |-> blocks(node(f, b).extents[i])])
         \o node_blocks(f, node(f, b).next)

numbers(s) == [k \in DOMAIN s |-> s[k].block]

child_nodes(f, parent) ==
    numbers(SelectSeq(node_blocks(f, parent), LAMBDA x : x.size >= BS))

find_node(f, name, parent) ==
    LET hits == SelectSeq(child_nodes(f, parent), LAMBDA b : node(f, b).name = name)
    IN  IF hits = <<>> THEN 0 ELSE Head(hits)

(* path_nodes: the nodes passed on the way, and the node itself, 0 when it *)
(* does not exist.                                                         *)
RECURSIVE path_from(_, _, _, _)
path_from(f, path, nodes, block) ==
    IF path = <<>> THEN [nodes |-> nodes, node |-> block]
    ELSE LET child == find_node(f, Head(path), block)
         IN  IF child = 0 THEN [nodes |-> Append(nodes, block), node |-> 0]
             ELSE path_from(f, Tail(path), Append(nodes, block), child)

path_nodes(f, path) == path_from(f, path, <<>>, Root)

begins(e, block, length) == length % BS = 0 /\ e.block = block + length \div BS
ends(e, block) == e.length % BS = 0 /\ e.block + e.length \div BS = block

merged(e, block, length) ==
    IF e.length = 0 THEN Ext(block, length)
    ELSE IF begins(e, block, length) THEN Ext(block, e.length + length)
    ELSE Ext(e.block, e.length + length)

(* insert_blocks reads the parent before it allocates a further node for   *)
(* it, and writes back what it read.  When the parent is the free node     *)
(* itself this undoes the allocation: the mark "overflow".  Between that   *)
(* write and the next the further node is whatever the block held, a node  *)
(* too if a crash came before remove_node had erased it: the gap "stale".  *)
RECURSIVE insert_blocks(_, _, _, _)
insert_blocks(f, block, length, parent) ==
    LET p   == node(f, parent)
        at  == {i \in 1 .. NE : \/ p.extents[i].length = 0
                                \/ begins(p.extents[i], block, length)
                                \/ ends(p.extents[i], block)}
        i   == Min(at)
        a   == allocate(f, 1)
        f1  == write_at([a.f EXCEPT !.gap = IF a.f.d[a.block] = NodeDefault THEN @ ELSE @ \cup {"stale"}],
                        parent, [p EXCEPT !.next = a.block])
        f2  == ended(write_at(f1, a.block, NodeDefault), "stale")
    IN  CASE parent = 0 -> [f |-> f, ok |-> FALSE]
          [] parent # 0 /\ at # {} ->
                [f |-> write_at(f, parent,
                          [p EXCEPT !.extents[i] = merged(p.extents[i], block, length)]),
                 ok |-> TRUE]
          [] parent # 0 /\ at = {} /\ p.next # 0 -> insert_blocks(f, block, length, p.next)
          [] parent # 0 /\ at = {} /\ p.next = 0 /\ a.block = 0 -> [f |-> f, ok |-> FALSE]
          [] OTHER -> insert_blocks([f2 EXCEPT !.m = IF parent = Free THEN @ \cup {"overflow"}
                                                     ELSE @], block, length, a.block)

deallocate(f, block, length) == insert_blocks(f, block, length, Free)

create_node(f, type, perm, name, parent) ==
    LET a  == allocate(f, 1)
        f1 == write_at(a.f, a.block, NodeNew(type, perm, name, parent))
        r  == insert_blocks(f1, a.block, BS, parent)
    IN  IF find_node(f, name, parent) # 0 \/ a.block = 0 THEN [f |-> f, block |-> 0]
        ELSE [f |-> r.f, block |-> IF r.ok THEN a.block ELSE 0]

(* remove_blocks for one block.  Taking a block out of the middle of an    *)
(* extent writes the left part first and the right part in an insertion of *)
(* its own: the gap "split".  If that fails the right part is lost.        *)
free_removed(r, block) ==
    IF r.ok THEN deallocate(r.f, block, BS) ELSE [r EXCEPT !.f.m = @ \cup {"lost"}]

inserted_right(r) == IF r.ok THEN [r EXCEPT !.f = ended(@, "split")] ELSE r

RECURSIVE remove_blocks(_, _, _)
remove_blocks(f, block, parent) ==
    LET p  == node(f, parent)
        at == {i \in 1 .. NE : /\ block >= p.extents[i].block
                               /\ block + 1 <= p.extents[i].block + p.extents[i].length \div BS}
        i     == Min(at)
        e     == p.extents[i]
        left  == Ext(e.block, (block - e.block) * BS)
        right == Ext(block + 1, ((e.block + e.length \div BS) - (block + 1)) * BS)
        both  == left.length > 0 /\ right.length > 0
        f1 == write_at([f EXCEPT !.gap = IF both THEN @ \cup {"split"} ELSE @], parent, [p EXCEPT !.extents[i] =
                  IF left.length > 0 THEN left
                  ELSE IF right.length > 0 THEN right ELSE Ext(0, 0)])
    IN  IF parent = 0 THEN [f |-> f, ok |-> FALSE]
        ELSE IF at = {} THEN remove_blocks(f, block, p.next)
        ELSE free_removed(IF both
                          THEN inserted_right(insert_blocks(f1, right.block, right.length, parent))
                          ELSE [f |-> f1, ok |-> TRUE], block)

(* Bug: a directory is removed with what is in it.                         *)
removable_full(f, b, type) == node(f, b).type = type

removable(f, b, type) ==
    node(f, b).type = type /\ (type = "dir" => child_nodes(f, b) = <<>>)

erase_removed(r, b) ==
    IF r.ok THEN [f |-> write_at(r.f, b, NodeDefault), block |-> b] ELSE [f |-> r.f, block |-> 0]

remove_node(f, type, name, parent) ==
    LET b == find_node(f, name, parent)
    IN  IF b = 0 \/ ~removable(f, b, type) THEN [f |-> f, block |-> 0]
        ELSE erase_removed(remove_blocks(f, b, parent), b)

(* node_ensure_len: the extents of the chain grow to the end of their last *)
(* blocks, and what is still missing is allocated in one piece.  Blocks    *)
(* put in front of, or between, those in use are the mark "reordered".     *)
RECURSIVE ensure_from(_, _, _)
ensure_from(f, b, length) ==
    LET n == node(f, b)
        grown[i \in 0 .. NE] ==
            LET s == grown[i - 1]
                l == n.extents[i].length
            IN  CASE i = 0 -> [left |-> length, ext |-> n.extents]
                  [] i > 0 /\ l >= s.left -> [s EXCEPT !.left = 0]
                  [] i > 0 /\ l < s.left /\ up(l) >= s.left ->
                        [s EXCEPT !.ext[i].length = s.left, !.left = 0]
                  [] OTHER -> [s EXCEPT !.ext[i].length = up(l), !.left = @ - up(l)]
        fit == grown[NE]
        f1  == IF fit.ext = n.extents THEN f ELSE write_at(f, b, [n EXCEPT !.extents = fit.ext])
        a   == allocate(f1, up(fit.left) \div BS)
    IN  IF fit.left = 0 THEN [f |-> f1, ok |-> TRUE]
        ELSE IF n.next > 0 THEN ensure_from(f1, n.next, fit.left)
        ELSE IF a.block = 0 THEN [f |-> f1, ok |-> FALSE]
        ELSE insert_blocks(a.f, a.block, fit.left, b)

in_order(r, f, b) ==
    IF IsPrefix(numbers(node_blocks(f, b)), numbers(node_blocks(r.f, b))) THEN r
    ELSE [r EXCEPT !.f.m = @ \cup {"reordered"}]

node_ensure_len(f, b, length) == in_order(ensure_from(f, b, length), f, b)

RECURSIVE node_set_len(_, _, _)
node_set_len(f, b, length) ==
    LET n == node(f, b)
        short[i \in 0 .. NE] ==
            LET s == short[i - 1]
                l == n.extents[i].length
            IN  CASE i = 0 -> [left |-> length, ext |-> n.extents]
                  [] i > 0 /\ l > s.left -> [s EXCEPT !.ext[i].length = s.left, !.left = 0]
                  [] OTHER -> [s EXCEPT !.left = @ - l]
        set == short[NE]
        f1  == IF set.ext = n.extents THEN f ELSE write_at(f, b, [n EXCEPT !.extents = set.ext])
    IN  IF n.next > 0 THEN node_set_len(f1, n.next, set.left) ELSE f1

node_len(f, b) == FoldLeft(LAMBDA s, x : s + x.size, 0, node_blocks(f, b))

(* The bytes of a file, as read_node returns them from offset 0.           *)
file_bytes(f, b) ==
    LET s == node_blocks(f, b)
    IN  FlattenSeq([k \in DOMAIN s |-> SubSeq(bytes(f.d[s[k].block]), 1, s[k].size)])

(* read_node: how many bytes come back.  A block offset past the last      *)
(* block gives none; an offset inside the last block but past its bytes    *)
(* panics on the slice sector[byte_offset..sector_size].                   *)
read_node(f, b, offset, length) ==
    LET s == node_blocks(f, b)
        k == offset \div BS + 1
    IN  IF k > Len(s) THEN [count |-> 0, panic |-> FALSE]
        ELSE IF offset % BS > s[k].size THEN [count |-> 0, panic |-> TRUE]
        ELSE [count |-> Min({length, node_len(f, b) - offset}), panic |-> FALSE]

(* Bug: the sector is not read before it is written.                       *)
sector_unread(old, buf, skip) ==
    [j \in 1 .. BS |-> IF skip + j \in DOMAIN buf THEN buf[skip + j] ELSE 0]

(* A sector with the bytes of a buffer in it, from byte skip + 1 of the    *)
(* buffer on.                                                              *)
sector(old, buf, skip) ==
    [j \in 1 .. BS |-> IF skip + j \in DOMAIN buf THEN buf[skip + j] ELSE old[j]]

(* write_node: the new bytes go to the blocks of the file from the one the *)
(* offset is in; each block is one write.                                  *)
write_sectors(r, b, offset, buf) ==
    LET s  == SubSeq(node_blocks(r.f, b), offset \div BS + 1, up(offset + Len(buf)) \div BS)
        new(k) == sector(bytes(r.f.d[s[k].block]), buf, (k - 1) * BS - (offset % BS))
    IN  IF ~r.ok THEN [f |-> r.f, count |-> 0]
        ELSE [f |-> FoldLeft(LAMBDA g, k : write_at(g, s[k].block, Data(new(k))), r.f,
                             [k \in DOMAIN s |-> k]),
              count |-> Len(buf)]

write_node(f, b, offset, buf) ==
    write_sectors(node_ensure_len(f, b, offset + Len(buf)), b, offset, buf)

(***************************************************************************)
(* The entries of the directories on the disk: [block, dir].               *)
(***************************************************************************)
RECURSIVE entries(_, _)
entries(f, dir) ==
    UNION {{[block |-> b, dir |-> dir]}
           \cup (IF node(f, b).type = "dir" THEN entries(f, b) ELSE {}) :
           b \in Range(child_nodes(f, dir))}

nodes_of(f, type) == {x.block : x \in {y \in entries(f, Root) : node(f, y.block).type = type}}

(***************************************************************************)
(* A request: its writes are queued, its history is noted.                 *)
(***************************************************************************)
request(f, t) ==
    /\ writes' = f.w
    /\ after' = t
    /\ tree' = IF f.w = <<>> THEN t ELSE tree
    /\ marks' = marks \cup f.m
    /\ f.w # <<>> => requests < MaxRequests
    /\ requests' = IF f.w = <<>> THEN requests ELSE requests + 1
    /\ UNCHANGED <<disk, mounted>>

serving(server) == mounted = server /\ writes = <<>>

with(t, b, v) == [x \in DOMAIN t \cup {b} |-> IF x = b THEN v ELSE t[x]]
without(t, b) == [x \in DOMAIN t \ {b} |-> t[x]]
created(t, b, dir, name) ==
    IF b = 0 THEN t ELSE with(t, b, [dir |-> dir, name |-> name, bytes |-> <<>>])
cut(t, b, length) ==
    [t EXCEPT ![b].bytes = SubSeq(@, 1, Min({Len(@), length}))]
written(t, b, offset, buf) ==
    LET old == t[b].bytes
        n   == offset + Len(buf)
    IN  [t EXCEPT ![b].bytes =
            [i \in 1 .. Max({Len(old), n}) |->
                IF i > offset /\ i <= n THEN buf[i - offset]
                ELSE IF i <= Len(old) THEN old[i] ELSE -1]]

(* A request that has created, removed or written.                         *)
creates(c, dir, name) == request(c.f, created(tree, c.block, dir, name))
removes(r) == request(r.f, IF r.block = 0 THEN tree ELSE without(tree, r.block))
fills(r, t, b, offset, buf) == request(r.f, IF r.count = 0 THEN t ELSE written(t, b, offset, buf))

Buffers == {[i \in 1 .. n |-> v] : n \in Lengths \ {0}, v \in 1 .. 2}

(* The block device carries out the next write of the request.             *)
flush ==
    /\ writes # <<>>
    /\ disk' = [disk EXCEPT ![Head(writes).block] = Head(writes).data]
    /\ writes' = Tail(writes)
    /\ tree' = IF writes' = <<>> THEN after ELSE tree
    /\ marks' = (marks \ Gaps) \cup Head(writes).gap
    /\ UNCHANGED <<mounted, files, cwd, requests, after>>

Closed == [h \in 1 .. MaxOpen |-> [kind |-> "none"]]

(* The machine stops, or the daemon panics: the writes that are left are   *)
(* lost.  What the interrupted request was creating or removing is there   *)
(* or not, and the bytes it was writing are old or new.                    *)
stop ==
    LET found == {x.block : x \in entries(fs, Root)}
        both  == DOMAIN tree \cap DOMAIN after
        kept  == both \cup ((DOMAIN tree \cup DOMAIN after) \cap found)
        t == [b \in kept |->
                IF b \in both
                THEN [tree[b] EXCEPT !.bytes =
                        [i \in 1 .. Min({Len(tree[b].bytes), Len(after[b].bytes)}) |->
                            IF tree[b].bytes[i] = after[b].bytes[i]
                            THEN tree[b].bytes[i] ELSE -1]]
                ELSE IF b \in DOMAIN tree THEN tree[b] ELSE [after[b] EXCEPT !.bytes = <<>>]]
    IN  /\ tree' = t /\ after' = t
        /\ marks' = IF marks \cap Gaps # {} THEN (marks \ Gaps) \cup {"lost"} ELSE marks
        /\ writes' = <<>>
        /\ mounted' = "no"
        /\ files' = Closed
        /\ cwd' = Root
        /\ UNCHANGED <<disk, requests>>

crash == (mounted # "no" \/ writes # <<>>) /\ stop

(***************************************************************************)
(* FileSystem::create and FileSystem::open                                 *)
(***************************************************************************)
format(f) ==
    LET free == [NodeNew("file", NoPerm, "free", 0) EXCEPT !.extents[1] =
                    Ext(4, (Size - 4) * BS)]
        root == NodeNew("dir", [u |-> All, g |-> {"r", "x"}, o |-> {"r", "x"}], "root", 0)
    IN  write_at(write_at(write_at(f, Free, free), Root, root), 0, Header)

create ==
    /\ mounted = "no" /\ writes = <<>> /\ disk[0] # Header
    /\ request(format(fs), tree)
    /\ UNCHANGED <<files, cwd>>

mount(server) ==
    /\ requests < MaxRequests
    /\ mounted = "no" /\ writes = <<>> /\ disk[0] = Header
    /\ mounted' = server
    /\ cwd' = Root
    /\ UNCHANGED <<disk, writes, files, requests, tree, after, marks>>

(***************************************************************************)
(* FileScheme                                                              *)
(***************************************************************************)
permission(n, u, op) ==
    op \in n.perm.o \cup (IF n.uid = u THEN n.perm.u ELSE {})
                    \cup (IF n.uid = u \/ u = 0 THEN n.perm.g ELSE {})
                    \cup (IF u = 0 THEN All ELSE {})

passable(nodes, u) ==
    \A i \in DOMAIN nodes : /\ permission(node(fs, nodes[i]), u, "x")
                            /\ node(fs, nodes[i]).type = "dir"

reads(acc) == acc \in {"r", "rw"}
writing(acc) == acc \in {"w", "rw"}
allowed(n, u, acc) ==
    (reads(acc) => permission(n, u, "r")) /\ (writing(acc) => permission(n, u, "w"))

free_handles == {h \in 1 .. MaxOpen : files[h].kind = "none"}

opened(kind, b, acc) ==
    files' = [files EXCEPT ![Min(free_handles)] =
        [kind |-> kind, block |-> b, acc |-> acc, seek |-> 0]]

(* open of a file that exists *)
open_file(u, path, fl) ==
    LET p == path_nodes(fs, path)
        n == node(fs, p.node)
    IN  /\ serving("scheme") /\ free_handles # {}
        /\ p.node # 0 /\ passable(p.nodes, u) /\ n.type # "dir"
        /\ ~(fl.creat /\ fl.excl) /\ ~fl.dir
        /\ allowed(n, u, fl.acc) /\ (fl.trunc => permission(n, u, "w"))
        /\ IF fl.trunc THEN request(node_set_len(fs, p.node, 0), cut(tree, p.node, 0))
                       ELSE request(fs, tree)
        /\ opened("file", p.node, fl.acc)
        /\ UNCHANGED cwd

(* open of a directory *)
open_dir(u, path, fl) ==
    LET p == path_nodes(fs, path)
        n == node(fs, p.node)
    IN  /\ serving("scheme") /\ free_handles # {}
        /\ p.node # 0 /\ passable(p.nodes, u) /\ n.type = "dir"
        /\ ~(fl.creat /\ fl.excl) /\ (fl.stat \/ fl.dir)
        /\ IF fl.acc = "r" THEN permission(n, u, "r") ELSE fl.stat
        /\ opened("dir", p.node, fl.acc)
        /\ UNCHANGED <<disk, writes, mounted, cwd, requests, tree, after, marks>>

(* open of a path that does not exist: the last part of the path is made   *)
(* in the deepest directory found.  The new file stays when the caller may *)
(* not open it with its own permissions.                                   *)
open_created(c, u, dir, name, type, acc) ==
    LET n == [node(c.f, c.block) EXCEPT !.uid = u]
    IN  IF c.block = 0
        THEN request(c.f, tree) /\ UNCHANGED files
        ELSE /\ creates([c EXCEPT !.f = write_at(@, c.block, n)], dir, name)
             /\ IF allowed(n, u, acc) THEN opened(type, c.block, acc) ELSE UNCHANGED files

open_create(u, path, fl, perm) ==
    LET p    == path_nodes(fs, path)
        dir  == Last(p.nodes)
        type == IF fl.dir THEN "dir" ELSE "file"
    IN  /\ serving("scheme") /\ free_handles # {}
        /\ p.node = 0 /\ passable(p.nodes, u) /\ fl.creat
        /\ permission(node(fs, dir), u, "w")
        /\ open_created(create_node(fs, type, perm, Last(path), dir), u, dir, Last(path), type, fl.acc)
        /\ UNCHANGED cwd

chmod(u, path, perm) ==
    LET p == path_nodes(fs, path)
        n == node(fs, p.node)
    IN  /\ serving("scheme")
        /\ p.node # 0 /\ passable(p.nodes, u) /\ (n.uid = u \/ u = 0)
        /\ request(write_at(fs, p.node, [n EXCEPT !.perm = perm]), tree)
        /\ UNCHANGED <<files, cwd>>

(* unlink and rmdir: the handles on the node outlive it.                   *)
remove(u, path, type) ==
    LET p == path_nodes(fs, path)
        dir == Last(p.nodes)
    IN  /\ serving("scheme")
        /\ p.node # 0 /\ p.nodes # <<>> /\ passable(p.nodes, u)
        /\ permission(node(fs, dir), u, "w")
        /\ node(fs, p.node).type = type /\ permission(node(fs, p.node), u, "w")
        /\ removes(remove_node(fs, type, Last(path), dir))
        /\ UNCHANGED <<files, cwd>>

unlink(u, path) == remove(u, path, "file")
rmdir(u, path) == remove(u, path, "dir")

dup(h) ==
    /\ serving("scheme") /\ files[h].kind # "none" /\ free_handles # {}
    /\ files' = [files EXCEPT ![Min(free_handles)] = files[h]]
    /\ UNCHANGED <<disk, writes, mounted, cwd, requests, tree, after, marks>>

close(h) ==
    /\ serving("scheme") /\ files[h].kind # "none"
    /\ files' = [files EXCEPT ![h] = [kind |-> "none"]]
    /\ UNCHANGED <<disk, writes, mounted, cwd, requests, tree, after, marks>>

(* A handle names a block.  When its file was removed it works on whatever *)
(* the block is now: free, or the node of a file that came after.          *)
usable(h) == serving("scheme") /\ files[h].kind = "file"

(* A request through a handle changes the file that has its block.  If the *)
(* block is neither a file nor free, it changes what the block is used     *)
(* for: the mark "stray".                                                  *)
through(h, f, t) ==
    LET b    == files[h].block
        file == b \in nodes_of(fs, "file")
        free == b \in Range(numbers(node_blocks(fs, Free)))
    IN  request([f EXCEPT !.m = IF file \/ free \/ f.w = <<>> THEN @ ELSE @ \cup {"stray"}],
                IF file THEN t ELSE tree)

(* A read past the bytes of the last block is a panic: the daemon is gone. *)
read(h, length) ==
    LET r == read_node(fs, files[h].block, files[h].seek, length)
    IN  /\ usable(h) /\ reads(files[h].acc)
        /\ IF r.panic THEN stop
           ELSE /\ files' = [files EXCEPT ![h].seek = @ + r.count]
                /\ UNCHANGED <<disk, writes, mounted, cwd, requests, tree, after, marks>>

fills_open(r, h, buf) ==
    /\ through(h, r.f, IF r.count = 0 THEN tree ELSE written(tree, files[h].block, files[h].seek, buf))
    /\ files' = [files EXCEPT ![h].seek = @ + r.count]

write(h, buf) ==
    /\ usable(h) /\ writing(files[h].acc)
    /\ fills_open(write_node(fs, files[h].block, files[h].seek, buf), h, buf)
    /\ UNCHANGED cwd

(* Whatever the offset, min(0, max(size, offset)) is the start of the file. *)
seek(h, offset) ==
    /\ usable(h)
    /\ files' = [files EXCEPT ![h].seek =
                    Min({0, Max({node_len(fs, files[h].block), offset})})]
    /\ UNCHANGED <<disk, writes, mounted, cwd, requests, tree, after, marks>>

(* F_SETFL keeps every flag of its argument but the access mode. *)
fcntl(h) ==
    /\ usable(h)
    /\ files' = [files EXCEPT ![h].acc = "none"]
    /\ UNCHANGED <<disk, writes, mounted, cwd, requests, tree, after, marks>>

ftruncate(h, length) ==
    LET b == files[h].block
    IN  /\ usable(h) /\ writing(files[h].acc)
        /\ through(h, node_set_len(fs, b, length), cut(tree, b, length))
        /\ UNCHANGED <<files, cwd>>

(***************************************************************************)
(* The FUSE server names a node by its block.                              *)
(***************************************************************************)
dirs == {Root} \cup nodes_of(fs, "dir")

fuse_create(type, perm, name, parent) ==
    /\ serving("fuse") /\ parent \in dirs
    /\ creates(create_node(fs, type, perm, name, parent), parent, name)
    /\ UNCHANGED <<files, cwd>>

fuse_remove(type, name, parent) ==
    /\ serving("fuse") /\ parent \in dirs
    /\ removes(remove_node(fs, type, name, parent))
    /\ UNCHANGED <<files, cwd>>

(* setattr reads and writes the node once for each attribute it is given;  *)
(* perm, uid and size are sets of at most one value.                       *)
fuse_setattr(b, perm, uid, size) ==
    LET set(f, given, field) ==
            IF \A v \in given : node(f, b)[field] = v THEN f
            ELSE write_at(f, b, [node(f, b) EXCEPT ![field] = CHOOSE v \in given : TRUE])
        f1 == set(set(fs, perm, "perm"), uid, "uid")
    IN  /\ serving("fuse") /\ b \in nodes_of(fs, "file")
        /\ IF size = {} THEN request(f1, tree)
           ELSE request(node_set_len(f1, b, Max(size)), cut(tree, b, Max(size)))
        /\ UNCHANGED <<files, cwd>>

fuse_write(b, offset, buf) ==
    /\ serving("fuse") /\ b \in nodes_of(fs, "file")
    /\ fills(write_node(fs, b, offset, buf), tree, b, offset, buf)
    /\ UNCHANGED <<files, cwd>>

(***************************************************************************)
(* The shell of the redoxfs utility works in a current directory.          *)
(***************************************************************************)
shell_make(type, name) ==
    /\ serving("shell")
    /\ creates(create_node(fs, type, NoPerm, name, cwd), cwd, name)
    /\ UNCHANGED <<files, cwd>>

shell_remove(type, name) ==
    /\ serving("shell")
    /\ removes(remove_node(fs, type, name, cwd))
    /\ UNCHANGED <<files, cwd>>

edits(c, name, buf) ==
    IF c.block = 0 THEN request(c.f, tree)
    ELSE fills(write_node(c.f, c.block, 0, buf), created(tree, c.block, cwd, name), c.block, 0, buf)

shell_ed(name, buf) ==
    /\ serving("shell")
    /\ edits(create_node(fs, "file", NoPerm, name, cwd), name, buf)
    /\ UNCHANGED <<files, cwd>>

shell_cd(name) ==
    LET b == IF name = ".." THEN node(fs, cwd).parent ELSE find_node(fs, name, cwd)
    IN  /\ serving("shell")
        /\ b # 0 /\ (name = ".." \/ node(fs, b).type = "dir")
        /\ cwd' = b
        /\ UNCHANGED <<disk, writes, mounted, files, requests, tree, after, marks>>

Init ==
    /\ disk = [b \in Blocks |-> NodeDefault]
    /\ tree = << >> /\ after = << >>
    /\ writes = <<>>
    /\ mounted = "no"
    /\ files = Closed
    /\ cwd = Root
    /\ requests = 0
    /\ marks = {}

Next ==
    \/ flush
    \/ crash
    \/ create
    \/ \E s \in Servers : mount(s)
    \/ \E u \in Users, path \in Paths, fl \in Flags :
        \/ open_file(u, path, fl)
        \/ open_dir(u, path, fl)
        \/ \E perm \in Perms : open_create(u, path, fl, perm)
    \/ \E u \in Users, path \in Paths :
        \/ unlink(u, path)
        \/ rmdir(u, path)
        \/ \E perm \in Perms : chmod(u, path, perm)
    \/ \E h \in 1 .. MaxOpen :
        \/ dup(h)
        \/ close(h)
        \/ fcntl(h)
        \/ \E n \in Lengths : read(h, n) \/ seek(h, n) \/ ftruncate(h, n)
        \/ \E buf \in Buffers : write(h, buf)
    \/ \E name \in Names, type \in {"file", "dir"} :
        \/ \E parent \in Blocks :
            \/ \E perm \in Perms : fuse_create(type, perm, name, parent)
            \/ fuse_remove(type, name, parent)
        \/ shell_make(type, name)
        \/ shell_remove(type, name)
    \/ \E b \in Blocks :
        \/ \E perm \in {{}} \cup {{p} : p \in Perms}, uid \in {{}} \cup {{u} : u \in Users},
              size \in {{}} \cup {{n} : n \in Lengths} : fuse_setattr(b, perm, uid, size)
        \/ \E offset \in Lengths, buf \in Buffers : fuse_write(b, offset, buf)
    \/ \E name \in Names, buf \in Buffers : shell_ed(name, buf)
    \/ \E name \in Names \cup {".."} : shell_cd(name)

Spec == Init /\ [][Next]_vars

TypeOK ==
    /\ DOMAIN disk = Blocks
    /\ mounted \in Servers \cup {"no"}
    /\ cwd \in Blocks
    /\ DOMAIN tree \subseteq Blocks /\ DOMAIN after \subseteq Blocks
    /\ marks \subseteq Gaps \cup {"overflow", "lost", "reordered", "stray"}

(***************************************************************************)
(* Properties.  They are of the disk itself, at every moment: each state   *)
(* is one the machine may stop in.                                         *)
(***************************************************************************)
formatted == disk[0] = Header

RECURSIVE chain(_, _)
chain(f, b) == IF b = 0 THEN <<>> ELSE <<b>> \o chain(f, node(f, b).next)

(* Every block the structures on the disk refer to, with repetitions.      *)
referred ==
    LET own(b) == Tail(chain(fs, b)) \o numbers(node_blocks(fs, b))
        found  == SetToSeq(entries(fs, Root))
    IN  <<0, Root, Free>> \o own(Root) \o own(Free)
        \o FlattenSeq([i \in DOMAIN found |-> own(found[i].block)])

(* No block has two uses: whenever the machine stops, each block of a      *)
(* formatted disk is free, a node, or data of one file, and never two of   *)
(* these (filesystem.rs allocate, insert_blocks, remove_blocks), with      *)
(* three exceptions.  Once the free node was full and insert_blocks has    *)
(* given it a further node ("overflow"), that node is free as well.  When  *)
(* a handle outlived its file and was written to while its block had       *)
(* become a directory, a further node or data ("stray"), and when a crash  *)
(* has left an old node in a chain ("lost"), anything may be shared.       *)
NoBlockTwice ==
    formatted /\ marks \cap {"overflow", "stray", "stale", "lost"} = {} =>
        IsInjective(referred) /\ Range(referred) \subseteq Blocks

(* A crash loses no other file: the entries that the running request does  *)
(* not create or remove are in their directories after each of its writes, *)
(* and nothing else is (create_node, remove_node).  Not so between two     *)
(* writes of remove_blocks when the entry removed lies inside an extent:   *)
(* its right neighbours leave the directory and come back ("split").  Not  *)
(* so between two writes of insert_blocks when the block of a further node *)
(* holds an old one, which a crash had kept remove_node from erasing: its  *)
(* extents are entries until it is reset ("stale").  A crash then, or an   *)
(* insertion that fails there, makes it permanent ("lost").  And not so    *)
(* after the exceptions of NoBlockTwice.                                   *)
EntriesSurvive ==
    formatted /\ marks \cap {"overflow", "stray", "split", "stale", "lost"} = {} =>
        LET found == entries(fs, Root)
        IN  /\ \A b \in DOMAIN tree \cap DOMAIN after :
                  /\ [block |-> b, dir |-> tree[b].dir] \in found
                  /\ disk[b].tag = "node" /\ disk[b].name = tree[b].name
            /\ \A x \in found : x.block \in DOMAIN tree \cup DOMAIN after

(* A file keeps its bytes: each byte written and not cut off is what       *)
(* read_node returns, whatever else was created, grown, truncated or       *)
(* removed since and wherever the machine stopped (write_node,             *)
(* node_ensure_len, node_set_len).  Written means written to its node, by  *)
(* a handle of a removed file too if that had the same block.  Not so once *)
(* insert_blocks has put new blocks in front of, or between, the blocks of *)
(* a file ("reordered"), and after the exceptions of EntriesSurvive.       *)
BytesKept ==
    formatted /\ marks \cap {"overflow", "stray", "split", "stale", "lost", "reordered"} = {} =>
        \A b \in DOMAIN tree \cap DOMAIN after :
            LET is == file_bytes(fs, b)
            IN  \A i \in 1 .. Min({Len(tree[b].bytes), Len(after[b].bytes)}) :
                    LET v == tree[b].bytes[i]
                    IN  v = after[b].bytes[i] /\ v # -1 => i <= Len(is) /\ is[i] = v

(* The data of files as a whole: no block has two uses, and the bytes of   *)
(* every file are those written.                                           *)
DataKept == NoBlockTwice /\ BytesKept
=============================================================================

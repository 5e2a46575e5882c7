----------------------------- MODULE MCStorage -----------------------------
(***************************************************************************)
(* The storage of the system: the file system on a disk, the block cache   *)
(* of the file: daemon, which is shown to be such a disk, or the pointers  *)
(* of the LRU cache in it, which are shown to be an ordered map.           *)
(***************************************************************************)
EXTENDS CachedDisk

CONSTANTS Size, BS, NE, Names, Users, Lengths, Servers, MaxOpen, MaxRequests

VARIABLES part,        \* the part that runs, "cache", "lru" or "fs"
          script,      \* commands of the shell still to run, see Scripts
          disk, writes, mounted, files, cwd, requests, tree, after, marks, \* of RedoxFS
          heap, map, head, free, max_size, it, ret     \* of LinkedHashMap

MCPaths == {<<"a">>, <<"b">>, <<"a", "b">>}
MCPerm == [u |-> {"r", "w", "x"}, g |-> {"r", "x"}, o |-> {"w", "x"}]
MCPerms == {MCPerm}
Flag(acc, creat, trunc, dir, excl, stat) ==
    [acc |-> acc, creat |-> creat, trunc |-> trunc, dir |-> dir, excl |-> excl, stat |-> stat]
MCFlags == {Flag("rw", TRUE, FALSE, FALSE, FALSE, FALSE), Flag("r", TRUE, FALSE, TRUE, FALSE, FALSE), Flag("w", FALSE, TRUE, FALSE, FALSE, FALSE)}

fsvars == <<disk, writes, mounted, files, cwd, requests, tree, after, marks>>

lruvars == <<heap, map, head, free, max_size, it, ret>>

L == INSTANCE LinkedHashMap WITH Key <- 1 .. 3, Value <- Value, Sizes <- 1 .. 3, Boxes <- 1 .. 4

F == INSTANCE RedoxFS WITH Paths <- MCPaths, Perms <- MCPerms, Flags <- MCFlags

(***************************************************************************)
(* Disks to start from: what some commands leave on a blank disk.  cut is  *)
(* a removal that a crash has kept from erasing the node; hold opens a     *)
(* file through the scheme.                                                *)
(***************************************************************************)
mk(n) == <<"mk", n, "file">>
rm(n) == <<"rm", n>>
ed(n, buf) == <<"ed", n, buf>>
cut(n) == <<"cut", n>>
hold(n) == <<"hold", n>>
mkfs == <<"mkfs">>

Scripts ==
    {<<>>, <<mkfs>>, <<mkfs, <<"mk", "a", "dir">> >>,
     \* three entries in a row
     <<mkfs, mk("b"), mk("a"), mk("c")>>,
     \* the free node is full, and none of its extents is next to a
     <<mkfs, mk("d"), mk("c"), mk("b"), mk("a"), mk("e"), rm("c")>>,
     \* the only free block is the one before the block of a
     <<mkfs, mk("a"), mk("c"), ed("a", <<1>>), mk("d"), mk("e"), mk("f"), mk("g"), rm("c")>>,
     \* the extents of a are used up
     <<mkfs, mk("a"), ed("a", <<1, 1>>), mk("b"), ed("a", <<1, 1, 2, 2>>), mk("c")>>,
     \* the root is full, and the second free block holds the node of e
     <<mkfs, mk("a"), mk("d"), mk("c"), ed("a", <<1>>), mk("f"), mk("e"), ed("e", <<1, 1>>),
       cut("e"), rm("f"), rm("d")>>,
     \* a handle whose file is removed, and one whose block is now a file or a directory
     <<mkfs, mk("a"), hold("a"), rm("a")>>,
     <<mkfs, mk("a"), hold("a"), rm("a"), mk("b")>>,
     <<mkfs, mk("a"), hold("a"), rm("a"), <<"mk", "b", "dir">> >>}

prepare ==
    LET c    == Head(script)
        b    == F!find_node(F!fs, c[2], F!Root)
        make == F!create_node(F!fs, c[3], MCPerm, c[2], F!Root)
        gone == F!remove_node(F!fs, "file", c[2], F!Root).f
        done(f, t) == disk' = f.d /\ tree' = t /\ after' = t /\ UNCHANGED <<mounted, files>>
    IN  /\ CASE c[1] = "mkfs" -> done(F!format(F!fs), tree)
             [] c[1] = "mk" -> done(make.f, F!created(tree, make.block, F!Root, c[2]))
             [] c[1] = "rm" -> done(gone, F!without(tree, b))
             [] c[1] = "cut" -> done([gone EXCEPT !.d[b] = disk[b]], F!without(tree, b))
             [] c[1] = "hold" -> /\ mounted' = "scheme" /\ F!opened("file", b, "rw")
                                 /\ UNCHANGED <<disk, tree, after>>
             [] c[1] = "ed" -> done(F!write_node(F!fs, b, 0, c[3]).f, F!written(tree, b, 0, c[3]))
        /\ script' = Tail(script)
        /\ UNCHANGED <<writes, cwd, requests, marks>>

StorageInit ==
    /\ F!Init /\ Init /\ L!Init
    /\ \/ part = "cache" /\ script = <<>> /\ max_size = 1
       \/ /\ part = "lru" /\ script = <<>>
          /\ inner = [b \in Block |-> CHOOSE v \in Value : TRUE]
       \/ /\ part = "fs" /\ script \in Scripts
          /\ inner = [b \in Block |-> CHOOSE v \in Value : TRUE]
          /\ max_size = 1

StorageNext ==
    \/ part = "cache" /\ Next /\ UNCHANGED <<part, script, fsvars, lruvars>>
    \/ part = "lru" /\ L!Next /\ UNCHANGED <<part, script, vars, fsvars>>
    \/ part = "fs" /\ script # <<>> /\ prepare /\ UNCHANGED <<part, vars, lruvars>>
    \/ part = "fs" /\ script = <<>> /\ F!Next /\ UNCHANGED <<part, script, vars, lruvars>>

StorageSpec == StorageInit /\ [][StorageNext]_<<part, script, vars, fsvars, lruvars>>

(* An entry of a directory that no request removes is still found, after a *)
(* crash at any write too (filesystem.rs; see RedoxFS).                    *)
EntriesSurvive == F!EntriesSurvive

(* No block has two uses, and files hold the bytes written to them         *)
(* (filesystem.rs; see RedoxFS).                                           *)
DataKept == F!DataKept

O == INSTANCE OrderedMap WITH
        Key <- 1 .. 3, Sizes <- 1 .. 3,
        list <- IF head = 0 THEN <<>> ELSE L!span(heap[head].prev, head),
        rest <- IF it.head = 0 THEN <<>> ELSE L!span(it.head, it.tail)

(* The pointers behave as the list they stand for, in every order of       *)
(* insert, get_mut, remove, pop, clear, set_capacity and of iterators used *)
(* from both ends: nothing is lost, repeated or out of order, and the      *)
(* least recently used entry is the one that goes.  Each box is in the     *)
(* list, in the free list or released, once (LinkedHashMap).               *)
LruExact == O!Spec /\ []L!BoxesOwned
=============================================================================

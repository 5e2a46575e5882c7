-------------------------------- MODULE Tar --------------------------------
(***************************************************************************)
(* programs/tar: `tar c` writes the files of a tree as an archive, another *)
(* tool may have written one with extensions, the archive may be cut short *)
(* on its way, and `tar t`, `tar x`, Archive::unpack or a program that     *)
(* reads only part of every member goes through it.                        *)
(*                                                                         *)
(* An archive is a sequence of blocks, of which the first `len` bytes      *)
(* exist.  A header block is the record of its fields, a data block its    *)
(* bytes.  Every header lies at a multiple of Block: `next` only grows by  *)
(* whole blocks.  A path is a sequence of components.                      *)
(***************************************************************************)
EXTENDS Integers, Sequences, SequencesExt

CONSTANTS
    Block,       \* 512
    NameLen,     \* 100, the bytes of the header's name field
    PrefixLen,   \* 155, the bytes of a ustar header's prefix field
    SizeLimit,   \* 8^11, what the eleven digits of a size field can hold
    Slots,       \* 4, the sparse blocks a header describes
    NameBytes,   \* the length of every path component
    Scenarios    \* what is written, by whom, and who reads it

VARIABLES
    sc,      \* the scenario
    walk,    \* create_inner: the directory entries left, innermost first
    arch,    \* the archive: a sequence of blocks
    made,    \* the members the archive was made of
    rd,      \* the Archive and its Entries: pos, next, what precedes a member
    ent,     \* the Entry at hand: its header, names and `data`
    given,   \* what the reader has taken from the members so far
    status   \* write, read, entry, then ok, err or panic

vars == <<sc, walk, arch, made, rd, ent, given, status>>

-----------------------------------------------------------------------------
(* Paths and bytes.                                                        *)

path_len(p) == FoldLeft(LAMBDA n, c : n + NameBytes[c], 0, p) + (IF p = <<>> THEN 0 ELSE Len(p) - 1)
cell(of, i) == [of |-> of, at |-> i]
Zero == cell(<<>>, 0)
contents(p, n) == [i \in 1..n |-> cell(p, i)]
path2bytes(p) == [i \in 1..path_len(p) |-> cell(<<"name">> \o p, i)]
Garbled == <<"?">>

Paths == UNION {UNION {{m.path, m.link} : m \in ToSet(s.members)} : s \in Scenarios}
bytes2path(b) == IF \E p \in Paths : path2bytes(p) = b THEN CHOOSE p \in Paths : path2bytes(p) = b ELSE Garbled

\* The name a long-name member holds: a final NUL is not part of it.
unpadded(b) == bytes2path(IF b # <<>> /\ Last(b) = Zero THEN Front(b) ELSE b)

\* A number written to a header and read back: octal_into drops the digits
\* that do not fit the field.
octal(n) == n % SizeLimit

-----------------------------------------------------------------------------
(* Headers.                                                                *)

NoHeader == [fmt |-> "none", type |-> "none", name |-> <<>>, prefix |-> <<>>, size |-> 0,
             link |-> <<>>, sparse |-> <<>>, isextended |-> FALSE, realsize |-> 0]
Header(fmt, type, size) == [NoHeader EXCEPT !.fmt = fmt, !.type = type, !.size = octal(size)]

\* Whether copy_path_into takes path p in a field of n bytes: it must have a
\* component, be relative and not go up, and fit.
refused(p, n) == \E i \in DOMAIN p : p[i] \in {"/", ".."} /\ path_len(SubSeq(p, 1, i)) <= n
fits(p, n) == p # <<>> /\ path_len(p) <= n /\ ~refused(p, n)

\* UstarHeader::_set_path: the longest parent that fits the prefix field.
prefix_of(p) ==
    LET parents == {i \in 0..(Len(p) - 1) : path_len(SubSeq(p, 1, i)) <= PrefixLen}
    IN  SubSeq(p, 1, CHOOSE i \in parents : \A j \in parents : j <= i)
set_path_ustar(h, p) ==
    IF path_len(p) <= NameLen
    THEN [ok |-> fits(p, NameLen), h |-> [h EXCEPT !.name = p]]
    ELSE LET prefix == prefix_of(p)
             name   == SubSeq(p, Len(prefix) + 1, Len(p))
         IN  [ok |-> fits(prefix, PrefixLen) /\ fits(name, NameLen),
              h  |-> [h EXCEPT !.prefix = prefix, !.name = name]]
set_path(h, p) ==
    IF h.fmt = "ustar" THEN set_path_ustar(h, p)
    ELSE [ok |-> fits(p, NameLen), h |-> [h EXCEPT !.name = p]]

header_path(h) == IF h.fmt = "ustar" THEN h.prefix \o h.name ELSE h.name

-----------------------------------------------------------------------------
(* Builder.                                                                *)

header_block(h) == [hdr |-> h, bytes |-> [i \in 1..Block |-> cell(<<"header">>, i)]]
data_block(b) == [hdr |-> NoHeader, bytes |-> [i \in 1..Block |-> IF i <= Len(b) THEN b[i] ELSE Zero]]
data_blocks(b) ==
    [k \in 1..((Len(b) + Block - 1) \div Block) |->
        data_block(SubSeq(b, (k - 1) * Block + 1, IF k * Block < Len(b) THEN k * Block ELSE Len(b)))]

append(h, b) == <<header_block(h)>> \o data_blocks(b)

\* The member that holds a path too long for the header.  Its size counts a
\* final NUL, which is not in the data: it is the first byte of the padding.
longname(p) == append(Header("gnu", "L", path_len(p) + 1), path2bytes(p))

\* append_fs of the regular file m: the blocks, or none when the path is
\* refused before anything is written.
append_fs(m) ==
    LET h    == Header("gnu", "file", Len(m.data))
        take == set_path(h, m.path)
    IN  CASE take.ok -> [ok |-> TRUE, blocks |-> append(take.h, m.data)]
          [] ~take.ok /\ path_len(m.path) < NameLen -> [ok |-> FALSE, blocks |-> <<>>]
          [] OTHER -> \* the header mentions the first NameLen bytes of the path
                [ok     |-> ~refused(m.path, NameLen),
                 blocks |-> longname(m.path)
                            \o IF refused(m.path, NameLen) THEN <<>>
                               ELSE append([h EXCEPT !.name = Garbled], m.data)]

finish == <<data_block(<<>>), data_block(<<>>)>>

\* What other tools write for the members `tar c` does not make: a ustar
\* header, a GNU long link, pax records, and sparse files whose data blocks
\* begin at multiples of Block and whose map goes on in further headers.
real_size(m) == Last(m.sparse).offset + Last(m.sparse).numbytes
sparse_data(m) ==
    FlattenSeq([k \in DOMAIN m.sparse |->
        SubSeq(m.data, m.sparse[k].offset + 1, m.sparse[k].offset + m.sparse[k].numbytes)])
slots(m, from) == SubSeq(m.sparse, from, IF from + Slots - 1 < Len(m.sparse) THEN from + Slots - 1 ELSE Len(m.sparse))
foreign(m) ==
    CASE m.type = "sparse" ->
            <<header_block([Header("gnu", "sparse", Len(sparse_data(m)))
                 EXCEPT !.name = m.path, !.sparse = slots(m, 1), !.isextended = Len(m.sparse) > Slots,
                        !.realsize = real_size(m)])>>
            \o [k \in 1..((Len(m.sparse) - 1) \div Slots) |->
                 header_block([NoHeader EXCEPT !.fmt = "ext", !.sparse = slots(m, k * Slots + 1),
                                               !.isextended = Len(m.sparse) > (k + 1) * Slots])]
            \o data_blocks(sparse_data(m))
      [] m.type = "symlink" ->
            append(Header("gnu", "K", path_len(m.link) + 1), Append(path2bytes(m.link), Zero))
            \o append([Header("gnu", "symlink", 0) EXCEPT !.name = m.path], <<>>)
      [] m.type = "pax" ->
            append([Header("ustar", "x", 1) EXCEPT !.name = Garbled], <<cell(<<"pax">>, 1)>>)
            \o append(set_path_ustar(Header("ustar", "file", Len(m.data)), m.path).h, m.data)
      [] OTHER -> append(set_path_ustar(Header("ustar", m.type, Len(m.data)), m.path).h, m.data)

-----------------------------------------------------------------------------
(* tar c.                                                                  *)

children(dir) == {SubSeq(m.path, 1, Len(dir) + 1) :
                    m \in {x \in ToSet(sc.members) : IsStrictPrefix(dir, x.path)}}
file_at(p) == CHOOSE m \in ToSet(sc.members) : m.path = p
is_dir(p) == \A m \in ToSet(sc.members) : m.path # p

NoReader == [pos |-> 0, next |-> 0, longname |-> <<>>, longlink |-> <<>>, pax |-> <<>>, len |-> 0]
NoEntry == [hdr |-> NoHeader, path |-> <<>>, link |-> <<>>, pax |-> <<>>, data |-> <<>>]

Init ==
    /\ sc \in Scenarios
    /\ walk = IF sc.writer = "tar" THEN <<{sc.root}>> ELSE <<>>
    /\ arch = <<>> /\ made = <<>> /\ given = <<>>
    /\ rd = NoReader /\ ent = NoEntry
    /\ status = "write"

\* create_inner: the entries of a directory come in any order, and only the
\* files are appended.  An error ends the walk; the builder, dropped, finishes
\* the archive all the same.
create_inner ==
    /\ status = "write" /\ sc.writer = "tar" /\ walk # <<>>
    /\ IF Head(walk) = {} THEN walk' = Tail(walk) /\ UNCHANGED <<arch, made>>
       ELSE \E p \in Head(walk) :
              LET rest == <<Head(walk) \ {p}>> \o Tail(walk)
              IN  IF is_dir(p) THEN walk' = <<children(p)>> \o rest /\ UNCHANGED <<arch, made>>
                  ELSE LET put == append_fs(file_at(p))
                       IN  /\ arch' = arch \o put.blocks
                           /\ made' = IF put.ok THEN Append(made, file_at(p)) ELSE made
                           /\ walk' = IF put.ok THEN rest ELSE <<>>
    /\ UNCHANGED <<sc, rd, ent, given, status>>

\* Another tool writes the members in the order given.
foreign_write ==
    /\ status = "write" /\ sc.writer # "tar" /\ arch = <<>>
    /\ arch' = FlattenSeq([i \in DOMAIN sc.members |-> foreign(sc.members[i])])
    /\ made' = sc.members
    /\ UNCHANGED <<sc, walk, rd, ent, given, status>>

\* The archive ends with two blocks of zeros; its reader may get less of it.
finished ==
    /\ status = "write" /\ walk = <<>> /\ (sc.writer = "tar" \/ arch # <<>>)
    /\ arch' = arch \o finish
    /\ \E n \in (IF sc.cut THEN 0..((Len(arch) + 2) * Block) ELSE {(Len(arch) + 2) * Block}) :
          rd' = [NoReader EXCEPT !.len = n]
    /\ status' = "read"
    /\ UNCHANGED <<sc, walk, made, ent, given>>

-----------------------------------------------------------------------------
(* Archive and Entries.                                                    *)

at_block(i) == arch[i \div Block + 1]
byte_at(i) == at_block(i).bytes[(i % Block) + 1]
left(r) == r.len - r.pos
min(a, b) == IF a < b THEN a ELSE b
\* Read for ArchiveInner, up to n bytes.
bytes_read(r, n) == [i \in 1..min(n, left(r)) |-> byte_at(r.pos + i - 1)]
advance(r, n) == [r EXCEPT !.pos = @ + min(n, left(r))]

fail(r) == [ok |-> FALSE, hdr |-> NoHeader, end |-> FALSE, r |-> r]
all_zero(r) == at_block(r.pos).hdr = NoHeader /\ \A i \in 1..Block : at_block(r.pos).bytes[i] = Zero
round_down(n) == (n \div Block) * Block
round_up(n) == ((n + Block - 1) \div Block) * Block

\* next_entry_raw: skip what is left of the last member, then read a header.
\* A block that is no header fails the checksum.
next_entry_raw(r0) ==
    LET r == [r0 EXCEPT !.pos = @ + min(r0.next - r0.pos, left(r0))]
        q == [advance(r, Block) EXCEPT !.next = @ + Block]
        h == at_block(r.pos).hdr
    IN  CASE r.pos < r.next \/ left(r) < Block -> fail(r)
          [] all_zero(r) ->
                IF left(q) < Block \/ ~all_zero(q) THEN fail(q)
                ELSE [ok |-> TRUE, hdr |-> NoHeader, end |-> TRUE,
                      r |-> [advance(q, Block) EXCEPT !.next = @ + Block]]
          [] OTHER ->
                IF h.fmt \in {"none", "ext"} THEN fail(q)
                ELSE [ok |-> TRUE, hdr |-> h, end |-> FALSE, r |-> [q EXCEPT !.next = @ + round_up(h.size)]]

\* parse_sparse_header: the blocks of zeros and of data that make the file.
add_block(s, b, size) ==
    IF (size - s.remaining) % Block # 0 \/ b.offset < s.cur \/ s.remaining < b.numbytes THEN [s EXCEPT !.ok = FALSE]
    ELSE [s EXCEPT !.cur = b.offset + b.numbytes, !.remaining = @ - b.numbytes,
                   !.data = @ \o (IF s.cur < b.offset THEN <<[pad |-> TRUE, limit |-> b.offset - s.cur]>> ELSE <<>>)
                              \o <<[pad |-> FALSE, limit |-> b.numbytes]>>]
add_blocks(s0, bs, size) ==
    LET f[i \in 0..Len(bs)] == IF i = 0 THEN s0 ELSE IF f[i - 1].ok THEN add_block(f[i - 1], bs[i], size) ELSE f[i - 1]
    IN  f[Len(bs)]
parse_sparse_header(h, r0) ==
    LET s0 == add_blocks([ok |-> TRUE, cur |-> 0, remaining |-> h.size, data |-> <<>>], h.sparse, h.size)
        more[i \in 0..Len(arch)] == \* after i further headers
            IF i = 0 THEN [s |-> s0, r |-> r0, ext |-> h.isextended]
            ELSE LET m == more[i - 1]
                 IN  CASE ~m.s.ok \/ ~m.ext -> m
                       [] left(m.r) < Block -> [m EXCEPT !.s.ok = FALSE]
                       [] OTHER -> LET e == at_block(m.r.pos).hdr
                                   IN  [s |-> add_blocks(m.s, e.sparse, h.size), ext |-> e.isextended,
                                        r |-> [advance(m.r, Block) EXCEPT !.next = @ + Block]]
        m == more[Len(arch)]
    IN  [ok |-> m.s.ok /\ m.s.cur = h.realsize /\ m.s.remaining = 0, data |-> m.s.data, r |-> m.r]

stop(how) == status' = how /\ ent' = NoEntry

\* next_entry, one header at a time: members that describe the next one are
\* read whole and kept until it comes.
pending(r) == r.longname # <<>> \/ r.longlink # <<>> \/ r.pax # <<>>
next_entry ==
    /\ status = "read"
    /\ LET raw == next_entry_raw(rd)
           h == raw.hdr
           r == raw.r
           held == bytes_read(r, h.size)
           after == advance(r, h.size)
           entry(data) == [hdr |-> h, link |-> IF r.longlink # <<>> THEN unpadded(r.longlink) ELSE h.link,
                           path |-> IF r.longname # <<>> THEN unpadded(r.longname) ELSE header_path(h),
                           pax |-> r.pax, data |-> data]
           fresh(x) == [x EXCEPT !.longname = <<>>, !.longlink = <<>>, !.pax = <<>>]
       IN  CASE ~raw.ok -> stop("err") /\ rd' = r
             [] raw.ok /\ raw.end -> stop(IF pending(r) THEN "err" ELSE "ok") /\ rd' = r
             [] raw.ok /\ h.fmt = "gnu" /\ h.type = "L" ->
                  IF r.longname # <<>> THEN stop("err") /\ rd' = r
                  ELSE rd' = [after EXCEPT !.longname = held] /\ UNCHANGED <<ent, status>>
             [] raw.ok /\ h.fmt = "gnu" /\ h.type = "K" ->
                  IF r.longlink # <<>> THEN stop("err") /\ rd' = r
                  ELSE rd' = [after EXCEPT !.longlink = held] /\ UNCHANGED <<ent, status>>
             [] raw.ok /\ h.fmt = "ustar" /\ h.type = "x" ->
                  IF r.pax # <<>> THEN stop("err") /\ rd' = r
                  ELSE rd' = [after EXCEPT !.pax = held] /\ UNCHANGED <<ent, status>>
             [] raw.ok /\ h.type = "sparse" ->
                  LET s == parse_sparse_header(h, r)
                  IN  IF ~s.ok THEN stop("err") /\ rd' = s.r
                      ELSE ent' = entry(s.data) /\ rd' = fresh(s.r) /\ status' = "entry"
             [] OTHER -> /\ ent' = entry(<<[pad |-> FALSE, limit |-> h.size]>>)
                         /\ rd' = fresh(r) /\ status' = "entry"
    /\ UNCHANGED <<sc, walk, arch, made, given>>

-----------------------------------------------------------------------------
(* Entry, and the programs that read it.                                   *)

\* What reading up to n bytes of the entry gives, through the blocks of its
\* `data`; a data block that meets the end of the archive is simply short.
read_entry(e, r0, n) ==
    LET f[i \in 0..Len(e.data)] ==
            IF i = 0 THEN [got |-> <<>>, r |-> r0]
            ELSE LET p == f[i - 1]
                     k == min(e.data[i].limit, n - Len(p.got))
                 IN  IF e.data[i].pad THEN [p EXCEPT !.got = @ \o [j \in 1..k |-> Zero]]
                     ELSE [got |-> p.got \o bytes_read(p.r, k), r |-> advance(p.r, k)]
    IN  f[Len(e.data)]

entry_size(e) == FoldLeft(LAMBDA n, d : n + d.limit, 0, e.data)
taken(e, b) == [path |-> e.path, type |-> e.hdr.type, link |-> e.link, pax |-> e.pax, data |-> b]

\* A program that reads the first n bytes of a member and goes on: `tar t`
\* reads none.
partly(n) ==
    /\ status = "entry"
    /\ LET got == read_entry(ent, rd, min(n, entry_size(ent)))
       IN  rd' = got.r /\ given' = Append(given, taken(ent, got.got))
    /\ status' = "read" /\ ent' = NoEntry
    /\ UNCHANGED <<sc, walk, arch, made>>

\* extract_inner.  What io::copy gets is not compared with the member's size.
extract_inner ==
    /\ status = "entry" /\ sc.reader = "extract"
    /\ IF ent.hdr.type \notin {"file", "dir"} THEN stop("panic") /\ UNCHANGED <<rd, given>>
       ELSE LET got == read_entry(ent, rd, IF ent.hdr.type = "file" THEN entry_size(ent) ELSE 0)
            IN  /\ rd' = got.r /\ given' = Append(given, taken(ent, got.got))
                /\ status' = "read" /\ ent' = NoEntry
    /\ UNCHANGED <<sc, walk, arch, made>>

\* Archive::_unpack of one entry: the components that name nothing are left
\* out, and Entry::unpack writes data blocks and seeks over blocks of zeros.
unpack ==
    /\ status = "entry" /\ sc.reader = "unpack"
    /\ LET path == SelectSeq(ent.path, LAMBDA c : c \notin {"/", "."})
           got == read_entry(ent, rd, entry_size(ent))
       IN  CASE path = <<>> \/ ".." \in ToSet(path) -> status' = "read" /\ ent' = NoEntry /\ UNCHANGED <<rd, given>>
             [] ent.hdr.type \in {"link", "symlink"} -> stop("panic") /\ UNCHANGED <<rd, given>>
             [] ent.hdr.type = "dir" ->
                  status' = "read" /\ ent' = NoEntry /\ given' = Append(given, taken(ent, <<>>)) /\ UNCHANGED rd
             [] OTHER -> /\ rd' = got.r
                         /\ IF Len(got.got) < entry_size(ent) THEN stop("err") /\ UNCHANGED given
                            ELSE given' = Append(given, taken(ent, got.got)) /\ status' = "read" /\ ent' = NoEntry
    /\ UNCHANGED <<sc, walk, arch, made>>

list == sc.reader = "list" /\ partly(0)
peek == sc.reader = "peek" /\ \E n \in {1, Block, 2 * Block} : partly(n)

Next == create_inner \/ foreign_write \/ finished \/ next_entry \/ list \/ peek \/ extract_inner \/ unpack

Spec == Init /\ [][Next]_vars

-----------------------------------------------------------------------------
(* Properties.                                                             *)

whole == sc.reader \in {"extract", "unpack"}
missing == rd.len < Len(arch) * Block
agrees(g, m) ==
    /\ g.path = m.path /\ g.link = m.link
    /\ g.pax = IF m.type = "pax" THEN <<cell(<<"pax">>, 1)>> ELSE <<>>

\* The long name `tar c` wrote for the member fills its blocks: there is no
\* padding to hold the NUL that its size counts, and the reader takes the
\* header of the member itself for it.
overruns(m) == sc.writer = "tar" /\ path_len(m.path) > NameLen /\ path_len(m.path) % Block = 0

\* Whoever wrote the archive and however much of each member is read, the
\* members come out in order with their own path, link target, pax records
\* and bytes, long names and sparse files included (but for the bytes of the
\* member at which an archive is cut short); and a reader that ends
\* without an error has got all of them, whole, so that an archive cut short
\* anywhere is always noticed, and nothing else is taken for an error, unless
\* `tar c` itself failed and left a long name without a member
\* (header.rs, builder.rs, archive.rs, entry.rs).  The one exception is a long
\* path whose length is a multiple of the block: the members before it are
\* still exact, but reading on is an error or loses a member.
TarExact ==
    LET bad == {i \in DOMAIN made : overruns(made[i])}
    IN  /\ Len(given) <= Len(made)
        /\ \A i \in DOMAIN given : (\A j \in bad : i < j) =>
              /\ agrees(given[i], made[i])
              /\ (missing /\ i = Len(given)) \/ IsPrefix(given[i].data, made[i].data)
        /\ status = "err" => missing \/ bad # {} \/ Len(made) < Len(sc.members)
        /\ status = "ok" => IF bad # {} THEN Len(given) < Len(made)
                            ELSE /\ Len(given) = Len(made)
                                 /\ whole => \A i \in DOMAIN given : given[i].data = made[i].data
=============================================================================

----------------------------- MODULE KernelFiles -----------------------------
(***************************************************************************)
(* The files the kernel itself serves: env:, the environment of the        *)
(* caller; initfs:, the files it was built with; sys:, what it knows of    *)
(* the system; and disk: when it carries its disk with it.  The data of a  *)
(* file is a cell, which several handles may share.  A call runs without   *)
(* an interruption, so contexts interleave from call to call.              *)
(***************************************************************************)
EXTENDS Integers, Sequences, FiniteSets, SequencesExt

CONSTANTS
    MaxContexts, \* contexts there may be
    Names,       \* names of variables
    InitFiles,   \* the files of initfs: a function to data
    Disk,        \* FILESYSTEM
    Buffers,     \* what is written
    Jumps,       \* where seek goes: pairs whence, pos
    Lengths,     \* lengths given to ftruncate
    MaxHandles,
    MaxCalls     \* calls made

VARIABLES
    env_of,    \* of a context, its environment, which others may share
    envs,      \* the variables of an environment: a function to cells
    cells,     \* what a cell holds
    handles,   \* the handles of the schemes
    next_id,
    file,      \* what a cell should hold, from what was done to it where
    got,       \* what the last read gave, and should have given
    calls

vars == <<env_of, envs, cells, handles, next_id, file, got, calls>>

least(a, b) == IF a < b THEN a ELSE b
most(a, b) == IF a > b THEN a ELSE b
with(f, x, v) == [y \in DOMAIN f \cup {x} |-> IF y = x THEN v ELSE f[y]]
Handle(scheme, path, cell, seek) == [scheme |-> scheme, path |-> path, cell |-> cell, seek |-> seek]
call == calls < MaxCalls /\ calls' = calls + 1
fresh == Len(cells) + 1
InitNames == SetToSeq(DOMAIN InitFiles)
cell_of(path) == 1 + CHOOSE i \in DOMAIN InitNames : InitNames[i] = path

\* The disk and the files of initfs are there from the start.
Init ==
    /\ env_of = <<1>> /\ envs = << [n \in {} |-> 0] >>
    /\ cells = <<Disk>> \o [i \in DOMAIN InitNames |-> InitFiles[InitNames[i]]]
    /\ handles = [i \in {} |-> Handle("", "", 0, 0)] /\ next_id = 0
    /\ file = cells /\ got = << <<>>, <<>> >> /\ calls = 0

-----------------------------------------------------------------------------
(* open and dup.                                                           *)

\* A handle on a cell, which is a new one with the data if it is not there.
opens(h, data) ==
    /\ Cardinality(DOMAIN handles) < MaxHandles
    /\ handles' = with(handles, next_id, h) /\ next_id' = next_id + 1
    /\ IF h.cell = fresh THEN cells' = Append(cells, data) /\ file' = Append(file, data) ELSE UNCHANGED <<cells, file>>
    /\ UNCHANGED <<env_of, got>>

\* The variables as lines, each its name and what it holds.
listing(e) ==
    LET names == SetToSeq(DOMAIN envs[e])
    IN  FlattenSeq([i \in DOMAIN names |-> <<names[i]>> \o cells[envs[e][names[i]]]])
\* A variable that is not there is created, whatever the flags.
env_open(c, path) ==
    LET e == env_of[c]
    IN  CASE path = "" -> opens(Handle("env", "", fresh, 0), listing(e)) /\ UNCHANGED envs
          [] path \in DOMAIN envs[e] -> opens(Handle("env", path, envs[e][path], 0), <<>>) /\ UNCHANGED envs
          [] OTHER -> /\ opens(Handle("env", path, fresh, 0), <<>>)
                      /\ envs' = [envs EXCEPT ![e] = with(@, path, fresh)]
initfs_open(path) == opens(Handle("initfs", path, cell_of(path), 0), <<>>) /\ UNCHANGED envs
\* A heading, and a line for each context.
resource == <<"heading">> \o [c \in DOMAIN env_of |-> "context"]
\* sys: computes what a file says when it is opened.
sys_open(path) ==
    /\ opens(Handle("sys", path, fresh, 0), IF path = "" THEN <<"context">> ELSE resource)
    /\ UNCHANGED envs
disk_open == opens(Handle("disk", "0", 1, 0), <<>>) /\ UNCHANGED envs
open ==
    /\ call
    /\ \/ \E c \in DOMAIN env_of, p \in Names \cup {""} : env_open(c, p)
       \/ \E p \in DOMAIN InitFiles : initfs_open(p)
       \/ \E p \in {"", "context"} : sys_open(p)
       \/ disk_open

\* A second handle, at the same place: sys: copies the data, the others share it.
dup_of(h) == IF h.scheme = "sys" THEN [h EXCEPT !.cell = fresh] ELSE h
dup == call /\ (\E i \in DOMAIN handles : opens(dup_of(handles[i]), cells[handles[i].cell])) /\ UNCHANGED envs

-----------------------------------------------------------------------------
(* read, write, seek, ftruncate and close.                                 *)

\* What a handle at pos finds, and where it is then.
taken(d, pos, n) == IF pos < Len(d) THEN SubSeq(d, pos + 1, least(pos + n, Len(d))) ELSE <<>>
read ==
    /\ call
    /\ \E i \in DOMAIN handles, n \in 1..2 :
          LET h == handles[i]
              gives == taken(cells[h.cell], h.seek, n)
          IN  /\ handles' = [handles EXCEPT ![i].seek = @ + Len(gives)]
              /\ got' = <<gives, SelectSeq([k \in 1..n |-> IF h.seek + k \in DOMAIN file[h.cell] THEN file[h.cell][h.seek + k] ELSE "none"],
                                           LAMBDA b : b # "none")>>
    /\ UNCHANGED <<env_of, envs, cells, next_id, file>>

\* Bytes replace those that are there; env: appends the others, the disk
\* takes no more.  The handle moves past what it wrote.
fits(d, pos, buf) == IF pos < Len(d) THEN least(Len(buf), Len(d) - pos) ELSE 0
overlaid(d, pos, buf) == [k \in 1..Len(d) |-> IF k \in (pos + 1)..(pos + Len(buf)) THEN buf[k - pos] ELSE d[k]]
env_write(d, pos, buf) == overlaid(d, pos, buf) \o SubSeq(buf, fits(d, pos, buf) + 1, Len(buf))
disk_write(d, pos, buf) == overlaid(d, pos, buf)
\* What the file should hold: the bytes stand at the place of the handle, or
\* at the end if another handle made the file shorter than that.
put(f, pos, buf, grows) ==
    LET at == least(pos, Len(f))
        all == SubSeq(f, 1, at) \o buf \o SubSeq(f, at + Len(buf) + 1, Len(f))
    IN  IF grows THEN all ELSE SubSeq(all, 1, Len(f))
write ==
    /\ call
    /\ \E i \in DOMAIN handles, buf \in Buffers :
          LET h == handles[i]
              d == cells[h.cell]
              env == h.scheme = "env"
          IN  /\ h.scheme \in {"env", "disk"}
              /\ cells' = [cells EXCEPT ![h.cell] = IF env THEN env_write(d, h.seek, buf) ELSE disk_write(d, h.seek, buf)]
              /\ handles' = [handles EXCEPT ![i].seek = @ + (IF env THEN Len(buf) ELSE fits(d, h.seek, buf))]
              /\ file' = [file EXCEPT ![h.cell] = put(@, h.seek, buf, env)]
    /\ UNCHANGED <<env_of, envs, next_id, got>>

seek_to(len, at, whence, pos) ==
    CASE whence = "SET" -> least(len, pos)
      [] whence = "CUR" -> most(0, least(len, at + pos))
      [] whence = "END" -> most(0, least(len, len + pos))
seek ==
    /\ call
    /\ \E i \in DOMAIN handles, j \in Jumps :
          handles' = [handles EXCEPT ![i].seek = seek_to(Len(cells[handles[i].cell]), @, j[1], j[2])]
    /\ UNCHANGED <<env_of, envs, cells, next_id, file, got>>

resized(d, len) == [k \in 1..len |-> IF k \in DOMAIN d THEN d[k] ELSE "0"]
ftruncate ==
    /\ call
    /\ \E i \in DOMAIN handles, len \in Lengths :
          /\ handles[i].scheme = "env"
          /\ cells' = [cells EXCEPT ![handles[i].cell] = resized(@, len)]
          /\ file' = [file EXCEPT ![handles[i].cell] = resized(@, len)]
    /\ UNCHANGED <<env_of, envs, handles, next_id, got>>

close ==
    /\ call
    /\ \E i \in DOMAIN handles : handles' = [j \in DOMAIN handles \ {i} |-> handles[j]]
    /\ UNCHANGED <<env_of, envs, cells, next_id, file, got>>

-----------------------------------------------------------------------------
(* clone, as far as these files see it: with CLONE_VM the new context has  *)
(* the environment of the old one, otherwise a copy of every variable;     *)
(* without CLONE_FILES it has a second handle for each.                    *)

copied_shallow(e) == [names |-> envs[e], data |-> <<>>]
copied(e) ==
    LET names == SetToSeq(DOMAIN envs[e])
        nth(n) == CHOOSE i \in DOMAIN names : names[i] = n
    IN  [names |-> [n \in DOMAIN envs[e] |-> Len(cells) + nth(n)], data |-> [i \in DOMAIN names |-> cells[envs[e][names[i]]]]]
clone(c, vm, files) ==
    LET new == IF vm THEN [names |-> envs[env_of[c]], data |-> <<>>] ELSE copied(env_of[c])
        old == SetToSeq(DOMAIN handles)
        base == Len(cells) + Len(new.data)
        \* each copy of a sys: file has its own cell
        dups == [i \in DOMAIN old |-> IF handles[old[i]].scheme = "sys" THEN [handles[old[i]] EXCEPT !.cell = base + i] ELSE handles[old[i]]]
    IN  /\ call /\ Len(env_of) < MaxContexts
        /\ files \/ 2 * Len(old) =< MaxHandles
        /\ IF vm THEN env_of' = Append(env_of, env_of[c]) /\ UNCHANGED envs
                 ELSE env_of' = Append(env_of, Len(envs) + 1) /\ envs' = Append(envs, new.names)
        /\ IF files THEN UNCHANGED <<handles, next_id>>
                    ELSE /\ next_id' = next_id + Len(old)
                         /\ handles' = [i \in DOMAIN handles \cup next_id..(next_id + Len(old) - 1) |->
                                           IF i \in DOMAIN handles THEN handles[i] ELSE dups[i - next_id + 1]]
        /\ LET more == new.data \o (IF files THEN <<>> ELSE [i \in DOMAIN old |-> cells[handles[old[i]].cell]])
           IN  cells' = cells \o more /\ file' = file \o more
        /\ UNCHANGED got

Next == \/ open \/ dup \/ read \/ write \/ seek \/ ftruncate \/ close
        \/ \E c \in DOMAIN env_of, vm, files \in BOOLEAN : clone(c, vm, files)
Spec == Init /\ [][Next]_vars

-----------------------------------------------------------------------------

\* What read gives and what a file holds is what was written, by whichever
\* handle, at the place where its handle was (env.rs and live.rs, write).
WrittenIsRead == cells = file /\ got[1] = got[2]

\* No variable of an environment is also one of another: after a clone
\* without CLONE_VM neither context changes the other's (process.rs, clone).
EnvsApart ==
    \A e, f \in DOMAIN envs : \A n \in DOMAIN envs[e], m \in DOMAIN envs[f] :
        envs[e][n] = envs[f][m] => e = f /\ n = m

\* The disk keeps its size, the files of initfs: and what sys: said when it
\* was opened never change, whatever is written elsewhere: no handle of env:
\* or of the disk leads to their cells.
OthersKept ==
    /\ Len(cells[1]) = Len(Disk)
    /\ \A p \in DOMAIN InitFiles : cells[cell_of(p)] = InitFiles[p]
    /\ \A i, j \in DOMAIN handles : (handles[i].scheme = "sys" /\ handles[j].cell = handles[i].cell) => j = i

\* The files of the kernel as a whole: reads give what was written,
\* environments are apart and nothing else changes.
KernelFilesExact == WrittenIsRead /\ EnvsApart /\ OthersKept
=============================================================================

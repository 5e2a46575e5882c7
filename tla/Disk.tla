-------------------------------- MODULE Disk --------------------------------
(***************************************************************************)
(* What the Disk trait of redoxfs (schemes/redoxfs/src/disk.rs) promises   *)
(* the file system: a block reads as it was last written.  A write that    *)
(* failed may have reached some of its blocks; until such a block is       *)
(* written again, a read may return any of the values it might hold.       *)
(***************************************************************************)
EXTENDS Integers, Sequences

CONSTANTS Block, Value, MaxLen

VARIABLES mem,         \* block -> the values a read of it may return
          reply        \* what the last call returned

vars == <<mem, reply>>

Reply(code, data) == [code |-> code, data |-> data]

span(b, n) == {x \in Block : b <= x /\ x < b + n}

Init == mem \in [Block -> {{v} : v \in Value}] /\ reply = Reply("none", <<>>)

Read(b, n) ==
    /\ reply'.code = "ok" /\ Len(reply'.data) = n
    /\ \A i \in 1 .. n : reply'.data[i] \in mem[b + i - 1]
    /\ mem' \in [Block -> (SUBSET Value) \ {{}}]
    /\ \A x \in Block : mem'[x] \subseteq mem[x]

Write(b, buf) ==
    /\ reply' = Reply("ok", <<>>)
    /\ mem' \in [Block -> (SUBSET Value) \ {{}}]
    /\ \A x \in span(b, Len(buf)) : mem'[x] = {buf[x - b + 1]}
    /\ \A x \in Block \ span(b, Len(buf)) : mem'[x] \subseteq mem[x]

Fail(b, buf) ==
    /\ reply' = Reply("EIO", <<>>)
    /\ mem' \in [Block -> (SUBSET Value) \ {{}}]
    /\ \A x \in span(b, Len(buf)) : mem'[x] \subseteq mem[x] \cup {buf[x - b + 1]}
    /\ \A x \in Block \ span(b, Len(buf)) : mem'[x] \subseteq mem[x]

(* The program starts again.                                               *)
Restart ==
    /\ reply' = Reply("none", <<>>)
    /\ mem' \in [Block -> (SUBSET Value) \ {{}}]
    /\ \A x \in Block : mem'[x] \subseteq mem[x]

Ranges == {r \in Block \X (1 .. MaxLen) : r[1] + r[2] - 1 \in Block}

Next ==
    \/ \E r \in Ranges : Read(r[1], r[2])
    \/ \E r \in Ranges : \E buf \in [1 .. r[2] -> Value] :
          Write(r[1], buf) \/ Fail(r[1], buf)
    \/ Restart

Spec == Init /\ [][Next]_vars
=============================================================================

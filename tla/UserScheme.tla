----------------------------- MODULE UserScheme -----------------------------
(***************************************************************************)
(* A scheme that a daemon serves: kernel/scheme/user.rs, with the handle   *)
(* of kernel/scheme/root.rs through which the daemon reads requests and    *)
(* writes answers.                                                         *)
(*                                                                         *)
(* A client's call captures its buffer, that is, maps it into the daemon,  *)
(* puts a packet into the queue todo and waits until the map done has the  *)
(* answer under the id of the packet.  An fmap works the other way round:  *)
(* the answer maps memory of the daemon into the client.  The wake-ups of  *)
(* the queue and of the map are the subject of WaitQueue and Process;      *)
(* here a client goes on when its answer is there.                         *)
(*                                                                         *)
(* The scheme has a Weak to the UserInner.  The handle of the daemon keeps *)
(* it alive, and so does every client in a call, also one that a signal    *)
(* took out of it, whose stack is never unwound.  While there is such a    *)
(* client, calls are accepted after the daemon has closed its handle.      *)
(***************************************************************************)
EXTENDS Naturals, Sequences, FiniteSets, SequencesExt, TLAPS

CONSTANTS
    Clients,
    None,
    MaxId      \* bound on the packets

VARIABLES
    pc,        \* what a client does; "zombie": it has exited, "gone": reaped
    packet,    \* the packet a client waits for, or waited for when a signal
               \* took it out of the call
    daemon,    \* "up"; "closed": its handle is; "zombie": it has exited, or "gone"
    next_id,   \* UserInner::next_id
    todo,      \* UserInner::todo
    taken,     \* packets the daemon has read and not answered
    done,      \* UserInner::done: ids with an answer
    fmap,      \* UserInner::fmap: ids of fmaps, with the client
    grants,    \* grants of the daemon: the ids of the calls that captured them
    cgrants,   \* grants of a client that fmap made
    late,      \* ids of the calls made when the daemon had exited
    panicked   \* the assertion of Grant::drop has failed

vars == <<pc, packet, daemon, next_id, todo, taken, done, fmap, grants, cgrants, late, panicked>>

(* A call passes a buffer, maps memory, or does neither.                   *)
Ops == {"buffer", "fmap", "plain"}

Ids == 1 .. MaxId
Packet == [id : Ids, op : Ops]

(* The types, and no packet has the id that the next one will have.        *)
TypeOK ==
    /\ pc \in [Clients -> {"user", "call", "zombie", "gone"}]
    /\ packet \in [Clients -> Packet \cup {None}]
    /\ daemon \in {"up", "closed", "zombie", "gone"}
    /\ next_id \in 1 .. MaxId + 1
    /\ todo \in Seq(Packet)
    /\ taken \in SUBSET Packet
    /\ done \in SUBSET Ids
    /\ \A p \in Range(todo) \cup taken : p.id < next_id
    /\ fmap \in SUBSET (Ids \X Clients)
    /\ grants \in SUBSET Ids
    /\ cgrants \in [Clients -> SUBSET Ids]
    /\ late \in SUBSET Ids
    /\ panicked \in BOOLEAN

Init ==
    /\ pc = [c \in Clients |-> "user"]
    /\ packet = [c \in Clients |-> None]
    /\ daemon = "up"
    /\ next_id = 1
    /\ todo = <<>>
    /\ taken = {}
    /\ done = {}
    /\ fmap = {}
    /\ grants = {}
    /\ cgrants = [c \in Clients |-> {}]
    /\ late = {}
    /\ panicked = FALSE

-----------------------------------------------------------------------------
(* Bug: the counter is read and not advanced.                              *)
fetch_load(n) == n

(* AtomicU64::fetch_add of next_id.                                        *)
fetch_add(n) == n + 1

(* UserInner::capture and capture_mut                                      *)
capture(p) == grants \cup {p.id}

(* Weak::upgrade of the UserInner, without which a call returns ENODEV,    *)
(* and of the daemon's Context in capture_inner, otherwise ESRCH.          *)
upgrade(op) ==
    /\ daemon = "up" \/ \E c \in Clients : packet[c] # None
    /\ op = "buffer" => daemon # "gone"

exited == daemon \in {"zombie", "gone"}

(* An operation of UserScheme up to the wait in done.receive.              *)
call(c, op) ==
    LET p == [id |-> next_id, op |-> op]
    IN  /\ pc[c] = "user"
        /\ upgrade(op)
        /\ next_id <= MaxId
        /\ next_id' = fetch_add(next_id)
        /\ grants' = IF op = "buffer" THEN capture(p) ELSE grants
        /\ fmap' = IF op = "fmap" THEN fmap \cup {<<p.id, c>>} ELSE fmap
        /\ todo' = Append(todo, p)
        /\ packet' = [packet EXCEPT ![c] = p]
        /\ pc' = [pc EXCEPT ![c] = "call"]
        /\ late' = IF exited THEN late \cup {p.id} ELSE late
        /\ UNCHANGED <<daemon, taken, done, cgrants, panicked>>

(* UserInner::release, as the set of what may be left: the grant with the  *)
(* address of the buffer is removed.  When exit has unmapped the buffer,   *)
(* that is no grant, or one made after the exit at the same address.       *)
release(p) ==
    IF p.id \in grants THEN {grants \ {p.id}}
    ELSE {grants} \cup {grants \ {id} : id \in grants}

(* Bug: the first answer that is there, whoever it is for.                 *)
receive_any(p) == done

(* WaitMap::receive of the id of p, as the set of the answer.              *)
receive(p) == done \cap {p.id}

(* The answer is there: the client removes it and releases its buffer.     *)
call_return(c) ==
    /\ pc[c] = "call"
    /\ \E id \in receive(packet[c]) : done' = done \ {id}
    /\ grants' \in IF packet[c].op = "buffer" THEN release(packet[c]) ELSE {grants}
    /\ packet' = [packet EXCEPT ![c] = None]
    /\ pc' = [pc EXCEPT ![c] = "user"]
    /\ UNCHANGED <<daemon, next_id, todo, taken, fmap, cgrants, late, panicked>>

-----------------------------------------------------------------------------
(* WaitQueue::receive_into of n packets: what stays in the queue.          *)
receive_into(n) == SubSeq(todo, n + 1, Len(todo))

(* Bug: the last packet of the queue is left behind.                       *)
read_late(n) ==
    /\ daemon = "up"
    /\ Len(todo) > 1
    /\ LET k == IF n < Len(todo) THEN n ELSE Len(todo) - 1
       IN  /\ taken' = taken \cup {todo[i] : i \in 1 .. k}
           /\ todo' = receive_into(k)
    /\ UNCHANGED <<pc, packet, daemon, next_id, done, fmap, grants, cgrants, late, panicked>>

(* The daemon reads up to n packets from its handle.                       *)
read(n) ==
    /\ daemon = "up"
    /\ todo # <<>>
    /\ LET k == IF n < Len(todo) THEN n ELSE Len(todo)
       IN  /\ taken' = taken \cup {todo[i] : i \in 1 .. k}
           /\ todo' = receive_into(k)
    /\ UNCHANGED <<pc, packet, daemon, next_id, done, fmap, grants, cgrants, late, panicked>>

(* The daemon writes the answer to packet p.  If it is that of an fmap and *)
(* not an error, the memory is mapped into the client, an exited one too.  *)
write(p, ok) ==
    LET owners == {c \in Clients : <<p.id, c>> \in fmap}
    IN  /\ daemon = "up"
        /\ p \in taken
        /\ taken' = taken \ {p}
        /\ fmap' = {x \in fmap : x[1] # p.id}
        /\ cgrants' = [c \in Clients |->
                         IF c \in owners /\ ok /\ pc[c] # "gone" THEN cgrants[c] \cup {p.id}
                         ELSE cgrants[c]]
        /\ done' = done \cup {p.id}
        /\ UNCHANGED <<pc, packet, daemon, next_id, todo, grants, late, panicked>>

-----------------------------------------------------------------------------

(* What exit leaves of the grants of c.                                    *)
unmap(c) == [cgrants EXCEPT ![c] = {}]

(* A client exits, by itself or in a call because of a signal: it unmaps   *)
(* its grants and closes nothing of the call.                              *)
exit(c) ==
    /\ pc[c] \in {"user", "call"}
    /\ pc' = [pc EXCEPT ![c] = "zombie"]
    /\ cgrants' = unmap(c)
    /\ UNCHANGED <<packet, daemon, next_id, todo, taken, done, fmap, grants, late, panicked>>

(* The parent waits for the client: its Context is dropped, and with it    *)
(* the grants.  Grant::drop asserts that they are not mapped.              *)
reap(c) ==
    /\ pc[c] = "zombie"
    /\ pc' = [pc EXCEPT ![c] = "gone"]
    /\ panicked' = (cgrants[c] # {})
    /\ UNCHANGED <<packet, daemon, next_id, todo, taken, done, fmap, grants, cgrants, late>>

(* RootScheme::close: the daemon closes its handle, by itself or on its    *)
(* way out, where it may be suspended at the next file.  A client that     *)
(* waits keeps the UserInner, and nobody answers it.                       *)
daemon_close ==
    /\ daemon = "up"
    /\ daemon' = "closed"
    /\ taken' = {}
    /\ UNCHANGED <<pc, packet, next_id, todo, done, fmap, grants, cgrants, late, panicked>>

(* The daemon exits: its grants are unmapped.                              *)
daemon_exit ==
    /\ daemon = "closed"
    /\ daemon' = "zombie"
    /\ grants' = {}
    /\ UNCHANGED <<pc, packet, next_id, todo, taken, done, fmap, cgrants, late, panicked>>

daemon_reap ==
    /\ daemon = "zombie"
    /\ daemon' = "gone"
    /\ panicked' = (grants # {})
    /\ UNCHANGED <<pc, packet, next_id, todo, taken, done, fmap, grants, cgrants, late>>

Next ==
    /\ ~panicked
    /\ \/ \E c \in Clients :
            \/ \E op \in Ops : call(c, op)
            \/ call_return(c) \/ exit(c) \/ reap(c)
       \/ \E n \in 1 .. 2 : read(n)
       \/ \E p \in taken, ok \in BOOLEAN : write(p, ok)
       \/ daemon_close \/ daemon_exit \/ daemon_reap

Spec == Init /\ [][Next]_vars

(* A daemon serves its queue, and a client whose answer is there goes on.  *)
Fairness ==
    /\ WF_vars(read(1))
    /\ \A p \in Packet : WF_vars(write(p, TRUE) \/ write(p, FALSE))
    /\ \A c \in Clients : WF_vars(call_return(c))

-----------------------------------------------------------------------------
Queued == Range(todo)

(* The call of a client that waits is in one place: in the queue, with the *)
(* daemon or answered, or in none once the daemon has closed its handle    *)
(* with it.  No packet is delivered twice, no answer is taken by another   *)
(* client, and an answer to a client that a signal took away is never that *)
(* of a later call.                                                        *)
CallOnce ==
    \A c \in Clients : pc[c] = "call" =>
        LET p == packet[c] IN
        /\ ~(p \in Queued /\ p \in taken)
        /\ ~((p \in Queued \/ p \in taken) /\ p.id \in done)
        /\ daemon = "up" => p \in Queued \/ p \in taken \/ p.id \in done
        /\ \A d \in Clients : d # c /\ pc[d] = "call" => packet[d].id # p.id

(* While the daemon may still use the buffer of a packet it is mapped: for *)
(* as long as the client waits, and when a signal has taken the client out *)
(* of the call until the answer.                                           *)
BufferMapped ==
    ~exited =>
        /\ \A p \in Queued \cup taken : p.op = "buffer" => p.id \in grants
        /\ \A c \in Clients : pc[c] = "call" /\ packet[c].op = "buffer" => packet[c].id \in grants

(* A buffer is mapped into the daemon only while its client waits in the   *)
(* call, and so cannot free or reuse the memory behind it, or after a      *)
(* signal has taken the client out of the call.                            *)
BufferOwned ==
    \A id \in grants :
        \E c \in Clients : packet[c] # None /\ packet[c].op = "buffer" /\ packet[c].id = id

(* No Context is dropped with a grant that is still mapped (the assertion  *)
(* of Grant::drop), but for that of a client that a signal took out of an  *)
(* fmap, and that of a daemon into which a buffer was captured when it had *)
(* exited, because another client kept the UserInner.                      *)
NoMappedGrantDropped ==
    panicked =>
        \/ \E c \in Clients : pc[c] = "gone" /\ packet[c] # None /\ packet[c].op = "fmap"
        \/ daemon = "gone" /\ grants # {} /\ grants \subseteq late

(* A call returns, or a signal takes the client out of it, if the daemon   *)
(* lives and serves its queue and the kernel does not panic.               *)
CallReturns ==
    \A c \in Clients :
        (pc[c] = "call") ~> (pc[c] # "call" \/ daemon # "up" \/ panicked)

(* Calls of a daemon's scheme as a whole: each is in one place, and its    *)
(* buffer is mapped into the daemon exactly while the call is not done.    *)
CallExact == CallOnce /\ BufferMapped /\ BufferOwned /\ NoMappedGrantDropped
-----------------------------------------------------------------------------
(* Every call is in one place and its buffer mapped, for any number of     *)
(* clients and packets.                                                    *)

(* What the proofs take of the constants.                                  *)
Assumptions == MaxId \in Nat /\ None \notin Packet

(* No two packets have one id, wherever they are.                          *)
Numbered ==
    /\ TypeOK
    /\ \A id \in done : id < next_id
    /\ \A i, j \in 1 .. Len(todo) : todo[i].id = todo[j].id => i = j
    /\ \A p, q \in taken : p.id = q.id => p = q
    /\ \A i \in 1 .. Len(todo) : todo[i].id \notin done /\ \A q \in taken : q.id # todo[i].id
    /\ \A q \in taken : q.id \notin done
    /\ \A c \in Clients : packet[c] # None => packet[c].id < next_id
    /\ \A c, d \in Clients :
         c # d /\ packet[c] # None /\ packet[d] # None => packet[c].id # packet[d].id

(* A client that waits has a packet, which is queued, taken or answered.   *)
Waiting ==
    /\ \A c \in Clients : /\ pc[c] = "user" => packet[c] = None
                          /\ pc[c] = "call" => packet[c] # None
    /\ daemon = "up" =>
         \A c \in Clients : pc[c] = "call" =>
            \/ \E i \in 1 .. Len(todo) : todo[i] = packet[c]
            \/ packet[c] \in taken
            \/ packet[c].id \in done

(* An fmap that is not answered is that of the client's packet, and memory *)
(* is mapped into a client that has exited only as the answer to an fmap.  *)
Fmaps ==
    /\ \A x \in fmap :
         /\ x[1] \notin done
         /\ packet[x[2]] # None /\ packet[x[2]].id = x[1] /\ packet[x[2]].op = "fmap"
    /\ \A c \in Clients :
         pc[c] = "zombie" /\ cgrants[c] # {} => packet[c] # None /\ packet[c].op = "fmap"

(* The buffers of waiting clients, and of queued and taken packets, are    *)
(* mapped, those of no others; none but late ones when the daemon has      *)
(* exited.                                                                 *)
Buffers ==
    /\ exited => grants \subseteq late
    /\ ~exited =>
         /\ \A i \in 1 .. Len(todo) : todo[i].op = "buffer" => todo[i].id \in grants
         /\ \A p \in taken : p.op = "buffer" => p.id \in grants
         /\ \A c \in Clients : pc[c] = "call" /\ packet[c].op = "buffer" => packet[c].id \in grants
    /\ BufferOwned

IInv == Numbered /\ Waiting /\ Fmaps /\ Buffers /\ NoMappedGrantDropped

(* Queued is what the positions of the queue hold.                         *)
LEMMA RangeOfQueue ==
    ASSUME NEW s \in Seq(Packet)
    PROVE  /\ \A i \in 1 .. Len(s) : s[i] \in Range(s)
           /\ \A p \in Range(s) : \E i \in 1 .. Len(s) : s[i] = p
<1>1. DOMAIN s = 1 .. Len(s)
  OBVIOUS
<1> QED  BY <1>1 DEF Range

(* A new packet has an id that nothing has.                                *)
LEMMA CallKeeps ==
    ASSUME Assumptions, IInv, NEW c \in Clients, NEW op \in Ops, call(c, op), ~panicked
    PROVE  IInv'
<1> DEFINE p == [id |-> next_id, op |-> op]
<1>1. /\ pc[c] = "user" /\ next_id <= MaxId /\ next_id' = next_id + 1
      /\ grants' = (IF op = "buffer" THEN grants \cup {p.id} ELSE grants)
      /\ fmap' = (IF op = "fmap" THEN fmap \cup {<<p.id, c>>} ELSE fmap)
      /\ todo' = Append(todo, p)
      /\ packet' = [packet EXCEPT ![c] = p]
      /\ pc' = [pc EXCEPT ![c] = "call"]
      /\ late' = (IF exited THEN late \cup {p.id} ELSE late)
      /\ UNCHANGED <<daemon, taken, done, cgrants, panicked>>
  BY DEF call, capture, fetch_add
<1>2. TypeOK /\ MaxId \in Nat /\ next_id \in Nat
  BY DEF IInv, Numbered, Assumptions, TypeOK
<1>3. p \in Packet /\ p # None /\ p.id = next_id /\ p.op = op /\ next_id \in Ids
  BY <1>1, <1>2 DEF Packet, Ids, Assumptions, TypeOK
<1> HIDE DEF p
<1>4. /\ Len(todo) \in Nat /\ Len(todo') = Len(todo) + 1 /\ todo' \in Seq(Packet)
      /\ \A i \in 1 .. Len(todo) : todo'[i] = todo[i] /\ todo[i] \in Packet
      /\ todo'[Len(todo) + 1] = p
  BY <1>1, <1>2, <1>3 DEF TypeOK
<1>5. \A i \in 1 .. Len(todo) : todo[i] \in Range(todo)
  BY <1>2, RangeOfQueue DEF TypeOK
<1>6. \A i \in 1 .. Len(todo) : todo[i].id \in Nat /\ todo[i].id < next_id
  BY <1>2, <1>4, <1>5 DEF TypeOK, Packet, Ids
<1>7. \A q \in taken : q.id \in Nat /\ q.id < next_id
  BY <1>2 DEF TypeOK, Packet, Ids
<1>8. \A id \in done : id \in Nat /\ id < next_id
  BY <1>2 DEF IInv, Numbered, TypeOK, Ids
<1>9. packet[c] = None /\ \A d \in Clients : packet[d] # None => packet[d].id \in Nat /\ packet[d].id < next_id
  BY <1>1, <1>2 DEF IInv, Numbered, Waiting, TypeOK, Packet, Ids
<1>10. TypeOK'
  <2>1. \A q \in Range(todo') \cup taken' : q.id < next_id'
    <3>1. \A q \in Range(todo') : \E i \in 1 .. Len(todo') : todo'[i] = q
      BY <1>4, RangeOfQueue
    <3>2. \A q \in Range(todo') : q.id < next_id'
      BY <1>1, <1>2, <1>3, <1>4, <1>6, <3>1
    <3> QED  BY <1>1, <1>2, <1>7, <3>2
  <2>2. fmap' \in SUBSET (Ids \X Clients) /\ grants' \in SUBSET Ids /\ late' \in SUBSET Ids
    BY <1>1, <1>2, <1>3 DEF TypeOK
  <2>3. next_id' \in 1 .. MaxId + 1
    BY <1>1, <1>2 DEF TypeOK
  <2> QED  BY <1>1, <1>2, <1>3, <1>4, <2>1, <2>2, <2>3 DEF TypeOK
<1>11. Numbered'
  <2>1. \A i, j \in 1 .. Len(todo') : todo'[i].id = todo'[j].id => i = j
    BY <1>3, <1>4, <1>6 DEF IInv, Numbered
  <2>2. \A i \in 1 .. Len(todo') : todo'[i].id \notin done' /\ \A q \in taken' : q.id # todo'[i].id
    BY <1>1, <1>2, <1>3, <1>4, <1>7, <1>8 DEF IInv, Numbered
  <2>3. \A d, e \in Clients :
          d # e /\ packet'[d] # None /\ packet'[e] # None => packet'[d].id # packet'[e].id
    BY <1>1, <1>2, <1>3, <1>9 DEF IInv, Numbered, TypeOK
  <2>4. \A d \in Clients : packet'[d] # None => packet'[d].id < next_id'
    BY <1>1, <1>2, <1>3, <1>9 DEF TypeOK
  <2>5. \A id \in done' : id < next_id'
    BY <1>1, <1>2, <1>8
  <2>6. /\ \A q, r \in taken' : q.id = r.id => q = r
        /\ \A q \in taken' : q.id \notin done'
    BY <1>1 DEF IInv, Numbered
  <2> QED  BY <1>10, <2>1, <2>2, <2>3, <2>4, <2>5, <2>6 DEF Numbered
<1>12. Waiting'
  <2>1. ASSUME daemon = "up", NEW d \in Clients, pc'[d] = "call"
        PROVE  \/ \E i \in 1 .. Len(todo') : todo'[i] = packet'[d]
               \/ packet'[d] \in taken'
               \/ packet'[d].id \in done'
    <3>1. CASE d = c
      <4>1. Len(todo) + 1 \in 1 .. Len(todo') /\ todo'[Len(todo) + 1] = packet'[d]
        BY <3>1, <1>1, <1>2, <1>4 DEF TypeOK
      <4> QED  BY <4>1
    <3>2. CASE d # c
      <4>1. pc[d] = "call" /\ packet'[d] = packet[d]
        BY <3>2, <2>1, <1>1, <1>2 DEF TypeOK
      <4> QED  BY <2>1, <4>1, <1>1, <1>4 DEF IInv, Waiting
    <3> QED  BY <3>1, <3>2
  <2>2. \A d \in Clients : (pc'[d] = "user" => packet'[d] = None) /\ (pc'[d] = "call" => packet'[d] # None)
    BY <1>1, <1>2, <1>3 DEF IInv, Waiting, TypeOK
  <2> QED  BY <1>1, <2>1, <2>2 DEF Waiting
<1>13. Fmaps'
  <2>1. ASSUME NEW x \in fmap'
        PROVE  /\ x[1] \notin done'
               /\ packet'[x[2]] # None /\ packet'[x[2]].id = x[1] /\ packet'[x[2]].op = "fmap"
    <3>1. CASE x \in fmap
      <4>1. x[2] \in Clients /\ x[2] # c
        BY <3>1, <1>2, <1>9 DEF IInv, Fmaps, TypeOK
      <4> QED  BY <3>1, <4>1, <1>1 DEF IInv, Fmaps
    <3>2. CASE x \notin fmap
      <4>1. op = "fmap" /\ x = <<p.id, c>>
        BY <3>2, <1>1
      <4>2. x[1] = next_id /\ x[2] = c /\ packet'[c] = p
        BY <4>1, <1>1, <1>2, <1>3 DEF TypeOK
      <4> QED  BY <4>1, <4>2, <1>1, <1>2, <1>3, <1>8
    <3> QED  BY <3>1, <3>2
  <2>2. \A d \in Clients : pc'[d] = "zombie" => pc[d] = "zombie" /\ packet'[d] = packet[d]
    BY <1>1, <1>2 DEF TypeOK
  <2> QED  BY <1>1, <2>1, <2>2 DEF IInv, Fmaps
<1>14. Buffers'
  <2>0. (exited' <=> exited) /\ grants \subseteq grants'
    BY <1>1 DEF exited
  <2>1. ASSUME ~exited
        PROVE  \A i \in 1 .. Len(todo') : todo'[i].op = "buffer" => todo'[i].id \in grants'
    BY <2>1, <1>1, <1>3, <1>4 DEF IInv, Buffers
  <2>2. ASSUME ~exited
        PROVE  /\ \A q \in taken' : q.op = "buffer" => q.id \in grants'
               /\ \A d \in Clients : pc'[d] = "call" /\ packet'[d].op = "buffer" => packet'[d].id \in grants'
    <3>1. \A q \in taken' : q.op = "buffer" => q.id \in grants'
      BY <2>2, <2>0, <1>1 DEF IInv, Buffers
    <3>2. packet'[c] = p /\ \A d \in Clients \ {c} : packet'[d] = packet[d] /\ pc'[d] = pc[d]
      BY <1>1, <1>2 DEF TypeOK
    <3>3. \A d \in Clients \ {c} : pc'[d] = "call" /\ packet'[d].op = "buffer" => packet'[d].id \in grants'
      BY <2>2, <2>0, <3>2 DEF IInv, Buffers
    <3>4. packet'[c].op = "buffer" => packet'[c].id \in grants'
      BY <3>2, <1>1, <1>3
    <3> QED  BY <3>1, <3>3, <3>4
  <2>3. ASSUME NEW id \in grants'
        PROVE  \E d \in Clients : packet'[d] # None /\ packet'[d].op = "buffer" /\ packet'[d].id = id
    <3>1. CASE id \in grants
      <4>1. PICK d \in Clients : packet[d] # None /\ packet[d].op = "buffer" /\ packet[d].id = id
        BY <3>1 DEF IInv, Buffers, BufferOwned
      <4> QED  BY <4>1, <1>1, <1>2, <1>9 DEF TypeOK
    <3>2. CASE id \notin grants
      BY <3>2, <1>1, <1>2, <1>3 DEF TypeOK
    <3> QED  BY <3>1, <3>2
  <2>4. exited => grants' \subseteq late'
    BY <1>1 DEF IInv, Buffers
  <2> QED  BY <2>0, <2>1, <2>2, <2>3, <2>4 DEF Buffers, BufferOwned
<1> QED  BY <1>1, <1>11, <1>12, <1>13, <1>14 DEF IInv, NoMappedGrantDropped

(* The answer a client takes is its own, and nothing else is released.     *)
LEMMA ReturnKeeps ==
    ASSUME Assumptions, IInv, NEW c \in Clients, call_return(c), ~panicked
    PROVE  IInv'
<1> DEFINE p == packet[c]
<1>1. /\ pc[c] = "call" /\ p.id \in done /\ done' = done \ {p.id}
      /\ grants' \in (IF p.op = "buffer" THEN release(p) ELSE {grants})
      /\ packet' = [packet EXCEPT ![c] = None]
      /\ pc' = [pc EXCEPT ![c] = "user"]
      /\ UNCHANGED <<daemon, next_id, todo, taken, fmap, cgrants, late, panicked>>
  BY DEF call_return, receive
<1>2. TypeOK /\ Len(todo) \in Nat /\ p # None
  BY <1>1 DEF IInv, Numbered, Waiting, TypeOK
<1> HIDE DEF p
<1>3. \A d \in Clients \ {c} : packet'[d] = packet[d] /\ pc'[d] = pc[d]
  BY <1>1, <1>2 DEF TypeOK
<1>4. packet'[c] = None /\ pc'[c] = "user"
  BY <1>1, <1>2 DEF TypeOK
<1>0. /\ grants' \subseteq grants
      /\ p.op = "buffer" => p.id \notin grants'
      /\ p.id \in grants \/ p.op # "buffer" => grants \ {p.id} \subseteq grants'
  BY <1>1 DEF release
<1>5. TypeOK'
  BY <1>0, <1>1, <1>2 DEF TypeOK
<1>6. Numbered'
  BY <1>1, <1>3, <1>4, <1>5 DEF IInv, Numbered
<1>7. Waiting'
  <2>1. ASSUME daemon = "up", NEW d \in Clients, pc'[d] = "call"
        PROVE  \/ \E i \in 1 .. Len(todo) : todo[i] = packet'[d]
               \/ packet'[d] \in taken
               \/ packet'[d].id \in done'
    <3>1. d # c /\ pc[d] = "call" /\ packet'[d] = packet[d] /\ packet[d] # None
      BY <2>1, <1>3, <1>4 DEF IInv, Waiting
    <3>2. packet[d].id # p.id
      BY <3>1, <1>2 DEF IInv, Numbered, p
    <3> QED  BY <2>1, <3>1, <3>2, <1>1 DEF IInv, Waiting
  <2>2. \A d \in Clients : (pc'[d] = "user" => packet'[d] = None) /\ (pc'[d] = "call" => packet'[d] # None)
    BY <1>3, <1>4 DEF IInv, Waiting
  <2> QED  BY <2>1, <2>2, <1>1 DEF Waiting
<1>8. Fmaps'
  <2>1. ASSUME NEW x \in fmap  PROVE x[2] \in Clients \ {c}
    <3>1. x[2] \in Clients /\ packet[x[2]].id = x[1] /\ x[1] \notin done
      BY <1>2 DEF IInv, Fmaps, TypeOK
    <3> QED  BY <3>1, <1>1 DEF p
  <2>2. \A d \in Clients : pc'[d] = "zombie" => d # c
    BY <1>4
  <2> QED  BY <1>1, <1>3, <2>1, <2>2 DEF IInv, Fmaps
<1>9. Buffers'
  <2>1. \A i \in 1 .. Len(todo) : todo[i].id # p.id
    BY <1>1 DEF IInv, Numbered
  <2>2. \A q \in taken : q.id # p.id
    BY <1>1 DEF IInv, Numbered
  <2>3. ASSUME NEW id \in grants'
        PROVE  \E d \in Clients : packet'[d] # None /\ packet'[d].op = "buffer" /\ packet'[d].id = id
    <3>1. id \in grants
      BY <2>3, <1>0
    <3>2. PICK d \in Clients : packet[d] # None /\ packet[d].op = "buffer" /\ packet[d].id = id
      BY <3>1 DEF IInv, Buffers, BufferOwned
    <3>3. d # c
      BY <2>3, <3>2, <1>0 DEF p
    <3> QED  BY <3>2, <3>3, <1>3
  <2>4. (exited' <=> exited) /\ (exited => grants' \subseteq late')
    BY <1>0, <1>1 DEF exited, IInv, Buffers
  <2>5. ASSUME ~exited
        PROVE  /\ \A i \in 1 .. Len(todo) : todo[i].op = "buffer" => todo[i].id \in grants'
               /\ \A q \in taken : q.op = "buffer" => q.id \in grants'
               /\ \A d \in Clients : pc'[d] = "call" /\ packet'[d].op = "buffer" => packet'[d].id \in grants'
    <3>1. grants \ {p.id} \subseteq grants'
      BY <2>5, <1>0, <1>1 DEF IInv, Buffers, p
    <3>2. \A d \in Clients : pc'[d] = "call" =>
            pc[d] = "call" /\ packet'[d] = packet[d] /\ packet[d].id # p.id
      BY <1>2, <1>3, <1>4 DEF IInv, Waiting, Numbered, p
    <3>3. \A i \in 1 .. Len(todo) : todo[i].op = "buffer" => todo[i].id \in grants'
      BY <2>1, <2>5, <3>1 DEF IInv, Buffers
    <3>4. \A q \in taken : q.op = "buffer" => q.id \in grants'
      BY <2>2, <2>5, <3>1 DEF IInv, Buffers
    <3>5. \A d \in Clients : pc'[d] = "call" /\ packet'[d].op = "buffer" => packet'[d].id \in grants'
      BY <2>5, <3>1, <3>2 DEF IInv, Buffers
    <3> QED  BY <3>3, <3>4, <3>5
  <2> QED  BY <1>1, <2>3, <2>4, <2>5 DEF Buffers, BufferOwned
<1> QED  BY <1>1, <1>6, <1>7, <1>8, <1>9 DEF IInv, NoMappedGrantDropped

(* What the daemon reads moves from the queue to the daemon.               *)
LEMMA ReadKeeps ==
    ASSUME Assumptions, IInv, NEW n \in 1 .. 2, read(n), ~panicked
    PROVE  IInv'
<1> DEFINE k == IF n < Len(todo) THEN n ELSE Len(todo)
           L == Len(todo)
<1>1. /\ daemon = "up" /\ todo # <<>>
      /\ taken' = taken \cup {todo[i] : i \in 1 .. k}
      /\ todo' = SubSeq(todo, k + 1, L)
      /\ UNCHANGED <<pc, packet, daemon, next_id, done, fmap, grants, cgrants, late, panicked>>
  BY DEF read, receive_into
<1>2. TypeOK /\ L \in Nat /\ L >= 1 /\ k \in 1 .. L
  BY <1>1 DEF IInv, Numbered, TypeOK
<1> HIDE DEF k
<1>3. \A i \in 1 .. L : todo[i] \in Packet
  BY <1>2 DEF TypeOK
<1>4. todo' \in Seq(Packet) /\ Len(todo') = L - k /\ \A i \in 1 .. L - k : todo'[i] = todo[i + k]
  BY <1>1, <1>2, <1>3 DEF TypeOK
<1>5. \A i \in 1 .. L - k : i + k \in 1 .. L /\ i + k > k
  BY <1>2
<1>6. \A q \in taken' : q \in taken \/ \E i \in 1 .. L : i <= k /\ q = todo[i]
  BY <1>1, <1>2
<1>7. TypeOK'
  <2>1. \A q \in Range(todo') \cup taken' : q.id < next_id
    <3>1. \A i \in 1 .. L : todo[i].id < next_id
      BY <1>2, RangeOfQueue DEF TypeOK
    <3>2. \A q \in Range(todo') : \E i \in 1 .. L : q = todo[i]
      BY <1>4, <1>5, RangeOfQueue
    <3> QED  BY <3>1, <3>2, <1>2, <1>6 DEF TypeOK
  <2>2. taken' \in SUBSET Packet
    BY <1>2, <1>3, <1>6 DEF TypeOK
  <2> QED  BY <1>1, <1>2, <1>4, <2>1, <2>2 DEF TypeOK
<1>8. Numbered'
  <2>1. \A i, j \in 1 .. L : todo[i].id = todo[j].id => i = j
    BY DEF IInv, Numbered
  <2>2. \A i, j \in 1 .. Len(todo') : todo'[i].id = todo'[j].id => i = j
    <3>1. ASSUME NEW i \in 1 .. L - k, NEW j \in 1 .. L - k, todo'[i].id = todo'[j].id  PROVE i = j
      <4>1. i + k = j + k
        BY <3>1, <1>4, <1>5, <2>1
      <4> QED  BY <4>1, <1>2
    <3> QED  BY <3>1, <1>4
  <2>3. \A q, r \in taken' : q.id = r.id => q = r
    BY <1>6, <2>1 DEF IInv, Numbered
  <2>4. ASSUME NEW i \in 1 .. Len(todo')
        PROVE  todo'[i].id \notin done /\ \A q \in taken' : q.id # todo'[i].id
    <3>1. i + k \in 1 .. L /\ i + k > k /\ todo'[i] = todo[i + k]
      BY <1>4, <1>5
    <3>2. \A j \in 1 .. L : j <= k => todo[j].id # todo[i + k].id
      BY <1>2, <3>1, <2>1
    <3> QED  BY <3>1, <3>2, <1>6 DEF IInv, Numbered
  <2>5. \A q \in taken' : q.id \notin done
    BY <1>6 DEF IInv, Numbered
  <2> QED  BY <1>1, <1>7, <2>2, <2>3, <2>4, <2>5 DEF IInv, Numbered
<1>9. Waiting'
  <2>1. ASSUME NEW i \in 1 .. L
        PROVE  todo[i] \in taken' \/ \E j \in 1 .. Len(todo') : todo'[j] = todo[i]
    <3>1. CASE i <= k
      BY <3>1, <1>1, <1>2
    <3>2. CASE i > k
      <4>1. i - k \in 1 .. L - k /\ (i - k) + k = i
        BY <3>2, <1>2
      <4> QED  BY <4>1, <1>4
    <3> QED  BY <3>1, <3>2, <1>2
  <2>2. taken \subseteq taken'
    BY <1>1
  <2>3. /\ \A c \in Clients : (pc[c] = "user" => packet[c] = None) /\ (pc[c] = "call" => packet[c] # None)
        /\ \A c \in Clients : pc[c] = "call" =>
             \/ \E i \in 1 .. L : todo[i] = packet[c]
             \/ packet[c] \in taken
             \/ packet[c].id \in done
    BY <1>1 DEF IInv, Waiting
  <2>4. ASSUME NEW c \in Clients, pc[c] = "call"
        PROVE  \/ \E j \in 1 .. Len(todo') : todo'[j] = packet[c]
               \/ packet[c] \in taken'
               \/ packet[c].id \in done
    <3>1. CASE \E i \in 1 .. L : todo[i] = packet[c]
      BY <3>1, <2>1
    <3> QED  BY <3>1, <2>2, <2>3, <2>4
  <2> QED  BY <1>1, <2>3, <2>4 DEF Waiting
<1>10. Fmaps'
  BY <1>1 DEF IInv, Fmaps
<1>11. Buffers'
  <2>1. \A i \in 1 .. L : todo[i].op = "buffer" => todo[i].id \in grants
    BY <1>1 DEF IInv, Buffers, exited
  <2>2. \A i \in 1 .. Len(todo') : todo'[i].op = "buffer" => todo'[i].id \in grants
    BY <1>4, <1>5, <2>1
  <2>3. \A q \in taken' : q.op = "buffer" => q.id \in grants
    BY <1>1, <1>6, <2>1 DEF IInv, Buffers, exited
  <2> QED  BY <1>1, <2>2, <2>3 DEF IInv, Buffers, BufferOwned, exited
<1> QED  BY <1>1, <1>8, <1>9, <1>10, <1>11 DEF IInv, NoMappedGrantDropped

(* An answer ends the fmap of its packet, and of no other.                 *)
LEMMA WriteKeeps ==
    ASSUME Assumptions, IInv, NEW p \in taken, NEW ok \in BOOLEAN, write(p, ok), ~panicked
    PROVE  IInv'
<1>1. /\ taken' = taken \ {p}
      /\ fmap' = {x \in fmap : x[1] # p.id}
      /\ done' = done \cup {p.id}
      /\ UNCHANGED <<pc, packet, daemon, next_id, todo, grants, late, panicked>>
  BY DEF write
<1>2. ASSUME NEW c \in Clients
      PROVE  cgrants'[c] = cgrants[c] \/ (cgrants'[c] = cgrants[c] \cup {p.id} /\ <<p.id, c>> \in fmap)
  BY DEF write
<1>3. TypeOK /\ p \in Packet /\ p.id \in Ids /\ p.id < next_id
  BY DEF IInv, Numbered, TypeOK, Packet
<1>4. cgrants' \in [Clients -> SUBSET Ids]
  <2>1. cgrants' = [c \in Clients |-> cgrants'[c]]
    BY DEF write
  <2>2. \A c \in Clients : cgrants'[c] \in SUBSET Ids
    BY <1>2, <1>3 DEF TypeOK
  <2> QED  BY <2>1, <2>2
<1>5. TypeOK'
  BY <1>1, <1>3, <1>4 DEF TypeOK
<1>6. Numbered'
  BY <1>1, <1>3, <1>5 DEF IInv, Numbered
<1>7. Waiting'
  BY <1>1 DEF IInv, Waiting
<1>8. Fmaps'
  <2>1. \A x \in fmap' :
          /\ x[1] \notin done'
          /\ packet'[x[2]] # None /\ packet'[x[2]].id = x[1] /\ packet'[x[2]].op = "fmap"
    BY <1>1 DEF IInv, Fmaps
  <2>2. ASSUME NEW c \in Clients, pc[c] = "zombie", cgrants'[c] # {}
        PROVE  packet[c] # None /\ packet[c].op = "fmap"
    <3>1. CASE cgrants'[c] = cgrants[c]
      BY <2>2, <3>1 DEF IInv, Fmaps
    <3>2. CASE <<p.id, c>> \in fmap
      BY <3>2 DEF IInv, Fmaps
    <3> QED  BY <3>1, <3>2, <1>2
  <2> QED  BY <1>1, <2>1, <2>2 DEF Fmaps
<1>9. Buffers'
  BY <1>1 DEF IInv, Buffers, BufferOwned, exited
<1> QED  BY <1>1, <1>6, <1>7, <1>8, <1>9 DEF IInv, NoMappedGrantDropped

(* Clients and the daemon go away; nothing new is mapped or queued.        *)
LEMMA LeaveKeeps ==
    ASSUME Assumptions, IInv, ~panicked,
           (\E c \in Clients : exit(c) \/ reap(c)) \/ daemon_close \/ daemon_exit \/ daemon_reap
    PROVE  IInv'
<1>0. TypeOK
  BY DEF IInv, Numbered
<1>1. ASSUME NEW c \in Clients, exit(c)  PROVE IInv'
  <2>1. /\ pc' = [pc EXCEPT ![c] = "zombie"] /\ cgrants' = [cgrants EXCEPT ![c] = {}]
        /\ UNCHANGED <<packet, daemon, next_id, todo, taken, done, fmap, grants, late, panicked>>
    BY <1>1 DEF exit, unmap
  <2>2. TypeOK'
    BY <1>0, <2>1 DEF TypeOK
  <2>3. \A d \in Clients : \/ pc'[d] = pc[d] /\ cgrants'[d] = cgrants[d]
                           \/ pc'[d] = "zombie" /\ cgrants'[d] = {}
    BY <1>0, <2>1 DEF TypeOK
  <2>4. Numbered' /\ BufferOwned'
    BY <2>1, <2>2 DEF IInv, Numbered, Buffers, BufferOwned
  <2>8. Buffers'
    BY <2>1, <2>3, <2>4 DEF IInv, Buffers, exited
  <2>5. Waiting' /\ Fmaps'
    BY <2>1, <2>3 DEF IInv, Waiting, Fmaps
  <2> QED  BY <2>1, <2>4, <2>5, <2>8 DEF IInv, NoMappedGrantDropped
<1>2. ASSUME NEW c \in Clients, reap(c)  PROVE IInv'
  <2>1. /\ pc[c] = "zombie" /\ pc' = [pc EXCEPT ![c] = "gone"] /\ panicked' = (cgrants[c] # {})
        /\ UNCHANGED <<packet, daemon, next_id, todo, taken, done, fmap, grants, cgrants, late>>
    BY <1>2 DEF reap
  <2>2. TypeOK'
    BY <1>0, <2>1 DEF TypeOK
  <2>3. \A d \in Clients : pc'[d] = pc[d] \/ pc'[d] = "gone"
    BY <1>0, <2>1 DEF TypeOK
  <2>4. Numbered' /\ BufferOwned'
    BY <2>1, <2>2 DEF IInv, Numbered, Buffers, BufferOwned
  <2>8. Buffers'
    BY <2>1, <2>3, <2>4 DEF IInv, Buffers, exited
  <2>5. Waiting' /\ Fmaps'
    BY <2>1, <2>3 DEF IInv, Waiting, Fmaps
  <2>6. pc'[c] = "gone" /\ (panicked' => packet[c] # None /\ packet[c].op = "fmap")
    BY <1>0, <2>1 DEF IInv, Fmaps, TypeOK
  <2>7. NoMappedGrantDropped'
    BY <2>1, <2>6 DEF NoMappedGrantDropped
  <2> QED  BY <2>4, <2>5, <2>7, <2>8 DEF IInv
<1>3. CASE daemon_close
  <2>1. /\ daemon = "up" /\ daemon' = "closed" /\ taken' = {}
        /\ UNCHANGED <<pc, packet, next_id, todo, done, fmap, grants, cgrants, late, panicked>>
    BY <1>3 DEF daemon_close
  <2>2. TypeOK'
    BY <1>0, <2>1 DEF TypeOK
  <2>3. Numbered'
    BY <2>1, <2>2, SMTT(30) DEF IInv, Numbered
  <2>4. Waiting' /\ Fmaps'
    BY <2>1, SMTT(30) DEF IInv, Waiting, Fmaps
  <2>5. Buffers' /\ NoMappedGrantDropped'
    BY <2>1, SMTT(30) DEF IInv, Buffers, BufferOwned, NoMappedGrantDropped, exited
  <2> QED  BY <2>3, <2>4, <2>5 DEF IInv
<1>4. CASE daemon_exit
  <2>1. /\ daemon' = "zombie" /\ grants' = {}
        /\ UNCHANGED <<pc, packet, next_id, todo, taken, done, fmap, cgrants, late, panicked>>
    BY <1>4 DEF daemon_exit
  <2>2. TypeOK'
    BY <1>0, <2>1 DEF TypeOK
  <2>3. Numbered'
    BY <2>1, <2>2, SMTT(30) DEF IInv, Numbered
  <2>4. Waiting' /\ Fmaps'
    BY <2>1, SMTT(30) DEF IInv, Waiting, Fmaps
  <2>5. Buffers' /\ NoMappedGrantDropped'
    BY <2>1, SMTT(30) DEF IInv, Buffers, BufferOwned, NoMappedGrantDropped, exited
  <2> QED  BY <2>3, <2>4, <2>5 DEF IInv
<1>5. CASE daemon_reap
  <2>1. /\ daemon = "zombie" /\ daemon' = "gone" /\ panicked' = (grants # {})
        /\ UNCHANGED <<pc, packet, next_id, todo, taken, done, fmap, grants, cgrants, late>>
    BY <1>5 DEF daemon_reap
  <2>2. grants \subseteq late
    BY <2>1 DEF IInv, Buffers, exited
  <2>3. TypeOK'
    BY <1>0, <2>1 DEF TypeOK
  <2>4. Numbered'
    BY <2>1, <2>3, SMTT(30) DEF IInv, Numbered
  <2>5. Waiting' /\ Fmaps'
    BY <2>1, SMTT(30) DEF IInv, Waiting, Fmaps
  <2>6. BufferOwned' /\ Buffers'
    BY <2>1, <2>2, SMTT(30) DEF IInv, Buffers, BufferOwned, exited
  <2>7. NoMappedGrantDropped'
    BY <2>1, <2>2 DEF NoMappedGrantDropped
  <2> QED  BY <2>4, <2>5, <2>6, <2>7 DEF IInv
<1> QED  BY <1>1, <1>2, <1>3, <1>4, <1>5

LEMMA NextKeeps ==
    ASSUME Assumptions, IInv, [Next]_vars
    PROVE  IInv'
<1>1. CASE UNCHANGED vars
  <2> USE <1>1 DEF vars
  <2>1. TypeOK' /\ Numbered'
    BY DEF IInv, Numbered, TypeOK
  <2>2. Waiting' /\ Fmaps'
    BY DEF IInv, Waiting, Fmaps
  <2>3. Buffers' /\ BufferOwned' /\ NoMappedGrantDropped'
    BY DEF IInv, Buffers, BufferOwned, NoMappedGrantDropped, exited
  <2> QED  BY <2>1, <2>2, <2>3 DEF IInv
<1>2. CASE Next
  BY <1>2, CallKeeps, ReturnKeeps, ReadKeeps, WriteKeeps, LeaveKeeps DEF Next
<1> QED  BY <1>1, <1>2

LEMMA InitHolds ==
    ASSUME Assumptions, Init
    PROVE  IInv
<1>1. Len(todo) = 0 /\ todo \in Seq(Packet) /\ Range(todo) = {}
  BY DEF Init, Range
<1>2. TypeOK
  <2>0. next_id = 1 /\ MaxId \in Nat /\ daemon = "up"
    BY DEF Init, Assumptions
  <2>1. next_id \in 1 .. MaxId + 1 /\ daemon \in {"up", "closed", "zombie", "gone"}
    BY <2>0
  <2>2. /\ pc \in [Clients -> {"user", "call", "zombie", "gone"}]
        /\ packet \in [Clients -> Packet \cup {None}]
        /\ cgrants \in [Clients -> SUBSET Ids]
    BY DEF Init
  <2>3. taken = {} /\ done = {} /\ fmap = {} /\ grants = {} /\ late = {}
    BY DEF Init
  <2>4. panicked \in BOOLEAN
    BY DEF Init
  <2> QED  BY <1>1, <2>1, <2>2, <2>3, <2>4 DEF TypeOK
<1> QED
  BY <1>1, <1>2 DEF Init, IInv, Numbered, Waiting, Fmaps, Buffers, BufferOwned, NoMappedGrantDropped, exited

(* The invariant says what CallExact does: a packet is in one place since  *)
(* ids are.                                                                *)
LEMMA InvariantSuffices ==
    ASSUME Assumptions, IInv
    PROVE  CallExact
<1>0. todo \in Seq(Packet) /\ taken \in SUBSET Packet
  BY DEF IInv, Numbered, TypeOK
<1>1. CallOnce
  <2>1. ASSUME NEW c \in Clients, pc[c] = "call"
        PROVE  /\ ~(packet[c] \in Queued /\ packet[c] \in taken)
               /\ ~((packet[c] \in Queued \/ packet[c] \in taken) /\ packet[c].id \in done)
               /\ daemon = "up" => packet[c] \in Queued \/ packet[c] \in taken \/ packet[c].id \in done
               /\ \A d \in Clients : d # c /\ pc[d] = "call" => packet[d].id # packet[c].id
    <3>1. \A q \in Queued : q.id \notin done /\ q \notin taken
      BY <1>0, RangeOfQueue DEF IInv, Numbered, Queued
    <3>2. \A q \in taken : q.id \notin done
      BY DEF IInv, Numbered
    <3>3. daemon = "up" => packet[c] \in Queued \/ packet[c] \in taken \/ packet[c].id \in done
      BY <1>0, <2>1, RangeOfQueue DEF IInv, Waiting, Queued
    <3>4. \A d \in Clients : d # c /\ pc[d] = "call" => packet[d].id # packet[c].id
      BY <2>1 DEF IInv, Waiting, Numbered
    <3> QED  BY <3>1, <3>2, <3>3, <3>4
  <2> QED  BY <2>1 DEF CallOnce
<1>2. BufferMapped
  BY <1>0, RangeOfQueue DEF IInv, Buffers, BufferMapped, Queued
<1> QED  BY <1>1, <1>2 DEF CallExact, IInv, Buffers

(* Each call of a daemon's scheme is in one place, answered once and to    *)
(* its own caller, and its buffer is mapped into the daemon exactly until  *)
(* then, for every number of clients, calls and signals.                   *)
THEOREM CallsAnsweredOnce ==
    ASSUME Assumptions
    PROVE  Spec => []CallExact
<1>1. Init => IInv
  BY InitHolds
<1>2. IInv /\ [Next]_vars => IInv'
  BY NextKeeps
<1>3. IInv => CallExact
  BY InvariantSuffices
<1> QED  BY <1>1, <1>2, <1>3, PTL DEF Spec
=============================================================================

-------------------------------- MODULE Tcpd --------------------------------
(***************************************************************************)
(* The tcp: daemon (schemes/tcpd) on each of the hosts of a local network. *)
(* The daemon is one process: it takes a request of the kernel from its    *)
(* scheme file (scheme_event) or a packet from ip:6 (tcp_event), one at a  *)
(* time, and each is one action here.  A request that cannot be answered   *)
(* yet is queued in its handle.  The network keeps the order of the        *)
(* segments, may lose them, and may bring a SYN twice, which is what a     *)
(* peer that retransmits it does.  Sequence numbers are taken modulo M,    *)
(* 2^32 in the code.                                                       *)
(***************************************************************************)
EXTENDS Naturals, Sequences, FiniteSets, TLC

CONSTANTS
    Hosts,         \* the addresses of the hosts
    Threads,       \* the threads that may use sockets
    Opens,         \* the sockets opened: records [host, port, remote]
    Remotes,       \* the addresses a socket is connected to later
    M,             \* the number of sequence numbers
    Initial,       \* the initial sequence numbers the generator gives
    Cloners,       \* the hosts that dup a connection
    Flags,         \* the values of O_NONBLOCK that fcntl sets
    ReadLengths, WriteLengths,  \* the lengths of the buffers
    MaxHandles, MaxBytes, MaxOdd, MaxWire  \* bounds: MaxBytes is for each thread

VARIABLES
    tcpd,          \* for each host, [up, handles, ports, next_id]
    waiting,       \* for each host and thread, the handle it waits for, 0 when none
    wire,          \* for each host, the segments on their way to it
    odd,           \* how many segments were lost or doubled, writes failed, handles
                   \* were cloned and flags set: these happen MaxOdd times
    marks          \* "cloned": some connection has two handles; "lost", "crossed", "failed":
                   \* a segment was lost, was ignored, could not be sent

vars == <<tcpd, waiting, wire, odd, marks>>

NULL == [host |-> "null", port |-> 0]
BROADCAST == "broadcast"
is_connected(x) == x.remote.host # "null" /\ x.remote.port # 0
read_closed(x) == x.state \in {"CloseWait", "LastAck", "TimeWait", "Closed"}

(* The local address of a socket is not set here: ipd fills it in.         *)
matches(x, g) ==
    /\ g.dport = x.port
    /\ x.remote.host \in {"null", BROADCAST, g.src}
    /\ x.remote.port = 0 \/ g.sport = x.remote.port

create_tcp(h, x, flags, data) ==
    [src |-> h, sport |-> x.port, dst |-> x.remote.host, dport |-> x.remote.port,
     seq |-> x.seq, ack |-> x.ack, flags |-> flags, data |-> data]

(* wrote, got and short are history: how many bytes were written to the    *)
(* socket, the bytes its readers were given, and that a buffer was shorter *)
(* than a segment, whose rest is then gone.                                *)
Handle(port, remote, nonblock) ==
    [port |-> port, remote |-> remote, nonblock |-> nonblock, events |-> FALSE,
     state |-> "Listen", seq |-> 0, ack |-> 0, data |-> <<>>,
     todo_dup |-> <<>>, todo_read |-> <<>>, todo_write |-> <<>>, wrote |-> 0, got |-> <<>>, short |-> FALSE]

less(n, m) == IF n < m THEN n ELSE m
drop(s, n) == SubSeq(s, n + 1, Len(s))
cut(s, n) == SubSeq(s, 1, less(n, Len(s)))
(* The n bytes that are written next to the handle i, x.                   *)
bytes(i, x, n) == [k \in 1..n |-> [by |-> i, n |-> x.wrote + k]]

(* The segments of s that are not for the connection of x.                 *)
retain(s, x) == SelectSeq(s, LAMBDA g : ~matches(x, g))

(* Of a host.  The count of a port goes up when a socket is opened and     *)
(* again when it is closed, and the port is given back when it is 0: never.*)
(* So `ports' is the set of the ports ever opened.                         *)
insert(d, x) == [d EXCEPT !.handles = (d.next_id :> x) @@ @, !.next_id = @ + 1]
remove(d, ids) == [d EXCEPT !.handles = [i \in DOMAIN @ \ ids |-> @[i]]]

reaches(g, h) == g.dst = h \/ (g.dst = BROADCAST /\ g.src # h)
send(w, segments) ==
    [h \in Hosts |-> w[h] \o SelectSeq(segments, LAMBDA g : reaches(g, h))]

wake(h, ts) == [waiting EXCEPT ![h] = [t \in DOMAIN @ |-> IF t \in ts THEN 0 ELSE @[t]]]
queued(s) == {s[i].thread : i \in DOMAIN s}
-----------------------------------------------------------------------------
(***************************************************************************)
(* tcp_event: what a segment does to a handle that it matches.             *)
(***************************************************************************)
acks(x, g) == g.flags \cap {"SYN", "ACK"} = {"ACK"} /\ g.ack = x.seq

transition(h, x, g) ==
    LET silent(y)  == [x |-> y, out |-> <<>>, closing |-> FALSE]
        replied(y) == [x |-> y, out |-> <<create_tcp(h, y, {"ACK"}, <<>>)>>, closing |-> FALSE]
        closed(r)  == [r EXCEPT !.closing = TRUE]
        at(y, n)   == [y EXCEPT !.ack = (g.seq + n) % M]
        to(y, s)   == [y EXCEPT !.state = s]
        fin        == "FIN" \in g.flags
    IN  CASE x.state = "SynReceived" /\ acks(x, g) -> silent(to(x, "Established"))
          [] x.state = "SynSent" /\ {"SYN", "ACK"} \subseteq g.flags /\ g.ack = x.seq ->
                replied(to(at(x, 1), "Established"))
          [] x.state = "Established" /\ acks(x, g) ->
                IF g.data # <<>>
                THEN replied([at(x, Len(g.data)) EXCEPT !.data = Append(@, g)])
                ELSE IF fin THEN replied(to(at(x, 1), "CloseWait")) ELSE silent(at(x, 0))
          [] x.state = "FinWait1" /\ acks(x, g) ->
                IF fin THEN closed(replied(to(at(x, 1), "TimeWait")))
                ELSE silent(to(at(x, 1), "FinWait2"))
          [] x.state = "FinWait2" /\ acks(x, g) /\ fin ->
                closed(replied(to(at(x, 1), "TimeWait")))
          [] x.state = "LastAck" /\ acks(x, g) -> closed(silent(to(x, "Closed")))
          [] OTHER -> silent(x)

(* A reader with a buffer of n bytes is given the first segment.           *)
take_kept(x, n) == [x EXCEPT !.got = @ \o cut(Head(x.data).data, n)]
take(x, n) ==
    [x EXCEPT !.data = Tail(@), !.got = @ \o cut(Head(x.data).data, n),
              !.short = @ \/ n < Len(Head(x.data).data)]

(* The readers that wait are answered while there is data, all of them     *)
(* once the peer has closed.                                               *)
serve_read(x) ==
    LET n == IF read_closed(x) THEN Len(x.todo_read) ELSE less(Len(x.todo_read), Len(x.data))
        k == less(n, Len(x.data))
        given[i \in 0..k] == IF i = 0 THEN x ELSE take(given[i-1], x.todo_read[i].n)
    IN  [given[k] EXCEPT !.todo_read = drop(@, n)]

(* One writer that waits is answered, with an error when its segment       *)
(* cannot be sent.                                                         *)
serve_write(h, i, x, fails) ==
    IF x.todo_write # <<>> /\ x.state = "Established"
    THEN IF fails THEN [x |-> [x EXCEPT !.todo_write = Tail(@)], out |-> <<>>]
         ELSE LET n == Head(x.todo_write).n
              IN  [x   |-> [x EXCEPT !.todo_write = Tail(@), !.seq = (@ + n) % M, !.wrote = @ + n],
                   out |-> <<create_tcp(h, x, {"ACK", "PSH"}, bytes(i, x, n))>>]
    ELSE [x |-> x, out |-> <<>>]

(* The whole of it for one handle.                                         *)
matched(h, i, x, g, fails) ==
    LET a == transition(h, x, g)
        b == serve_read(a.x)
        c == serve_write(h, i, b, fails)
    IN  [x |-> c.x, out |-> a.out \o c.out, closing |-> a.closing,
         woken |-> (queued(x.todo_read) \ queued(c.x.todo_read)) \cup
                   (queued(x.todo_write) \ queued(c.x.todo_write))]

(* The connection that the listener x makes of the SYN g.                  *)
accepted_early(h, x, g, iss) ==
    LET y == [Handle(x.port, [host |-> g.src, port |-> g.sport], x.nonblock)
                 EXCEPT !.state = "SynReceived", !.seq = iss, !.ack = g.seq]
    IN  [x |-> [y EXCEPT !.seq = (iss + 1) % M], out |-> <<create_tcp(h, y, {"SYN", "ACK"}, <<>>)>>]
accepted(h, x, g, iss) ==
    LET y == [Handle(x.port, [host |-> g.src, port |-> g.sport], x.nonblock)
                 EXCEPT !.state = "SynReceived", !.seq = iss, !.ack = (g.seq + 1) % M]
    IN  [x |-> [y EXCEPT !.seq = (iss + 1) % M], out |-> <<create_tcp(h, y, {"SYN", "ACK"}, <<>>)>>]

(* A SYN for the listener i: its threads that wait in dup are given a      *)
(* connection each, while segments are left.                               *)
listen(h, s, i, g, iss) ==
    LET start == [s EXCEPT !.d.handles[i].data = Append(@, g)]
        step(t) ==
            LET x   == t.d.handles[i]
                new == accepted(h, x, Head(x.data), iss)
                y   == [x EXCEPT !.todo_dup = Tail(@), !.data = retain(Tail(@), new.x)]
            IN  [d |-> insert([t.d EXCEPT !.handles[i] = y], new.x),
                 out |-> t.out \o new.out, woken |-> t.woken \cup {Head(x.todo_dup).thread}]
        run[k \in 0..Cardinality(Threads)] ==
            IF k = 0 THEN start
            ELSE LET x == run[k-1].d.handles[i]
                 IN  IF x.todo_dup # <<>> /\ x.data # <<>> THEN step(run[k-1]) ELSE run[k-1]
    IN  run[Cardinality(Threads)]
-----------------------------------------------------------------------------
Init ==
    /\ tcpd = [h \in Hosts |-> [up |-> TRUE, handles |-> <<>>, ports |-> {}, next_id |-> 1]]
    /\ waiting \in [Hosts -> {[t \in T |-> 0] : T \in SUBSET Threads}]
    /\ wire = [h \in Hosts |-> <<>>]
    /\ odd = 0
    /\ marks = {}

(***************************************************************************)
(* A segment arrives, and the writers that wait for the handles in refused *)
(* cannot send theirs.                                                     *)
(***************************************************************************)
handled(h, g, iss, refused) ==
    LET d == tcpd[h]
        found == {i \in DOMAIN d.handles : d.handles[i].state # "Listen" /\ matches(d.handles[i], g)}
        after == [i \in found |-> matched(h, i, d.handles[i], g, i \in refused)]
        put(i, t) ==
            [d |-> [t.d EXCEPT !.handles[i] = after[i].x],
             out |-> t.out \o after[i].out, woken |-> t.woken \cup after[i].woken]
        heard == found = {} /\ g.flags \cap {"SYN", "ACK"} = {"SYN"}
        \* the handles in the order of the map
        all[i \in 0..d.next_id] ==
            IF i = 0 THEN [d |-> d, out |-> <<>>, woken |-> {}]
            ELSE IF i \in found THEN put(i, all[i-1])
            ELSE IF heard /\ i \in DOMAIN d.handles /\ d.handles[i].state = "Listen" /\ matches(d.handles[i], g)
                 THEN listen(h, all[i-1], i, g, iss)
            ELSE all[i-1]
        r == all[d.next_id]
    IN  [r EXCEPT !.d = remove(@, {i \in found : after[i].closing})]

(* A segment that the peer sent before it had one of ours is ignored, and  *)
(* it is not sent again.                                                   *)
crossed(h, g) ==
    IF \E i \in DOMAIN tcpd[h].handles :
          LET x == tcpd[h].handles[i]
          IN  /\ x.state = "Established" /\ matches(x, g) /\ ~acks(x, g)
              /\ g.data # <<>> \/ g.flags = {"FIN", "ACK"}
    THEN {"crossed"} ELSE {}

(* A segment that a writer waits to send may fail.  When an answer of tcpd *)
(* itself cannot be sent, the k-th it sends, the error leaves the event    *)
(* loop and the daemon ends.                                               *)
writers(h, g) ==
    {i \in DOMAIN tcpd[h].handles : tcpd[h].handles[i].todo_write # <<>> /\ matches(tcpd[h].handles[i], g)}
tcp_event(h) ==
    /\ tcpd[h].up /\ wire[h] # <<>>
    /\ \E iss \in Initial, refused \in SUBSET writers(h, Head(wire[h])) :
          LET r == handled(h, Head(wire[h]), iss, refused)
              w == [wire EXCEPT ![h] = Tail(@)]
          IN  \/ /\ odd' = odd + Cardinality(refused) /\ odd' <= MaxOdd
                 /\ tcpd' = [tcpd EXCEPT ![h] = r.d]
                 /\ wire' = send(w, r.out)
                 /\ waiting' = wake(h, r.woken)
                 /\ marks' = marks \cup crossed(h, Head(wire[h]))
              \/ /\ odd' = odd + Cardinality(refused) + 1 /\ odd' <= MaxOdd
                 /\ tcpd' = [tcpd EXCEPT ![h].up = FALSE]
                 /\ \E k \in DOMAIN r.out :
                       "PSH" \notin r.out[k].flags /\ wire' = send(w, SubSeq(r.out, 1, k - 1))
                 /\ marks' = marks \cup {"failed"}
                 /\ UNCHANGED waiting

(***************************************************************************)
(* The requests of a thread.  One that is refused changes nothing and is   *)
(* left out; one that would block is queued in the handle.                 *)
(***************************************************************************)
idle(h, t) == tcpd[h].up /\ waiting[h][t] = 0 /\ \A k \in Hosts : Len(wire[k]) < MaxWire

block(h, t, i, todo, n) ==
    /\ tcpd' = [tcpd EXCEPT ![h].handles[i][todo] = Append(@, [thread |-> t, n |-> n])]
    /\ waiting' = [waiting EXCEPT ![h][t] = i]
    /\ UNCHANGED <<wire, odd, marks>>

(* A write to ip:6 that fails leaves the daemon as d.                      *)
failed(h, d) ==
    /\ odd < MaxOdd /\ odd' = odd + 1
    /\ tcpd' = [tcpd EXCEPT ![h] = d]
    /\ marks' = marks \cup {"failed"}
    /\ UNCHANGED <<waiting, wire>>

done(h, d, out) ==
    /\ tcpd' = [tcpd EXCEPT ![h] = d]
    /\ wire' = send(wire, out)
    /\ UNCHANGED <<waiting, odd, marks>>

(* The same, of a request that is bounded by MaxOdd.                       *)
oddly(h, d, out, m) ==
    /\ odd < MaxOdd /\ odd' = odd + 1
    /\ tcpd' = [tcpd EXCEPT ![h] = d]
    /\ wire' = send(wire, out)
    /\ marks' = marks \cup m
    /\ UNCHANGED waiting

open(h, t) ==
    /\ idle(h, t) /\ tcpd[h].next_id <= MaxHandles
    /\ \E o \in Opens, iss \in Initial :
          LET d == [tcpd[h] EXCEPT !.ports = @ \cup {o.port}]
              x == Handle(o.port, o.remote, o.nonblock)
              y == [x EXCEPT !.seq = iss, !.state = "SynSent"]
          IN  /\ o.host = h /\ o.port \notin tcpd[h].ports
              /\ IF is_connected(x)
                 THEN done(h, insert(d, [y EXCEPT !.seq = (@ + 1) % M]), <<create_tcp(h, y, {"SYN"}, <<>>)>>)
                 ELSE done(h, insert(d, x), <<>>)

dup_listen(h, t, i) ==
    /\ idle(h, t)
    /\ LET d == tcpd[h]
           x == d.handles[i]
       IN  /\ ~is_connected(x)
           /\ \/ x.data = <<>> /\ block(h, t, i, "todo_dup", 0)
              \/ /\ x.data # <<>>
                 /\ \E iss \in Initial :
                       LET new == accepted(h, x, Head(x.data), iss)
                           e   == [d EXCEPT !.handles[i].data = retain(Tail(@), new.x)]
                       IN  \/ done(h, insert(e, new.x), new.out)
                          \/ failed(h, [d EXCEPT !.handles[i].data = Tail(@)])

(* dup with an empty path: another handle of the same connection.          *)
dup_clone(h, t, i) ==
    /\ idle(h, t) /\ tcpd[h].next_id <= MaxHandles /\ h \in Cloners
    /\ LET x == tcpd[h].handles[i]
       IN  oddly(h, insert(tcpd[h], [x EXCEPT !.todo_dup = <<>>, !.todo_read = <<>>, !.todo_write = <<>>]), <<>>, {"cloned"})

(* dup with a remote address.  The sequence number is not counted up for   *)
(* the SYN here, so that no answer to it is taken.                         *)
dup_connect(h, t, i) ==
    /\ idle(h, t) /\ tcpd[h].next_id <= MaxHandles
    /\ \E remote \in Remotes, iss \in Initial :
          LET d == tcpd[h]
              x == d.handles[i]
              y == [Handle(x.port, remote, x.nonblock) EXCEPT !.seq = iss, !.state = "SynSent"]
              e == [d EXCEPT !.handles[i].data = retain(@, y)]
              z == [y EXCEPT !.data = SelectSeq(x.data, LAMBDA g : matches(y, g))]
          IN  /\ ~is_connected(x) /\ is_connected(y)
              /\ \/ oddly(h, insert(e, z), <<create_tcp(h, y, {"SYN"}, <<>>)>>, {"cloned"})
                 \/ x.data # e.handles[i].data /\ failed(h, e)

read(h, t, i) ==
    /\ idle(h, t)
    /\ \E n \in ReadLengths :
          LET x == tcpd[h].handles[i]
          IN  /\ is_connected(x)
              /\ \/ /\ x.data # <<>>
                    /\ done(h, [tcpd[h] EXCEPT !.handles[i] = take(x, n)], <<>>)
                 \/ x.data = <<>> /\ ~x.nonblock /\ ~read_closed(x) /\ block(h, t, i, "todo_read", n)

(* What was written to the sockets of h that are still there.              *)
written(h) ==
    LET w == tcpd[h].handles
        sum[k \in 0..tcpd[h].next_id] ==
            IF k = 0 THEN 0 ELSE sum[k-1] + (IF k \in DOMAIN w THEN w[k].wrote ELSE 0)
    IN  sum[tcpd[h].next_id]

write(h, t, i) ==
    /\ idle(h, t)
    /\ \E n \in WriteLengths :
          LET x == tcpd[h].handles[i]
              r == serve_write(h, i, [x EXCEPT !.todo_write = <<[thread |-> t, n |-> n]>>], FALSE)
          IN  /\ is_connected(x) /\ written(h) + n <= MaxBytes * Cardinality(DOMAIN waiting[h])
              /\ \/ /\ x.state = "Established"
                    /\ done(h, [tcpd[h] EXCEPT !.handles[i] = [r.x EXCEPT !.todo_write = x.todo_write]], r.out)
                 \/ x.state # "Established" /\ block(h, t, i, "todo_write", n)

fcntl(h, t, i) ==
    /\ idle(h, t)
    /\ \E nonblock \in Flags : oddly(h, [tcpd[h] EXCEPT !.handles[i].nonblock = nonblock], <<>>, {})

(* The threads that wait for a handle that is removed are not answered.    *)
close(h, t, i) ==
    /\ idle(h, t)
    /\ LET x == [tcpd[h].handles[i] EXCEPT !.data = <<>>]
           to(s) == [x EXCEPT !.state = s]
           fin(s) ==
              \/ done(h, [tcpd[h] EXCEPT !.handles[i] = [to(s) EXCEPT !.seq = (@ + 1) % M]],
                      <<create_tcp(h, x, {"FIN", "ACK"}, <<>>)>>)
              \/ failed(h, [tcpd[h] EXCEPT !.handles[i] = to(s)])
       IN  \/ x.state \in {"SynReceived", "Established"} /\ fin("FinWait1")
           \/ x.state = "CloseWait" /\ fin("LastAck")
           \/ /\ x.state \notin {"SynReceived", "Established", "CloseWait"}
              /\ done(h, remove(tcpd[h], {i}), <<>>)

(***************************************************************************)
(* The network, outside the program.                                       *)
(***************************************************************************)
lose(h) ==
    /\ wire[h] # <<>> /\ odd < MaxOdd
    /\ wire' = [wire EXCEPT ![h] = Tail(@)]
    /\ odd' = odd + 1 /\ marks' = marks \cup {"lost"}
    /\ UNCHANGED <<tcpd, waiting>>

double_syn(h) ==
    /\ wire[h] # <<>> /\ odd < MaxOdd /\ Head(wire[h]).flags = {"SYN"}
    /\ wire' = [wire EXCEPT ![h] = Append(@, Head(@))]
    /\ odd' = odd + 1
    /\ UNCHANGED <<tcpd, waiting, marks>>

Next ==
    \E h \in Hosts :
        \/ tcp_event(h) \/ lose(h) \/ double_syn(h)
        \/ \E t \in DOMAIN waiting[h] :
              \/ open(h, t)
              \/ \E i \in DOMAIN tcpd[h].handles :
                    \/ dup_listen(h, t, i) \/ dup_clone(h, t, i) \/ dup_connect(h, t, i)
                    \/ read(h, t, i) \/ write(h, t, i) \/ fcntl(h, t, i) \/ close(h, t, i)

(* The daemon reads the packets that ip:6 holds for it: weak fairness of   *)
(* tcp_event, written out with what enables it.                            *)
Fairness ==
    \A h \in Hosts :
        \/ []<>(~tcpd[h].up \/ wire[h] = <<>>)
        \/ []<><<tcp_event(h)>>_vars

Spec == Init /\ [][Next]_vars /\ Fairness
-----------------------------------------------------------------------------
Live == UNION {{<<h, i>> : i \in DOMAIN tcpd[h].handles} : h \in {k \in Hosts : tcpd[k].up}}
handle(hi) == tcpd[hi[1]].handles[hi[2]]

(* Two ends of a connection that are both established agree when nothing   *)
(* is on its way: each has the sequence number that the other expects, and *)
(* has received every byte the other wrote, in order and once, unless its  *)
(* reader gave a buffer that was too short.  This is so only when no       *)
(* segment was lost and no two crossed: one that crosses another is        *)
(* ignored and nothing is sent again, after which the two ends never       *)
(* understand each other.                                                  *)
received(x) ==
    LET all[k \in 0..Len(x.data)] == IF k = 0 THEN x.got ELSE all[k-1] \o x.data[k].data
    IN  all[Len(x.data)]

InSync ==
    (marks = {} /\ \A h \in Hosts : wire[h] = <<>>) =>
        \A hi, hj \in Live :
            LET x == handle(hi)
                y == handle(hj)
            IN  (/\ x.state = "Established" /\ y.state = "Established"
                 /\ x.remote = [host |-> hj[1], port |-> y.port]
                 /\ y.remote = [host |-> hi[1], port |-> x.port]) =>
                    /\ x.ack = y.seq
                    /\ ~x.short => received(x) = bytes(hj[2], [y EXCEPT !.wrote = 0], y.wrote)

(* A SYN that the peer sends again never makes a second connection of the  *)
(* same ports: it is for the handle there is, or it is dropped from the    *)
(* queue of the listener when the first one is accepted.                   *)
OneConnection ==
    "cloned" \notin marks =>
        \A hi, hj \in Live :
            (/\ hi[1] = hj[1] /\ hi # hj
             /\ is_connected(handle(hi)) /\ is_connected(handle(hj))) =>
                <<handle(hi).port, handle(hi).remote>> # <<handle(hj).port, handle(hj).remote>>

(* No thread sleeps in a read while its socket has data or has been closed *)
(* by the peer, or in dup("listen") while a SYN is queued: tcp_event       *)
(* serves the queues of the handle it gives a segment to.                  *)
NoSleeperWithData ==
    \A hi \in Live :
        LET x == handle(hi)
        IN  /\ x.todo_read # <<>> => x.data = <<>> /\ ~read_closed(x)
            /\ x.todo_dup # <<>> => x.data = <<>>

connecting(h, i) == i \in DOMAIN tcpd[h].handles /\ tcpd[h].handles[i].state = "SynSent"
listeners(h, i) ==
    LET r == tcpd[h].handles[i].remote
    IN  {x \in UNION {{tcpd[k].handles[j] : j \in DOMAIN tcpd[k].handles} : k \in {k \in Hosts : r.host \in {k, BROADCAST}}} :
            x.state = "Listen" /\ x.port = r.port}

(* A connection that a thread waits for in dup("listen") is made: when a   *)
(* SYN is on its way to the listener, the socket that sent it leaves       *)
(* SynSent, unless the listener is closed or a segment is lost.  No thread *)
(* but the daemons has to do anything for it.  A SYN that finds no         *)
(* listener is not answered, and the socket stays in SynSent.              *)
Handshake ==
    \A h \in Hosts, i \in 1..MaxHandles :
        (/\ connecting(h, i)
         /\ \E x \in listeners(h, i) :
               /\ x.todo_dup # <<>>
               /\ \E k \in Hosts : \E n \in DOMAIN wire[k] :
                     wire[k][n].flags = {"SYN"} /\ matches(x, wire[k][n])) ~>
            (~connecting(h, i) \/ listeners(h, i) = {} \/ marks # {})

(* tcpd as a whole: the ends of a connection agree, a repeated SYN makes   *)
(* no second one, and nobody sleeps while there is something for it.       *)
TcpExact == InSync /\ OneConnection /\ NoSleeperWithData
=============================================================================

------------------------------ MODULE NetStack ------------------------------
(***************************************************************************)
(* The way of a datagram through one host: the driver's queue of frames,   *)
(* ethernetd, ipd with its Ethernet and its loopback interface, udpd, and  *)
(* the threads that use udp sockets.  Each daemon is a process with an     *)
(* event loop (crates/event): it sleeps until the kernel has an event for  *)
(* one of its files, and runs the callback of that file to the end.  A     *)
(* callback is one action; a call of one daemon to the scheme of the next  *)
(* is answered while the caller waits, and is part of the caller's action. *)
(*                                                                         *)
(* A frame is [src, type, body]: the address of the sender's card, the     *)
(* ethertype, and an ARP packet, a datagram, or one that does not parse.   *)
(* A datagram is [src, dst, proto, sport, dport, n], n its number.         *)
(***************************************************************************)
EXTENDS Naturals, Sequences, FiniteSets, TLC

CONSTANTS
    Me, Router,    \* the addresses of this host and of its router
    Subnet,        \* the addresses of its network
    Frames,        \* the frames that may come, a set of [src, type, body] with n = 0
    Sockets,       \* the sockets opened, records [local, remote] of addresses and ports
    Remotes,       \* the addresses given to dup
    Threads,
    MaxDatagrams, MaxHandles,
    U16            \* the values of the length in a header, 2^16 in the code

Loopback == "127.0.0.1"
Broadcast == "255.255.255.255"
Null == "0.0.0.0"
AnyCard == "ff:ff:ff:ff:ff:ff"

VARIABLES
    nic,           \* the frames the driver holds
    events,        \* the files with an event: "network", "arp", "ip", "udp"
    eth,           \* the handles of ethernetd: [key, nonblock, data], key the ethertype
    etodo,         \* the requests ethernetd has put off, [thread, handle]
    ip,            \* the handles of ipd: [key, nonblock, events, data, todo], key the protocol
    loop,          \* the packets of the loopback interface
    arp,           \* the addresses of cards that ipd has learned
    udp,           \* the handles of udpd: [local, remote, nonblock, data, todo], with
                   \* got, from and old: the datagrams its readers were given, how many
                   \* had come to the host when it was opened, and those that dup copied
    ports,         \* the ports of udpd that were opened
    next_id,       \* the next handle of each daemon
    sent,          \* the card that the last frame was sent to
    phase,         \* how far ipd and udpd have started
    waiting,       \* for each thread, the handle it waits for, [by, handle]
    log            \* the datagrams that came to the host

ethvars == <<eth, etodo>>
udpvars == <<udp, ports>>
ipvars == <<ip, loop, arp, sent>>
vars == <<nic, events, ethvars, ipvars, udpvars, next_id, phase, waiting, log>>

nobody == [by |-> "none", handle |-> 0]
less(n, m) == IF n < m THEN n ELSE m
drop(s, n) == SubSeq(s, n + 1, Len(s))

(* How many of the readers that wait are answered.                         *)
served(todo, data) == less(Len(todo), Len(data))
wake(ts) == [t \in Threads |-> IF t \in ts THEN nobody ELSE waiting[t]]
without(handles, i) == [j \in DOMAIN handles \ {i} |-> handles[j]]
new_id(d) == [next_id EXCEPT ![d] = @ + 1]
free(t) == waiting[t] = nobody

(* The threads open MaxHandles files, besides the three of the daemons.    *)
may_open(t) == free(t) /\ next_id.eth + next_id.ip + next_id.udp <= MaxHandles + 5
-----------------------------------------------------------------------------
(***************************************************************************)
(* ethernetd.  Its handles 1 and 2 are those of ipd, "arp" and "ip".       *)
(***************************************************************************)
(* input: every frame of the driver goes to the handles of its type.       *)
input(handles, frames) ==
    [i \in DOMAIN handles |->
        [handles[i] EXCEPT !.data = @ \o SelectSeq(frames, LAMBDA f : f.type = handles[i].key)]]

(* The requests that were put off are tried again, in their order: the     *)
(* k-th reader of a handle is answered when it holds k frames.  A handle   *)
(* that is closed answers EBADF.                                           *)
retried(handles) ==
    {k \in DOMAIN etodo :
        LET i == etodo[k].handle
        IN  i \in DOMAIN handles =>
                Cardinality({j \in 1..k : etodo[j].handle = i}) <= Len(handles[i].data)}

(* A handle with frames is reported to the kernel, which has an event for  *)
(* the program that registered its file.                                   *)
reported(handles) ==
    {f \in {"arp", "ip"} : LET i == IF f = "arp" THEN 1 ELSE 2
                           IN  phase.ipd # "opened" /\ i \in DOMAIN handles /\ handles[i].data # <<>>}

(* The callback of network:.                                               *)
network_event ==
    /\ "network" \in events
    /\ LET after == input(eth, nic)
           ks    == IF nic = <<>> THEN {} ELSE retried(after)
           taken(i) == Cardinality({k \in ks : etodo[k].handle = i})
           left  == [i \in DOMAIN eth |-> [after[i] EXCEPT !.data = drop(@, taken(i))]]
           keep[k \in 0..Len(etodo)] ==
               IF k = 0 THEN <<>> ELSE IF k \in ks THEN keep[k-1] ELSE Append(keep[k-1], etodo[k])
       IN  /\ eth' = left
           /\ etodo' = keep[Len(etodo)]
           /\ waiting' = wake({etodo[k].thread : k \in ks})
           /\ events' = (events \ {"network"}) \cup (IF nic # <<>> THEN reported(left) ELSE {})
    /\ nic' = <<>>
    /\ UNCHANGED <<ipvars, udpvars, next_id, phase, log>>

(* Requests of other programs than ipd.                                    *)
eth_open(t) ==
    /\ may_open(t) /\ phase.ipd # "none"
    /\ eth' = (next_id.eth :> [key |-> "ip", nonblock |-> FALSE, data |-> <<>>]) @@ eth
    /\ next_id' = new_id("eth")
    /\ UNCHANGED <<nic, events, etodo, ipvars, udpvars, phase, waiting, log>>

eth_dup(t, i) ==
    /\ may_open(t)
    /\ eth' = (next_id.eth :> eth[i]) @@ eth
    /\ next_id' = new_id("eth")
    /\ UNCHANGED <<nic, events, etodo, ipvars, udpvars, phase, waiting, log>>

eth_read(t, i) ==
    /\ free(t)
    /\ \/ /\ eth[i].data # <<>>
          /\ eth' = [eth EXCEPT ![i].data = Tail(@)]
          /\ UNCHANGED <<etodo, waiting>>
       \/ /\ eth[i].data = <<>>
          /\ etodo' = Append(etodo, [thread |-> t, handle |-> i])
          /\ waiting' = [waiting EXCEPT ![t] = [by |-> "eth", handle |-> i]]
          /\ UNCHANGED eth
    /\ UNCHANGED <<nic, events, ipvars, udpvars, next_id, phase, log>>

eth_close(t, i) ==
    /\ free(t)
    /\ eth' = without(eth, i)
    /\ UNCHANGED <<nic, events, etodo, ipvars, udpvars, next_id, phase, waiting, log>>
-----------------------------------------------------------------------------
(***************************************************************************)
(* ipd.  Its handle 1 is that of udpd.                                     *)
(***************************************************************************)
(* Packets go to the handles of their protocol; the readers that wait for  *)
(* a handle are answered while it has data, and an event is sent when some *)
(* is left.  The result is [ip, woken, events].                            *)
ip_deliver(packets) ==
    LET after == [i \in DOMAIN ip |->
                     [ip[i] EXCEPT !.data = @ \o SelectSeq(packets, LAMBDA p : p.proto = ip[i].key)]]
        n(i)  == served(after[i].todo, after[i].data)
        left  == [i \in DOMAIN ip |->
                     [after[i] EXCEPT !.data = drop(@, n(i)), !.todo = drop(@, n(i))]]
    IN  [ip |-> left,
         woken |-> UNION {{after[i].todo[k] : k \in 1..n(i)} : i \in DOMAIN ip},
         events |-> IF /\ 1 \in DOMAIN ip /\ left[1].events /\ left[1].data # <<>>
                       /\ \E k \in DOMAIN packets : packets[k].proto = ip[1].key
                    THEN {"udp"} ELSE {}]

delivered(packets, used) ==
    LET r == ip_deliver(packets)
    IN  /\ ip' = r.ip
        /\ waiting' = wake(r.woken)
        /\ events' = (events \ used) \cup r.events

(* arp_event: a request for our address is answered, and its sender is     *)
(* learned.                                                                *)
is_mine(f) == f.body.kind = "arp" /\ f.body.oper = 1 /\ f.body.dst = Me
learned(frames) ==
    LET table[k \in 0..Len(frames)] ==
            IF k = 0 THEN arp
            ELSE IF frames[k].body.src = Broadcast \/ frames[k].src = AnyCard THEN table[k-1]
            ELSE (frames[k].body.src :> frames[k].src) @@ table[k-1]
    IN  table[Len(frames)]

answered(asked) == IF asked = <<>> THEN sent ELSE asked[Len(asked)].src

arp_event ==
    /\ phase.ipd = "running" /\ "arp" \in events
    /\ LET asked == SelectSeq(eth[1].data, is_mine)
       IN  /\ arp' = learned(asked)
           /\ sent' = answered(asked)
    /\ eth' = [eth EXCEPT ![1].data = <<>>]
    /\ events' = events \ {"arp"}
    /\ UNCHANGED <<nic, etodo, ip, loop, udpvars, next_id, phase, waiting, log>>

(* recv of the Ethernet interface: the packets for us.                     *)
for_us(f) == f.body.kind = "ip" /\ f.body.dst \in {Me, Broadcast}
body_of(frames) == [k \in DOMAIN frames |-> frames[k].body]

ip_event ==
    /\ phase.ipd = "running" /\ "ip" \in events
    /\ LET frames == SelectSeq(eth[2].data, for_us)
       IN  arp' = learned(frames) /\ delivered(body_of(frames), {"ip"})
    /\ eth' = [eth EXCEPT ![2].data = <<>>]
    /\ UNCHANGED <<nic, etodo, loop, sent, udpvars, next_id, phase, log>>

(* send: the interface of the source address, or the first that routes to  *)
(* the destination.                                                        *)
interface(p) ==
    IF p.src = Loopback \/ (p.src = Null /\ p.dst = Loopback) THEN "loopback"
    ELSE IF p.src = Me \/ p.src = Null THEN "ethernet" ELSE "none"

(* The card that the Ethernet interface sends a packet to.                 *)
card(dst) ==
    LET hop == IF dst \in Subnet THEN dst ELSE Router
    IN  IF dst # Broadcast /\ hop \in DOMAIN arp THEN arp[hop] ELSE AnyCard

(* The callback of :ip with a request that writes p.  The loopback         *)
(* interface is emptied before and after the request: the packets that     *)
(* loopback_event receives, and those it leaves.                           *)
loopback_first(p) == [packets |-> loop, left |-> <<p>>]
loopback_event(p) == [packets |-> Append(loop, p), left |-> <<>>]

ip_write(p) ==
    CASE interface(p) = "loopback" ->
            LET r == loopback_event(p)
            IN  delivered(r.packets, {}) /\ loop' = r.left /\ UNCHANGED sent
      [] interface(p) = "ethernet" ->
            sent' = card(p.dst) /\ UNCHANGED <<ip, loop, waiting, events>>
      [] OTHER -> UNCHANGED <<ip, loop, waiting, events, sent>>

(* Requests of other programs than udpd.                                   *)
ip_open(t) ==
    /\ may_open(t) /\ phase.udpd # "none"
    /\ ip' = (next_id.ip :> [key |-> "udp", nonblock |-> FALSE, events |-> FALSE, data |-> <<>>, todo |-> <<>>]) @@ ip
    /\ next_id' = new_id("ip")
    /\ UNCHANGED <<nic, events, ethvars, loop, arp, sent, udpvars, phase, waiting, log>>

ip_dup(t, i) ==
    /\ may_open(t)
    /\ ip' = (next_id.ip :> [ip[i] EXCEPT !.events = FALSE, !.todo = <<>>]) @@ ip
    /\ next_id' = new_id("ip")
    /\ UNCHANGED <<nic, events, ethvars, loop, arp, sent, udpvars, phase, waiting, log>>

ip_read(t, i) ==
    /\ free(t)
    /\ \/ /\ ip[i].data # <<>>
          /\ ip' = [ip EXCEPT ![i].data = Tail(@)]
          /\ UNCHANGED waiting
       \/ /\ ip[i].data = <<>>
          /\ ip' = [ip EXCEPT ![i].todo = Append(@, t)]
          /\ waiting' = [waiting EXCEPT ![t] = [by |-> "ip", handle |-> i]]
    /\ UNCHANGED <<nic, events, ethvars, loop, arp, sent, udpvars, next_id, phase, log>>

ip_close(t, i) ==
    /\ free(t)
    /\ ip' = without(ip, i)
    /\ UNCHANGED <<nic, events, ethvars, loop, arp, sent, udpvars, next_id, phase, waiting, log>>

(* ipd starts: it opens its two files, asks for events of them, and calls  *)
(* every callback once for what came in the meantime.                      *)
ipd_open ==
    /\ phase.ipd = "none"
    /\ eth' = [i \in 1..2 |-> [key |-> IF i = 1 THEN "arp" ELSE "ip", nonblock |-> TRUE, data |-> <<>>]]
    /\ next_id' = [next_id EXCEPT !.eth = 3]
    /\ phase' = [phase EXCEPT !.ipd = "opened"]
    /\ UNCHANGED <<nic, events, etodo, ipvars, udpvars, waiting, log>>

ipd_add ==
    /\ phase.ipd = "opened"
    /\ phase' = [phase EXCEPT !.ipd = "added"]
    /\ UNCHANGED <<nic, events, ethvars, ipvars, udpvars, next_id, waiting, log>>

ipd_trigger_all ==
    /\ phase.ipd = "added"
    /\ arp' = learned(SelectSeq(eth[1].data, is_mine) \o SelectSeq(eth[2].data, for_us))
    /\ sent' = answered(SelectSeq(eth[1].data, is_mine))
    /\ eth' = [eth EXCEPT ![1].data = <<>>, ![2].data = <<>>]
    /\ phase' = [phase EXCEPT !.ipd = "running"]
    /\ UNCHANGED <<nic, events, etodo, ip, loop, udpvars, next_id, waiting, log>>
-----------------------------------------------------------------------------
(***************************************************************************)
(* udpd.                                                                   *)
(***************************************************************************)
connected(x) == x.remote.host # Null /\ x.remote.port # 0
matches(x, p) ==
    /\ x.local.host = Null \/ p.dst = x.local.host \/ p.dst = Broadcast
    /\ p.dport = x.local.port
    /\ x.remote.host \in {Null, Broadcast, p.src}
    /\ x.remote.port \in {0, p.sport}

(* The packets of ip:11 go to the sockets they match, and the readers that *)
(* wait are answered: [udp, woken].                                        *)
udp_deliver(packets) ==
    LET after == [i \in DOMAIN udp |->
                     [udp[i] EXCEPT !.data = @ \o SelectSeq(packets, LAMBDA p : matches(udp[i], p))]]
        n(i)  == served(after[i].todo, after[i].data)
    IN  [udp   |-> [i \in DOMAIN udp |->
                       [after[i] EXCEPT !.data = drop(@, n(i)), !.todo = drop(@, n(i)),
                                        !.got = @ \o SubSeq(after[i].data, 1, n(i))]],
         woken |-> UNION {{after[i].todo[k] : k \in 1..n(i)} : i \in DOMAIN udp}]

(* The callback of ip:11.                                                  *)
udp_receive(used) ==
    LET r == udp_deliver(ip[1].data)
    IN  /\ udp' = r.udp
        /\ waiting' = wake(r.woken)
        /\ ip' = [ip EXCEPT ![1].data = <<>>]
        /\ events' = events \ used

udp_event ==
    /\ phase.udpd = "running" /\ "udp" \in events
    /\ udp_receive({"udp"})
    /\ UNCHANGED <<ports, nic, ethvars, loop, arp, sent, next_id, phase, log>>

udpd_open ==
    /\ phase.ipd = "running" /\ phase.udpd = "none"
    /\ ip' = (1 :> [key |-> "udp", nonblock |-> TRUE, events |-> FALSE, data |-> <<>>, todo |-> <<>>]) @@ ip
    /\ next_id' = new_id("ip")
    /\ phase' = [phase EXCEPT !.udpd = "opened"]
    /\ UNCHANGED <<nic, events, ethvars, loop, arp, sent, udpvars, waiting, log>>

udpd_add ==
    /\ phase.udpd = "opened"
    /\ ip' = [ip EXCEPT ![1].events = TRUE]
    /\ phase' = [phase EXCEPT !.udpd = "added"]
    /\ UNCHANGED <<nic, events, ethvars, loop, arp, sent, udpvars, next_id, waiting, log>>

udpd_trigger_all ==
    /\ phase.udpd = "added"
    /\ udp_receive({})
    /\ phase' = [phase EXCEPT !.udpd = "running"]
    /\ UNCHANGED <<ports, nic, ethvars, loop, arp, sent, next_id, log>>

running(t) == free(t) /\ phase.udpd = "running"

(* A port is never given back, as in tcpd.                                 *)
udp_open(t) ==
    /\ running(t) /\ may_open(t)
    /\ \E s \in Sockets :
          /\ s.local.port \notin ports /\ ports' = ports \cup {s.local.port}
          /\ udp' = (next_id.udp :> [local |-> s.local, remote |-> s.remote, nonblock |-> FALSE, data |-> <<>>,
                                     todo |-> <<>>, got |-> <<>>, from |-> Len(log), old |-> {}]) @@ udp
    /\ next_id' = new_id("udp")
    /\ UNCHANGED <<nic, events, ethvars, ipvars, phase, waiting, log>>

udp_dup(t, i) ==
    /\ running(t) /\ may_open(t)
    /\ \E r \in Remotes :
          udp' = (next_id.udp :> [udp[i] EXCEPT !.todo = <<>>, !.got = <<>>, !.from = Len(log),
                                                !.old = {udp[i].data[k].n : k \in DOMAIN udp[i].data},
                                                !.remote = IF connected(udp[i]) THEN @ ELSE r]) @@ udp
    /\ next_id' = new_id("udp")
    /\ UNCHANGED <<ports, nic, events, ethvars, ipvars, phase, waiting, log>>

udp_read(t, i) ==
    /\ running(t) /\ connected(udp[i])
    /\ LET x == udp[i]
       IN  \/ /\ x.data # <<>>
              /\ udp' = [udp EXCEPT ![i].data = Tail(@), ![i].got = Append(@, Head(x.data))]
              /\ UNCHANGED waiting
           \/ /\ x.data = <<>> /\ ~x.nonblock
              /\ udp' = [udp EXCEPT ![i].todo = Append(@, t)]
              /\ waiting' = [waiting EXCEPT ![t] = [by |-> "udp", handle |-> i]]
    /\ UNCHANGED <<ports, nic, events, ethvars, ipvars, next_id, phase, log>>

udp_write(t, i) ==
    /\ running(t) /\ connected(udp[i]) /\ Len(log) < MaxDatagrams
    /\ LET x == udp[i]
           p == [kind |-> "ip", src |-> x.local.host, dst |-> x.remote.host, proto |-> "udp",
                 sport |-> x.local.port, dport |-> x.remote.port, n |-> Len(log) + 1]
           q == [p EXCEPT !.src = Loopback]
       IN  /\ ip_write(IF interface(p) = "loopback" THEN q ELSE p)
           /\ log' = IF interface(p) = "loopback" THEN Append(log, q) ELSE log
    /\ UNCHANGED <<nic, ethvars, arp, udpvars, next_id, phase>>

udp_fcntl(t, i) ==
    /\ running(t) /\ ~udp[i].nonblock
    /\ udp' = [udp EXCEPT ![i].nonblock = TRUE]
    /\ UNCHANGED <<ports, nic, events, ethvars, ipvars, next_id, phase, waiting, log>>

udp_close(t, i) ==
    /\ running(t)
    /\ udp' = without(udp, i)
    /\ UNCHANGED <<ports, nic, events, ethvars, ipvars, next_id, phase, waiting, log>>
-----------------------------------------------------------------------------
(***************************************************************************)
(* The bytes of a packet: netutils, as the daemons use it.  A header is    *)
(* the sequence of its bytes, as the structures are packed; what           *)
(* from_bytes returns is a set, empty when the bytes do not parse.         *)
(***************************************************************************)
EthernetIIHeader == 14
Ipv4Header == 20
TcpHeader == 20
UdpHeader == 8

(* n16, in the order of the network; a Checksum is in that of the CPU.     *)
n16(n) == <<(n \div 256) % 256, n % 256>>
get(bytes, i) == bytes[i] * 256 + bytes[i + 1]
Checksum(n) == <<n % 256, n \div 256>>

(* Checksum::sum reads words in the order of the CPU, and a last byte.     *)
sum(bytes) ==
    LET total[i \in 0..Len(bytes)] ==
            IF i = 0 THEN 0 ELSE total[i-1] + bytes[i] * (IF i % 2 = 1 THEN 1 ELSE 256)
    IN  total[Len(bytes)]

RECURSIVE compile(_)
compile(n) == IF n >= 65536 THEN compile((n % 65536) + (n \div 65536)) ELSE 65535 - n

(* from_bytes of bytes with a header of size bytes, options up to          *)
(* header_len and data up to len.                                          *)
from_bytes(size, header_len, len, bytes) ==
    IF size <= header_len /\ header_len <= len /\ len <= Len(bytes)
    THEN {[header |-> SubSeq(bytes, 1, size), options |-> SubSeq(bytes, size + 1, header_len),
           data |-> SubSeq(bytes, header_len + 1, len)]}
    ELSE {}

EthernetII(bytes) == from_bytes(EthernetIIHeader, EthernetIIHeader, Len(bytes), bytes)

(* The header tells where the options end and, in Ipv4 and Udp, the data.  *)
(* Bug: all that is left is data, as in Tcp.                               *)
Ipv4_whole(bytes) ==
    IF Len(bytes) < Ipv4Header THEN {}
    ELSE from_bytes(Ipv4Header, (bytes[1] % 16) * 4, Len(bytes), bytes)

Ipv4(bytes) ==
    IF Len(bytes) < Ipv4Header THEN {}
    ELSE from_bytes(Ipv4Header, (bytes[1] % 16) * 4, get(bytes, 3), bytes)
Tcp(bytes) ==
    IF Len(bytes) < TcpHeader THEN {}
    ELSE from_bytes(TcpHeader, (bytes[13] \div 16) * 4, Len(bytes), bytes)
Udp(bytes) ==
    IF Len(bytes) < UdpHeader THEN {}
    ELSE from_bytes(UdpHeader, UdpHeader, get(bytes, 5), bytes)

to_bytes(p) == p.header \o p.options \o p.data

(* s with the bytes b from place i on.                                     *)
put(s, i, b) == [j \in DOMAIN s |-> IF j \in i..(i + Len(b) - 1) THEN b[j - i + 1] ELSE s[j]]

Ipv4_checksum(p) ==
    [p EXCEPT !.header = put(@, 11, Checksum(compile(sum(put(@, 11, <<0, 0>>)))))]

pseudo_sum(p, src, dst) ==
    sum(src) + sum(dst) + sum(n16(Len(to_bytes(p)))) + sum(n16(6))
        + sum(p.header) + sum(p.options) + sum(p.data)
Tcp_checksum(p, src, dst) ==
    LET q == [p EXCEPT !.header = put(@, 17, <<0, 0>>)]
    IN  [p EXCEPT !.header = put(@, 17, Checksum(compile(pseudo_sum(q, src, dst))))]

(* What tcpd and udpd write to ipd: m is a message [proto, sport, dport,   *)
(* seq, ack, flags, id, src, dst, data] of a socket, whose data is not     *)
(* longer than write of both daemons takes.  A length is cut to 16 bits.   *)
MaxData == U16 - 30
create_tcp(m) ==
    [header |-> n16(m.sport) \o n16(m.dport) \o m.seq \o m.ack \o n16(TcpHeader * 1024 + m.flags)
                    \o n16(8192) \o <<0, 0>> \o n16(0),
     options |-> <<>>, data |-> m.data]
create_udp(m) ==
    [header |-> n16(m.sport) \o n16(m.dport) \o n16((Len(m.data) + UdpHeader) % U16) \o <<0, 0>>,
     options |-> <<>>, data |-> m.data]
create_ip(m) ==
    LET data == to_bytes(IF m.proto = 6 THEN create_tcp(m) ELSE create_udp(m))
    IN  [header |-> <<69, 0>> \o n16((Len(data) + Ipv4Header) % U16) \o n16(m.id) \o n16(0) \o <<127, m.proto>>
                        \o <<0, 0>> \o m.src \o m.dst,
         options |-> <<>>, data |-> data]

(* write of ipd: the address of the interface, and the two checksums.  It  *)
(* takes whatever parses as a segment for one.                             *)
ipd_write(bytes, if_ip, proto) ==
    {LET q   == [p EXCEPT !.header = put(put(@, 13, if_ip), 10, <<proto>>)]
         dst == SubSeq(q.header, 17, 20)
         data == {to_bytes(Tcp_checksum(t, if_ip, dst)) : t \in Tcp(q.data)}
     IN  Ipv4_checksum([q EXCEPT !.data = IF data = {} THEN @ ELSE CHOOSE d \in data : TRUE])
        : p \in Ipv4(bytes)}

(* A message comes to the socket of another host as what ipd writes, in a  *)
(* frame that the card fills up with pad bytes and ipd there unpacks.      *)
frame(p, pad) == [i \in 1..12 |-> 255] \o n16(2048) \o to_bytes(p) \o pad
carried(m) == ipd_write(to_bytes(create_ip(m)), m.src, m.proto)
received(m, pad) ==
    LET frames  == UNION {EthernetII(frame(p, pad)) : p \in carried(m)}
        packets == UNION {Ipv4(f.data) : f \in frames}
        passed  == UNION {Ipv4(to_bytes(p)) : p \in packets}
    IN  UNION {IF m.proto = 6 THEN Tcp(p.data) ELSE Udp(p.data) : p \in passed}
-----------------------------------------------------------------------------
Init ==
    /\ nic = <<>> /\ events = {} /\ eth = <<>> /\ etodo = <<>>
    /\ ip = <<>> /\ loop = <<>> /\ arp = <<>> /\ sent = AnyCard /\ udp = <<>> /\ ports = {} /\ log = <<>>
    /\ next_id = [eth |-> 1, ip |-> 1, udp |-> 1]
    /\ phase = [ipd |-> "none", udpd |-> "none"]
    /\ waiting = [t \in Threads |-> nobody]

(* A frame comes.  The driver tells ethernetd.                             *)
arrive ==
    /\ Len(log) < MaxDatagrams
    /\ \E f \in Frames :
          LET d == Append(log, [f.body EXCEPT !.n = Len(log) + 1])
          IN  IF for_us(f)
              THEN nic' = Append(nic, [f EXCEPT !.body = d[Len(d)]]) /\ log' = d
              ELSE nic' = Append(nic, f) /\ log' = Append(log, [kind |-> "other"])
    /\ events' = events \cup {"network"}
    /\ UNCHANGED <<ethvars, ipvars, udpvars, next_id, phase, waiting>>

Next ==
    \/ arrive \/ network_event \/ arp_event \/ ip_event \/ udp_event
    \/ ipd_open \/ ipd_add \/ ipd_trigger_all \/ udpd_open \/ udpd_add \/ udpd_trigger_all
    \/ \E t \in Threads :
          \/ eth_open(t) \/ ip_open(t) \/ udp_open(t)
          \/ \E i \in DOMAIN eth \ {1, 2} : eth_dup(t, i) \/ eth_read(t, i) \/ eth_close(t, i)
          \/ \E i \in DOMAIN ip \ {1} : ip_dup(t, i) \/ ip_read(t, i) \/ ip_close(t, i)
          \/ \E i \in DOMAIN udp :
                udp_dup(t, i) \/ udp_read(t, i) \/ udp_write(t, i) \/ udp_fcntl(t, i) \/ udp_close(t, i)

Spec == Init /\ [][Next]_vars
-----------------------------------------------------------------------------
(* When no daemon has an event left, nothing is left between them, and     *)
(* every datagram that came for a socket since it was opened, from the     *)
(* network or over the loopback interface, was given to its readers or is  *)
(* in its queue.  Nothing else is there, but for what dup copied from the  *)
(* queue of a socket with another remote address, and what came from one   *)
(* address is in its order and once.  No event is lost, also when a packet *)
(* comes between the open of a file and the request for its events,        *)
(* because each callback reads its file until it is empty and trigger_all  *)
(* runs all of them once.                                                  *)
Delivered ==
    (phase.udpd = "running" /\ events = {}) =>
        /\ eth[1].data = <<>> /\ eth[2].data = <<>> /\ ip[1].data = <<>> /\ loop = <<>>
        /\ \A i \in DOMAIN udp :
              LET all == udp[i].got \o udp[i].data
              IN  /\ \A n \in (udp[i].from + 1)..Len(log) :
                        (log[n].kind = "ip" /\ log[n].proto = "udp" /\ matches(udp[i], log[n])) =>
                            \E k \in DOMAIN all : all[k].n = n
                  /\ \A k \in DOMAIN all : matches(udp[i], all[k]) \/ all[k].n \in udp[i].old
                  /\ \A k \in DOMAIN all : \A j \in 1..(k - 1) : all[j].src = all[k].src => all[j].n < all[k].n

(* No thread sleeps in a read of ethernet:, ip: or udp: while the handle   *)
(* it reads has something for it.                                          *)
ReadersServed ==
    \A t \in Threads :
        LET w == waiting[t]
        IN  /\ w.by = "eth" /\ w.handle \in DOMAIN eth => eth[w.handle].data = <<>>
            /\ w.by = "ip" /\ w.handle \in DOMAIN ip => ip[w.handle].data = <<>>
            /\ w.by = "udp" /\ w.handle \in DOMAIN udp => udp[w.handle].data = <<>>

(* A message comes as it was sent, however the card fills up the frame:    *)
(* Ipv4::from_bytes cuts the data at the length in the header, so that a   *)
(* segment has no bytes of the card in it.  The checksums are those that a *)
(* receiver accepts, for an odd number of bytes and for any carries.  Only *)
(* a datagram that parses as a segment is changed: write of ipd puts the   *)
(* checksum of the segment in it, over the ninth and the tenth byte.  A    *)
(* segment whose length does not fit in 16 bits, which write of tcpd lets  *)
(* pass for the last eleven lengths it takes, is refused by ipd and not    *)
(* sent at all; a datagram of any length udpd takes is sent.               *)
too_long(m) == m.proto = 6 /\ Len(m.data) + TcpHeader + Ipv4Header >= U16
PacketExact(m, pad) ==
    /\ too_long(m) => carried(m) = {}
    /\ \A p \in carried(m) :
          /\ compile(sum(p.header)) = 0
          /\ m.proto = 6 => \A t \in Tcp(p.data) : compile(pseudo_sum(t, m.src, m.dst)) = 0
    /\ ~too_long(m) => \E t \in received(m, pad) :
          /\ received(m, pad) = {t} /\ Len(t.data) = Len(m.data)
          /\ m.proto = 6 => t = Tcp_checksum(create_tcp(m), m.src, m.dst) /\ t.data = m.data
          /\ m.proto # 6 =>
                /\ t.header = create_udp(m).header
                /\ \A i \in DOMAIN m.data :
                      (i \in 9..10 /\ Tcp(to_bytes(create_udp(m))) # {}) \/ t.data[i] = m.data[i]

(* The layers as a whole: every datagram reaches the sockets it is for,    *)
(* once and in order, and no reader sleeps while there is one for it.      *)
StackExact == Delivered /\ ReadersServed
=============================================================================

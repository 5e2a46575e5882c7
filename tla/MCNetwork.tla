----------------------------- MODULE MCNetwork -----------------------------
(***************************************************************************)
(* The network: two hosts that speak TCP, one host whose datagrams go      *)
(* through all the layers, the bytes of one packet, an IRC client and its  *)
(* server, or hosts that ask for an address.                               *)
(***************************************************************************)
EXTENDS Tcpd

CONSTANTS Me, Router, Subnet, Users, MaxDatagrams, MaxFiles, U16

VARIABLES part,    \* the part that runs, "tcp", "udp", "bytes", "irc" or "dhcp"
          packet,  \* of "bytes": none, or the message and the pad bytes of its frame
          channels, current, typing, reading, poisoned, lines, up, down, members, online, due, shown, twice, typed, acts, \* of Irc
          stage, net, offer, inbox, asked,                                                                              \* of Dhcp
          nic, events, eth, etodo, ip, loop, arp, sent, udp, ports, next_id, phase, sleeping, log

stack == <<nic, events, eth, etodo, ip, loop, arp, sent, udp, ports, next_id, phase, sleeping, log>>

chat == <<channels, current, typing, reading, poisoned, lines, up, down, members, online, due, shown, twice, typed, acts>>
lease == <<stage, net, offer, inbox, asked>>

At(h, p) == [host |-> h, port |-> p]
Socket(h, p, remote) == [host |-> h, port |-> p, remote |-> remote, nonblock |-> FALSE]
MCOpens == {Socket("s", 1, NULL), Socket("c", 2, At("s", 1))}
MCRemotes == {At("c", 2), At(BROADCAST, 2)}

Datagram(dst, proto) ==
    [src |-> "m1", type |-> "ip",
     body |-> [kind |-> "ip", src |-> "p", dst |-> dst, proto |-> proto, sport |-> 5, dport |-> 7, n |-> 0]]
Arp == [src |-> "m2", type |-> "arp", body |-> [kind |-> "arp", oper |-> 1, src |-> "p", dst |-> "me"]]
Junk == [src |-> "m2", type |-> "ip", body |-> [kind |-> "junk"]]

N == INSTANCE NetStack WITH
        Frames <- {Datagram("me", "udp"), Datagram("you", "udp"), Arp, Junk},
        Sockets <- {[local |-> At("0.0.0.0", 7), remote |-> At("p", 5)],
                    [local |-> At("0.0.0.0", 6), remote |-> At("127.0.0.1", 7)],
                    [local |-> At("127.0.0.1", 7), remote |-> At("0.0.0.0", 0)],
                    [local |-> At("0.0.0.0", 7), remote |-> At("0.0.0.0", 0)]},
        Remotes <- {At("127.0.0.1", 6)}, Threads <- Users, MaxHandles <- MaxFiles, waiting <- sleeping

(* Messages of tcpd and udpd with all carries and none, an odd number of   *)
(* bytes, datagrams that parse as a segment or are too short for one, and  *)
(* lengths at the end of what a header can say.                            *)
Bytes(n, a, b) == [i \in 1..n |-> IF i = 5 THEN a ELSE b]
Packets ==
    {[m |-> [proto |-> p, sport |-> 65535, dport |-> 7, seq |-> Bytes(4, 0, b), ack |-> Bytes(4, 0, a), flags |-> f,
             id |-> id, src |-> <<10, 0, 2, 15>>, dst |-> Bytes(4, 0, b), data |-> Bytes(n, a, b)],
      pad |-> Bytes(k, a, b)] :
        p \in {6, 17}, a \in {0, 80, 96, 255}, b \in {0, 1, 255}, f \in {2, 24}, id \in {0, 65535},
        n \in {0, 1, 2, 11, 12, 13, 16, 20, U16 - 41, U16 - 40, N!MaxData}, k \in {0, 1, 6}}
carry == packet = {} /\ \E x \in Packets : packet' = {x}

(* Options that follow each other, are cut short, come twice or are no     *)
(* address.                                                                *)
Options == {<<1, 2, 9, 8, 3, 2, 7, 7, 6, 2, 5, 5, 255>>, <<0, 51, 3, 1, 2, 8, 6, 2, 127, 1, 255, 1, 2, 3, 3>>,
            <<3, 1, 7, 3, 2, 4, 4, 3, 2, 5, 5, 1, 2, 1, 1>>, <<6, 9, 1, 2, 3, 4>>, <<255>>, <<6>>}
Servers == {"a", "b"}
Leases == {[host |-> h, yiaddr |-> IF h = "a" THEN <<10, 1>> ELSE <<10, 2>>, options |-> o] : h \in Servers, o \in Options}
OldAddress == <<0>>
OpenDNS == <<208, 67>>
D == INSTANCE Dhcp WITH Hosts <- Servers, AddrLen <- 2, Old <- OldAddress, OpenDns <- OpenDNS, Offers <- Leases
I == INSTANCE Irc WITH Nick <- "me", Others <- {"u"}, Chans <- {"#a", "#b"}, Wrap <- 16, MaxTyped <- 3, MaxActs <- 1

NoChat == /\ channels = {} /\ current = {} /\ typing = {} /\ reading = {} /\ poisoned = {} /\ lines = {} /\ up = {} /\ down = {}
          /\ members = {} /\ online = {} /\ due = {} /\ shown = {} /\ twice = {} /\ typed = {} /\ acts = {}
NoLease == stage = {} /\ net = {} /\ offer = {} /\ inbox = {} /\ asked = {}

(* Two threads on the server, or one and something odd.                    *)
MCInit ==
    /\ wire = [h \in Hosts |-> <<>>] /\ marks = {}
    /\ tcpd = [h \in Hosts |-> [up |-> TRUE, handles |-> <<>>, ports |-> {}, next_id |-> 1]]
    /\ \/ /\ odd = MaxOdd
          /\ waiting = [h \in Hosts |-> [t \in IF h = "s" THEN {1, 2} ELSE {1} |-> 0]]
          /\ \/ part \in {"tcp", "udp", "bytes"} /\ NoChat /\ NoLease
             \/ part = "irc" /\ I!Init /\ NoLease
             \/ part = "dhcp" /\ D!Init /\ NoChat
       \/ odd = 0 /\ waiting = [h \in Hosts |-> [t \in {1} |-> 0]] /\ part = "tcp" /\ NoChat /\ NoLease
    /\ packet = {}
    /\ N!Init

MCNext ==
    /\ UNCHANGED part
    /\ \/ part = "bytes" /\ carry /\ UNCHANGED <<vars, stack, chat, lease>>
       \/ part = "tcp" /\ Next /\ UNCHANGED <<packet, stack, chat, lease>>
       \/ part = "udp" /\ N!Next /\ UNCHANGED <<packet, vars, chat, lease>>
       \/ part = "irc" /\ I!Next /\ UNCHANGED <<packet, vars, stack, lease>>
       \/ part = "dhcp" /\ D!Next /\ UNCHANGED <<packet, vars, stack, chat>>

MCSpec == MCInit /\ [][MCNext]_<<part, packet, vars, stack, chat, lease>> /\ Fairness

(* A datagram reaches the sockets it is for, once and in order, and nobody *)
(* who reads sleeps beside one (ethernetd, ipd and udpd); its bytes are    *)
(* those that were sent, whatever the frame is filled up with (netutils;   *)
(* see NetStack).                                                          *)
StackExact == N!StackExact /\ \A x \in packet : N!PacketExact(x.m, x.pad)

(* The users irc lists are those in the channel, messages are shown once   *)
(* and in order, and the current channel exists (irc/main.rs; see Irc).    *)
IrcExact == (part = "irc") => I!IrcExact

(* The files of /etc/net come from one offer, and options are not read     *)
(* across each other's ends (dhcpd/main.rs; see Dhcp).                     *)
OneOffer == (part = "dhcp") => D!OneOffer
=============================================================================

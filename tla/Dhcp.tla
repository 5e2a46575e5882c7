-------------------------------- MODULE Dhcp --------------------------------
(***************************************************************************)
(* dhcpd on the hosts of a network: it asks for an address, takes the      *)
(* first datagram that comes for an offer, writes what that says to the    *)
(* files of /etc/net, requests the address and takes the next datagram for *)
(* the acknowledgement.  The server and the network are modelled from what *)
(* dhcpd asks of them: offers are broadcast, as its flags demand, and      *)
(* datagrams may be lost.                                                  *)
(***************************************************************************)
EXTENDS Integers, Sequences, SequencesExt

CONSTANTS Hosts,
          Offers,    \* what the server offers a host: an address and options
          Old,       \* what a file of /etc/net holds at first
          AddrLen,   \* bytes of an address
          OpenDns    \* the address used instead of a local one

VARIABLES stage,   \* of a host: the next thing its dhcpd does
          net,     \* its files of /etc/net
          offer,   \* the datagram it took for an offer
          inbox,   \* datagrams for its socket
          asked    \* what was sent to the server

vars == <<stage, net, offer, inbox, asked>>

SUBNET == 1
ROUTER == 3
DNS == 6
END == 255
LOOPBACK == 127
Order == <<"ip", "ip_subnet", "ip_router", "dns">>
Keys == Range(Order)
NUL == 256
NoOffer == [yiaddr |-> Old, options |-> <<>>]
Message(type, host, yiaddr) == [type |-> type, host |-> host, yiaddr |-> yiaddr]

Init ==
    /\ stage = [h \in Hosts |-> "start"] /\ net = [h \in Hosts |-> [k \in Keys |-> Old]]
    /\ offer = [h \in Hosts |-> NoOffer] /\ inbox = [h \in Hosts |-> <<>>] /\ asked = <<>>

-----------------------------------------------------------------------------
(* The options of an offer, read from the i-th byte on: each a code, a     *)
(* length and as many bytes.  The first of a code with the length of an    *)
(* address counts.  One said to be longer than what is left is not        *)
(* skipped: what follows its length is read as options.                    *)

RECURSIVE find_option(_, _, _)
find_last(code, o, i) ==
    LET is(k) == o[k] = code /\ k + 1 + AddrLen =< Len(o) /\ o[k + 1] = AddrLen
        S == {k \in i..(Len(o) - 1) : is(k)}
    IN  IF S = {} THEN <<>> ELSE LET k == CHOOSE k \in S : \A j \in S : j =< k IN SubSeq(o, k + 2, k + 1 + AddrLen)
find_option(code, o, i) ==
    IF i > Len(o) THEN <<>>
    ELSE IF o[i] = 0 THEN find_option(code, o, i + 1)
    ELSE IF o[i] = END \/ i = Len(o) THEN <<>>
    ELSE LET len == o[i + 1]
         IN  IF len > Len(o) - i - 1 THEN find_option(code, o, i + 2)
             ELSE IF o[i] = code /\ len = AddrLen THEN SubSeq(o, i + 2, i + 1 + len)
             ELSE find_option(code, o, i + 2 + len)
option(h, code) == find_option(code, offer[h].options, 1)

-----------------------------------------------------------------------------
(* dhcpd.                                                                  *)

to(h, s) == stage' = [stage EXCEPT ![h] = s]
send_discover(h) ==
    /\ stage[h] = "start" /\ to(h, "discovering") /\ asked' = Append(asked, Message("discover", h, Old))
    /\ UNCHANGED <<net, offer, inbox>>
\* Whatever comes first is taken for the offer.
recv_offer(h) ==
    /\ stage[h] = "discovering" /\ inbox[h] # <<>> /\ to(h, "ip")
    /\ offer' = [offer EXCEPT ![h] = inbox[h][1]] /\ inbox' = [inbox EXCEPT ![h] = Tail(@)]
    /\ UNCHANGED <<net, asked>>

\* What a setcfg that fails leaves of a file: the old when it is not created,
\* nothing or NULs once it is truncated and while its blocks are not written
\* (an address fits in one block of the disk, which is written or is not), and
\* the new when only its length, the sync or the getcfg that follows fails.
blank(value) == {[i \in 1..n |-> NUL] : n \in 0..Len(value)}
spoiled(old, value) == {old, value} \cup blank(value)
\* A file of /etc/net is written, or cannot be and dhcpd ends.
setcfg(h, key, value, next) ==
    /\ \/ net' = [net EXCEPT ![h][key] = value] /\ to(h, next)
       \/ \E v \in spoiled(net[h][key], value) : net' = [net EXCEPT ![h][key] = v] /\ to(h, "failed")
    /\ UNCHANGED <<offer, inbox, asked>>
set_option(h, key, value, next) ==
    /\ stage[h] = key
    /\ IF value = <<>> THEN to(h, next) /\ UNCHANGED <<net, offer, inbox, asked>> ELSE setcfg(h, key, value, next)
set_ip(h) == stage[h] = "ip" /\ setcfg(h, "ip", offer[h].yiaddr, "ip_subnet")
set_subnet(h) == set_option(h, "ip_subnet", option(h, SUBNET), "ip_router")
set_router(h) == set_option(h, "ip_router", option(h, ROUTER), "dns")
\* A name server on the host itself is not believed.
set_dns(h) ==
    LET d == option(h, DNS)
    IN  set_option(h, "dns", IF d # <<>> /\ d[1] = LOOPBACK THEN OpenDns ELSE d, "request")

send_request(h) ==
    /\ stage[h] = "request" /\ to(h, "requesting") /\ asked' = Append(asked, Message("request", h, offer[h].yiaddr))
    /\ UNCHANGED <<net, offer, inbox>>
recv_ack(h) ==
    /\ stage[h] = "requesting" /\ inbox[h] # <<>> /\ to(h, "done") /\ inbox' = [inbox EXCEPT ![h] = Tail(@)]
    /\ UNCHANGED <<net, offer, asked>>

-----------------------------------------------------------------------------
(* The server: an offer goes to every host that listens, or to some of     *)
(* them, an acknowledgement to the host.                                   *)

listens(h) == stage[h] \notin {"start", "done", "failed"}
answer ==
    LET m == asked[1]
    IN  /\ asked # <<>> /\ asked' = Tail(asked)
        /\ IF m.type = "discover"
           THEN \E o \in Offers, S \in SUBSET {h \in Hosts : listens(h)} :
                    /\ o.host = m.host
                    /\ inbox' = [h \in Hosts |-> IF h \in S THEN Append(inbox[h], [yiaddr |-> o.yiaddr, options |-> o.options]) ELSE inbox[h]]
           ELSE /\ \E S \in SUBSET {m.host} :
                      inbox' = [h \in Hosts |-> IF h \in S THEN Append(inbox[h], [yiaddr |-> m.yiaddr, options |-> <<>>]) ELSE inbox[h]]
        /\ UNCHANGED <<stage, net, offer>>

Dhcpd(h) == \/ send_discover(h) \/ recv_offer(h) \/ set_ip(h) \/ set_subnet(h) \/ set_router(h) \/ set_dns(h)
            \/ send_request(h) \/ recv_ack(h)
Next == answer \/ \E h \in Hosts : Dhcpd(h)
Spec == Init /\ [][Next]_vars

-----------------------------------------------------------------------------
(* The options as a list: cut where each one ends.                         *)

\* i begins an option: it is reached from the first byte over whole options.
begins(o) ==
    LET ends == {i \in 1..Len(o) : o[i] = END}
        step(i) == IF o[i] = 0 THEN 1 ELSE IF i < Len(o) /\ o[i + 1] =< Len(o) - i - 1 THEN 2 + o[i + 1] ELSE 2
        over(S) == S \cup {i + step(i) : i \in {j \in S \ ends : j =< Len(o)}}
        reach[n \in 0..Len(o)] == IF n = 0 THEN {1} ELSE over(reach[n - 1])
    IN  reach[Len(o)] \cap 1..Len(o)
said(o, code) ==
    LET S == {i \in begins(o) : o[i] = code /\ i + 1 + AddrLen =< Len(o) /\ o[i + 1] = AddrLen}
    IN  IF S = {} THEN Old ELSE LET i == CHOOSE i \in S : \A j \in S : i =< j IN SubSeq(o, i + 2, i + 1 + AddrLen)

\* A host that got as far as its request has the files of one offer, and of
\* no other it may have seen: the address it then asks for, and each address
\* among the options, in place of the old one only if there is one; a host
\* that failed has the new in the files before the one it failed at, the old
\* in those after it, and spoils that one only (dhcpd/main.rs, dhcp).
OneOffer ==
    \A h \in Hosts :
        LET o == offer[h].options
            d == said(o, DNS)
            now == [ip |-> offer[h].yiaddr, ip_subnet |-> said(o, SUBNET), ip_router |-> said(o, ROUTER),
                    dns |-> IF d # Old /\ d[1] = LOOPBACK THEN OpenDns ELSE d]
        IN  /\ stage[h] \in {"request", "requesting", "done"} =>
                   /\ net[h] = [k \in Keys |-> now[k]]
                   /\ \A i \in DOMAIN asked : (asked[i].type = "request" /\ asked[i].host = h) => asked[i].yiaddr = net[h]["ip"]
            /\ stage[h] = "failed" =>
                   \E i \in DOMAIN Order :
                       /\ net[h][Order[i]] \in spoiled(Old, now[Order[i]])
                       /\ \A j \in DOMAIN Order \ {i} : net[h][Order[j]] = IF j < i THEN now[Order[j]] ELSE Old
=============================================================================

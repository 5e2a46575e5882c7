--------------------------------- MODULE Nic ---------------------------------
(***************************************************************************)
(* The drivers of network cards, e1000d and rtl8168d, with the rings they  *)
(* share with the card.  A driver is a process with an event loop: one     *)
(* callback for the interrupt and one for the requests of the scheme       *)
(* network:.  The card works at the same time, between any two steps.      *)
(*                                                                         *)
(* The e1000 owns the descriptors from RDH to RDT, which the driver moves  *)
(* on; it sets DD in one it has filled.  The rtl8168 owns a descriptor     *)
(* while OWN is set.  full says that a descriptor holds a frame for the    *)
(* driver: DD is set, or OWN is clear.  What the cards do (arrive, sent)   *)
(* is how the drivers use them.                                            *)
(***************************************************************************)
EXTENDS Naturals, Sequences, FiniteSets

CONSTANTS
    Size,       \* descriptors of a ring
    Readers,    \* threads that read network: and wait; ethernetd does not wait
    MaxArrive,  \* bound on the frames that come
    MaxSend     \* bound on the frames that ethernetd writes

Ring == 0 .. Size - 1
next(i) == IF i + 1 >= Size THEN 0 ELSE i + 1

VARIABLES
    card,       \* the card: "e1000" or "rtl8168"
    rx,         \* the receive ring, [full, frame]
    RDH, RDT,   \* the place of the card and, for the e1000, of the driver
    came,       \* the frames the card has put into the ring
    got,        \* the frames given to readers
    isr,        \* the causes in the interrupt register, "rx" and "tx"
    event,      \* the event queue of the driver has an event of irq:
    pc,         \* what the driver does
    seen,       \* the causes it has read
    todo,       \* the readers that were put off
    requests,   \* the requests of network:, [by, op]
    told,       \* ethernetd has an event of network:
    own,        \* the transmit descriptors given to the card
    tx,         \* the frames of the transmit ring
    TDH, TDT,   \* the place of the card and, for the e1000, of the driver
    wrote, out  \* the frames ethernetd has written, and those sent

rxvars == <<rx, RDH, RDT, came, got>>
txvars == <<own, tx, TDH, TDT, wrote, out>>
vars == <<card, rxvars, isr, event, pc, seen, todo, requests, told, txvars>>

(* Intel8254x::init and Rtl8168::init; the driver has yet to ask for       *)
(* events, and cards may have frames before.                               *)
Init ==
    /\ card \in {"e1000", "rtl8168"}
    /\ rx = [i \in Ring |-> [full |-> FALSE, frame |-> 0]]
    /\ RDH = 0 /\ RDT = Size - 1 /\ came = 0 /\ got = <<>>
    /\ isr = {} /\ event = FALSE /\ pc = "start" /\ seen = {}
    /\ todo = <<>> /\ requests = <<>> /\ told = FALSE
    /\ own = {} /\ tx = [i \in Ring |-> 0] /\ TDH = 0 /\ TDT = 0 /\ wrote = 0 /\ out = <<>>
-----------------------------------------------------------------------------
(* The card interrupts when its register is no longer 0; a driver that has *)
(* not asked for events gets none.                                         *)
interrupt(cause) ==
    /\ isr' = isr \cup {cause}
    /\ event' = (event \/ (isr = {} /\ pc # "start"))

(* The card has room for a frame, and puts it into the ring.               *)
room == IF card = "e1000" THEN RDH # RDT ELSE ~rx[RDH].full

arrive ==
    /\ came < MaxArrive /\ room
    /\ rx' = [rx EXCEPT ![RDH] = [full |-> TRUE, frame |-> came + 1]]
    /\ RDH' = next(RDH)
    /\ came' = came + 1
    /\ interrupt("rx")
    /\ UNCHANGED <<card, RDT, got, pc, seen, todo, requests, told, txvars>>

(* The card sends the frames it owns, in the order of its ring.  The       *)
(* driver of the rtl8168 has asked for interrupts of sent frames.          *)
owned == IF card = "e1000" THEN {i \in own : i = TDH} ELSE own

sent ==
    /\ \E i \in owned :
          /\ own' = own \ {i}
          /\ out' = Append(out, tx[i])
          /\ TDH' = IF card = "e1000" THEN next(TDH) ELSE TDH
    /\ IF card = "rtl8168" THEN interrupt("tx") ELSE UNCHANGED <<isr, event>>
    /\ UNCHANGED <<card, rxvars, pc, seen, todo, requests, told, tx, TDT, wrote>>
-----------------------------------------------------------------------------
(* The descriptor that Intel8254x::read takes, as a set: the one after the *)
(* tail, if the card is not there and has filled it.                       *)
e1000_next == {i \in {next(RDT)} : i # RDH /\ rx[i].full}

(* The one that Rtl8168::read takes: the first it finds.                   *)
rtl8168_next == {i \in Ring : rx[i].full /\ \A j \in Ring : rx[j].full => i <= j}

readable == IF card = "e1000" THEN e1000_next ELSE rtl8168_next

(* read: the frame goes to the reader, the descriptor back to the card.    *)
read(i) ==
    /\ rx' = [rx EXCEPT ![i].full = FALSE]
    /\ got' = Append(got, rx[i].frame)
    /\ RDT' = IF card = "e1000" THEN i ELSE RDT
    /\ UNCHANGED <<RDH, came>>

(* The event queue is set up, and trigger_all runs both callbacks, here    *)
(* first that of network:, which looks for a frame in the end.             *)
trigger_all ==
    /\ pc = "start"
    /\ pc' = "socket" /\ event' = TRUE
    /\ UNCHANGED <<card, rxvars, isr, seen, todo, requests, told, txvars>>

(* The callback of irq: reads the register.  Reading clears that of the    *)
(* e1000; the driver of the rtl8168 writes back what it has read.          *)
irq_read ==
    /\ pc = "idle" /\ event
    /\ event' = FALSE
    /\ IF card = "e1000"
       THEN isr' = {} /\ pc' = (IF isr # {} THEN "todo" ELSE "idle") /\ UNCHANGED seen
       ELSE seen' = isr /\ pc' = "clear" /\ UNCHANGED isr
    /\ UNCHANGED <<card, rxvars, todo, requests, told, txvars>>

(* The line falls and rises again if a cause is left.                      *)
irq_clear_all ==
    /\ pc = "clear"
    /\ isr' = {} /\ pc' = (IF seen # {} THEN "todo" ELSE "idle") /\ seen' = {}
    /\ UNCHANGED <<card, rxvars, event, todo, requests, told, txvars>>
irq_clear ==
    /\ pc = "clear"
    /\ isr' = isr \ seen
    /\ event' = (event \/ isr \ seen # {})
    /\ pc' = IF seen # {} THEN "todo" ELSE "idle"
    /\ seen' = {}
    /\ UNCHANGED <<card, rxvars, todo, requests, told, txvars>>

(* The readers that were put off are tried again, in their order.  All of  *)
(* them read, so that one that finds nothing ends the loop, up to a frame  *)
(* that comes meanwhile; its interrupt is still to be handled.             *)
retry ==
    /\ pc = "todo"
    /\ IF todo # <<>> /\ readable # {}
       THEN /\ todo' = Tail(todo)
            /\ \E i \in readable : read(i)
            /\ UNCHANGED pc
       ELSE pc' = "next" /\ UNCHANGED <<todo, rxvars>>
    /\ UNCHANGED <<card, isr, event, seen, requests, told, txvars>>

(* next_read: a frame is left, and the run loop sends an event.            *)
next_read ==
    /\ pc = "next"
    /\ told' = (told \/ readable # {})
    /\ pc' = "idle"
    /\ UNCHANGED <<card, rxvars, isr, event, seen, todo, requests, txvars>>

(* The callback of network:, one request after the other, then next_read.  *)
socket ==
    /\ pc = "idle" /\ requests # <<>>
    /\ pc' = "socket"
    /\ UNCHANGED <<card, rxvars, isr, event, seen, todo, requests, told, txvars>>

socket_end ==
    /\ pc = "socket" /\ requests = <<>>
    /\ pc' = "next"
    /\ UNCHANGED <<card, rxvars, isr, event, seen, todo, requests, told, txvars>>

(* A read without a frame is put off, or answered with 0 for ethernetd,    *)
(* which then waits for an event; it reads again after a frame.            *)
socket_read ==
    /\ pc = "socket" /\ requests # <<>> /\ Head(requests).op = "read"
    /\ LET by == Head(requests).by
       IN  IF readable # {}
           THEN /\ \E i \in readable : read(i)
                /\ requests' = IF by = "ethernetd" THEN Append(Tail(requests), Head(requests)) ELSE Tail(requests)
                /\ UNCHANGED todo
           ELSE /\ requests' = Tail(requests)
                /\ todo' = IF by = "ethernetd" THEN todo ELSE Append(todo, by)
                /\ UNCHANGED rxvars
    /\ UNCHANGED <<card, isr, event, pc, seen, told, txvars>>

(* write: the free descriptor at the tail, or the first that is not owned, *)
(* as a set; none, and the driver polls.                                   *)
free == IF card = "e1000" THEN {i \in {TDT} : next(TDT) # TDH}
        ELSE {i \in Ring : i \notin own /\ \A j \in Ring : j < i => j \in own}

socket_write ==
    /\ pc = "socket" /\ requests # <<>> /\ Head(requests).op = "write"
    /\ \E i \in free :
          /\ tx' = [tx EXCEPT ![i] = wrote + 1]
          /\ own' = own \cup {i}
          /\ TDT' = IF card = "e1000" THEN next(TDT) ELSE TDT
    /\ wrote' = wrote + 1
    /\ pc' = "sending"
    /\ UNCHANGED <<card, rxvars, isr, event, seen, todo, requests, told, TDH, out>>

(* The driver polls until the frame is sent, and answers.                  *)
answer ==
    /\ pc = "sending" /\ own = {}
    /\ requests' = Tail(requests) /\ pc' = "socket"
    /\ UNCHANGED <<card, rxvars, isr, event, seen, todo, told, txvars>>
-----------------------------------------------------------------------------
asks(by) == \E k \in DOMAIN requests : requests[k].by = by
waits(by) == \E k \in DOMAIN todo : todo[k] = by

(* A thread reads; ethernetd does when it has an event, or writes.         *)
request(by, op) ==
    /\ pc # "start" /\ ~asks(by) /\ ~waits(by)
    /\ op = "write" => wrote < MaxSend
    /\ by = "ethernetd" /\ op = "read" => told
    /\ told' = IF by = "ethernetd" /\ op = "read" THEN FALSE ELSE told
    /\ requests' = Append(requests, [by |-> by, op |-> op])
    /\ UNCHANGED <<card, rxvars, isr, event, pc, seen, todo, txvars>>

driver ==
    \/ trigger_all \/ irq_read \/ irq_clear \/ retry \/ next_read
    \/ socket \/ socket_end \/ socket_read \/ socket_write \/ answer

Next ==
    \/ arrive \/ sent \/ driver
    \/ \E by \in Readers : request(by, "read")
    \/ request("ethernetd", "read") \/ request("ethernetd", "write")

Spec == Init /\ [][Next]_vars
-----------------------------------------------------------------------------
ringed == {rx[i].frame : i \in {j \in Ring : rx[j].full}}

(* Every frame the card has put into its ring is given to one reader, or   *)
(* is still in the ring, also when the ring wraps around while it is read; *)
(* the e1000 gives them in the order they came.  The frames sent are those *)
(* written, in that order, and no buffer is written before it is sent.     *)
FramesExact ==
    /\ {got[k] : k \in DOMAIN got} \cup ringed = 1 .. came
    /\ Len(got) + Cardinality(ringed) = came
    /\ card = "e1000" => \A k \in DOMAIN got : got[k] = k
    /\ \A k \in DOMAIN out : out[k] = k
    /\ wrote = Len(out) + Cardinality(own)

(* A driver that has nothing to do has left nobody to wait: while a frame  *)
(* can be read no reader that was put off waits for it, and ethernetd has  *)
(* an event or has asked.  This needs the register to be cleared before    *)
(* the ring is looked at, and trigger_all for the frames that came early.  *)
NoFrameStuck ==
    (pc = "idle" /\ ~event /\ requests = <<>> /\ readable # {}) => (todo = <<>> /\ told)

(* The drivers of network cards as a whole.                                *)
NicExact == FramesExact /\ NoFrameStuck
=============================================================================

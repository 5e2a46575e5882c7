--------------------------------- MODULE Irq ---------------------------------
(***************************************************************************)
(* Interrupt lines that drivers in user space handle: the handlers of      *)
(* arch/x86_64/src/interrupt/irq.rs, the scheme irq: of                    *)
(* kernel/scheme/irq.rs, and drivers that wait in an event queue, read the *)
(* count of a line, serve the device and write the count back.  ps2d does  *)
(* so if the count has changed; e1000d and rtl8168d if their card says     *)
(* that it has interrupted.                                                *)
(*                                                                         *)
(* The two interrupt controllers are those bootloader/x86_64 sets up: edge *)
(* triggered, fully nested, with the slave at line 2 of the master, and    *)
(* with end-of-interrupt commands that name no line.                       *)
(***************************************************************************)
EXTENDS Naturals, Sequences, FiniteSets, FiniteSetsExt, FiniteSetTheorems, TLAPS

CONSTANTS
    Lines,     \* the lines that devices use, without the cascade
    UserAcked, \* the lines whose handlers leave the acknowledgement to a driver
    Drivers,
    DriverOf,  \* the driver of a line of UserAcked
    Cards,     \* the lines of network cards
    MaxRaised, \* bounds on the interrupts of the lines
    None

ASSUME IrqAssumption ==
    /\ Lines \subseteq 0 .. 15 \ {2}
    /\ UserAcked \subseteq Lines \cap {1, 10, 11, 12}
    /\ DriverOf \in [UserAcked -> Drivers]
    /\ Cards \subseteq UserAcked \cap {10, 11}
    /\ MaxRaised \in [Lines -> Nat]
    /\ None \notin Lines

VARIABLES
    raised,   \* how often the device of a line has raised it
    isr,      \* the cards that have something to say: ICR or ISR is not 0
    irr,      \* the lines that request an interrupt
    master,   \* the levels of the master in service
    slave,    \* the lines of the slave in service
    COUNTS,
    ACKS,
    queue,    \* the events of a driver
    stale,    \* a driver has cleared a card that interrupted after it had
              \* read the count
    again,    \* a line has interrupted before its last interrupt was acknowledged
    driver    \* <<"start">>, <<"wait">>, or <<"serve", line, count>> before
              \* the driver looks at the card, <<"ack", line, count>> after

vars == <<raised, isr, irr, master, slave, COUNTS, ACKS, queue, stale, again, driver>>

(* The types, and no line counts more interrupts than its device raised.   *)
TypeOK ==
    /\ \A l \in Lines : ACKS[l] <= COUNTS[l] /\ COUNTS[l] <= raised[l] /\ raised[l] <= MaxRaised[l]
    /\ raised \in [Lines -> Nat] /\ COUNTS \in [Lines -> Nat] /\ ACKS \in [Lines -> Nat]
    /\ isr \subseteq Cards /\ irr \subseteq Lines
    /\ master \subseteq 0 .. 7 /\ slave \subseteq 8 .. 15
    /\ queue \in [Drivers -> Seq(UserAcked)]
    /\ stale \in BOOLEAN /\ again \in BOOLEAN
    /\ driver \in [Drivers -> {<<"start">>, <<"wait">>} \cup
                              ({"serve", "ack"} \X UserAcked \X Nat)]

Init ==
    /\ raised = [l \in Lines |-> 0]
    /\ isr = {} /\ irr = {}
    /\ master = {} /\ slave = {}
    /\ COUNTS = [l \in Lines |-> 0] /\ ACKS = [l \in Lines |-> 0]
    /\ queue = [d \in Drivers |-> <<>>]
    /\ stale = FALSE /\ again = FALSE
    /\ driver = [d \in Drivers |-> <<"start">>]

-----------------------------------------------------------------------------
(* The level of the master at which a line interrupts.                     *)
level(l) == IF l < 8 THEN l ELSE 2

(* An end-of-interrupt command ends the service of the highest priority.   *)
eoi(levels) == IF levels = {} THEN {} ELSE levels \ {Min(levels)}

(* Bug: the slave is acknowledged and the master is not.                   *)
acknowledge_slave_only(l) ==
    /\ slave' = IF l >= 8 THEN eoi(slave) ELSE slave
    /\ master' = IF l >= 8 THEN master ELSE eoi(master)

(* acknowledge, master_ack and slave_ack                                   *)
acknowledge(l) ==
    /\ slave' = IF l >= 8 THEN eoi(slave) ELSE slave
    /\ master' = eoi(master)

(* A device raises its line.  The line of a card stays up until its driver *)
(* has read the register.                                                  *)
raise(l) ==
    /\ raised[l] < MaxRaised[l]
    /\ l \notin irr \cup isr
    /\ raised' = [raised EXCEPT ![l] = @ + 1]
    /\ isr' = isr \cup ({l} \cap Cards)
    /\ irr' = irr \cup {l}
    /\ UNCHANGED <<master, slave, COUNTS, ACKS, queue, stale, again, driver>>

(* The controllers interrupt the CPU for l: nothing of the same or a       *)
(* higher priority is in service or requests service.                      *)
Accepted(l) ==
    /\ l \in irr
    /\ \A x \in master : level(l) < x
    /\ \A x \in slave : l >= 8 => l < x
    /\ \A x \in irr \ {l} : level(l) < level(x) \/ (level(l) = level(x) /\ l < x)

(* irq_trigger: the count goes up, and the driver gets an event if it has  *)
(* registered for the line.                                                *)
irq_trigger(l) ==
    /\ COUNTS' = [COUNTS EXCEPT ![l] = @ + 1]
    /\ queue' = IF l \in UserAcked /\ driver[DriverOf[l]] # <<"start">>
                THEN [queue EXCEPT ![DriverOf[l]] = Append(@, l)] ELSE queue

(* The lines whose last interrupt the driver has yet to acknowledge.       *)
pending == {l \in UserAcked : ACKS[l] # COUNTS[l]}

(* The handler of a line of UserAcked: keyboard, pci2, pci3, mouse.        *)
handler_user(l) ==
    /\ l \in UserAcked
    /\ Accepted(l)
    /\ irr' = irr \ {l}
    /\ master' = master \cup {level(l)}
    /\ slave' = IF l >= 8 THEN slave \cup {l} ELSE slave
    /\ irq_trigger(l)
    /\ again' = (again \/ l \in pending)
    /\ UNCHANGED <<raised, isr, ACKS, stale, driver>>

(* The other handlers acknowledge the line themselves before they return,  *)
(* which ends the service of l again.  pit does not call irq_trigger.      *)
handler_kernel(l) ==
    /\ l \notin UserAcked
    /\ Accepted(l)
    /\ irr' = irr \ {l}
    /\ IF l = 0 THEN UNCHANGED <<COUNTS, queue>> ELSE irq_trigger(l)
    /\ UNCHANGED <<raised, isr, master, slave, ACKS, stale, again, driver>>

-----------------------------------------------------------------------------
(* A driver opens its lines and asks for their events.  It then looks at   *)
(* each line once, as event_queue.trigger_all does.                        *)
start(d) ==
    /\ driver[d] = <<"start">>
    /\ driver' = [driver EXCEPT ![d] = <<"wait">>]
    /\ \E s \in [1 .. Cardinality({l \in UserAcked : DriverOf[l] = d}) -> UserAcked] :
         /\ {s[i] : i \in DOMAIN s} = {l \in UserAcked : DriverOf[l] = d}
         /\ queue' = [queue EXCEPT ![d] = s]
    /\ UNCHANGED <<raised, isr, irr, master, slave, COUNTS, ACKS, stale, again>>

(* The driver takes an event and reads the line: IrqScheme::read returns   *)
(* the count if it is not acknowledged yet.  The driver of a card does not *)
(* look at the result, and keeps a 0.                                      *)
read(d) ==
    LET l == Head(queue[d])
        new == ACKS[l] # COUNTS[l]
    IN  /\ driver[d] = <<"wait">>
        /\ queue[d] # <<>>
        /\ queue' = [queue EXCEPT ![d] = Tail(@)]
        /\ driver' = [driver EXCEPT ![d] =
                         CASE l \in Cards -> <<"serve", l, IF new THEN COUNTS[l] ELSE 0>>
                           [] l \notin Cards /\ new -> <<"ack", l, COUNTS[l]>>
                           [] OTHER -> <<"wait">>]
        /\ UNCHANGED <<raised, isr, irr, master, slave, COUNTS, ACKS, stale, again>>

(* device.irq(): the driver reads and clears the register of the card, and *)
(* the line falls.  If the card says nothing the driver writes nothing.    *)
irq(d) ==
    LET l == driver[d][2]
    IN  /\ driver[d][1] = "serve"
        /\ driver' = [driver EXCEPT ![d] = IF l \in isr THEN <<"ack", l, driver[d][3]>>
                                                       ELSE <<"wait">>]
        /\ isr' = isr \ {l}
        /\ irr' = IF l \in isr THEN irr \ {l} ELSE irr
        /\ stale' = (stale \/ (l \in isr /\ driver[d][3] # raised[l]))
        /\ UNCHANGED <<raised, master, slave, COUNTS, ACKS, queue, again>>

(* The driver writes the count back.  IrqScheme::write acknowledges unless *)
(* the line has interrupted again.                                         *)
write(d) ==
    /\ driver[d][1] = "ack"
    /\ driver' = [driver EXCEPT ![d] = <<"wait">>]
    /\ LET l == driver[d][2]
           ack == driver[d][3]
       IN  IF ack = COUNTS[l]
           THEN ACKS' = [ACKS EXCEPT ![l] = ack] /\ acknowledge(l)
           ELSE UNCHANGED <<ACKS, master, slave>>
    /\ UNCHANGED <<raised, isr, irr, COUNTS, queue, stale, again>>

Next ==
    \/ \E l \in Lines : raise(l) \/ handler_user(l) \/ handler_kernel(l)
    \/ \E d \in Drivers : start(d) \/ read(d) \/ irq(d) \/ write(d)

Spec == Init /\ [][Next]_vars

(* Interrupts are enabled whenever a program runs, and drivers run.        *)
Fairness ==
    /\ WF_vars(\E l \in Lines : handler_user(l) \/ handler_kernel(l))
    /\ \A d \in Drivers : WF_vars(start(d) \/ read(d) \/ irq(d) \/ write(d))

-----------------------------------------------------------------------------
(* What the acknowledgements of drivers leave in service.  A line of the   *)
(* slave is in service exactly while its driver has not acknowledged it,   *)
(* and the keyboard at most then.  The keyboard interrupts while a line of *)
(* the slave is in service, and when ps2d or a driver of a card            *)
(* acknowledges that line first, the command for the master ends the       *)
(* service of the keyboard, and level 2 stays in service instead of it.    *)
(* The acknowledgement of the keyboard puts this right, unless the         *)
(* keyboard interrupts again before it: a command is then missing, and     *)
(* from there on level 2 is in service and no line of the slave.           *)
(* The exception is a driver that clears a card which interrupted after it *)
(* read the count, which trigger_all makes possible when a driver starts:  *)
(* it writes an old count back, which is refused, or for an interrupt that *)
(* has yet to come, and the next event finds a card that says nothing.     *)
InServiceExact ==
    ~stale =>
        /\ slave = pending \ {1}
        /\ slave # {} => 2 \in master
        /\ 1 \in master => 1 \in pending
        /\ IF again THEN 2 \in master /\ slave = {}
           ELSE (2 \in master /\ slave = {}) <=> (1 \in pending /\ 1 \notin master)

(* Every interrupt of a driver's line is acknowledged in the end.          *)
Acknowledged ==
    \A l \in UserAcked : (ACKS[l] # COUNTS[l]) ~> (ACKS[l] = COUNTS[l] \/ stale)
-----------------------------------------------------------------------------
(* What is in service after any sequence of acknowledgements, for any      *)
(* number of drivers, lines and interrupts.                                *)

(* Lines of the slave are not nested; the keyboard may be above one.  Once *)
(* a command is missing, the keyboard is in service until acknowledged.    *)
Nested ==
    /\ master \subseteq {1, 2}
    /\ slave = {} \/ \E l \in UserAcked \ {1} : slave = {l}
    /\ again /\ 1 \in pending => 1 \in master

(* A driver handles its own lines only.                                    *)
OwnLines ==
    /\ queue \in [Drivers -> Seq(UserAcked)]
    /\ driver \in [Drivers -> {<<"start">>, <<"wait">>} \cup ({"serve", "ack"} \X UserAcked \X Nat)]
    /\ \A d \in Drivers : \A i \in 1 .. Len(queue[d]) : DriverOf[queue[d][i]] = d
    /\ \A d \in Drivers : driver[d][1] \in {"serve", "ack"} => DriverOf[driver[d][2]] = d

(* The count a driver has read is not acknowledged yet, or is the 0 that   *)
(* the driver of a card keeps.                                             *)
Unacknowledged ==
    /\ \A d \in Drivers : driver[d][1] = "serve" =>
         driver[d][2] \in Cards /\ (driver[d][3] = 0 \/ driver[d][3] # ACKS[driver[d][2]])
    /\ ~stale => \A d \in Drivers : driver[d][1] = "ack" => driver[d][3] # ACKS[driver[d][2]]

Counted ==
    /\ raised \in [Lines -> Nat] /\ COUNTS \in [Lines -> Nat] /\ ACKS \in [Lines -> Nat]
    /\ isr \subseteq Cards /\ \A l \in isr : raised[l] > 0
    /\ \A l \in Lines : ACKS[l] <= COUNTS[l]

IInv == Counted /\ OwnLines /\ Unacknowledged /\ (~stale => Nested) /\ InServiceExact

(* The highest priority of one level, and of the two that are nested.      *)
LEMMA HighestFirst ==
    /\ \A x \in {1, 2, 10, 11, 12} : eoi({x}) = {}
    /\ eoi({1, 2}) = {2}
<1>1. ASSUME NEW x \in {1, 2, 10, 11, 12}  PROVE eoi({x}) = {}
  <2>1. \E y \in {x} : \A z \in {x} : y <= z
    OBVIOUS
  <2>2. Min({x}) \in {x}
    BY <2>1 DEF Min
  <2> QED
    BY <2>2 DEF eoi
<1>2. eoi({1, 2}) = {2}
  <2>1. 1 \in {1, 2} /\ \A z \in {1, 2} : 1 <= z
    OBVIOUS
  <2>2. Min({1, 2}) \in {1, 2} /\ \A z \in {1, 2} : Min({1, 2}) <= z
    BY <2>1 DEF Min
  <2>3. Min({1, 2}) = 1
    BY <2>2
  <2> QED
    BY <2>3 DEF eoi
<1> QED
  BY <1>1, <1>2

LEMMA LineLevels ==
    /\ UserAcked \subseteq Nat /\ UserAcked \subseteq Lines
    /\ \A l \in UserAcked : level(l) \in Nat
  BY IrqAssumption DEF level

LEMMA InitHolds == Init => IInv
<1> SUFFICES ASSUME Init PROVE IInv
  OBVIOUS
<1>1. Counted /\ Nested
  BY LineLevels DEF Init, Counted, Nested, pending
<1>2. OwnLines /\ Unacknowledged
  BY DEF Init, OwnLines, Unacknowledged
<1>3. InServiceExact
  BY LineLevels DEF Init, InServiceExact, pending
<1> QED
  BY <1>1, <1>2, <1>3 DEF IInv

LEMMA RaiseKeeps ==
    ASSUME IInv, NEW l \in Lines, raise(l)
    PROVE  IInv'
<1>1. Counted'
  BY DEF IInv, Counted, raise
<1>2. OwnLines' /\ Unacknowledged' /\ (~stale => Nested)' /\ InServiceExact'
  BY DEF IInv, OwnLines, Unacknowledged, Nested, InServiceExact, pending, raise
<1> QED
  BY <1>1, <1>2 DEF IInv

(* An event for a line goes to the driver of the line.                     *)
LEMMA TriggerKeeps ==
    ASSUME IInv, NEW l \in Lines, irq_trigger(l), UNCHANGED <<raised, isr, ACKS, driver>>
    PROVE  Counted' /\ OwnLines'
<1>1. Counted'
  BY DEF IInv, Counted, irq_trigger
<1>2. CASE queue' = queue
  BY <1>1, <1>2 DEF IInv, OwnLines
<1>3. CASE /\ l \in UserAcked
           /\ queue' = [queue EXCEPT ![DriverOf[l]] = Append(@, l)]
  <2> DEFINE d == DriverOf[l]
             q == queue[d]
  <2>1. d \in Drivers /\ q \in Seq(UserAcked)
    BY <1>3, IrqAssumption DEF IInv, OwnLines
  <2>2. queue' \in [Drivers -> Seq(UserAcked)] /\ queue'[d] = Append(q, l)
    BY <1>3, <2>1 DEF IInv, OwnLines
  <2>3. \A e \in Drivers : \A i \in 1 .. Len(queue'[e]) : DriverOf[queue'[e][i]] = e
    <3>1. ASSUME NEW i \in 1 .. Len(Append(q, l))
          PROVE  DriverOf[Append(q, l)[i]] = d
      <4>1. \A j \in 1 .. Len(q) : DriverOf[q[j]] = d
        BY <2>1 DEF IInv, OwnLines
      <4> QED
        BY <2>1, <4>1, <1>3
    <3>2. \A e \in Drivers : e # d => queue'[e] = queue[e]
      BY <1>3, <2>1 DEF IInv, OwnLines
    <3> HIDE DEF d, q
    <3> QED
      BY <2>2, <3>1, <3>2 DEF IInv, OwnLines
  <2> QED
    BY <1>1, <2>2, <2>3 DEF IInv, OwnLines
<1> QED
  BY <1>1, <1>2, <1>3 DEF irq_trigger

LEMMA UserHandlerKeeps ==
    ASSUME IInv, NEW l \in Lines, handler_user(l)
    PROVE  IInv'
<1>1. Counted' /\ OwnLines'
  BY TriggerKeeps DEF handler_user
<1>2. Unacknowledged'
  BY DEF IInv, Unacknowledged, handler_user
<1>3. ASSUME ~stale
      PROVE  Nested' /\ InServiceExact'
  <2>1. /\ l \in UserAcked /\ l \in {1, 10, 11, 12} /\ stale' = stale
        /\ again' = (again \/ l \in pending)
        /\ master' = master \cup {level(l)} /\ slave' = IF l >= 8 THEN slave \cup {l} ELSE slave
        /\ \A x \in master : level(l) < x
    BY IrqAssumption DEF handler_user, Accepted
  <2>2. pending' = pending \cup {l}
    <3>1. /\ ACKS' = ACKS /\ COUNTS \in [Lines -> Nat]
          /\ COUNTS' = [COUNTS EXCEPT ![l] = @ + 1]
      BY DEF handler_user, irq_trigger, IInv, Counted
    <3>2. ACKS[l] \in Nat /\ ACKS[l] <= COUNTS[l]
      BY DEF IInv, Counted
    <3>3. ACKS'[l] # COUNTS'[l]
      BY <3>1, <3>2
    <3> QED
      BY <2>1, <3>1, <3>3, LineLevels DEF pending
  <2>3. CASE l = 1
    <3>1. master' = master \cup {1} /\ slave' = slave /\ 1 \notin master
      BY <2>1, <2>3 DEF level
    <3> QED
      <4>1. Nested'
        BY <1>3, <2>1, <2>2, <2>3, <3>1 DEF IInv, Nested, InServiceExact
      <4>2. slave' = pending' \ {1} /\ (slave' # {} => 2 \in master') /\ 1 \in pending'
        BY <1>3, <2>2, <2>3, <3>1 DEF IInv, InServiceExact
      <4>3. again' => 2 \in master' /\ slave' = {}
        BY <1>3, <2>1, <2>3, <3>1 DEF IInv, InServiceExact
      <4>4. ~again' => ~(2 \in master' /\ slave' = {})
        <5>1. ~again' => ~again /\ 1 \notin pending
          BY <2>1, <2>3
        <5>2. ~again => ((2 \in master /\ slave = {}) <=> (1 \in pending /\ 1 \notin master))
          BY <1>3 DEF IInv, InServiceExact
        <5>3. (2 \in master' <=> 2 \in master) /\ slave' = slave
          BY <3>1
        <5> QED
          BY <5>1, <5>2, <5>3
      <4>5. 1 \in master'
        BY <3>1
      <4> QED
        BY <4>1, <4>2, <4>3, <4>4, <4>5 DEF InServiceExact
  <2>4. CASE l # 1
    <3>1. level(l) = 2 /\ l >= 8
      BY <2>1, <2>4 DEF level
    <3>2. master = {} /\ slave = {}
      BY <1>3, <2>1, <3>1 DEF IInv, Nested, InServiceExact
    <3>3. master' = {2} /\ slave' = {l}
      BY <2>1, <3>1, <3>2
    <3>4. ~again /\ pending = {}
      BY <1>3, <3>2 DEF IInv, InServiceExact
    <3> QED
      <4>1. pending' = {l} /\ ~again'
        BY <2>1, <2>2, <3>4
      <4>2. Nested'
        BY <2>1, <2>4, <3>3, <4>1 DEF Nested
      <4>3. InServiceExact'
        BY <2>1, <2>4, <3>3, <4>1 DEF InServiceExact
      <4> QED
        BY <4>2, <4>3
  <2> QED
    BY <2>3, <2>4
<1> QED
  BY <1>1, <1>2, <1>3 DEF IInv, InServiceExact, handler_user

LEMMA KernelHandlerKeeps ==
    ASSUME IInv, NEW l \in Lines, handler_kernel(l)
    PROVE  IInv'
<1>1. Counted' /\ OwnLines'
  <2>1. CASE l = 0
    BY <2>1 DEF IInv, Counted, OwnLines, handler_kernel
  <2>2. CASE l # 0
    BY <2>2, TriggerKeeps DEF handler_kernel
  <2> QED
    BY <2>1, <2>2
<1>2. \A x \in UserAcked : COUNTS'[x] = COUNTS[x]
  BY LineLevels DEF IInv, Counted, handler_kernel, irq_trigger
<1>3. Unacknowledged' /\ (~stale => Nested)' /\ InServiceExact'
  BY <1>2 DEF IInv, Unacknowledged, Nested, InServiceExact, pending, handler_kernel
<1> QED
  BY <1>1, <1>3 DEF IInv

LEMMA StartKeeps ==
    ASSUME IInv, NEW d \in Drivers, start(d)
    PROVE  IInv'
<1> DEFINE own == {l \in UserAcked : DriverOf[l] = d}
<1>1. Cardinality(own) \in Nat
  <2>1. IsFiniteSet(0 .. 15)
    <3>1. 0 \in Int /\ 15 \in Int
      OBVIOUS
    <3> QED
      BY <3>1, FS_Interval
  <2>2. own \subseteq 0 .. 15
    BY IrqAssumption
  <2> QED
    BY <2>1, <2>2, FS_Subset, FS_CardinalityType
<1>2. PICK s \in [1 .. Cardinality(own) -> UserAcked] :
        {s[i] : i \in DOMAIN s} = own /\ queue' = [queue EXCEPT ![d] = s]
  BY DEF start
<1>3. s \in Seq(UserAcked) /\ \A i \in 1 .. Len(s) : DriverOf[s[i]] = d
  <2>1. ASSUME NEW k \in Nat, NEW t \in [1 .. k -> UserAcked]
        PROVE  t \in Seq(UserAcked) /\ DOMAIN t = 1 .. Len(t)
    OBVIOUS
  <2>2. \A i \in DOMAIN s : s[i] \in own
    BY <1>2
  <2> QED
    BY <1>1, <2>1, <2>2
<1> HIDE DEF own
<1>4. driver' = [driver EXCEPT ![d] = <<"wait">>]
  BY DEF start
<1>5. OwnLines'
  BY <1>2, <1>3, <1>4 DEF IInv, OwnLines
<1>6. Counted' /\ (~stale => Nested)' /\ InServiceExact'
  BY DEF IInv, Counted, Nested, InServiceExact, pending, start
<1>7. Unacknowledged'
  BY <1>4 DEF IInv, OwnLines, Unacknowledged, start
<1> QED
  BY <1>5, <1>6, <1>7 DEF IInv

LEMMA ReadKeeps ==
    ASSUME IInv, NEW d \in Drivers, read(d)
    PROVE  IInv'
<1> DEFINE l == Head(queue[d])
           r == CASE l \in Cards ->
                       <<"serve", l, IF ACKS[l] # COUNTS[l] THEN COUNTS[l] ELSE 0>>
                  [] l \notin Cards /\ ACKS[l] # COUNTS[l] -> <<"ack", l, COUNTS[l]>>
                  [] OTHER -> <<"wait">>
<1>1. queue[d] \in Seq(UserAcked) /\ queue[d] # <<>>
  BY DEF IInv, OwnLines, read
<1>2. l \in UserAcked /\ DriverOf[l] = d /\ COUNTS[l] \in Nat /\ ACKS[l] \in Nat
  <2>1. l \in UserAcked /\ l = queue[d][1] /\ 1 \in 1 .. Len(queue[d])
    BY <1>1
  <2> QED
    BY <2>1, LineLevels, ZenonT(60) DEF IInv, OwnLines, Counted
<1>3. queue' = [queue EXCEPT ![d] = Tail(@)] /\ driver' = [driver EXCEPT ![d] = r]
  BY DEF read
<1>4. \/ r = <<"wait">>
      \/ /\ r[1] = "serve" /\ r[2] = l /\ l \in Cards
         /\ r \in {"serve", "ack"} \X UserAcked \X Nat
         /\ r[3] = 0 \/ r[3] # ACKS[l]
      \/ /\ r[1] = "ack" /\ r[2] = l /\ r[3] # ACKS[l]
         /\ r \in {"serve", "ack"} \X UserAcked \X Nat
  BY <1>2
<1> HIDE DEF r
<1>5. Tail(queue[d]) \in Seq(UserAcked)
      /\ \A i \in 1 .. Len(Tail(queue[d])) : DriverOf[Tail(queue[d])[i]] = d
  <2>1. \A i \in 1 .. Len(queue[d]) : DriverOf[queue[d][i]] = d
    BY DEF IInv, OwnLines
  <2>2. \A i \in 1 .. Len(Tail(queue[d])) :
          Tail(queue[d])[i] = queue[d][i + 1] /\ i + 1 \in 1 .. Len(queue[d])
    BY <1>1
  <2> QED
    BY <1>1, <2>1, <2>2
<1>6. OwnLines'
  <2>1. \A e \in Drivers : \A i \in 1 .. Len(queue'[e]) : DriverOf[queue'[e][i]] = e
    BY <1>3, <1>5 DEF IInv, OwnLines
  <2>2. queue' \in [Drivers -> Seq(UserAcked)]
    BY <1>3, <1>5 DEF IInv, OwnLines
  <2>3. \A e \in Drivers : driver'[e][1] \in {"serve", "ack"} => DriverOf[driver'[e][2]] = e
    BY <1>2, <1>3, <1>4 DEF IInv, OwnLines
  <2>4. driver' \in [Drivers -> {<<"start">>, <<"wait">>} \cup ({"serve", "ack"} \X UserAcked \X Nat)]
    BY <1>3, <1>4 DEF IInv, OwnLines
  <2> QED
    BY <2>1, <2>2, <2>3, <2>4 DEF OwnLines
<1>7. Counted' /\ (~stale => Nested)' /\ InServiceExact'
  BY DEF IInv, Counted, Nested, InServiceExact, pending, read
<1>8. Unacknowledged'
  <2>1. ACKS' = ACKS /\ stale' = stale
    BY DEF read
  <2> HIDE DEF l
  <2> QED
    BY <1>3, <1>4, <2>1 DEF IInv, OwnLines, Unacknowledged
<1> QED
  BY <1>6, <1>7, <1>8 DEF IInv

(* What a driver that is at a line works with.                             *)
LEMMA AtLine ==
    ASSUME IInv, NEW d \in Drivers, driver[d][1] \in {"serve", "ack"}
    PROVE  driver[d][2] \in UserAcked /\ driver[d][3] \in Nat /\ DriverOf[driver[d][2]] = d
<1>1. driver[d] \in {<<"start">>, <<"wait">>} \cup ({"serve", "ack"} \X UserAcked \X Nat)
  BY DEF IInv, OwnLines
<1>2. driver[d] # <<"start">> /\ driver[d] # <<"wait">>
  OBVIOUS
<1> QED
  BY <1>1, <1>2 DEF IInv, OwnLines

(* The driver of a card clears it.  If the count it has read is the last   *)
(* one, it is not the 0 of a line that had nothing to say.                 *)
LEMMA ServeKeeps ==
    ASSUME IInv, NEW d \in Drivers, irq(d)
    PROVE  IInv'
<1> DEFINE l == driver[d][2]
           n == driver[d][3]
<1>1. l \in UserAcked /\ n \in Nat /\ DriverOf[l] = d /\ (n = 0 \/ n # ACKS[l])
  BY AtLine DEF IInv, Unacknowledged, irq
<1>2. \/ l \in isr /\ driver' = [driver EXCEPT ![d] = <<"ack", l, n>>]
                  /\ (~stale' => ~stale /\ n = raised[l])
      \/ driver' = [driver EXCEPT ![d] = <<"wait">>] /\ (~stale' => ~stale)
  BY DEF irq
<1>3. ~stale' => ~stale
  BY <1>2
<1>4. l \in isr => raised[l] > 0 /\ raised[l] \in Nat
  BY <1>1, LineLevels DEF IInv, Counted
<1> HIDE DEF l, n
<1>5. OwnLines'
  BY <1>1, <1>2 DEF IInv, OwnLines, irq
<1>6. Counted'
  BY DEF IInv, Counted, irq
<1>7. (~stale => Nested)' /\ InServiceExact'
  BY <1>3 DEF IInv, Nested, InServiceExact, pending, irq
<1>8. Unacknowledged'
  <2>1. ACKS' = ACKS
    BY DEF irq
  <2>2. ~stale' => (driver'[d][1] = "ack" => driver'[d][3] # ACKS[driver'[d][2]])
    BY <1>1, <1>2, <1>4 DEF IInv, OwnLines
  <2>3. \A e \in Drivers : e # d => driver'[e] = driver[e]
    BY <1>2 DEF IInv, OwnLines
  <2>4. driver'[d][1] # "serve"
    BY <1>2 DEF IInv, OwnLines
  <2> QED
    BY <1>3, <2>1, <2>2, <2>3, <2>4 DEF IInv, Unacknowledged
<1> QED
  BY <1>5, <1>6, <1>7, <1>8 DEF IInv

(* A count that is written back and is the last one ends the service of    *)
(* the line, which is the one in service.                                  *)
LEMMA WriteKeeps ==
    ASSUME IInv, NEW d \in Drivers, write(d)
    PROVE  IInv'
<1> DEFINE l == driver[d][2]
           n == driver[d][3]
<1>1. l \in UserAcked /\ n \in Nat /\ DriverOf[l] = d /\ (~stale => n # ACKS[l])
  BY AtLine DEF IInv, Unacknowledged, write
<1>2. /\ driver' = [driver EXCEPT ![d] = <<"wait">>]
      /\ UNCHANGED <<raised, isr, COUNTS, queue, stale, again>>
      /\ IF n = COUNTS[l]
         THEN ACKS' = [ACKS EXCEPT ![l] = n] /\ acknowledge(l)
         ELSE UNCHANGED <<ACKS, master, slave>>
  BY DEF write
<1> HIDE DEF l, n
<1>3. Counted'
  BY <1>1, <1>2 DEF IInv, Counted
<1>4. OwnLines'
  BY <1>2 DEF IInv, OwnLines
<1>5. Unacknowledged'
  <2>1. ASSUME NEW e \in Drivers, driver'[e][1] \in {"serve", "ack"}
        PROVE  driver'[e] = driver[e] /\ ACKS'[driver[e][2]] = ACKS[driver[e][2]]
    <3>1. e # d
      BY <1>2, <2>1 DEF IInv, OwnLines
    <3>2. driver'[e] = driver[e]
      BY <1>2, <3>1 DEF IInv, OwnLines
    <3>3. driver[e][2] # l
      BY <1>1, <2>1, <3>1, <3>2 DEF IInv, OwnLines
    <3>4. driver[e][2] \in Lines
      BY <2>1, <3>2, AtLine, LineLevels
    <3> QED
      BY <1>2, <3>2, <3>3, <3>4 DEF IInv, Counted
  <2> QED
    BY <1>2, <2>1 DEF IInv, Unacknowledged
<1>6. ASSUME ~stale
      PROVE  Nested' /\ InServiceExact'
  <2>1. CASE n # COUNTS[l]
    BY <1>2, <1>6, <2>1 DEF IInv, Nested, InServiceExact, pending
  <2>2. CASE n = COUNTS[l]
    <3>1. /\ l \in {1, 10, 11, 12} /\ l \in pending
          /\ master' = eoi(master) /\ slave' = IF l >= 8 THEN eoi(slave) ELSE slave
          /\ again' = again /\ stale' = stale
      BY <1>1, <1>2, <1>6, <2>2, IrqAssumption DEF acknowledge, pending
    <3>2. pending' = pending \ {l}
      <4>1. ACKS'[l] = COUNTS'[l] /\ COUNTS' = COUNTS /\ \A y \in UserAcked \ {l} : ACKS'[y] = ACKS[y]
        BY <1>1, <1>2, <2>2, LineLevels DEF IInv, Counted
      <4> QED
        BY <4>1 DEF pending
    <3>3. CASE l = 1
      <4>1. slave' = slave
        BY <3>1, <3>3
      <4>2. CASE 1 \in master
        <5>1. master' = master \ {1}
          <6>1. master = {1} \/ master = {1, 2}
            BY <4>2, <1>6 DEF IInv, Nested
          <6> QED
            BY <6>1, <3>1, HighestFirst
        <5> QED
          BY <1>6, <3>1, <3>2, <3>3, <4>1, <4>2, <5>1 DEF IInv, Nested, InServiceExact
      <4>3. CASE 1 \notin master
        <5>1. ~again /\ master = {2} /\ slave = {}
          BY <1>6, <3>1, <3>3, <4>3 DEF IInv, Nested, InServiceExact
        <5>2. master' = {}
          BY <3>1, <5>1, HighestFirst
        <5> QED
          BY <1>6, <3>1, <3>2, <3>3, <4>1, <5>1, <5>2 DEF IInv, Nested, InServiceExact
      <4> QED
        BY <4>2, <4>3
    <3>4. CASE l # 1
      <4>1. slave = {l} /\ 2 \in master /\ ~again
        BY <1>6, <3>1, <3>4 DEF IInv, Nested, InServiceExact
      <4>2. slave' = {}
        BY <3>1, <3>4, <4>1, HighestFirst
      <4>3. CASE 1 \in master
        <5>1. master = {1, 2}
          BY <4>1, <4>3, <1>6 DEF IInv, Nested
        <5>2. master' = {2}
          BY <3>1, <5>1, HighestFirst
        <5> QED
          BY <1>6, <3>1, <3>2, <3>4, <4>1, <4>2, <4>3, <5>2 DEF IInv, Nested, InServiceExact
      <4>4. CASE 1 \notin master
        <5>1. master = {2} /\ 1 \notin pending
          BY <1>6, <4>1, <4>4 DEF IInv, Nested, InServiceExact
        <5>2. master' = {}
          BY <3>1, <5>1, HighestFirst
        <5> QED
          BY <1>6, <3>1, <3>2, <3>4, <4>1, <4>2, <5>1, <5>2 DEF IInv, Nested, InServiceExact
      <4> QED
        BY <4>3, <4>4
    <3> QED
      BY <3>3, <3>4
  <2> QED
    BY <2>1, <2>2
<1> QED
  BY <1>2, <1>3, <1>4, <1>5, <1>6 DEF IInv, InServiceExact

(* What is in service is what InServiceExact says, whichever lines drivers *)
(* acknowledge and in whatever order (irq.rs of arch and of the scheme).   *)
THEOREM ServiceEndsOnce == Spec => []InServiceExact
<1>1. IInv /\ [Next]_vars => IInv'
  <2> SUFFICES ASSUME IInv, [Next]_vars PROVE IInv'
    OBVIOUS
  <2>1. CASE UNCHANGED vars
    BY <2>1 DEF IInv, Counted, OwnLines, Unacknowledged, Nested, InServiceExact, pending, vars
  <2> QED
    BY <2>1, RaiseKeeps, UserHandlerKeeps, KernelHandlerKeeps, StartKeeps, ReadKeeps,
       ServeKeeps, WriteKeeps DEF Next
<1>2. IInv => InServiceExact
  BY DEF IInv
<1> QED
  BY <1>1, <1>2, InitHolds, PTL DEF Spec
=============================================================================

----------------------------- MODULE MCDrivers -----------------------------
(***************************************************************************)
(* The drivers, each with its device: the interrupt lines (Irq), a network *)
(* card, a disk, the display, or keyboard and mouse.  part says which runs.*)
(***************************************************************************)
EXTENDS Irq, Integers

VARIABLES part,
    card, rx, RDH, RDT, came, got, nic_isr, nic_event, nic_pc, seen, todo, requests, told,
    own, tx, TDH, TDT, wrote, out,
    media, handles, next_id, request, sector, buf, data, port, slot, pc, writes, faults, before, result,
    active, text, graphic, on, blocked, unshown, late,
    step, output, enabled, interrupts, mouse_id, extra_packet, lshift, rshift, packets, bytes,
    pos, ref, typed, moved, lost

N == INSTANCE Nic WITH
        Size <- 3, Readers <- {"r"}, MaxArrive <- 5, MaxSend <- 2,
        isr <- nic_isr, event <- nic_event, pc <- nic_pc
A == INSTANCE Ahci WITH
        Sectors <- 3, Unit <- 2, Chunk <- 2, Slots <- 2, Lengths <- {3, 6}, Seeks <- {-3, 3},
        MaxHandles <- 2, MaxWrites <- 1, MaxFaults <- 1
D == INSTANCE Display WITH
        Rows <- {1, 2}, Readers <- {"p", "q"}, Keys <- {"F1", "F2", "ctrl", "up", "del", "enter", "c"},
        MaxInput <- 3
P == INSTANCE Ps2d WITH
        Motions <- {<<3, -256>>, <<255, 2>>, <<-256, -7>>, <<300, 1>>, <<-1, -255>>},
        Width <- 600, Height <- 400, MaxMotions <- 3, MaxTyped <- 2, MaxLost <- 1,
        out <- output, queue <- bytes

nic == <<card, rx, RDH, RDT, came, got, nic_isr, nic_event, nic_pc, seen, todo, requests, told,
         own, tx, TDH, TDT, wrote, out>>
ahci == <<media, handles, next_id, request, sector, buf, data, port, slot, pc, writes, faults, before, result>>
display == <<active, text, graphic, on, blocked, unshown, late>>
ps2 == <<step, output, enabled, interrupts, mouse_id, extra_packet, lshift, rshift, packets, bytes,
         pos, ref, typed, moved, lost>>

(* A network card, and keyboard and mouse, which ps2d has both.            *)
CardLines == {1, 10, 12, 14}
CardRaised == [l \in CardLines |-> IF l \in {1, 10} THEN 2 ELSE 1]
CardDrivers == [l \in {1, 10, 12} |-> IF l = 10 THEN "e1000d" ELSE "ps2d"]

Parts == {"irq", "nic", "disk", "draw", "type", "ps2"}

MCInit ==
    /\ part \in Parts
    /\ Init
    /\ N!Init /\ (part # "nic" => card = "e1000")
    /\ A!Init /\ D!Init
    /\ P!Init /\ (part # "ps2" => mouse_id = 0)

(* The display: what is drawn, or what is typed and read.                  *)
Draws ==
    \/ \E k \in {"F1", "F2", "c"} : D!key(k, TRUE)
    \/ \E raw \in BOOLEAN : D!write_text(raw)
    \/ D!write_graphic \/ D!draw_mapped
    \/ \E id \in D!Screens : D!fsync(id) \/ D!activate(id)

Types ==
    \/ \E k \in {"F1", "F2", "ctrl", "up", "del", "enter", "c"}, pressed \in BOOLEAN : D!key(k, pressed)
    \/ D!write_text(~text.raw_mode)
    \/ \E by \in {"p", "q"}, id \in D!Screens, n \in {1, 2} : D!ask(by, id, n)

MCNext ==
    /\ UNCHANGED part
    /\ \/ part = "irq" /\ Next /\ UNCHANGED <<nic, ahci, display, ps2>>
       \/ part = "nic" /\ N!Next /\ UNCHANGED <<vars, ahci, display, ps2>>
       \/ part = "disk" /\ A!Next /\ UNCHANGED <<vars, nic, display, ps2>>
       \/ part = "draw" /\ Draws /\ UNCHANGED <<vars, nic, ahci, ps2>>
       \/ part = "type" /\ Types /\ UNCHANGED <<vars, nic, ahci, ps2>>
       \/ part = "ps2" /\ P!Next /\ UNCHANGED <<vars, nic, ahci, display>>

MCSpec ==
    /\ MCInit /\ [][MCNext]_<<part, vars, nic, ahci, display, ps2>>
    /\ (part = "irq") => Fairness
    /\ (part = "disk") => A!Fairness

(* Frames of the card reach readers once and in order, those written reach *)
(* the card, and none is stuck while someone waits for it (e1000d and      *)
(* rtl8168d; see Nic).                                                     *)
NicExact == N!NicExact

(* The answer to a request of a disk says what happened on it, whichever   *)
(* of its commands failed (ahcid; see Ahci).                               *)
DiskExact == A!DiskExact

(* The console: what vesad shows and whom it wakes (Display), and what     *)
(* ps2d makes of the bytes of keyboard and mouse (Ps2d).                   *)
ConsoleExact == D!Shown /\ D!NoReaderForgotten /\ P!SetUp /\ P!MouseTracks

(* Devices are answered: an interrupt is acknowledged in the end (Irq),    *)
(* and a request of a disk returns (Ahci).                                 *)
DevicesAnswered == Acknowledged /\ A!DiskAnswers
=============================================================================

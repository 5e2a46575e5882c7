-------------------------------- MODULE Ps2d --------------------------------
(***************************************************************************)
(* ps2d: the driver of the keyboard and the mouse.  It first sets up the   *)
(* controller by a sequence of commands whose replies it asserts, with     *)
(* interrupts disabled, and then turns each byte of a device into events   *)
(* for the display.  The mouse position is that of the graphic screen of   *)
(* vesad, to which the events go.                                          *)
(*                                                                         *)
(* The controller (external) has one queue of output for both devices:     *)
(* what a device sends while a reply is expected stands before the reply.  *)
(***************************************************************************)
EXTENDS Integers, Sequences, FiniteSets

CONSTANTS
    Motions,     \* movements of the mouse between packets, pairs <<dx, dy>>
    Width, Height,
    MaxMotions, MaxTyped, MaxLost

VARIABLES
    step,        \* the step of Ps2::init, or Run or Panic
    out,         \* the output of the controller
    enabled,     \* the devices that may send: "keyboard", "mouse"
    interrupts,  \* the configuration byte enables the interrupts
    mouse_id, extra_packet,
    lshift, rshift,
    packets,     \* the bytes of an incomplete packet of the mouse
    queue,       \* bytes of the mouse that are to be handled
    pos, ref,    \* the position of the pointer, and where it should be
    typed,       \* bytes that the devices sent during the set-up
    moved, lost

vars == <<step, out, enabled, interrupts, mouse_id, extra_packet, lshift, rshift,
          packets, queue, pos, ref, typed, moved, lost>>

initvars == <<step, out, enabled, interrupts, extra_packet>>
runvars == <<lshift, rshift, packets, queue, pos, ref, moved, lost>>
-----------------------------------------------------------------------------
(* What Ps2::init does: each command with the reply that is read for it,   *)
(* and each further reply.  Replies are asserted, but for the              *)
(* configuration byte and the kind of the mouse.                           *)
does(op, reply) == [op |-> op, reply |-> reply]
cmd(op) == <<does(op, "none")>>
ack == <<does("send", "ack")>>
more(reply) == <<does("read", reply)>>

Steps ==
    cmd("disable") \o cmd("flush") \o <<does("config_off", "config")>>
    \o <<does("test", "passed")>> \o cmd("enable")
    \o ack \o more("ok") \o cmd("flush")                    \* reset the keyboard
    \o ack \o ack                                           \* scancode set
    \o ack \o more("ok") \o more("zero") \o cmd("flush")     \* reset the mouse
    \o ack \o ack \o ack \o ack \o ack \o ack                \* three sample rates
    \o ack \o more("id")                                    \* kind of the mouse
    \o ack \o ack                                           \* sample rate
    \o ack \o <<does("mouse_on", "ack")>>                   \* reporting
    \o <<does("config_on", "config")>> \o cmd("flush")

Panic == 0
Run == Len(Steps) + 1
initialising == step \in 1 .. Len(Steps)

Init ==
    /\ step = 1
    /\ out = <<>> /\ enabled = {"keyboard"} /\ interrupts = FALSE
    /\ mouse_id \in {0, 3} /\ extra_packet = FALSE
    /\ lshift = FALSE /\ rshift = FALSE
    /\ packets = <<>> /\ queue = <<>>
    /\ pos = <<0, 0>> /\ ref = <<0, 0>>
    /\ typed = 0 /\ moved = 0 /\ lost = 0

(* A device sends a byte during the set-up (external): a key is pressed,   *)
(* or the mouse moves once it reports.                                     *)
early(device) ==
    /\ initialising /\ typed < MaxTyped /\ device \in enabled
    /\ typed' = typed + 1
    /\ out' = Append(out, "data")
    /\ UNCHANGED <<step, enabled, interrupts, mouse_id, extra_packet, runvars>>

(* One step: the reply (external) comes behind what is there already, and  *)
(* the read takes the first byte.                                          *)
replied(reply) ==
    CASE reply = "none" -> <<>>
      [] reply = "id" /\ mouse_id = 3 -> <<"three">>
      [] OTHER -> <<reply>>

flushed(s, left) == IF s.op = "flush" THEN <<>> ELSE left

init_step ==
    /\ initialising
    /\ LET s   == Steps[step]
           got == out \o replied(s.reply)
       IN  /\ step' = IF s.reply \in {"none", "config", "id"} \/ Head(got) = s.reply THEN step + 1 ELSE Panic
           /\ out' = flushed(s, IF s.reply = "none" THEN got ELSE Tail(got))
           /\ enabled' = CASE s.op = "disable" -> {}
                           [] s.op = "enable" -> {"keyboard"}
                           [] s.op = "mouse_on" -> enabled \cup {"mouse"}
                           [] OTHER -> enabled
           /\ interrupts' = (interrupts \/ s.op = "config_on")
           /\ extra_packet' = IF s.reply = "id" THEN Head(got) = "three" ELSE extra_packet
    /\ UNCHANGED <<mouse_id, typed, runvars>>
-----------------------------------------------------------------------------
byte(n) == n % 256
held(n, m) == IF n < 0 THEN 0 ELSE IF n > m THEN m ELSE n
moves(p, dx, dy) == <<held(p[1] + dx, Width), held(p[2] + dy, Height)>>

(* The mouse sends a packet (external): the signs and the overflows of the *)
(* movement in the first byte, which always has bit 3, its low bytes, and  *)
(* the wheel for a mouse with one.  Up is positive for the mouse.          *)
flags(dx, dy) ==
    8 + (IF dx < 0 THEN 16 ELSE 0) + (IF dy < 0 THEN 32 ELSE 0)
      + (IF dx \notin -256 .. 255 THEN 64 ELSE 0) + (IF dy \notin -256 .. 255 THEN 128 ELSE 0)

move(dx, dy) ==
    /\ step = Run /\ queue = <<>> /\ moved < MaxMotions
    /\ moved' = moved + 1
    /\ queue' = <<flags(dx, dy), byte(dx), byte(dy)>> \o (IF mouse_id = 3 THEN <<0>> ELSE <<>>)
    /\ ref' = IF dx \in -256 .. 255 /\ dy \in -256 .. 255 THEN moves(ref, dx, -dy) ELSE ref
    /\ UNCHANGED <<initvars, mouse_id, lshift, rshift, packets, pos, typed, lost>>

(* A byte of the mouse is lost on its way (external).                      *)
lose ==
    /\ step = Run /\ queue # <<>> /\ lost < MaxLost
    /\ lost' = lost + 1 /\ queue' = Tail(queue)
    /\ UNCHANGED <<initvars, mouse_id, lshift, rshift, packets, pos, ref, typed, moved>>

(* Ps2d::handle of a byte of the mouse.                                    *)
bit(n, b) == (n \div b) % 2 = 1
dx_of(p) == p[2] - (IF bit(p[1], 16) THEN 256 ELSE 0)
dy_unsigned(p) == -p[3]
dy_of(p) == (IF bit(p[1], 32) THEN 256 ELSE 0) - p[3]

handle_mouse ==
    /\ step = Run /\ queue # <<>>
    /\ queue' = Tail(queue)
    /\ LET p == Append(packets, Head(queue))
       IN  CASE ~bit(p[1], 8) -> packets' = <<>> /\ UNCHANGED pos
             [] bit(p[1], 8) /\ Len(p) < (IF extra_packet THEN 4 ELSE 3) -> packets' = p /\ UNCHANGED pos
             [] OTHER ->
                  /\ packets' = <<>>
                  /\ pos' = IF bit(p[1], 64) \/ bit(p[1], 128) THEN pos
                            ELSE moves(pos, dx_of(p), dy_of(p))
    /\ UNCHANGED <<initvars, mouse_id, lshift, rshift, ref, typed, moved, lost>>

(* Ps2d::handle of a byte of the keyboard: 42 and 54 are the shift keys,   *)
(* and the high bit says that a key is released.                           *)
handle_key(data) ==
    /\ step = Run
    /\ lshift' = IF data % 128 = 42 THEN data < 128 ELSE lshift
    /\ rshift' = IF data % 128 = 54 THEN data < 128 ELSE rshift
    /\ UNCHANGED <<initvars, mouse_id, packets, queue, pos, ref, typed, moved, lost>>

Next ==
    \/ \E device \in {"keyboard", "mouse"} : early(device)
    \/ init_step \/ lose \/ handle_mouse
    \/ \E m \in Motions : move(m[1], m[2])
    \/ \E data \in {42, 54, 170, 182} : handle_key(data)

Spec == Init /\ [][Next]_vars
-----------------------------------------------------------------------------
(* Ps2::init ends in the driver unless a device sends meanwhile: no        *)
(* assertion fails.  However it gets there, no reply is left over for the  *)
(* handlers, interrupts are on, and the packets are as long as the mouse   *)
(* sends them, even when a byte came in between that broke no assertion.   *)
SetUp ==
    /\ typed = 0 => step # Panic
    /\ step = Run => out = <<>> /\ interrupts /\ extra_packet = (mouse_id = 3)

(* The pointer is where the movements have brought it, held to the screen, *)
(* with the ninth bit of each in the first byte of its packet; movements   *)
(* that overflow are left out.  After a lost byte it is still on screen.   *)
MouseTracks ==
    /\ pos[1] \in 0 .. Width /\ pos[2] \in 0 .. Height
    /\ (lost = 0 /\ typed = 0 /\ queue = <<>>) => pos = ref
=============================================================================

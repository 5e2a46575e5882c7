------------------------------- MODULE Display -------------------------------
(***************************************************************************)
(* vesad: the scheme display: with a text screen and a graphic screen over *)
(* one frame buffer.  The daemon handles one packet at a time: the packet, *)
(* then the readers it had put off, in their order.  All of it is one      *)
(* action.                                                                 *)
(*                                                                         *)
(* A screen is drawn in an offscreen buffer and copied to the frame buffer *)
(* (sync).  Of both only this is kept: for each row of the frame buffer,   *)
(* the screens whose row it shows as it was drawn last.  What the console  *)
(* library draws for given bytes is left open: any rows.                   *)
(***************************************************************************)
EXTENDS Integers, Sequences, FiniteSets

CONSTANTS
    Rows,         \* the rows of the display
    Readers,      \* threads that read a screen
    Keys,         \* keys pressed: "F1", "F2", "ctrl", "up", "del", "enter", or a character
    MaxInput

Text == 1
Graphic == 2
Screens == {Text, Graphic}

VARIABLES
    active,       \* the screen that is shown
    text,         \* [ctrl, input, end_of_input, cooked, raw_mode, changed]
    graphic,      \* the input of the graphic screen
    on,           \* for each row, the screens that it shows
    blocked,      \* the readers put off, [by, id]
    unshown,      \* rows drawn through fmap since the last fsync
    late          \* the screen was made active by open, and not redrawn

vars == <<active, text, graphic, on, blocked, unshown, late>>

Init ==
    /\ active = Text
    /\ text = [ctrl |-> FALSE, input |-> <<>>, end_of_input |-> FALSE, cooked |-> <<>>,
               raw_mode |-> FALSE, changed |-> {}]
    /\ graphic = <<>>
    /\ on = [r \in Rows |-> Screens] /\ blocked = <<>>
    /\ unshown = {} /\ late = FALSE

(* A state of the daemon during a packet.                                  *)
now == [active |-> active, text |-> text, graphic |-> graphic, on |-> on,
        blocked |-> blocked, unshown |-> unshown, late |-> late]

will_block(d, id) ==
    IF id = Text THEN d.text.input = <<>> /\ ~d.text.end_of_input ELSE d.graphic = <<>>
-----------------------------------------------------------------------------
(* TextScreen::sync copies the rows that have changed, redraw copies all.  *)
copied(d, id, rows) == [r \in Rows |-> IF r \in rows THEN {id} ELSE d.on[r]]

sync(d) == [d EXCEPT !.on = copied(d, Text, d.text.changed), !.text.changed = {}]

redraw(d, id) ==
    LET all == [d EXCEPT !.on = copied(d, id, Rows)]
    IN  IF id = Text THEN [all EXCEPT !.text.changed = {}, !.late = FALSE]
        ELSE [all EXCEPT !.unshown = {}, !.late = FALSE]

drawn(d, id, rows) == [d EXCEPT !.on = [r \in Rows |-> IF r \in rows THEN @[r] \ {id} ELSE @[r]]]

(* TextScreen::write: some rows change, and are shown unless the program   *)
(* has set raw mode.  The bytes may set or leave raw mode.                 *)
text_write(d, rows, raw, shown) ==
    LET e == [drawn(d, Text, rows) EXCEPT !.text.changed = @ \cup rows, !.text.raw_mode = raw]
    IN  IF ~raw /\ shown THEN sync(e) ELSE e

(* GraphicScreen::write                                                    *)
graphic_write(d, rows, shown) ==
    LET e == drawn(d, Graphic, rows)
    IN  IF shown THEN [e EXCEPT !.on = copied(e, Graphic, rows), !.unshown = @ \ rows]
        ELSE [e EXCEPT !.unshown = @ \ rows]
-----------------------------------------------------------------------------
(* The bytes of a key: none for one without a character.                   *)
bytes(d, k) ==
    CASE k = "ctrl" -> <<>>
      [] k = "up" -> <<"esc", "[A">>
      [] k = "c" /\ d.text.ctrl -> <<"^C">>
      [] OTHER -> <<k>>

(* TextScreen::input in cooked mode, one byte: the line is edited, and     *)
(* goes to the input when it is ended.  Each byte is shown, but a delete   *)
(* in an empty line.                                                       *)
cook(d, b, rows) ==
    LET t == d.text
        show(e) == text_write(e, rows, FALSE, TRUE)
    IN  CASE b = "^C"    -> show([d EXCEPT !.text.end_of_input = TRUE])
          [] b = "del"   -> IF t.cooked = <<>> THEN d
                            ELSE show([d EXCEPT !.text.cooked = SubSeq(@, 1, Len(@) - 1)])
          [] b = "esc"   -> show(d)
          [] b = "enter" -> show([d EXCEPT !.text.input = @ \o Append(t.cooked, b), !.text.cooked = <<>>])
          [] OTHER       -> show([d EXCEPT !.text.cooked = Append(@, b)])

text_input(d, k, pressed, rows) ==
    LET bs == bytes(d, k)
        e[i \in 0 .. Len(bs)] == IF i = 0 THEN d ELSE cook(e[i-1], bs[i], rows)
    IN  IF k = "ctrl" THEN [d EXCEPT !.text.ctrl = pressed]
        ELSE IF ~pressed THEN d
        ELSE IF d.text.raw_mode THEN [d EXCEPT !.text.input = @ \o bs]
        ELSE e[Len(bs)]

(* DisplayScheme::write to display:input, with one event of the keyboard.  *)
(* F1 and F2 choose the screen, also when they are released.               *)
screen_of(k) == IF k = "F1" THEN Text ELSE Graphic

input(d, k, pressed, rows) ==
    IF k \in {"F1", "F2"} THEN redraw([d EXCEPT !.active = screen_of(k)], screen_of(k))
    ELSE IF d.active = Text THEN text_input(d, k, pressed, rows)
    ELSE [d EXCEPT !.graphic = Append(@, k)]

(* read: as much as there is, or all that fits; nothing at all ends the    *)
(* end of input.                                                           *)
read(d, id, n) ==
    LET q == IF id = Text THEN d.text.input ELSE d.graphic
        m == IF n < Len(q) THEN n ELSE Len(q)
    IN  IF id = Graphic THEN [d EXCEPT !.graphic = SubSeq(q, m + 1, Len(q))]
        ELSE [d EXCEPT !.text.input = SubSeq(q, m + 1, Len(q)),
                       !.text.end_of_input = IF m = 0 THEN FALSE ELSE @]

(* The loop over the readers that were put off.                            *)
served(d) ==
    LET all == d.blocked
        e[i \in 0 .. Len(all)] ==
            IF i = 0 THEN [d EXCEPT !.blocked = <<>>]
            ELSE IF will_block(e[i-1], all[i].id) THEN [e[i-1] EXCEPT !.blocked = Append(@, all[i])]
            ELSE read(e[i-1], all[i].id, all[i].n)
    IN  e[Len(all)]

packet(d) ==
    LET e == served(d)
    IN  /\ active' = e.active /\ text' = e.text /\ graphic' = e.graphic /\ on' = e.on
        /\ blocked' = e.blocked /\ unshown' = e.unshown /\ late' = e.late
-----------------------------------------------------------------------------
some_rows == (SUBSET Rows) \ {{}}

key(k, pressed) ==
    /\ Len(text.input) + Len(text.cooked) + Len(graphic) + 2 <= MaxInput
    /\ \E rows \in some_rows : packet(input(now, k, pressed, rows))

write_text(raw) ==
    \E rows \in some_rows : packet(text_write(now, rows, raw, active = Text))

write_graphic ==
    \E rows \in some_rows : packet(graphic_write(now, rows, active = Graphic))

(* A program draws in the buffer that fmap has given it.                   *)
draw_mapped ==
    /\ \E rows \in some_rows :
          /\ on' = drawn(now, Graphic, rows).on
          /\ unshown' = unshown \cup rows
    /\ UNCHANGED <<active, text, graphic, blocked, late>>

(* fsync shows a screen that is active.                                    *)
fsync(id) ==
    packet(IF id # active THEN now ELSE IF id = Text THEN sync(now) ELSE redraw(now, Graphic))

(* open of display:<id>/activate does not redraw.                          *)
activate(id) == packet([now EXCEPT !.active = id, !.late = (id # active \/ late)])

(* A reader asks for at most n; it is put off while there is nothing.      *)
ask(by, id, n) ==
    /\ \A k \in DOMAIN blocked : blocked[k].by # by
    /\ packet(IF will_block(now, id) THEN [now EXCEPT !.blocked = Append(@, [by |-> by, id |-> id, n |-> n])]
              ELSE read(now, id, n))

Next ==
    \/ \E k \in Keys, pressed \in BOOLEAN : key(k, pressed)
    \/ \E raw \in BOOLEAN : write_text(raw)
    \/ write_graphic \/ draw_mapped
    \/ \E id \in Screens : fsync(id) \/ activate(id)
    \/ \E by \in Readers, id \in Screens, n \in {1, 2} : ask(by, id, n)

Spec == Init /\ [][Next]_vars
-----------------------------------------------------------------------------
(* The display shows the active screen: each of its rows is what the       *)
(* screen has drawn there last, up to the rows a program has drawn in raw  *)
(* mode or through fmap without fsync.  This holds over changes of screens *)
(* that have drawn while they were hidden, but not after open has made a   *)
(* screen active, until it is redrawn.                                     *)
Shown ==
    late \/ \A r \in Rows : \/ active \in on[r]
                            \/ active = Text /\ text.raw_mode /\ r \in text.changed
                            \/ active = Graphic /\ r \in unshown

(* Between packets no reader waits for a screen that has something for it, *)
(* also when one packet brings the input of several readers.               *)
NoReaderForgotten == \A k \in DOMAIN blocked : will_block(now, blocked[k].id)
=============================================================================

------------------------------- MODULE Smith --------------------------------
(***************************************************************************)
(* The editor smith: a text and the cursor in it, wrapped in a record of   *)
(* what was done to undo and redo it, wrapped in a selection; the modes    *)
(* that decide what a key or the mouse does; and the lines in view.  A     *)
(* text is a sequence of characters and positions count from 0.  Files end *)
(* in a newline, and an editor is followed for as long as its text does.   *)
(***************************************************************************)
EXTENDS Integers, Sequences, FiniteSets, SequencesExt, FiniteSetsExt

CONSTANTS
    Files,       \* the texts a file may hold when it is opened
    Keys,        \* the keys pressed: characters and names of keys
    Clicks,      \* where the mouse points: pairs column, row, from 1
    Height,      \* screen_height
    MaxEvents    \* events treated

VARIABLES
    opened,    \* the text as it was opened
    content,   \* Text: pos and text
    history,   \* Recorded: actions done and undone, newest first
    undone,
    sel,       \* Select: the selection, or nothing
    mode,      \* Command.state: kind, the origin of a selection, the prompt's message
    offset,    \* View.line_offset
    name,      \* the name of the text, and the file it was last saved to
    disk,
    clip,      \* the clipboard
    tip,       \* the content before the undos that led here
    stray,     \* the cursor has been past the last character
    taken,     \* what was there when the last event copied, cut or deleted a selection
    ended,     \* no, exit, panic, noclip (the panic without a clipboard), or no longer followed (cut)
    events     \* how many events there were

vars == <<opened, content, history, undone, sel, mode, offset, name, disk, clip, tip, stray, taken, ended, events>>

TAB_LENGTH == 4
SCROLL_FACTOR == 2
lines_height == IF Height > 2 THEN Height - 2 ELSE 0

least(a, b) == IF a < b THEN a ELSE b
most(a, b) == IF a > b THEN a ELSE b

-----------------------------------------------------------------------------
(* Text.                                                                   *)

at(c, pos) == c.text[pos + 1]
len(c) == Len(c.text)
newlines(t, n) == Cardinality({i \in 1..n : t[i] = "nl"})
line_count(c) == newlines(c.text, len(c))
line(c) == newlines(c.text, c.pos)
line_index_to_char_index(c, l) == Min({i \in 0..len(c) : newlines(c.text, i) = l})
line_end(c, l) == IF l < line_count(c) THEN line_index_to_char_index(c, l + 1) ELSE len(c)
line_size(c, l) == line_end(c, l) - line_index_to_char_index(c, l)
col(c) == c.pos - line_index_to_char_index(c, line(c))
iter_line(c, l) == SubSeq(c.text, line_index_to_char_index(c, l) + 1, line_end(c, l))

move_at(c, l, k) ==
    LET row == least(l, line_count(c) - 1)
    IN  [c EXCEPT !.pos = line_index_to_char_index(c, row) + least(k, line_size(c, row) - 1)]
step(c, mov) ==
    LET l == line(c)
        onto(row) == line_index_to_char_index(c, row) + least(col(c), line_size(c, row) - 1)
        pos == CASE mov = "up" -> IF l > 0 THEN onto(l - 1) ELSE c.pos
                 [] mov = "down" -> IF l < line_count(c) - 1 THEN onto(l + 1) ELSE c.pos
                 [] mov = "pageup" -> line_index_to_char_index(c, IF l < lines_height THEN 0 ELSE l - lines_height)
                 [] mov = "pagedown" -> line_index_to_char_index(c,
                        IF line_count(c) - l < lines_height THEN line_count(c) - 1 ELSE l + lines_height)
                 [] mov = "left" -> most(c.pos - 1, 0)
                 [] mov = "right" -> IF c.pos < len(c) - 1 THEN c.pos + 1 ELSE c.pos
                 [] mov = "home" -> line_index_to_char_index(c, l)
                 [] mov = "end" -> line_index_to_char_index(c, l) + line_size(c, l) - 1
    IN  [c EXCEPT !.pos = pos]
insert_forward(c, x) == [c EXCEPT !.text = InsertAt(c.text, c.pos + 1, x)]
insert(c, x) == [insert_forward(c, x) EXCEPT !.pos = c.pos + 1]
delete_forward(c) == IF c.pos < len(c) - 1 THEN [c EXCEPT !.text = RemoveAt(c.text, c.pos + 1)] ELSE c
delete(c) == IF c.pos = 0 THEN c ELSE [pos |-> c.pos - 1, text |-> RemoveAt(c.text, c.pos)]

-----------------------------------------------------------------------------
(* Action: what was done, joined with what was done just before.           *)

Action(kind, s, rel) == [kind |-> kind, s |-> s, rel |-> rel]
each(c, op(_, _), s) == LET f[i \in 0..Len(s)] == IF i = 0 THEN c ELSE op(f[i - 1], s[i]) IN f[Len(s)]
apply(c, a) ==
    CASE a.kind = "insert" -> each(c, insert, a.s)
      [] a.kind = "delete" -> each(c, LAMBDA d, x : delete(d), a.s)
      [] a.kind = "move" -> [c EXCEPT !.pos = c.pos + a.rel]
      [] a.kind = "deleteforward" -> each(c, LAMBDA d, x : delete_forward(d), a.s)
      [] a.kind = "insertforward" -> each(c, insert_forward, a.s)
Inverse_ == [insert |-> "delete", delete |-> "insert", move |-> "move", deleteforward |-> "insertforward", insertforward |-> "deleteforward"]
invert(a) == Action(Inverse_[a.kind], a.s, -a.rel)
join_appending(a, b) == [a EXCEPT !.s = @ \o b.s, !.rel = @ + b.rel]
join(a, b) ==
    CASE a.kind \in {"insert", "insertforward"} -> [a EXCEPT !.s = @ \o b.s]
      [] a.kind \in {"delete", "deleteforward"} -> [a EXCEPT !.s = b.s \o @]
      [] OTHER -> [a EXCEPT !.rel = @ + b.rel]

\* Recorded: a content with its history and what was undone.
R == [c |-> content, history |-> history, undone |-> undone]
record(r, a) ==
    [r EXCEPT !.undone = <<>>,
              !.history = IF r.history # <<>> /\ r.history[1].kind = a.kind THEN <<join(r.history[1], a)>> \o Tail(r.history)
                          ELSE <<a>> \o r.history]
moved(r, c) == [record(r, Action("move", <<>>, c.pos - r.c.pos)) EXCEPT !.c = c]
inserted(r, x) == [record(r, Action("insert", <<x>>, 0)) EXCEPT !.c = insert(r.c, x)]
deleted(r) == IF r.c.pos = 0 THEN r
              ELSE [record(r, Action("delete", <<at(r.c, r.c.pos - 1)>>, 0)) EXCEPT !.c = delete(r.c)]
deleted_forward(r) == IF r.c.pos >= len(r.c) - 1 THEN r
                      ELSE [record(r, Action("deleteforward", <<at(r.c, r.c.pos)>>, 0)) EXCEPT !.c = delete_forward(r.c)]
undo(r) == IF r.history = <<>> THEN r
           ELSE [c |-> apply(r.c, invert(r.history[1])), history |-> Tail(r.history), undone |-> <<r.history[1]>> \o r.undone]
redo(r) == IF r.undone = <<>> THEN r
           ELSE [c |-> apply(r.c, r.undone[1]), history |-> <<r.undone[1]>> \o r.history, undone |-> Tail(r.undone)]

-----------------------------------------------------------------------------
(* View.                                                                   *)

center_view(l) == most(l - (lines_height \div 2), 0)
adjust_view(off, l) == IF l < off THEN l ELSE IF l + 1 >= off + lines_height THEN 1 + l - lines_height ELSE off
scroll_view(off, by, c) == least(most(off + by, 0), line_count(c) - 1)
width(x) == IF x = "tab" THEN TAB_LENGTH ELSE 1
line_number_width(n) == IF n < 10 THEN 1 ELSE 2
widths(t, n) == LET f[i \in 0..n] == IF i = 0 THEN 0 ELSE f[i - 1] + width(t[i]) IN f[n]
translate_coordinates(c, off, x, y) ==
    LET l == least(y + off - 1, line_count(c) - 1)
        visual == most(0, x - line_number_width(line_count(c)) - 2)
        t == iter_line(c, l)
    IN  <<l, Cardinality({k \in DOMAIN t : widths(t, k) <= visual})>>
cursor_pos(c, off) == <<line_number_width(line_count(c)) + 1 + widths(iter_line(c, line(c)), col(c)), line(c) - off>>
\* paint_lines counts the lines from the offset to the end.
render(c, off) == IF off > line_count(c) THEN "panic" ELSE "no"

-----------------------------------------------------------------------------
(* treat_event.  Each event ends with the text drawn.                      *)

Mode(kind) == [kind |-> kind, origin |-> 0, message |-> <<>>]
followed(c) == c.text # <<>> /\ Last(c.text) = "nl"
event == ended = "no" /\ events < MaxEvents /\ events' = events + 1 /\ UNCHANGED opened
\* move_to asserts that the position is in the text.
asserts(a, c) == a # <<>> /\ a[1].kind = "move" /\ c.pos >= len(c)
becomes(r, off, failed) ==
    /\ content' = r.c /\ history' = r.history /\ undone' = r.undone /\ offset' = off
    /\ tip' = IF r.undone = <<>> THEN r.c ELSE tip
    /\ stray' = (stray \/ r.c.pos >= len(r.c))
    /\ ended' = IF failed THEN "panic" ELSE IF ~followed(r.c) THEN "cut" ELSE render(r.c, off)
adjusted(r) == becomes(r, adjust_view(offset, line(r.c)), FALSE)
stays == becomes(R, offset, FALSE)
\* ClipboardContext::new().unwrap() where there is none.
no_clipboard == ended' = "noclip" /\ UNCHANGED <<content, history, undone, offset, tip, stray, name, disk, clip>>
pasted == LET f[i \in 0..Len(clip)] == IF i = 0 THEN R ELSE inserted(f[i - 1], clip[i]) IN f[Len(clip)]
Steps == {"up", "down", "left", "right", "home", "end", "pageup", "pagedown"}
Letters == {"a", "nl", "tab"}

treat_insert_key(k) ==
  \/ k = "^v" /\ no_clipboard /\ mode' = Mode("insert")
  \/ /\ UNCHANGED <<name, disk, clip>>
     /\ CASE k \in {"esc", "^q"} -> /\ mode' = Mode("exit") /\ ended' = "exit"
                         /\ UNCHANGED <<content, history, undone, offset, tip, stray>>
         [] k = "^s" -> mode' = [Mode("prompt") EXCEPT !.message = name] /\ stays
         [] k \in {"wheeldown", "wheelup"} ->
                /\ mode' = Mode("insert")
                /\ becomes(R, scroll_view(offset, IF k = "wheelup" THEN -SCROLL_FACTOR ELSE SCROLL_FACTOR, content), FALSE)
         [] k = "^z" -> mode' = Mode("insert") /\ becomes(undo(R), offset, asserts(history, undo(R).c))
         [] k = "^y" -> mode' = Mode("insert") /\ becomes(redo(R), offset, asserts(undone, redo(R).c))
         [] k = "^v" -> mode' = Mode("insert") /\ becomes(pasted, offset, FALSE)
         [] k \in Steps ->
                LET r == moved(R, step(content, k))
                IN  /\ mode' = Mode("insert")
                    /\ becomes(r, CASE k \in {"pageup", "pagedown"} -> center_view(line(r.c))
                                    [] k \in {"home", "end"} -> offset
                                    [] OTHER -> adjust_view(offset, line(r.c)), FALSE)
         [] k = "backspace" -> mode' = Mode("insert") /\ adjusted(deleted(R))
         [] k = "delete" -> mode' = Mode("insert") /\ adjusted(deleted_forward(R))
         [] k \in Letters -> mode' = Mode("insert") /\ adjusted(inserted(R, k))
         [] OTHER -> mode' = Mode("insert") /\ stays

pointed(x, y) == LET at_ == translate_coordinates(content, offset, x, y) IN moved(R, move_at(content, at_[1], at_[2]))
treat_press(x, y) ==
    /\ mode' = [Mode("select") EXCEPT !.origin = pointed(x, y).c.pos]
    /\ becomes(pointed(x, y), offset, FALSE)
    /\ UNCHANGED <<name, disk, clip>>

\* Insert, and Message, which any event ends.
treat_insert_event ==
    /\ event /\ mode.kind \in {"insert", "message"} /\ taken' = <<>> /\ UNCHANGED sel
    /\ \/ \E k \in Keys : treat_insert_key(k)
       \/ \E p \in Clicks : treat_press(p[1], p[2])

\* Select, until the button is released.
span(a, b) == <<(<<least(a, b), most(a, b)>>)>>
treat_select_event ==
    /\ event /\ mode.kind = "select" /\ taken' = <<>> /\ UNCHANGED <<name, disk, clip>>
    /\ \E p \in Clicks, released \in BOOLEAN :
           LET r == pointed(p[1], p[2]) same == r.c.pos = mode.origin
           IN  /\ becomes(r, offset, FALSE)
               /\ sel' = IF released /\ same THEN sel ELSE span(mode.origin, r.c.pos)
               /\ mode' = IF ~released THEN mode ELSE Mode(IF same THEN "insert" ELSE "selected")

\* Selected: copy, cut or delete the selection, or forget it.
delete_sel(r) ==
    LET beg == sel[1][1]
        end == least(sel[1][2] + 1, len(r.c) - 1)
        f[i \in 0..(end - beg)] == IF i = 0 THEN moved(r, [r.c EXCEPT !.pos = end]) ELSE deleted(f[i - 1])
    IN  f[end - beg]
selection == SubSeq(content.text, sel[1][1] + 1, sel[1][2] + 1)
treat_selected_event ==
    /\ event /\ mode.kind = "selected"
    /\ \/ {"^c", "^x"} \cap Keys # {} /\ no_clipboard /\ taken' = <<>> /\ UNCHANGED <<mode, sel>>
       \/ \E k \in Keys :
              /\ sel' = <<>>
              /\ taken' = IF k \in {"^c", "^x", "backspace", "delete"}
                          THEN <<[key |-> k, text |-> content.text, sel |-> sel]>> ELSE <<>>
              /\ CASE k = "^c" -> clip' = selection /\ mode' = Mode("insert") /\ stays /\ UNCHANGED <<name, disk>>
                   [] k \in {"^x", "backspace", "delete"} ->
                         /\ clip' = IF k = "^x" THEN selection ELSE clip
                         /\ mode' = Mode("insert") /\ adjusted(delete_sel(R)) /\ UNCHANGED <<name, disk>>
                   [] OTHER -> treat_insert_key(k)
       \/ sel' = <<>> /\ taken' = <<>> /\ \E p \in Clicks : treat_press(p[1], p[2])

\* Prompt: the name to save to.  A save may fail before or after the file is emptied.
treat_prompt_event ==
    /\ event /\ mode.kind = "prompt" /\ taken' = <<>> /\ UNCHANGED <<sel, clip>>
    /\ \E k \in Keys :
          CASE k = "nl" ->
                  /\ mode' = Mode("message") /\ stays
                  /\ \/ UNCHANGED <<name, disk>>
                     \/ /\ mode.message # <<>>
                        /\ \/ name' = mode.message /\ disk' = [name |-> mode.message, text |-> content.text]
                           \/ \E n \in 0..(len(content) - 1) :
                                 disk' = [name |-> mode.message, text |-> SubSeq(content.text, 1, n)] /\ UNCHANGED name
            [] k \in Letters \ {"nl"} -> mode' = [mode EXCEPT !.message = Append(@, k)] /\ stays /\ UNCHANGED <<name, disk>>
            [] k \in {"backspace", "delete"} ->
                  /\ mode' = [mode EXCEPT !.message = IF @ = <<>> THEN @ ELSE Front(@)]
                  /\ stays /\ UNCHANGED <<name, disk>>
            [] k = "^q" -> /\ mode' = Mode("exit") /\ ended' = "exit"
                           /\ UNCHANGED <<content, history, undone, offset, tip, stray, name, disk>>
            [] k = "esc" -> mode' = Mode("insert") /\ stays /\ UNCHANGED <<name, disk>>
            [] OTHER -> UNCHANGED <<mode, name, disk>> /\ stays

Init ==
    /\ opened \in Files
    /\ content = [pos |-> 0, text |-> opened] /\ tip = content
    /\ history = <<>> /\ undone = <<>> /\ sel = <<>> /\ mode = Mode("insert") /\ offset = 0
    /\ name \in {<<>>, <<"f">>} /\ disk = [name |-> name, text |-> opened]
    /\ clip = <<"a", "nl">> /\ stray = FALSE /\ taken = <<>> /\ ended = "no" /\ events = 0
Next == treat_insert_event \/ treat_select_event \/ treat_selected_event \/ treat_prompt_event
Spec == Init /\ [][Next]_vars
-----------------------------------------------------------------------------
rewound == LET f[i \in 0..Len(history)] == IF i = 0 THEN R ELSE undo(f[i - 1]) IN f[Len(history)].c
replayed == LET f[i \in 0..Len(undone)] == IF i = 0 THEN R ELSE redo(f[i - 1]) IN f[Len(undone)].c
\* As long as the cursor has not been past the text: undoing everything gives
\* the text as it was opened and the cursor where it was, and redoing all that
\* was undone gives back the content before the first of those undos (record,
\* join, invert, apply), in an editor that an undo has killed too.
UndoExact == (~stray /\ ended # "cut") => rewound = [pos |-> 0, text |-> opened] /\ replayed = tip
\* The editor dies of nothing but this: a cursor that has been past the text,
\* a clipboard that is not there, and an undo, or the redo of a deletion, that
\* leaves the first line in view past the last line.  These two do not adjust
\* the view (command/mod.rs:81-86), and paint_lines panics (view/mod.rs:185-197).
DiesOfUndoOnly ==
    ended = "panic" /\ ~stray =>
        /\ offset > line_count(content)
        /\ undone # <<>> \/ (history # <<>> /\ history[1].kind \in {"delete", "deleteforward"})
\* A click where a character is drawn puts the cursor on that character, tabs
\* included, wherever the view is (translate_coordinates, cursor_pos).
ClickExact ==
    ended = "no" => \A p \in 0..(len(content) - 1) :
        LET c == [content EXCEPT !.pos = p]
            shown == cursor_pos(c, offset)
            hit == translate_coordinates(c, offset, shown[1] + 1, shown[2] + 1)
        IN  shown[2] >= 0 => move_at(c, hit[1], hit[2]).pos = p
\* What a copy or a cut puts on the clipboard are the characters drawn as
\* selected (in_sel), in order, and a cut or a deletion takes just those out of
\* the text, but for a newline at its very end, and leaves the cursor there
\* (treat_selected_event, delete_sel).
in_sel(s, pos) == s # <<>> /\ pos >= s[1][1] /\ pos <= s[1][2]
characters(t, keep(_)) == FlattenSeq([i \in DOMAIN t |-> IF keep(i - 1) THEN <<t[i]>> ELSE <<>>])
CutExact ==
    \A t \in ToSet(taken) :
        /\ t.key \in {"^c", "^x"} => clip = characters(t.text, LAMBDA p : in_sel(t.sel, p))
        /\ t.key = "^c" => content.text = t.text
        /\ t.key # "^c" => /\ content.text = characters(t.text, LAMBDA p : p = Len(t.text) - 1 \/ ~in_sel(t.sel, p))
                           /\ ~in_sel(t.sel, content.pos - 1) /\ in_sel(t.sel, content.pos)
\* What is selected is in the text, whatever was done to it before, so that
\* cutting it never reaches the last newline (delete_sel).
SelectionInside == mode.kind = "selected" => sel # <<>> /\ sel[1][1] < sel[1][2] /\ sel[1][2] < len(content)
CutKeepsEnd == ~stray => ended # "cut"
\* What the editor promises the one who edits.
EditorExact == UndoExact /\ DiesOfUndoOnly /\ ClickExact /\ CutExact /\ SelectionInside /\ CutKeepsEnd
=============================================================================

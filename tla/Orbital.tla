------------------------------ MODULE Orbital -------------------------------
(***************************************************************************)
(* schemes/orbital: windows on a screen.  Two threads share the scheme     *)
(* under a mutex, one for the events of the display and one for the        *)
(* requests of clients; each redraws what is scheduled and then waits for  *)
(* its next batch (here of one event or request).  Only scheduled          *)
(* rectangles are painted, so whatever changes must be scheduled.          *)
(*                                                                         *)
(* The screen is a grid of cells; a title bar is one cell high and the     *)
(* cursor one cell.  A cell shows the background, a title in one of its    *)
(* two colours, or a window's contents, of which a version is kept; and    *)
(* the cursor over it.  Fonts and blending are left out.                   *)
(***************************************************************************)
EXTENDS Naturals, Integers, Sequences, FiniteSets, SequencesExt

CONSTANTS
    Width, Height,  \* the screen
    Places,         \* where clients ask for windows; <<-1, -1>> is anywhere
    Mouse,          \* where the mouse goes
    MaxWindows, MaxCalls    \* bounds on the windows opened, and on calls

VARIABLES
    windows,    \* by id: x, y, title, async, ver, dirty, events
    order,      \* ids, the front window first
    redraws,    \* rectangles to paint
    screen,     \* what the cells show
    cursor, drag, win_key,  \* the mouse, its drag, the Windows key
    next,       \* the next id, and the next place
    todo,       \* the windows of the reads that were put off
    pc,         \* by thread: about to redraw, or waiting
    calls       \* events and requests handled, without the opens

vars == <<windows, order, redraws, screen, cursor, drag, win_key, next, todo, pc, calls>>

Cells == (0 .. Width - 1) \X (0 .. Height - 1)
W == 2  \* width and height of a window's contents
H == 1

-----------------------------------------------------------------------------
rect(x, y, w, h) == [x |-> x, y |-> y, w |-> w, h |-> h]
area(r) == r.w * r.h
least(a, b) == IF a < b THEN a ELSE b
most(a, b) == IF a > b THEN a ELSE b

container(r, s) ==
    LET left == least(r.x, s.x)
        top == least(r.y, s.y)
    IN  rect(left, top, most(r.x + r.w, s.x + s.w) - left, most(r.y + r.h, s.y + s.h) - top)

(* The hit test, which takes in the edge to the right and below.           *)
contains(r, p) == /\ r.x <= p[1] /\ p[1] <= r.x + r.w
                  /\ r.y <= p[2] /\ p[2] <= r.y + r.h

(* The cells a rectangle paints.                                           *)
covers(r, c) == /\ r.x <= c[1] /\ c[1] < r.x + r.w
                /\ r.y <= c[2] /\ c[2] < r.y + r.h

window_rect(w) == rect(w.x, w.y, W, H)
title_rect(w) == IF w.title THEN rect(w.x, w.y - 1, W, 1) ELSE rect(0, 0, 0, 0)
exit_contains(w, p) ==
    /\ w.title
    /\ most(w.x, w.x + W - 1) <= p[1] /\ p[1] < w.x + W
    /\ w.y - 1 <= p[2] /\ p[2] < w.y

(* schedule: the request is merged with the first rectangle whose common   *)
(* container is no larger than the two.                                    *)
schedule(rs, r) ==
    LET fits == {i \in DOMAIN rs : area(container(rs[i], r)) <= area(rs[i]) + area(r)}
        i == CHOOSE j \in fits : \A k \in fits : j <= k
    IN  IF fits = {} THEN Append(rs, r) ELSE [rs EXCEPT ![i] = container(rs[i], r)]

scheduled(rs, w) == schedule(schedule(rs, title_rect(w)), window_rect(w))

-----------------------------------------------------------------------------
bg == [k |-> "bg", id |-> 0, x |-> 0]

(* redraw: background, then the windows from the back, then the cursor.    *)
paint(c) ==
    LET n == Len(order)
        layer[i \in 1 .. n + 1] ==
            IF i = n + 1 THEN bg
            ELSE LET id == order[i]
                     w == windows[id]
                 IN  IF covers(window_rect(w), c) THEN [k |-> "win", id |-> id, x |-> w.ver]
                     ELSE IF covers(title_rect(w), c)
                     THEN [k |-> "title", id |-> id, x |-> IF i = 1 THEN 1 ELSE 0]
                     ELSE layer[i + 1]
    IN  [under |-> layer[1], cursor |-> c = cursor]

redraw(t) ==
    /\ pc[t] = "redraw"
    /\ pc' = [pc EXCEPT ![t] = "wait"]
    /\ screen' = [c \in Cells |->
                    IF \E i \in DOMAIN redraws : covers(redraws[i], c) THEN paint(c) ELSE screen[c]]
    /\ redraws' = <<>>
    /\ UNCHANGED <<windows, order, cursor, drag, win_key, next, todo, calls>>

-----------------------------------------------------------------------------
told(ws, id, e) == [ws EXCEPT ![id].events = Append(@, e)]

(* The focus goes from the first window to the i-th: both are told, and    *)
(* both are painted.                                                       *)
focus(ws, i) == told(told(ws, order[1], "unfocus"), order[i], "focus")

(* Bug: the title of the window that loses the focus is not painted.       *)
refocused_half(rs, i) == scheduled(rs, windows[order[i]])

refocused(rs, i) == scheduled(scheduled(rs, windows[order[1]]), windows[order[i]])

(* After a batch: the requests put off are handled again.  server_loop put *)
(* off the packet that handle had written its result to, a 0 where the     *)
(* number of the call was, and there is no call 0: all of them are         *)
(* answered ENOSYS, whatever has happened, and the events stay where they  *)
(* are.                                                                    *)
retry(ws) == todo' = <<>> /\ windows' = ws

key(k) ==
    /\ UNCHANGED <<cursor, drag>>
    /\ \/ /\ k \in {"win_down", "win_up"}
          /\ win_key' = (k = "win_down")
          /\ retry(windows)
          /\ UNCHANGED <<order, redraws>>
       \/ /\ k = "esc" /\ win_key
          /\ retry(IF order = <<>> THEN windows ELSE told(windows, order[1], "quit"))
          /\ UNCHANGED <<order, redraws, win_key>>
       \/ /\ k = "tab" /\ win_key
          /\ IF Len(order) < 2 THEN retry(windows) /\ UNCHANGED <<order, redraws>>
             ELSE /\ retry(focus(windows, 2))
                  /\ redraws' = refocused(redraws, 2)
                  /\ order' = Append(Tail(order), order[1])
          /\ UNCHANGED win_key
       \/ /\ k \in {"esc", "tab"} /\ ~ win_key
          /\ retry(IF order = <<>> THEN windows ELSE told(windows, order[1], k))
          /\ UNCHANGED <<order, redraws, win_key>>

moved(p) ==
    IF p = cursor THEN redraws
    ELSE schedule(schedule(redraws, rect(cursor[1], cursor[2], 1, 1)), rect(p[1], p[2], 1, 1))

(* The mouse while a window is dragged: the front window follows it.       *)
drag_to(p, button) ==
    /\ drag.on
    /\ IF button /\ order # <<>>
       THEN LET w == windows[order[1]]
                v == [w EXCEPT !.x = @ + p[1] - drag.at[1], !.y = @ + p[2] - drag.at[2]]
            IN  IF drag.at = p THEN /\ redraws' = moved(p)
                                    /\ retry(windows) /\ UNCHANGED drag
                ELSE /\ redraws' = scheduled(scheduled(moved(p), w), v)
                     /\ retry([windows EXCEPT ![order[1]] = v])
                     /\ drag' = [on |-> TRUE, at |-> p]
       ELSE /\ drag' = [drag EXCEPT !.on = FALSE]
            /\ redraws' = moved(p)
            /\ retry(windows)
    /\ UNCHANGED order

hit(w, p) == contains(window_rect(w), p) \/ contains(title_rect(w), p)

(* The mouse otherwise: the first window it hits, which a button brings to *)
(* the front; its title starts a drag or, at its end, closes it.           *)
mouse_at(p, button) ==
    /\ ~ drag.on
    /\ LET hits == {i \in DOMAIN order : hit(windows[order[i]], p)}
           i == CHOOSE j \in hits : \A k \in hits : j <= k
           id == order[i]
           w == windows[id]
           inside == contains(window_rect(w), p)
           quit == ~ inside /\ button /\ exit_contains(w, p)
           ws == IF inside THEN told(windows, id, "mouse")
                 ELSE IF quit THEN told(windows, id, "quit") ELSE windows
           raise == button /\ i > 1
       IN  IF hits = {}
           THEN retry(windows) /\ redraws' = moved(p) /\ UNCHANGED <<order, drag>>
           ELSE /\ retry(IF raise THEN focus(ws, i) ELSE ws)
                /\ redraws' = IF raise THEN refocused(moved(p), i) ELSE moved(p)
                /\ order' = IF raise THEN <<id>> \o RemoveAt(order, i) ELSE order
                /\ drag' = IF ~ inside /\ button /\ ~ quit THEN [on |-> TRUE, at |-> p] ELSE drag

mouse(p, button) ==
    /\ cursor' = p
    /\ drag_to(p, button) \/ mouse_at(p, button)
    /\ UNCHANGED win_key

(* event_loop after the display gave it an event.                          *)
display_event ==
    /\ pc["events"] = "wait" /\ calls < MaxCalls
    /\ \/ \E k \in {"win_down", "win_up", "esc", "tab"} : key(k)
       \/ \E p \in Mouse, b \in BOOLEAN : mouse(p, b)
    /\ pc' = [pc EXCEPT !["events"] = "redraw"]
    /\ calls' = calls + 1
    /\ UNCHANGED <<screen, next>>

-----------------------------------------------------------------------------
(* The requests of clients.                                                *)
open(at, title, async) ==
    /\ next.id <= MaxWindows
    /\ LET anywhere == at[1] < 0 /\ at[2] < 0
           w == [x |-> IF anywhere THEN next.x ELSE at[1], y |-> IF anywhere THEN next.y ELSE at[2],
                 title |-> title, async |-> async, ver |-> 0, dirty |-> FALSE, events |-> <<>>]
           old == IF order = <<>> THEN redraws ELSE scheduled(redraws, windows[order[1]])
           cascade(v, size) == IF v + 2 >= size THEN 1 ELSE v + 1
       IN  /\ windows' = [id \in DOMAIN windows \cup {next.id} |->
                            IF id = next.id THEN w ELSE windows[id]]
           /\ redraws' = scheduled(old, w)
           /\ next' = [id |-> next.id + 1,
                       x |-> IF anywhere THEN cascade(next.x, Width) ELSE next.x,
                       y |-> IF anywhere THEN cascade(next.y, Height) ELSE next.y]
    /\ order' = <<next.id>> \o order
    /\ UNCHANGED todo

(* A read with no events is put off, unless the window is asynchronous.    *)
read(id) ==
    /\ \A i \in DOMAIN todo : todo[i] # id
    /\ IF windows[id].events = <<>>
       THEN /\ todo' = IF windows[id].async THEN todo ELSE Append(todo, id)
            /\ UNCHANGED windows
       ELSE windows' = [windows EXCEPT ![id].events = <<>>] /\ UNCHANGED todo
    /\ UNCHANGED <<order, redraws, next>>

(* write and fsync: the contents, which fsync finds drawn, are scheduled.  *)
write(id) ==
    /\ windows' = [windows EXCEPT ![id].ver = 1 - @, ![id].dirty = FALSE]
    /\ redraws' = schedule(redraws, window_rect(windows[id]))
    /\ UNCHANGED <<order, next, todo>>

fsync(id) ==
    /\ windows[id].dirty
    /\ windows' = [windows EXCEPT ![id].dirty = FALSE]
    /\ redraws' = schedule(redraws, window_rect(windows[id]))
    /\ UNCHANGED <<order, next, todo>>

close(id) ==
    /\ order' = SelectSeq(order, LAMBDA e : e # id)
    /\ LET front == SelectSeq(order, LAMBDA e : e # id)
           rs == IF front = <<>> THEN redraws ELSE scheduled(redraws, windows[front[1]])
       IN  redraws' = scheduled(rs, windows[id])
    /\ windows' = [e \in DOMAIN windows \ {id} |-> windows[e]]
    /\ UNCHANGED <<next, todo>>

(* server_loop after the socket gave it a request.                         *)
client_request ==
    /\ pc["server"] = "wait"
    /\ \/ \E at \in Places, t \in BOOLEAN : open(at, t, ~ t) /\ UNCHANGED calls
       \/ /\ calls < MaxCalls /\ calls' = calls + 1
          /\ \E id \in DOMAIN windows : read(id) \/ write(id) \/ fsync(id) \/ close(id)
    /\ pc' = [pc EXCEPT !["server"] = "redraw"]
    /\ UNCHANGED <<screen, cursor, drag, win_key>>

(* A client draws in its mapped window, without telling orbital.           *)
draw(id) ==
    /\ ~ windows[id].dirty /\ calls < MaxCalls /\ calls' = calls + 1
    /\ windows' = [windows EXCEPT ![id].ver = 1 - @, ![id].dirty = TRUE]
    /\ UNCHANGED <<order, redraws, screen, cursor, drag, win_key, next, todo, pc>>

-----------------------------------------------------------------------------
Init ==
    /\ windows = [id \in {} |-> 0] /\ order = <<>>
    /\ redraws = <<rect(0, 0, Width, Height)>>
    /\ screen = [c \in Cells |-> [under |-> [bg EXCEPT !.k = "junk"], cursor |-> FALSE]]
    /\ cursor = <<0, 0>> /\ drag = [on |-> FALSE, at |-> <<0, 0>>] /\ win_key = FALSE
    /\ next = [id |-> 1, x |-> 1, y |-> 1]
    /\ todo = <<>> /\ pc = [t \in {"events", "server"} |-> "redraw"] /\ calls = 0

Next ==
    \/ \E t \in {"events", "server"} : redraw(t)
    \/ display_event \/ client_request
    \/ \E id \in DOMAIN windows : draw(id)

Spec == Init /\ [][Next]_vars

-----------------------------------------------------------------------------
(* What a cell should show: the first window that covers it.               *)
Top(c) ==
    LET at == {i \in DOMAIN order : \/ covers(window_rect(windows[order[i]]), c)
                                    \/ covers(title_rect(windows[order[i]]), c)}
    IN  IF at = {} THEN 0 ELSE CHOOSE i \in at : \A j \in at : i <= j

Right(c) ==
    LET i == Top(c)
        s == screen[c].under
    IN  /\ screen[c].cursor = (c = cursor)
        /\ IF i = 0 THEN s = bg
           ELSE LET w == windows[order[i]]
                IN  /\ s.id = order[i]
                    /\ IF covers(window_rect(w), c) THEN s.k = "win" /\ (s.x = w.ver \/ w.dirty)
                       ELSE s.k = "title" /\ (s.x = 1 <=> i = 1)

(* Whatever opens, closes, moves, takes the focus or draws, in whichever   *)
(* of the two threads, a cell that no scheduled rectangle covers shows the *)
(* window in front there, with its last synced contents and the title bar  *)
(* of the focus it has, and the cursor where it is.                        *)
StaleIsScheduled ==
    \A c \in Cells : Right(c) \/ \E i \in DOMAIN redraws : covers(redraws[i], c)

(* The order lists every window once, and no read of a window waits while  *)
(* the window has events: the batch that brings them answers it, though    *)
(* with ENOSYS, and they are left for the next read.                       *)
NoReadForgotten ==
    /\ {order[i] : i \in DOMAIN order} = DOMAIN windows /\ IsInjective(order)
    /\ \A i \in DOMAIN todo : todo[i] \in DOMAIN windows => windows[todo[i]].events = <<>>

(* orbital as a whole.                                                     *)
OrbitalExact == StaleIsScheduled /\ NoReadForgotten
=============================================================================

------------------------------ MODULE Terminal ------------------------------
(***************************************************************************)
(* programs/orbutils terminal: a window, a pty, and the shell that runs on *)
(* it, with the daemon schemes/ptyd between them.  The terminal waits for  *)
(* events of its window and of its master; the shell, and a child it may   *)
(* start, read, write, sync and leave as they like.  A request is sent,    *)
(* served and answered in steps of its own, as module UserScheme shows.    *)
(*                                                                         *)
(* Bytes carry the mode they were typed in.  Of what the shell writes only *)
(* the switches of the raw mode matter to the terminal; drawing (the crate *)
(* ransid) is left out, except whether the window shows what was drawn.    *)
(***************************************************************************)
EXTENDS Naturals, Integers, Sequences, FiniteSets, TLC

(* schemes/ptyd: the daemon behind pty:.  A master and its slaves exchange *)
(* packets, from the slaves, and bytes, from the master.  The daemon takes *)
(* one request at a time, tries again whatever it could not answer before, *)
(* and then posts an event for each end that has something to read.  The   *)
(* operators work on a scheme sc and return the scheme and the answer.     *)

EBADF == -9
EWOULDBLOCK == -11
EPIPE == -32
ENOENT == -2
O_NONBLOCK == 1

Scheme == [next |-> 0, masters |-> <<>>, slaves |-> <<>>]

(* A request of a client, with its flags or size or its data, and what it  *)
(* is answered.                                                            *)
request(who, op, id, n, data) == [who |-> who, op |-> op, id |-> id, n |-> n, data |-> data]
answer(n, data) == [n |-> n, data |-> data]
reply(sc, n) == [sc |-> sc, ans |-> answer(n, <<>>)]

(* A byte, and whether it was typed in the terminal's raw mode.            *)
byte(b, raw) == [b |-> b, raw |-> raw]
Out == byte("out", FALSE)
Sync == byte("sync", FALSE)

Front(s, n) == SubSeq(s, 1, IF n < Len(s) THEN n ELSE Len(s))
Rest(s, n) == SubSeq(s, n + 1, Len(s))

-----------------------------------------------------------------------------
(* open of "" makes a master; open of a master's number makes a slave.     *)
open_master(sc, nonblock) ==
    reply([sc EXCEPT !.next = @ + 1,
                     !.masters = (sc.next :> [nonblock |-> nonblock, read |-> <<>>,
                                              write |-> <<>>]) @@ @], sc.next)

open_slave(sc, id, nonblock) ==
    IF id \notin DOMAIN sc.masters THEN reply(sc, ENOENT)
    ELSE reply([sc EXCEPT !.next = @ + 1,
                          !.slaves = (sc.next :> [master |-> id, nonblock |-> nonblock]) @@ @],
               sc.next)

dup(sc, id) ==
    IF id \notin DOMAIN sc.slaves THEN reply(sc, EBADF)
    ELSE reply([sc EXCEPT !.next = @ + 1, !.slaves = (sc.next :> sc.slaves[id]) @@ @], sc.next)

(* weak_count: the slaves that hold the master's queues.                   *)
slaves_of(sc, id) == {s \in DOMAIN sc.slaves : sc.slaves[s].master = id}

master_read(sc, id, size) ==
    LET q == sc.masters[id].read
    IN  IF q # <<>>
        THEN [sc |-> [sc EXCEPT !.masters[id].read = Tail(@)],
              ans |-> LET d == Front(Head(q), size) IN answer(Len(d), d)]
        ELSE reply(sc, IF sc.masters[id].nonblock \/ slaves_of(sc, id) = {}
                       THEN 0 ELSE EWOULDBLOCK)

master_write(sc, id, data) == reply([sc EXCEPT !.masters[id].write = @ \o data], Len(data))

slave_read(sc, id, size) ==
    LET h == sc.slaves[id]
        q == sc.masters[h.master].write
    IN  IF h.master \notin DOMAIN sc.masters THEN reply(sc, 0)
        ELSE IF q = <<>> THEN reply(sc, IF h.nonblock THEN 0 ELSE EWOULDBLOCK)
        ELSE [sc |-> [sc EXCEPT !.masters[h.master].write = Rest(@, size)],
              ans |-> answer(Len(Front(q, size)), Front(q, size))]

(* A slave's write and sync send packets; the first item tells them apart. *)
slave_push(sc, id, packet, n) ==
    LET mid == sc.slaves[id].master
    IN  IF mid \notin DOMAIN sc.masters THEN reply(sc, EPIPE)
        ELSE reply([sc EXCEPT !.masters[mid].read = Append(@, packet)], n)

slave_write(sc, id, data) == slave_push(sc, id, <<Out>> \o data, Len(data))
slave_sync(sc, id) == slave_push(sc, id, <<Sync>>, 0)

close(sc, id) ==
    reply([sc EXCEPT !.masters = [i \in DOMAIN @ \ {id} |-> @[i]],
                     !.slaves = [i \in DOMAIN @ \ {id} |-> @[i]]], 0)

-----------------------------------------------------------------------------
handle(sc, r) ==
    CASE r.op = "open_master" -> open_master(sc, r.n = O_NONBLOCK)
      [] r.op = "open_slave" -> open_slave(sc, r.id, r.n = O_NONBLOCK)
      [] r.op = "dup" -> dup(sc, r.id)
      [] r.op = "close" -> close(sc, r.id)
      [] r.op = "fsync" -> IF r.id \in DOMAIN sc.slaves THEN slave_sync(sc, r.id) ELSE reply(sc, 0)
      [] r.op = "fevent" ->
            reply(sc, IF r.id \in DOMAIN sc.masters \cup DOMAIN sc.slaves THEN r.id ELSE EBADF)
      [] r.op = "read" ->
            IF r.id \in DOMAIN sc.masters THEN master_read(sc, r.id, r.n)
            ELSE IF r.id \in DOMAIN sc.slaves THEN slave_read(sc, r.id, r.n) ELSE reply(sc, EBADF)
      [] r.op = "write" ->
            IF r.id \in DOMAIN sc.masters THEN master_write(sc, r.id, r.data)
            ELSE IF r.id \in DOMAIN sc.slaves THEN slave_write(sc, r.id, r.data) ELSE reply(sc, EBADF)

(* The requests that wait are tried in order; what is answered leaves.     *)
retry(sc, todo) ==
    LET run[i \in 0 .. Len(todo)] ==
            IF i = 0 THEN [sc |-> sc, todo |-> <<>>, sent |-> <<>>]
            ELSE LET x == run[i - 1]
                     y == handle(x.sc, todo[i])
                 IN  IF y.ans.n = EWOULDBLOCK THEN [x EXCEPT !.todo = Append(@, todo[i])]
                     ELSE [x EXCEPT !.sc = y.sc,
                                    !.sent = Append(@, [to |-> todo[i].who, ans |-> y.ans])]
    IN  run[Len(todo)]

(* One turn of main's loop: the request, or its place in todo, then retry. *)
turn(sc, todo, r) ==
    LET x == handle(sc, r)
        y == retry(x.sc, IF x.ans.n = EWOULDBLOCK THEN Append(todo, r) ELSE todo)
    IN  IF x.ans.n = EWOULDBLOCK THEN y
        ELSE [y EXCEPT !.sent = <<[to |-> r.who, ans |-> x.ans]>> \o @]

(* Bug: no event tells the master that its last slave is gone.             *)
posted_data(sc, id) ==
    LET q == sc.masters[id].read
    IN  IF q # <<>> THEN <<Len(Head(q))>> ELSE <<>>

(* The count of the event posted for a master, if any.                     *)
posted(sc, id) ==
    LET q == sc.masters[id].read
    IN  IF q # <<>> THEN <<Len(Head(q))>>
        ELSE IF slaves_of(sc, id) = {} THEN <<0>> ELSE <<>>

-----------------------------------------------------------------------------
CONSTANTS
    Scenarios   \* the keys typed, and a bound on the calls shell and child
                \* make besides reading and closing

VARIABLES
    sc, inbox, todo,    \* the daemon: its state, requests sent, requests waiting
    ans,                \* by client: the answer it has not taken, if any
    events,             \* what the terminal's event file holds
    term,               \* the terminal
    procs,              \* shell and child: st, and the handles they have open
    typing, ops,        \* what is still to be typed; calls still to make
    taken, written      \* history: bytes read, items written

daemon == <<sc, inbox, todo>>
history == <<taken, written>>
vars == <<sc, inbox, todo, ans, events, term, procs, typing, ops, taken, written>>

T == "terminal"
Shell == "shell"
Child == "child"
Master == 0

ask(r) == inbox' = Append(inbox, r)
event(src, n) == [src |-> src, n |-> n]

-----------------------------------------------------------------------------
(* ptyd's loop, and the kernel's delivery of answers and events.           *)
serve ==
    /\ inbox # <<>>
    /\ LET r == Head(inbox)
           x == turn(sc, todo, r)
           to(c) == {i \in DOMAIN x.sent : x.sent[i].to = c}
           bytes[i \in 0 .. Len(x.sent)] ==
               IF i = 0 THEN <<>>
               ELSE bytes[i - 1] \o (IF x.sent[i].to = T THEN <<>> ELSE x.sent[i].ans.data)
           post == IF Master \in DOMAIN x.sc.masters THEN posted(x.sc, Master) ELSE <<>>
       IN  /\ sc' = x.sc
           /\ todo' = x.todo
           /\ ans' = [c \in DOMAIN ans |->
                        IF to(c) = {} THEN ans[c] ELSE <<x.sent[CHOOSE i \in to(c) : TRUE].ans>>]
           /\ events' = IF term.registered
                        THEN events \o [i \in DOMAIN post |-> event("master", post[i])] ELSE events
           /\ taken' = taken \o bytes[Len(x.sent)]
           /\ written' = IF r.op = "write" /\ r.who # T /\ Master \in DOMAIN sc.masters
                         THEN written \o r.data ELSE written
    /\ inbox' = Tail(inbox)
    /\ UNCHANGED <<term, procs, typing, ops>>

-----------------------------------------------------------------------------
(* The terminal.  first: the two calls of handle_event before the loop.    *)
Boot == << request(T, "open_master", 0, O_NONBLOCK, <<>>), request(T, "open_slave", Master, 0, <<>>),
           request(T, "open_slave", Master, 0, <<>>), request(T, "open_slave", Master, 0, <<>>),
           request(T, "fevent", Master, 0, <<>>) >>

boot_call ==
    /\ term.at = "boot" /\ term.step <= Len(Boot)
    /\ ask(Boot[term.step])
    /\ term' = [term EXCEPT !.at = "booting"]
    /\ UNCHANGED <<sc, todo, ans, events, procs, typing, ops, history>>

boot_return ==
    /\ term.at = "booting" /\ ans[T] # <<>>
    /\ ans' = [ans EXCEPT ![T] = <<>>]
    /\ term' = [term EXCEPT !.step = @ + 1, !.registered = (term.step = Len(Boot)),
                            !.at = IF term.step = Len(Boot) THEN "loop" ELSE "boot"]
    /\ procs' = IF term.step = Len(Boot) - 1
                THEN [procs EXCEPT ![Shell] = [st |-> "run", hs |-> {1, 2, 3}]] ELSE procs
    /\ UNCHANGED <<daemon, events, typing, ops, history>>

(* Console::input: what a key sends, and what it does to the input.        *)
bytes_of(t, key) ==
    CASE key \in {"ctrl", "ctrl_up", "quit"} -> <<>>
      [] key = "up" -> <<"esc", "[", "A">>
      [] key = "c" /\ t.ctrl -> <<"^C">>
      [] OTHER -> <<key>>

(* Bug: the bytes of a finished line are sent, but kept as well.           *)
cook_kept(t, b) ==
    CASE b = "^C" -> [t EXCEPT !.end_of_input = TRUE]
      [] b = "bs" -> IF t.cooked = <<>> THEN t
                     ELSE [t EXCEPT !.cooked = SubSeq(@, 1, Len(@) - 1)]
      [] b = "nl" -> [t EXCEPT !.input = @ \o t.cooked \o <<byte(b, FALSE)>>]
      [] OTHER -> [t EXCEPT !.cooked = Append(@, byte(b, FALSE))]

cook(t, b) ==
    CASE b = "^C" -> [t EXCEPT !.end_of_input = TRUE]
      [] b = "bs" -> IF t.cooked = <<>> THEN t
                     ELSE [t EXCEPT !.cooked = SubSeq(@, 1, Len(@) - 1)]
      [] b = "nl" -> [t EXCEPT !.input = @ \o t.cooked \o <<byte(b, FALSE)>>, !.cooked = <<>>]
      [] OTHER -> [t EXCEPT !.cooked = Append(@, byte(b, FALSE))]

input(t, key) ==
    LET bs == bytes_of(t, key)
        u == [t EXCEPT !.ctrl = IF key \in {"ctrl", "ctrl_up"} THEN key = "ctrl" ELSE @,
                       !.typed = @ \o [i \in DOMAIN bs |-> byte(bs[i], t.raw)]]
        cooked[i \in 0 .. Len(bs)] == IF i = 0 THEN u ELSE cook(cooked[i - 1], bs[i])
    IN  IF t.raw THEN [u EXCEPT !.input = @ \o [i \in DOMAIN bs |-> byte(bs[i], TRUE)]]
        ELSE cooked[Len(bs)]

(* Console::write of an item: a switch of the mode or something drawn; the *)
(* window is brought up to date unless the mode is raw.                    *)
console_write(t, data) ==
    LET switch == {data[i].b : i \in DOMAIN data} \cap {"raw", "cook"}
        raw == IF switch = {} THEN t.raw ELSE "raw" \in switch
    IN  [t EXCEPT !.raw = raw, !.drawn = @ \o data, !.changed = raw]

redraw(t) == [t EXCEPT !.changed = FALSE]

(* The next event of the terminal: of the two first calls, or of the file. *)
turn_to ==
    IF term.first # <<>> THEN Head(term.first) ELSE Head(events)

took(t) == IF t.first # <<>> THEN [t EXCEPT !.first = Tail(@)] ELSE t
events_taken == IF term.first # <<>> THEN events ELSE Tail(events)
stop(t) == IF t.first # <<>> THEN "loop" ELSE "stop"

window_event ==
    /\ term.at = "loop" /\ (term.first # <<>> \/ events # <<>>)
    /\ turn_to.src = "window"
    /\ LET quits == {i \in DOMAIN term.keys : term.keys[i] = "quit"}
           upto == IF quits = {} THEN Len(term.keys) ELSE (CHOOSE i \in quits : TRUE) - 1
           fed[i \in 0 .. upto] == IF i = 0 THEN [term EXCEPT !.keys = <<>>]
                                   ELSE input(fed[i - 1], term.keys[i])
           t == fed[upto]
       IN  IF quits # {}
           THEN /\ term' = took([t EXCEPT !.at = stop(term), !.quit = term.first = <<>>])
                /\ UNCHANGED inbox
           ELSE IF t.input = <<>> THEN term' = took(t) /\ UNCHANGED inbox
           ELSE /\ ask(request(T, "write", Master, 0, t.input))
                /\ term' = took([t EXCEPT !.at = "write"])
    /\ events' = events_taken
    /\ UNCHANGED <<sc, todo, ans, procs, typing, ops, history>>

write_return ==
    /\ term.at = "write" /\ ans[T] # <<>>
    /\ ans' = [ans EXCEPT ![T] = <<>>]
    /\ term' = [term EXCEPT !.at = "loop", !.input = <<>>]
    /\ UNCHANGED <<daemon, events, procs, typing, ops, history>>

master_event ==
    /\ term.at = "loop" /\ (term.first # <<>> \/ events # <<>>)
    /\ turn_to.src = "master"
    /\ ask(request(T, "read", Master, 8, <<>>))
    /\ term' = [term EXCEPT !.at = "read", !.count = turn_to.n]
    /\ events' = events_taken
    /\ UNCHANGED <<sc, todo, ans, procs, typing, ops, history>>

read_return ==
    /\ term.at = "read" /\ ans[T] # <<>>
    /\ ans' = [ans EXCEPT ![T] = <<>>]
    /\ LET a == Head(ans[T])
           t == console_write(term, Tail(a.data))
       IN  term' = IF a.n = 0
                   THEN took([term EXCEPT !.at = IF term.count = 0 THEN stop(term) ELSE "loop"])
                   ELSE took([(IF Head(a.data) = Sync THEN redraw(t) ELSE t) EXCEPT !.at = "loop"])
    /\ UNCHANGED <<daemon, events, procs, typing, ops, history>>

(* The master is dropped, and the shell waited for.                        *)
leave ==
    /\ term.at = "stop"
    /\ ask(request(T, "close", Master, 0, <<>>))
    /\ term' = [term EXCEPT !.at = "closing", !.registered = FALSE]
    /\ UNCHANGED <<sc, todo, ans, events, procs, typing, ops, history>>

wait ==
    /\ term.at = "closing" /\ ans[T] # <<>> /\ procs[Shell].st = "gone"
    /\ term' = [term EXCEPT !.at = "gone"]
    /\ ans' = [ans EXCEPT ![T] = <<>>]
    /\ UNCHANGED <<daemon, events, procs, typing, ops, history>>

(* A key reaches the window, and orbital posts an event for it.            *)
type_key ==
    /\ typing # <<>> /\ term.at \notin {"boot", "booting", "stop", "closing", "gone"}
    /\ typing' = Tail(typing)
    /\ term' = [term EXCEPT !.keys = Append(@, Head(typing))]
    /\ events' = Append(events, event("window", 1))
    /\ UNCHANGED <<daemon, ans, procs, ops, history>>

-----------------------------------------------------------------------------
(* Shell and child.                                                        *)
stdin(p) == CHOOSE h \in procs[p].hs : \A g \in procs[p].hs : h <= g

call(p, op, n, data) ==
    /\ procs[p].st = "run"
    /\ ask(request(p, op, stdin(p), n, data))
    /\ procs' = [procs EXCEPT ![p].st = op]
    /\ UNCHANGED <<sc, todo, ans, events, term, typing, history>>

shell_read(p) == call(p, "read", 2, <<>>) /\ UNCHANGED ops

shell_write(p) ==
    \E item \in {"x", "raw", "cook"} :
        /\ ops > 0 /\ ops' = ops - 1
        /\ call(p, "write", 0, <<byte(item, FALSE)>>)

shell_sync(p) == ops > 0 /\ ops' = ops - 1 /\ call(p, "fsync", 0, <<>>)

shell_fork ==
    /\ ops > 0 /\ ops' = ops - 1
    /\ procs[Child].st = "off"
    /\ call(Shell, "dup", 0, <<>>)

shell_exit(p) ==
    /\ procs[p].st = "run"
    /\ procs' = [procs EXCEPT ![p].st = "exit"]
    /\ UNCHANGED <<daemon, ans, events, term, typing, ops, history>>

shell_return(p) ==
    /\ ans[p] # <<>>
    /\ ans' = [ans EXCEPT ![p] = <<>>]
    /\ LET n == Head(ans[p]).n
           st == procs[p].st
       IN  procs' = CASE st = "dup" -> [procs EXCEPT ![p].st = "run",
                                                     ![Child] = [st |-> "run", hs |-> {n}]]
                      [] st = "close" -> [procs EXCEPT ![p].st = "exit"]
                      [] st = "read" /\ n = 0 -> [procs EXCEPT ![p].st = "exit"]
                      [] OTHER -> [procs EXCEPT ![p].st = IF n < 0 THEN "exit" ELSE "run"]
    /\ UNCHANGED <<daemon, events, term, typing, ops, history>>

(* The kernel closes what an exiting process has open.                     *)
shell_close(p) ==
    /\ procs[p].st = "exit"
    /\ IF procs[p].hs = {}
       THEN procs' = [procs EXCEPT ![p].st = "gone"] /\ UNCHANGED inbox
       ELSE /\ ask(request(p, "close", stdin(p), 0, <<>>))
            /\ procs' = [procs EXCEPT ![p].st = "close", ![p].hs = @ \ {stdin(p)}]
    /\ UNCHANGED <<sc, todo, ans, events, term, typing, ops, history>>

-----------------------------------------------------------------------------
Init ==
    /\ sc = Scheme /\ inbox = <<>> /\ todo = <<>>
    /\ ans = [c \in {T, Shell, Child} |-> <<>>]
    /\ events = <<>>
    /\ term = [at |-> "boot", step |-> 1, registered |-> FALSE, count |-> 0,
               first |-> <<event("window", 0), event("master", 0)>>,
               keys |-> <<>>, ctrl |-> FALSE, raw |-> FALSE, end_of_input |-> FALSE,
               input |-> <<>>, cooked |-> <<>>, drawn |-> <<>>, changed |-> FALSE,
               quit |-> FALSE, typed |-> <<>>]
    /\ procs = [p \in {Shell, Child} |-> [st |-> "off", hs |-> {}]]
    /\ \E s \in Scenarios : typing = s.keys /\ ops = s.ops
    /\ taken = <<>> /\ written = <<>>

terminal_step ==
    boot_call \/ boot_return \/ window_event \/ write_return \/ master_event \/ read_return
    \/ leave \/ wait

Next ==
    \/ serve \/ terminal_step \/ type_key \/ shell_fork
    \/ \E p \in {Shell, Child} :
         \/ shell_read(p) \/ shell_write(p) \/ shell_sync(p) \/ shell_exit(p)
         \/ shell_return(p) \/ shell_close(p)

(* The daemon and the terminal run when they can; a process takes its      *)
(* answers, reads again when it has nothing else to do, and its exit is    *)
(* completed by the kernel.                                                *)
Fairness ==
    /\ WF_vars(serve) /\ WF_vars(terminal_step)
    /\ \A p \in {Shell, Child} :
         WF_vars(shell_read(p)) /\ WF_vars(shell_return(p)) /\ WF_vars(shell_close(p))

Spec == Init /\ [][Next]_vars /\ Fairness

-----------------------------------------------------------------------------
queue(q) == IF Master \in DOMAIN sc.masters THEN sc.masters[Master][q] ELSE <<>>

(* What was typed and not yet given to the daemon.                         *)
unsent ==
    IF term.at = "write" /\ \A i \in DOMAIN inbox : inbox[i].who # T THEN <<>> ELSE term.input

(* A packet on its way from the daemon to the terminal.                    *)
fetched == IF term.at = "read" /\ ans[T] # <<>> THEN Head(ans[T]).data ELSE <<>>

Contents(packets) ==
    LET joined[i \in 0 .. Len(packets)] ==
            IF i = 0 THEN <<>>
            ELSE joined[i - 1] \o (IF packets[i] = <<>> THEN <<>> ELSE Tail(packets[i]))
    IN  joined[Len(packets)]

(* The bytes a line editor leaves of the bytes bs.                         *)
Edited(bs) ==
    LET e[i \in 0 .. Len(bs)] ==
            IF i = 0 THEN <<>>
            ELSE CASE bs[i].b = "^C" -> e[i - 1]
                   [] bs[i].b = "bs" ->
                        IF e[i - 1] = <<>> \/ e[i - 1][Len(e[i - 1])].b = "nl" THEN e[i - 1]
                        ELSE SubSeq(e[i - 1], 1, Len(e[i - 1]) - 1)
                   [] OTHER -> Append(e[i - 1], bs[i])
    IN  e[Len(bs)]

Raw(b) == b.raw
Cooked(b) == ~ b.raw

(* While the terminal has its master nothing typed or written is lost,     *)
(* repeated or reordered, whoever reads and writes when: the bytes given   *)
(* to the shell, with those still under way, are those typed in the raw    *)
(* mode, and the lines typed in the cooked one as the keys edited them;    *)
(* what is drawn, with the packets under way, is what the shell wrote.  A  *)
(* read waits in the daemon only while there is nothing for it, and out of *)
(* the raw mode the window shows what was drawn.                           *)
TerminalExact ==
    /\ term.at \notin {"closing", "gone"} =>
         /\ LET all == taken \o queue("write") \o unsent \o term.cooked
            IN  /\ SelectSeq(all, Raw) = SelectSeq(term.typed, Raw)
                /\ SelectSeq(all, Cooked) = Edited(SelectSeq(term.typed, Cooked))
         /\ term.drawn \o Contents(<<fetched>> \o queue("read")) = written
    /\ \A i \in DOMAIN todo : handle(sc, todo[i]).ans.n = EWOULDBLOCK
    /\ term.raw \/ ~ term.changed

gone == \A p \in {Shell, Child} : procs[p].st \in {"off", "gone"}

(* When the last process on the pty is gone, even before the terminal      *)
(* listens for events, the terminal draws all that they wrote and ends;    *)
(* and when the terminal quits, the shell comes to the end of its input    *)
(* and the terminal sees it exit.                                          *)
TerminalEnds ==
    (term.at = "stop" \/ (procs[Shell].st = "gone" /\ gone))
        ~> (term.at = "gone" /\ (term.quit \/ term.drawn = written))
=============================================================================

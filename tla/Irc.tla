--------------------------------- MODULE Irc ---------------------------------
(***************************************************************************)
(* The irc client: a thread reads what the user types, the main thread     *)
(* what the server sends, and both change the list of channels under one   *)
(* lock.  The server and the other users are modelled from what the client *)
(* expects of them: it tells the members of a channel who joins, parts,    *)
(* quits and speaks, in the order in which that happens, and sends whole   *)
(* lines.                                                                  *)
(***************************************************************************)
EXTENDS Integers, Sequences, SequencesExt, FiniteSets

CONSTANTS Nick,     \* our nickname
          Others,   \* other users
          Chans,    \* names of channels
          Wrap,     \* one more than the largest usize
          MaxTyped, \* lines the user types
          MaxActs   \* things the others do

VARIABLES
    channels,   \* the channels, in the order in which they were joined
    current,    \* the number of the one shown, from 0
    typing,     \* the thread that reads stdin: "runs", "quit" or "panicked"
    reading,    \* the main thread: "reads", "lines", "closed" or "panicked"
    poisoned,   \* whether a thread panicked with the lock held
    lines,      \* the lines of the last receive that are left
    up, down,   \* what was sent to the server, and to us
    members,    \* the users in each channel, at the server
    online,     \* users the server has not seen quit
    due,        \* for each channel ever joined, the messages put in its buffer
    shown,      \* and those printed
    twice,      \* whether a channel was joined that was in the list
    typed, acts

vars == <<channels, current, typing, reading, poisoned, lines, up, down, members, online, due, shown, twice, typed, acts>>
server == <<members, online, acts>>

Channel(name) == [name |-> name, buffer |-> <<>>, unread |-> 0, users |-> <<>>, mentioned |-> FALSE, id |-> Len(due) + 1]
Line(cmd, user, chan, body) == [cmd |-> cmd, user |-> user, chan |-> chan, body |-> body]

Init ==
    /\ channels = <<>> /\ current = 0 /\ typing = "runs" /\ reading = "reads" /\ poisoned = FALSE
    /\ lines = <<>> /\ up = <<>> /\ down = <<>> /\ due = <<>> /\ shown = <<>> /\ twice = FALSE
    /\ members = [c \in Chans |-> Others] /\ online = Others \cup {Nick} /\ typed = 0 /\ acts = 0

-----------------------------------------------------------------------------
(* Channel.                                                                *)

\* Print the buffer, clear it and its marks.
dump_kept(i) == channels' = [channels EXCEPT ![i].unread = 0] /\ shown' = [shown EXCEPT ![channels[i].id] = @ \o channels[i].buffer]
dump_buf(i) ==
    /\ channels' = [channels EXCEPT ![i].buffer = <<>>, ![i].unread = 0, ![i].mentioned = FALSE]
    /\ shown' = [shown EXCEPT ![channels[i].id] = @ \o channels[i].buffer]
push_user(users, u) == IF u \in ToSet(users) THEN users ELSE Append(users, u)
remove_user(users, u) == IF u \in ToSet(users) THEN RemoveFirst(users, u) ELSE users
pushed(ch, line) == [ch EXCEPT !.buffer = Append(@, line)]

\* The first channel of the name, or 0.
named(name) == IF \E i \in DOMAIN channels : channels[i].name = name
               THEN CHOOSE i \in DOMAIN channels : channels[i].name = name /\ \A j \in 1..(i - 1) : channels[j].name # name
               ELSE 0

-----------------------------------------------------------------------------
(* The thread that reads stdin.                                            *)

type == typing = "runs" /\ typed < MaxTyped /\ typed' = typed + 1
\* A command that takes the lock, which panics if it is poisoned.
locks == type /\ ~poisoned
unlocked == poisoned /\ type /\ typing' = "panicked" /\ UNCHANGED <<channels, current, reading, poisoned, lines, up, down, due, shown, twice, server>>
send(m) == up' = Append(up, m)

\* The new channel is shown, what its buffer holds is not.
join(name) ==
    /\ locks /\ send(Line("JOIN", Nick, name, ""))
    /\ channels' = Append(channels, Channel(name)) /\ current' = Len(channels)
    /\ due' = Append(due, <<>>) /\ shown' = Append(shown, <<>>) /\ twice' = (twice \/ named(name) # 0)
    /\ UNCHANGED <<typing, reading, poisoned, lines, down, server>>

has_current == current < Len(channels)
\* /users asks for the list by joining once more.
users ==
    /\ locks /\ IF has_current THEN send(Line("JOIN", Nick, channels[current + 1].name, "")) ELSE UNCHANGED up
    /\ UNCHANGED <<channels, current, typing, reading, poisoned, lines, down, due, shown, twice, server>>

\* Show another channel: the remainder by the number of channels panics if
\* there is none, with the lock held.
go(n) ==
    /\ locks
    /\ IF channels = <<>>
       THEN typing' = "panicked" /\ poisoned' = TRUE /\ UNCHANGED <<channels, current, shown>>
       ELSE /\ current' = (n % Wrap) % Len(channels) /\ dump_buf(current' + 1) /\ UNCHANGED <<typing, poisoned>>
    /\ UNCHANGED <<reading, lines, up, down, due, twice, server>>
next == go(current + 1)
back == go(current + Wrap - 1)
goto(n) == n \in 1..Len(channels) /\ go(n - 1)
\* /list, /help and what is refused or not known.
tells == locks /\ UNCHANGED <<channels, current, typing, reading, poisoned, lines, up, down, due, shown, twice, server>>

left(i) == IF i # 1 THEN current' = i - 2 ELSE UNCHANGED current
leave ==
    /\ locks
    /\ IF has_current
       THEN /\ send(Line("PART", Nick, channels[current + 1].name, ""))
            /\ channels' = RemoveAt(channels, current + 1) /\ left(current + 1)
       ELSE UNCHANGED <<up, channels, current>>
    /\ UNCHANGED <<typing, reading, poisoned, lines, down, due, shown, twice, server>>

say ==
    /\ locks /\ IF has_current THEN send(Line("PRIVMSG", Nick, channels[current + 1].name, "hi")) ELSE UNCHANGED up
    /\ UNCHANGED <<channels, current, typing, reading, poisoned, lines, down, due, shown, twice, server>>
\* /quit and the end of the input.
quit == /\ type /\ typing' = "quit" /\ send(Line("QUIT", Nick, "", ""))
        /\ UNCHANGED <<channels, current, reading, poisoned, lines, down, due, shown, twice, server>>

User == reading \in {"reads", "lines"} /\ (\/ unlocked \/ users \/ next \/ back \/ tells \/ leave \/ say \/ quit
                                           \/ (\E c \in Chans : join(c)) \/ (\E n \in 1..3 : goto(n)))

-----------------------------------------------------------------------------
(* The main thread.                                                        *)

receive ==
    /\ reading = "reads" /\ \E k \in {j \in 1..Len(down) : j = 1 \/ down[j].cmd # "closed"} : lines' = SubSeq(down, 1, k) /\ down' = SubSeq(down, k + 1, Len(down))
    /\ reading' = IF lines'[1].cmd = "closed" THEN "closed" ELSE "lines"
    /\ UNCHANGED <<channels, current, typing, poisoned, up, due, shown, twice, typed, server>>

\* A line for a channel: its buffer, marks and users.
taken(ch, m) ==
    LET p == [pushed(ch, m) EXCEPT !.unread = @ + 1]
    IN  CASE m.cmd = "JOIN" -> [p EXCEPT !.users = push_user(@, m.user)]
          [] m.cmd = "PART" -> [p EXCEPT !.users = remove_user(@, m.user)]
          [] m.cmd = "PRIVMSG" -> [p EXCEPT !.mentioned = @ \/ m.body = "nick"]
          [] m.cmd = "NOTICE" -> p
quits(ch, m) == IF m.user \in ToSet(ch.users) THEN [pushed(ch, m) EXCEPT !.users = remove_user(@, m.user)] ELSE ch

\* One line.  The list of users must be for a channel that is there.
handle ==
    LET m == lines[1]
        i == named(m.chan)
    IN  /\ reading = "lines" /\ lines # <<>> /\ lines' = Tail(lines)
        /\ CASE m.cmd \in {"PING", "ERROR"} -> \* no lock
                  /\ IF m.cmd = "PING" THEN send(Line("PONG", Nick, "", "")) ELSE UNCHANGED up
                  /\ UNCHANGED <<channels, due, reading, poisoned>>
             [] m.cmd \notin {"PING", "ERROR"} /\ (poisoned \/ (m.cmd = "353" /\ i = 0)) ->
                  reading' = "panicked" /\ poisoned' = TRUE /\ UNCHANGED <<channels, due, up>>
             [] OTHER ->
                  /\ channels' = CASE m.cmd = "353" -> [channels EXCEPT ![i].users = m.body]
                                   [] m.cmd = "QUIT" -> [k \in DOMAIN channels |-> quits(channels[k], m)]
                                   [] OTHER -> IF i = 0 THEN channels ELSE [channels EXCEPT ![i] = taken(@, m)]
                  /\ due' = [d \in DOMAIN due |->
                                IF \E k \in DOMAIN channels :
                                       channels[k].id = d /\ IF m.cmd = "QUIT" THEN m.user \in ToSet(channels[k].users) ELSE m.cmd # "353" /\ k = i
                                THEN Append(due[d], m) ELSE due[d]]
                  /\ UNCHANGED <<up, reading, poisoned>>
        /\ UNCHANGED <<current, typing, down, shown, twice, typed, server>>

\* After the lines of a receive, what the channel shown has is printed.
dump ==
    /\ reading = "lines" /\ lines = <<>>
    /\ CASE poisoned -> reading' = "panicked" /\ UNCHANGED <<channels, shown>>
         [] ~poisoned -> /\ reading' = "reads"
                         /\ IF has_current THEN dump_buf(current + 1) ELSE UNCHANGED <<channels, shown>>
    /\ UNCHANGED <<current, typing, poisoned, lines, up, down, due, twice, typed, server>>

-----------------------------------------------------------------------------
(* The server and the other users.                                         *)

tell(c, m) == IF Nick \in members[c] THEN Append(down, m) ELSE down
serve ==
    LET m == up[1]
        listed(u) == Append(SetToSeq(members[m.chan]), u)
    IN  /\ up # <<>> /\ up' = Tail(up)
        /\ CASE m.cmd = "JOIN" /\ Nick \notin members[m.chan] ->
                  /\ members' = [members EXCEPT ![m.chan] = @ \cup {Nick}] /\ UNCHANGED online
                  /\ down' = down \o <<m, Line("353", "", m.chan, listed(Nick))>>
             [] m.cmd = "PART" /\ Nick \in members[m.chan] ->
                  members' = [members EXCEPT ![m.chan] = @ \ {Nick}] /\ down' = Append(down, m) /\ UNCHANGED online
             [] m.cmd = "QUIT" ->
                  /\ online' = online \ {Nick} /\ members' = [c \in Chans |-> members[c] \ {Nick}]
                  /\ down' = down \o <<Line("ERROR", "", "", ""), Line("closed", "", "", "")>>
             [] OTHER -> UNCHANGED <<members, online, down>>
        /\ UNCHANGED <<channels, current, typing, reading, poisoned, lines, due, shown, twice, typed, acts>>

other ==
    /\ acts < MaxActs /\ acts' = acts + 1 /\ Nick \in online
    /\ \/ \E u \in Others \cap online, c \in Chans :
             \/ u \notin members[c] /\ members' = [members EXCEPT ![c] = @ \cup {u}] /\ down' = tell(c, Line("JOIN", u, c, "")) /\ UNCHANGED online
             \/ u \in members[c] /\ members' = [members EXCEPT ![c] = @ \ {u}] /\ down' = tell(c, Line("PART", u, c, "")) /\ UNCHANGED online
             \/ u \in members[c] /\ Nick \in members[c] /\ UNCHANGED <<members, online>>
                /\ \E cmd \in {"PRIVMSG", "NOTICE"}, b \in {"hi", "nick"} : down' = Append(down, Line(cmd, u, c, b))
       \/ \E u \in Others \cap online :
             /\ online' = online \ {u} /\ members' = [c \in Chans |-> members[c] \ {u}]
             /\ down' = IF \E c \in Chans : {u, Nick} \subseteq members[c] THEN Append(down, Line("QUIT", u, "", "")) ELSE down
       \/ down' = Append(down, Line("PING", "", "", "")) /\ UNCHANGED <<members, online>>
    /\ UNCHANGED <<channels, current, typing, reading, poisoned, lines, up, due, shown, twice, typed>>

Next == User \/ receive \/ handle \/ dump \/ serve \/ other
Spec == Init /\ [][Next]_vars

-----------------------------------------------------------------------------

\* When nothing is under way, the users a channel lists are those the server
\* has in it, once each, unless a channel was joined that was already in the
\* list (irc/main.rs, "353", JOIN, PART, QUIT and /leave).
UsersExact ==
    (up = <<>> /\ down = <<>> /\ lines = <<>> /\ Nick \in online /\ ~twice /\ reading = "reads") =>
        \A i \in DOMAIN channels : /\ ToSet(channels[i].users) = members[channels[i].name]
                                   /\ Len(channels[i].users) = Cardinality(members[channels[i].name])

\* Messages of a channel are printed once, in order: those printed and those
\* in the buffer of a channel are those that came, and unread counts no more
\* than the buffer has (dump_buf).
ShownOnce ==
    /\ \A d \in DOMAIN due : IsPrefix(shown[d], due[d])
    /\ \A i \in DOMAIN channels : /\ shown[channels[i].id] \o channels[i].buffer = due[channels[i].id]
                                  /\ channels[i].unread =< Len(channels[i].buffer)

\* While there are channels the current one is among them, whatever was left
\* and wherever /back wrapped to, so /next and what is typed find it.
CurrentThere == channels # <<>> => has_current

\* The client as a whole.
IrcExact == UsersExact /\ ShownOnce /\ CurrentThere
=============================================================================

----------------------------- MODULE MCUserland -----------------------------
(***************************************************************************)
(* Programs for users, one at a time: the shell on small scripts, and its  *)
(* reading of every short line over the characters that matter to it; the  *)
(* editor on small files; coreutils on small jobs; tar on archives it or   *)
(* another tar wrote, whole or cut short; and the calculators.             *)
(***************************************************************************)
EXTENDS Ion

VARIABLES part,      \* the part that runs
          line, it, cmds, pipes, words,                                     \* of IonSyntax
          opened, content, history, undone, sel, mode, offset, name, disk, clip, tip, stray, taken, ended, events, \* of Smith
          job, files, st, exit_status,                                      \* of Coreutils
          sc, walk, arch, made, rd, ent, given, end_status,                 \* of Tar
          input, cursor, asked, answer, pressed                             \* of Calc

lines_ == <<line, it, cmds, pipes, words>>
editor == <<opened, content, history, undone, sel, mode, offset, name, disk, clip, tip, stray, taken, ended, events>>
utils == <<job, files, st, exit_status>>
tars == <<sc, walk, arch, made, rd, ent, given, end_status>>
sums == <<input, cursor, asked, answer, pressed>>

(* Lines.                                                                  *)
strings(S, n) == UNION {[1..k -> S] : k \in 1..n}
MCLines == strings({"a", " ", ";", "'", "\\", "#", "|"}, 4)
           \cup strings({"a", "$", "{", ",", "}", "dq", " "}, 5)
           \cup strings({"a", " ", ">", "<", "$", "(", ")", ";"}, 4)
           \cup {<<"~">> \o x : x \in strings({"1", "+", "-", "/", "a"}, 3)}
           \cup {<<"{", "a", ",", "a", "a", "}", "a", "{", "1", ",", "2", "}">>}

(* Scripts.                                                                *)
text(t) == [var |-> FALSE, text |-> t]
var(t) == [var |-> TRUE, text |-> t]
one(ws) == [NoPipe EXCEPT !.jobs = <<ws>>]
cmd(ws) == [Statement("pipelines") EXCEPT !.pipes = <<one(ws)>>]
do(ts) == cmd([i \in DOMAIN ts |-> text(ts[i])])
if(v) == [Statement("if") EXCEPT !.value = v]
for(n, vs) == [Statement("for") EXCEPT !.name = n, !.list = vs]
fn(n, as) == [Statement("fn") EXCEPT !.name = n, !.list = as]
end == Statement("end")
else == Statement("else")

Body == {cmd(<<text("true"), var("x")>>), cmd(<<text("f"), text("p"), var("x")>>),
         [Statement("pipelines") EXCEPT !.pipes = <<one(<<text("true"), var("y")>>), one(<<text("false"), var("x")>>)>>]}
Blocks == {<<if(v), b, end>> : v \in BOOLEAN, b \in Body}
          \cup {<<if(v), b, else, c, end>> : v \in BOOLEAN, b \in Body, c \in Body}
          \cup {<<for("x", l), b, c, end>> : l \in {<<>>, <<"1", "2">>}, b \in Body, c \in Body}
          \cup {<<b>> : b \in Body}
Fn(b) == <<fn("f", <<"x", "y">>), b, cmd(<<text("g"), var("y")>>), cmd(<<text("true"), var("x")>>), end,
           fn("g", <<"x">>), cmd(<<text("false"), var("x"), var("y")>>), end>>
Plain == {Fn(cmd(<<text("true"), var("x"), var("y")>>)) \o a \o b : a \in Blocks, b \in Blocks}

Moves == {do(<<"cd">>), do(<<"cd", "-">>), do(<<"cd", "d">>), do(<<"pushd", "e">>), do(<<"popd">>), do(<<"pushd">>)}
Sizes == {do(<<"let", "DIRECTORY_STACK_SIZE", "=", n>>) : n \in {"0", "1", "2"}}
Moving == {<<s, a, b, c, d>> : s \in Sizes \cup {do(<<"dirs">>)}, a \in Moves, b \in Moves, c \in Moves, d \in Moves}

piped(js) == [Statement("pipelines") EXCEPT !.pipes = <<[jobs |-> [i \in DOMAIN js |-> <<text(js[i])>>], stdin |-> "in", stdout |-> "no"]>>]
Piping == {<<piped(js), cmd(<<text("true"), var("?")>>)>> : js \in strings({"p", "q", "none"}, 3)}
Others == {<<do(<<"let", "a", "=", "1">>), do(<<"export", "a">>), do(<<"drop", "a", "b", "DIRECTORY_STACK_SIZE">>),
             cmd(<<text("true"), var("a")>>), do(<<"export", "b", "=", "2">>), do(<<"export", "c">>), do(<<"let", "a">>),
             do(<<"let">>), do(<<"export">>), do(<<"drop">>), do(<<"source", "s">>), do(<<"source">>), do(<<"source", "t">>), do(<<"f">>), do(<<"exit", "2">>), do(<<"true">>)>>,
           <<if(TRUE), do(<<"source", "u">>), end, do(<<"true">>), end, do(<<"exit">>)>>}
MCScripts == {[lines |-> s, plain |-> TRUE, typed |-> FALSE] : s \in Plain}
             \cup {[lines |-> s, plain |-> FALSE, typed |-> TRUE] : s \in Moving \cup Piping \cup Others}
MCSources == ("s" :> Fn(do(<<"true">>))[2]) @@ ("u" :> for("x", <<"1">>))

Syntax == INSTANCE IonSyntax WITH Lines <- MCLines, Env <- (<<"a">> :> <<"1", " ">>), Home <- <<"/", "h">>,
                                  Dirs <- <<<<"/", "d">>, <<"/", "e">>>>

-----------------------------------------------------------------------------
(* Files for the editor.                                                   *)
Edited == {<<"nl">>, <<"a", "nl", "tab", "a", "nl">>, <<"a", "nl", "a", "nl", "a", "a", "nl", "nl">>}
Editor == INSTANCE Smith WITH Files <- Edited, Clicks <- {<<3, 1>>, <<4, 1>>, <<8, 2>>}, Height <- 4, MaxEvents <- 5,
              Keys <- {"a", "nl", "backspace", "delete", "^z", "^y", "^c", "^x", "^v", "^s", "esc", "up", "down",
                       "pagedown", "right", "wheeldown"}

-----------------------------------------------------------------------------
J == INSTANCE Coreutils WITH Jobs <- {}, LastDay <- 0, status <- exit_status
(* Jobs of coreutils.                                                      *)
short(letters) == [dash |-> 1, name |-> "", has |-> FALSE, text |-> letters]
long(n) == [dash |-> 2, name |-> n, has |-> FALSE, text |-> <<>>]
long_is(n, v) == [dash |-> 2, name |-> n, has |-> TRUE, text |-> v]
operand(t) == [dash |-> 0, name |-> "", has |-> FALSE, text |-> t]
Job(tool) == [tool |-> tool, args |-> <<>>, stdin |-> <<>>, files |-> (<<"f">> :> <<>>), opts |-> [mode |-> "bytes"],
              letters |-> {}, texts |-> <<>>, expr |-> [form |-> "none"], meta |-> (<<"f">> :> [kind |-> "file"]),
              bs |-> 1, count |-> -1, names |-> <<>>, append |-> FALSE, answers |-> <<>>]
seqs(S, n) == UNION {[1..k -> S] : k \in 0..n}

Parts == {[kind |-> "one", lo |-> i, hi |-> i] : i \in 0..3}
         \cup {[kind |-> "range", lo |-> l, hi |-> h] : l \in {0, 2}, h \in 2..3}
         \cup {[kind |-> "upto", lo |-> 1, hi |-> 2], [kind |-> "from", lo |-> 2, hi |-> 2]}
CutJobs == {[Job("cut") EXCEPT !.stdin = t, !.opts = [mode |-> m, list |-> l, delim |-> d, skip |-> k]] :
                t \in {<<"a", "b", "a", ":">>, <<"a", ":", "b", ":", ":", "c", "nl">>, <<"a", "nl", "nl", "b", "c">>},
                l \in {q \in seqs(Parts, 2) : q # <<>>}, m \in {"bytes", "fields"}, d \in {"ht", ":"}, k \in BOOLEAN}
Streams == seqs({"a", " ", "nl"}, 4)
Two == (<<"f">> :> <<"a", " ", "a">>) @@ (<<"g">> :> <<"a", "nl">>)
WcJobs == {[Job("wc") EXCEPT !.stdin = t, !.args = a] : t \in Streams, a \in {<<>>, <<short(<<"l", "c">>)>>, <<long("words")>>}}
          \cup {[Job("wc") EXCEPT !.files = Two, !.args = <<operand(a), operand(b)>>] :
                    a \in DOMAIN Two, b \in DOMAIN Two \cup {<<"h">>}}
Numbers == {<<"0">>, <<"1">>, <<"2">>, <<"9">>, <<"+", "1">>, <<"+", "+", "1">>, <<"+">>, <<"x">>}
HeadJobs == {[Job(t) EXCEPT !.stdin = x, !.args = a] : t \in {"head", "tail"}, x \in Streams,
                a \in {<<short(<<"n">>), operand(n)>> : n \in Numbers} \cup {<<long_is("lines", n)>> : n \in Numbers}
                      \cup {<<>>, <<short(<<"c", "2">>)>>, <<long("help")>>, <<short(<<"q">>)>>}}
            \cup {[Job(t) EXCEPT !.files = Two, !.args = <<short(<<"n", "1">>), operand(<<"f">>), operand(<<"g">>)>>] :
                    t \in {"head", "tail"}}
SortJobs == {[Job("sort") EXCEPT !.args = <<short(<<"n">>)>>, !.stdin = t] : t \in seqs({"1", "2", " ", "nl", "a"}, 5)}
CatJobs == {[Job("cat") EXCEPT !.letters = l, !.texts = <<t, <<"a", "ht">>>>] : t \in seqs({"a", "nl", "c0", "hi"}, 4),
                l \in {{}, {"n"}, {"b"}, {"A"}, {"n", "T"}, {"b", "s"}, {"n", "v", "E"}}}
EchoJobs == {[Job("echo") EXCEPT !.args = o \o <<operand(a), operand(<<"b">>)>>] : a \in seqs({"bs", "n", "c", "q"}, 3),
                o \in {<<>>, <<short(<<"e">>)>>, <<short(<<"e", "n">>)>>, <<short(<<"s">>)>>, <<long("no-newline"), long("")>>}}
DdJobs == {[Job("dd") EXCEPT !.stdin = <<"a", "b", "c", "d", "e">>, !.bs = b, !.count = c] : b \in 1..3, c \in -1..3}
Named == (<<"f">> :> <<"o", "l", "d", "t">>) @@ (<<"g">> :> <<>>)
TeeJobs == {[Job("tee") EXCEPT !.stdin = <<"a", "b", "c">>, !.files = Named, !.names = <<<<"f">>, <<"g">>>>, !.append = a] : a \in BOOLEAN}
Files == (<<"d">> :> J!Dir) @@ (<<"d", "a">> :> <<"1">>) @@ (<<"e">> :> J!Dir) @@ (<<"a">> :> <<"2", "4">>) @@ (<<"b">> :> <<"3">>)
ops(ps) == [i \in DOMAIN ps |-> operand(ps[i])]
RmJobs == {[Job("rm") EXCEPT !.files = Files, !.args = o \o ops(ps), !.answers = an] :
              o \in {<<>>, <<short(<<"r">>)>>, <<short(<<"d">>)>>, <<short(<<"i", "R">>)>>, <<long("dir")>>, <<short(<<"i">>), long("recursive")>>},
              ps \in seqs({<<"d">>, <<"e">>, <<"a">>, <<"c">>, <<"d", "a">>}, 3), an \in {<<"y", "n", "y">>, <<"n", "y">>}}
MvJobs == {[Job(t) EXCEPT !.files = Files, !.args = ops(ps)] : t \in {"mv", "cp"},
              ps \in {q \in seqs({<<"d">>, <<"a">>, <<"b">>, <<"c">>, <<"d", "a">>}, 3) :
                         \A i \in DOMAIN q : q[i] = <<"d">> => i = Len(q)}}
Meta == (<<"f">> :> [kind |-> "file", link |-> FALSE, len |-> 3, mode |-> {<<"group", "r">>}, id |-> 1, time |-> 5])
        @@ (<<"1">> :> [kind |-> "dir", link |-> TRUE, len |-> 0, mode |-> {}, id |-> 2, time |-> 6])
Expr(form, op, l, r, has) == [form |-> form, op |-> op, left |-> l, right |-> r, has |-> has]
Operands == {<<>>, <<"f">>, <<"1">>, <<"2">>, <<"x">>}
TestJobs == {[Job("test") EXCEPT !.meta = Meta, !.expr = e] : e \in
    {Expr("both", op, l, r, TRUE) : op \in {"=", "!=", "ef", "nt", "ot", "eq", "ge", "gt", "le", "lt", "ne", "??"}, l \in Operands, r \in Operands}
    \cup {Expr("flag", fl, l, <<>>, h) : fl \in {"b", "c", "d", "e", "f", "h", "L", "r", "w", "x", "s", "S", "n", "z", "q"}, l \in Operands, h \in BOOLEAN}
    \cup {Expr(fm, "", l, <<>>, FALSE) : fm \in {"none", "value", "half"}, l \in Operands}}
SleepJobs == {[Job("sleep") EXCEPT !.args = ops(a)] : a \in seqs({<<"+", "1">>, <<"2", "m">>, <<"1", "x">>}, 2)}
MCJobs == CutJobs \cup WcJobs \cup HeadJobs \cup SortJobs \cup CatJobs \cup EchoJobs \cup DdJobs \cup TeeJobs \cup RmJobs
          \cup MvJobs \cup TestJobs \cup SleepJobs \cup {Job("date")}

Utils == INSTANCE Coreutils WITH Jobs <- MCJobs, LastDay <- 50000, status <- exit_status

-----------------------------------------------------------------------------
(* Archives for tar.                                                       *)
Lengths == ("/" :> 0) @@ (".." :> 2) @@ ("d" :> 1) @@ ("a" :> 1) @@ ("bb" :> 2) @@ ("even" :> 4) @@ ("longer" :> 5) @@ ("evenlonger" :> 7)
T(s) == INSTANCE Tar WITH Block <- 3, NameLen <- 4, PrefixLen <- 6, SizeLimit <- 64, Slots <- 2, NameBytes <- Lengths,
                          Scenarios <- s, status <- end_status
member(p, type, n) == [path |-> p, type |-> type, link |-> <<>>, data |-> T({})!contents(p, n), sparse |-> <<>>]
symlink(p, l) == [member(p, "symlink", 0) EXCEPT !.link = l]
sparsely(p, bs) ==
    LET n == Last(bs).offset + Last(bs).numbytes
    IN  [member(p, "sparse", n) EXCEPT !.sparse = bs,
            !.data = [i \in 1..n |-> IF \E b \in ToSet(bs) : b.offset < i /\ i <= b.offset + b.numbytes
                                     THEN T({})!cell(p, i) ELSE T({})!Zero]]
blk(o, n) == [offset |-> o, numbytes |-> n]
tree == <<member(<<"d", "a">>, "file", 4), member(<<"d", "bb">>, "file", 0), member(<<"d", "longer">>, "file", 3),
          member(<<"d", "d", "a">>, "file", 1)>>
filled == <<member(<<"d", "a">>, "file", 1), member(<<"d", "even">>, "file", 0), member(<<"d", "bb">>, "file", 2),
            member(<<"d", "longer">>, "file", 1)>>
refused == <<member(<<"..", "a">>, "file", 1), member(<<"..", "longer">>, "file", 1)>>
others == <<member(<<"d">>, "dir", 0), sparsely(<<"d", "a">>, <<blk(0, 3), blk(5, 3), blk(10, 2)>>), symlink(<<"bb">>, <<"evenlonger">>),
            member(<<"d", "bb", "a">>, "pax", 4), sparsely(<<"a">>, <<blk(2, 3)>>)>>
plain == <<member(<<"d">>, "dir", 0), member(<<"longer", "bb">>, "file", 5), member(<<"bb">>, "pax", 2), member(<<"a">>, "file", 3)>>
Archive(w, ms, r, c) == [writer |-> w, root |-> <<Head(Head(ms).path)>>, members |-> ms, reader |-> r, cut |-> c]
Archives == {Archive(x[1], x[2], r, c) : x \in {<<"tar", tree>>, <<"tar", filled>>, <<"tar", refused>>, <<"other", others>>, <<"other", plain>>},
                 r \in {"extract", "unpack", "list", "peek"}, c \in BOOLEAN}
Tarred == INSTANCE Tar WITH Block <- 3, NameLen <- 4, PrefixLen <- 6, SizeLimit <- 64, Slots <- 2, NameBytes <- Lengths,
                            Scenarios <- Archives, status <- end_status

-----------------------------------------------------------------------------
(* Expressions for the calculators.                                        *)
Terms == {<<"0">>, <<"2">>, <<"-", "2">>, <<"(", "2", "-", "1", ")">>, <<"1", ".", "5">>, <<"(", "2">>, <<"2", " ", "1">>,
          <<"2", ")">>, <<".">>}
Operations == {"+", "-", "*", "/", "^", "("}
Expressions == {a \o <<o>> \o b \o <<p>> \o c : a \in Terms, b \in Terms, c \in Terms, o \in Operations, p \in Operations}
Tapped == {"2", "0", "-", "/", "("}
Sums == INSTANCE Calc WITH Inputs <- Expressions, Buttons <- Tapped, MaxPress <- 4,
            entry <- input, entry_i <- cursor, line <- asked

-----------------------------------------------------------------------------
IdleShell == /\ script = [lines |-> <<>>, plain |-> FALSE, typed |-> FALSE] /\ at = 1 /\ flow = NoFlow
             /\ vars_ = <<>> /\ env = <<>> /\ funcs = <<>> /\ stack = <<>> /\ cwd = Home /\ there = {}
             /\ todo = <<>> /\ kids = <<>> /\ pc = "done" /\ status = 0 /\ ran = <<>>
IdleEditor == /\ opened = <<>> /\ content = [pos |-> 0, text |-> <<>>] /\ history = <<>> /\ undone = <<>> /\ sel = <<>>
              /\ mode = Editor!Mode("exit") /\ offset = 0 /\ name = <<>> /\ disk = [name |-> <<>>, text |-> <<>>]
              /\ clip = <<>> /\ tip = content /\ stray = FALSE /\ taken = <<>> /\ ended = "exit" /\ events = 0
IdleLine == line = <<>> /\ it = <<>> /\ cmds = <<>> /\ pipes = <<>> /\ words = <<>>
IdleUtils == job = {} /\ files = {} /\ st = {} /\ exit_status = ""
IdleTar == sc = {} /\ walk = {} /\ arch = {} /\ made = {} /\ rd = {} /\ ent = {} /\ given = {} /\ end_status = ""
IdleCalc == input = {} /\ cursor = 0 /\ asked = {} /\ answer = {} /\ pressed = 0

UserInit ==
    /\ part \in {"shell", "line", "editor", "utils", "tar", "calc"}
    /\ IF part = "shell" THEN Init ELSE IdleShell
    /\ IF part = "line" THEN Syntax!Init ELSE IdleLine
    /\ IF part = "editor" THEN Editor!Init ELSE IdleEditor
    /\ IF part = "utils" THEN Utils!Init ELSE IdleUtils
    /\ IF part = "tar" THEN Tarred!Init ELSE IdleTar
    /\ IF part = "calc" THEN Sums!Init ELSE IdleCalc

UserNext ==
    /\ UNCHANGED part
    /\ \/ part = "shell" /\ Next /\ UNCHANGED <<lines_, editor, utils, tars, sums>>
       \/ part = "line" /\ Syntax!Next /\ UNCHANGED <<vars, editor, utils, tars, sums>>
       \/ part = "editor" /\ Editor!Next /\ UNCHANGED <<vars, lines_, utils, tars, sums>>
       \/ part = "utils" /\ Utils!Next /\ UNCHANGED <<vars, lines_, editor, tars, sums>>
       \/ part = "tar" /\ Tarred!Next /\ UNCHANGED <<vars, lines_, editor, utils, sums>>
       \/ part = "calc" /\ Sums!Next /\ UNCHANGED <<vars, lines_, editor, utils, tars>>

UserSpec == UserInit /\ [][UserNext]_<<part, vars, lines_, editor, utils, tars, sums>>

(* ion takes a line apart as its characters say (IonSyntax), and its       *)
(* blocks, functions, directories and pipelines do what they promise (Ion).*)
IonExact == ShellExact /\ (part = "line" => Syntax!LineExact)

(* smith undoes and redoes exactly, clicks, copies and cuts what is shown, *)
(* and dies of nothing but an undo the view does not follow, a cursor past *)
(* the text and a missing clipboard (Smith).                               *)
EditorExact == part = "editor" => Editor!EditorExact

(* The tools print what a definition of their task gives, with the         *)
(* departures from their manuals stated there, and touch no file but those *)
(* they are asked to, failures half-way included (coreutils; Coreutils).   *)
CoreutilsExact == (part = "utils") => Utils!CoreutilsExact

(* Reading an archive gives the members written, in order, each with its   *)
(* own bytes, and says so if the archive was cut, but for long names that  *)
(* fill their blocks (tar; see Tar).                                       *)
TarExact == (part = "tar") => Tarred!TarExact

(* An expression has the value of its tree, with operators of a kind taken *)
(* from the left and powers from the right, and the cursor stays in the    *)
(* text (calc.rs and the calculator; see Calc).                            *)
CalcExact == (part = "calc") => Sums!CalcExact /\ Sums!CursorInside
=============================================================================

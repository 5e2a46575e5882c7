------------------------------ MODULE Coreutils ------------------------------
(***************************************************************************)
(* programs/coreutils: the argument parser the tools share, the tools that *)
(* turn bytes into bytes (cut, wc, head, tail, cat, echo, sort, dd, tee),  *)
(* the ones that change files (rm, mv, cp), and date's calendar.           *)
(*                                                                         *)
(* A job is a tool with its arguments, its standard input and the files it *)
(* finds.  Text is a sequence of bytes, a byte one of a few strings.  What *)
(* a tool does to a stream with an iterator is one step; dd and tee, which *)
(* see how much each call moved, take a step per call, and rm, mv and cp   *)
(* one per argument.  mv and cp are given files, not directories, to move. *)
(***************************************************************************)
EXTENDS Integers, Sequences, FiniteSets, SequencesExt

CONSTANTS
    Jobs,      \* the jobs tried
    LastDay    \* date is tried on the days 0..LastDay after 1970-01-01

VARIABLES
    job,     \* the job
    files,   \* the files: a function from names to bytes
    st,      \* how far the tool is: pos, out, answers asked, records copied
    status   \* run, then ok, fail or panic

vars == <<job, files, st, status>>

-----------------------------------------------------------------------------
(* ArgParser.  An option is [short, long, opt, value]: a flag, or one that *)
(* takes a value, which the two names share though each has its own        *)
(* `found`.  Arguments come split: dash 2 with the name and what follows   *)
(* `=`, dash 1 with its characters, or dash 0, an operand.                 *)

option(short, long, opt, value) == [short |-> short, long |-> long, opt |-> opt, value |-> value]
named(table, name) == {o \in ToSet(table) : name \in {o.short, o.long} \ {""}}
known(table, name) == named(table, name) # {}
takes(table, name) == \E o \in named(table, name) : o.opt
cell_of(table, name) == (CHOOSE o \in named(table, name) : TRUE).long

new_parser(table) ==
    [found |-> {}, invalid |-> {}, args |-> <<>>, eaten |-> FALSE, done |-> FALSE,
     value |-> [l \in {o.long : o \in ToSet(table)} |-> (CHOOSE o \in ToSet(table) : o.long = l).value]]
hit(p, name) == [p EXCEPT !.found = @ \cup {name}]
set(p, table, name, v) == [p EXCEPT !.value[cell_of(table, name)] = v]

\* -abc: flags up to the first option that takes a value, whose value is the
\* rest of the characters or the next argument.
parse_short(p0, table, chars, next) ==
    LET f[i \in 0..Len(chars)] ==
            IF i = 0 THEN [p |-> p0, stop |-> FALSE]
            ELSE LET q == f[i - 1]
                     c == chars[i]
                     rest == SubSeq(chars, i + 1, Len(chars))
                 IN  CASE q.stop -> q
                       [] ~q.stop /\ ~known(table, c) -> [q EXCEPT !.p.invalid = @ \cup {c}]
                       [] ~q.stop /\ known(table, c) /\ ~takes(table, c) -> [q EXCEPT !.p = hit(q.p, c)]
                       [] OTHER ->
                            [stop |-> TRUE,
                             p |-> IF rest # <<>> THEN hit(set(q.p, table, c, rest), c)
                                   ELSE IF next # <<>> THEN [hit(set(q.p, table, c, next[1].text), c) EXCEPT !.eaten = TRUE]
                                   ELSE set(q.p, table, c, <<>>)]
    IN  f[Len(chars)].p

parse_long(p, table, arg) ==
    CASE ~known(table, arg.name) -> [p EXCEPT !.invalid = @ \cup {arg.name}]
      [] known(table, arg.name) /\ arg.has /\ ~takes(table, arg.name) -> [p EXCEPT !.invalid = @ \cup {arg.name}]
      [] known(table, arg.name) /\ arg.has /\ takes(table, arg.name) -> hit(set(p, table, arg.name, arg.text), arg.name)
      [] OTHER -> hit(p, arg.name)

parse(table, args) ==
    LET f[i \in 0..Len(args)] ==
            IF i = 0 THEN new_parser(table)
            ELSE LET p == f[i - 1]
                     a == args[i]
                 IN  CASE p.eaten -> [p EXCEPT !.eaten = FALSE]
                       [] ~p.eaten /\ (p.done \/ a.dash = 0) -> [p EXCEPT !.args = Append(@, a.text)]
                       [] ~p.eaten /\ ~p.done /\ a.dash = 2 /\ a.name = "" -> [p EXCEPT !.done = TRUE]
                       [] ~p.eaten /\ ~p.done /\ a.dash = 2 /\ a.name # "" -> parse_long(p, table, a)
                       [] OTHER -> parse_short(p, table, a.text, SubSeq(args, i + 1, IF i < Len(args) THEN i + 1 ELSE i))
    IN  f[Len(args)]

found(p, short, long) == short \in p.found \/ long \in p.found

\* str::parse of an unsigned number, with or without a plus: -1 when it is none.
Digits == [d \in {"0", "1", "2", "3", "4", "5", "6", "7", "8", "9"} |->
              CHOOSE n \in 0..9 : ToString(n) = d]
number(t) ==
    LET s == IF t # <<>> /\ Head(t) = "+" THEN Tail(t) ELSE t
    IN  IF s = <<>> \/ ~(ToSet(s) \subseteq DOMAIN Digits) THEN -1
        ELSE FoldLeft(LAMBDA n, d : 10 * n + Digits[d], 0, s)

-----------------------------------------------------------------------------
(* Text.                                                                   *)

\* BufRead::lines and str::split.
pieces(t, sep) ==
    LET f[i \in 0..Len(t)] ==
            IF i = 0 THEN <<(<<>>)>>
            ELSE IF t[i] = sep THEN Append(f[i - 1], <<>>)
            ELSE [f[i - 1] EXCEPT ![Len(f[i - 1])] = Append(@, t[i])]
    IN  f[Len(t)]
lines(t) == LET ps == pieces(t, "nl") IN IF Last(ps) = <<>> THEN Front(ps) ELSE ps
unlines(ls) == FlattenSeq([i \in DOMAIN ls |-> Append(ls[i], "nl")])

done(text) == [out |-> text, status |-> "ok"]
failed == [out |-> <<>>, status |-> "fail"]
panicked == [out |-> <<>>, status |-> "panic"]

-----------------------------------------------------------------------------
(* cut.  A list is a sequence of parts [kind, lo, hi].                     *)

grown(v, n) == v \o [i \in 1..(IF n > Len(v) THEN n - Len(v) ELSE 0) |-> FALSE]
toggle(s, at) == [s EXCEPT !.selected = [grown(@, at) EXCEPT ![at] = TRUE]]
\* From 0 on is from 2^64 - 1 on: nothing.
fill(s, lo, hi) ==
    [s EXCEPT !.selected = [i \in DOMAIN grown(@, hi) |-> grown(@, hi)[i] \/ (0 < lo /\ lo <= i /\ i <= hi)]]
Selection(list) ==
    LET f[i \in 0..Len(list)] ==
            IF i = 0 THEN [selected |-> <<>>, to_eol |-> FALSE]
            ELSE CASE list[i].kind = "one"   -> toggle(f[i - 1], list[i].lo)
                   [] list[i].kind = "upto"  -> fill(f[i - 1], 1, list[i].hi)
                   [] list[i].kind = "from"  -> [toggle(f[i - 1], list[i].lo) EXCEPT !.to_eol = TRUE]
                   [] list[i].kind = "range" -> fill(f[i - 1], list[i].lo, list[i].hi)
    IN  f[Len(list)]

\* SelectFromIter: in step with `selected`, then the rest if to_eol.
select_from(s, values) ==
    LET f[i \in 0..Len(values)] ==
            CASE i = 0 -> <<>>
              [] i > 0 /\ i <= Len(s.selected) -> IF s.selected[i] THEN Append(f[i - 1], values[i]) ELSE f[i - 1]
              [] OTHER -> IF s.to_eol THEN Append(f[i - 1], values[i]) ELSE f[i - 1]
    IN  f[Len(values)]

rejoined(fs, sep) == FlattenSeq([i \in DOMAIN fs |-> (IF i = 1 THEN <<>> ELSE <<sep>>) \o fs[i]])

cut_line(s, line, o) ==
    IF o.mode # "fields" THEN Append(select_from(s, line), "nl")
    ELSE IF o.delim \notin ToSet(line) THEN IF o.skip THEN <<>> ELSE Append(line, "nl")
    ELSE LET fs == select_from(s, pieces(line, o.delim))
         IN  IF fs = <<>> THEN <<>> ELSE Append(rejoined(fs, o.delim), "nl")
cut(o, text) ==
    IF o.mode # "fields" /\ (o.delim # "ht" \/ o.skip) THEN failed
    ELSE IF \E i \in DOMAIN o.list : o.list[i].kind \in {"one", "from"} /\ o.list[i].lo = 0 THEN panicked
    ELSE done(FlattenSeq([i \in DOMAIN lines(text) |-> cut_line(Selection(o.list), lines(text)[i], o)]))

-----------------------------------------------------------------------------
(* wc, head, tail, sort, cat and echo.                                     *)

Space == {"nl", "ht", " "}
Counter(t) ==
    LET f[i \in 0..Len(t)] ==
            IF i = 0 THEN [lines |-> 0, words |-> 0, bytes |-> 0, space |-> TRUE]
            ELSE [lines |-> f[i - 1].lines + (IF t[i] = "nl" THEN 1 ELSE 0),
                  words |-> f[i - 1].words + (IF t[i] \notin Space /\ f[i - 1].space THEN 1 ELSE 0),
                  bytes |-> f[i - 1].bytes + 1, space |-> t[i] \in Space]
    IN  [lines |-> f[Len(t)].lines, words |-> f[Len(t)].words, bytes |-> f[Len(t)].bytes]
add(a, b) == [lines |-> a.lines + b.lines, words |-> a.words + b.words, bytes |-> a.bytes + b.bytes]
Help == option("h", "help", FALSE, <<>>)
WcTable == <<option("l", "lines", FALSE, <<>>), option("w", "words", FALSE, <<>>), option("c", "bytes", FALSE, <<>>), Help>>
shown(p, c) ==
    LET all == ~(found(p, "l", "lines") \/ found(p, "w", "words") \/ found(p, "c", "bytes"))
    IN  (IF all \/ found(p, "l", "lines") THEN <<c.lines>> ELSE <<>>)
        \o (IF all \/ found(p, "w", "words") THEN <<c.words>> ELSE <<>>)
        \o (IF all \/ found(p, "c", "bytes") THEN <<c.bytes>> ELSE <<>>)
wc(args, stdin) ==
    LET p == parse(WcTable, args)
        counts == [i \in DOMAIN p.args |-> Counter(files[p.args[i]])]
        total[i \in 0..Len(counts)] ==
            IF i = 0 THEN [lines |-> 0, words |-> 0, bytes |-> 0] ELSE add(total[i - 1], counts[i])
    IN  CASE found(p, "h", "help") -> done(<<>>)
          [] ~found(p, "h", "help") /\ p.args = <<>> -> done(<<shown(p, Counter(stdin))>>)
          [] ~found(p, "h", "help") /\ \E i \in DOMAIN p.args : p.args[i] \notin DOMAIN files -> failed
          [] OTHER -> done([i \in DOMAIN counts |-> shown(p, counts[i])]
                           \o IF Len(counts) > 1 THEN <<shown(p, total[Len(counts)])>> ELSE <<>>)

\* The inputs of head and tail, each under a header when there are several.
HeadTable == <<option("n", "lines", TRUE, <<"1", "0">>), option("c", "bytes", TRUE, <<>>), Help>>
inputs(p, stdin) == IF p.args = <<>> THEN <<stdin>> ELSE [i \in DOMAIN p.args |-> files[p.args[i]]]
under_headers(p, texts) ==
    FlattenSeq([i \in DOMAIN texts |-> (IF Len(p.args) > 1 THEN <<"==>">> \o p.args[i] \o <<"nl">> ELSE <<>>) \o texts[i]])
first(seq, n) == SubSeq(seq, 1, IF n < Len(seq) THEN n ELSE Len(seq))
\* A value for `bytes` empties the one of `lines`, which is read all the same.
asked(p) == IF found(p, "c", "bytes") THEN <<>> ELSE p.value["lines"]
head_of(p, t, n) ==
    CASE found(p, "n", "lines") -> unlines(first(lines(t), n))
      [] ~found(p, "n", "lines") /\ found(p, "c", "bytes") -> first(t, n)
      [] OTHER -> <<>>
head(args, stdin) ==
    LET p == parse(HeadTable, args)
        n == number(asked(p))
        ins == inputs(p, stdin)
    IN  CASE found(p, "h", "help") \/ p.invalid # {} -> done(<<>>)
          [] ~(found(p, "h", "help") \/ p.invalid # {})
             /\ (n < 0 \/ \E i \in DOMAIN p.args : p.args[i] \notin DOMAIN files) -> failed
          [] OTHER -> done(under_headers(p, [i \in DOMAIN ins |-> head_of(p, ins[i], n)]))

\* A queue that holds the last n items.
deque(seq, n) ==
    LET f[i \in 0..Len(seq)] ==
            IF i = 0 THEN <<>>
            ELSE LET q == Append(f[i - 1], seq[i]) IN IF Len(q) > n THEN Tail(q) ELSE q
    IN  f[Len(seq)]
tail_of(p, t, skip, n) ==
    CASE found(p, "n", "lines") -> unlines(IF skip THEN SubSeq(lines(t), n + 1, Len(lines(t))) ELSE deque(lines(t), n))
      [] ~found(p, "n", "lines") /\ found(p, "c", "bytes") -> IF skip THEN SubSeq(t, n + 1, Len(t)) ELSE deque(t, n)
      [] OTHER -> <<>>
trim_left_matches(t) == SubSeq(t, 1 + Cardinality({i \in DOMAIN t : \A j \in 1..i : t[j] = "+"}), Len(t))
tail(args, stdin) ==
    LET p == parse(HeadTable, args)
        skip == asked(p) # <<>> /\ Head(asked(p)) = "+"
        n == number(trim_left_matches(asked(p)))
        ins == inputs(p, stdin)
    IN  CASE found(p, "h", "help") \/ p.invalid # {} -> done(<<>>)
          [] ~(found(p, "h", "help") \/ p.invalid # {})
             /\ (n < 0 \/ \E i \in DOMAIN p.args : p.args[i] \notin DOMAIN files) -> failed
          [] OTHER -> done(under_headers(p, [i \in DOMAIN ins |-> tail_of(p, ins[i], skip, n)]))

\* sort -n: the first number of each line decides, no number is least, and
\* slice::sort_by keeps the order of equal lines.
get_first_f64(line) ==
    LET ws == SelectSeq(pieces(line, " "), LAMBDA w : number(w) >= 0)
    IN  IF ws = <<>> THEN -1 ELSE number(Head(ws))
sort_by_number(ls) ==
    LET f[i \in 0..Len(ls)] ==
            IF i = 0 THEN <<>>
            ELSE LET s == f[i - 1]
                     before == {j \in DOMAIN s : get_first_f64(s[j]) <= get_first_f64(ls[i])}
                     at == Cardinality(before)
                 IN  SubSeq(s, 1, at) \o <<ls[i]>> \o SubSeq(s, at + 1, Len(s))
    IN  f[Len(ls)]
sort_numeric(args, stdin) ==
    LET p == parse(<<option("n", "numeric-sort", FALSE, <<>>), Help>>, args)
        ins == inputs(p, stdin)
    IN  CASE found(p, "h", "help") -> done(<<>>)
          [] ~found(p, "h", "help") /\ \E i \in DOMAIN p.args : p.args[i] \notin DOMAIN files -> done(<<>>)
          [] OTHER -> done(unlines(sort_by_number(FlattenSeq([i \in DOMAIN ins |-> lines(ins[i])]))))

\* cat: the options are letters; a number counts lines across the files.  A
\* byte is written with its mark: 0 as it is, 1 with a caret, 2 with M-.
CatFlags(o) ==
    [number |-> "n" \in o, nonblank |-> "b" \in o, ends |-> o \cap {"A", "e", "E"} # {},
     tabs |-> o \cap {"A", "t", "T"} # {}, nonprinting |-> o \cap {"A", "e", "t", "v"} # {}, squeeze |-> "s" \in o]
cat_byte(g, c, b) ==
    LET num == c.chars = 0 /\ (g.number \/ (g.nonblank /\ b # "nl"))
        d   == IF num THEN [c EXCEPT !.out = Append(@, <<"#", c.count>>), !.count = @ + 1] ELSE c
        put(mark) == [d EXCEPT !.out = Append(@, <<b, mark>>), !.chars = IF g.number \/ g.nonblank THEN @ + 1 ELSE @]
    IN  CASE b \in {"c0", "del"} -> IF g.nonprinting THEN put(1) ELSE d
          [] b = "ht" -> put(IF g.tabs THEN 1 ELSE 0)
          [] b = "hi" -> put(IF g.nonprinting THEN 2 ELSE 0)
          [] b = "nl" ->
                IF c.chars = 0 /\ g.squeeze /\ c.blank THEN d
                ELSE [d EXCEPT !.blank = c.chars = 0, !.chars = 0,
                               !.out = @ \o (IF g.ends THEN <<(<<"$", 0>>)>> ELSE <<>>) \o <<(<<"nl", 0>>)>>]
          [] OTHER -> put(0)
cat(o, texts) ==
    LET g == CatFlags(o)
        one(c0, t) == LET f[i \in 0..Len(t)] == IF i = 0 THEN [c0 EXCEPT !.chars = 0, !.blank = FALSE]
                                                ELSE cat_byte(g, f[i - 1], t[i]) IN f[Len(t)]
        all[k \in 0..Len(texts)] == IF k = 0 THEN [out |-> <<>>, count |-> 0, chars |-> 0, blank |-> FALSE]
                                    ELSE one(all[k - 1], texts[k])
    IN  IF o = {} THEN done([i \in DOMAIN FlattenSeq(texts) |-> <<FlattenSeq(texts)[i], 0>>])
        ELSE done(all[Len(texts)].out)

\* echo -e: `check` says that the last byte was a backslash that is not yet
\* written; \c ends the program.
Escapes == [a |-> "bel", b |-> "bsp", e |-> "esc", f |-> "ff", n |-> "nl", r |-> "cr", t |-> "ht", v |-> "vt"]
echo_arg(e, arg) ==
    LET f[i \in 0..Len(arg)] ==
            IF i = 0 THEN [out |-> e.out, check |-> FALSE, exit |-> e.exit]
            ELSE LET c == f[i - 1]
                     b == arg[i]
                     put(x) == [c EXCEPT !.out = @ \o x, !.check = FALSE]
                 IN  CASE c.exit -> c
                       [] ~c.exit /\ b = "bs" -> IF c.check THEN put(<<b>>) ELSE [c EXCEPT !.check = TRUE]
                       [] ~c.exit /\ b # "bs" /\ ~c.check -> put(<<b>>)
                       [] ~c.exit /\ c.check /\ b = "c" -> [c EXCEPT !.exit = TRUE]
                       [] ~c.exit /\ c.check /\ b \in DOMAIN Escapes -> put(<<Escapes[b]>>)
                       [] OTHER -> put(<<"bs", b>>)
    IN  f[Len(arg)]
EchoTable == <<option("e", "escape", FALSE, <<>>), option("n", "no-newline", FALSE, <<>>),
               option("s", "no-spaces", FALSE, <<>>), Help>>
echo(args) ==
    LET p == parse(EchoTable, args)
        gap(i) == IF i > 1 /\ ~found(p, "s", "no-spaces") THEN <<" ">> ELSE <<>>
        f[i \in 0..Len(p.args)] ==
            IF i = 0 THEN [out |-> <<>>, check |-> FALSE, exit |-> FALSE]
            ELSE IF f[i - 1].exit THEN f[i - 1]
            ELSE IF found(p, "e", "escape") THEN echo_arg([f[i - 1] EXCEPT !.out = @ \o gap(i)], p.args[i])
            ELSE [f[i - 1] EXCEPT !.out = @ \o gap(i) \o p.args[i]]
        e == f[Len(p.args)]
    IN  CASE found(p, "h", "help") -> done(<<>>)
          [] OTHER -> done(e.out \o IF e.exit \/ found(p, "n", "no-newline") THEN <<>> ELSE <<"nl">>)

-----------------------------------------------------------------------------
(* test.  A file's metadata is [kind, link, len, mode, id, time], mode the  *)
(* set of <<who, permission>> pairs; an operator is one of these strings.   *)

evaluate_bool(b) == [out |-> <<>>, status |-> IF b THEN "ok" ELSE "fail"]
parse_integer(t) == number(t)       \* None, which is below every Some, is -1
evaluate_expression(meta, l, op, r) ==
    LET both == l \in DOMAIN meta /\ r \in DOMAIN meta
        m == parse_integer(l)
        n == parse_integer(r)
    IN  CASE op \in {"=", "=="} -> l = r
          [] op = "!=" -> l # r
          [] op = "ef" -> both /\ meta[l].id = meta[r].id
          [] op = "nt" -> both /\ meta[l].time > meta[r].time
          [] op = "ot" -> both /\ meta[r].time > meta[l].time
          [] op = "eq" -> m = n
          [] op = "ne" -> m # n
          [] op = "ge" -> m >= n
          [] op = "gt" -> m > n
          [] op = "le" -> m <= n
          [] op = "lt" -> m < n
          [] OTHER -> FALSE
FileKind == [b |-> "block", c |-> "char", d |-> "dir", f |-> "file", S |-> "socket"]
match_flag_argument(meta, flag, arg) ==
    CASE flag \in DOMAIN FileKind -> arg \in DOMAIN meta /\ meta[arg].kind = FileKind[flag]
      [] flag \in {"h", "L"} -> arg \in DOMAIN meta /\ meta[arg].link
      [] flag = "e" -> arg \in DOMAIN meta
      [] flag = "s" -> arg \in DOMAIN meta /\ meta[arg].len > 0
      [] flag \in {"r", "w", "x"} -> arg \in DOMAIN meta /\ \E who \in {"user", "group", "guest"} : <<who, flag>> \in meta[arg].mode
      [] flag = "n" -> arg # <<>>
      [] flag = "z" -> arg = <<>>
      [] OTHER -> TRUE
\* One of: nothing, -flag [argument], value [operator [value]].
test(e, meta) ==
    evaluate_bool(
        CASE e.form = "none" -> FALSE
          [] e.form = "flag" -> e.has => match_flag_argument(meta, e.op, e.left)
          [] e.form = "value" -> e.left # <<>>
          [] e.form = "half" -> FALSE
          [] e.form = "both" -> evaluate_expression(meta, e.left, e.op, e.right))

\* sleep: the milliseconds each argument asks for, -1 when it is refused.
Unit == [s |-> 1, m |-> 60, h |-> 3600, d |-> 86400]
argument_to_ms(t) ==
    IF number(t) >= 0 THEN 1000 * number(t)
    ELSE IF t # <<>> /\ number(Front(t)) >= 0 /\ Last(t) \in DOMAIN Unit THEN 1000 * Unit[Last(t)] * number(Front(t))
    ELSE -1

-----------------------------------------------------------------------------
(* date: days since the epoch to year, month and day.                      *)

century(ts) == (ts * 4 + 102032) \div 146097 + 15
format_time(ts) ==
    LET x == century(ts)
        b == ts + 2442113 + x - (x \div 4)
        c == (b * 20 - 2442) \div 7305
        d == b - 365 * c - (c \div 4)
        e == (d * 1000) \div 30601
        f == d - e * 30 - ((e * 601) \div 1000)
    IN  IF e < 14 THEN [year |-> c - 4716, month |-> e - 1, day |-> f]
        ELSE [year |-> c - 4715, month |-> e - 13, day |-> f]

-----------------------------------------------------------------------------
(* The tools as steps.                                                     *)

\* took: what each file of tee was given; touched: what mv and cp wrote to.
Start == [pos |-> 0, out |-> <<>>, recs |-> 0, asked |-> 0, ok |-> TRUE, short |-> FALSE, day |-> 0, saved |-> {},
          took |-> [i \in DOMAIN job.names |-> <<>>], touched |-> {}]

Init ==
    /\ job \in Jobs
    /\ files = job.files
    /\ st = Start
    /\ status = "run"

ends(r) == st' = [st EXCEPT !.out = r.out] /\ status' = r.status /\ UNCHANGED <<job, files>>

cut_main  == status = "run" /\ job.tool = "cut"  /\ ends(cut(job.opts, job.stdin))
wc_main   == status = "run" /\ job.tool = "wc"   /\ ends(wc(job.args, job.stdin))
head_main == status = "run" /\ job.tool = "head" /\ ends(head(job.args, job.stdin))
tail_main == status = "run" /\ job.tool = "tail" /\ ends(tail(job.args, job.stdin))
sort_main == status = "run" /\ job.tool = "sort" /\ ends(sort_numeric(job.args, job.stdin))
cat_main  == status = "run" /\ job.tool = "cat"  /\ ends(cat(job.letters, job.texts))
test_main == status = "run" /\ job.tool = "test" /\ ends(test(job.expr, job.meta))
echo_main == status = "run" /\ job.tool = "echo" /\ ends(echo(job.args))

\* dd: one turn of its loop.  A read of a pipe or a socket may give less than
\* was asked for, a write of a full disk may take less; either ends the copy.
dd_turn ==
    /\ status = "run" /\ job.tool = "dd"
    /\ \E n \in 0..job.bs, m \in 0..job.bs :
          LET left == Len(job.stdin) - st.pos
          IN  /\ n <= left /\ (n = 0 => left = 0)
              /\ m <= n /\ (m = 0 => n = 0)
              /\ LET full == n = job.bs
                     stop == ~full \/ (job.count >= 0 /\ st.recs + 1 >= job.count) \/ m < job.bs
                 IN  /\ st' = [st EXCEPT !.pos = @ + n, !.recs = IF full THEN @ + 1 ELSE @,
                                         !.out = @ \o SubSeq(job.stdin, st.pos + 1, st.pos + m),
                                         !.short = @ \/ (n < job.bs /\ n < left) \/ m < n]
                     /\ status' = IF stop THEN "ok" ELSE "run"
    /\ UNCHANGED <<job, files>>

\* tee: one turn.  Files are opened for writing without being cut, or for
\* appending; a failing read, or a failing write to standard output, which is
\* first, or to one of them ends the program there, and what a short write
\* leaves is dropped.
overlay(old, new) == new \o SubSeq(old, Len(new) + 1, Len(old))
tee_turn ==
    /\ status = "run" /\ job.tool = "tee"
    /\ \/ \E read_ok \in BOOLEAN :
             /\ read_ok => st.pos = Len(job.stdin)
             /\ st' = [st EXCEPT !.ok = read_ok] /\ status' = "ok" /\ UNCHANGED files
       \/ \E n \in 1..2, broken \in 0..(Len(job.names) + 1) : \E m \in [0..Len(job.names) -> 1..n] :
             LET given(i) == SubSeq(job.stdin, st.pos + 1, st.pos + (IF i < broken THEN m[i] ELSE 0))
                 wrote == [i \in DOMAIN job.names |-> st.took[i] \o given(i)]
             IN  /\ st.pos + n <= Len(job.stdin)
                 /\ st' = [st EXCEPT !.pos = @ + n, !.out = @ \o given(0), !.took = wrote, !.ok = broken > Len(job.names),
                                     !.short = @ \/ \E i \in DOMAIN m : i < broken /\ m[i] < n]
                 /\ files' = [f \in DOMAIN files |->
                       IF f \notin ToSet(job.names) THEN files[f]
                       ELSE LET new == wrote[CHOOSE i \in DOMAIN job.names : job.names[i] = f]
                            IN  IF job.append THEN job.files[f] \o new ELSE overlay(job.files[f], new)]
                 /\ status' = IF broken <= Len(job.names) THEN "ok" ELSE "run"
    /\ UNCHANGED job

\* Files by path; a directory holds "dir".
Dir == <<"dir">>
is_dir(p) == p \in DOMAIN files /\ files[p] = Dir
below(p) == {q \in DOMAIN files : IsPrefix(p, q)}
without(ps) == [q \in DOMAIN files \ ps |-> files[q]]

RmTable == <<option("i", "interactive", FALSE, <<>>), option("r", "recursive", FALSE, <<>>), option("R", "", FALSE, <<>>),
             option("d", "dir", FALSE, <<>>), option("v", "verbose", FALSE, <<>>), Help>>
rm_parser == parse(RmTable, job.args)
recursive == found(rm_parser, "r", "recursive") \/ "R" \in rm_parser.found
\* What is gone: remove_file and remove_dir may fail, remove_dir_all after some
\* of what is below, a directory after all that it holds.
rm_removes_any(p) == {below(p)}
rm_removes(p) ==
    CASE ~is_dir(p) -> {{}, {p}}
      [] is_dir(p) /\ recursive ->
            {gone \in SUBSET below(p) : \A q \in gone : is_dir(q) => below(q) \subseteq gone}
      [] is_dir(p) /\ ~recursive /\ "d" \in rm_parser.found /\ below(p) = {p} -> {{}, {p}}
      [] OTHER -> {{}}
\* At the end of its input the prompt panics.
rm_turn ==
    /\ status = "run" /\ job.tool = "rm"
    /\ LET args == rm_parser.args
           p == args[st.pos + 1]
           ask == found(rm_parser, "i", "interactive")
           eof == ask /\ st.asked = Len(job.answers)
           yes == ~ask \/ job.answers[st.asked + 1] = "y"
       IN  IF st.pos = Len(args) \/ found(rm_parser, "h", "help")
           THEN status' = (IF st.ok THEN "ok" ELSE "fail") /\ UNCHANGED <<files, st>>
           ELSE IF p \notin DOMAIN files THEN status' = "fail" /\ UNCHANGED <<files, st>>
           ELSE IF eof THEN status' = "panic" /\ UNCHANGED <<files, st>>
           ELSE \E gone \in IF yes THEN rm_removes(p) ELSE {{}} :
                /\ files' = without(gone)
                /\ st' = [st EXCEPT !.pos = @ + 1, !.asked = IF ask THEN @ + 1 ELSE @, !.ok = @ /\ (yes => p \in gone),
                                    !.saved = IF yes THEN @ ELSE @ \cup {st.pos + 1}]
                /\ UNCHANGED status
    /\ UNCHANGED job

\* mv and cp: fs::rename and fs::copy of a file onto a file or a new name.  A
\* copy empties or makes the file it writes to, so that a file copied onto
\* itself is lost, and may fail before or after that and at any byte; there is
\* no call to rename a file, and fs::rename copies it and then unlinks it,
\* which may fail too.  What is left is [files, ok].
written(b, text) == [q \in DOMAIN files \cup {b} |-> IF q = b THEN text ELSE files[q]]
copied(a, b) ==
    LET text == IF a = b THEN <<>> ELSE files[a]
    IN  {[files |-> files, ok |-> FALSE], [files |-> written(b, text), ok |-> TRUE]}
        \cup {[files |-> written(b, SubSeq(text, 1, n)), ok |-> FALSE] : n \in 0..Len(text)}
renamed(a, b) ==
    {IF r.ok THEN [r EXCEPT !.files = [q \in DOMAIN @ \ {a} |-> @[q]]] ELSE r : r \in copied(a, b)}
target(src, dst) == IF is_dir(dst) THEN Append(dst, Last(src)) ELSE dst
movable(src, to) == src \in DOMAIN files /\ ~is_dir(src) /\ ~is_dir(to) /\ (Len(to) = 1 \/ is_dir(Front(to)))
mv_turn ==
    /\ status = "run" /\ job.tool \in {"mv", "cp"}
    /\ LET args == parse(<<Help>>, job.args).args
           src == args[st.pos + 1]
           dst == Last(args)
           to == target(src, dst)
       IN  CASE Len(args) < 2 \/ (Len(args) > 2 /\ ~is_dir(dst)) -> status' = "fail" /\ UNCHANGED <<files, st>>
             [] Len(args) >= 2 /\ ~(Len(args) > 2 /\ ~is_dir(dst)) /\ st.pos = Len(args) - 1 ->
                  status' = "ok" /\ UNCHANGED <<files, st>>
             [] OTHER -> IF ~movable(src, to) THEN status' = "fail" /\ UNCHANGED <<files, st>>
                         ELSE \E r \in IF job.tool = "mv" THEN renamed(src, to) ELSE copied(src, to) :
                              /\ files' = r.files
                              /\ st' = [st EXCEPT !.pos = IF r.ok THEN @ + 1 ELSE @, !.touched = @ \cup {to}]
                              /\ status' = IF r.ok THEN status ELSE "fail"
    /\ UNCHANGED job

\* date, on any day; sleep, one argument after the other.
date_main ==
    /\ status = "run" /\ job.tool = "date"
    /\ \E d \in 0..LastDay : st' = [st EXCEPT !.day = d]
    /\ status' = "ok" /\ UNCHANGED <<job, files>>
sleep_turn ==
    /\ status = "run" /\ job.tool = "sleep"
    /\ LET args == parse(<<Help>>, job.args).args
           ms == argument_to_ms(args[st.pos + 1])
       IN  IF st.pos = Len(args) THEN status' = (IF args = <<>> THEN "fail" ELSE "ok") /\ UNCHANGED st
           ELSE IF ms < 0 THEN status' = "fail" /\ UNCHANGED st
           ELSE st' = [st EXCEPT !.pos = @ + 1, !.out = Append(@, ms)] /\ UNCHANGED status
    /\ UNCHANGED <<job, files>>

Next ==
    \/ cut_main \/ wc_main \/ head_main \/ tail_main \/ sort_main \/ cat_main \/ echo_main
    \/ test_main \/ dd_turn \/ tee_turn \/ rm_turn \/ mv_turn \/ sleep_turn \/ date_main

Spec == Init /\ [][Next]_vars

-----------------------------------------------------------------------------
(* What the tools promise.                                                 *)

\* Position i is on the list.
listed(list, i) ==
    \E k \in DOMAIN list :
        CASE list[k].kind = "one"   -> i = list[k].lo
          [] list[k].kind = "upto"  -> i <= list[k].hi
          [] list[k].kind = "from"  -> i >= list[k].lo
          [] list[k].kind = "range" -> list[k].lo <= i /\ i <= list[k].hi
\* The lists cut reads as its manual says: positions start from 1, and nothing
\* lies beyond the start of an open range.  The manual allows entries `in any
\* order', but what is beyond that start flips the selection again.
plain_list(list) ==
    /\ \A k \in DOMAIN list : list[k].lo > 0
    /\ \A k, l \in DOMAIN list : list[k].kind = "from" /\ l # k => list[l].hi <= list[k].lo /\ list[l].lo <= list[k].lo
kept(list, seq) == [i \in DOMAIN SelectSeq([n \in DOMAIN seq |-> n], LAMBDA n : listed(list, n)) |->
                       seq[SelectSeq([n \in DOMAIN seq |-> n], LAMBDA n : listed(list, n))[i]]]
CutExact ==
    LET o == job.opts
        ls == lines(job.stdin)
        shows(l) == IF o.delim \in ToSet(l) THEN kept(o.list, pieces(l, o.delim)) # <<>> ELSE ~o.skip
        of(l) == IF o.delim \in ToSet(l) THEN rejoined(kept(o.list, pieces(l, o.delim)), o.delim) ELSE l
    IN  job.tool = "cut" /\ status = "ok" /\ plain_list(o.list) =>
            st.out = unlines(IF o.mode # "fields" THEN [i \in DOMAIN ls |-> kept(o.list, ls[i])]
                             ELSE LET shown_ == SelectSeq(ls, shows) IN [i \in DOMAIN shown_ |-> of(shown_[i])])

\* head -n k and tail -n +k split a text, tail -n k is its last k lines.  With
\* neither -n nor -c nothing is printed, where the manual promises ten lines,
\* and -c always fails.
lines_asked(table) == number(SelectSeq(parse(table, job.args).value["lines"], LAMBDA d : d # "+"))
SplitExact ==
    LET p == parse(HeadTable, job.args)
        k == lines_asked(HeadTable)
        ls == lines(job.stdin)
        at == IF k < Len(ls) THEN k ELSE Len(ls)
        plus == Head(p.value["lines"]) = "+"
    IN  job.tool \in {"head", "tail"} /\ status # "run" /\ p.args = <<>> /\ p.invalid = {} /\ ~found(p, "h", "help") =>
            IF found(p, "c", "bytes") THEN status = "fail"
            ELSE IF ~found(p, "n", "lines") THEN status = "ok" /\ st.out = <<>>
            ELSE status = "ok" =>
                    st.out = unlines(CASE job.tool = "head" -> SubSeq(ls, 1, at)
                                       [] job.tool = "tail" /\ plus -> SubSeq(ls, at + 1, Len(ls))
                                       [] OTHER -> SubSeq(ls, Len(ls) - at + 1, Len(ls)))

\* sort gives every line once, in order, equal ones as they came.
SortExact ==
    LET ls == lines(job.stdin)
        out == lines(st.out)
    IN  job.tool = "sort" /\ status = "ok" /\ Len(job.args) = 1 =>
            /\ \A i, j \in DOMAIN out : i < j => get_first_f64(out[i]) <= get_first_f64(out[j])
            /\ \A n \in {get_first_f64(l) : l \in ToSet(ls) \cup ToSet(out)} :
                  SelectSeq(out, LAMBDA l : get_first_f64(l) = n) = SelectSeq(ls, LAMBDA l : get_first_f64(l) = n)

\* cat only adds: without -s, and with -v where there are control bytes, the
\* text is what remains without numbers, end marks and byte marks.
CatExact ==
    LET text == FlattenSeq(job.texts)
        bare == SelectSeq(st.out, LAMBDA x : x[1] \notin {"#", "$"})
        nums == SelectSeq(st.out, LAMBDA x : x[1] = "#")
    IN  job.tool = "cat" /\ status = "ok"
        /\ ("s" \notin job.letters) /\ (CatFlags(job.letters).nonprinting \/ ToSet(text) \cap {"c0", "del"} = {}) =>
            /\ [i \in DOMAIN bare |-> bare[i][1]] = text
            /\ \A i \in DOMAIN nums : nums[i][2] = i - 1
            /\ "n" \in job.letters => Len(nums) = Len(FlattenSeq([i \in DOMAIN job.texts |-> lines(job.texts[i])]))

\* A total over files is the count of the files put together, but for a word
\* that goes over the seam.
WcExact ==
    LET p == parse(WcTable, job.args)
        all == FlattenSeq([i \in DOMAIN p.args |-> job.files[p.args[i]]])
    IN  job.tool = "wc" /\ status = "ok" /\ Len(p.args) > 1 /\ p.found = {} =>
            /\ Last(st.out)[1] = Counter(all).lines /\ Last(st.out)[3] = Len(all)
            /\ Last(st.out)[2] - Counter(all).words \in 0..(Len(p.args) - 1)

\* test: of two numbers one relation holds, and its negation does not.
TestExact ==
    LET holds(op) == evaluate_expression(job.meta, job.expr.left, op, job.expr.right)
    IN  job.tool = "test" =>
            /\ Cardinality({op \in {"lt", "eq", "gt"} : holds(op)}) = 1
            /\ holds("le") = ~holds("gt") /\ holds("ge") = ~holds("lt") /\ holds("ne") = ~holds("eq")
            /\ ~(holds("nt") /\ holds("ot")) /\ (holds("ef") => ~holds("nt"))

\* echo: a byte is escaped when an odd number of backslashes is right before it.
\* Of those only the escaped are shown, one that ends an argument is dropped,
\* and an escaped c ends the output there.
EchoExact ==
    LET p == parse(EchoTable, job.args)
        escaped(t, i) == Cardinality({j \in 1..(i - 1) : \A k \in j..(i - 1) : t[k] = "bs"}) % 2 = 1
        stops(t) == {i \in DOMAIN t : t[i] = "c" /\ escaped(t, i)}
        shown_(t, i) == CASE t[i] = "bs" -> IF escaped(t, i) THEN <<"bs">> ELSE <<>>
                          [] t[i] # "bs" /\ ~escaped(t, i) -> <<t[i]>>
                          [] OTHER -> IF t[i] \in DOMAIN Escapes THEN <<Escapes[t[i]]>> ELSE <<"bs", t[i]>>
        upto(t) == IF stops(t) = {} THEN Len(t) ELSE Min(stops(t)) - 1
        text(t) == IF found(p, "e", "escape") THEN FlattenSeq([i \in 1..upto(t) |-> shown_(t, i)]) ELSE t
        ends_ == {k \in DOMAIN p.args : found(p, "e", "escape") /\ stops(p.args[k]) # {}}
        n == IF ends_ = {} THEN Len(p.args) ELSE Min(ends_)
        gap(k) == IF k > 1 /\ ~found(p, "s", "no-spaces") THEN <<" ">> ELSE <<>>
    IN  job.tool = "echo" /\ status = "ok" /\ ~found(p, "h", "help") =>
            st.out = FlattenSeq([k \in 1..n |-> gap(k) \o text(p.args[k])])
                     \o (IF ends_ # {} \/ found(p, "n", "no-newline") THEN <<>> ELSE <<"nl">>)

\* sleep waits for each argument in turn, a number of seconds or one with its
\* unit, and fails at the first that is neither, after the waits before it.
SleepExact ==
    LET args == parse(<<Help>>, job.args).args
        secs(t, u) == number(t) * [x \in {"s", "m", "h", "d"} |->
                          CASE x = "s" -> 1 [] x = "m" -> 60 [] x = "h" -> 60 * 60 [] x = "d" -> 24 * 60 * 60][u]
        means(t, ms) == \/ number(t) >= 0 /\ ms = 1000 * secs(t, "s")
                        \/ \E u \in {"s", "m", "h", "d"} : t = Append(Front(t), u) /\ number(Front(t)) >= 0 /\ ms = 1000 * secs(Front(t), u)
    IN  job.tool = "sleep" =>
            /\ \A i \in DOMAIN st.out : means(args[i], st.out[i])
            /\ status = "ok" => args # <<>> /\ Len(st.out) = Len(args)

\* dd and tee copy a prefix of their input, all that was asked for unless a
\* call came short or failed.  dd copies one block when asked for none.  A file
\* tee does not append to keeps what the input does not reach, though its
\* manual says it is overwritten; a write that comes short loses the bytes
\* it left for that one output.
CopyExact ==
    /\ job.tool = "dd" =>
          /\ IsPrefix(st.out, job.stdin)
          /\ status = "ok" /\ ~st.short =>
                st.out = IF job.count < 0 THEN job.stdin
                         ELSE first(job.stdin, job.bs * (IF job.count = 0 THEN 1 ELSE job.count))
    /\ job.tool = "tee" /\ ~st.short =>
          /\ IsPrefix(st.out, job.stdin) /\ \A i \in DOMAIN st.took : IsPrefix(st.took[i], st.out)
          /\ \A f \in DOMAIN files \ ToSet(job.names) : files[f] = job.files[f]
          /\ status = "ok" /\ st.ok =>
                /\ st.out = job.stdin
                /\ \A f \in ToSet(job.names) :
                      files[f] = IF job.append THEN job.files[f] \o job.stdin ELSE overlay(job.files[f], job.stdin)

\* Each text tool gives what a definition of its task says: cut the listed
\* positions in order, once each; head and tail the lines up to and after a
\* point; sort every line once; cat the text and only marks besides; echo its
\* arguments with the escapes replaced; wc totals that add up; test relations
\* that exclude each other; dd and tee the bytes they were given, up to the
\* call that came short; sleep the time asked for.  Where the tool departs
\* from its manual the conjunct states what is done instead (head and tail
\* without -n, tee's old tail, dd's count of 0) or leaves the case out by name
\* (plain_list of cut, -s and unmarked control bytes of cat).
UtilsExact ==
    CutExact /\ SplitExact /\ SortExact /\ CatExact /\ WcExact /\ TestExact /\ EchoExact /\ SleepExact /\ CopyExact

\* rm, mv and cp lose no file they were not told to: rm removes nothing but its
\* arguments and, with -r, what is below them, nothing that was refused at the
\* prompt, and no directory that holds something without -r, and a status of
\* success says that all it did not refuse is gone; mv and cp leave every file
\* that is neither a source moved nor a target as it was, a source whose move
\* failed included, and what a source held is at its target.  A file that is
\* its own target is left out: it is emptied (cp) or lost (mv).
FilesKept ==
    /\ job.tool = "rm" =>
          \A f \in DOMAIN job.files :
              \/ f \in DOMAIN files /\ files[f] = job.files[f]
              \/ \E i \in 1..st.pos : LET a == rm_parser.args[i] IN
                    /\ a = f \/ (recursive /\ IsPrefix(a, f))
                    /\ i \notin st.saved
                    /\ (job.files[a] = Dir /\ ~recursive) => {q \in DOMAIN files : IsPrefix(a, q)} = {}
    /\ job.tool = "rm" /\ status = "ok" =>
          \A i \in 1..st.pos : i \notin st.saved => rm_parser.args[i] \notin DOMAIN files
    /\ job.tool \in {"mv", "cp"} =>
          LET args == parse(<<Help>>, job.args).args
              to(i) == target(args[i], Last(args))
              srcs == {args[i] : i \in 1..st.pos}
              tried == 1..(Len(args) - 1) \cap 1..(st.pos + 1)
          IN  /\ \A f \in DOMAIN job.files \ ((IF job.tool = "mv" THEN srcs ELSE {}) \cup st.touched) :
                    f \in DOMAIN files /\ files[f] = job.files[f]
              /\ (\A i, j \in tried : to(i) # args[j] /\ (i # j => to(i) # to(j))) =>
                    \A i \in 1..st.pos : files[to(i)] = job.files[args[i]] /\ (job.tool = "mv" => args[i] \notin DOMAIN files)

\* The day after, by the rules of the calendar.
leap(y) == y % 4 = 0 /\ (y % 100 # 0 \/ y % 400 = 0)
days_in(y, m) == CASE m = 2 -> IF leap(y) THEN 29 ELSE 28
                   [] m \in {4, 6, 9, 11} -> 30
                   [] OTHER -> 31
day_after(d) ==
    CASE d.day < days_in(d.year, d.month) -> [d EXCEPT !.day = @ + 1]
      [] d.day = days_in(d.year, d.month) /\ d.month < 12 -> [d EXCEPT !.day = 1, !.month = @ + 1]
      [] OTHER -> [year |-> d.year + 1, month |-> 1, day |-> 1]
\* date's arithmetic gives 1970-01-01 for day 0 and for every other day the one
\* after the day before it, leap years and centuries included.
CalendarExact ==
    job.tool = "date" /\ status = "ok" =>
        /\ format_time(0) = [year |-> 1970, month |-> 1, day |-> 1]
        /\ format_time(st.day + 1) = day_after(format_time(st.day))

\* coreutils as a whole.
CoreutilsExact == UtilsExact /\ FilesKept /\ CalendarExact
=============================================================================

----------------------------- MODULE IonSyntax ------------------------------
(***************************************************************************)
(* How the shell ion reads a line: PipelineIterator cuts it into commands, *)
(* collect_pipelines cuts a command into jobs, arguments and redirections, *)
(* and shell_expand replaces variables and braces in an argument.          *)
(*                                                                         *)
(* A text is a sequence of characters; positions count from 0, as in the   *)
(* code, and the flags of each scanner are a set.                          *)
(***************************************************************************)
EXTENDS Integers, Sequences, FiniteSets, SequencesExt

CONSTANTS
    Lines,   \* the lines tried
    Env,     \* the variables: a function from names to values
    Home,    \* the home directory
    Dirs     \* the directory stack, the current directory first

VARIABLES
    line,    \* the line
    it,      \* the PipelineIterator
    cmds,    \* the commands it has given, as <<from, to>>
    pipes,   \* what collect_pipelines made of each
    words    \* the arguments of each after expansion

vars == <<line, it, cmds, pipes, words>>

slice(t, from, to) == SubSeq(t, from + 1, to)
Blank == {" ", "nl"}

-----------------------------------------------------------------------------
(* PipelineIterator.                                                       *)

\* The flags that keep a separator from separating: quotes and $( ).
live(flags) == flags \cap {"single", "double", "one", "two"}
\* An ordinary character ends a `$` that no parenthesis followed.
settled(flags) == IF "two" \in flags /\ "one" \notin flags THEN flags ELSE flags \ {"one", "two"}
flip(flags, f) == IF f \in flags THEN flags \ {f} ELSE flags \cup {f}

NewIterator(t) == [flags |-> IF t # <<>> /\ t[1] = "#" THEN {"comment"} ELSE {}, start |-> 0, end |-> 0, white |-> 0,
                   got |-> <<>>, none |-> FALSE]
passed(i, flags) == [i EXCEPT !.flags = flags \ {"white"}, !.white = 0, !.end = @ + 1]
blank(i) == [i EXCEPT !.flags = @ \cup {"white"}, !.white = IF @ = 0 THEN i.end ELSE @, !.end = @ + 1]
gives(i, from, to) == [i EXCEPT !.got = <<(<<from, to>>)>>]
worth(t, from, to) == \E k \in (from + 1)..to : t[k] \notin Blank
separator(t, i) ==
    IF i.start = i.end THEN blank([i EXCEPT !.start = @ + 1])
    ELSE LET j == blank([i EXCEPT !.start = i.end + 1])
         IN  IF worth(t, i.start, i.end) THEN gives(j, i.start, i.end) ELSE j

scan(t, i) ==
    LET c == t[i.end + 1]
        f == i.flags
    IN  CASE "comment" \in f ->
               IF c = "nl" THEN [i EXCEPT !.end = @ + 1, !.flags = @ \ {"comment"}, !.start = i.end + 1] ELSE [i EXCEPT !.end = @ + 1]
          [] "comment" \notin f /\ "bs" \in f -> passed(i, f \ {"bs"})
          [] f \cap {"comment", "bs"} = {} /\ c = "\\" -> passed(i, f \cup {"bs"})
          [] f \cap {"comment", "bs", "two", "double"} = {} /\ c = "'" -> passed(i, flip(f, "single"))
          [] f \cap {"comment", "bs", "two", "single"} = {} /\ c = "dq" -> passed(i, flip(f, "double"))
          [] f \cap {"comment", "bs"} = {} /\ c = "$" /\ live(f) = {} -> passed(i, f \cup {"one"})
          [] f \cap {"comment", "bs"} = {} /\ c = "(" /\ live(f) = {"one"} -> passed(i, (f \ {"one"}) \cup {"two"})
          [] f \cap {"comment", "bs"} = {} /\ c = ")" /\ live(f) = {"two"} -> passed(i, f \ {"two"})
          [] f = {"white"} /\ c = "#" ->
               IF i.start < i.white
               THEN gives([i EXCEPT !.start = i.end + 1, !.flags = @ \cup {"comment"}, !.end = @ + 1], i.start, i.white)
               ELSE [i EXCEPT !.start = i.end + 1, !.flags = {"comment"}, !.white = 0, !.end = @ + 1]
          [] f \cap {"comment", "bs"} = {} /\ live(f) = {} /\ c = " " ->
               blank(IF i.start = i.end THEN [i EXCEPT !.start = @ + 1] ELSE i)
          [] f \cap {"comment", "bs"} = {} /\ live(f) = {} /\ c \in {";", "nl"} -> separator(t, i)
          [] OTHER -> passed(i, settled(f))

\* One call of `next`.
next(t, i0) ==
    LET run[n \in i0.end..Len(t)] ==
            IF n = i0.end THEN [i0 EXCEPT !.got = <<>>]
            ELSE IF run[n - 1].got # <<>> THEN run[n - 1] ELSE scan(t, run[n - 1])
        i == run[Len(t)]
        rest == [i EXCEPT !.start = Len(t) + 1]
    IN  CASE i.got # <<>> -> i
          [] i.got = <<>> /\ "comment" \notin i.flags /\ Len(t) > i.start ->
               IF worth(t, i.start, Len(t)) THEN gives(rest, i.start, Len(t)) ELSE [rest EXCEPT !.none = TRUE]
          [] OTHER -> [i EXCEPT !.none = TRUE]

-----------------------------------------------------------------------------
(* collect_pipelines, for one command.                                     *)

NewPipeline == [mode |-> "args", index |-> 0, start |-> 0, flags |-> {}, args |-> <<>>, jobs |-> <<>>, in |-> <<>>, out |-> <<>>,
                first |-> FALSE, name |-> <<>>, found |-> FALSE, append |-> FALSE, err |-> FALSE, stop |-> FALSE]
job_found(t, p, bg) ==
    [p EXCEPT !.jobs = Append(@, [args |-> IF p.args = <<>> THEN <<slice(t, p.start, p.index)>> ELSE p.args, background |-> bg]),
              !.args = <<>>, !.start = p.index + 1, !.index = @ + 1]
redir_found(p, mode) ==
    [p EXCEPT !.mode = mode, !.index = @ + 1, !.start = p.index + 1, !.first = mode = "stdout", !.name = <<>>, !.found = FALSE]
\* From one redirection to the other, unless that one is there already.
turn(p, mode, there) == IF there # <<>> THEN [p EXCEPT !.stop = TRUE]
                        ELSE [p EXCEPT !.mode = mode, !.first = mode = "stdout", !.name = <<>>, !.found = FALSE]
word_ended(t, p) == [p EXCEPT !.args = IF p.start # p.index THEN Append(@, slice(t, p.start, p.index)) ELSE @,
                              !.start = p.index + 1, !.index = @ + 1]

arg_char(t, p, c) ==
    LET f == p.flags
        on(flags) == [p EXCEPT !.flags = flags, !.index = @ + 1]
    IN  CASE "bs" \in f -> on(f \ {"bs"})
          [] "bs" \notin f /\ c = "\\" -> on(f \cup {"bs"})
          [] "bs" \notin f /\ c = "$" /\ live(f) = {} -> on(f \cup {"one"})
          [] "bs" \notin f /\ c = "(" /\ live(f) = {"one"} -> on((f \ {"one"}) \cup {"two"})
          [] "bs" \notin f /\ c = ")" /\ live(f) = {"two"} -> on(f \ {"two"})
          [] "bs" \notin f /\ c = "'" -> on(flip(f, "single"))
          [] "bs" \notin f /\ c = "dq" -> on(flip(f, "double"))
          [] "bs" \notin f /\ live(f) = {} /\ c = " " -> word_ended(t, p)
          [] "bs" \notin f /\ live(f) = {} /\ c \in {"|", "&"} -> job_found(t, p, c = "&")
          [] "bs" \notin f /\ live(f) = {} /\ c \in {">", "<"} -> redir_found(p, IF c = ">" THEN "stdout" ELSE "stdin")
          [] OTHER -> on(settled(f))

\* The character after `>` is looked at for a second `>` and dropped.
redir_char(p, c) ==
    LET f == p.flags
        here == IF p.mode = "stdout" THEN p.out ELSE p.in
        there == IF p.mode = "stdout" THEN p.in ELSE p.out
        other == IF p.mode = "stdout" THEN "<" ELSE ">"
        file == [p EXCEPT !.found = TRUE, !.out = IF p.mode = "stdout" THEN <<p.name>> ELSE @,
                          !.in = IF p.mode = "stdin" THEN <<p.name>> ELSE @]
    IN  CASE p.first -> [p EXCEPT !.first = FALSE, !.append = c = ">"]
          [] ~p.first /\ p.found ->
                IF c = other THEN turn(p, IF p.mode = "stdout" THEN "stdin" ELSE "stdout", there) ELSE p
          [] ~p.first /\ ~p.found /\ "bs" \in f -> [p EXCEPT !.flags = @ \ {"bs"}, !.name = Append(@, c)]
          [] ~p.first /\ ~p.found /\ "bs" \notin f /\ c = "\\" -> [p EXCEPT !.flags = @ \cup {"bs"}]
          [] ~p.first /\ ~p.found /\ "bs" \notin f /\ c \in {" ", "|"} -> IF p.name = <<>> THEN p ELSE file
          [] ~p.first /\ ~p.found /\ "bs" \notin f /\ c = other ->
                IF p.name = <<>> THEN [p EXCEPT !.err = TRUE, !.stop = TRUE]
                ELSE turn(file, "stdin", there)
          [] OTHER -> [p EXCEPT !.name = Append(@, c)]

redir_check(p) ==
    CASE p.mode = "args" \/ p.stop -> p
      [] p.mode = "stdout" /\ ~p.stop /\ p.first -> [p EXCEPT !.err = TRUE]
      [] p.mode = "stdout" /\ ~p.stop /\ ~p.first /\ p.out = <<>> -> IF p.name = <<>> THEN [p EXCEPT !.err = TRUE] ELSE [p EXCEPT !.out = <<p.name>>]
      [] p.mode = "stdin" /\ ~p.stop /\ p.in = <<>> -> IF p.name = <<>> THEN [p EXCEPT !.err = TRUE] ELSE [p EXCEPT !.in = <<p.name>>]
      [] OTHER -> p

collect(t) ==
    LET run[n \in 0..Len(t)] ==
            IF n = 0 THEN NewPipeline
            ELSE LET p == run[n - 1]
                 IN  CASE p.stop -> p
                       [] ~p.stop /\ p.mode = "args" -> arg_char(t, p, t[n])
                       [] OTHER -> redir_char(p, t[n])
        p == redir_check(run[Len(t)])
        args == IF p.start # p.index THEN Append(p.args, slice(t, p.start, p.index)) ELSE p.args
    IN  [jobs |-> IF args # <<>> THEN Append(p.jobs, [args |-> args, background |-> FALSE]) ELSE p.jobs,
         in |-> p.in, out |-> p.out, append |-> p.append, err |-> p.err]

-----------------------------------------------------------------------------
(* WordIterator: the pieces of an argument that expand in different ways.  *)

NewWords == [read |-> 0, flags |-> {}]
token(kind, text, flags) == [kind |-> kind, text |-> text, vars |-> "vars" \in flags, quoted |-> "double" \in flags]
kind_of(flags) == IF "braces" \in flags THEN "brace" ELSE IF "vars" \in flags THEN "variable"
                  ELSE IF "tilde" \in flags THEN "tilde" ELSE "normal"
\* A quote ends a piece; the quoted text of single quotes stays as it is.
collect_at_quote(d, w) == token(IF "single" \in w.flags THEN "normal" ELSE kind_of(w.flags), slice(d, w.start, w.read), w.flags)
quote(d, w, f) ==
    IF w.start # w.read THEN [w EXCEPT !.got = <<collect_at_quote(d, w)>>, !.read = @ + 1, !.flags = flip(@, f)]
    ELSE [w EXCEPT !.start = @ + 1, !.flags = flip(@, f), !.read = @ + 1]

word_char(d, w) ==
    LET c == d[w.read + 1]
        f == w.flags
        free == f \cap {"single", "double"} = {}
        on(flags) == [w EXCEPT !.flags = flags, !.read = @ + 1]
    IN  CASE w.bs -> [on(IF c = "$" THEN f \cup {"vars"} ELSE f) EXCEPT !.bs = FALSE]
          [] ~w.bs /\ c = "\\" -> [on(f \ {"prev"}) EXCEPT !.bs = TRUE]
          [] ~w.bs /\ c = "'" /\ "double" \notin f -> quote(d, w, "single")
          [] ~w.bs /\ c = "dq" /\ "single" \notin f -> quote(d, w, "double")
          [] ~w.bs /\ c = "{" /\ free ->
               LET g == IF "prev" \in f THEN f ELSE f \cup {"braces"}
               IN  IF "open" \in f THEN [w EXCEPT !.err = TRUE, !.flags = g] ELSE on(g \cup {"open"})
          [] ~w.bs /\ c = "}" /\ free -> IF "open" \notin f THEN [w EXCEPT !.err = TRUE] ELSE on(f \ {"open"})
          [] ~w.bs /\ c = "(" /\ "single" \notin f /\ "prev" \in f -> [on(f \ {"prev"}) EXCEPT !.paren = TRUE]
          [] ~w.bs /\ c = "$" /\ "single" \notin f -> on(f \cup {"vars", "prev"})
          [] ~w.bs /\ c = "~" /\ free /\ w.start = w.read -> on((f \ {"prev"}) \cup {"tilde"})
          [] ~w.bs /\ c = " " /\ ~w.paren ->
               [w EXCEPT !.flags = @ \cup {"white"}, !.got = <<token(kind_of(f), slice(d, w.start, w.read), f)>>]
          [] ~w.bs /\ c = ")" /\ w.paren -> [on(f) EXCEPT !.paren = FALSE]
          [] OTHER -> on(f \ {"prev"})

next_word(d, w0) ==
    LET began == [read |-> w0.read, start |-> w0.read, bs |-> FALSE, paren |-> FALSE, err |-> FALSE, got |-> <<>>,
                  flags |-> w0.flags \ {"braces", "tilde", "vars", "prev", "open"}]
        run[n \in w0.read..Len(d)] ==
            IF n = w0.read THEN began
            ELSE IF run[n - 1].got # <<>> \/ run[n - 1].err THEN run[n - 1] ELSE word_char(d, run[n - 1])
        w == run[Len(d)]
        spaces == Cardinality({n \in (w0.read + 1)..Len(d) : \A m \in (w0.read + 1)..n : d[m] = " "})
    IN  CASE "white" \in w0.flags ->                                   \* collect_whitespaces
               [began EXCEPT !.flags = w0.flags \ {"white"}, !.read = @ + spaces,
                  !.got = IF spaces = 0 /\ w0.read = Len(d) THEN <<>> ELSE <<token("normal", slice(d, w0.read, w0.read + spaces), {})>>]
          [] "white" \notin w0.flags /\ (w.got # <<>> \/ w.err) -> w
          [] "white" \notin w0.flags /\ w.got = <<>> /\ "open" \in w.flags -> [w EXCEPT !.err = TRUE]
          [] OTHER -> [w EXCEPT !.got = IF w.start = w.read THEN <<>>    \* collect_at_end
                                        ELSE <<token(kind_of(w.flags), slice(d, w.start, w.read), w.flags)>>]

-----------------------------------------------------------------------------
(* variables::expand and expand_braces.                                    *)

value(name) == IF name \in DOMAIN Env THEN Env[name] ELSE <<>>
Freed == {"{", "}", "(", ")", "$", " ", ",", "#"}      \* what a backslash frees
\* One character of VariableIterator; `out` is what its tokens expand to, and
\* a command in parentheses is left to another shell, whose output is not
\* modelled.
var_char(t, v, n) ==
    LET c == t[n]
        push(x) == [v EXCEPT !.buf = Append(@, x)]
        named == [v EXCEPT !.out = @ \o value(v.buf), !.buf = <<>>, !.mode = "text"]
        opens == n < 3 \/ (t[n - 1] = "$" /\ t[n - 2] # "\\")
    IN  CASE c = "\\" -> [v EXCEPT !.bs = ~v.bs, !.buf = IF v.bs THEN Append(@, c) ELSE @]
          [] c # "\\" /\ v.bs -> [v EXCEPT !.bs = FALSE, !.buf = @ \o (IF c \in Freed THEN <<c>> ELSE <<"\\", c>>)]
          [] c # "\\" /\ ~v.bs /\ v.mode = "braced" -> IF c = "}" THEN named ELSE push(c)
          [] c # "\\" /\ ~v.bs /\ v.mode = "parens" -> IF c = ")" THEN [v EXCEPT !.buf = <<>>, !.mode = "text"] ELSE push(c)
          [] c # "\\" /\ ~v.bs /\ v.mode = "var" ->
               CASE c \in {"{", "("} /\ opens -> [v EXCEPT !.mode = IF c = "{" THEN "braced" ELSE "parens"]
                 [] c \in {"{", "("} /\ ~opens -> [named EXCEPT !.buf = <<c>>]
                 [] c = "$" -> [named EXCEPT !.mode = "var"]
                 [] c \in {" ", ",", "#", "}", ")"} -> [named EXCEPT !.buf = <<c>>]
                 [] OTHER -> push(c)
          [] OTHER -> IF c = "$" THEN [v EXCEPT !.out = @ \o v.buf, !.buf = <<>>, !.mode = "var"] ELSE push(c)
expand_variables(t) ==
    LET run[n \in 0..Len(t)] ==
            IF n = 0 THEN [out |-> <<>>, buf |-> <<>>, mode |-> "text", bs |-> FALSE] ELSE var_char(t, run[n - 1], n)
        v == run[Len(t)]
    IN  v.out \o (IF v.mode = "var" THEN value(v.buf) ELSE v.buf)

escape_string(t) ==
    LET run[n \in 0..Len(t)] ==
            IF n = 0 THEN [out |-> <<>>, bs |-> FALSE]
            ELSE LET e == run[n - 1] IN
                 CASE e.bs -> [out |-> e.out \o (IF t[n] \in {"{", "}", ","} THEN <<t[n]>> ELSE <<"\\", t[n]>>), bs |-> FALSE]
                   [] ~e.bs /\ t[n] = "\\" -> [e EXCEPT !.bs = TRUE]
                   [] OTHER -> [e EXCEPT !.out = Append(@, t[n])]
    IN  run[Len(t)].out

\* The tokens of a word: a text has one element, an expander its choices.
brace_char(t, b, n) ==
    LET c == t[n]
        part == slice(t, b.start, n - 1)
    IN  CASE b.bs -> [b EXCEPT !.bs = FALSE]
          [] ~b.bs /\ c = "\\" -> [b EXCEPT !.bs = TRUE]
          [] ~b.bs /\ b.inside /\ c \in {"}", ","} ->
               [b EXCEPT !.start = n, !.inside = c = ",", !.cur = IF c = "," THEN Append(@, part) ELSE <<>>,
                         !.tokens = IF c = "}" THEN Append(@, Append(b.cur, part)) ELSE @,
                         !.expanders = IF c = "}" THEN @ + 1 ELSE @]
          [] ~b.bs /\ ~b.inside /\ c = "{" ->
               [b EXCEPT !.inside = TRUE, !.start = n, !.tokens = IF n - 1 # b.start THEN Append(@, <<part>>) ELSE @]
          [] OTHER -> b
\* Permutator: the last expander turns fastest.
permuted(tokens) ==
    LET run[n \in 0..Len(tokens)] ==
            IF n = 0 THEN <<(<<>>)>>
            ELSE FlattenSeq([i \in DOMAIN run[n - 1] |-> [j \in DOMAIN tokens[n] |-> run[n - 1][i] \o escape_string(tokens[n][j])]])
    IN  run[Len(tokens)]
expand_braces(t) ==
    LET run[n \in 0..Len(t)] ==
            IF n = 0 THEN [start |-> 0, bs |-> FALSE, inside |-> FALSE, cur |-> <<>>, tokens |-> <<>>, expanders |-> 0]
            ELSE brace_char(t, run[n - 1], n)
        b == run[Len(t)]
        tokens == IF b.start # Len(t) THEN Append(b.tokens, <<slice(t, b.start, Len(t))>>) ELSE b.tokens
        all == permuted(tokens)
    IN  IF b.expanders = 0 THEN <<>>
        ELSE FlattenSeq([i \in DOMAIN all |-> (IF i = 1 THEN <<>> ELSE <<" ">>) \o all[i]])

\* Variables::tilde_expansion; a directory of the stack drops what follows it.
Number == [d \in {<<"0">>, <<"1">>, <<"2">>} |-> CHOOSE n \in 0..2 : <<ToString(n)>> = d]
tilde_expansion(word) ==
    LET ends == {i \in 1..Len(word) : word[i] \in {"/", "$"}}
        end == IF ends = {} THEN Len(word) + 1 ELSE CHOOSE i \in ends : \A j \in ends : i <= j
        prefix == SubSeq(word, 2, end - 1)
        rest == SubSeq(word, end, Len(word))
        signed == prefix # <<>> /\ prefix[1] \in {"+", "-"}
        after == IF signed THEN Tail(prefix) ELSE prefix
        num == IF after # <<>> /\ after[1] = "+" THEN Tail(after) ELSE after     \* usize::from_str takes a plus
        n == IF num \in DOMAIN Number THEN Number[num] ELSE Len(Dirs)
    IN  CASE prefix = <<>> -> Home \o rest
          [] prefix = <<"+">> -> Dirs[1] \o rest
          [] prefix = <<"-">> -> IF <<"OLDPWD">> \in DOMAIN Env THEN Env[<<"OLDPWD">>] \o rest ELSE word
          [] OTHER -> IF n >= Len(Dirs) THEN word
                      ELSE IF signed /\ prefix[1] = "-" THEN Dirs[n + 1] ELSE Dirs[Len(Dirs) - n]

expand_token(k) ==
    CASE k.kind = "normal" -> k.text
      [] k.kind = "tilde" -> tilde_expansion(k.text)
      [] k.kind = "variable" -> expand_variables(k.text)
      [] k.kind = "brace" -> expand_braces(IF k.vars THEN expand_variables(k.text) ELSE k.text)
\* expand_string: an error gives up the job for one with an empty command.
expand_string(d) ==
    LET run[n \in 0..(2 * Len(d) + 1)] ==
            IF n = 0 THEN [w |-> NewWords, out |-> <<>>, end |-> FALSE, err |-> FALSE]
            ELSE LET e == run[n - 1]
                     w == next_word(d, e.w)
                 IN  CASE e.end \/ e.err -> e
                       [] ~(e.end \/ e.err) /\ w.err -> [e EXCEPT !.err = TRUE]
                       [] OTHER -> [w |-> [read |-> w.read, flags |-> w.flags], err |-> FALSE, end |-> w.got = <<>>,
                                    out |-> IF w.got = <<>> THEN e.out ELSE e.out \o expand_token(w.got[1])]
        e == run[2 * Len(d) + 1]
    IN  [ok |-> ~e.err, out |-> e.out]
expand_job(job) ==
    LET es == [i \in DOMAIN job.args |-> expand_string(job.args[i])]
    IN  IF \E i \in DOMAIN es : ~es[i].ok THEN <<(<<>>)>> ELSE [i \in DOMAIN es |-> es[i].out]

-----------------------------------------------------------------------------

Init ==
    /\ line \in Lines
    /\ it = NewIterator(line)
    /\ cmds = <<>> /\ pipes = <<>> /\ words = <<>>

\* The for loop of collect_pipelines.
command ==
    /\ ~it.none
    /\ it' = next(line, it)
    /\ IF it'.none THEN UNCHANGED <<cmds, pipes>>
       ELSE /\ cmds' = cmds \o it'.got
            /\ pipes' = Append(pipes, collect(slice(line, it'.got[1][1], it'.got[1][2])))
    /\ UNCHANGED <<line, words>>
\* An error in one refuses them all; otherwise they run one by one, up to one
\* without jobs, at whose first job run_pipeline panics.
refused == \E i \in DOMAIN pipes : pipes[i].err
panicked == words # <<>> /\ Last(words) = <<>>
expand_pipeline ==
    /\ it.none /\ ~refused /\ ~panicked /\ Len(words) < Len(pipes)
    /\ words' = Append(words, [i \in DOMAIN pipes[Len(words) + 1].jobs |-> expand_job(pipes[Len(words) + 1].jobs[i])])
    /\ UNCHANGED <<line, it, cmds, pipes>>

Next == command \/ expand_pipeline

Spec == Init /\ [][Next]_vars
-----------------------------------------------------------------------------
(* Properties.                                                             *)

chars(t) == ToSet(t)
quotes_before(t, k) == Cardinality({i \in 1..(k - 1) : t[i] = "'"})
\* Nothing but single quotes protects a character of the line.
plain == chars(line) \cap {"\\", "dq", "$", "#"} = {}
protected(k) == quotes_before(line, k) % 2 = 1
in_comment(k) == \E h \in 1..k : /\ line[h] = "#" /\ (h = 1 \/ line[h - 1] \in Blank \cup {";"})
                                 /\ \A m \in h..(k - 1) : line[m] # "nl"
within(k) == {i \in DOMAIN cmds : cmds[i][1] < k /\ k <= cmds[i][2]}

\* The commands of a line follow one another, no character is in two of them,
\* and only blanks, separators and comments are in none; a separator cuts the
\* line exactly when no quote protects it (PipelineIterator::next).
CommandsExact ==
    /\ \A i \in 1..(Len(cmds) - 1) : cmds[i][2] <= cmds[i + 1][1]
    /\ it.none => \A k \in DOMAIN line :
          \/ within(k) # {}
          \/ line[k] \in Blank \cup {";"}
          \/ in_comment(k)
    /\ plain => \A k \in DOMAIN line : line[k] \in {";", "nl"} =>
          (within(k) # {} => protected(k)) /\ ((it.none /\ protected(k)) => within(k) # {})

\* The characters of a command that are no separators of arguments.
spaced(t) == \A k \in DOMAIN t : t[k] \in {"|", "&"} => k > 1 /\ t[k - 1] = " "
kept(t) == SelectSeq([i \in DOMAIN t |-> <<i, t[i]>>],
                     LAMBDA x : ~(x[2] \in {" ", "|", "&"} /\ quotes_before(t, x[1]) % 2 = 0))
\* No character of a command is lost or moved on the way to the arguments of
\* its jobs, but for the blanks and operators between them, as long as `|` and
\* `&` are set apart by a blank (collect_pipelines).
ArgsExact ==
    plain => \A i \in DOMAIN cmds :
        LET t == slice(line, cmds[i][1], cmds[i][2])
        IN  chars(t) \cap {"<", ">"} = {} /\ spaced(t) =>
                FlattenSeq(FlattenSeq([j \in DOMAIN pipes[i].jobs |-> pipes[i].jobs[j].args])) = [k \in DOMAIN kept(t) |-> kept(t)[k][2]]

\* All the texts a word with braces stands for, the last braces turning fastest.
parts(t) ==
    LET run[n \in 0..Len(t)] == IF n = 0 THEN <<(<<>>)>>
                                ELSE IF t[n] = "," THEN Append(run[n - 1], <<>>)
                                ELSE [run[n - 1] EXCEPT ![Len(run[n - 1])] = Append(@, t[n])]
    IN  run[Len(t)]
texts(t) ==
    LET close(i) == CHOOSE j \in (i + 1)..Len(t) : t[j] = "}" /\ \A m \in (i + 1)..(j - 1) : t[m] # "}"
        run[i \in 1..(Len(t) + 1)] ==
            IF i > Len(t) THEN <<(<<>>)>>
            ELSE LET choices == IF t[i] = "{" THEN parts(SubSeq(t, i + 1, close(i) - 1)) ELSE <<(<<t[i]>>)>>
                     rest == run[IF t[i] = "{" THEN close(i) + 1 ELSE i + 1]
                 IN  FlattenSeq([x \in DOMAIN choices |-> [r \in DOMAIN rest |-> choices[x] \o rest[r]]])
    IN  run[1]
spread(t) == LET run[n \in 0..Len(t)] == IF n = 0 THEN <<(<<>>)>>
                                         ELSE IF t[n] = " " THEN Append(run[n - 1], <<>>)
                                         ELSE [run[n - 1] EXCEPT ![Len(run[n - 1])] = Append(@, t[n])]
             IN  run[Len(t)]
matched(t) == \A k \in DOMAIN t :
    /\ t[k] = "{" => \E j \in (k + 1)..Len(t) : t[j] = "}" /\ \A m \in (k + 1)..(j - 1) : t[m] \notin {"{", "}"}
    /\ t[k] = "}" => \E j \in 1..(k - 1) : t[j] = "{" /\ \A m \in (j + 1)..(k - 1) : t[m] \notin {"{", "}"}

\* What an argument expands to: text in single quotes is left alone, a word
\* with braces gives each of the texts it stands for once and in order, and with
\* nothing to expand the argument is itself (shell_expand).
WordsExact ==
    \A i \in DOMAIN words : \A j \in DOMAIN words[i] :
        LET args == pipes[i].jobs[j].args
            only(S) == Len(args) = 1 /\ args[1] # <<>> /\ chars(args[1]) \cap {"\\", "dq", "'", "$", "{", "}", "~"} \subseteq S
            a == args[1]
            w == words[i][j][1]
        IN  /\ only({}) => w = a
            /\ only({"{", "}"}) /\ "{" \in chars(a) /\ matched(a) => spread(w) = texts(a)
            /\ Len(args) = 1 /\ Len(a) > 2 /\ a[1] = "'" /\ a[Len(a)] = "'" /\ "\\" \notin chars(a)
               /\ (\A k \in 2..(Len(a) - 1) : a[k] # "'") => w = SubSeq(a, 2, Len(a) - 1)
            /\ only({"$"}) /\ a[1] = "$" /\ Len(a) > 1 /\ (\A k \in 2..Len(a) : a[k] = "a") => w = value(Tail(a))
\* The shell dies only of a command with a redirection, of which the word right
\* before it was all there is and is dropped (peg.rs; main.rs:385).
DiesOfRedirectionOnly ==
    panicked => LET t == slice(line, cmds[Len(words)][1], cmds[Len(words)][2])
                IN  \E k \in DOMAIN t : /\ t[k] \in {"<", ">"}
                                        /\ plain => \A j \in 1..(k - 1) : t[j] # " "
\* A line is split into its commands, a command into its jobs and arguments,
\* and an argument into what it stands for (peg.rs, shell_expand).
LineExact == CommandsExact /\ ArgsExact /\ WordsExact /\ DiesOfRedirectionOnly
=============================================================================

-------------------------------- MODULE Ion ---------------------------------
(***************************************************************************)
(* The shell ion: the statements of a script, the blocks they collect, the *)
(* functions, variables and directory stack, and the processes of a        *)
(* pipeline.  IonSyntax models how a line becomes these statements.        *)
(*                                                                         *)
(* A pipeline is a sequence of jobs and the files it is redirected to, a   *)
(* job a sequence of words, and a word [var, text]: a variable to look up, *)
(* or text.  What run_pipeline does after a call of itself is kept on      *)
(* `todo`; builtins are one step, a pipeline of programs takes one per     *)
(* spawn and per wait, between which its processes end as they like.       *)
(***************************************************************************)
EXTENDS Integers, Sequences, FiniteSets, SequencesExt

CONSTANTS
    Scripts,     \* the scripts tried: sequences of statements
    Sources,     \* the files `source` may name, and the statement in each
    Opened,      \* the files a redirection can open
    Programs,    \* the programs that can be spawned
    Dirs,        \* the directories there are at first
    Home,        \* the home directory, where the shell starts
    MaxRemoved   \* how many directories others may remove

VARIABLES
    script,   \* the lines typed or read, and the line the shell is at
    at,
    flow,     \* FlowControl: modes, collecting_block, current_block, current_statement
    vars_,    \* Variables and the environment
    env,
    funcs,    \* functions: name to [args, pipelines]
    stack,    \* DirectoryStack.dirs
    cwd,      \* the current directory, and the directories there are
    there,
    todo,     \* what is left of the handlers that run
    kids,     \* the children of the running pipeline
    pc,       \* idle, spawn, wait, or done when the shell has exited
    status,   \* previous_status
    ran       \* the commands run so far

vars == <<script, at, flow, vars_, env, funcs, stack, cwd, there, todo, kids, pc, status, ran>>

\* value: what the comparison of an if gives; name and list: of a for or fn.
Statement(kind) == [kind |-> kind, value |-> FALSE, name |-> "", list |-> <<>>, pipes |-> <<>>]
NoFlow == [modes |-> <<>>, collecting |-> FALSE, block |-> <<>>, stmt |-> Statement("default")]
FAILURE == -1
NO_SUCH_COMMAND == 127
TERMINATED == 143

\* Variables.
get_var(name) == IF name \in DOMAIN vars_ THEN vars_[name] ELSE IF name \in DOMAIN env THEN env[name] ELSE ""
with_var(f, name, v) == [n \in DOMAIN f \cup {name} |-> IF n = name THEN v ELSE f[n]]
without_var(f, name) == [n \in DOMAIN f \ {name} |-> f[n]]
set_var(f, name, v) == IF name = "" THEN f ELSE IF v = "" THEN without_var(f, name) ELSE with_var(f, name, v)
has_var(name) == name \in DOMAIN vars_ \cup DOMAIN env
expand_word(w) == IF w.var THEN get_var(w.text) ELSE w.text
expand_job(job) == [i \in DOMAIN job |-> expand_word(job[i])]
expand_pipeline(p) == [p EXCEPT !.jobs = [i \in DOMAIN p.jobs |-> expand_job(p.jobs[i])]]

-----------------------------------------------------------------------------
(* DirectoryStack.  A change that fails leaves the directory as it is.     *)

Numerals == ("0" :> 0) @@ ("1" :> 1) @@ ("2" :> 2)
get_size == LET v == get_var("DIRECTORY_STACK_SIZE") IN IF v \in DOMAIN Numerals THEN Numerals[v] ELSE 1000
push_dir(s, d) == SubSeq(<<d>> \o s, 1, IF get_size < Len(s) + 1 THEN get_size ELSE Len(s) + 1)
change_and_push_dir(s, d) == IF d \in there THEN [ok |-> TRUE, stack |-> push_dir(s, d), cwd |-> d]
                             ELSE [ok |-> FALSE, stack |-> s, cwd |-> cwd]
popd ==
    IF Len(stack) < 2 \/ stack[2] \notin there THEN [ok |-> FALSE, stack |-> stack, cwd |-> cwd]
    ELSE [ok |-> TRUE, stack |-> Tail(stack), cwd |-> stack[2]]
switch_to_previous_directory ==
    IF Len(stack) < 2 THEN [ok |-> FALSE, stack |-> stack, cwd |-> cwd]
    ELSE change_and_push_dir(RemoveAt(stack, 2), stack[2])
cd(args) ==
    CASE Len(args) = 1 -> change_and_push_dir(stack, Home)
      [] Len(args) > 1 /\ args[2] = "-" -> switch_to_previous_directory
      [] OTHER -> change_and_push_dir(stack, args[2])
pushd(args) == IF Len(args) = 1 THEN [ok |-> FALSE, stack |-> stack, cwd |-> cwd] ELSE change_and_push_dir(stack, args[2])

-----------------------------------------------------------------------------
(* run_pipeline.  An item of `todo` is a pipeline of a line, which is run  *)
(* or collected, a pipeline to run, a variable of a for loop to set, the   *)
(* variables to restore when a function returns, the end of handle_end or  *)
(* of `source`, or update_variables.                                       *)

NoPipe == [jobs |-> <<>>, stdin |-> "", stdout |-> ""]
Item(op) == [op |-> op, pipe |-> NoPipe, name |-> "", value |-> "", saved |-> <<>>]
item(op, p) == [Item(op) EXCEPT !.pipe = p]
assign(n, v) == [Item("set") EXCEPT !.name = n, !.value = v]
items(op, ps) == [i \in DOMAIN ps |-> item(op, ps[i])]

\* Retrieve the exit status and set the $? variable.
returns(code, f) == vars_' = with_var(f, "?", ToString(code)) /\ status' = code
Builtins == {"cd", "pushd", "popd", "dirs", "let", "drop", "export", "true", "false", "exit", "source", "help", "history"}

directory(job) ==
    LET r == CASE job[1] = "cd" -> cd(job) [] job[1] = "pushd" -> pushd(job) [] job[1] = "popd" -> popd
    IN  /\ stack' = r.stack /\ cwd' = r.cwd
        /\ returns(IF r.ok THEN 0 ELSE FAILURE, vars_)
        /\ UNCHANGED <<env, pc>>

\* The words after the name of let or export are a key, "=" and a value.
parse_assignment(job) ==
    IF Len(job) = 1 THEN [key |-> <<>>, value |-> <<>>]
    ELSE [key |-> <<job[2]>>, value |-> IF Len(job) = 4 THEN <<job[4]>> ELSE <<>>]
let_(job) ==
    LET a == parse_assignment(job)
    IN  CASE a.value # <<>> -> returns(0, with_var(vars_, a.key[1], a.value[1]))
          [] OTHER -> returns(IF a.key # <<>> THEN FAILURE ELSE 0, vars_)
\* The names are dropped one by one, up to one that is not there.
drop_variable(job) ==
    LET names == Tail(job)
        missing == {i \in DOMAIN names : names[i] \notin DOMAIN vars_ \/ \E j \in 1..(i - 1) : names[j] = names[i]}
        gone == {names[i] : i \in {k \in DOMAIN names : \A m \in missing : k < m}}
    IN  returns(IF names = <<>> \/ missing # {} THEN FAILURE ELSE 0, [n \in DOMAIN vars_ \ gone |-> vars_[n]])
export_variable(job) ==
    LET a == parse_assignment(job)
        known == a.key # <<>> /\ has_var(a.key[1])
        value == IF a.value # <<>> THEN a.value[1] ELSE get_var(a.key[1])
    IN  IF a.value # <<>> \/ known THEN returns(0, vars_) /\ env' = with_var(env, a.key[1], value)
        ELSE returns(FAILURE, vars_) /\ UNCHANGED env

\* A call binds its arguments and keeps what their names meant.
saved_of(args) == [i \in DOMAIN args |-> [name |-> args[i], had |-> has_var(args[i]), value |-> get_var(args[i])]]
bound(args, values) ==
    LET f[i \in 0..Len(args)] == IF i = 0 THEN vars_ ELSE set_var(f[i - 1], args[i], values[i]) IN f[Len(args)]
restored(saved) ==
    LET f[i \in 0..Len(saved)] ==
            IF i = 0 THEN vars_
            ELSE IF saved[i].had THEN set_var(f[i - 1], saved[i].name, saved[i].value) ELSE without_var(f[i - 1], saved[i].name)
    IN  f[Len(saved)]

call(job, f, rest) ==
    /\ IF Len(job) - 1 = Len(f.args)
       THEN /\ todo' = items("run", f.pipelines) \o <<[Item("return") EXCEPT !.saved = saved_of(f.args)]>> \o rest
            /\ vars_' = bound(f.args, Tail(job)) /\ UNCHANGED status
       ELSE todo' = rest /\ returns(NO_SUCH_COMMAND, vars_)
    /\ UNCHANGED <<env, stack, cwd, pc, flow, funcs>>

-----------------------------------------------------------------------------
(* on_command.  A line that opens a block starts to collect; `end` runs    *)
(* what was collected, or keeps it as a function.                          *)

is_flow_control(s) == s.kind \in {"if", "else", "for", "fn"}
collects_any(fl) == fl.stmt.kind \in {"if", "else", "for", "fn"}
collects(fl) ==
    LET mode == fl.modes # <<>> /\ Last(fl.modes)
    IN  CASE fl.stmt.kind = "if" -> mode
          [] fl.stmt.kind = "else" -> ~mode
          [] OTHER -> fl.stmt.kind \in {"for", "fn"}

\* What handle_end runs: the flow it leaves while running, and the items.
handle_end(fl) ==
    LET left == [fl EXCEPT !.collecting = FALSE]
        out == [left EXCEPT !.block = <<>>]
        popped == [left EXCEPT !.modes = IF fl.modes = <<>> THEN <<>> ELSE Front(fl.modes)]
        of(v) == <<assign(fl.stmt.name, v)>> \o items("run", fl.block)
    IN  CASE fl.stmt.kind = "for" -> [flow |-> out, items |-> FlattenSeq([i \in DOMAIN fl.stmt.list |-> of(fl.stmt.list[i])])]
          [] fl.stmt.kind = "fn" -> [flow |-> out, items |-> <<>>]
          [] fl.stmt.kind \in {"if", "else"} ->
                IF popped.modes = <<>> THEN [flow |-> [popped EXCEPT !.block = <<>>], items |-> items("run", fl.block)]
                ELSE [flow |-> popped, items |-> <<>>]
          [] OTHER -> [flow |-> out, items |-> items("run", fl.block)]
handle_if(fl, s) == [fl EXCEPT !.modes = Append(@, s.value)]

on_command(s, rest) ==
    LET fl == IF is_flow_control(s) THEN [flow EXCEPT !.stmt = s, !.collecting = TRUE] ELSE flow
        e == handle_end(fl)
    IN  /\ flow' = CASE s.kind = "end" -> e.flow [] s.kind = "if" -> handle_if(fl, s) [] OTHER -> fl
        /\ todo' = CASE s.kind = "end" -> e.items \o <<Item("default")>> \o rest
                     [] s.kind = "pipelines" -> items("line", s.pipes) \o rest
                     [] OTHER -> rest
        /\ funcs' = IF s.kind = "end" /\ fl.stmt.kind = "fn"
                    THEN with_var(funcs, fl.stmt.name, [args |-> fl.stmt.list, pipelines |-> fl.block]) ELSE funcs

\* source reads the whole file as one command.
source_command(job, rest) ==
    /\ IF Len(job) > 1 /\ job[2] \in DOMAIN Sources
       THEN on_command(Sources[job[2]], <<Item("sourced")>> \o rest) /\ UNCHANGED <<vars_, status>>
       ELSE /\ returns(IF Len(job) > 1 THEN FAILURE ELSE 0, vars_)
            /\ todo' = rest /\ UNCHANGED <<flow, funcs>>
    /\ UNCHANGED <<stack, cwd, env, pc>>
exit(job) ==
    /\ pc' = "done"
    /\ status' = IF Len(job) > 1 /\ job[2] \in DOMAIN Numerals THEN Numerals[job[2]] ELSE status
    /\ UNCHANGED <<stack, cwd, env, vars_>>
builtin(job, rest) ==
    CASE job[1] = "source" -> source_command(job, rest)
      [] OTHER ->
            /\ todo' = rest
            /\ UNCHANGED <<flow, funcs>>
            /\ CASE job[1] \in {"cd", "pushd", "popd"} -> directory(job)
                 [] job[1] = "let" -> let_(job) /\ UNCHANGED <<stack, cwd, env, pc>>
                 [] job[1] = "drop" -> drop_variable(job) /\ UNCHANGED <<stack, cwd, env, pc>>
                 [] job[1] = "export" -> export_variable(job) /\ UNCHANGED <<stack, cwd, pc>>
                 [] job[1] = "exit" -> exit(job)
                 [] OTHER -> returns(IF job[1] = "false" THEN FAILURE ELSE 0, vars_) /\ UNCHANGED <<stack, cwd, env, pc>>

run_pipeline(p, rest) ==
    LET x == expand_pipeline(p)
        first == x.jobs[1]
    IN  /\ ran' = Append(ran, x.jobs)
        /\ kids' = <<>>
        /\ IF first[1] \in Builtins THEN builtin(first, rest)
           ELSE IF first[1] \in DOMAIN funcs THEN call(first, funcs[first[1]], rest)
           ELSE /\ pc' = "spawn"
                /\ todo' = <<item("spawn", x)>> \o rest
                /\ UNCHANGED <<vars_, env, stack, cwd, status, flow, funcs>>

-----------------------------------------------------------------------------
(* pipe and wait.  Each command is spawned with its input from the one     *)
(* before it; then they are waited for in order.                           *)

kid(state, stdin, stdout) == [state |-> state, code |-> 0, stdin |-> stdin, stdout |-> stdout]
spawn ==
    LET p == Head(todo).pipe
        i == Len(kids) + 1
        stdin == IF i = 1 THEN IF p.stdin \in Opened THEN "file" ELSE "shell"
                 ELSE IF kids[i - 1].state = "none" THEN "null" ELSE "pipe"
        stdout == IF i < Len(p.jobs) THEN "pipe" ELSE IF p.stdout \in Opened THEN "file" ELSE "shell"
    IN  /\ pc = "spawn"
        /\ kids' = Append(kids, kid(IF p.jobs[i][1] \in Programs THEN "running" ELSE "none", stdin, stdout))
        /\ pc' = IF i = Len(p.jobs) THEN "wait" ELSE "spawn"
        /\ UNCHANGED <<script, at, flow, vars_, env, funcs, stack, cwd, there, todo, status, ran>>

left == {i \in DOMAIN kids : kids[i].state \in {"running", "exited"}}
\* A wait that fails gives the process up.
code_of(k) == CASE k.state = "none" -> NO_SUCH_COMMAND
                [] k.state = "lost" -> 100
                [] OTHER -> k.code
wait ==
    /\ pc = "wait"
    /\ IF left # {}
       THEN LET i == CHOOSE n \in left : \A m \in left : n <= m
            IN  /\ \/ kids[i].state = "exited" /\ kids' = [kids EXCEPT ![i].state = "reaped"]
                   \/ kids' = [kids EXCEPT ![i].state = "lost"]
                /\ UNCHANGED <<pc, todo, vars_, status>>
       ELSE /\ returns(code_of(Last(kids)), vars_)
            /\ pc' = "idle" /\ todo' = Tail(todo) /\ UNCHANGED kids
    /\ UNCHANGED <<script, at, flow, env, funcs, stack, cwd, there, ran>>

-----------------------------------------------------------------------------
(* The shell reads a line when it is done with the one before; others end  *)
(* its processes and remove directories.                                   *)

readln ==
    /\ pc = "idle" /\ todo = <<>>
    /\ IF at > Len(script.lines)
       THEN pc' = "done" /\ UNCHANGED <<at, flow, todo, funcs>>
       ELSE /\ on_command(script.lines[at], IF script.typed THEN <<Item("update")>> ELSE <<>>)
            /\ at' = at + 1 /\ UNCHANGED pc
    /\ UNCHANGED <<script, vars_, env, stack, cwd, there, kids, status, ran>>

update_variables(rest) ==
    /\ todo' = rest
    /\ env' = IF get_var("PWD") = cwd THEN env ELSE with_var(with_var(env, "OLDPWD", get_var("PWD")), "PWD", cwd)
    /\ UNCHANGED <<flow, vars_, funcs, stack, cwd, kids, pc, status, ran>>

run_item ==
    LET h == Head(todo) rest == Tail(todo)
    IN  /\ pc = "idle" /\ todo # <<>>
        /\ \/ h.op = "run" /\ run_pipeline(h.pipe, rest)
           \/ h.op = "line" /\ ~flow.collecting /\ run_pipeline(h.pipe, rest)
           \/ /\ h.op = "line" /\ flow.collecting
              /\ flow' = [flow EXCEPT !.block = IF collects(flow) THEN Append(@, h.pipe) ELSE @]
              /\ todo' = rest /\ UNCHANGED <<vars_, env, funcs, stack, cwd, kids, pc, status, ran>>
           \/ /\ h.op = "set" /\ vars_' = set_var(vars_, h.name, h.value)
              /\ todo' = rest /\ UNCHANGED <<flow, env, funcs, stack, cwd, kids, pc, status, ran>>
           \/ /\ h.op = "return" /\ vars_' = restored(h.saved)
              /\ todo' = rest /\ UNCHANGED <<flow, env, funcs, stack, cwd, kids, pc, status, ran>>
           \/ /\ h.op = "default" /\ flow' = [flow EXCEPT !.stmt = Statement("default")]
              /\ todo' = rest /\ UNCHANGED <<vars_, env, funcs, stack, cwd, kids, pc, status, ran>>
           \/ /\ h.op = "sourced" /\ returns(0, vars_) /\ kids' = <<>>
              /\ todo' = rest /\ UNCHANGED <<flow, env, funcs, stack, cwd, pc, ran>>
           \/ h.op = "update" /\ update_variables(rest)
        /\ UNCHANGED <<script, at, there>>

kid_exits ==
    \E i \in DOMAIN kids, code \in {0, 1, TERMINATED} :
        /\ kids[i].state = "running"
        /\ kids' = [kids EXCEPT ![i].state = "exited", ![i].code = code]
        /\ UNCHANGED <<script, at, flow, vars_, env, funcs, stack, cwd, there, todo, pc, status, ran>>
dir_removed ==
    \E d \in there : /\ Cardinality(Dirs \ there) < MaxRemoved /\ d # Home
                     /\ there' = there \ {d}
                     /\ UNCHANGED <<script, at, flow, vars_, env, funcs, stack, cwd, todo, kids, pc, status, ran>>

Init ==
    /\ script \in Scripts /\ at = 1 /\ flow = NoFlow
    /\ vars_ = "DIRECTORY_STACK_SIZE" :> "1000"
    /\ env = ("PWD" :> Home) @@ ("HOME" :> Home)
    /\ funcs = <<>> /\ stack = <<Home>> /\ cwd = Home /\ there = Dirs
    /\ todo = <<>> /\ kids = <<>> /\ pc = "idle" /\ status = 0 /\ ran = <<>>
Next == readln \/ run_item \/ spawn \/ wait \/ kid_exits \/ dir_removed
Spec == Init /\ [][Next]_vars
-----------------------------------------------------------------------------
(* What a script without nested blocks means: a for loop runs its body for *)
(* each value, an if runs the branch its comparison picks, and a call runs *)
(* the body in the caller's variables extended with the arguments.         *)

meant_by(p, e) == [i \in DOMAIN p.jobs |-> [k \in DOMAIN p.jobs[i] |->
    LET w == p.jobs[i][k] IN IF ~w.var THEN w.text ELSE IF w.text \in DOMAIN e THEN e[w.text] ELSE ""]]
RECURSIVE meaning(_, _, _)
meaning(ps, e, fns) ==
    IF ps = <<>> THEN <<>>
    ELSE LET x == meant_by(Head(ps), e)
             f == fns[x[1][1]]
             inner == [n \in DOMAIN e \cup ToSet(f.args) |->
                          IF n \in ToSet(f.args) THEN x[1][1 + CHOOSE i \in DOMAIN f.args : f.args[i] = n] ELSE e[n]]
         IN  <<x>> \o (IF x[1][1] \in DOMAIN fns /\ Len(x[1]) = Len(f.args) + 1 THEN meaning(f.pipelines, inner, fns) ELSE <<>>)
                  \o meaning(Tail(ps), e, fns)

NoBlock == [head |-> Statement("default"), taken |-> TRUE, body |-> <<>>]
means ==
    LET f[i \in 0..Len(script.lines)] ==
            IF i = 0 THEN [out |-> <<>>, e |-> env, fns |-> <<>>, open |-> NoBlock]
            ELSE LET m == f[i - 1] s == script.lines[i] b == m.open
                     each[k \in 0..Len(b.head.list)] ==
                         IF k = 0 THEN <<>>
                         ELSE each[k - 1] \o meaning(b.body, with_var(m.e, b.head.name, b.head.list[k]), m.fns)
                 IN  CASE s.kind \in {"if", "for", "fn"} -> [m EXCEPT !.open = [head |-> s, taken |-> s.kind # "if" \/ s.value, body |-> <<>>]]
                       [] s.kind = "else" -> [m EXCEPT !.open.taken = ~@]
                       [] s.kind = "pipelines" /\ b.head.kind = "default" -> [m EXCEPT !.out = @ \o meaning(s.pipes, m.e, m.fns)]
                       [] s.kind = "pipelines" /\ b.head.kind # "default" -> IF b.taken THEN [m EXCEPT !.open.body = @ \o s.pipes] ELSE m
                       [] b.head.kind = "for" -> [m EXCEPT !.open = NoBlock, !.out = @ \o each[Len(b.head.list)],
                                                   !.e = IF b.head.list = <<>> THEN @ ELSE with_var(@, b.head.name, Last(b.head.list))]
                       [] b.head.kind = "fn" -> [m EXCEPT !.open = NoBlock, !.fns = with_var(@, b.head.name, [args |-> b.head.list, pipelines |-> b.body])]
                       [] OTHER -> [m EXCEPT !.open = NoBlock, !.out = @ \o meaning(b.body, m.e, m.fns)]
    IN  f[Len(script.lines)].out

\* A script whose blocks are not nested, and that changes no variable itself,
\* runs the commands it means, in order (handle_end, handle_pipelines,
\* run_pipeline); once it has, the names its functions bound mean what they did.
BlocksExact ==
    (script.plain /\ pc = "done") =>
        /\ ran = means
        /\ \A f \in DOMAIN funcs : \A a \in ToSet(funcs[f].args) :
              (\A i \in DOMAIN script.lines : script.lines[i].kind = "for" => script.lines[i].name # a) => get_var(a) = ""
\* The top of the directory stack is the current directory, unless the stack
\* is limited to nothing, whatever directories are removed (directory_stack.rs).
TopIsCurrent == stack = <<>> \/ stack[1] = cwd
\* A pipeline is over only when each of its processes has ended and been waited
\* for, but for those whose wait failed, and $? then is what the last one
\* returned, or 100 when it is one of these (pipe.rs, wait).
AllReaped == (pc = "idle" /\ kids # <<>>) => left = {} /\ status = code_of(Last(kids))
\* What the shell promises its scripts.
ShellExact == BlocksExact /\ TopIsCurrent /\ AllReaped
=============================================================================

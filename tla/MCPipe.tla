------------------------------- MODULE MCPipe -------------------------------
(***************************************************************************)
(* Calls that wait for somebody else: the reads of a pipe, and the calls   *)
(* of a scheme that a daemon serves.                                       *)
(***************************************************************************)
EXTENDS Pipe

VARIABLES part,      \* "pipe" or "user"
          at, packet, daemon, packet_id, todo, taken, done, fmap, grants, cgrants, late, panicked

user == <<at, packet, daemon, packet_id, todo, taken, done, fmap, grants, cgrants, late, panicked>>

BothFlags == {{}, {"O_NONBLOCK", "O_CLOEXEC"}}

Clients == {"c1", "c2"}
Us == INSTANCE UserScheme WITH MaxId <- 4, pc <- at, next_id <- packet_id

MCInit ==
    /\ Init /\ Us!Init
    /\ \/ part = "pipe"
       \/ part = "user" /\ shared /\ \A id \in Id : flags[id] = {}

MCNext ==
    /\ UNCHANGED part
    /\ \/ part = "pipe" /\ Next /\ UNCHANGED user
       \/ part = "user" /\ Us!Next /\ UNCHANGED vars

(* ScheduleFairness and the rest of Pipe's fairness for a pipe, and that   *)
(* of UserScheme for a daemon: it serves its queue, and a client whose     *)
(* answer is there goes on.                                                *)
MCFairness ==
    /\ WF_contextVars(part = "pipe" /\ kmain)
    /\ WF_contextVars(part = "pipe" /\ pit)
    /\ \A c \in Contexts :
        /\ WF_contextVars(part = "pipe" /\ signal_handler(c))
        /\ WF_contextVars(part = "pipe" /\ nanosleep_return(c))
        /\ WF_contextVars(part = "pipe" /\ sched_yield(c))
        /\ WF_vars(part = "pipe" /\ read_again(c))
        /\ WF_vars(part = "pipe" /\ c \in signalled /\ exit(c))
    /\ WF_user(part = "user" /\ Us!read(1))
    /\ \A p \in Us!Packet : WF_user(part = "user" /\ (Us!write(p, TRUE) \/ Us!write(p, FALSE)))
    /\ \A c \in Clients : WF_user(part = "user" /\ Us!call_return(c))

MCSpec == MCInit /\ [][MCNext]_<<part, vars, user>> /\ MCFairness

(* Each call of a daemon's scheme is answered once, to its own caller, and *)
(* the caller's buffer is mapped in the daemon exactly until then, also if *)
(* a signal takes the caller away (kernel/scheme/user.rs; see UserScheme). *)
CallExact == Us!CallExact

(* A call returns while the daemon serves (done.receive of user.rs).       *)
CallReturns == Us!CallReturns
=============================================================================

----------------------------- MODULE MCDesktop ------------------------------
(***************************************************************************)
(* The desktop: a terminal with its shell on a pty, or windows on orbital. *)
(***************************************************************************)
EXTENDS Terminal

VARIABLES part,     \* the part that runs, "terminal" or "orbital"
          windows, order, redraws, screen, cursor, drag, win_key, next, reads, pc, calls

desk == <<windows, order, redraws, screen, cursor, drag, win_key, next, reads, pc, calls>>

Scenario(keys, n) == [keys |-> keys, ops |-> n]
MCScenarios == {Scenario(<<"c", "c", "bs", "nl">>, 0), Scenario(<<"ctrl", "c", "ctrl_up", "nl">>, 0),
                Scenario(<<"up">>, 1), Scenario(<<"nl">>, 1), Scenario(<<>>, 2), Scenario(<<"quit">>, 1)}

O == INSTANCE Orbital WITH
        Width <- 4, Height <- 3, Places <- {<<-1, -1>>, <<0, 1>>}, Mouse <- {<<1, 1>>, <<2, 0>>},
        MaxWindows <- 2, MaxCalls <- 3, todo <- reads

MCInit == /\ O!Init /\ Init
          /\ part \in {"terminal", "orbital"}
          /\ part = "orbital" => (typing = <<>> /\ ops = 2)

MCNext ==
    \/ part = "terminal" /\ Next /\ UNCHANGED part /\ UNCHANGED desk
    \/ part = "orbital" /\ O!Next /\ UNCHANGED part /\ UNCHANGED vars

MCSpec == MCInit /\ [][MCNext]_<<part, vars, desk>> /\ ((part = "terminal") => Fairness)

(* Every part of the screen that is not as the windows say is scheduled to *)
(* be drawn, and no client's read is forgotten (schemes/orbital; see       *)
(* Orbital).                                                               *)
OrbitalExact == O!OrbitalExact
=============================================================================

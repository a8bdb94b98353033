---------------------------- MODULE TurnProtocol ----------------------------
(***************************************************************************)
(* What the chat window promises about turns, said without goroutines and  *)
(* channels: at most one turn is live; a turn goes live once; it shows its *)
(* events one after the other, and only while it is live; it leaves the    *)
(* live state by finishing or by being abandoned, for good; and the next   *)
(* turn may follow the end of the last one in the same step.               *)
(***************************************************************************)
EXTENDS Naturals

CONSTANT MaxTurns

Turn == 1 .. MaxTurns
NoTurn == 0

VARIABLES
    current,   \* the live turn, or NoTurn
    phase,     \* the life of every turn
    shown      \* how many of its events are on the screen

vars == <<current, phase, shown>>

Init ==
    /\ current = NoTurn
    /\ phase = [t \in Turn |-> "fresh"]
    /\ shown = [t \in Turn |-> 0]

Begin(t) ==
    /\ current = NoTurn
    /\ phase[t] = "fresh"
    /\ current' = t
    /\ phase' = [phase EXCEPT ![t] = "live"]
    /\ UNCHANGED shown

Show ==
    /\ current # NoTurn
    /\ shown' = [shown EXCEPT ![current] = @ + 1]
    /\ UNCHANGED <<current, phase>>

Leave(how) ==
    /\ current # NoTurn
    /\ current' = NoTurn
    /\ phase' = [phase EXCEPT ![current] = how]
    /\ UNCHANGED shown

FinishAndBegin(t) ==
    /\ current # NoTurn
    /\ phase[t] = "fresh"
    /\ current' = t
    /\ phase' = [phase EXCEPT ![current] = "finished", ![t] = "live"]
    /\ UNCHANGED shown

Next ==
    \/ Show
    \/ \E how \in {"finished", "abandoned"} : Leave(how)
    \/ \E t \in Turn : Begin(t) \/ FinishAndBegin(t)

Spec == Init /\ [][Next]_vars

=============================================================================

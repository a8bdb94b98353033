---------------------------- MODULE MCFrontEnds ----------------------------
(* The two front ends of the turn engine on small instances, under fairness, and a  *)
(* call of bash, for whose end a turn waits: a behaviour is one of the chat window, *)
(* one of the program without it, or one of the call.                               *)
EXTENDS Headless, BashTool

VARIABLE part

MCInit == part \in {"window", "headless", "bash"} /\ Init /\ HeadlessInit /\ BashInit

Window == part = "window" /\ UNCHANGED <<part, headVars, bashVars>>
Scripted == part = "headless" /\ UNCHANGED <<part, bashVars>>
Command == part = "bash" /\ UNCHANGED <<part, vars, headVars>>

MCNext == (Window /\ Next) \/ (Scripted /\ HeadlessNext) \/ (Command /\ BashNext)

allVars == <<part, vars, headVars, bashVars>>

\* The window's fairness is TurnEngine's; without it the same holds, but that a provider
\* owes the end of its stream only until a signal comes.
MCFairness ==
    /\ \A t \in Turn :
        /\ WF_allVars(Window /\ Wait(t))
        /\ WF_allVars(Window /\ SendMessage(t))
        /\ WF_allVars(Window /\ StreamEnd(t))
        /\ WF_allVars(Window /\ StreamClose(t))
        /\ WF_allVars(Scripted /\ Agent(t))
        /\ WF_allVars(Scripted /\ Provider(t) /\ streamPc[t] # streamPc'[t] /\ ~Signalled)
    /\ WF_allVars(Window /\ EventLoop)
    /\ WF_allVars(Scripted /\ Loop)
    /\ BashFairness

MCSpec == MCInit /\ [][MCNext]_allVars /\ MCFairness
=============================================================================

------------------------------ MODULE Headless ------------------------------
(***************************************************************************)
(* bitchtea --headless (main.go): one prompt and its follow-ups, answered  *)
(* on stdout, with an exit status.  The program is TurnEngine's agent and  *)
(* stream goroutines with another front end: a loop that makes a channel   *)
(* for each turn and ranges over it until it is closed, under one context  *)
(* for all turns, which SIGINT and SIGTERM cancel.                         *)
(***************************************************************************)
EXTENDS TurnEngine

VARIABLES
    at,        \* where runHeadlessLoop is: "collect", "send", "range", "exit"
    code,      \* the exit status
    newline,   \* textEndedWithNewline
    printed,   \* history: per turn, the kinds of events the loop acted on
    completed  \* history: turns whose agent saw the stream's "done"

headVars == <<at, code, newline, printed, completed>>

\* What of TurnEngine belongs to the window; of its fields the loop uses turns alone.
windowVars == <<streaming, eventCh, cancelFn, queued, input, cmdVars, typed, dropped,
                doneCount, seen>>

HeadlessTypeOK ==
    /\ at \in {"collect", "send", "range", "exit"}
    /\ code \in {0, 1}
    /\ newline \in BOOLEAN
    /\ printed \in [Turn -> Seq(EventKind)]
    /\ completed \subseteq Turn

HeadlessInit ==
    /\ at = "collect"
    /\ code = 0
    /\ newline = TRUE
    /\ printed = [t \in Turn |-> <<>>]
    /\ completed = {}

Signalled == cancelled = Turn
Exit(status) == at' = "exit" /\ code' = status

-----------------------------------------------------------------------------
(* runHeadlessLoop *)

\* The agent's goroutine of the next turn.
GoTurn(prompts) ==
    LET t == turns + 1 IN
    /\ t \in Turn
    /\ turns' = t
    /\ pc' = [pc EXCEPT ![t] = "start"]
    /\ carried' = [carried EXCEPT ![t] = prompts]
    /\ at' = "range" /\ UNCHANGED code

\* collectHeadlessPrompt: of the flag and of stdin, or none.
Collect(prompt) ==
    /\ at = "collect"
    /\ IF prompt = NoPrompt
       THEN Exit(1) /\ UNCHANGED <<turns, pc, carried>>
       ELSE GoTurn(<<prompt>>)
    /\ UNCHANGED <<windowVars, outbox, turnActive, drainWired, lastTurnState, cancelled,
                   chanVars, streamVars, followUps, accepted, newline, printed, completed>>

\* The label of a follow-up goes to stderr, and its turn begins.
FollowUp ==
    /\ at = "send"
    /\ \/ Exit(1) /\ UNCHANGED <<turns, pc, carried, followUps>>
       \/ GoTurn(<<>>) /\ followUps' = followUps + 1
    /\ UNCHANGED <<windowVars, outbox, turnActive, drainWired, lastTurnState, cancelled,
                   chanVars, streamVars, accepted, newline, printed, completed>>

\* Faults: an error is printed and the loop goes on; "done" ends the loop.
FaultErrorPassed ==
    LET t == turns
    IN  /\ at = "range" /\ t \in Turn /\ events[t] # <<>>
        /\ events' = [events EXCEPT ![t] = Tail(@)]
        /\ taken' = [taken EXCEPT ![t] = @ + 1]
        /\ printed' = [printed EXCEPT ![t] = Append(@, Head(events[t]))]
        /\ IF Head(events[t]) = "text" THEN newline' \in BOOLEAN ELSE UNCHANGED newline
        /\ UNCHANGED <<at, code, windowVars, turns, agentVars, cancelled, closed, streamVars,
                       followUps, carried, accepted, completed>>
FaultDoneEnds ==
    LET t == turns
    IN  /\ at = "range" /\ t \in Turn /\ events[t] # <<>>
        /\ events' = [events EXCEPT ![t] = Tail(@)]
        /\ taken' = [taken EXCEPT ![t] = @ + 1]
        /\ printed' = [printed EXCEPT ![t] = Append(@, Head(events[t]))]
        /\ CASE Head(events[t]) = "error" -> Exit(1)
             [] Head(events[t]) = "done" /\ followUps < MaxFollowUps -> at' = "send" /\ UNCHANGED code
             [] OTHER -> UNCHANGED <<at, code>>
        /\ UNCHANGED <<newline, windowVars, turns, agentVars, cancelled, closed, streamVars,
                       followUps, carried, accepted, completed>>

\* One event of the channel.  "error" ends the program, with the turn's goroutine in it;
\* "done" is passed over; the others are written, which may fail.
PutOut ==
    LET t == turns
        kind == Head(events[t])
    IN  /\ at = "range"
        /\ t \in Turn
        /\ events[t] # <<>>
        /\ events' = [events EXCEPT ![t] = Tail(@)]
        /\ taken' = [taken EXCEPT ![t] = @ + 1]
        /\ printed' = [printed EXCEPT ![t] = Append(@, kind)]
        /\ \/ kind # "error" /\ UNCHANGED <<at, code>>
           \/ kind # "done" /\ Exit(1)
        /\ IF kind = "text" /\ at' # "exit" THEN newline' \in BOOLEAN ELSE UNCHANGED newline
        /\ UNCHANGED <<windowVars, turns, agentVars, cancelled, closed, streamVars, followUps,
                       carried, accepted, completed>>

\* Fault: an answer that ends in the middle of a line is left so.
FaultNoNewline ==
    /\ at = "range" /\ turns \in closed /\ events[turns] = <<>>
    /\ Exit(0)
    /\ UNCHANGED <<newline, windowVars, turns, agentVars, cancelled, chanVars, streamVars, followUps,
                   carried, accepted, printed, completed>>

\* The channel is closed: a follow-up, as MaybeQueueFollowUp has it, or the end; an answer
\* that ends in the middle of a line is given a newline first, which may fail.
Closed ==
    /\ at = "range"
    /\ turns \in closed
    /\ events[turns] = <<>>
    /\ \/ lastTurnState = "completed" /\ followUps < MaxFollowUps /\ at' = "send" /\ UNCHANGED code
       \/ Exit(0)
       \/ ~newline /\ Exit(1)
    /\ newline' = (newline \/ code' = 0)
    /\ UNCHANGED <<windowVars, turns, agentVars, cancelled, chanVars, streamVars, followUps,
                   carried, accepted, printed, completed>>

\* signal.NotifyContext: every signal cancels the context of this turn and of those to come.
Signal ==
    /\ at # "exit" /\ turns > 0
    /\ cancelled' = Turn
    /\ UNCHANGED <<windowVars, turns, agentVars, chanVars, streamVars, followUps, carried,
                   accepted, headVars>>

-----------------------------------------------------------------------------
(* TurnEngine's goroutines, which end with the program *)

Agent(t) ==
    /\ at # "exit" /\ SendMessage(t)
    /\ completed' = IF pc[t] = "loop" /\ stream'[t] # stream[t] /\ Head(stream[t]) = "done"
                    THEN completed \cup {t} ELSE completed
    /\ UNCHANGED <<at, code, newline, printed>>

Provider(t) == at # "exit" /\ StreamChat(t) /\ UNCHANGED headVars
Drainer(t) == at # "exit" /\ Drain(t) /\ UNCHANGED headVars

Loop == FollowUp \/ PutOut \/ Closed

HeadlessNext ==
    \/ \E prompt \in Prompt \cup {NoPrompt} : Collect(prompt)
    \/ Loop
    \/ Signal
    \/ \E t \in Turn : Agent(t) \/ Provider(t) \/ Drainer(t)

HeadlessSpec == Init /\ HeadlessInit /\ [][HeadlessNext]_<<vars, headVars>>

-----------------------------------------------------------------------------
(* Properties *)

\* A turn begins when the one before has given turnActive back, so none of them is turned
\* away as busy, as the window's next prompt may be.
NeverBusy ==
    at # "collect" => \A t \in Turn : pc[t] \notin {"unborn", "start"} => t \in accepted

\* Exit status 0 says that every turn ran to its end and that its whole answer, up to the
\* stream's "done" and a newline, is on stdout.  Unless a signal came: a stream that is cut
\* short then may be taken for one that is complete.
ZeroMeansWhole ==
    at = "exit" /\ code = 0 =>
        /\ newline
        /\ lastTurnState = "completed"
        /\ \A t \in 1 .. turns :
            /\ pc[t] = "ended" /\ events[t] = <<>>
            /\ "error" \notin Items(printed[t])
            /\ t \in completed \/ Signalled

\* What a script may rely on, that has the answer and the exit status.
StatusIsTrue == HeadlessTypeOK /\ NeverBusy /\ ZeroMeansWhole

\* Once it has its prompt the program ends, after a signal whatever the provider does.
HeadlessEnds == at # "collect" ~> at = "exit"
=============================================================================

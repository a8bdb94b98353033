----------------------------- MODULE ToolCancel -----------------------------
(***************************************************************************)
(* Cancelling one tool of a turn with Esc.                                 *)
(*                                                                         *)
(* Client.StreamChat (llm/stream.go) runs attempts of streamOnce; each has *)
(* a ToolContextManager (llm/tool_context.go) with one cancellable context *)
(* per running tool, published in the client's one toolCtx slot.  The UI   *)
(* (ui/model.go) keeps a slot of its own, the tool it shows as active,     *)
(* from events that lag behind, and Esc cancels by that slot.  A cancelled *)
(* turn's StreamChat may still be running when the next turn's begins.     *)
(*                                                                         *)
(* Of fantasy, which is not in the repository, this is assumed: a step's   *)
(* calls are announced in order, run in that order one at a time, and each *)
(* result is reported; Stream may return an error while a tool runs.       *)
(***************************************************************************)
EXTENDS Naturals, Sequences, FiniteSets

CONSTANTS
    Names,       \* the tools' names
    MaxTurns,    \* bound: turns
    MaxCalls,    \* bound: tool calls of an attempt
    MaxAttempts  \* attempts of a turn: len(retryBackoff) + 1

ASSUME ToolAssumption ==
    MaxTurns \in Nat /\ MaxCalls \in Nat /\ MaxAttempts \in Nat \ {0}

Turn == 1 .. MaxTurns
NoTurn == 0
Call == [turn : Turn, att : 1 .. MaxAttempts, n : 1 .. MaxCalls, name : Names]
NoCall == [turn |-> NoTurn]
Event(k, c) == [kind |-> k, call |-> c]

VARIABLES
    turn,      \* ui: the turn whose channel the UI listens to
    slot,      \* ui: activeToolName and activeToolCallID
    turns,     \* ui: turns started
    events,    \* events of the current turn the UI has not handled yet
    pc,        \* StreamChat of each turn
    attempt,   \* its attempt
    made,      \* calls the model made in the attempt
    pending,   \* calls announced, not run yet
    running,   \* calls whose Run has not returned
    tools,     \* the map of the attempt's ToolContextManager
    toolCtx,   \* client.toolCtx: the turn whose manager it is, or nil
    cancelled, \* turns whose context is cancelled
    stopped,   \* calls whose own context is cancelled
    ends,      \* terminal events sent per turn
    alone,     \* history: turns begun when no earlier StreamChat was running
    esc        \* history: the last Esc on a tool, what its attempt ran, all named so far

cancelVars == <<turn, slot, turns, events, pc, attempt, made, pending, running, tools,
          toolCtx, cancelled, stopped, ends, alone, esc>>

NoEsc == [call |-> NoCall, outcome |-> "none", running |-> {}, named |-> {}]

CancelTypeOK ==
    /\ turn \in Turn \cup {NoTurn}
    /\ slot \in Call \cup {NoCall}
    /\ turns \in 0 .. MaxTurns
    /\ \A i \in DOMAIN events : events[i].kind \in {"start", "result", "end"}
    /\ pc \in [Turn -> {"none", "begin", "stream", "backoff", "closed"}]
    /\ attempt \in [Turn -> 0 .. MaxAttempts]
    /\ made \in [Turn -> 0 .. MaxCalls]
    /\ pending \in [Turn -> Seq(Call)]
    /\ running \in [Turn -> SUBSET Call]
    /\ tools \in [Turn -> SUBSET Call]
    /\ toolCtx \in Turn \cup {NoTurn}
    /\ cancelled \subseteq Turn
    /\ stopped \subseteq Call
    /\ ends \in [Turn -> Nat]

CancelInit ==
    /\ turn = NoTurn
    /\ slot = NoCall
    /\ turns = 0
    /\ events = <<>>
    /\ pc = [t \in Turn |-> "none"]
    /\ attempt = [t \in Turn |-> 0]
    /\ made = [t \in Turn |-> 0]
    /\ pending = [t \in Turn |-> <<>>]
    /\ running = [t \in Turn |-> {}]
    /\ tools = [t \in Turn |-> {}]
    /\ toolCtx = NoTurn
    /\ cancelled = {}
    /\ stopped = {}
    /\ ends = [t \in Turn |-> 0]
    /\ alone = {}
    /\ esc = NoEsc

\* The calls that run in the current attempt of t, and while it streams.
OfAttempt(t) == {c \in running[t] : c.att = attempt[t]}
Live(t) == IF pc[t] = "stream" THEN OfAttempt(t) ELSE {}

\* The UI drops the events of a turn it does not listen to.
Post(t, e) == events' = IF t = turn THEN Append(events, e) ELSE events

-----------------------------------------------------------------------------
(* The UI. *)

\* startAgentTurn while idle; the slot is cleared.
StartTurn ==
    /\ turn = NoTurn
    /\ turns < MaxTurns
    /\ turns' = turns + 1
    /\ turn' = turns'
    /\ slot' = NoCall
    /\ events' = <<>>
    /\ pc' = [pc EXCEPT ![turns'] = "begin"]
    /\ attempt' = [attempt EXCEPT ![turns'] = 1]
    /\ alone' = IF \A t \in 1 .. turns : pc[t] = "closed" THEN alone \cup {turns'} ELSE alone
    /\ UNCHANGED <<made, pending, running, tools, toolCtx, cancelled, stopped, ends, esc>>

\* handleAgentEvent: tool_start fills the slot, a tool_result of the same name
\* empties it; the end of the turn empties it too.
Handle ==
    /\ turn # NoTurn
    /\ events # <<>>
    /\ events' = Tail(events)
    /\ LET e == Head(events) IN
         CASE e.kind = "start" -> slot' = e.call /\ turn' = turn
           [] e.kind = "result" ->
                /\ slot' = IF slot # NoCall /\ slot.name = e.call.name THEN NoCall ELSE slot
                /\ turn' = turn
           [] e.kind = "end" -> slot' = NoCall /\ turn' = NoTurn
    /\ UNCHANGED <<turns, pc, attempt, made, pending, running, tools, toolCtx,
                   cancelled, stopped, ends, esc, alone>>

\* Fault: Esc cancels every tool of the published manager.
FaultEscTool ==
    /\ turn # NoTurn
    /\ slot # NoCall
    /\ toolCtx # NoTurn
    /\ stopped' = stopped \cup tools[toolCtx]
    /\ esc' = [call |-> slot, outcome |-> "ok", running |-> Live(turn),
               named |-> esc.named \cup {slot}]
    /\ UNCHANGED <<turn, slot, turns, events, pc, attempt, made, pending, running,
                   tools, toolCtx, cancelled, ends, alone>>

\* Esc with an active tool: Agent.CancelTool asks the published manager for the
\* call the slot names.
EscTool ==
    /\ turn # NoTurn
    /\ slot # NoCall
    /\ LET found == toolCtx # NoTurn /\ slot \in tools[toolCtx]
       IN /\ stopped' = IF found THEN stopped \cup {slot} ELSE stopped
          /\ esc' = [call |-> slot, outcome |-> IF found THEN "ok" ELSE "missed",
                     running |-> Live(turn), named |-> esc.named \cup {slot}]
    /\ UNCHANGED <<turn, slot, turns, events, pc, attempt, made, pending, running,
                   tools, toolCtx, cancelled, ends, alone>>

\* Fault: the slot survives the cancelled turn.
FaultEscTurn ==
    /\ turn # NoTurn
    /\ cancelled' = cancelled \cup {turn}
    /\ turn' = NoTurn
    /\ events' = <<>>
    /\ UNCHANGED <<slot, turns, pc, attempt, made, pending, running, tools, toolCtx,
                   stopped, ends, esc, alone>>

\* cancelActiveTurn.
EscTurn ==
    /\ turn # NoTurn
    /\ cancelled' = cancelled \cup {turn}
    /\ turn' = NoTurn
    /\ slot' = NoCall
    /\ events' = <<>>
    /\ UNCHANGED <<turns, pc, attempt, made, pending, running, tools, toolCtx,
                   stopped, ends, esc, alone>>

-----------------------------------------------------------------------------
(* StreamChat and streamOnce of turn t. *)

\* Fault: only the first attempt publishes its manager.
FaultOpen(t) ==
    /\ pc[t] = "begin"
    /\ pc' = [pc EXCEPT ![t] = "stream"]
    /\ toolCtx' = IF attempt[t] = 1 THEN t ELSE toolCtx
    /\ made' = [made EXCEPT ![t] = 0]
    /\ UNCHANGED <<turn, slot, turns, events, attempt, pending, running, tools,
                   cancelled, stopped, ends, esc, alone>>

\* streamOnce publishes a new manager.
Open(t) ==
    /\ pc[t] = "begin"
    /\ pc' = [pc EXCEPT ![t] = "stream"]
    /\ toolCtx' = t
    /\ made' = [made EXCEPT ![t] = 0]
    /\ UNCHANGED <<turn, slot, turns, events, attempt, pending, running, tools,
                   cancelled, stopped, ends, esc, alone>>

\* OnToolCall: the model makes a call.
Announce(t, name) ==
    LET c == [turn |-> t, att |-> attempt[t], n |-> made[t] + 1, name |-> name] IN
    /\ pc[t] = "stream"
    /\ made[t] < MaxCalls
    /\ made' = [made EXCEPT ![t] = @ + 1]
    /\ pending' = [pending EXCEPT ![t] = Append(@, c)]
    /\ Post(t, Event("start", c))
    /\ UNCHANGED <<turn, slot, turns, pc, attempt, running, tools, toolCtx,
                   cancelled, stopped, ends, esc, alone>>

\* toolContextWrapper.Run begins: NewToolContext registers a context, unless the
\* turn's own is done already.
Run(t) ==
    LET c == Head(pending[t]) IN
    /\ pc[t] = "stream"
    /\ pending[t] # <<>>
    /\ OfAttempt(t) = {}
    /\ pending' = [pending EXCEPT ![t] = Tail(@)]
    /\ running' = [running EXCEPT ![t] = @ \cup {c}]
    /\ tools' = [tools EXCEPT ![t] = IF t \in cancelled THEN @ ELSE @ \cup {c}]
    /\ UNCHANGED <<turn, slot, turns, events, pc, attempt, made, toolCtx,
                   cancelled, stopped, ends, esc, alone>>

\* Fault: the returned cleanup is not deferred.
FaultFinish(t, c) ==
    /\ c \in running[t]
    /\ running' = [running EXCEPT ![t] = @ \ {c}]
    /\ Post(t, Event("result", c))
    /\ UNCHANGED <<turn, slot, turns, pc, attempt, made, pending, tools, toolCtx,
                   cancelled, ends, esc, stopped, alone>>

\* Run returns and cleans up; its result is reported while its attempt lasts.
Finish(t, c) ==
    LET mine == pc[t] = "stream" /\ c.att = attempt[t] IN
    /\ c \in running[t]
    /\ running' = [running EXCEPT ![t] = @ \ {c}]
    /\ tools' = [tools EXCEPT ![t] = @ \ {c}]
    /\ stopped' = stopped \cup {c}
    /\ IF mine THEN Post(t, Event("result", c)) ELSE UNCHANGED events
    /\ UNCHANGED <<turn, slot, turns, pc, attempt, made, pending, toolCtx,
                   cancelled, ends, esc, alone>>

\* Fault: CancelAll is left out.
FaultDeferred(t) ==
    /\ tools' = [tools EXCEPT ![t] = {}]
    /\ toolCtx' = NoTurn
    /\ UNCHANGED stopped

\* The deferred function of streamOnce: CancelAll, and the slot is cleared.
Deferred(t) ==
    /\ stopped' = stopped \cup tools[t]
    /\ tools' = [tools EXCEPT ![t] = {}]
    /\ toolCtx' = NoTurn

\* The terminal event of StreamChat; safeSend may give it up once cancelled.
Terminal(t) ==
    \/ Post(t, Event("end", NoCall)) /\ ends' = [ends EXCEPT ![t] = @ + 1]
    \/ t \in cancelled /\ UNCHANGED <<events, ends>>

\* streamOnce is through: every call answered, "done" sent, StreamChat returns.
Succeed(t) ==
    /\ pc[t] = "stream"
    /\ pending[t] = <<>>
    /\ OfAttempt(t) = {}
    /\ pc' = [pc EXCEPT ![t] = "closed"]
    /\ Deferred(t)
    /\ Terminal(t)
    /\ UNCHANGED <<turn, slot, turns, attempt, made, pending, running, cancelled, esc, alone>>

\* Fault: the error goes out although another attempt follows.
FaultBreak(t) ==
    /\ pc[t] = "stream"
    /\ attempt[t] < MaxAttempts
    /\ pending' = [pending EXCEPT ![t] = <<>>]
    /\ Deferred(t)
    /\ pc' = [pc EXCEPT ![t] = "backoff"]
    /\ Terminal(t)
    /\ UNCHANGED <<turn, slot, turns, attempt, made, running, cancelled, esc, alone>>

\* Fault: one attempt too many.
FaultNoLimit(t) ==
    /\ pc[t] = "stream"
    /\ attempt[t] <= MaxAttempts
    /\ pending' = [pending EXCEPT ![t] = <<>>]
    /\ Deferred(t)
    /\ pc' = [pc EXCEPT ![t] = "backoff"]
    /\ UNCHANGED <<turn, slot, turns, events, attempt, made, running, cancelled, ends, esc, alone>>

\* streamOnce returns a retryable error: wait and try again.
Break(t) ==
    /\ pc[t] = "stream"
    /\ attempt[t] < MaxAttempts
    /\ pending' = [pending EXCEPT ![t] = <<>>]
    /\ Deferred(t)
    /\ pc' = [pc EXCEPT ![t] = "backoff"]
    /\ UNCHANGED <<turn, slot, turns, events, attempt, made, running, cancelled, ends, esc, alone>>

\* streamOnce returns an error that is not retryable, or the last attempt's.
GiveUp(t) ==
    /\ pc[t] = "stream"
    /\ pending' = [pending EXCEPT ![t] = <<>>]
    /\ Deferred(t)
    /\ pc' = [pc EXCEPT ![t] = "closed"]
    /\ Terminal(t)
    /\ UNCHANGED <<turn, slot, turns, attempt, made, running, cancelled, esc, alone>>

\* ensureModel fails, before any manager is published.
NoModel(t) ==
    /\ pc[t] = "begin"
    /\ pc' = [pc EXCEPT ![t] = "closed"]
    /\ Terminal(t)
    /\ UNCHANGED <<turn, slot, turns, attempt, made, pending, running, tools, toolCtx,
                   cancelled, stopped, esc, alone>>

\* The backoff timer fires.  A cancelled turn may get here as well: select
\* picks any of its ready cases.
Retry(t) ==
    /\ pc[t] = "backoff"
    /\ pc' = [pc EXCEPT ![t] = "begin"]
    /\ attempt' = [attempt EXCEPT ![t] = @ + 1]
    /\ UNCHANGED <<turn, slot, turns, events, made, pending, running, tools, toolCtx,
                   cancelled, stopped, ends, esc, alone>>

\* The turn was cancelled during the backoff.
GiveUpWaiting(t) ==
    /\ pc[t] = "backoff"
    /\ t \in cancelled
    /\ pc' = [pc EXCEPT ![t] = "closed"]
    /\ Terminal(t)
    /\ UNCHANGED <<turn, slot, turns, attempt, made, pending, running, tools, toolCtx,
                   cancelled, stopped, esc, alone>>

StreamChat(t) ==
    \/ Open(t) \/ Run(t) \/ Succeed(t) \/ Break(t) \/ GiveUp(t)
    \/ NoModel(t) \/ Retry(t) \/ GiveUpWaiting(t)
    \/ \E name \in Names : Announce(t, name)
    \/ \E c \in running[t] : Finish(t, c)

CancelNext ==
    \/ StartTurn \/ Handle \/ EscTool \/ EscTurn
    \/ \E t \in Turn : StreamChat(t)

CancelSpec == CancelInit /\ [][CancelNext]_cancelVars

-----------------------------------------------------------------------------
(* What the component promises. *)

\* A manager knows exactly the tools that run under it: what Esc can reach is
\* running, and nothing is left in a manager whose attempt is over.
RegisteredIsRunning ==
    \A t \in Turn :
        /\ tools[t] \subseteq Live(t)
        /\ t \notin cancelled => Live(t) \subseteq tools[t]

\* A tool that still runs when its attempt is over has been told to stop, by
\* its own context or its turn's.
OldToolsToldToStop ==
    \A t \in Turn \ cancelled : running[t] \ Live(t) \subseteq stopped

\* When Esc reports a tool cancelled, that tool was running, in the turn shown.
CancelledWasRunning == esc.outcome = "ok" => esc.call \in esc.running

\* Esc stops no tool but the one it names: of the tools that run in an attempt
\* not over yet, only those some Esc named are told to stop.
OnlyNamedIsStopped == \A t \in Turn : Live(t) \cap stopped \subseteq esc.named

\* The tool the UI shows as active belongs to the turn it shows.
SlotOfTurn == slot # NoCall => slot.turn = turn

\* A turn ends at most once, however often it is retried.
EndsOnce == \A t \in Turn : ends[t] <= 1 /\ (ends[t] = 1 => pc[t] = "closed")

\* llm/client.go: the slot holds the manager "for the currently active stream".  It does
\* when the turn began after the StreamChat of every earlier one had returned; the stream
\* of a cancelled turn may otherwise publish over it, or clear it.
ManagerOfActiveStream == turn \in alone /\ pc[turn] = "stream" => toolCtx = turn

\* docs/architecture.md: the first Esc "cancels the active tool".  In such a turn it
\* misses only when the tool the slot names is not running: it is over, or still waits
\* for another call of its step.
EscReachesActiveTool ==
    esc.outcome = "missed" /\ esc.call.turn \in alone => esc.call \notin esc.running

\* Esc stops the tool that runs in the turn on the screen, says so when it did, and stops
\* nothing else.
EscHitsItsTool ==
    /\ CancelTypeOK
    /\ CancelledWasRunning /\ OnlyNamedIsStopped
    /\ SlotOfTurn /\ ManagerOfActiveStream /\ EscReachesActiveTool

\* An attempt that is over leaves no tool behind, known or unknown, and a turn ends once
\* whatever it took.
AttemptsEndClean == RegisteredIsRunning /\ OldToolsToldToStop /\ EndsOnce

\* By Esc, by a cancelled turn or by the end of an attempt, the tools that stop are those meant.
ToolsStopAsMeant == EscHitsItsTool /\ AttemptsEndClean
=============================================================================

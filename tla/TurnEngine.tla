----------------------------- MODULE TurnEngine -----------------------------
(***************************************************************************)
(* One conversation turn of bitchtea, from the key press to the last event *)
(* on the screen.  Four kinds of process take part:                        *)
(*                                                                         *)
(*   - the bubbletea event loop (ui/model.go, Model.Update), which runs    *)
(*     one handler at a time;                                              *)
(*   - one goroutine per turn running Agent.sendMessage (agent/agent.go);  *)
(*   - one goroutine per turn running Client.StreamChat (llm/stream.go);   *)
(*   - the command goroutines of waitForAgentEvent, each of which takes    *)
(*     one event off a turn's channel and posts it to the event loop.      *)
(*                                                                         *)
(* A turn t is a number, in the order the UI starts them.  A prompt is a   *)
(* number, in the order the user types them.                               *)
(***************************************************************************)
EXTENDS Naturals, Sequences

CONSTANTS
    MaxTurns,     \* bound: turns the UI starts in a behaviour
    MaxPrompts,   \* bound: prompts the user types
    MaxFollowUps, \* bound: autonomous follow-up turns
    MaxStream,    \* bound: stream events before a turn's terminal event
    StreamDeltas, \* bound: the kinds of those events a run lets the provider use
    EventCap,     \* capacity of a turn's event channel (100 in startAgentTurn)
    StreamCap     \* capacity of streamEvents (100 in sendMessage)

ASSUME TurnAssumption ==
    /\ MaxTurns \in Nat \ {0}
    /\ MaxPrompts \in Nat
    /\ MaxFollowUps \in Nat
    /\ MaxStream \in Nat
    /\ StreamDeltas \subseteq {"text", "usage", "tool_call", "tool_result"}
    /\ EventCap \in Nat \ {0}
    /\ StreamCap \in Nat \ {0}

Turn == 1 .. MaxTurns
NoTurn == 0                 \* a nil channel, a nil cancel function
Prompt == 1 .. MaxPrompts
NoPrompt == 0               \* an empty textarea

VARIABLES
  (* ui/model.go: Model *)
    streaming,    \* m.streaming
    eventCh,      \* m.eventCh: the turn whose channel the UI listens to
    cancelFn,     \* m.cancel: the turn whose context it cancels
    queued,       \* m.queued
    input,        \* the prompt in the textarea
    turns,        \* turns started so far
    waiters,      \* running waitForAgentEvent commands, per channel
    posted,       \* messages posted to the event loop, not handled yet
  (* agent/agent.go: Agent and the sendMessage goroutines *)
    pc,           \* where turn t's goroutine is
    outbox,       \* events it still has to send before it goes on
    turnActive,   \* a.turnActive
    drainWired,   \* the client's promptDrain is not nil
    lastTurnState,\* a.lastTurnState
    cancelled,    \* turns whose context is done
  (* the two channels of a turn *)
    events, closed, taken,     \* events chan: content, closed, received so far
    stream, streamPc, streamed,\* streamEvents: content, StreamChat's place, sent
    drainers,     \* turns whose streamEvents a background goroutine empties
  (* history variables: what the properties speak about *)
    typed,        \* prompts typed so far
    followUps,    \* follow-up turns started so far
    carried,      \* the prompts a turn was started with
    dropped,      \* queued prompts the user asked to clear
    accepted,     \* turns that won the turnActive compare-and-swap
    seen,         \* the number of the last event of t the UI acted on
    doneCount     \* how often the UI acted on the end of t

uiVars == <<streaming, eventCh, cancelFn, queued, input, turns>>
cmdVars == <<waiters, posted>>
agentVars == <<pc, outbox, turnActive, drainWired, lastTurnState>>
chanVars == <<events, closed, taken>>
streamVars == <<stream, streamPc, streamed, drainers>>
ghostVars == <<typed, followUps, carried, dropped, accepted, seen, doneCount>>
vars == <<uiVars, cmdVars, agentVars, cancelled, chanVars, streamVars, ghostVars>>

-----------------------------------------------------------------------------
PC == {"unborn", "start", "wire", "loop", "unwire", "release", "close", "ended"}
Body == {"wire", "loop", "unwire", "release"}      \* turnActive is held
EventKind == {"state", "text", "tool", "error", "done"}
\* "text" stands for "thinking" too: both go to the UI as one event or none.
StreamKind == {"text", "usage", "tool_call", "tool_result", "error", "done"}
TurnState == {"idle", "completed", "errored", "canceled"}
Items(s) == {s[i] : i \in DOMAIN s}
DoneMsg(t, why) == [type |-> "done", ch |-> t, kind |-> why, n |-> 0]
EventMsg(t, k, n) == [type |-> "event", ch |-> t, kind |-> k, n |-> n]
Message == [type : {"event", "done"}, ch : Turn,
            kind : EventKind \cup {"handled", "closed"}, n : Nat]

FlagType == streaming \in BOOLEAN /\ turnActive \in BOOLEAN /\ drainWired \in BOOLEAN

UIType ==
    /\ eventCh \in Turn \cup {NoTurn}
    /\ cancelFn \in Turn \cup {NoTurn}
    /\ queued \in Seq(Prompt)
    /\ input \in Prompt \cup {NoPrompt}
    /\ turns \in 0 .. MaxTurns
    /\ cancelled \subseteq Turn

CmdType ==
    /\ waiters \in [Turn -> Nat]
    /\ posted \subseteq Message

AgentType ==
    /\ pc \in [Turn -> PC]
    /\ outbox \in [Turn -> Seq(EventKind)]
    /\ lastTurnState \in TurnState

ChanType ==
    /\ events \in [Turn -> Seq(EventKind)]
    /\ closed \subseteq Turn
    /\ taken \in [Turn -> Nat]

StreamType ==
    /\ stream \in [Turn -> Seq(StreamKind)]
    /\ streamPc \in [Turn -> {"none", "running", "ended", "closed"}]
    /\ streamed \in [Turn -> Nat]
    /\ drainers \subseteq Turn

GhostType ==
    /\ typed \in 0 .. MaxPrompts
    /\ followUps \in Nat
    /\ carried \in [Turn -> Seq(Prompt)]
    /\ dropped \subseteq Prompt
    /\ accepted \subseteq Turn
    /\ seen \in [Turn -> Nat]
    /\ doneCount \in [Turn -> Nat]

TypeOK ==
    FlagType /\ UIType /\ CmdType /\ AgentType /\ ChanType /\ StreamType /\ GhostType

Init ==
    /\ streaming = FALSE
    /\ eventCh = NoTurn
    /\ cancelFn = NoTurn
    /\ queued = <<>>
    /\ input = NoPrompt
    /\ turns = 0
    /\ waiters = [t \in Turn |-> 0]
    /\ posted = {}
    /\ pc = [t \in Turn |-> "unborn"]
    /\ outbox = [t \in Turn |-> <<>>]
    /\ turnActive = FALSE
    /\ drainWired = FALSE
    /\ lastTurnState = "idle"
    /\ cancelled = {}
    /\ events = [t \in Turn |-> <<>>]
    /\ closed = {}
    /\ taken = [t \in Turn |-> 0]
    /\ stream = [t \in Turn |-> <<>>]
    /\ streamPc = [t \in Turn |-> "none"]
    /\ streamed = [t \in Turn |-> 0]
    /\ drainers = {}
    /\ typed = 0
    /\ followUps = 0
    /\ carried = [t \in Turn |-> <<>>]
    /\ dropped = {}
    /\ accepted = {}
    /\ seen = [t \in Turn |-> 0]
    /\ doneCount = [t \in Turn |-> 0]

-----------------------------------------------------------------------------
(* The event loop *)

\* Fault: the cancel function is called without the nil check.
FaultNilCancel(prompts, oldCancel) ==
    LET t == turns + 1 IN
    /\ turns < MaxTurns
    /\ cancelled' = cancelled \cup {oldCancel}
    /\ streaming' = TRUE
    /\ eventCh' = t
    /\ cancelFn' = t
    /\ turns' = t
    /\ waiters' = [waiters EXCEPT ![t] = 1]
    /\ pc' = [pc EXCEPT ![t] = "start"]
    /\ carried' = [carried EXCEPT ![t] = prompts]

\* startAgentTurn: call the cancel function m.cancel still holds, make a context
\* and a channel for the new turn, spawn its goroutine and one wait command.
\* Writes the UI's turn fields, waiters, pc, cancelled and carried.
StartTurn(prompts, oldCancel) ==
    LET t == turns + 1 IN
    /\ turns < MaxTurns
    /\ cancelled' = cancelled \cup ({oldCancel} \ {NoTurn})
    /\ streaming' = TRUE
    /\ eventCh' = t
    /\ cancelFn' = t
    /\ turns' = t
    /\ waiters' = [waiters EXCEPT ![t] = 1]
    /\ pc' = [pc EXCEPT ![t] = "start"]
    /\ carried' = [carried EXCEPT ![t] = prompts]

\* The user types a new prompt into the empty textarea.
Type ==
    /\ input = NoPrompt
    /\ typed < MaxPrompts
    /\ typed' = typed + 1
    /\ input' = typed'
    /\ UNCHANGED <<streaming, eventCh, cancelFn, queued, turns, cmdVars, agentVars,
                   cancelled, chanVars, streamVars, followUps, carried, dropped,
                   accepted, seen, doneCount>>

\* Fault: only the last queued prompt is kept.
FaultQueueOverwritten ==
    /\ input # NoPrompt
    /\ streaming
    /\ queued' = <<input>>
    /\ input' = NoPrompt
    /\ UNCHANGED <<streaming, eventCh, cancelFn, turns, cmdVars, agentVars,
                   cancelled, chanVars, streamVars, ghostVars>>

\* Enter while the agent is busy: the prompt waits in m.queued.
EnterQueues ==
    /\ input # NoPrompt
    /\ streaming
    /\ queued' = Append(queued, input)
    /\ input' = NoPrompt
    /\ UNCHANGED <<streaming, eventCh, cancelFn, turns, cmdVars, agentVars,
                   cancelled, chanVars, streamVars, ghostVars>>

\* Enter while idle: the prompt is sent at once, whatever m.queued holds.
EnterSends ==
    /\ input # NoPrompt
    /\ ~streaming
    /\ input' = NoPrompt
    /\ StartTurn(<<input>>, cancelFn)
    /\ UNCHANGED <<queued, posted, outbox, turnActive, drainWired, lastTurnState,
                   chanVars, streamVars, typed, followUps, dropped, accepted,
                   seen, doneCount>>

\* Fault: the prompt taken back stays queued.
FaultNotPopped ==
    /\ input = NoPrompt
    /\ queued # <<>>
    /\ input' = queued[Len(queued)]
    /\ UNCHANGED <<streaming, eventCh, cancelFn, queued, turns, cmdVars, agentVars,
                   cancelled, chanVars, streamVars, ghostVars>>

\* Up in an empty textarea takes the newest queued prompt back.
Unqueue ==
    /\ input = NoPrompt
    /\ queued # <<>>
    /\ input' = queued[Len(queued)]
    /\ queued' = SubSeq(queued, 1, Len(queued) - 1)
    /\ UNCHANGED <<streaming, eventCh, cancelFn, turns, cmdVars, agentVars,
                   cancelled, chanVars, streamVars, ghostVars>>

\* Fault: the UI forgets the turn without cancelling its context.
FaultForgotten(clearQueue) ==
    /\ streaming
    /\ streaming' = FALSE
    /\ cancelFn' = NoTurn
    /\ eventCh' = NoTurn
    /\ UNCHANGED <<queued, cancelled, input, turns, cmdVars, agentVars, chanVars,
                   streamVars, ghostVars>>

\* cancelActiveTurn, reached from Ctrl+C, Esc and SignalMsg while streaming:
\* the context is cancelled and the UI stops listening to the turn.
Interrupt(clearQueue) ==
    /\ streaming
    /\ cancelled' = cancelled \cup ({cancelFn} \ {NoTurn})
    /\ streaming' = FALSE
    /\ cancelFn' = NoTurn
    /\ eventCh' = NoTurn
    /\ IF clearQueue
       THEN queued' = <<>> /\ dropped' = dropped \cup Items(queued)
       ELSE UNCHANGED <<queued, dropped>>
    /\ UNCHANGED <<input, turns, cmdVars, agentVars, chanVars, streamVars, typed,
                   followUps, carried, accepted, seen, doneCount>>

\* The second Ctrl+C, or Esc with the queue armed, drops what is queued.
ClearQueue ==
    /\ queued # <<>>
    /\ queued' = <<>>
    /\ dropped' = dropped \cup Items(queued)
    /\ UNCHANGED <<streaming, eventCh, cancelFn, input, turns, cmdVars, agentVars,
                   cancelled, chanVars, streamVars, typed, followUps, carried,
                   accepted, seen, doneCount>>

\* The handler of a displayed event, with the number of wait commands it starts.
DisplayEvent(m, waits) ==
    /\ posted' = (posted \ {m}) \cup
                  (IF m.kind = "done" THEN {DoneMsg(m.ch, "handled")} ELSE {})
    /\ waiters' = [waiters EXCEPT ![m.ch] = @ + waits]
    /\ seen' = [seen EXCEPT ![m.ch] = m.n]

DropEvent(m) == posted' = posted \ {m} /\ UNCHANGED <<waiters, seen>>

\* Faults: no wait after an event; two waits; events of any channel displayed.
FaultHandler(m, current, waits) ==
    /\ m \in posted
    /\ m.type = "event"
    /\ IF m.ch # current THEN DropEvent(m) ELSE DisplayEvent(m, waits)
    /\ UNCHANGED <<uiVars, agentVars, cancelled, chanVars, streamVars,
                   typed, followUps, carried, dropped, accepted, doneCount>>
FaultNoRewait(m) == FaultHandler(m, eventCh, 0)
FaultTwoWaits(m) == FaultHandler(m, eventCh, 2)
FaultStaleShown(m) == FaultHandler(m, m.ch, 1)

\* agentEventMsg.  A message of another channel is dropped and nobody waits on
\* that channel again; one of the current channel is displayed and the wait
\* renewed, and "done" posts agentDoneMsg besides.
HandleEvent(m) ==
    /\ m \in posted
    /\ m.type = "event"
    /\ IF m.ch # eventCh THEN DropEvent(m) ELSE DisplayEvent(m, 1)
    /\ UNCHANGED <<uiVars, agentVars, cancelled, chanVars, streamVars,
                   typed, followUps, carried, dropped, accepted, doneCount>>

\* agentDoneMsg of a channel the UI no longer listens to.
IgnoreDone(m) ==
    /\ m \in posted
    /\ m.type = "done"
    /\ m.ch # eventCh
    /\ posted' = posted \ {m}
    /\ UNCHANGED <<uiVars, waiters, agentVars, cancelled, chanVars, streamVars, ghostVars>>

\* Fault: agentDoneMsg is acted on whatever channel it names.
FaultAnyDone(m) ==
    /\ m \in posted
    /\ m.type = "done"
    /\ posted' = posted \ {m}
    /\ doneCount' = [doneCount EXCEPT ![m.ch] = @ + 1]
    /\ streaming' = FALSE
    /\ eventCh' = NoTurn
    /\ cancelFn' = NoTurn
    /\ UNCHANGED <<queued, turns, waiters, pc, carried, cancelled, followUps, input, outbox,
                   turnActive, drainWired, lastTurnState, chanVars, streamVars, typed,
                   dropped, accepted, seen>>

\* agentDoneMsg of the current turn: the UI goes idle, persists the turn, and
\* starts the next one at once: the whole queue as one batch or, with an empty
\* queue, a follow-up (MaybeQueueFollowUp), which needs lastTurnState =
\* "completed" and otherwise depends on the configuration and the reply.
HandleDone(m) ==
    /\ m \in posted
    /\ m.type = "done"
    /\ m.ch = eventCh
    /\ posted' = posted \ {m}
    /\ doneCount' = [doneCount EXCEPT ![m.ch] = @ + 1]
    /\ \/ /\ queued # <<>>
          /\ StartTurn(queued, NoTurn)
          /\ queued' = <<>>
          /\ UNCHANGED followUps
       \/ /\ queued = <<>>
          /\ lastTurnState = "completed"
          /\ followUps < MaxFollowUps
          /\ StartTurn(<<>>, NoTurn)
          /\ followUps' = followUps + 1
          /\ UNCHANGED queued
       \/ /\ queued = <<>>
          /\ streaming' = FALSE
          /\ eventCh' = NoTurn
          /\ cancelFn' = NoTurn
          /\ UNCHANGED <<queued, turns, waiters, pc, carried, cancelled, followUps>>
    /\ UNCHANGED <<input, outbox, turnActive, drainWired, lastTurnState,
                   chanVars, streamVars, typed, dropped, accepted, seen>>

-----------------------------------------------------------------------------
(* waitForAgentEvent: one receive, then one message *)

WaitEvent(t) ==
    /\ waiters[t] > 0
    /\ events[t] # <<>>
    /\ waiters' = [waiters EXCEPT ![t] = @ - 1]
    /\ events' = [events EXCEPT ![t] = Tail(@)]
    /\ taken' = [taken EXCEPT ![t] = @ + 1]
    /\ posted' = posted \cup {EventMsg(t, Head(events[t]), taken'[t])}
    /\ UNCHANGED <<uiVars, agentVars, cancelled, closed, streamVars, ghostVars>>

WaitClosed(t) ==
    /\ waiters[t] > 0
    /\ events[t] = <<>>
    /\ t \in closed
    /\ waiters' = [waiters EXCEPT ![t] = @ - 1]
    /\ posted' = posted \cup {DoneMsg(t, "closed")}
    /\ UNCHANGED <<uiVars, agentVars, cancelled, chanVars, streamVars, ghostVars>>

-----------------------------------------------------------------------------
(* Agent.sendMessage *)

\* Fault: nobody looks at turnActive.
FaultUnguardedBegin(t) ==
    /\ pc[t] = "start"
    /\ pc' = [pc EXCEPT ![t] = "wire"]
    /\ outbox' = [outbox EXCEPT ![t] = <<"state">>]
    /\ turnActive' = TRUE
    /\ accepted' = accepted \cup {t}
    /\ UNCHANGED <<uiVars, cmdVars, drainWired, lastTurnState, cancelled, chanVars,
                   streamVars, typed, followUps, carried, dropped, seen, doneCount>>

\* The compare-and-swap on turnActive.  The loser sends one error and leaves;
\* the winner resets the turn state, appends the user message and announces
\* itself to the UI.
Begin(t) ==
    /\ pc[t] = "start"
    /\ IF turnActive
       THEN /\ pc' = [pc EXCEPT ![t] = "close"]
            /\ outbox' = [outbox EXCEPT ![t] = <<"error">>]
            /\ UNCHANGED <<turnActive, accepted>>
       ELSE /\ pc' = [pc EXCEPT ![t] = "wire"]
            /\ outbox' = [outbox EXCEPT ![t] = <<"state">>]
            /\ turnActive' = TRUE
            /\ accepted' = accepted \cup {t}
    /\ UNCHANGED <<uiVars, cmdVars, drainWired, lastTurnState, cancelled, chanVars,
                   streamVars, typed, followUps, carried, dropped, seen, doneCount>>

\* A send on the event channel.  It is outside every select: it waits for room.
Send(t) ==
    /\ outbox[t] # <<>>
    /\ Len(events[t]) < EventCap
    /\ events' = [events EXCEPT ![t] = Append(@, Head(outbox[t]))]
    /\ outbox' = [outbox EXCEPT ![t] = Tail(@)]
    /\ UNCHANGED <<uiVars, cmdVars, pc, turnActive, drainWired, lastTurnState,
                   cancelled, closed, taken, streamVars, ghostVars>>

\* SetPromptDrain(drainer), and the StreamChat goroutine is started.
Wire(t) ==
    /\ pc[t] = "wire"
    /\ outbox[t] = <<>>
    /\ drainWired' = TRUE
    /\ streamPc' = [streamPc EXCEPT ![t] = "running"]
    /\ pc' = [pc EXCEPT ![t] = "loop"]
    /\ UNCHANGED <<uiVars, cmdVars, outbox, turnActive, lastTurnState, cancelled,
                   chanVars, stream, streamed, drainers, ghostVars>>

\* The events out the UI gets for one stream event.  The follow-up sanitizer may
\* hold a text back, and flush it at the end.
Outputs == {<<>>, <<"text">>, <<"tool">>, <<"state", "tool">>, <<"state", "error", "done">>}
Forwards(kind, out) ==
    \/ kind \in {"text", "done"} /\ out \in {<<>>, <<"text">>}
    \/ kind = "usage" /\ out = <<>>
    \/ kind = "tool_call" /\ out = <<"state", "tool">>
    \/ kind = "tool_result" /\ out = <<"tool">>
    \/ kind = "error" /\ out = <<"state", "error", "done">>

\* The select takes a stream event.  "error" ends the turn; "done" only splices
\* the reply into the history and waits for the channel to close.
Receive(t) ==
    /\ pc[t] = "loop"
    /\ outbox[t] = <<>>
    /\ stream[t] # <<>>
    /\ \E out \in Outputs :
          /\ Forwards(Head(stream[t]), out)
          /\ outbox' = [outbox EXCEPT ![t] = out]
    /\ stream' = [stream EXCEPT ![t] = Tail(@)]
    /\ IF Head(stream[t]) = "error"
       THEN /\ lastTurnState' \in (IF t \in cancelled THEN {"canceled", "errored"} ELSE {"errored"})
            /\ pc' = [pc EXCEPT ![t] = "unwire"]
       ELSE UNCHANGED <<lastTurnState, pc>>
    /\ UNCHANGED <<uiVars, cmdVars, turnActive, drainWired, cancelled, chanVars,
                   streamPc, streamed, drainers, ghostVars>>

\* The select sees ctx.Done(): a goroutine empties streamEvents from now on and
\* the turn ends canceled.
SeeCancel(t) ==
    /\ pc[t] = "loop"
    /\ outbox[t] = <<>>
    /\ t \in cancelled
    /\ drainers' = drainers \cup {t}
    /\ lastTurnState' = "canceled"
    /\ outbox' = [outbox EXCEPT ![t] = <<"state", "error", "done">>]
    /\ pc' = [pc EXCEPT ![t] = "unwire"]
    /\ UNCHANGED <<uiVars, cmdVars, turnActive, drainWired, cancelled, chanVars,
                   stream, streamPc, streamed, ghostVars>>

\* streamEvents is closed and empty: the turn completed.
Complete(t) ==
    /\ pc[t] = "loop"
    /\ outbox[t] = <<>>
    /\ stream[t] = <<>>
    /\ streamPc[t] = "closed"
    /\ lastTurnState' = "completed"
    /\ outbox' = [outbox EXCEPT ![t] = <<"state", "done">>]
    /\ pc' = [pc EXCEPT ![t] = "unwire"]
    /\ UNCHANGED <<uiVars, cmdVars, turnActive, drainWired, cancelled, chanVars,
                   streamVars, ghostVars>>

\* The deferred calls, last one first: SetPromptDrain(nil),
\* turnActive.Store(false), close(events).
Unwire(t) ==
    /\ pc[t] = "unwire"
    /\ outbox[t] = <<>>
    /\ drainWired' = FALSE
    /\ pc' = [pc EXCEPT ![t] = "release"]
    /\ UNCHANGED <<uiVars, cmdVars, outbox, turnActive, lastTurnState, cancelled,
                   chanVars, streamVars, ghostVars>>

Release(t) ==
    /\ pc[t] = "release"
    /\ turnActive' = FALSE
    /\ pc' = [pc EXCEPT ![t] = "close"]
    /\ UNCHANGED <<uiVars, cmdVars, outbox, drainWired, lastTurnState, cancelled,
                   chanVars, streamVars, ghostVars>>

Close(t) ==
    /\ pc[t] = "close"
    /\ outbox[t] = <<>>
    /\ closed' = closed \cup {t}
    /\ pc' = [pc EXCEPT ![t] = "ended"]
    /\ UNCHANGED <<uiVars, cmdVars, outbox, turnActive, drainWired, lastTurnState,
                   cancelled, events, taken, streamVars, ghostVars>>

-----------------------------------------------------------------------------
(* Client.StreamChat, as the turn sees it *)

\* A send from a provider callback (safeSend).  A cancelled context makes it
\* fail instead, which is StreamEnd's business.
StreamEmit(t, kind) ==
    /\ streamPc[t] = "running"
    /\ streamed[t] < MaxStream
    /\ Len(stream[t]) < StreamCap
    /\ stream' = [stream EXCEPT ![t] = Append(@, kind)]
    /\ streamed' = [streamed EXCEPT ![t] = @ + 1]
    /\ UNCHANGED <<uiVars, cmdVars, agentVars, cancelled, chanVars, streamPc,
                   drainers, ghostVars>>

\* The stream is over: "done" after a success, "error" when the attempts are
\* used up.  The send can be given up only when the context is cancelled.
StreamEnd(t) ==
    /\ streamPc[t] = "running"
    /\ \/ /\ Len(stream[t]) < StreamCap
          /\ \E kind \in {"done", "error"} :
                stream' = [stream EXCEPT ![t] = Append(@, kind)]
       \/ /\ t \in cancelled
          /\ UNCHANGED stream
    /\ streamPc' = [streamPc EXCEPT ![t] = "ended"]
    /\ UNCHANGED <<uiVars, cmdVars, agentVars, cancelled, chanVars, streamed,
                   drainers, ghostVars>>

\* Fault: the channel is closed on the error path only.
FaultCloseOnError(t) ==
    /\ streamPc[t] = "ended"
    /\ "error" \in Items(stream[t])
    /\ streamPc' = [streamPc EXCEPT ![t] = "closed"]
    /\ UNCHANGED <<uiVars, cmdVars, agentVars, cancelled, chanVars, stream, streamed,
                   drainers, ghostVars>>

\* The deferred close(events) of StreamChat.
StreamClose(t) ==
    /\ streamPc[t] = "ended"
    /\ streamPc' = [streamPc EXCEPT ![t] = "closed"]
    /\ UNCHANGED <<uiVars, cmdVars, agentVars, cancelled, chanVars, stream, streamed,
                   drainers, ghostVars>>

\* The goroutine sendMessage leaves behind when it sees ctx.Done().
Drain(t) ==
    /\ t \in drainers
    /\ stream[t] # <<>>
    /\ stream' = [stream EXCEPT ![t] = Tail(@)]
    /\ UNCHANGED <<uiVars, cmdVars, agentVars, cancelled, chanVars, streamPc, streamed,
                   drainers, ghostVars>>

-----------------------------------------------------------------------------
User ==
    \/ Type
    \/ EnterQueues
    \/ EnterSends
    \/ Unqueue
    \/ ClearQueue
    \/ \E clearQueue \in BOOLEAN : Interrupt(clearQueue)

EventLoop == \E m \in posted : HandleEvent(m) \/ IgnoreDone(m) \/ HandleDone(m)

Wait(t) == WaitEvent(t) \/ WaitClosed(t)

SendMessage(t) ==
    \/ Begin(t) \/ Send(t) \/ Wire(t) \/ Receive(t) \/ SeeCancel(t)
    \/ Complete(t) \/ Unwire(t) \/ Release(t) \/ Close(t)

StreamChat(t) ==
    \/ \E kind \in StreamDeltas : StreamEmit(t, kind)
    \/ StreamEnd(t)
    \/ StreamClose(t)

Next ==
    \/ User
    \/ EventLoop
    \/ \E t \in Turn : Wait(t) \/ SendMessage(t) \/ StreamChat(t) \/ Drain(t)

Spec == Init /\ [][Next]_vars

\* Every goroutine that can run does; the event loop handles every message;
\* the provider's stream ends (retries are bounded).  The user owes nothing.
Fairness ==
    /\ \A t \in Turn :
        /\ WF_vars(Wait(t))
        /\ WF_vars(SendMessage(t))
        /\ WF_vars(StreamEnd(t))
        /\ WF_vars(StreamClose(t))
    /\ WF_vars(EventLoop)

FairSpec == Spec /\ Fairness

-----------------------------------------------------------------------------
(* Safety *)

\* turnActive admits one sendMessage at a time: no two turns are ever past the
\* compare-and-swap together, whatever is cancelled and restarted.
OneTurnInBody ==
    /\ \A t, u \in Turn : pc[t] \in Body /\ pc[u] \in Body => t = u
    /\ turnActive <=> \E t \in Turn : pc[t] \in Body

\* While a turn streams, the client's prompt drain is its own: the deferred
\* calls clear it before they let the next turn in.
DrainWiredWhileStreaming == \A t \in Turn : pc[t] = "loop" => drainWired

\* The UI never waits for nothing: while it listens to a turn there is a running
\* wait command on that channel or a message of it still to be handled.
ListenerAlive ==
    \A t \in Turn : eventCh = t => waiters[t] > 0 \/ \E m \in posted : m.ch = t

\* No turn runs out of the user's reach: one that has not sent its last events
\* is the one the UI shows, with its cancel function at hand, or is cancelled.
NoTurnOutOfReach ==
    \A t \in Turn : pc[t] \in {"start", "wire", "loop"} =>
        t \in cancelled \/ (streaming /\ eventCh = t /\ cancelFn = t)

\* The end of a turn is announced twice (the "done" event and the closed channel)
\* and acted upon once: it is persisted once and hands over the queue once.
DoneHandledOnce == \A t \in Turn : doneCount[t] <= 1

\* A typed prompt is in one place: the textarea, the queue, the turn it was sent
\* with, or cleared at the user's request.
PromptAccounted ==
    \A p \in 1 .. typed :
        \/ p = input
        \/ p \in Items(queued)
        \/ p \in dropped
        \/ \E t \in Turn : p \in Items(carried[t])

\* No prompt is sent twice, and a batch keeps the order of typing.
PromptSentOnce ==
    /\ \A t, u \in Turn : t # u => Items(carried[t]) \cap Items(carried[u]) = {}
    /\ \A t \in Turn : \A i, j \in DOMAIN carried[t] :
            i < j => carried[t][i] < carried[t][j]

\* What the user typed is kept until they take it back: in one place, sent once, in order.
PromptsKept == PromptAccounted /\ PromptSentOnce

-----------------------------------------------------------------------------
(* Action properties *)

\* The UI acts on the events of a turn in the order they were sent, none of them
\* twice and none left out, although every one travels in a message of its own.
EventsInOrder ==
    [][\A t \in Turn : seen'[t] # seen[t] => seen'[t] = seen[t] + 1]_vars

-----------------------------------------------------------------------------
(* Liveness, under FairSpec *)

\* The busy state of the UI ends, whatever the agent goroutines went through.
UIGetsIdle == streaming ~> ~streaming

\* A turn the user lets run is taken to its end and gives turnActive back.
UninterruptedTurnEnds ==
    \A t \in Turn : eventCh = t ~> pc[t] = "ended" \/ t \in cancelled

\* What the user waits for is over some time, and so is the turn behind it.
TurnsEnd == UIGetsIdle /\ UninterruptedTurnEnds

\* A cancelled turn ends (the comment on sendMessage's select).
CancelledTurnEnds == \A t \in Turn : t \in cancelled ~> pc[t] = "ended"

-----------------------------------------------------------------------------
(* What the user is promised: TurnProtocol *)

Phase(t) ==
    IF t = eventCh THEN "live"
    ELSE IF doneCount[t] > 0 THEN "finished"
    ELSE IF t <= turns THEN "abandoned" ELSE "fresh"

Protocol == INSTANCE TurnProtocol WITH
    current <- eventCh,
    phase   <- [t \in Turn |-> Phase(t)],
    shown   <- seen

\* Channels, wait commands and goroutines together keep the promise of TurnProtocol.
ImplementsProtocol == Protocol!Spec

=============================================================================

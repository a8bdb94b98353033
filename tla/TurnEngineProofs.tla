-------------------------- MODULE TurnEngineProofs --------------------------
(***************************************************************************)
(* What holds of TurnEngine, and of the headless run of the same turns     *)
(* (Headless), for every number of turns, prompts and stream events and    *)
(* every channel capacity.                                                 *)
(***************************************************************************)
EXTENDS Headless, TLAPS

\* The actions of Next, each under its own name, so that a proof about a step
\* has one case per action.
LEMMA NextCases ==
    ASSUME Next
    PROVE  \/ Type \/ EnterQueues \/ EnterSends \/ Unqueue \/ ClearQueue
           \/ \E clearQueue \in BOOLEAN : Interrupt(clearQueue)
           \/ \E m \in posted : HandleEvent(m)
           \/ \E m \in posted : IgnoreDone(m)
           \/ \E m \in posted : HandleDone(m)
           \/ \E t \in Turn : WaitEvent(t)
           \/ \E t \in Turn : WaitClosed(t)
           \/ \E t \in Turn : Begin(t)
           \/ \E t \in Turn : Send(t)
           \/ \E t \in Turn : Wire(t)
           \/ \E t \in Turn : Receive(t)
           \/ \E t \in Turn : SeeCancel(t)
           \/ \E t \in Turn : Complete(t)
           \/ \E t \in Turn : Unwire(t)
           \/ \E t \in Turn : Release(t)
           \/ \E t \in Turn : Close(t)
           \/ \E t \in Turn : \E kind \in StreamDeltas : StreamEmit(t, kind)
           \/ \E t \in Turn : StreamEnd(t)
           \/ \E t \in Turn : StreamClose(t)
           \/ \E t \in Turn : Drain(t)
BY DEF Next, User, EventLoop, Wait, SendMessage, StreamChat

-----------------------------------------------------------------------------
(* Type correctness *)

LEMMA InitType == Init => TypeOK
<1> SUFFICES ASSUME Init PROVE TypeOK
    OBVIOUS
<1> USE TurnAssumption DEF Init
<1>1. FlagType
      BY DEF FlagType
<1>2. UIType
      BY DEF UIType
<1>3. CmdType
      BY DEF CmdType
<1>4. AgentType
      BY DEF AgentType, PC, TurnState
<1>5. ChanType
      BY DEF ChanType
<1>6. StreamType
      BY DEF StreamType
<1>7. GhostType
      BY DEF GhostType
<1> QED BY <1>1, <1>2, <1>3, <1>4, <1>5, <1>6, <1>7 DEF TypeOK

\* startAgentTurn keeps the types of the fields it writes.
LEMMA StartTurnType ==
    ASSUME TypeOK, NEW prompts \in Seq(Prompt), NEW old \in Turn \cup {NoTurn},
           StartTurn(prompts, old)
    PROVE  /\ eventCh' \in Turn
           /\ cancelFn' \in Turn
           /\ turns' \in 0 .. MaxTurns
           /\ waiters' \in [Turn -> Nat]
           /\ pc' \in [Turn -> PC]
           /\ cancelled' \subseteq Turn
           /\ carried' \in [Turn -> Seq(Prompt)]
<1>1. turns + 1 \in Turn /\ turns + 1 \in 0 .. MaxTurns
      BY TurnAssumption DEF StartTurn, TypeOK, UIType, Turn
<1> QED BY <1>1 DEF StartTurn, TypeOK, UIType, CmdType, AgentType, GhostType, PC

LEMMA FlagStep == ASSUME TypeOK, [Next]_vars PROVE FlagType'
<1> USE DEF TypeOK, FlagType
<1>1. CASE UNCHANGED <<streaming, turnActive, drainWired>>
      BY <1>1
<1>2. CASE EnterSends
      BY <1>2 DEF EnterSends, StartTurn
<1>3. CASE \E clearQueue \in BOOLEAN : Interrupt(clearQueue)
      BY <1>3 DEF Interrupt, agentVars
<1>4. CASE \E m \in posted : HandleDone(m)
      BY <1>4 DEF HandleDone, StartTurn
<1>5. CASE \E t \in Turn : Begin(t)
      BY <1>5 DEF Begin, uiVars
<1>6. CASE \E t \in Turn : Wire(t)
      BY <1>6 DEF Wire, uiVars
<1>7. CASE \E t \in Turn : Unwire(t)
      BY <1>7 DEF Unwire, uiVars
<1>8. CASE \E t \in Turn : Release(t)
      BY <1>8 DEF Release, uiVars
<1> QED
    BY <1>1, <1>2, <1>3, <1>4, <1>5, <1>6, <1>7, <1>8, NextCases
    DEF vars, uiVars, agentVars, Type, EnterQueues, Unqueue, ClearQueue, HandleEvent, DisplayEvent, DropEvent,
        IgnoreDone, WaitEvent, WaitClosed, Send, Receive, SeeCancel, Complete, Close,
        StreamEmit, StreamEnd, StreamClose, Drain

LEMMA UIStep == ASSUME TypeOK, [Next]_vars PROVE UIType'
<1> USE TurnAssumption DEF TypeOK, UIType
<1>1. CASE UNCHANGED <<eventCh, cancelFn, queued, input, turns, cancelled>>
      BY <1>1
<1>2. CASE Type
      BY <1>2 DEF Type, GhostType, Prompt, NoPrompt
<1>3. CASE EnterQueues
      <2>1. input \in Prompt
            BY <1>3 DEF EnterQueues
      <2> QED BY <1>3, <2>1 DEF EnterQueues
<1>4. CASE EnterSends
      <2>1. <<input>> \in Seq(Prompt)
            BY <1>4 DEF EnterSends
      <2> QED BY <1>4, <2>1, StartTurnType DEF EnterSends
<1>5. CASE Unqueue
      <2>1. Len(queued) \in 1 .. Len(queued) /\ Len(queued) - 1 \in 0 .. Len(queued)
            BY <1>5 DEF Unqueue
      <2>2. queued[Len(queued)] \in Prompt
            BY <2>1
      <2>3. SubSeq(queued, 1, Len(queued) - 1) \in Seq(Prompt)
            BY <2>1
      <2> QED BY <1>5, <2>2, <2>3 DEF Unqueue
<1>6. CASE ClearQueue
      BY <1>6 DEF ClearQueue
<1>7. CASE \E clearQueue \in BOOLEAN : Interrupt(clearQueue)
      <2> PICK clearQueue \in BOOLEAN : Interrupt(clearQueue)
            BY <1>7
      <2>1. <<>> \in Seq(Prompt) /\ (queued' = <<>> \/ queued' = queued)
            BY DEF Interrupt
      <2> QED BY <2>1 DEF Interrupt
<1>8. CASE \E m \in posted : HandleDone(m)
      <2> PICK m \in posted : HandleDone(m)
            BY <1>8
      <2>1. NoTurn \in Turn \cup {NoTurn} /\ <<>> \in Seq(Prompt)
            OBVIOUS
      <2>2. CASE StartTurn(queued, NoTurn) /\ queued' = <<>>
            BY <2>1, <2>2, StartTurnType DEF HandleDone
      <2>3. CASE StartTurn(<<>>, NoTurn) /\ UNCHANGED queued
            BY <2>1, <2>3, StartTurnType DEF HandleDone
      <2>4. CASE eventCh' = NoTurn /\ cancelFn' = NoTurn /\ UNCHANGED <<queued, turns, cancelled>>
            BY <2>1, <2>4 DEF HandleDone
      <2> QED BY <2>2, <2>3, <2>4 DEF HandleDone
<1> QED
    BY <1>1, <1>2, <1>3, <1>4, <1>5, <1>6, <1>7, <1>8, NextCases
    DEF vars, uiVars, HandleEvent, DisplayEvent, DropEvent, IgnoreDone, WaitEvent, WaitClosed, Begin, Send, Wire,
        Receive, SeeCancel, Complete, Unwire, Release, Close, StreamEmit, StreamEnd,
        StreamClose, Drain

LEMMA CmdStep == ASSUME TypeOK, [Next]_vars PROVE CmdType'
<1> USE DEF TypeOK, CmdType
<1>1. CASE UNCHANGED <<waiters, posted>>
      BY <1>1
<1>2. CASE EnterSends
      <2>1. <<input>> \in Seq(Prompt)
            BY <1>2 DEF EnterSends, UIType
      <2> QED BY <1>2, <2>1, StartTurnType DEF EnterSends, UIType
<1>3. CASE \E m \in posted : HandleEvent(m)
      BY <1>3 DEF HandleEvent, DisplayEvent, DropEvent, Message, DoneMsg
<1>4. CASE \E m \in posted : IgnoreDone(m)
      BY <1>4 DEF IgnoreDone
<1>5. CASE \E m \in posted : HandleDone(m)
      <2> PICK m \in posted : HandleDone(m)
            BY <1>5
      <2>1. posted' \subseteq Message /\ NoTurn \in Turn \cup {NoTurn} /\ <<>> \in Seq(Prompt)
            BY DEF HandleDone
      <2> QED BY <2>1, StartTurnType DEF HandleDone, UIType
<1>6. CASE \E t \in Turn : WaitEvent(t)
      <2> PICK t \in Turn : WaitEvent(t)
            BY <1>6
      <2>1. Head(events[t]) \in EventKind /\ taken'[t] \in Nat
            BY DEF WaitEvent, ChanType
      <2>2. EventMsg(t, Head(events[t]), taken'[t]) \in Message
            BY <2>1 DEF EventMsg, Message
      <2> QED BY <2>2 DEF WaitEvent
<1>7. CASE \E t \in Turn : WaitClosed(t)
      BY <1>7 DEF WaitClosed, Message, DoneMsg
<1> QED
    BY <1>1, <1>2, <1>3, <1>4, <1>5, <1>6, <1>7, NextCases
    DEF vars, cmdVars, Type, EnterQueues, Unqueue, ClearQueue, Interrupt, Begin, Send,
        Wire, Receive, SeeCancel, Complete, Unwire, Release, Close, StreamEmit, StreamEnd,
        StreamClose, Drain

LEMMA AgentStep == ASSUME TypeOK, [Next]_vars PROVE AgentType'
<1> USE DEF TypeOK, AgentType
<1>1. CASE UNCHANGED <<pc, outbox, lastTurnState>>
      BY <1>1
<1>2. CASE EnterSends
      <2>1. <<input>> \in Seq(Prompt)
            BY <1>2 DEF EnterSends, UIType
      <2> QED BY <1>2, <2>1, StartTurnType DEF EnterSends, UIType
<1>3. CASE \E m \in posted : HandleDone(m)
      <2>1. NoTurn \in Turn \cup {NoTurn} /\ <<>> \in Seq(Prompt)
            OBVIOUS
      <2>2. pc' \in [Turn -> PC]
            BY <1>3, <2>1, StartTurnType DEF HandleDone, UIType
      <2> QED BY <1>3, <2>2 DEF HandleDone
<1>4. CASE \E t \in Turn : Begin(t)
      <2> PICK t \in Turn : Begin(t)
            BY <1>4
      <2>1. \/ pc' = [pc EXCEPT ![t] = "close"] /\ outbox' = [outbox EXCEPT ![t] = <<"error">>]
            \/ pc' = [pc EXCEPT ![t] = "wire"] /\ outbox' = [outbox EXCEPT ![t] = <<"state">>]
            BY DEF Begin
      <2>2. lastTurnState' = lastTurnState
            BY DEF Begin
      <2>3. CASE pc' = [pc EXCEPT ![t] = "close"] /\ outbox' = [outbox EXCEPT ![t] = <<"error">>]
            BY <2>2, <2>3 DEF PC, EventKind
      <2>4. CASE pc' = [pc EXCEPT ![t] = "wire"] /\ outbox' = [outbox EXCEPT ![t] = <<"state">>]
            BY <2>2, <2>4 DEF PC, EventKind
      <2> QED BY <2>1, <2>3, <2>4
<1>5. CASE \E t \in Turn : Send(t)
      BY <1>5 DEF Send
<1>6. CASE \E t \in Turn : Wire(t)
      BY <1>6 DEF Wire, PC
<1>7. CASE \E t \in Turn : Receive(t)
      <2> PICK t \in Turn : Receive(t)
            BY <1>7
      <2>1. Head(stream[t]) \in StreamKind
            BY DEF Receive, StreamType
      <2>2. Outputs \subseteq Seq(EventKind)
            BY DEF Outputs, EventKind
      <2>3. outbox' \in [Turn -> Seq(EventKind)]
            BY <2>2 DEF Receive
      <2> QED BY <2>3 DEF Receive, PC, TurnState
<1>8. CASE \E t \in Turn : SeeCancel(t)
      BY <1>8 DEF SeeCancel, PC, EventKind, TurnState
<1>9. CASE \E t \in Turn : Complete(t)
      BY <1>9 DEF Complete, PC, EventKind, TurnState
<1>10. CASE \E t \in Turn : Unwire(t)
      BY <1>10 DEF Unwire, PC
<1>11. CASE \E t \in Turn : Release(t)
      BY <1>11 DEF Release, PC
<1>12. CASE \E t \in Turn : Close(t)
      BY <1>12 DEF Close, PC
<1> QED
    BY <1>1, <1>2, <1>3, <1>4, <1>5, <1>6, <1>7, <1>8, <1>9, <1>10, <1>11, <1>12, NextCases
    DEF vars, agentVars, Type, EnterQueues, Unqueue, ClearQueue, Interrupt, HandleEvent, DisplayEvent, DropEvent,
        IgnoreDone, WaitEvent, WaitClosed, StreamEmit, StreamEnd, StreamClose, Drain

LEMMA ChanStep == ASSUME TypeOK, [Next]_vars PROVE ChanType'
<1> USE DEF TypeOK, ChanType
<1>1. CASE UNCHANGED <<events, closed, taken>>
      BY <1>1
<1>2. CASE \E t \in Turn : WaitEvent(t)
      BY <1>2 DEF WaitEvent
<1>3. CASE \E t \in Turn : Send(t)
      BY <1>3 DEF Send, AgentType
<1>4. CASE \E t \in Turn : Close(t)
      BY <1>4 DEF Close
<1> QED
    BY <1>1, <1>2, <1>3, <1>4, NextCases
    DEF vars, chanVars, Type, EnterQueues, EnterSends, Unqueue, ClearQueue, Interrupt,
        HandleEvent, DisplayEvent, DropEvent, IgnoreDone, HandleDone, WaitClosed, Begin, Wire, Receive, SeeCancel,
        Complete, Unwire, Release, StreamEmit, StreamEnd, StreamClose, Drain

LEMMA StreamStep == ASSUME TypeOK, [Next]_vars PROVE StreamType'
<1> USE DEF TypeOK, StreamType
<1>1. CASE UNCHANGED <<stream, streamPc, streamed, drainers>>
      BY <1>1
<1>2. CASE \E t \in Turn : Wire(t)
      BY <1>2 DEF Wire
<1>3. CASE \E t \in Turn : Receive(t)
      BY <1>3 DEF Receive
<1>4. CASE \E t \in Turn : SeeCancel(t)
      BY <1>4 DEF SeeCancel
<1>5. CASE \E t \in Turn : \E kind \in StreamDeltas : StreamEmit(t, kind)
      <2> PICK t \in Turn, kind \in StreamDeltas : StreamEmit(t, kind)
            BY <1>5
      <2>1. kind \in StreamKind
            BY TurnAssumption DEF StreamKind
      <2> QED BY <2>1 DEF StreamEmit
<1>6. CASE \E t \in Turn : StreamEnd(t)
      <2> PICK t \in Turn : StreamEnd(t)
            BY <1>6
      <2>1. {"done", "error"} \subseteq StreamKind
            BY DEF StreamKind
      <2>2. \/ stream' = stream
            \/ \E kind \in StreamKind : stream' = [stream EXCEPT ![t] = Append(@, kind)]
            BY <2>1 DEF StreamEnd
      <2>3. CASE stream' = stream
            BY <2>3 DEF StreamEnd
      <2>4. CASE \E kind \in StreamKind : stream' = [stream EXCEPT ![t] = Append(@, kind)]
            BY <2>4 DEF StreamEnd
      <2> QED BY <2>2, <2>3, <2>4
<1>7. CASE \E t \in Turn : StreamClose(t)
      BY <1>7 DEF StreamClose
<1>8. CASE \E t \in Turn : Drain(t)
      BY <1>8 DEF Drain
<1> QED
    BY <1>1, <1>2, <1>3, <1>4, <1>5, <1>6, <1>7, <1>8, NextCases
    DEF vars, streamVars, Type, EnterQueues, EnterSends, Unqueue, ClearQueue, Interrupt,
        HandleEvent, DisplayEvent, DropEvent, IgnoreDone, HandleDone, WaitEvent, WaitClosed, Begin, Send, Complete,
        Unwire, Release, Close

LEMMA GhostStep == ASSUME TypeOK, [Next]_vars PROVE GhostType'
<1> USE TurnAssumption DEF TypeOK, GhostType
<1>1. CASE UNCHANGED ghostVars
      BY <1>1 DEF ghostVars
<1>2. CASE Type
      BY <1>2 DEF Type
<1>3. CASE EnterSends
      <2>1. <<input>> \in Seq(Prompt)
            BY <1>3 DEF EnterSends, UIType
      <2> QED BY <1>3, <2>1, StartTurnType DEF EnterSends, UIType
<1>4. CASE ClearQueue \/ \E clearQueue \in BOOLEAN : Interrupt(clearQueue)
      <2>1. Items(queued) \subseteq Prompt
            BY DEF Items, UIType
      <2> QED BY <1>4, <2>1 DEF ClearQueue, Interrupt
<1>5. CASE \E m \in posted : HandleEvent(m)
      BY <1>5 DEF HandleEvent, DisplayEvent, DropEvent, CmdType, Message
<1>6. CASE \E m \in posted : HandleDone(m)
      <2> PICK m \in posted : HandleDone(m)
            BY <1>6
      <2>1. NoTurn \in Turn \cup {NoTurn} /\ <<>> \in Seq(Prompt)
            OBVIOUS
      <2>2. carried' \in [Turn -> Seq(Prompt)]
            BY <2>1, StartTurnType DEF HandleDone, UIType
      <2>3. m.ch \in Turn /\ followUps' \in Nat
            BY DEF HandleDone, CmdType, Message
      <2>4. doneCount' \in [Turn -> Nat]
            BY <2>3 DEF HandleDone
      <2> QED BY <2>2, <2>3, <2>4 DEF HandleDone
<1>7. CASE \E t \in Turn : Begin(t)
      BY <1>7 DEF Begin
<1> QED
    BY <1>1, <1>2, <1>3, <1>4, <1>5, <1>6, <1>7, NextCases
    DEF vars, EnterQueues, Unqueue, IgnoreDone, WaitEvent, WaitClosed, Send, Wire, Receive,
        SeeCancel, Complete, Unwire, Release, Close, StreamEmit, StreamEnd, StreamClose, Drain

LEMMA StepType == TypeOK /\ [Next]_vars => TypeOK'
BY FlagStep, UIStep, CmdStep, AgentStep, ChanStep, StreamStep, GhostStep DEF TypeOK

\* Every variable keeps its type, whatever the bounds and capacities.
THEOREM TypeCorrect == Spec => []TypeOK
BY InitType, StepType, PTL DEF Spec

-----------------------------------------------------------------------------
(* The inductive invariant.  The safety properties lean on each other: that *)
(* the end of a turn is handled once needs to know what a message still in  *)
(* flight says about the goroutine that caused it.                          *)

Late == {"unwire", "release", "close", "ended"}

\* m.cancel and m.eventCh belong to the same turn, and exist while streaming.
UIInv ==
    /\ streaming <=> eventCh # NoTurn
    /\ cancelFn = eventCh
    /\ eventCh <= turns

\* A turn that was not started yet has left no trace.
FreshInv ==
    /\ \A t \in Turn : t > turns =>
          pc[t] = "unborn" /\ waiters[t] = 0 /\ taken[t] = 0 /\ seen[t] = 0 /\ doneCount[t] = 0
    /\ \A m \in posted : m.ch <= turns

\* The news of a turn's end only travels once its goroutine is past the loop.
LateInv ==
    /\ \A t \in Turn : "done" \in Items(outbox[t]) \cup Items(events[t]) => pc[t] \in Late
    /\ \A m \in posted : m.type = "done" \/ m.kind = "done" => pc[m.ch] \in Late
    /\ \A t \in closed : pc[t] = "ended"

DrainInv == \A t \in Turn : pc[t] \in {"loop", "unwire"} => drainWired

OnceInv == \A t \in Turn : doneCount[t] <= 1 /\ (eventCh = t => doneCount[t] = 0)

\* Of the current turn one event at most is on its way, and it is the next one.
OrderInv ==
    /\ \A t \in Turn : eventCh = t => waiters[t] <= 1 /\ (waiters[t] = 1 => seen[t] = taken[t])
    /\ \A m \in posted : m.type = "event" /\ m.ch = eventCh =>
          waiters[m.ch] = 0 /\ m.n = taken[m.ch] /\ m.n = seen[m.ch] + 1
    /\ \A m1, m2 \in posted :
          m1.type = "event" /\ m2.type = "event" /\ m1.ch = eventCh /\ m2.ch = eventCh => m1 = m2

IInv ==
    /\ TypeOK
    /\ OneTurnInBody
    /\ UIInv
    /\ FreshInv
    /\ LateInv
    /\ DrainInv
    /\ NoTurnOutOfReach
    /\ OnceInv
    /\ OrderInv
    /\ ListenerAlive

-----------------------------------------------------------------------------
(* Sequences as sets *)

LEMMA ItemsAppend ==
    ASSUME NEW S, NEW s \in Seq(S), NEW x
    PROVE  Items(Append(s, x)) = Items(s) \cup {x}
<1>1. /\ DOMAIN s = 1 .. Len(s)
      /\ DOMAIN Append(s, x) = 1 .. Len(s) + 1
      /\ Len(s) \in Nat
      /\ \A i \in 1 .. Len(s) : Append(s, x)[i] = s[i]
      /\ Append(s, x)[Len(s) + 1] = x
      OBVIOUS
<1>2. 1 .. Len(s) + 1 = (1 .. Len(s)) \cup {Len(s) + 1}
      BY <1>1
<1> QED BY <1>1, <1>2 DEF Items

LEMMA ItemsTail ==
    ASSUME NEW S, NEW s \in Seq(S), s # <<>>
    PROVE  Items(Tail(s)) \subseteq Items(s) /\ Head(s) \in Items(s)
<1>1. /\ DOMAIN s = 1 .. Len(s)
      /\ Len(s) \in Nat \ {0}
      /\ DOMAIN Tail(s) = 1 .. Len(s) - 1
      /\ \A i \in 1 .. Len(s) - 1 : Tail(s)[i] = s[i + 1] /\ i + 1 \in 1 .. Len(s)
      /\ Head(s) = s[1] /\ 1 \in 1 .. Len(s)
      OBVIOUS
<1> QED BY <1>1 DEF Items

\* Among what the select hands on, only an error carries "done".
LEMMA OutputsDone ==
    ASSUME NEW kind, NEW out \in Outputs, Forwards(kind, out), "done" \in Items(out)
    PROVE  kind = "error"
<1>1. "done" \notin Items(<<>>)
      BY DEF Items
<1>2. "done" \notin Items(<<"text">>) /\ "done" \notin Items(<<"tool">>)
      BY DEF Items
<1>3. "done" \notin Items(<<"state", "tool">>)
      BY DEF Items
<1> QED BY <1>1, <1>2, <1>3 DEF Forwards

-----------------------------------------------------------------------------
(* The inductive step, one lemma per conjunct *)

LEMMA InitInv == Init => IInv
<1> SUFFICES ASSUME Init PROVE IInv
    OBVIOUS
<1>1. TypeOK
      BY InitType
<1>2. OneTurnInBody
      BY DEF Init, OneTurnInBody, Body
<1>3. UIInv
      <2>1. ~streaming /\ eventCh = NoTurn /\ cancelFn = NoTurn /\ eventCh <= turns
            BY DEF Init, NoTurn
      <2> QED BY <2>1 DEF UIInv
<1>4. FreshInv
      BY DEF Init, FreshInv
<1>5. LateInv
      BY DEF Init, LateInv, Items
<1>6. DrainInv /\ NoTurnOutOfReach
      BY DEF Init, DrainInv, NoTurnOutOfReach
<1>7. OnceInv
      BY DEF Init, OnceInv
<1>8. OrderInv
      BY DEF Init, OrderInv, Turn, NoTurn
<1>9. ListenerAlive
      BY DEF Init, ListenerAlive, Turn, NoTurn
<1> QED BY <1>1, <1>2, <1>3, <1>4, <1>5, <1>6, <1>7, <1>8, <1>9 DEF IInv

\* What a started turn is: the next number, fresh until now.
LEMMA StartTurnFresh ==
    ASSUME TypeOK, FreshInv, NEW prompts, NEW old, StartTurn(prompts, old)
    PROVE  /\ turns + 1 \in Turn
           /\ pc[turns + 1] = "unborn"
           /\ waiters[turns + 1] = 0 /\ taken[turns + 1] = 0
           /\ seen[turns + 1] = 0 /\ doneCount[turns + 1] = 0
           /\ \A m \in posted : m.ch # turns + 1
           /\ pc' = [pc EXCEPT ![turns + 1] = "start"]
           /\ waiters' = [waiters EXCEPT ![turns + 1] = 1]
           /\ eventCh' = turns + 1 /\ cancelFn' = turns + 1 /\ turns' = turns + 1
<1>1. turns + 1 \in Turn /\ turns + 1 > turns /\ turns \in Nat
      BY TurnAssumption DEF StartTurn, TypeOK, UIType, Turn
<1>2. \A m \in posted : m.ch # turns + 1
      BY <1>1 DEF FreshInv, TypeOK, CmdType, Message, Turn
<1> QED BY <1>1, <1>2 DEF FreshInv, StartTurn

\* HandleDone either starts a turn or leaves the UI idle.
LEMMA HandleDoneCases ==
    ASSUME NEW m \in posted, HandleDone(m)
    PROVE  \/ \E prompts : StartTurn(prompts, NoTurn)
           \/ /\ streaming' = FALSE /\ eventCh' = NoTurn /\ cancelFn' = NoTurn
              /\ UNCHANGED <<turns, waiters, pc, cancelled>>
BY DEF HandleDone

LEMMA MutexStep == ASSUME IInv, [Next]_vars PROVE OneTurnInBody'
<1> USE DEF IInv, TypeOK, AgentType, OneTurnInBody, Body
<1>1. CASE UNCHANGED <<pc, turnActive>>
      BY <1>1
<1>2. ASSUME NEW prompts, NEW old, StartTurn(prompts, old), turnActive' = turnActive
      PROVE  OneTurnInBody'
      BY <1>2, StartTurnFresh
<1>3. CASE EnterSends
      BY <1>2, <1>3 DEF EnterSends
<1>4. CASE \E m \in posted : HandleDone(m)
      BY <1>1, <1>2, <1>4, HandleDoneCases DEF HandleDone
<1>5. ASSUME NEW t \in Turn, pc[t] \in Body, turnActive' = turnActive,
             NEW l \in Body, pc' = [pc EXCEPT ![t] = l]
      PROVE  OneTurnInBody'
      BY <1>5
<1>6. CASE \E t \in Turn : Begin(t)
      <2> PICK t \in Turn : Begin(t)
            BY <1>6
      <2>1. CASE turnActive
            <3>1. pc' = [pc EXCEPT ![t] = "close"] /\ pc[t] = "start" /\ turnActive' = turnActive
                  BY <2>1 DEF Begin
            <3> QED BY <3>1
      <2>2. CASE ~turnActive
            <3>1. pc' = [pc EXCEPT ![t] = "wire"] /\ turnActive'
                  BY <2>2 DEF Begin
            <3>2. \A u \in Turn : pc[u] \notin Body
                  BY <2>2
            <3> QED BY <3>1, <3>2
      <2> QED BY <2>1, <2>2
<1>7. CASE \E t \in Turn : Wire(t)
      BY <1>5, <1>7 DEF Wire
<1>8. CASE \E t \in Turn : Receive(t)
      BY <1>1, <1>5, <1>8 DEF Receive
<1>9. CASE \E t \in Turn : SeeCancel(t)
      BY <1>5, <1>9 DEF SeeCancel
<1>10. CASE \E t \in Turn : Complete(t)
      BY <1>5, <1>10 DEF Complete
<1>11. CASE \E t \in Turn : Unwire(t)
      BY <1>5, <1>11 DEF Unwire
<1>12. CASE \E t \in Turn : Release(t)
      <2> PICK t \in Turn : Release(t)
            BY <1>12
      <2>1. pc[t] = "release" /\ pc' = [pc EXCEPT ![t] = "close"] /\ ~turnActive'
            BY DEF Release
      <2>2. \A u \in Turn : pc'[u] \notin Body
            BY <2>1
      <2> QED BY <2>1, <2>2
<1>13. CASE \E t \in Turn : Close(t)
      BY <1>13 DEF Close
<1> QED
    BY <1>1, <1>3, <1>4, <1>6, <1>7, <1>8, <1>9, <1>10, <1>11, <1>12, <1>13, NextCases
    DEF vars, agentVars, Type, EnterQueues, Unqueue, ClearQueue, Interrupt, HandleEvent, DisplayEvent, DropEvent,
        IgnoreDone, WaitEvent, WaitClosed, Send, StreamEmit, StreamEnd, StreamClose, Drain

LEMMA UIInvStep == ASSUME IInv, [Next]_vars PROVE UIInv'
<1> USE DEF IInv, TypeOK, UIInv, UIType
<1>1. CASE UNCHANGED <<streaming, eventCh, cancelFn, turns>>
      BY <1>1
<1>2. ASSUME NEW prompts, NEW old, StartTurn(prompts, old)
      PROVE  UIInv'
      <2>1. turns + 1 # NoTurn /\ turns + 1 <= turns + 1
            BY DEF NoTurn
      <2>2. streaming'
            BY <1>2 DEF StartTurn
      <2> QED BY <1>2, <2>1, <2>2 DEF StartTurn
<1>3. ASSUME streaming' = FALSE, eventCh' = NoTurn, cancelFn' = NoTurn, turns' = turns
      PROVE  UIInv'
      <2>1. NoTurn <= turns
            BY DEF NoTurn
      <2> QED BY <1>3, <2>1
<1>4. CASE EnterSends
      BY <1>2, <1>4 DEF EnterSends
<1>5. CASE \E clearQueue \in BOOLEAN : Interrupt(clearQueue)
      BY <1>3, <1>5 DEF Interrupt
<1>6. CASE \E m \in posted : HandleDone(m)
      BY <1>2, <1>3, <1>6, HandleDoneCases
<1> QED
    BY <1>1, <1>4, <1>5, <1>6, NextCases
    DEF vars, uiVars, Type, EnterQueues, Unqueue, ClearQueue, HandleEvent, DisplayEvent, DropEvent, IgnoreDone,
        WaitEvent, WaitClosed, Begin, Send, Wire, Receive, SeeCancel, Complete, Unwire,
        Release, Close, StreamEmit, StreamEnd, StreamClose, Drain

LEMMA FreshStep == ASSUME IInv, [Next]_vars PROVE FreshInv'
<1> USE DEF IInv, TypeOK, FreshInv, UIType, CmdType, AgentType, ChanType, GhostType
<1>1. CASE UNCHANGED <<pc, waiters, taken, seen, doneCount, posted, turns>>
      BY <1>1
<1>2. ASSUME NEW prompts, NEW old, StartTurn(prompts, old), posted' \subseteq posted,
             UNCHANGED <<taken, seen>>,
             \A t \in Turn : t > turns => doneCount'[t] = doneCount[t]
      PROVE  FreshInv'
      <2>1. turns' = turns + 1 /\ turns \in Nat
            BY <1>2, StartTurnFresh
      <2>2. \A m \in posted' : m.ch <= turns'
            BY <1>2, <2>1 DEF Message, Turn
      <2>3. ASSUME NEW t \in Turn, t > turns'
            PROVE  pc'[t] = "unborn" /\ waiters'[t] = 0 /\ t > turns
            <3>1. t > turns /\ t # turns + 1
                  BY <2>1, <2>3 DEF Turn
            <3>2. pc'[t] = pc[t] /\ waiters'[t] = waiters[t]
                  BY <1>2, <3>1, StartTurnFresh
            <3> QED BY <3>1, <3>2
      <2> QED BY <1>2, <2>2, <2>3
<1>3. CASE EnterSends
      BY <1>2, <1>3 DEF EnterSends, chanVars
<1>4. CASE \E m \in posted : HandleEvent(m)
      <2> PICK m \in posted : HandleEvent(m)
            BY <1>4
      <2>1. m.ch \in Turn /\ m.ch <= turns
            BY DEF Message
      <2>2. \A k \in posted' : k.ch <= turns
            BY <2>1 DEF HandleEvent, DisplayEvent, DropEvent, DoneMsg
      <2>3. \A t \in Turn : t # m.ch => waiters'[t] = waiters[t] /\ seen'[t] = seen[t]
            BY <2>1 DEF HandleEvent, DisplayEvent, DropEvent
      <2>4. UNCHANGED <<turns, pc, taken, doneCount>>
            BY DEF HandleEvent, DisplayEvent, DropEvent, uiVars, agentVars, chanVars
      <2>5. \A t \in Turn : t > turns => t # m.ch
            BY <2>1 DEF Turn
      <2> QED BY <2>2, <2>3, <2>4, <2>5
<1>5. CASE \E m \in posted : IgnoreDone(m)
      BY <1>5 DEF IgnoreDone, uiVars, agentVars, chanVars, ghostVars
<1>6. CASE \E m \in posted : HandleDone(m)
      <2> PICK m \in posted : HandleDone(m)
            BY <1>6
      <2>1. m.ch \in Turn /\ m.ch <= turns
            BY DEF Message
      <2>2. /\ posted' \subseteq posted /\ UNCHANGED <<taken, seen>>
            /\ \A t \in Turn : t > turns => doneCount'[t] = doneCount[t]
            BY <2>1 DEF HandleDone, chanVars, Turn
      <2>3. CASE UNCHANGED <<turns, waiters, pc>>
            BY <2>2, <2>3
      <2> QED BY <1>2, <2>2, <2>3, HandleDoneCases
<1>7. CASE \E t \in Turn : WaitEvent(t)
      BY <1>7 DEF WaitEvent, EventMsg, uiVars, agentVars, ghostVars, Turn
<1>8. CASE \E t \in Turn : WaitClosed(t)
      BY <1>8 DEF WaitClosed, DoneMsg, uiVars, agentVars, chanVars, ghostVars, Turn
<1>9. ASSUME NEW t \in Turn, pc[t] # "unborn", NEW l, pc' = [pc EXCEPT ![t] = l],
             UNCHANGED <<waiters, taken, seen, doneCount, posted, turns>>
      PROVE  FreshInv'
      BY <1>9
<1>10. CASE \E t \in Turn : Begin(t)
      <2> PICK t \in Turn : Begin(t)
            BY <1>10
      <2>1. \E l : pc' = [pc EXCEPT ![t] = l]
            BY DEF Begin
      <2> QED BY <1>9, <2>1 DEF Begin, uiVars, cmdVars, chanVars
<1>11. CASE \E t \in Turn : Wire(t) \/ SeeCancel(t) \/ Complete(t) \/ Unwire(t) \/ Release(t)
      BY <1>9, <1>11
      DEF Wire, SeeCancel, Complete, Unwire, Release, uiVars, cmdVars, chanVars, ghostVars
<1>12. CASE \E t \in Turn : Receive(t)
      BY <1>1, <1>9, <1>12 DEF Receive, uiVars, cmdVars, chanVars, ghostVars
<1>13. CASE \E t \in Turn : Close(t)
      BY <1>9, <1>13 DEF Close, uiVars, cmdVars, ghostVars
<1> QED
    BY <1>1, <1>3, <1>4, <1>5, <1>6, <1>7, <1>8, <1>10, <1>11, <1>12, <1>13, NextCases
    DEF vars, uiVars, cmdVars, agentVars, chanVars, ghostVars, Type, EnterQueues, Unqueue,
        ClearQueue, Interrupt, Send, StreamEmit, StreamEnd, StreamClose, Drain

LEMMA DrainStep == ASSUME IInv, [Next]_vars PROVE DrainInv'
<1> USE DEF IInv, TypeOK, DrainInv, AgentType
<1>1. CASE UNCHANGED <<pc, drainWired>>
      BY <1>1
<1>2. ASSUME NEW t \in Turn, NEW l \in PC \ {"loop", "unwire"},
             pc' = [pc EXCEPT ![t] = l], drainWired' = drainWired
      PROVE  DrainInv'
      BY <1>2
<1>3. CASE EnterSends
      BY <1>2, <1>3, StartTurnFresh DEF EnterSends, PC
<1>4. CASE \E m \in posted : HandleDone(m)
      <2>1. CASE \E prompts : StartTurn(prompts, NoTurn)
            BY <1>2, <1>4, <2>1, StartTurnFresh DEF HandleDone, PC
      <2> QED BY <1>1, <1>4, <2>1, HandleDoneCases DEF HandleDone
<1>5. CASE \E t \in Turn : Begin(t)
      <2> PICK t \in Turn : Begin(t)
            BY <1>5
      <2>1. \E l \in {"close", "wire"} : pc' = [pc EXCEPT ![t] = l]
            BY DEF Begin
      <2>2. drainWired' = drainWired
            BY DEF Begin
      <2> QED BY <1>2, <2>1, <2>2 DEF PC
<1>6. CASE \E t \in Turn : Wire(t)
      <2>1. drainWired'
            BY <1>6 DEF Wire
      <2> QED BY <2>1
<1>7. CASE \E t \in Turn : Receive(t)
      <2> PICK t \in Turn : Receive(t)
            BY <1>7
      <2>1. pc[t] = "loop" /\ drainWired' = drainWired /\ drainWired
            BY DEF Receive
      <2> QED BY <2>1
<1>8. CASE \E t \in Turn : SeeCancel(t) \/ Complete(t)
      <2> PICK t \in Turn : SeeCancel(t) \/ Complete(t)
            BY <1>8
      <2>1. pc[t] = "loop" /\ drainWired' = drainWired /\ drainWired
            BY DEF SeeCancel, Complete
      <2> QED BY <2>1
<1>9. CASE \E t \in Turn : Unwire(t)
      <2> PICK t \in Turn : Unwire(t)
            BY <1>9
      <2>1. pc[t] = "unwire" /\ pc' = [pc EXCEPT ![t] = "release"]
            BY DEF Unwire
      <2>2. \A u \in Turn : pc'[u] \notin {"loop", "unwire"}
            BY <2>1 DEF OneTurnInBody, Body
      <2> QED BY <2>2
<1>10. CASE \E t \in Turn : Release(t) \/ Close(t)
      BY <1>2, <1>10 DEF Release, Close, PC
<1> QED
    BY <1>1, <1>3, <1>4, <1>5, <1>6, <1>7, <1>8, <1>9, <1>10, NextCases
    DEF vars, agentVars, Type, EnterQueues, Unqueue, ClearQueue, Interrupt, HandleEvent, DisplayEvent, DropEvent,
        IgnoreDone, WaitEvent, WaitClosed, Send, StreamEmit, StreamEnd, StreamClose, Drain

\* Steps of the goroutines that end a turn keep it late.
LEMMA LateStep == ASSUME IInv, [Next]_vars PROVE LateInv'
<1> USE DEF IInv, TypeOK, LateInv, CmdType, AgentType, ChanType
<1>0. /\ "start" \notin Late /\ "unborn" \notin Late /\ "wire" \notin Late /\ "loop" \notin Late
      /\ "unwire" \in Late /\ "release" \in Late /\ "close" \in Late /\ "ended" \in Late
      BY DEF Late
<1>1. CASE UNCHANGED <<pc, outbox, events, closed, posted>>
      BY <1>1
<1>2. ASSUME NEW prompts, NEW old, StartTurn(prompts, old), posted' \subseteq posted,
             UNCHANGED <<outbox, events, closed>>
      PROVE  LateInv'
      <2>1. \A t \in Turn : pc[t] \in Late => pc'[t] = pc[t]
            BY <1>0, <1>2, StartTurnFresh
      <2>2. \A m \in posted : m.ch \in Turn
            BY DEF Message
      <2>3. \A t \in closed : t \in Turn
            OBVIOUS
      <2> QED BY <1>0, <1>2, <2>1, <2>2, <2>3
<1>3. CASE EnterSends
      BY <1>2, <1>3 DEF EnterSends, chanVars
<1>4. CASE \E m \in posted : HandleDone(m)
      BY <1>1, <1>2, <1>4, HandleDoneCases DEF HandleDone, chanVars
<1>5. CASE \E m \in posted : HandleEvent(m)
      <2> PICK m \in posted : HandleEvent(m)
            BY <1>5
      <2>1. UNCHANGED <<pc, outbox, events, closed>>
            BY DEF HandleEvent, DisplayEvent, DropEvent, agentVars, chanVars
      <2>2. \A k \in posted' : k \in posted \/ (m.kind = "done" /\ k = DoneMsg(m.ch, "handled"))
            BY DEF HandleEvent, DisplayEvent, DropEvent
      <2>3. ASSUME NEW k \in posted', k.type = "done" \/ k.kind = "done" PROVE pc[k.ch] \in Late
            <3>1. CASE k \in posted
                  BY <2>3, <3>1
            <3>2. CASE m.kind = "done" /\ k = DoneMsg(m.ch, "handled")
                  <4>1. k.ch = m.ch /\ pc[m.ch] \in Late
                        BY <3>2 DEF DoneMsg
                  <4> QED BY <4>1
            <3> QED BY <2>2, <3>1, <3>2
      <2> QED BY <2>1, <2>3
<1>6. CASE \E m \in posted : IgnoreDone(m)
      BY <1>6 DEF IgnoreDone, agentVars, chanVars
<1>7. CASE \E t \in Turn : WaitEvent(t)
      <2> PICK t \in Turn : WaitEvent(t)
            BY <1>7
      <2>1. Items(Tail(events[t])) \subseteq Items(events[t]) /\ Head(events[t]) \in Items(events[t])
            BY ItemsTail DEF WaitEvent
      <2>2. UNCHANGED <<pc, outbox, closed>> /\ events' = [events EXCEPT ![t] = Tail(@)]
            BY DEF WaitEvent, agentVars
      <2>3. posted' = posted \cup {EventMsg(t, Head(events[t]), taken'[t])}
            BY DEF WaitEvent
      <2>4. ASSUME NEW k \in posted', k.type = "done" \/ k.kind = "done" PROVE pc[k.ch] \in Late
            BY <2>1, <2>3, <2>4 DEF EventMsg
      <2>5. ASSUME NEW u \in Turn, "done" \in Items(outbox'[u]) \cup Items(events'[u])
            PROVE  pc[u] \in Late
            BY <2>1, <2>2, <2>5
      <2> QED BY <2>2, <2>4, <2>5
<1>8. CASE \E t \in Turn : WaitClosed(t)
      <2> PICK t \in Turn : WaitClosed(t)
            BY <1>8
      <2>1. UNCHANGED <<pc, outbox, events, closed>> /\ posted' = posted \cup {DoneMsg(t, "closed")}
            BY DEF WaitClosed, agentVars, chanVars
      <2>2. pc[t] \in Late
            BY <1>0 DEF WaitClosed
      <2>3. ASSUME NEW k \in posted', k.type = "done" \/ k.kind = "done" PROVE pc[k.ch] \in Late
            BY <2>1, <2>2, <2>3 DEF DoneMsg
      <2> QED BY <2>1, <2>3
<1>9. ASSUME NEW t \in Turn, NEW l \in PC, pc' = [pc EXCEPT ![t] = l],
             pc[t] \in Late => l \in Late, pc[t] # "ended",
             NEW out, outbox' = [outbox EXCEPT ![t] = out], "done" \in Items(out) => l \in Late,
             UNCHANGED <<events, posted>>,
             closed' = closed \/ (l = "ended" /\ closed' = closed \cup {t})
      PROVE  LateInv'
      <2>1. \A u \in Turn : pc[u] \in Late => pc'[u] \in Late
            BY <1>9
      <2>2. \A m \in posted : m.ch \in Turn
            BY DEF Message
      <2>3. \A u \in closed' : pc'[u] = "ended"
            BY <1>9
      <2>4. ASSUME NEW u \in Turn, "done" \in Items(outbox'[u]) \cup Items(events'[u])
            PROVE  pc'[u] \in Late
            <3>1. CASE u = t
                  BY <1>9, <2>1, <2>4, <3>1
            <3>2. CASE u # t
                  BY <1>9, <2>1, <2>4, <3>2
            <3> QED BY <3>1, <3>2
      <2> QED BY <1>9, <2>1, <2>2, <2>3, <2>4
<1>10. CASE \E t \in Turn : Begin(t)
      <2> PICK t \in Turn : Begin(t)
            BY <1>10
      <2>1. "done" \notin Items(<<"error">>) /\ "done" \notin Items(<<"state">>)
            BY DEF Items
      <2>2. \E l \in {"close", "wire"}, out \in {<<"error">>, <<"state">>} :
               pc' = [pc EXCEPT ![t] = l] /\ outbox' = [outbox EXCEPT ![t] = out]
            BY DEF Begin
      <2>3. pc[t] = "start" /\ UNCHANGED <<events, posted, closed>>
            BY DEF Begin, cmdVars, chanVars
      <2>4. PICK l \in {"close", "wire"}, out \in {<<"error">>, <<"state">>} :
               pc' = [pc EXCEPT ![t] = l] /\ outbox' = [outbox EXCEPT ![t] = out]
            BY <2>2
      <2>5. l \in PC /\ "done" \notin Items(out) /\ pc[t] \notin Late /\ pc[t] # "ended"
            BY <1>0, <2>1, <2>3, <2>4 DEF PC
      <2> QED BY <1>9, <2>3, <2>4, <2>5
<1>11. CASE \E t \in Turn : Send(t)
      <2> PICK t \in Turn : Send(t)
            BY <1>11
      <2>1. Items(Tail(outbox[t])) \subseteq Items(outbox[t]) /\ Head(outbox[t]) \in Items(outbox[t])
            BY ItemsTail DEF Send
      <2>2. Items(Append(events[t], Head(outbox[t]))) = Items(events[t]) \cup {Head(outbox[t])}
            BY ItemsAppend
      <2>3. /\ events' = [events EXCEPT ![t] = Append(@, Head(outbox[t]))]
            /\ outbox' = [outbox EXCEPT ![t] = Tail(@)]
            /\ UNCHANGED <<pc, closed, posted>>
            BY DEF Send, cmdVars
      <2>4. ASSUME NEW u \in Turn, "done" \in Items(outbox'[u]) \cup Items(events'[u])
            PROVE  pc[u] \in Late
            <3>1. CASE u = t
                  BY <2>1, <2>2, <2>3, <2>4, <3>1
            <3>2. CASE u # t
                  BY <2>3, <2>4, <3>2
            <3> QED BY <3>1, <3>2
      <2> QED BY <2>3, <2>4
<1>12. CASE \E t \in Turn : Wire(t) \/ Unwire(t) \/ Release(t) \/ Close(t)
      <2> PICK t \in Turn : Wire(t) \/ Unwire(t) \/ Release(t) \/ Close(t)
            BY <1>12
      <2>1. \E l \in {"loop", "release", "close", "ended"} :
               /\ pc' = [pc EXCEPT ![t] = l]
               /\ l = "loop" => pc[t] = "wire" /\ outbox[t] = <<>>
               /\ closed' = closed \/ (l = "ended" /\ closed' = closed \cup {t})
            BY DEF Wire, Unwire, Release, Close, chanVars
      <2>2. pc[t] \in {"wire", "unwire", "release", "close"} /\ UNCHANGED <<outbox, events, posted>>
            BY DEF Wire, Unwire, Release, Close, chanVars, cmdVars
      <2>3. outbox' = [outbox EXCEPT ![t] = outbox[t]]
            BY <2>2
      <2>4. "done" \notin Items(<<>>)
            BY DEF Items
      <2>5. PICK l \in {"loop", "release", "close", "ended"} :
               /\ pc' = [pc EXCEPT ![t] = l]
               /\ l = "loop" => pc[t] = "wire" /\ outbox[t] = <<>>
               /\ closed' = closed \/ (l = "ended" /\ closed' = closed \cup {t})
            BY <2>1
      <2>6. "done" \in Items(outbox[t]) => l \in Late
            BY <1>0, <2>4, <2>5
      <2>7. l \in PC /\ (pc[t] \in Late => l \in Late) /\ pc[t] # "ended"
            BY <1>0, <2>2, <2>5 DEF PC
      <2> QED BY <1>9, <2>2, <2>3, <2>5, <2>6, <2>7
<1>13. CASE \E t \in Turn : Receive(t)
      <2> PICK t \in Turn : Receive(t)
            BY <1>13
      <2>1. PICK out \in Outputs : Forwards(Head(stream[t]), out) /\ outbox' = [outbox EXCEPT ![t] = out]
            BY DEF Receive
      <2>2. pc[t] = "loop" /\ UNCHANGED <<events, posted, closed>>
            BY DEF Receive, cmdVars, chanVars
      <2>3. CASE Head(stream[t]) = "error"
            BY <1>0, <1>9, <2>1, <2>2, <2>3 DEF Receive, PC
      <2>4. CASE Head(stream[t]) # "error"
            <3>1. "done" \notin Items(out)
                  BY <2>1, <2>4, OutputsDone
            <3>2. pc' = [pc EXCEPT ![t] = "loop"]
                  BY <2>2, <2>4 DEF Receive
            <3> QED BY <1>0, <1>9, <2>1, <2>2, <3>1, <3>2 DEF PC
      <2> QED BY <2>3, <2>4
<1>14. CASE \E t \in Turn : SeeCancel(t)
      <2> PICK t \in Turn : SeeCancel(t)
            BY <1>14
      <2>1. /\ pc' = [pc EXCEPT ![t] = "unwire"] /\ pc[t] # "ended" /\ "unwire" \in PC
            /\ outbox' = [outbox EXCEPT ![t] = <<"state", "error", "done">>]
            /\ UNCHANGED <<events, posted, closed>>
            BY DEF SeeCancel, PC, cmdVars, chanVars
      <2> QED BY <1>0, <1>9, <2>1
<1>15. CASE \E t \in Turn : Complete(t)
      <2> PICK t \in Turn : Complete(t)
            BY <1>15
      <2>1. /\ pc' = [pc EXCEPT ![t] = "unwire"] /\ pc[t] # "ended" /\ "unwire" \in PC
            /\ outbox' = [outbox EXCEPT ![t] = <<"state", "done">>]
            /\ UNCHANGED <<events, posted, closed>>
            BY DEF Complete, PC, cmdVars, chanVars
      <2> QED BY <1>0, <1>9, <2>1
<1> QED
    BY <1>1, <1>3, <1>4, <1>5, <1>6, <1>7, <1>8, <1>10, <1>11, <1>12, <1>13, <1>14, <1>15,
       NextCases
    DEF vars, cmdVars, agentVars, chanVars, Type, EnterQueues, Unqueue, ClearQueue,
        Interrupt, StreamEmit, StreamEnd, StreamClose, Drain

LEMMA ReachStep == ASSUME IInv, [Next]_vars PROVE NoTurnOutOfReach'
<1> DEFINE Early == {"start", "wire", "loop"}
           Reached(t) == t \in cancelled \/ (eventCh = t /\ cancelFn = t)
<1> USE DEF IInv, TypeOK, UIType, AgentType
<1>0. /\ NoTurnOutOfReach <=> \A t \in Turn : pc[t] \in Early => Reached(t)
      /\ NoTurnOutOfReach' <=> \A t \in Turn : pc'[t] \in Early => Reached(t)'
      <2>1. UIInv'
            BY UIInvStep
      <2>2. \A t \in Turn : t # NoTurn
            BY DEF Turn, NoTurn
      <2>3. \A t \in Turn : eventCh = t => streaming
            BY <2>2 DEF UIInv
      <2>4. \A t \in Turn : eventCh' = t => streaming'
            BY <2>1, <2>2 DEF UIInv
      <2>5. NoTurnOutOfReach <=> \A t \in Turn : pc[t] \in Early => Reached(t)
            BY <2>3 DEF NoTurnOutOfReach
      <2>6. NoTurnOutOfReach' <=> \A t \in Turn : pc'[t] \in Early => Reached(t)'
            BY <2>4 DEF NoTurnOutOfReach
      <2> QED BY <2>5, <2>6
<1> HIDE DEF Early
<1>E. "start" \in Early /\ Early \cap Late = {} /\ \A l \in Early : l \in {"start", "wire", "loop"}
      BY DEF Early, Late
<1> USE <1>0
<1>1. ASSUME UNCHANGED <<eventCh, cancelFn>>, cancelled \subseteq cancelled',
             \A t \in Turn : pc'[t] \in Early => pc[t] \in Early
      PROVE  NoTurnOutOfReach'
      BY <1>1
<1>2. CASE EnterSends
      <2>1. StartTurn(<<input>>, cancelFn)
            BY <1>2 DEF EnterSends
      <2>2. cancelled \subseteq cancelled' /\ (cancelFn # NoTurn => cancelFn \in cancelled')
            BY <2>1 DEF StartTurn
      <2>3. ASSUME NEW t \in Turn, pc'[t] \in Early PROVE Reached(t)'
            <3>1. CASE t = turns + 1
                  BY <2>1, <3>1, StartTurnFresh
            <3>2. CASE t # turns + 1
                  <4>1. pc'[t] = pc[t]
                        BY <2>1, <3>2, StartTurnFresh
                  <4>2. t # NoTurn
                        BY DEF Turn, NoTurn
                  <4> QED BY <2>2, <2>3, <4>1, <4>2
            <3> QED BY <3>1, <3>2
      <2> QED BY <2>3
<1>3. CASE \E clearQueue \in BOOLEAN : Interrupt(clearQueue)
      <2>1. /\ cancelled' = cancelled \cup ({cancelFn} \ {NoTurn})
            /\ pc' = pc
            BY <1>3 DEF Interrupt, agentVars
      <2>2. \A t \in Turn : t # NoTurn
            BY DEF Turn, NoTurn
      <2> QED BY <2>1, <2>2
<1>4. CASE \E m \in posted : HandleDone(m)
      <2> PICK m \in posted : HandleDone(m)
            BY <1>4
      <2>1. m.ch \in Turn /\ pc[m.ch] \in Late /\ m.ch = eventCh
            BY DEF HandleDone, LateInv, CmdType, Message
      <2>2. \A t \in Turn : pc[t] \in Early => t \in cancelled
            BY <1>E, <2>1
      <2>3. CASE \E prompts : StartTurn(prompts, NoTurn)
            <3> PICK prompts : StartTurn(prompts, NoTurn)
                BY <2>3
            <3>1. cancelled' = cancelled
                  BY DEF StartTurn
            <3>2. ASSUME NEW t \in Turn, pc'[t] \in Early PROVE Reached(t)'
                  <4>1. CASE t = turns + 1
                        BY <4>1, StartTurnFresh
                  <4>2. CASE t # turns + 1
                        BY <2>2, <3>1, <3>2, <4>2, StartTurnFresh
                  <4> QED BY <4>1, <4>2
            <3> QED BY <3>2
      <2>4. CASE UNCHANGED <<pc, cancelled>>
            BY <2>2, <2>4
      <2> QED BY <2>3, <2>4, HandleDoneCases
<1>5. CASE UNCHANGED <<eventCh, cancelFn, cancelled, pc>>
      BY <1>5
<1>6. CASE \E t \in Turn : Begin(t)
      <2> PICK t \in Turn : Begin(t)
            BY <1>6
      <2>1. pc[t] = "start" /\ \E l : pc' = [pc EXCEPT ![t] = l]
            BY DEF Begin
      <2>2. UNCHANGED <<eventCh, cancelFn, cancelled>>
            BY DEF Begin, uiVars
      <2> QED BY <1>E, <1>1, <2>1, <2>2
<1>7. CASE \E t \in Turn : Wire(t)
      <2> PICK t \in Turn : Wire(t)
            BY <1>7
      <2>1. pc[t] = "wire" /\ pc' = [pc EXCEPT ![t] = "loop"] /\ "wire" \in Early
            BY DEF Wire, Early
      <2>2. UNCHANGED <<eventCh, cancelFn, cancelled>>
            BY DEF Wire, uiVars
      <2> QED BY <1>1, <2>1, <2>2
<1>8. CASE \E t \in Turn : Receive(t) \/ SeeCancel(t) \/ Complete(t)
      <2> PICK t \in Turn : Receive(t) \/ SeeCancel(t) \/ Complete(t)
            BY <1>8
      <2>1. pc[t] = "loop" /\ (pc' = pc \/ pc' = [pc EXCEPT ![t] = "unwire"]) /\ "loop" \in Early
            BY DEF Receive, SeeCancel, Complete, Early
      <2>2. UNCHANGED <<eventCh, cancelFn, cancelled>>
            BY DEF Receive, SeeCancel, Complete, uiVars
      <2> QED BY <1>1, <2>1, <2>2
<1>9. CASE \E t \in Turn : Unwire(t) \/ Release(t) \/ Close(t)
      <2> PICK t \in Turn : Unwire(t) \/ Release(t) \/ Close(t)
            BY <1>9
      <2>1. \E l \in Late : pc' = [pc EXCEPT ![t] = l]
            BY DEF Unwire, Release, Close, Late
      <2>2. UNCHANGED <<eventCh, cancelFn, cancelled>>
            BY DEF Unwire, Release, Close, uiVars
      <2> QED BY <1>E, <1>1, <2>1, <2>2
<1> QED
    BY <1>2, <1>3, <1>4, <1>5, <1>6, <1>7, <1>8, <1>9, NextCases
    DEF vars, uiVars, agentVars, Type, EnterQueues, Unqueue, ClearQueue, HandleEvent, DisplayEvent, DropEvent,
        IgnoreDone, WaitEvent, WaitClosed, Send, StreamEmit, StreamEnd, StreamClose, Drain

LEMMA OnceStep == ASSUME IInv, [Next]_vars PROVE OnceInv'
<1> USE DEF IInv, TypeOK, OnceInv, GhostType
<1>1. CASE UNCHANGED <<eventCh, doneCount>>
      BY <1>1
<1>2. CASE EnterSends
      BY <1>2, StartTurnFresh DEF EnterSends
<1>3. CASE \E clearQueue \in BOOLEAN : Interrupt(clearQueue)
      BY <1>3 DEF Interrupt, ghostVars, Turn, NoTurn
<1>4. CASE \E m \in posted : HandleDone(m)
      <2> PICK m \in posted : HandleDone(m)
            BY <1>4
      <2>1. m.ch \in Turn /\ m.ch = eventCh /\ doneCount[m.ch] = 0
            /\ doneCount' = [doneCount EXCEPT ![m.ch] = @ + 1]
            BY DEF HandleDone, CmdType, Message
      <2>2. CASE \E prompts : StartTurn(prompts, NoTurn)
            <3>1. eventCh' = turns + 1 /\ doneCount[turns + 1] = 0 /\ turns + 1 # m.ch
                  BY <2>2, StartTurnFresh
            <3> QED BY <2>1, <3>1
      <2>3. CASE eventCh' = NoTurn
            BY <2>1, <2>3 DEF Turn, NoTurn
      <2> QED BY <2>2, <2>3, HandleDoneCases
<1> QED
    BY <1>1, <1>2, <1>3, <1>4, NextCases
    DEF vars, uiVars, ghostVars, Type, EnterQueues, Unqueue, ClearQueue, HandleEvent, DisplayEvent, DropEvent,
        IgnoreDone, WaitEvent, WaitClosed, Begin, Send, Wire, Receive, SeeCancel, Complete,
        Unwire, Release, Close, StreamEmit, StreamEnd, StreamClose, Drain

LEMMA OrderStep == ASSUME IInv, [Next]_vars PROVE OrderInv'
<1> USE DEF IInv, TypeOK, OrderInv, UIType, CmdType, ChanType, GhostType
<1>1. CASE UNCHANGED <<eventCh, waiters, taken, seen, posted>>
      BY <1>1
<1>2. ASSUME NEW prompts, NEW old, StartTurn(prompts, old), posted' \subseteq posted,
             UNCHANGED <<taken, seen>>
      PROVE  OrderInv'
      <2>1. eventCh' = turns + 1 /\ waiters'[turns + 1] = 1 /\ taken[turns + 1] = seen[turns + 1]
            BY <1>2, StartTurnFresh
      <2>2. \A m \in posted' : m.ch # eventCh'
            BY <1>2, StartTurnFresh
      <2> QED BY <1>2, <2>1, <2>2
<1>3. ASSUME eventCh' = NoTurn, posted' \subseteq posted
      PROVE  OrderInv'
      <2>1. \A m \in posted' : m.ch # eventCh'
            BY <1>3 DEF Message, Turn, NoTurn
      <2>2. \A t \in Turn : eventCh' # t
            BY <1>3 DEF Turn, NoTurn
      <2> QED BY <2>1, <2>2
<1>4. CASE EnterSends
      BY <1>2, <1>4 DEF EnterSends, chanVars
<1>5. CASE \E clearQueue \in BOOLEAN : Interrupt(clearQueue)
      BY <1>3, <1>5 DEF Interrupt, cmdVars
<1>6. CASE \E m \in posted : HandleDone(m)
      BY <1>2, <1>3, <1>6, HandleDoneCases DEF HandleDone, chanVars
<1>7. CASE \E m \in posted : HandleEvent(m)
      <2> PICK m \in posted : HandleEvent(m)
            BY <1>7
      <2>0. m.type = "event" /\ m.ch \in Turn /\ UNCHANGED <<eventCh, taken>>
            BY DEF HandleEvent, DisplayEvent, DropEvent, Message, uiVars, chanVars
      <2>1. CASE m.ch # eventCh
            <3>1. posted' \subseteq posted /\ UNCHANGED <<waiters, seen>>
                  BY <2>1 DEF HandleEvent, DisplayEvent, DropEvent
            <3> QED BY <2>0, <3>1
      <2>2. CASE m.ch = eventCh
            <3>1. waiters[m.ch] = 0 /\ m.n = taken[m.ch]
                  BY <2>0, <2>2
            <3>2. waiters' = [waiters EXCEPT ![m.ch] = @ + 1] /\ seen' = [seen EXCEPT ![m.ch] = m.n]
                  BY <2>2 DEF HandleEvent, DisplayEvent, DropEvent
            <3>3. \A k \in posted' : k.type = "event" => k \in posted \ {m}
                  BY <2>2 DEF HandleEvent, DisplayEvent, DropEvent, DoneMsg
            <3>4. \A k \in posted' : k.type = "event" => k.ch # eventCh
                  BY <2>0, <2>2, <3>3
            <3>5. waiters'[m.ch] = 1 /\ seen'[m.ch] = taken[m.ch]
                  BY <2>0, <3>1, <3>2
            <3> QED BY <2>0, <2>2, <3>4, <3>5
      <2> QED BY <2>1, <2>2
<1>8. CASE \E m \in posted : IgnoreDone(m)
      BY <1>8 DEF IgnoreDone, uiVars, chanVars, ghostVars
<1>9. CASE \E t \in Turn : WaitEvent(t)
      <2> PICK t \in Turn : WaitEvent(t)
            BY <1>9
      <2> DEFINE e == EventMsg(t, Head(events[t]), taken'[t])
      <2>0. /\ e.type = "event" /\ e.ch = t /\ e.n = taken'[t]
            /\ taken'[t] = taken[t] + 1 /\ waiters'[t] = waiters[t] - 1 /\ waiters[t] > 0
            /\ posted' = posted \cup {e} /\ UNCHANGED <<eventCh, seen>>
            /\ \A u \in Turn : u # t => waiters'[u] = waiters[u] /\ taken'[u] = taken[u]
            BY DEF WaitEvent, EventMsg, uiVars, ghostVars
      <2> HIDE DEF e
      <2>1. CASE t # eventCh
            <3>1. \A k \in posted' : k.ch = eventCh => k \in posted
                  BY <2>0, <2>1
            <3>2. \A k \in posted : k.ch \in Turn
                  BY DEF Message
            <3> QED BY <2>0, <2>1, <3>1, <3>2
      <2>2. CASE t = eventCh
            <3>1. waiters[t] = 1 /\ seen[t] = taken[t]
                  BY <2>0, <2>2
            <3>2. \A k \in posted : k.type = "event" => k.ch # eventCh
                  BY <2>2, <3>1
            <3>3. \A k \in posted' : k.type = "event" /\ k.ch = eventCh => k = e
                  BY <2>0, <3>2
            <3>4. waiters'[t] = 0 /\ e.n = taken'[t] /\ e.n = seen[t] + 1
                  BY <2>0, <3>1
            <3> QED BY <2>0, <2>2, <3>3, <3>4
      <2> QED BY <2>1, <2>2
<1>10. CASE \E t \in Turn : WaitClosed(t)
      <2> PICK t \in Turn : WaitClosed(t)
            BY <1>10
      <2>1. /\ \A k \in posted' : k.type = "event" => k \in posted
            /\ UNCHANGED <<eventCh, taken, seen>>
            /\ waiters'[t] = waiters[t] - 1 /\ waiters[t] > 0
            /\ \A u \in Turn : u # t => waiters'[u] = waiters[u]
            BY DEF WaitClosed, DoneMsg, uiVars, chanVars, ghostVars
      <2>2. \A k \in posted : k.type = "event" /\ k.ch = eventCh => k.ch # t
            BY <2>1
      <2>3. \A k \in posted : k.ch \in Turn
            BY DEF Message
      <2>4. eventCh = t => waiters'[t] = 0
            BY <2>1
      <2> QED BY <2>1, <2>2, <2>3, <2>4
<1> QED
    BY <1>1, <1>4, <1>5, <1>6, <1>7, <1>8, <1>9, <1>10, NextCases
    DEF vars, uiVars, cmdVars, chanVars, ghostVars, Type, EnterQueues, Unqueue, ClearQueue,
        Begin, Send, Wire, Receive, SeeCancel, Complete, Unwire, Release, Close, StreamEmit,
        StreamEnd, StreamClose, Drain

LEMMA ListenerStep == ASSUME IInv, [Next]_vars PROVE ListenerAlive'
<1> USE DEF IInv, TypeOK, ListenerAlive, CmdType
<1>1. CASE UNCHANGED <<eventCh, waiters, posted>>
      BY <1>1
<1>2. ASSUME NEW prompts, NEW old, StartTurn(prompts, old)
      PROVE  ListenerAlive'
      BY <1>2, StartTurnFresh
<1>3. ASSUME eventCh' = NoTurn
      PROVE  ListenerAlive'
      BY <1>3 DEF Turn, NoTurn
<1>4. CASE EnterSends
      BY <1>2, <1>4 DEF EnterSends
<1>5. CASE \E clearQueue \in BOOLEAN : Interrupt(clearQueue)
      BY <1>3, <1>5 DEF Interrupt
<1>6. CASE \E m \in posted : HandleDone(m)
      BY <1>2, <1>3, <1>6, HandleDoneCases
<1>7. CASE \E m \in posted : HandleEvent(m)
      <2> PICK m \in posted : HandleEvent(m)
            BY <1>7
      <2>0. m.ch \in Turn /\ eventCh' = eventCh
            BY DEF HandleEvent, DisplayEvent, DropEvent, Message, uiVars
      <2>1. CASE m.ch # eventCh
            <3>1. posted' = posted \ {m} /\ waiters' = waiters
                  BY <2>1 DEF HandleEvent, DisplayEvent, DropEvent
            <3> QED BY <2>0, <2>1, <3>1
      <2>2. CASE m.ch = eventCh
            <3>1. waiters' = [waiters EXCEPT ![m.ch] = @ + 1]
                  BY <2>2 DEF HandleEvent, DisplayEvent, DropEvent
            <3> QED BY <2>0, <2>2, <3>1
      <2> QED BY <2>1, <2>2
<1>8. CASE \E m \in posted : IgnoreDone(m)
      BY <1>8 DEF IgnoreDone, uiVars
<1>9. CASE \E t \in Turn : WaitEvent(t)
      <2> PICK t \in Turn : WaitEvent(t)
            BY <1>9
      <2>1. /\ EventMsg(t, Head(events[t]), taken'[t]) \in posted'
            /\ posted \subseteq posted' /\ eventCh' = eventCh
            /\ waiters' = [waiters EXCEPT ![t] = @ - 1]
            BY DEF WaitEvent, uiVars
      <2>2. EventMsg(t, Head(events[t]), taken'[t]).ch = t
            BY DEF EventMsg
      <2> QED BY <2>1, <2>2
<1>10. CASE \E t \in Turn : WaitClosed(t)
      <2> PICK t \in Turn : WaitClosed(t)
            BY <1>10
      <2>1. /\ DoneMsg(t, "closed") \in posted'
            /\ posted \subseteq posted' /\ eventCh' = eventCh
            /\ waiters' = [waiters EXCEPT ![t] = @ - 1]
            BY DEF WaitClosed, uiVars
      <2>2. DoneMsg(t, "closed").ch = t
            BY DEF DoneMsg
      <2> QED BY <2>1, <2>2
<1> QED
    BY <1>1, <1>4, <1>5, <1>6, <1>7, <1>8, <1>9, <1>10, NextCases
    DEF vars, uiVars, cmdVars, Type, EnterQueues, Unqueue, ClearQueue, Begin, Send, Wire,
        Receive, SeeCancel, Complete, Unwire, Release, Close, StreamEmit, StreamEnd,
        StreamClose, Drain

LEMMA Invariance == Spec => []IInv
<1>1. IInv /\ [Next]_vars => IInv'
      <2> SUFFICES ASSUME IInv, [Next]_vars PROVE IInv'
          OBVIOUS
      <2>1. TypeOK'
            BY StepType DEF IInv
      <2> QED
          BY <2>1, MutexStep, UIInvStep, FreshStep, LateStep, DrainStep, ReachStep,
             OnceStep, OrderStep, ListenerStep DEF IInv
<1> QED BY InitInv, <1>1, PTL DEF Spec

-----------------------------------------------------------------------------
(* The theorems *)

\* One sendMessage at a time holds turnActive, however turns are cancelled.
THEOREM MutualExclusion == Spec => []OneTurnInBody
<1>1. IInv => OneTurnInBody
      BY DEF IInv
<1> QED BY <1>1, Invariance, PTL

\* The prompt drain is wired for as long as a turn streams.
THEOREM DrainStaysWired == Spec => []DrainWiredWhileStreaming
<1>1. IInv => DrainWiredWhileStreaming
      BY DEF IInv, DrainInv, DrainWiredWhileStreaming
<1> QED BY <1>1, Invariance, PTL

\* A turn that still works is one the user can interrupt, or has interrupted.
THEOREM EveryTurnInReach == Spec => []NoTurnOutOfReach
<1>1. IInv => NoTurnOutOfReach
      BY DEF IInv
<1> QED BY <1>1, Invariance, PTL

\* The end of a turn is acted on at most once, although it is announced twice.
THEOREM DoneOnce == Spec => []DoneHandledOnce
<1>1. IInv => DoneHandledOnce
      BY DEF IInv, OnceInv, DoneHandledOnce
<1> QED BY <1>1, Invariance, PTL

\* No lost wake-up: the UI always has something coming from the turn it shows.
THEOREM ListenerStaysAlive == Spec => []ListenerAlive
<1>1. IInv => ListenerAlive
      BY DEF IInv
<1> QED BY <1>1, Invariance, PTL

\* The events of a turn reach the screen in order, each once.
THEOREM InOrder == Spec => EventsInOrder
<1> DEFINE Step == \A t \in Turn : seen'[t] # seen[t] => seen'[t] = seen[t] + 1
<1>1. IInv /\ [Next]_vars => [Step]_vars
      <2> SUFFICES ASSUME IInv, Next PROVE Step
          OBVIOUS
      <2>1. CASE UNCHANGED seen
            BY <2>1
      <2>2. CASE \E m \in posted : HandleEvent(m)
            <3> PICK m \in posted : HandleEvent(m)
                BY <2>2
            <3>1. CASE m.ch # eventCh
                  BY <3>1 DEF HandleEvent, DisplayEvent, DropEvent
            <3>2. CASE m.ch = eventCh
                  <4>1. m.n = seen[m.ch] + 1 /\ seen' = [seen EXCEPT ![m.ch] = m.n]
                        BY <3>2 DEF HandleEvent, DisplayEvent, DropEvent, IInv, OrderInv
                  <4> QED BY <4>1 DEF IInv, TypeOK, GhostType
            <3> QED BY <3>1, <3>2
      <2> QED
          BY <2>1, <2>2, NextCases
          DEF ghostVars, Type, EnterQueues, EnterSends, Unqueue, ClearQueue, Interrupt,
              IgnoreDone, HandleDone, WaitEvent, WaitClosed, Begin, Send, Wire, Receive,
              SeeCancel, Complete, Unwire, Release, Close, StreamEmit, StreamEnd,
              StreamClose, Drain
<1> QED BY <1>1, Invariance, PTL DEF Spec, EventsInOrder

-----------------------------------------------------------------------------
(* The refinement of TurnProtocol *)

PhaseMap == [t \in Turn |-> Phase(t)]

LEMMA PhaseValue ==
    ASSUME NEW t \in Turn
    PROVE  /\ t = eventCh => PhaseMap[t] = "live"
           /\ t # eventCh /\ doneCount[t] > 0 => PhaseMap[t] = "finished"
           /\ t # eventCh /\ ~(doneCount[t] > 0) /\ t <= turns => PhaseMap[t] = "abandoned"
           /\ t # eventCh /\ ~(doneCount[t] > 0) /\ ~(t <= turns) => PhaseMap[t] = "fresh"
           /\ t = eventCh' => PhaseMap'[t] = "live"
           /\ t # eventCh' /\ doneCount'[t] > 0 => PhaseMap'[t] = "finished"
           /\ t # eventCh' /\ ~(doneCount'[t] > 0) /\ t <= turns' => PhaseMap'[t] = "abandoned"
           /\ t # eventCh' /\ ~(doneCount'[t] > 0) /\ ~(t <= turns') => PhaseMap'[t] = "fresh"
BY DEF PhaseMap, Phase

\* What makes the phase of a turn stay.
LEMMA PhaseKept ==
    ASSUME NEW t \in Turn, t # eventCh, t # eventCh', doneCount'[t] = doneCount[t],
           t <= turns <=> t <= turns'
    PROVE  PhaseMap'[t] = PhaseMap[t]
BY PhaseValue

\* Where neither the current turn changes nor a count, no phase does.
LEMMA PhaseStutter ==
    ASSUME UNCHANGED <<eventCh, doneCount, turns>>
    PROVE  PhaseMap' = PhaseMap
BY DEF PhaseMap, Phase

LEMMA RefinedStep == ASSUME IInv, IInv', [Next]_vars PROVE [Protocol!Next]_(Protocol!vars)
<1> USE DEF IInv, TypeOK, UIType, GhostType, Protocol!NoTurn, Protocol!Turn, NoTurn
<1>0. Protocol!vars = <<eventCh, PhaseMap, seen>> /\ Protocol!vars' = <<eventCh', PhaseMap', seen'>>
      BY DEF Protocol!vars, PhaseMap
<1>1. ASSUME UNCHANGED <<eventCh, doneCount, turns, seen>>
      PROVE  UNCHANGED Protocol!vars
      BY <1>0, <1>1, PhaseStutter
<1>a. \A t \in Turn : t \in Nat \ {0}
      BY DEF Turn
<1>2. ASSUME NEW prompts, NEW old, StartTurn(prompts, old), eventCh = NoTurn,
             UNCHANGED <<doneCount, seen>>
      PROVE  Protocol!Next
      <2> DEFINE n == turns + 1
      <2>1. n \in Turn /\ eventCh' = n /\ turns' = n /\ doneCount[n] = 0 /\ ~(n <= turns)
            BY <1>2, StartTurnFresh
      <2>2. PhaseMap[n] = "fresh" /\ PhaseMap'[n] = "live"
            <3>1. n # eventCh /\ ~(doneCount[n] > 0)
                  BY <1>2, <1>a, <2>1
            <3> QED BY <2>1, <3>1, PhaseValue
      <2>3. ASSUME NEW u \in Turn, u # n PROVE PhaseMap'[u] = PhaseMap[u]
            <3>1. u <= turns <=> u <= turns'
                  BY <1>a, <2>1, <2>3
            <3>2. u # eventCh /\ u # eventCh' /\ doneCount'[u] = doneCount[u]
                  BY <1>2, <1>a, <2>1, <2>3
            <3> QED BY <3>1, <3>2, PhaseKept
      <2>4. PhaseMap' = [PhaseMap EXCEPT ![n] = "live"]
            BY <2>1, <2>2, <2>3 DEF PhaseMap
      <2>5. Protocol!Begin(n)
            BY <1>2, <2>1, <2>2, <2>4 DEF Protocol!Begin, PhaseMap
      <2> QED BY <2>1, <2>5 DEF Protocol!Next, Turn
<1>3. CASE EnterSends
      <2>1. eventCh = NoTurn
            BY <1>3 DEF EnterSends, UIInv
      <2> QED BY <1>2, <1>3, <2>1 DEF EnterSends
<1>4. ASSUME NEW how \in {"finished", "abandoned"}, eventCh \in Turn, eventCh' = NoTurn,
             UNCHANGED <<turns, seen>>, PhaseMap'[eventCh] = how,
             \A u \in Turn : u # eventCh => doneCount'[u] = doneCount[u]
      PROVE  Protocol!Next
      <2>2. ASSUME NEW u \in Turn, u # eventCh PROVE PhaseMap'[u] = PhaseMap[u]
            BY <1>4, <1>a, <2>2, PhaseKept
      <2>3. PhaseMap' = [PhaseMap EXCEPT ![eventCh] = how]
            BY <1>4, <2>2 DEF PhaseMap
      <2>4. Protocol!Leave(how)
            BY <1>4, <1>a, <2>3 DEF Protocol!Leave, PhaseMap
      <2> QED BY <2>4 DEF Protocol!Next
<1>5. CASE \E clearQueue \in BOOLEAN : Interrupt(clearQueue)
      <2>1. /\ streaming /\ eventCh' = NoTurn
            /\ UNCHANGED <<turns, seen, doneCount>>
            BY <1>5 DEF Interrupt
      <2>2. eventCh \in Turn /\ doneCount[eventCh] = 0 /\ eventCh <= turns
            BY <2>1 DEF UIInv, OnceInv
      <2>3. PhaseMap'[eventCh] = "abandoned"
            BY <1>a, <2>1, <2>2, PhaseValue
      <2> QED BY <1>4, <2>1, <2>2, <2>3
<1>6. CASE \E m \in posted : HandleDone(m)
      <2> PICK m \in posted : HandleDone(m)
            BY <1>6
      <2>1. /\ m.ch = eventCh /\ eventCh \in Turn /\ seen' = seen
            /\ doneCount' = [doneCount EXCEPT ![eventCh] = @ + 1] /\ doneCount[eventCh] = 0
            BY DEF HandleDone, CmdType, Message, OnceInv
      <2>2. CASE \E prompts : StartTurn(prompts, NoTurn)
            <3> DEFINE n == turns + 1
            <3>1. /\ n \in Turn /\ eventCh' = n /\ turns' = n /\ doneCount[n] = 0
                  /\ ~(n <= turns) /\ eventCh <= turns /\ n # eventCh
                  BY <2>2, StartTurnFresh DEF UIInv
            <3>2. PhaseMap[n] = "fresh" /\ PhaseMap'[n] = "live"
                  <4>1. ~(doneCount[n] > 0)
                        BY <3>1
                  <4> QED BY <3>1, <4>1, PhaseValue
            <3>3. PhaseMap'[eventCh] = "finished"
                  BY <2>1, <3>1 DEF PhaseMap, Phase
            <3>4. ASSUME NEW u \in Turn, u # n, u # eventCh PROVE PhaseMap'[u] = PhaseMap[u]
                  <4>1. u <= turns <=> u <= turns'
                        BY <1>a, <3>1, <3>4
                  <4>2. u # eventCh' /\ doneCount'[u] = doneCount[u]
                        BY <2>1, <3>1, <3>4
                  <4> QED BY <3>4, <4>1, <4>2, PhaseKept
            <3>5. PhaseMap' = [PhaseMap EXCEPT ![eventCh] = "finished", ![n] = "live"]
                  BY <2>1, <3>1, <3>2, <3>3, <3>4 DEF PhaseMap
            <3>6. Protocol!FinishAndBegin(n)
                  BY <1>a, <2>1, <3>1, <3>2, <3>5 DEF Protocol!FinishAndBegin, PhaseMap
            <3> QED BY <3>1, <3>6 DEF Protocol!Next, Turn
      <2>3. CASE eventCh' = NoTurn /\ turns' = turns
            <3>1. PhaseMap'[eventCh] = "finished"
                  <4>1. eventCh # eventCh' /\ doneCount'[eventCh] > 0
                        BY <1>a, <2>1, <2>3
                  <4> QED BY <2>1, <4>1, PhaseValue
            <3>2. \A u \in Turn : u # eventCh => doneCount'[u] = doneCount[u]
                  BY <2>1
            <3> QED BY <1>4, <2>1, <2>3, <3>1, <3>2
      <2> QED BY <2>2, <2>3, HandleDoneCases
<1>7. CASE \E m \in posted : HandleEvent(m)
      <2> PICK m \in posted : HandleEvent(m)
            BY <1>7
      <2>1. UNCHANGED <<eventCh, doneCount, turns>> /\ m.ch \in Turn
            BY DEF HandleEvent, DisplayEvent, DropEvent, uiVars, CmdType, Message
      <2>2. CASE m.ch # eventCh
            BY <1>1, <2>1, <2>2 DEF HandleEvent, DisplayEvent, DropEvent
      <2>3. CASE m.ch = eventCh
            <3>1. seen' = [seen EXCEPT ![eventCh] = @ + 1]
                  BY <2>3 DEF HandleEvent, DisplayEvent, DropEvent, OrderInv
            <3>2. PhaseMap' = PhaseMap
                  BY <2>1, PhaseStutter
            <3>3. Protocol!Show
                  BY <1>a, <2>1, <2>3, <3>1, <3>2 DEF Protocol!Show, PhaseMap
            <3> QED BY <3>3 DEF Protocol!Next
      <2> QED BY <2>2, <2>3
<1> QED
    BY <1>1, <1>3, <1>5, <1>6, <1>7, NextCases
    DEF vars, uiVars, ghostVars, Type, EnterQueues, Unqueue, ClearQueue, IgnoreDone,
        WaitEvent, WaitClosed, Begin, Send, Wire, Receive, SeeCancel, Complete, Unwire,
        Release, Close, StreamEmit, StreamEnd, StreamClose, Drain

\* The machinery of goroutines, channels and commands implements TurnProtocol:
\* turns live one at a time, once, and show nothing outside their life.
THEOREM Refinement == Spec => ImplementsProtocol
<1>1. Init => Protocol!Init
      <2> SUFFICES ASSUME Init PROVE Protocol!Init
          OBVIOUS
      <2>1. \A t \in Turn : Phase(t) = "fresh"
            BY DEF Init, Phase, Turn, NoTurn
      <2> QED BY <2>1 DEF Init, Protocol!Init, Protocol!NoTurn, Protocol!Turn, Turn, NoTurn
<1> QED BY <1>1, Invariance, RefinedStep, PTL DEF Spec, ImplementsProtocol, Protocol!Spec

-----------------------------------------------------------------------------
(* The prompts.  What waits in the textarea and the queue is in the order of *)
(* typing, and nothing that was sent waits.                                  *)

Waiting == Items(queued) \cup ({input} \ {NoPrompt})

InOrderOfTyping(s) == \A i, j \in DOMAIN s : i < j => s[i] < s[j]

PromptInv ==
    /\ Waiting \subseteq 1 .. typed
    /\ InOrderOfTyping(queued)
    /\ input # NoPrompt => \A p \in Items(queued) : p < input
    /\ \A t \in Turn : Items(carried[t]) \subseteq 1 .. typed /\ Items(carried[t]) \cap Waiting = {}
    /\ \A t \in Turn : t > turns => Items(carried[t]) = {}
    /\ PromptsKept

\* A new turn carries prompts that waited, in their order, and they wait no longer.
LEMMA SentOnce ==
    ASSUME TypeOK, PromptInv, NEW prompts \in Seq(Prompt), NEW old, StartTurn(prompts, old),
           InOrderOfTyping(prompts), Items(prompts) \cap Waiting' = {},
           Waiting = Waiting' \cup Items(prompts), InOrderOfTyping(queued'),
           input' # NoPrompt => \A p \in Items(queued') : p < input',
           UNCHANGED <<typed, dropped>>
    PROVE  PromptInv'
<1> DEFINE n == turns + 1
<1>1. /\ n \in Turn /\ turns' = n /\ ~(n <= turns) /\ turns \in Nat
      /\ carried' = [carried EXCEPT ![n] = prompts]
      /\ \A t \in Turn : t > turns' => t # n /\ t > turns
  <2>1. n \in Turn /\ turns' = n /\ turns \in Nat /\ carried' = [carried EXCEPT ![n] = prompts]
        BY TurnAssumption DEF StartTurn, TypeOK, UIType, Turn
  <2> QED BY <2>1 DEF Turn
<1>2. /\ carried'[n] = prompts /\ Items(carried[n]) = {}
      /\ \A t \in Turn : t # n => carried'[t] = carried[t]
      BY <1>1 DEF TypeOK, GhostType, PromptInv, Turn
<1> HIDE DEF n
<1>3. \A t \in Turn : Items(carried'[t]) \subseteq 1 .. typed /\ Items(carried'[t]) \cap Waiting' = {}
      BY <1>1, <1>2 DEF PromptInv
<1>4. \A t \in Turn : t > turns' => Items(carried'[t]) = {}
      BY <1>1, <1>2 DEF PromptInv
<1>5. PromptAccounted'
  <2> SUFFICES ASSUME NEW p \in 1 .. typed
               PROVE  p \in Waiting' \/ p \in dropped \/ \E t \in Turn : p \in Items(carried'[t])
      BY DEF PromptAccounted, Waiting
  <2>1. p \in Waiting \/ p \in dropped \/ \E t \in Turn : t # n /\ p \in Items(carried[t])
        BY <1>1, <1>2 DEF PromptInv, PromptsKept, PromptAccounted, Waiting, NoPrompt
  <2> QED BY <1>1, <1>2, <2>1
<1>6. PromptSentOnce'
  <2>1. \A t \in Turn : Items(carried[t]) \cap Items(prompts) = {}
        BY DEF PromptInv
  <2>2. \A t, u \in Turn : t # u => Items(carried'[t]) \cap Items(carried'[u]) = {}
        BY <1>1, <1>2, <2>1 DEF PromptInv, PromptsKept, PromptSentOnce
  <2>3. \A t \in Turn : InOrderOfTyping(carried'[t])
        BY <1>1, <1>2 DEF PromptInv, PromptsKept, PromptSentOnce, InOrderOfTyping
  <2> QED BY <2>2, <2>3 DEF PromptSentOnce, InOrderOfTyping
<1> QED BY <1>3, <1>4, <1>5, <1>6 DEF PromptInv, PromptsKept

\* Where no turn starts and nothing is typed, prompts only move between queue, textarea and
\* what was dropped.
LEMMA PromptsMove ==
    ASSUME PromptInv, Waiting' \subseteq Waiting, Waiting \subseteq Waiting' \cup dropped',
           dropped \subseteq dropped', InOrderOfTyping(queued'),
           input' # NoPrompt => \A p \in Items(queued') : p < input',
           UNCHANGED <<typed, carried, turns>>
    PROVE  PromptInv'
<1>1. PromptAccounted'
  <2> SUFFICES ASSUME NEW p \in 1 .. typed
               PROVE  p \in Waiting' \/ p \in dropped' \/ \E t \in Turn : p \in Items(carried[t])
      BY DEF PromptAccounted, Waiting
  <2> QED BY DEF PromptInv, PromptsKept, PromptAccounted, Waiting, NoPrompt
<1>2. PromptSentOnce'
      BY DEF PromptInv, PromptsKept, PromptSentOnce
<1> QED BY <1>1, <1>2 DEF PromptInv, PromptsKept

LEMMA PromptStep == ASSUME TypeOK, PromptInv, [Next]_vars PROVE PromptInv'
<1> USE DEF NoPrompt
<1>0. /\ queued \in Seq(Prompt) /\ input \in Prompt \cup {NoPrompt} /\ typed \in Nat
      /\ \A p \in Prompt : p \in Nat \ {0}
      /\ DOMAIN queued = 1 .. Len(queued) /\ Len(queued) \in Nat
      BY TurnAssumption DEF TypeOK, UIType, GhostType, Prompt
<1>e. Items(<<>>) = {} /\ InOrderOfTyping(<<>>) /\ <<>> \in Seq(Prompt)
      BY DEF Items, InOrderOfTyping
<1>1. CASE UNCHANGED <<queued, input, typed, carried, turns, dropped>>
  <2>1. Waiting' = Waiting /\ InOrderOfTyping(queued')
        BY <1>1 DEF Waiting, PromptInv
  <2> QED BY <1>1, <2>1, PromptsMove DEF PromptInv
<1>2. CASE Type
  <2>1. /\ input = 0 /\ input' = typed + 1 /\ typed' = typed + 1
        /\ UNCHANGED <<queued, carried, turns, dropped>>
        BY <1>2 DEF Type
  <2>2. /\ Waiting' = Waiting \cup {typed + 1} /\ typed + 1 # 0
        /\ \A p \in 1 .. typed : p < typed + 1 /\ p # typed + 1 /\ p \in 1 .. typed + 1
        /\ \A p \in 1 .. typed + 1 : p = typed + 1 \/ p \in 1 .. typed
        /\ typed + 1 \in 1 .. typed + 1
        BY <1>0, <2>1 DEF Waiting
  <2>3. PromptAccounted'
    <3> SUFFICES ASSUME NEW p \in 1 .. typed + 1
                 PROVE  p \in Waiting' \/ p \in dropped \/ \E t \in Turn : p \in Items(carried[t])
        BY <2>1 DEF PromptAccounted, Waiting
    <3> QED BY <2>2 DEF PromptInv, PromptsKept, PromptAccounted, Waiting
  <2>4. PromptSentOnce'
        BY <2>1 DEF PromptInv, PromptsKept, PromptSentOnce
  <2>5. /\ Waiting' \subseteq 1 .. typed' /\ InOrderOfTyping(queued')
        /\ \A p \in Items(queued') : p < input'
        BY <2>1, <2>2 DEF PromptInv, Waiting
  <2>6. /\ \A t \in Turn : Items(carried'[t]) \subseteq 1 .. typed' /\ Items(carried'[t]) \cap Waiting' = {}
        /\ \A t \in Turn : t > turns' => Items(carried'[t]) = {}
        BY <2>1, <2>2 DEF PromptInv
  <2> QED BY <2>3, <2>4, <2>5, <2>6 DEF PromptInv, PromptsKept
<1>3. CASE EnterQueues
  <2>1. /\ input # 0 /\ input \in Prompt /\ queued' = Append(queued, input) /\ input' = 0
        /\ UNCHANGED <<carried, turns, dropped, typed>>
        BY <1>0, <1>3 DEF EnterQueues, ghostVars
  <2>2. Items(queued') = Items(queued) \cup {input}
        BY <1>0, <2>1, ItemsAppend
  <2>3. Waiting' = Waiting
        BY <2>1, <2>2 DEF Waiting
  <2>4. InOrderOfTyping(queued')
    <3>1. /\ DOMAIN queued' = 1 .. Len(queued) + 1 /\ queued'[Len(queued) + 1] = input
          /\ \A i \in 1 .. Len(queued) : queued'[i] = queued[i] /\ queued[i] \in Items(queued)
          BY <1>0, <2>1 DEF Items
    <3>2. \A i \in 1 .. Len(queued) : queued[i] < input
          BY <2>1, <3>1 DEF PromptInv
    <3>3. \A i, j \in 1 .. Len(queued) : i < j => queued[i] < queued[j]
          BY <1>0 DEF PromptInv, InOrderOfTyping
    <3> QED BY <1>0, <3>1, <3>2, <3>3 DEF InOrderOfTyping
  <2> QED BY <2>1, <2>3, <2>4, PromptsMove
<1>4. CASE EnterSends
  <2>1. /\ input # 0 /\ input \in Prompt /\ input' = 0 /\ StartTurn(<<input>>, cancelFn)
        /\ UNCHANGED <<queued, dropped, typed>>
        BY <1>0, <1>4 DEF EnterSends
  <2>2. Items(<<input>>) = {input} /\ InOrderOfTyping(<<input>>) /\ <<input>> \in Seq(Prompt)
        BY <2>1 DEF Items, InOrderOfTyping
  <2>3. Waiting' = Items(queued) /\ Waiting = Items(queued) \cup {input} /\ input \notin Items(queued)
        BY <1>0, <2>1 DEF Waiting, PromptInv
  <2> QED BY <2>1, <2>2, <2>3, SentOnce DEF PromptInv
<1>5. CASE Unqueue
  <2> DEFINE k == Len(queued)
  <2>1. /\ input = 0 /\ k \in Nat \ {0} /\ input' = queued[k] /\ queued' = SubSeq(queued, 1, k - 1)
        /\ UNCHANGED <<carried, turns, dropped, typed>>
        BY <1>0, <1>5 DEF Unqueue, ghostVars
  <2>a. DOMAIN queued = 1 .. k /\ queued \in [1 .. k -> Prompt]
        BY <1>0
  <2>b. DOMAIN queued' = 1 .. k - 1 /\ \A i \in 1 .. k - 1 : queued'[i] = queued[i]
        BY <1>0, <2>1
  <2> HIDE DEF k
  <2>2. /\ \A i \in 1 .. k - 1 : i \in 1 .. k /\ i < k
        /\ \A i \in 1 .. k : i = k \/ i \in 1 .. k - 1
        /\ k \in 1 .. k
        BY <2>1
  <2>3. queued[k] \in Prompt
        BY <2>2, <2>a
  <2>4. Items(queued) = Items(queued') \cup {queued[k]}
        BY <2>2, <2>a, <2>b DEF Items
  <2>5. Waiting' = Waiting
        BY <1>0, <2>1, <2>3, <2>4 DEF Waiting
  <2>6. InOrderOfTyping(queued') /\ \A p \in Items(queued') : p < input'
        BY <2>1, <2>2, <2>a, <2>b DEF PromptInv, InOrderOfTyping, Items
  <2> QED BY <2>1, <2>5, <2>6, PromptsMove
<1>6. CASE ClearQueue \/ \E clearQueue \in BOOLEAN : Interrupt(clearQueue)
  <2>1. /\ \/ queued' = <<>> /\ dropped' = dropped \cup Items(queued)
           \/ UNCHANGED <<queued, dropped>>
        /\ UNCHANGED <<carried, turns, typed, input>>
        BY <1>6 DEF ClearQueue, Interrupt
  <2> QED BY <1>e, <2>1, PromptsMove DEF Waiting, PromptInv
<1>7. CASE \E m \in posted : HandleDone(m)
  <2> PICK m \in posted : HandleDone(m)
      BY <1>7
  <2>1. UNCHANGED <<input, typed, dropped>>
        BY DEF HandleDone
  <2>2. CASE StartTurn(queued, NoTurn) /\ queued' = <<>>
    <3>1. Waiting = Waiting' \cup Items(queued) /\ Items(queued) \cap Waiting' = {}
          BY <1>0, <1>e, <2>1, <2>2 DEF Waiting, PromptInv
    <3> QED BY <1>0, <1>e, <2>1, <2>2, <3>1, SentOnce DEF PromptInv
  <2>3. CASE StartTurn(<<>>, NoTurn) /\ UNCHANGED queued
    <3>1. Waiting' = Waiting
          BY <2>1, <2>3 DEF Waiting
    <3> QED BY <1>e, <2>1, <2>3, <3>1, SentOnce DEF PromptInv
  <2>4. CASE UNCHANGED <<queued, turns, carried>>
        BY <1>1, <2>1, <2>4
  <2> QED BY <2>2, <2>3, <2>4 DEF HandleDone
<1> QED
    BY <1>1, <1>2, <1>3, <1>4, <1>5, <1>6, <1>7, NextCases
    DEF vars, uiVars, ghostVars, HandleEvent, DisplayEvent, DropEvent, IgnoreDone, WaitEvent,
        WaitClosed, Begin, Send, Wire, Receive, SeeCancel, Complete, Unwire, Release, Close,
        StreamEmit, StreamEnd, StreamClose, Drain

\* What the user types is sent once and in order, or waits, or was cleared on purpose.
THEOREM PromptsAreKept == Spec => []PromptsKept
<1>1. Init => PromptInv
  <2> SUFFICES ASSUME Init PROVE PromptInv
      OBVIOUS
  <2>1. /\ Items(<<>>) = {} /\ queued = <<>> /\ input = 0 /\ typed = 0
        /\ \A t \in Turn : carried[t] = <<>>
        BY DEF Init, Items, NoPrompt
  <2>2. Waiting = {} /\ InOrderOfTyping(queued)
        BY <2>1 DEF Waiting, InOrderOfTyping, NoPrompt
  <2>3. PromptAccounted /\ PromptSentOnce
        BY <2>1 DEF PromptAccounted, PromptSentOnce
  <2> QED BY <2>1, <2>2, <2>3 DEF PromptInv, PromptsKept
<1>2. PromptInv => PromptsKept
      BY DEF PromptInv
<1> QED BY <1>1, <1>2, PromptStep, TypeCorrect, PTL DEF Spec

-----------------------------------------------------------------------------
(* The headless run (Headless).  Its loop starts a turn when the one before  *)
(* is over, and sees every event of it.                                      *)

\* A turn that has run to its end, of which nothing is left to print.
Over(t) ==
    /\ pc[t] = "ended" /\ outbox[t] = <<>> /\ events[t] = <<>>
    /\ t \in completed \/ Signalled

Unstarted(t) ==
    /\ pc[t] = "unborn" /\ outbox[t] = <<>> /\ events[t] = <<>>
    /\ t \notin closed \cup drainers /\ streamPc[t] = "none"

\* The loop, its turns one after another, and what each place of it knows.
LoopInv ==
    /\ at = "collect" => turns = 0
    /\ at \in {"send", "range"} => turns \in Turn
    /\ at # "exit" => code = 0
    /\ cancelled \in {{}, Turn}
    /\ \A t \in Turn : (t < turns => Over(t)) /\ (t > turns => Unstarted(t))
    /\ at = "send" \/ (at = "exit" /\ code = 0) => turns \in Turn /\ Over(turns)
    /\ at = "exit" /\ code = 0 => newline /\ lastTurnState = "completed"

\* The goroutines: a turn that is closed or drained has left its loop, turnActive is set
\* while one holds it.
BodyInv ==
    /\ \A t \in Turn : pc[t] = "ended" => outbox[t] = <<>>
    /\ \A t \in closed : pc[t] = "ended"
    /\ \A t \in drainers : pc[t] \in Late
    /\ turnActive <=> \E t \in Turn : pc[t] \in Body
    /\ \A t \in Turn : pc[t] \notin {"unborn", "start"} => t \in accepted

\* A stream that is over has said so, unless a signal cut it short.
StreamInv ==
    \A t \in Turn : pc[t] = "loop" /\ streamPc[t] \in {"ended", "closed"} =>
        "done" \in Items(stream[t]) \/ "error" \in Items(stream[t]) \/ t \in completed \/ Signalled

\* The error of t is on its way to the terminal, or there.
Reported(t) == "error" \in Items(outbox[t]) \cup Items(events[t]) \cup Items(printed[t])

\* A turn past its loop was whole, or says that it was not; a printed error ends the program.
ErrorInv ==
    /\ \A t \in Turn : t = turns /\ pc[t] \in Late =>
          Reported(t) \/ (lastTurnState = "completed" /\ (t \in completed \/ Signalled))
    /\ \A t \in Turn : "error" \in Items(printed[t]) => at = "exit" /\ code = 1

HeadlessIInv == TypeOK /\ HeadlessTypeOK /\ LoopInv /\ BodyInv /\ StreamInv /\ ErrorInv
LEMMA ItemsParts ==
    ASSUME NEW S, NEW s \in Seq(S), s # <<>>
    PROVE  Items(s) = Items(Tail(s)) \cup {Head(s)}
<1>1. /\ DOMAIN s = 1 .. Len(s) /\ DOMAIN Tail(s) = 1 .. Len(s) - 1 /\ Len(s) \in Nat \ {0}
      /\ \A i \in 1 .. Len(s) - 1 : Tail(s)[i] = s[i + 1]
      /\ Head(s) = s[1]
      OBVIOUS
<1>2. /\ \A i \in 1 .. Len(s) : i = 1 \/ (i - 1 \in 1 .. Len(s) - 1 /\ (i - 1) + 1 = i)
      /\ \A i \in 1 .. Len(s) - 1 : i + 1 \in 1 .. Len(s)
      /\ 1 \in 1 .. Len(s)
      BY <1>1
<1>3. Items(s) \subseteq Items(Tail(s)) \cup {Head(s)}
  <2> SUFFICES ASSUME NEW i \in 1 .. Len(s) PROVE s[i] \in Items(Tail(s)) \cup {Head(s)}
      BY <1>1 DEF Items
  <2>1. CASE i = 1
        BY <1>1, <2>1
  <2>2. CASE i # 1
    <3>1. i - 1 \in 1 .. Len(s) - 1 /\ Tail(s)[i - 1] = s[i]
          BY <1>1, <1>2, <2>2
    <3> QED BY <1>1, <3>1 DEF Items
  <2> QED BY <2>1, <2>2
<1>4. Items(Tail(s)) \cup {Head(s)} \subseteq Items(s)
      BY <1>1, <1>2 DEF Items
<1> QED BY <1>3, <1>4

LEMMA HeadlessStart == Init /\ HeadlessInit => HeadlessIInv
<1> SUFFICES ASSUME Init, HeadlessInit PROVE HeadlessIInv
    OBVIOUS
<1>1. TypeOK
      BY InitType
<1>2. HeadlessTypeOK
      BY DEF HeadlessInit, HeadlessTypeOK
<1>3. LoopInv
      BY DEF Init, HeadlessInit, LoopInv, Unstarted, Turn
<1>4. BodyInv
      BY DEF Init, BodyInv, Body
<1>5. StreamInv
      BY DEF Init, StreamInv
<1>6. ErrorInv
      BY DEF Init, HeadlessInit, ErrorInv, Items, Late
<1> QED BY <1>1, <1>2, <1>3, <1>4, <1>5, <1>6 DEF HeadlessIInv

\* The goroutine that takes a step is the current turn's, and the loop waits for it.
LEMMA AgentIsCurrent ==
    ASSUME HeadlessIInv, NEW t \in Turn, Agent(t)
    PROVE  t = turns /\ at = "range" /\ UNCHANGED <<at, code, newline, printed, turns, cancelled>>
<1>1. pc[t] \notin {"unborn", "ended"} \/ outbox[t] # <<>>
      BY DEF Agent, SendMessage, Begin, Send, Wire, Receive, SeeCancel, Complete, Unwire, Release,
             Close
<1>2. ~Over(t) /\ ~Unstarted(t)
      BY <1>1 DEF Over, Unstarted
<1>3. turns \in Nat /\ t \in Nat \ {0}
      BY DEF HeadlessIInv, TypeOK, UIType, Turn
<1>4. t = turns
      BY <1>2, <1>3 DEF HeadlessIInv, LoopInv
<1>5. at = "range"
      BY <1>2, <1>3, <1>4 DEF HeadlessIInv, LoopInv, HeadlessTypeOK, Agent
<1>6. UNCHANGED <<turns, cancelled>>
      BY DEF Agent, SendMessage, Begin, Send, Wire, Receive, SeeCancel, Complete, Unwire, Release,
             Close, uiVars
<1> QED BY <1>4, <1>5, <1>6 DEF Agent

\* What the loop knows of the turns that are over or not yet begun stays.
LEMMA LoopKept ==
    ASSUME HeadlessIInv, at # "exit", UNCHANGED <<at, code, turns, cancelled>>,
           completed \subseteq completed',
           \A t \in Turn : at = "send" \/ t # turns =>
               /\ pc'[t] = pc[t] /\ outbox'[t] = outbox[t]
               /\ events'[t] = events[t] /\ streamPc'[t] \in {streamPc[t], "ended", "closed"}
               /\ streamPc[t] = "none" => streamPc'[t] = "none"
               /\ t \in closed' => t \in closed
               /\ t \in drainers' => t \in drainers
    PROVE  LoopInv'
<1>1. ASSUME NEW t \in Turn, at = "send" \/ t # turns, Over(t) PROVE Over(t)'
      BY <1>1 DEF Over, Signalled
<1>2. ASSUME NEW t \in Turn, t # turns, Unstarted(t) PROVE Unstarted(t)'
      BY <1>2 DEF Unstarted
<1>3. turns \in Nat /\ \A t \in Turn : t \in Nat
      BY DEF HeadlessIInv, TypeOK, UIType, Turn
<1> QED BY <1>1, <1>2, <1>3 DEF HeadlessIInv, LoopInv

LEMMA AgentLoop == ASSUME HeadlessIInv, NEW t \in Turn, Agent(t) PROVE LoopInv'
<1>1. t = turns /\ at = "range" /\ UNCHANGED <<at, code, newline, printed, turns, cancelled>>
      BY AgentIsCurrent
<1>2. completed \subseteq completed'
      BY DEF Agent
<1>3. \A u \in Turn : u # t =>
          /\ pc'[u] = pc[u] /\ outbox'[u] = outbox[u] /\ events'[u] = events[u]
          /\ streamPc'[u] = streamPc[u]
          /\ (u \in closed' <=> u \in closed) /\ (u \in drainers' <=> u \in drainers)
      BY DEF Agent, SendMessage, Begin, Send, Wire, Receive, SeeCancel, Complete, Unwire, Release,
             Close, agentVars, chanVars, streamVars, HeadlessIInv, TypeOK, AgentType, ChanType,
             StreamType
<1> QED BY <1>1, <1>2, <1>3, LoopKept

LEMMA AgentBody == ASSUME HeadlessIInv, NEW t \in Turn, Agent(t) PROVE BodyInv'
<1> USE DEF HeadlessIInv, TypeOK, AgentType, BodyInv, Body, Late
<1>1. SendMessage(t)
      BY DEF Agent
<1>2. CASE Begin(t)
  <2>1. ~turnActive
    <3>1. \A u \in Turn : u # t => pc[u] \in {"unborn", "ended"}
          BY AgentIsCurrent DEF LoopInv, Over, Unstarted, UIType, Turn
    <3> QED BY <1>2, <3>1 DEF Begin
  <2>2. /\ pc' = [pc EXCEPT ![t] = "wire"] /\ turnActive' = TRUE /\ accepted' = accepted \cup {t}
        /\ outbox' = [outbox EXCEPT ![t] = <<"state">>] /\ pc[t] = "start"
        /\ UNCHANGED <<closed, drainers>>
        BY <1>2, <2>1 DEF Begin, chanVars, streamVars
  <2> QED BY <2>2
<1>3. CASE Send(t)
  <2>1. pc[t] # "ended"
        BY <1>3 DEF Send
  <2> QED BY <1>3, <2>1 DEF Send, streamVars, ghostVars
<1>4. CASE Wire(t)
      BY <1>4 DEF Wire, chanVars, ghostVars
<1>5. CASE Receive(t)
  <2>1. /\ pc[t] = "loop" /\ pc' \in {pc, [pc EXCEPT ![t] = "unwire"]}
        /\ \A u \in Turn : u # t => outbox'[u] = outbox[u]
        /\ UNCHANGED <<turnActive, closed, drainers, accepted>>
        BY <1>5 DEF Receive, chanVars, ghostVars
  <2>2. CASE pc' = pc
        BY <2>1, <2>2
  <2>3. CASE pc' = [pc EXCEPT ![t] = "unwire"]
        BY <2>1, <2>3
  <2> QED BY <2>1, <2>2, <2>3
<1>6. CASE SeeCancel(t)
      BY <1>6 DEF SeeCancel, chanVars, ghostVars
<1>7. CASE Complete(t)
      BY <1>7 DEF Complete, chanVars, streamVars, ghostVars
<1>8. CASE Unwire(t)
      BY <1>8 DEF Unwire, chanVars, streamVars, ghostVars
<1>9. CASE Release(t)
  <2>1. \A u \in Turn : u # t => pc[u] \in {"unborn", "ended"}
        BY AgentIsCurrent DEF LoopInv, Over, Unstarted, UIType, Turn
  <2> QED BY <1>9, <2>1 DEF Release, chanVars, streamVars, ghostVars
<1>10. CASE Close(t)
      BY <1>10 DEF Close, streamVars, ghostVars
<1> QED BY <1>1, <1>2, <1>3, <1>4, <1>5, <1>6, <1>7, <1>8, <1>9, <1>10 DEF SendMessage
LEMMA AgentStream == ASSUME HeadlessIInv, NEW t \in Turn, Agent(t) PROVE StreamInv'
<1> USE DEF HeadlessIInv, TypeOK, AgentType, StreamType, StreamInv
<1>1. SendMessage(t) /\ UNCHANGED cancelled /\ (Signalled' <=> Signalled)
      BY AgentIsCurrent DEF Agent, Signalled
<1>2. completed \subseteq completed'
      BY DEF Agent
<1>3. CASE Begin(t) \/ Send(t) \/ SeeCancel(t) \/ Complete(t) \/ Unwire(t) \/ Release(t) \/ Close(t)
  <2>1. /\ UNCHANGED <<stream, streamPc>>
        /\ \A u \in Turn : pc'[u] = "loop" => pc[u] = "loop"
        BY <1>3 DEF Begin, Send, SeeCancel, Complete, Unwire, Release, Close, streamVars
  <2> QED BY <1>1, <1>2, <2>1
<1>4. CASE Wire(t)
  <2>1. /\ stream' = stream /\ streamPc' = [streamPc EXCEPT ![t] = "running"]
        /\ \A u \in Turn : u # t => pc'[u] = pc[u]
        BY <1>4 DEF Wire
  <2> QED BY <1>1, <1>2, <2>1
<1>5. CASE Receive(t)
  <2>1. /\ stream[t] # <<>> /\ stream' = [stream EXCEPT ![t] = Tail(@)] /\ streamPc' = streamPc
        /\ pc[t] = "loop" /\ \A u \in Turn : u # t => pc'[u] = pc[u]
        /\ Head(stream[t]) = "error" => pc'[t] = "unwire"
        BY <1>5 DEF Receive
  <2>2. Items(stream[t]) \subseteq Items(stream'[t]) \cup {Head(stream[t])}
        BY <2>1, ItemsParts
  <2>3. stream'[t] # stream[t]
        BY <2>1
  <2>4. Head(stream[t]) = "done" => t \in completed'
        BY <2>1, <2>3 DEF Agent
  <2>5. ASSUME NEW u \in Turn, u # t, pc'[u] = "loop", streamPc'[u] \in {"ended", "closed"}
        PROVE  \/ "done" \in Items(stream'[u]) \/ "error" \in Items(stream'[u])
               \/ u \in completed' \/ Signalled'
        BY <1>1, <1>2, <2>1, <2>5
  <2>6. ASSUME pc'[t] = "loop", streamPc'[t] \in {"ended", "closed"}
        PROVE  \/ "done" \in Items(stream'[t]) \/ "error" \in Items(stream'[t])
               \/ t \in completed' \/ Signalled'
    <3>1. \/ "done" \in Items(stream[t]) \/ "error" \in Items(stream[t])
          \/ t \in completed \/ Signalled
          BY <2>1, <2>6
    <3>2. Head(stream[t]) # "error"
          BY <2>1, <2>6
    <3> QED BY <1>1, <1>2, <2>2, <2>4, <3>1, <3>2
  <2> QED BY <2>5, <2>6
<1> QED BY <1>1, <1>3, <1>4, <1>5 DEF SendMessage

LEMMA AgentError == ASSUME HeadlessIInv, NEW t \in Turn, Agent(t) PROVE ErrorInv'
<1> USE DEF HeadlessIInv, TypeOK, AgentType, ChanType, Late
<1>1. /\ t = turns /\ UNCHANGED <<at, code, printed, turns, cancelled>>
      /\ (Signalled' <=> Signalled) /\ completed \subseteq completed' /\ SendMessage(t)
      BY AgentIsCurrent DEF Agent, Signalled
<1>2. SUFFICES ASSUME pc'[t] \in Late
               PROVE  Reported(t)' \/ (lastTurnState' = "completed" /\ (t \in completed' \/ Signalled'))
      BY <1>1 DEF ErrorInv
<1>3. ASSUME pc[t] \in Late, UNCHANGED lastTurnState, Reported(t) => Reported(t)'
      PROVE  Reported(t)' \/ (lastTurnState' = "completed" /\ (t \in completed' \/ Signalled'))
      BY <1>1, <1>3 DEF ErrorInv
<1>4. "error" \in Items(<<"error">>) /\ "error" \in Items(<<"state", "error", "done">>)
  <2>1. DOMAIN <<"error">> = {1} /\ DOMAIN <<"state", "error", "done">> = {1, 2, 3}
        OBVIOUS
  <2> QED BY <2>1 DEF Items
<1>5. ASSUME "error" \in Items(outbox'[t]) PROVE Reported(t)'
      BY <1>5 DEF Reported
<1>6. CASE Begin(t)
      BY <1>2, <1>4, <1>5, <1>6 DEF Begin
<1>7. CASE Send(t)
  <2>1. /\ UNCHANGED <<pc, lastTurnState>> /\ outbox[t] # <<>>
        /\ outbox'[t] = Tail(outbox[t]) /\ events'[t] = Append(events[t], Head(outbox[t]))
        BY <1>7 DEF Send
  <2>2. Items(outbox[t]) \subseteq Items(outbox'[t]) \cup {Head(outbox[t])}
        BY <2>1, ItemsParts
  <2>3. Items(events'[t]) = Items(events[t]) \cup {Head(outbox[t])}
        BY <2>1, ItemsAppend
  <2>4. Reported(t) => Reported(t)'
        BY <1>1, <2>2, <2>3 DEF Reported
  <2> QED BY <1>2, <1>3, <2>1, <2>4
<1>8. CASE Wire(t)
      BY <1>2, <1>8 DEF Wire
<1>9. CASE Receive(t)
  <2>1. Head(stream[t]) = "error" /\ lastTurnState' # "completed"
        BY <1>2, <1>9 DEF Receive
  <2>2. outbox'[t] = <<"state", "error", "done">>
        BY <1>9, <2>1 DEF Receive, Forwards
  <2> QED BY <1>4, <1>5, <2>2
<1>10. CASE SeeCancel(t)
  <2>1. outbox'[t] = <<"state", "error", "done">>
        BY <1>10 DEF SeeCancel
  <2> QED BY <1>4, <1>5, <2>1
<1>11. CASE Complete(t)
  <2>1. /\ stream[t] = <<>> /\ streamPc[t] = "closed" /\ pc[t] = "loop"
        /\ lastTurnState' = "completed"
        BY <1>11 DEF Complete
  <2>2. Items(<<>>) = {}
        BY DEF Items
  <2> QED BY <1>1, <2>1, <2>2 DEF StreamInv
<1>12. CASE Unwire(t) \/ Release(t) \/ Close(t)
  <2>1. pc[t] \in Late /\ UNCHANGED <<lastTurnState, outbox, events>>
        BY <1>12 DEF Unwire, Release, Close, chanVars
  <2>2. Reported(t) => Reported(t)'
        BY <1>1, <2>1 DEF Reported
  <2> QED BY <1>3, <2>1, <2>2
<1> QED BY <1>1, <1>6, <1>7, <1>8, <1>9, <1>10, <1>11, <1>12 DEF SendMessage

LEMMA GoroutineStep == ASSUME HeadlessIInv, NEW t \in Turn, Agent(t) PROVE HeadlessIInv'
<1>1. TypeOK'
  <2>1. Next
        BY DEF Agent, Next
  <2> QED BY <2>1, StepType DEF HeadlessIInv
<1>2. HeadlessTypeOK'
      BY AgentIsCurrent DEF Agent, HeadlessIInv, HeadlessTypeOK
<1>3. LoopInv' /\ BodyInv' /\ StreamInv' /\ ErrorInv'
      BY AgentLoop, AgentBody, AgentStream, AgentError
<1> QED BY <1>1, <1>2, <1>3 DEF HeadlessIInv
LEMMA ProviderStep ==
    ASSUME HeadlessIInv, NEW t \in Turn, Provider(t) \/ Drainer(t)
    PROVE  HeadlessIInv'
<1> USE DEF HeadlessIInv, TypeOK, StreamType
<1>1. TypeOK'
  <2>1. Next
        BY DEF Provider, Drainer, Next
  <2> QED BY <2>1, StepType
<1>2. /\ at # "exit" /\ UNCHANGED <<turns, cancelled, pc, outbox, turnActive, lastTurnState, events>>
      /\ UNCHANGED <<closed, drainers, accepted, at, code, newline, printed, completed>>
      BY DEF Provider, Drainer, StreamChat, StreamEmit, StreamEnd, StreamClose, Drain, uiVars,
             agentVars, chanVars, ghostVars, headVars
<1>a. \A u \in Turn : streamPc[u] \in {"none", "closed"} => streamPc'[u] = streamPc[u]
      BY DEF Provider, Drainer, StreamChat, StreamEmit, StreamEnd, StreamClose, Drain
<1>b. \A u \in Turn : u # t => stream'[u] = stream[u] /\ streamPc'[u] = streamPc[u]
      BY DEF Provider, Drainer, StreamChat, StreamEmit, StreamEnd, StreamClose, Drain
<1>3. HeadlessTypeOK'
      BY <1>2 DEF HeadlessTypeOK
<1>4. LoopInv'
  <2>1. \A u \in Turn : streamPc'[u] \in {streamPc[u], "ended", "closed"}
        BY DEF Provider, Drainer, StreamChat, StreamEmit, StreamEnd, StreamClose, Drain
  <2> QED BY <1>2, <1>a, <2>1, LoopKept
<1>5. BodyInv'
      BY <1>2 DEF BodyInv
<1>6. ErrorInv'
      BY <1>2 DEF ErrorInv, Reported, Signalled
<1>7. StreamInv'
  <2> SUFFICES ASSUME pc[t] = "loop", streamPc'[t] \in {"ended", "closed"}
               PROVE  \/ "done" \in Items(stream'[t]) \/ "error" \in Items(stream'[t])
                      \/ t \in completed \/ Signalled
      BY <1>2, <1>b DEF StreamInv, Signalled
  <2>1. ASSUME NEW kind \in StreamDeltas, StreamEmit(t, kind) PROVE FALSE
        BY <2>1 DEF StreamEmit
  <2>2. CASE StreamEnd(t)
    <3>1. ASSUME t \in cancelled PROVE Signalled
          BY <3>1 DEF LoopInv, Signalled
    <3>2. ASSUME NEW kind \in {"done", "error"}, stream' = [stream EXCEPT ![t] = Append(@, kind)]
          PROVE  kind \in Items(stream'[t])
          BY <3>2, ItemsAppend
    <3> QED BY <2>2, <3>1, <3>2 DEF StreamEnd
  <2>3. CASE StreamClose(t)
        BY <2>3 DEF StreamClose, StreamInv
  <2>4. CASE Drain(t)
        BY <2>4 DEF Drain, BodyInv, Late
  <2> QED BY <2>1, <2>2, <2>3, <2>4 DEF Provider, Drainer, StreamChat
<1> QED BY <1>1, <1>3, <1>4, <1>5, <1>6, <1>7

\* A turn begins when all before it are over.
LEMMA GoTurnStep ==
    ASSUME HeadlessIInv, NEW prompts \in Seq(Prompt), GoTurn(prompts),
           at = "collect" \/ at = "send",
           followUps' \in Nat,
           UNCHANGED <<windowVars, outbox, turnActive, drainWired, lastTurnState, cancelled,
                       chanVars, streamVars, accepted, newline, printed, completed>>
    PROVE  HeadlessIInv'
<1> USE DEF HeadlessIInv
<1> DEFINE n == turns + 1
<1>1. /\ n \in Turn /\ turns' = n /\ turns \in Nat /\ pc' = [pc EXCEPT ![n] = "start"]
      /\ carried' = [carried EXCEPT ![n] = prompts] /\ at' = "range" /\ code' = code
      /\ \A t \in Turn : (t < n => t < turns \/ t = turns) /\ (t > n => t > turns)
      BY DEF GoTurn, TypeOK, UIType, Turn
<1>2. n > turns
      BY <1>1
<1> HIDE DEF n
<1>3. Unstarted(n) /\ pc[n] = "unborn"
      BY <1>1, <1>2 DEF LoopInv, Unstarted
<1>4. TypeOK'
  <2>1. FlagType' /\ CmdType' /\ ChanType' /\ StreamType'
        BY DEF TypeOK, FlagType, CmdType, ChanType, StreamType, windowVars, cmdVars, chanVars, streamVars
  <2>2. UIType'
        BY <1>1 DEF TypeOK, UIType, windowVars, Turn
  <2>3. AgentType'
        BY <1>1 DEF TypeOK, AgentType, PC
  <2>4. GhostType'
        BY <1>1 DEF TypeOK, GhostType, windowVars
  <2> QED BY <2>1, <2>2, <2>3, <2>4 DEF TypeOK
<1>5. HeadlessTypeOK'
      BY <1>1 DEF HeadlessTypeOK
<1>6. \A t \in Turn : t # n => pc'[t] = pc[t]
      BY <1>1 DEF TypeOK, AgentType
<1>7. pc'[n] = "start"
      BY <1>1 DEF TypeOK, AgentType
<1>8. LoopInv'
  <2>1. ASSUME NEW t \in Turn, t < n PROVE Over(t)'
    <3>1. Over(t)
          BY <1>1, <2>1 DEF LoopInv, Turn
    <3>2. t # n
          BY <1>1, <2>1 DEF Turn
    <3> QED BY <1>6, <3>1, <3>2 DEF Over, Signalled, chanVars
  <2>2. ASSUME NEW t \in Turn, t > n PROVE Unstarted(t)'
    <3>1. Unstarted(t) /\ t # n
          BY <1>1, <2>2 DEF LoopInv, Turn
    <3> QED BY <1>6, <3>1 DEF Unstarted, chanVars, streamVars
  <2> QED BY <1>1, <2>1, <2>2 DEF LoopInv
<1>9. BodyInv'
      BY <1>1, <1>3, <1>6, <1>7 DEF BodyInv, Body, Unstarted, chanVars, streamVars
<1>10. StreamInv'
      BY <1>1, <1>6, <1>7 DEF StreamInv, Signalled, streamVars
<1>11. ErrorInv'
      BY <1>1, <1>7 DEF ErrorInv, Late, HeadlessTypeOK
<1> QED BY <1>4, <1>5, <1>8, <1>9, <1>10, <1>11
\* The program ends, or the loop goes on, with the goroutines left as they are.
LEMMA LoopMoves ==
    ASSUME HeadlessIInv, at \in {"collect", "send", "range"},
           UNCHANGED <<windowVars, turns, agentVars, cancelled, chanVars, streamVars, followUps,
                       carried, accepted, printed, completed>>,
           newline' \in BOOLEAN,
           \/ at' = "exit" /\ code' = 1
           \/ at' \in {"send", "exit"} /\ code' = 0 /\ turns \in Turn /\ Over(turns)
              /\ (at' = "exit" => newline' /\ lastTurnState = "completed")
    PROVE  HeadlessIInv'
<1> USE DEF HeadlessIInv
<1>1. TypeOK'
      BY DEF TypeOK, FlagType, UIType, CmdType, AgentType, ChanType, StreamType, GhostType,
             windowVars, cmdVars, agentVars, chanVars, streamVars
<1>2. HeadlessTypeOK'
      BY DEF HeadlessTypeOK
<1>3. \A t \in Turn : (Over(t) => Over(t)') /\ (Unstarted(t) => Unstarted(t)')
      BY DEF Over, Unstarted, Signalled, agentVars, chanVars, streamVars
<1>4. LoopInv'
      BY <1>3 DEF LoopInv, agentVars
<1>5. BodyInv' /\ StreamInv'
      BY DEF BodyInv, StreamInv, Signalled, agentVars, chanVars, streamVars
<1>6. ErrorInv'
      BY DEF ErrorInv, Reported, Signalled, agentVars, chanVars
<1> QED BY <1>1, <1>2, <1>4, <1>5, <1>6

LEMMA CollectStep ==
    ASSUME HeadlessIInv, NEW prompt \in Prompt \cup {NoPrompt}, Collect(prompt)
    PROVE  HeadlessIInv'
<1>1. CASE prompt = NoPrompt
  <2>1. newline \in BOOLEAN
        BY DEF HeadlessIInv, HeadlessTypeOK
  <2> QED BY <1>1, <2>1, LoopMoves DEF Collect, Exit, agentVars
<1>2. CASE prompt # NoPrompt
  <2>1. <<prompt>> \in Seq(Prompt) /\ followUps \in Nat
        BY <1>2 DEF HeadlessIInv, TypeOK, GhostType
  <2> QED BY <1>2, <2>1, GoTurnStep DEF Collect
<1> QED BY <1>1, <1>2

LEMMA FollowUpStep == ASSUME HeadlessIInv, FollowUp PROVE HeadlessIInv'
<1>1. newline \in BOOLEAN /\ followUps \in Nat /\ followUps + 1 \in Nat /\ <<>> \in Seq(Prompt)
      BY DEF HeadlessIInv, HeadlessTypeOK, TypeOK, GhostType
<1>2. CASE Exit(1) /\ UNCHANGED <<turns, pc, carried, followUps>>
      BY <1>1, <1>2, LoopMoves DEF FollowUp, Exit, agentVars
<1>3. CASE GoTurn(<<>>) /\ followUps' = followUps + 1
      BY <1>1, <1>3, GoTurnStep DEF FollowUp
<1> QED BY <1>2, <1>3 DEF FollowUp

\* The channel of the turn is closed and empty: with no error printed, it was whole.
LEMMA ClosedStep == ASSUME HeadlessIInv, Closed PROVE HeadlessIInv'
<1>1. /\ turns \in Turn /\ pc[turns] = "ended" /\ outbox[turns] = <<>> /\ events[turns] = <<>>
      BY DEF HeadlessIInv, LoopInv, BodyInv, Closed
<1>2. ~Reported(turns)
  <2>1. Items(<<>>) = {}
        BY DEF Items
  <2> QED BY <1>1, <2>1 DEF HeadlessIInv, ErrorInv, Closed, Reported
<1>3. lastTurnState = "completed" /\ Over(turns)
      BY <1>1, <1>2 DEF HeadlessIInv, ErrorInv, Late, Over
<1>4. code = 0 /\ newline \in BOOLEAN
      BY DEF HeadlessIInv, LoopInv, Closed, HeadlessTypeOK
<1>5. newline' \in BOOLEAN /\ (code' = 0 => newline')
      BY <1>4 DEF Closed
<1>6. \/ at' = "exit" /\ code' = 1
      \/ at' \in {"send", "exit"} /\ code' = 0
      BY <1>4 DEF Closed, Exit
<1> QED BY <1>1, <1>3, <1>5, <1>6, LoopMoves DEF Closed

LEMMA PutOutStep == ASSUME HeadlessIInv, PutOut PROVE HeadlessIInv'
<1> DEFINE t == turns
           kind == Head(events[t])
<1> USE DEF HeadlessIInv
<1>1. /\ t \in Turn /\ events[t] # <<>> /\ at = "range" /\ code = 0
      /\ events' = [events EXCEPT ![t] = Tail(@)] /\ taken' = [taken EXCEPT ![t] = @ + 1]
      /\ printed' = [printed EXCEPT ![t] = Append(@, kind)]
      /\ UNCHANGED <<windowVars, turns, agentVars, cancelled, closed, streamVars, followUps,
                     carried, accepted, completed>>
      BY DEF PutOut, LoopInv
<1>2. (at' = "range" /\ code' = 0 /\ kind # "error") \/ (at' = "exit" /\ code' = 1)
      BY <1>1 DEF PutOut, Exit
<1>n. newline' \in BOOLEAN
      BY DEF PutOut, HeadlessTypeOK
<1> HIDE DEF t
<1>3. /\ events[t] \in Seq(EventKind) /\ Tail(events[t]) \in Seq(EventKind)
      /\ kind \in EventKind /\ printed[t] \in Seq(EventKind)
      /\ Append(printed[t], kind) \in Seq(EventKind) /\ taken[t] + 1 \in Nat
      BY <1>1 DEF TypeOK, ChanType, HeadlessTypeOK
<1>4. /\ events'[t] = Tail(events[t]) /\ printed'[t] = Append(printed[t], kind)
      /\ \A u \in Turn : u # t => events'[u] = events[u] /\ printed'[u] = printed[u]
      BY <1>1 DEF TypeOK, ChanType, HeadlessTypeOK
<1>5. /\ Items(events[t]) = Items(events'[t]) \cup {kind}
      /\ Items(printed'[t]) = Items(printed[t]) \cup {kind}
      BY <1>1, <1>3, <1>4, ItemsParts, ItemsAppend
<1>6. ChanType'
      BY <1>1, <1>3 DEF TypeOK, ChanType
<1>7. HeadlessTypeOK'
      BY <1>1, <1>2, <1>3, <1>n DEF HeadlessTypeOK
<1> HIDE DEF kind
<1>8. TypeOK'
      BY <1>1, <1>6 DEF TypeOK, FlagType, UIType, CmdType, AgentType, StreamType, GhostType,
             windowVars, cmdVars, agentVars, streamVars
<1>9. LoopInv'
  <2>1. \A u \in Turn : u # t => (Over(u) => Over(u)') /\ (Unstarted(u) => Unstarted(u)')
        BY <1>1, <1>4 DEF Over, Unstarted, Signalled, agentVars, streamVars
  <2>2. \A u \in Turn : (u < t => u # t) /\ (u > t => u # t)
        BY DEF Turn
  <2> QED BY <1>1, <1>2, <2>1, <2>2 DEF LoopInv, t
<1>10. BodyInv' /\ StreamInv'
      BY <1>1 DEF BodyInv, StreamInv, Signalled, agentVars, streamVars
<1>11. ErrorInv'
  <2>1. \A u \in Turn : Reported(u) => Reported(u)'
        BY <1>1, <1>4, <1>5 DEF Reported, agentVars
  <2>2. \A u \in Turn : "error" \in Items(printed'[u]) => at' = "exit" /\ code' = 1
        BY <1>1, <1>2, <1>4, <1>5 DEF ErrorInv
  <2> QED BY <1>1, <2>1, <2>2 DEF ErrorInv, Signalled, agentVars
<1> QED BY <1>7, <1>8, <1>9, <1>10, <1>11

LEMMA SignalStep == ASSUME HeadlessIInv, Signal PROVE HeadlessIInv'
<1> USE DEF HeadlessIInv
<1>1. /\ cancelled' = Turn /\ Signalled' /\ at # "exit"
      /\ UNCHANGED <<windowVars, turns, agentVars, chanVars, streamVars, followUps, carried,
                     accepted, headVars>>
      BY DEF Signal, Signalled
<1>2. TypeOK'
      BY <1>1 DEF TypeOK, FlagType, UIType, CmdType, AgentType, ChanType, StreamType, GhostType,
             windowVars, cmdVars, agentVars, chanVars, streamVars
<1>3. HeadlessTypeOK'
      BY <1>1 DEF HeadlessTypeOK, headVars
<1>4. \A t \in Turn : (Over(t) => Over(t)') /\ (Unstarted(t) => Unstarted(t)')
      BY <1>1 DEF Over, Unstarted, agentVars, chanVars, streamVars, headVars
<1>5. LoopInv'
      BY <1>1, <1>4 DEF LoopInv, headVars
<1>6. BodyInv' /\ StreamInv' /\ ErrorInv'
      BY <1>1 DEF BodyInv, StreamInv, ErrorInv, Reported, agentVars, chanVars, streamVars, headVars
<1> QED BY <1>2, <1>3, <1>5, <1>6

\* Whatever the provider does and whenever a signal comes, no turn of the headless run finds
\* another in its way, and exit status 0 says that the whole answer of every turn was printed.
THEOREM StatusSaysWhatItPrinted == HeadlessSpec => []StatusIsTrue
<1>1. HeadlessIInv /\ [HeadlessNext]_<<vars, headVars>> => HeadlessIInv'
  <2> SUFFICES ASSUME HeadlessIInv, [HeadlessNext]_<<vars, headVars>> PROVE HeadlessIInv'
      OBVIOUS
  <2>1. CASE UNCHANGED <<vars, headVars>>
    <3>1. TypeOK'
          BY <2>1, StepType DEF HeadlessIInv
    <3>2. HeadlessTypeOK' /\ LoopInv'
          BY <2>1 DEF HeadlessIInv, HeadlessTypeOK, LoopInv, Over, Unstarted, Signalled, vars,
             uiVars, agentVars, chanVars, streamVars, ghostVars, headVars
    <3>3. BodyInv' /\ StreamInv' /\ ErrorInv'
          BY <2>1 DEF HeadlessIInv, BodyInv, StreamInv, ErrorInv, Reported, Signalled, vars,
             uiVars, agentVars, chanVars, streamVars, ghostVars, headVars
    <3> QED BY <3>1, <3>2, <3>3 DEF HeadlessIInv
  <2>2. CASE HeadlessNext
        BY <2>2, CollectStep, FollowUpStep, PutOutStep, ClosedStep, SignalStep, GoroutineStep,
           ProviderStep DEF HeadlessNext, Loop
  <2> QED BY <2>1, <2>2
<1>2. HeadlessIInv => StatusIsTrue
  <2> SUFFICES ASSUME HeadlessIInv PROVE StatusIsTrue
      OBVIOUS
  <2>1. NeverBusy
        BY DEF HeadlessIInv, BodyInv, NeverBusy
  <2>2. ZeroMeansWhole
    <3> SUFFICES ASSUME at = "exit", code = 0
                 PROVE  /\ newline /\ lastTurnState = "completed"
                        /\ \A t \in 1 .. turns :
                              /\ pc[t] = "ended" /\ events[t] = <<>>
                              /\ "error" \notin Items(printed[t])
                              /\ t \in completed \/ Signalled
        BY DEF ZeroMeansWhole
    <3>1. turns \in Nat /\ \A t \in 1 .. turns : t \in Turn /\ (t < turns \/ t = turns)
          BY TurnAssumption DEF HeadlessIInv, TypeOK, UIType, Turn
    <3>2. \A t \in 1 .. turns : Over(t)
          BY <3>1 DEF HeadlessIInv, LoopInv
    <3>3. newline /\ lastTurnState = "completed"
          BY DEF HeadlessIInv, LoopInv
    <3>4. \A t \in 1 .. turns : "error" \notin Items(printed[t])
          BY <3>1 DEF HeadlessIInv, ErrorInv
    <3> QED BY <3>2, <3>3, <3>4 DEF Over
  <2> QED BY <2>1, <2>2 DEF HeadlessIInv, StatusIsTrue
<1> QED BY <1>1, <1>2, HeadlessStart, PTL DEF HeadlessSpec
=============================================================================

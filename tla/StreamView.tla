----------------------------- MODULE StreamView -----------------------------
(***************************************************************************)
(* How a streamed answer gets onto the screen and into the daily log: the  *)
(* list of messages and the stream buffer of ui/model.go, whose last       *)
(* message grows with every chunk, and the buffer of ui/transcript.go,     *)
(* which writes an answer as one line when it is complete or another       *)
(* message comes in between.                                               *)
(*                                                                         *)
(* Everything that arrives (a chunk of text, a message of another kind) is *)
(* numbered in the order of arrival.  The files of successive days are one *)
(* log; one program writes it.                                             *)
(***************************************************************************)
EXTENDS Naturals, Sequences, SequencesExt

CONSTANTS
    MaxArrivals,  \* bound: chunks and messages
    MaxLost       \* bound: writes to the log that fail

ASSUME ViewAssumption == MaxArrivals \in Nat /\ MaxLost \in Nat

VARIABLES
    turnRuns,     \* m.streaming
    begun,        \* the turn's first state event has been handled
    messages,     \* m.messages
    streamBuffer, \* m.streamBuffer
    logBuf,       \* t.streamBuf
    streamActive, \* t.streamActive
    log,          \* the file
    answer,       \* agent.LastAssistantDisplayContent
  (* history variables *)
    arrivals,     \* what has arrived so far
    turnStart,    \* the first message of the turn
    stepText,     \* the chunks of the step
    turnText,     \* the chunks of the newest step with any
    disturbed,    \* a message of another kind came in since the step began
    unseen,       \* chunks that no message took in
    lost          \* what a failed write has lost

viewVars == <<turnRuns, begun, messages, streamBuffer, logBuf, streamActive, log, answer,
              arrivals, turnStart, stepText, turnText, disturbed, unseen, lost>>
logVars == <<logBuf, streamActive, log, lost>>

-----------------------------------------------------------------------------
Kind == {"think", "agent", "other"}
Text == Seq(0 .. MaxArrivals)
LastIs(kind) == messages # <<>> /\ Last(messages).kind = kind
Message(kind, text) == [kind |-> kind, text |-> text]

\* A buffered answer is never empty.
ViewTypeOK ==
    /\ turnRuns \in BOOLEAN /\ begun \in BOOLEAN /\ disturbed \in BOOLEAN
    /\ messages \in Seq([kind : Kind, text : Text])
    /\ {streamBuffer, logBuf, log, answer, stepText, turnText} \subseteq Text
    /\ streamActive \in BOOLEAN /\ (streamActive <=> logBuf # <<>>)
    /\ arrivals \in 0 .. MaxArrivals /\ turnStart \in Nat
    /\ unseen \subseteq 1 .. MaxArrivals /\ lost \subseteq 1 .. MaxArrivals

\* The history may begin with a rehearsed answer, which is not on the screen.
ViewInit ==
    /\ turnRuns = FALSE /\ begun = FALSE /\ messages = <<>> /\ streamBuffer = <<>>
    /\ logBuf = <<>> /\ streamActive = FALSE /\ log = <<>>
    /\ answer \in {<<>>, <<0>>}
    /\ arrivals = 0 /\ turnStart = 1 /\ stepText = <<>> /\ turnText = <<>>
    /\ disturbed = FALSE /\ unseen = {} /\ lost = {}

-----------------------------------------------------------------------------
(* ui/transcript.go *)

\* A write of the items of a sequence of lines, in this order; from the first that
\* fails nothing is written.
Write(lines) ==
    \E k \in 0 .. Len(lines) :
        /\ k = Len(lines) \/ Cardinality(lost) < MaxLost
        /\ log' = log \o FlattenSeq(SubSeq(lines, 1, k))
        /\ lost' = lost \cup ToSet(FlattenSeq(SubSeq(lines, k + 1, Len(lines))))

\* Fault: the buffer is emptied and still counts as active.
FaultForgets(lines) ==
    /\ Write(IF streamActive THEN <<logBuf>> \o lines ELSE lines)
    /\ logBuf' = <<>> /\ UNCHANGED streamActive

\* Fault: a message overtakes the answer in the buffer.
FaultOvertaken(lines) ==
    IF lines = <<>>
    THEN /\ Write(IF streamActive THEN <<logBuf>> ELSE <<>>)
         /\ logBuf' = <<>> /\ streamActive' = FALSE
    ELSE Write(lines) /\ UNCHANGED <<logBuf, streamActive>>

\* LogMessage of a message of another kind (FinishAgentMessage with none): the
\* buffered answer goes first, and is forgotten whether or not it could be written.
Flush(lines) ==
    /\ Write(IF streamActive THEN <<logBuf>> \o lines ELSE lines)
    /\ logBuf' = <<>> /\ streamActive' = FALSE

\* Fault: every chunk starts a new buffer.
FaultChunk(c) ==
    /\ logBuf' = <<c>> /\ streamActive' = TRUE
    /\ UNCHANGED <<log, lost>>

\* AppendAgentChunk
AppendAgentChunk(c) ==
    /\ logBuf' = Append(logBuf, c) /\ streamActive' = TRUE
    /\ UNCHANGED <<log, lost>>

-----------------------------------------------------------------------------
(* ui/model.go *)

Arrives == arrivals < MaxArrivals /\ arrivals' = arrivals + 1

\* addMessage of a message that is neither an answer nor a placeholder.
AddOther ==
    /\ messages' = Append(messages, Message("other", <<arrivals'>>))
    /\ Flush(<<<<arrivals'>>>>)
    /\ disturbed' = TRUE

\* The user's message, and the start of the turn.
Send ==
    /\ ~turnRuns
    /\ Arrives
    /\ turnRuns' = TRUE /\ begun' = FALSE /\ turnStart' = Len(messages) + 1
    /\ AddOther
    /\ stepText' = <<>> /\ turnText' = <<>>
    /\ UNCHANGED <<streamBuffer, answer, unseen>>

\* Any other message, by a command, a prompt that is queued, a tool or the player:
\* with a turn running or without.
Other ==
    /\ Arrives
    /\ AddOther
    /\ UNCHANGED <<turnRuns, begun, streamBuffer, answer, turnStart, stepText, turnText, unseen>>

\* The placeholder, once at the end of the list; it is not logged.
AddThink ==
    messages' = IF LastIs("think") THEN messages ELSE Append(messages, Message("think", <<>>))

\* The state event that opens a turn: placeholder and empty buffer.
Thinking ==
    /\ turnRuns /\ ~begun
    /\ begun' = TRUE
    /\ streamBuffer' = <<>>
    /\ messages' = Append(messages, Message("think", <<>>))
    /\ disturbed' = FALSE
    /\ UNCHANGED <<turnRuns, logVars, answer, arrivals, turnStart, stepText, turnText, unseen>>

\* The thinking event of a step (PrepareStep), after the first state event.
NextStep ==
    /\ turnRuns /\ begun
    /\ AddThink
    /\ stepText' = <<>> /\ disturbed' = FALSE
    /\ UNCHANGED <<turnRuns, begun, streamBuffer, logVars, answer, arrivals, turnStart, turnText, unseen>>

\* A thinking event with reasoning, in the middle of a step.
Reasoning ==
    /\ turnRuns /\ begun
    /\ AddThink
    /\ UNCHANGED <<turnRuns, begun, streamBuffer, logVars, answer, arrivals, turnStart,
                   stepText, turnText, disturbed, unseen>>

\* Fault: the placeholder stays.
FaultShown == messages

\* The list with the placeholder at its end made an empty answer.
Shown == IF LastIs("think") THEN Front(messages) \o <<Message("agent", <<>>)>> ELSE messages

\* A text event: the answer at the end of the list, if there is one, becomes the
\* whole stream buffer and the chunk is logged; otherwise it is only buffered.
TextEvent ==
    /\ turnRuns /\ begun
    /\ Arrives
    /\ streamBuffer' = Append(streamBuffer, arrivals')
    /\ IF Last(Shown).kind = "agent"
       THEN /\ messages' = Front(Shown) \o <<Message("agent", streamBuffer')>>
            /\ AppendAgentChunk(arrivals')
            /\ UNCHANGED unseen
       ELSE /\ messages' = Shown
            /\ unseen' = unseen \cup {arrivals'}
            /\ UNCHANGED logVars
    /\ stepText' = Append(stepText, arrivals') /\ turnText' = stepText'
    /\ UNCHANGED <<turnRuns, begun, answer, turnStart, disturbed>>

Agents(list) == {i \in DOMAIN list : list[i].kind = "agent"}

\* Fault: the first answer is corrected.
FaultSynced(content) ==
    IF content = <<>> \/ Agents(messages) = {} THEN messages
    ELSE [messages EXCEPT ![Min(Agents(messages))].text = content]

\* syncLastAssistantMessage: the newest answer on the screen becomes the newest in
\* the history, whichever turn either of them belongs to.
Synced(content) ==
    IF content = <<>> \/ Agents(messages) = {} THEN messages
    ELSE [messages EXCEPT ![Max(Agents(messages))].text = content]

\* agentDoneMsg after a turn that completed (its text is in the history) or failed
\* (the error message came before; what was streamed is in no history).
DoneMsg ==
    /\ turnRuns
    /\ turnRuns' = FALSE
    /\ answer' \in {answer, IF turnText = <<>> THEN answer ELSE turnText}
    /\ messages' = Synced(answer')
    /\ Flush(<<>>)
    /\ UNCHANGED <<begun, streamBuffer, arrivals, turnStart, stepText, turnText, disturbed, unseen>>

\* cancelActiveTurn: the buffer is flushed and a message says so.
InterruptTurn ==
    /\ turnRuns
    /\ Arrives
    /\ turnRuns' = FALSE
    /\ AddOther
    /\ UNCHANGED <<begun, streamBuffer, answer, turnStart, stepText, turnText, unseen>>

ViewNext ==
    Send \/ Other \/ Thinking \/ NextStep \/ Reasoning \/ TextEvent \/ DoneMsg \/ InterruptTurn

ViewSpec == ViewInit /\ [][ViewNext]_viewVars

-----------------------------------------------------------------------------
(* Properties *)

Logged == log \o logBuf

\* The log keeps the order of arrival, of answers and of the messages between
\* them, and has nothing twice.
LogInOrder == \A i, j \in DOMAIN Logged : i < j => Logged[i] < Logged[j]

\* What arrives is in the log, will be in its next line, or is accounted for: a
\* write failed, or the chunk came when the last message was no answer.
LogIsComplete == 1 .. arrivals = ToSet(Logged) \cup unseen \cup lost

\* Unless a message of another kind came in since the step began, every chunk of
\* the step is in an answer of this turn on the screen, and on its way to the log.
StepIsShown ==
    turnRuns /\ stepText # <<>> /\ ~disturbed =>
        /\ unseen \cap ToSet(stepText) = {}
        /\ \E i \in turnStart .. Len(messages) :
              messages[i].kind = "agent" /\ ToSet(stepText) \subseteq ToSet(messages[i].text)

\* The end of a turn corrects an answer of this turn and leaves the earlier ones
\* alone, unless this turn has put no answer on the screen.
EarlierAnswersStay ==
    [][Agents(messages) \cap turnStart .. Len(messages) # {} =>
        \A i \in 1 .. turnStart - 1 : messages'[i] = messages[i]]_viewVars

\* What streams in is on the screen and in the log, in order and for good.
AnswersAreKept ==
    /\ [](ViewTypeOK /\ LogInOrder /\ LogIsComplete /\ StepIsShown)
    /\ EarlierAnswersStay
=============================================================================

----------------------------- MODULE Transcript -----------------------------
(***************************************************************************)
(* The history of one context over several turns (agent.go, sendMessage):  *)
(* what a request holds, what an answer adds, the repair of tool calls     *)
(* without a result at the end of every turn, and /compact between turns.  *)
(* The bootstrap in front of it, which never changes, is left out but for  *)
(* its length and for where the cache marker of a request falls.           *)
(*                                                                         *)
(* Of fantasy, which is not in the repository, this is assumed: each step  *)
(* of an answer is an assistant message followed, when it calls tools that *)
(* were run, by one tool message with a result for each call.              *)
(***************************************************************************)
EXTENDS Messages, FiniteSets

CONSTANTS
    MaxTurns, \* bound: turns and compactions
    MaxSteps, \* bound: steps of an answer
    MaxCalls, \* calls of a step
    MaxDrains, \* bound: queued prompts taken into running turns
    Boot,     \* messages of the bootstrap
    Kept      \* messages /compact keeps, 4 in the code; it asks for 2 more

ASSUME TranscriptAssumption ==
    /\ MaxTurns \in Nat /\ MaxSteps \in Nat \ {0} /\ MaxCalls \in Nat /\ MaxDrains \in Nat
    /\ Boot \in Nat \ {0} /\ Kept \in Nat \ {0}

VARIABLES
    messages, \* Agent.messages
    prior,    \* the messages of the last request
    turns,    \* turns begun
    active,   \* is a turn running?
    made,     \* history: calls made so far; their ids are 1 .. made
    unrun,    \* history: the calls no tool was run for
    drains,   \* queued prompts taken so far
    compacts, \* compactions begun
    flushed,  \* history: the calls daily memory was told of
    silent    \* history: the calls the model had nothing durable to say of

compactVars == <<compacts, flushed, silent>>
transcriptVars == <<messages, prior, turns, active, made, unrun, drains, compactVars>>

Summary == Msg("user", <<Text(<<<<"summary", NoId>>>>)>>)
Prompt == Msg("user", <<Text(<<<<"prompt", NoId>>>>)>>)
Output(id) == <<"output", id>>

TranscriptTypeOK ==
    /\ turns \in 0 .. MaxTurns /\ active \in BOOLEAN /\ drains \in 0 .. MaxDrains
    /\ made \in Nat /\ unrun \subseteq 1 .. made
    /\ \A i \in DOMAIN messages : messages[i].role \in {"user", "assistant", "tool"}
    /\ compacts \in 0 .. MaxTurns
    \* The calls stand in the history once, in the order they were made, the latest of them.
    /\ LET calls == FlattenSeq([i \in DOMAIN messages |-> CallIds(messages[i])])
       IN  calls = [k \in DOMAIN calls |-> made - Len(calls) + k]

TranscriptInit ==
    /\ messages = <<>> /\ prior = <<>> /\ turns = 0 /\ active = FALSE
    /\ made = 0 /\ unrun = {} /\ drains = 0
    /\ compacts = 0 /\ flushed = {} /\ silent = {}

\* The prompt is appended, and the history goes through the older shape to the request.
Ask ==
    /\ ~active /\ turns + compacts < MaxTurns
    /\ turns' = turns + 1 /\ active' = TRUE
    /\ messages' = Append(messages, Prompt)
    /\ prior' = LET new == Append(messages, Prompt) IN Prior([i \in DOMAIN new |-> ToLLM(new[i])])
    /\ UNCHANGED <<made, unrun, drains, compactVars>>

\* drainAndMirrorQueuedPrompts, before a step.
Drain ==
    /\ active /\ drains < MaxDrains
    /\ drains' = drains + 1
    /\ messages' = Append(messages, Prompt)
    /\ UNCHANGED <<prior, turns, active, made, unrun, compactVars>>

\* The messages of a step that makes n calls, the first of them first, and runs them or not.
Step(first, n, run) ==
    <<Msg("assistant", <<Text(<<<<"text", NoId>>>>)>> \o [k \in 1 .. n |-> CallPart(first + k - 1)])>>
    \o (IF n > 0 /\ run
        THEN <<Msg("tool", [k \in 1 .. n |-> Result(first + k - 1, "text", <<Output(first + k - 1)>>)])>>
        ELSE <<>>)

\* An answer: steps that call tools, and a last one that may call tools it does not run.
Answers == UNION {[1 .. k -> 0 .. MaxCalls] : k \in 1 .. MaxSteps}

\* The first call of step k, the steps before it having made theirs.
FirstOf(ns, k) ==
    LET upTo[i \in 0 .. Len(ns)] == IF i = 0 THEN made + 1 ELSE upTo[i - 1] + ns[i]
    IN  upTo[k - 1]

AnswerMessages(ns, run) ==
    FlattenSeq([k \in DOMAIN ns |-> Step(FirstOf(ns, k), ns[k], k < Len(ns) \/ run)])

\* Fault: the history is not repaired after a clean end.
FaultDone ==
    \E ns \in Answers, run \in BOOLEAN :
        LET calls == FirstOf(ns, Len(ns) + 1) - 1
            lost == IF run THEN {} ELSE FirstOf(ns, Len(ns)) .. calls
            new == AnswerMessages(ns, run)
        IN
        /\ active
        /\ messages' = messages \o [i \in DOMAIN new |-> ToFantasy(ToLLM(new[i]))]
        /\ made' = calls
        /\ unrun' = unrun \cup lost
        /\ active' = FALSE
        /\ UNCHANGED <<prior, turns, drains, compactVars>>

\* "done": every message of the answer goes through the older shape and back.
Done ==
    \E ns \in Answers, run \in BOOLEAN :
        LET calls == FirstOf(ns, Len(ns) + 1) - 1
            lost == IF run THEN {} ELSE FirstOf(ns, Len(ns)) .. calls
            new == AnswerMessages(ns, run)
        IN
        /\ active
        /\ messages' = Sanitize(messages \o [i \in DOMAIN new |-> ToFantasy(ToLLM(new[i]))])
        /\ made' = calls
        /\ unrun' = unrun \cup lost
        /\ active' = FALSE
        /\ UNCHANGED <<prior, turns, drains, compactVars>>

\* An error or a cancellation: nothing of the answer is kept.
Fails ==
    /\ active
    /\ messages' = Sanitize(messages)
    /\ active' = FALSE
    /\ UNCHANGED <<prior, turns, made, unrun, drains, compactVars>>

Calls(msgs) == UNION {Range(CallIds(msgs[i])) : i \in DOMAIN msgs}
Old == SubSeq(messages, 1, Len(messages) - Kept)
KeptTail == SubSeq(messages, Len(messages) - Kept + 1, Len(messages))

\* Fault: no summary is put in when the model says nothing.
FaultRebuilt(said) == IF said THEN <<Summary>> \o KeptTail ELSE KeptTail

\* Compact, its last lines: a summary takes the place of the old messages, an empty one too.
Rebuilt(said) == <<Summary>> \o KeptTail

\* Fault: the history is rebuilt although daily memory could not be written.
FaultMemoryFlushed(memory) == memory \in {"none", "text", "fails"}

\* flushCompactedMessagesToDailyMemory returned no error; it asks nothing of no messages.
MemoryFlushed(memory) == memory # "fails"

\* /compact: what is durable in the old messages goes to daily memory, a model sums them up,
\* and they are dropped; an error of either leaves the history as it was, and what daily
\* memory has got stays there.
Compact ==
    /\ ~active /\ turns + compacts < MaxTurns
    /\ compacts' = compacts + 1
    /\ Boot + Len(messages) >= Kept + 2 /\ Len(messages) >= Kept
    /\ \E memory \in IF Old = <<>> THEN {"none"} ELSE {"none", "text", "fails"},
          summary \in {"empty", "text", "fails"} :
        /\ flushed' = IF memory = "text" THEN flushed \cup Calls(Old) ELSE flushed
        /\ silent' = IF memory = "none" THEN silent \cup Calls(Old) ELSE silent
        /\ messages' = IF MemoryFlushed(memory) /\ summary # "fails" THEN Rebuilt(summary = "text")
                       ELSE messages
    /\ UNCHANGED <<prior, turns, active, made, unrun, drains>>

TranscriptNext == Ask \/ Drain \/ Done \/ Fails \/ Compact

TranscriptSpec == TranscriptInit /\ [][TranscriptNext]_transcriptVars

-----------------------------------------------------------------------------
(* Properties *)

\* In the agent's history every tool call is answered in the next message, whatever the
\* turns did (sanitizeOrphanedToolUses).
HistoryIsPaired == Paired(messages)

\* In every request sent to the provider a tool call is answered in the next message ("so
\* Anthropic's API constraint ... is satisfied on the next request").  Of a step that called
\* several tools only the first call is: the message that answers them all has one id left.
RequestIsPaired ==
    \A i \in DOMAIN prior :
        prior[i].role = "assistant" /\ CallIds(prior[i]) # <<>> =>
            i < Len(prior) /\ CallIds(prior[i])[1] \in ResultIds(prior[i + 1])

Results(msgs) == UNION {{p \in Range(msgs[i].parts) : p.kind = "result"} : i \in DOMAIN msgs}

\* Calls made by a step that made no other.
Lone == UNION {LET ids == CallIds(messages[i]) IN IF Len(ids) = 1 THEN Range(ids) ELSE {} :
               i \in DOMAIN messages}

\* The result the history gives for a call is what its tool returned, and says "turn
\* cancelled" only of calls that were not run ("round-trips text + tool calls + tool
\* results"); of calls that are the only one of their step.
LoneResultsAreOwn ==
    \A p \in Results(messages) :
        p.id \in Lone => p.text = IF p.id \in unrun THEN Marker ELSE <<Output(p.id)>>

\* As documented, of every call.
ResultsAreOwn ==
    \A p \in Results(messages) :
        p.text = IF p.id \in unrun THEN Marker ELSE <<Output(p.id)>>

\* What /compact took out of the history daily memory was told of, or the model said that
\* nothing of it was durable, however often it failed before (agent.go:1042).
GoneIsRemembered ==
    \A id \in 1 .. made : id \in Calls(messages) \cup flushed \cup silent

\* A result stands behind the message that made its call.  /compact counts messages and not
\* exchanges: it may cut a result from its call, and nothing takes that out (the repair
\* looks for calls without a result only), but it stands behind the summary and goes with
\* the next one.
ResultsFollowCalls ==
    \A i \in DOMAIN messages : \A id \in ResultIds(messages[i]) :
        i > 1 /\ (id \in Range(CallIds(messages[i - 1])) \/ (i = 2 /\ messages[1] = Summary))

\* With any bootstrap of one or two system messages and a pair or none, the cache marker is
\* on its last message ("caching there maximizes prefix reuse"), in every request.
Pairs == {<<>>, <<[role |-> "user", text |-> <<>>, calls |-> <<>>, answers |-> NoId],
                  [role |-> "assistant", text |-> <<>>, calls |-> <<>>, answers |-> NoId]>>}
MarkerAtBoundary ==
    active => \A systems \in 1 .. 2, pairs \in Pairs :
        LET boot == [i \in 1 .. systems |->
                        [role |-> "system", text |-> <<>>, calls |-> <<>>, answers |-> NoId]] \o pairs
            request == boot \o [i \in DOMAIN messages |-> ToLLM(messages[i])]
        IN  /\ Boundary(request, Len(boot)) = Len(Prepared(boot))
            /\ SubSeq(Prepared(request), 1, Len(Prepared(boot))) = Prepared(boot)

\* Requests and histories answer every call in its place with the output of its own tool,
\* as far as a step of one call goes, and what leaves a history is kept elsewhere.
CallsAreAnswered ==
    /\ TranscriptTypeOK /\ HistoryIsPaired /\ RequestIsPaired /\ LoneResultsAreOwn
    /\ GoneIsRemembered /\ ResultsFollowCalls /\ MarkerAtBoundary
=============================================================================

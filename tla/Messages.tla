------------------------------ MODULE Messages ------------------------------
(***************************************************************************)
(* The two shapes of a message and what turns one into the other.          *)
(*                                                                         *)
(* The agent's history holds fantasy messages: a role and a sequence of    *)
(* parts.  At every request and in every answer they pass through the      *)
(* older shape of llm.Message (llm/convert.go): a text, a list of tool     *)
(* calls and at most one id of a call it answers.  A text is the sequence  *)
(* of what was concatenated, each with the call it is about (NoId: none),  *)
(* so that nothing is lost or mixed unseen.                                *)
(***************************************************************************)
EXTENDS Naturals, Sequences, SequencesExt, FiniteSets

NoId == 0
Marker == <<<<"turn cancelled", NoId>>>>

Text(t) == [kind |-> "text", text |-> t]
CallPart(id) == [kind |-> "call", id |-> id]
Result(id, how, t) == [kind |-> "result", id |-> id, how |-> how, text |-> t]
Msg(role, parts) == [role |-> role, parts |-> parts]

\* The elements of a sequence that are in a set, in their order.
Those(s, T) ==
    LET upTo[i \in 0 .. Len(s)] ==
            IF i = 0 THEN <<>>
            ELSE IF s[i] \in T THEN Append(upTo[i - 1], s[i]) ELSE upTo[i - 1]
    IN  upTo[Len(s)]

OfKind(m, kind) == {p \in Range(m.parts) : p.kind = kind}
WithId(m, kind) == {p \in OfKind(m, kind) : p.id # NoId}

\* collectToolCallIDs and collectToolResultIDs.
CallIds(m) ==
    LET calls == Those(m.parts, WithId(m, "call"))
    IN  [i \in DOMAIN calls |-> calls[i].id]

ResultIds(m) ==
    {p.id : p \in WithId(m, "result")}

-----------------------------------------------------------------------------
(* llm/convert.go *)

\* What a part adds to the text: of a tool's output only a text output.
Projected(p) ==
    IF p.kind = "text" \/ (p.kind = "result" /\ p.how = "text") THEN p.text ELSE <<>>

FirstResult(m) ==
    LET ids == Those(m.parts, WithId(m, "result"))
    IN  IF ids = <<>> THEN NoId ELSE ids[1].id

\* Fault: of the calls, too, only the first is kept.
FaultToLLM(m) ==
    [role |-> m.role,
     text |-> FlattenSeq([i \in DOMAIN m.parts |-> Projected(m.parts[i])]),
     calls |-> LET calls == Those(m.parts, OfKind(m, "call"))
               IN  [i \in 1 .. (IF calls = <<>> THEN 0 ELSE 1) |-> calls[i].id],
     answers |-> FirstResult(m)]

\* fantasyToLLM: one text, the calls in order, the first id that is answered.
ToLLM(m) ==
    LET calls == Those(m.parts, OfKind(m, "call")) IN
    [role |-> m.role,
     text |-> FlattenSeq([i \in DOMAIN m.parts |-> Projected(m.parts[i])]),
     calls |-> [i \in DOMAIN calls |-> calls[i].id],
     answers |-> FirstResult(m)]

TextPart(t) == IF t = <<>> THEN <<>> ELSE <<Text(t)>>
CallParts(l) == [i \in DOMAIN l.calls |-> CallPart(l.calls[i])]

\* Fault: an assistant's text is dropped.
FaultToFantasy(l) ==
    Msg(l.role, IF l.role = "tool" THEN <<Result(l.answers, "text", l.text)>>
                ELSE IF l.role = "assistant" THEN CallParts(l)
                ELSE TextPart(l.text))

\* LLMToFantasy.
ToFantasy(l) ==
    Msg(l.role, IF l.role = "tool" THEN <<Result(l.answers, "text", l.text)>>
                ELSE IF l.role = "assistant" THEN TextPart(l.text) \o CallParts(l)
                ELSE TextPart(l.text))

\* splitForFantasy: the system messages and a user message at the end are passed apart; the
\* rest is what the request holds as its messages, a user's always with a text part.
Lifted(l) == IF l.role = "user" THEN Msg("user", <<Text(l.text)>>) ELSE ToFantasy(l)

\* All but the system messages.
Conversation(ls) == Those(ls, {l \in Range(ls) : l.role # "system"})

TailUser(ls) ==
    LET rest == Conversation(ls)
    IN  rest # <<>> /\ Last(rest).role = "user"

Prior(ls) ==
    LET rest == Conversation(ls)
        said == IF TailUser(ls) THEN Front(rest) ELSE rest
    IN  [i \in DOMAIN said |-> Lifted(said[i])]

\* The messages fantasy hands to PrepareStep: one system message, the rest, the user's last.
Prepared(ls) ==
    LET said == Conversation(ls)
    IN  (IF \E i \in DOMAIN ls : ls[i].role = "system" THEN <<Msg("system", <<>>)>> ELSE <<>>)
        \o [i \in DOMAIN said |-> Lifted(said[i])]

Systems(ls, n) == Cardinality({i \in 1 .. n : ls[i].role = "system"})

\* Fault: every system message is counted.
FaultBoundary(ls, boot) == IF boot = 0 \/ boot > Len(ls) THEN 0 ELSE boot

\* bootstrapPreparedIndex, from 1 (0: none): which of these is the last of the bootstrap.
Boundary(ls, boot) ==
    IF boot = 0 \/ boot > Len(ls) THEN 0
    ELSE IF Systems(ls, boot) > 1 THEN boot - (Systems(ls, boot) - 1) ELSE boot

-----------------------------------------------------------------------------
(* agent.go: sanitizeOrphanedToolUsesIn *)

\* Fault: only a user's message is looked at.
FaultBucket(msgs, i) ==
    i \in DOMAIN msgs /\ msgs[i].role = "user" /\ ResultIds(msgs[i]) # {}

\* May results be added to message i?
Bucket(msgs, i) ==
    i \in DOMAIN msgs /\ msgs[i].role \in {"tool", "user"} /\ ResultIds(msgs[i]) # {}

Orphans(msgs, i) ==
    IF i \notin DOMAIN msgs \/ msgs[i].role # "assistant" THEN <<>>
    ELSE Those(CallIds(msgs[i]),
               Range(CallIds(msgs[i])) \ (IF Bucket(msgs, i + 1) THEN ResultIds(msgs[i + 1]) ELSE {}))

Synthetic(ids) == [k \in DOMAIN ids |-> Result(ids[k], "text", Marker)]

\* Fault: a message that already has results is not extended.
FaultEmit(msgs, i) ==
    <<msgs[i]>>
    \o (IF Orphans(msgs, i) # <<>> /\ ~Bucket(msgs, i + 1)
        THEN <<Msg("tool", Synthetic(Orphans(msgs, i)))>> ELSE <<>>)

\* Fault: a message is spliced in even when the next one has results already.
FaultSplice(msgs, i) ==
    <<msgs[i]>>
    \o (IF Orphans(msgs, i) # <<>> THEN <<Msg("tool", Synthetic(Orphans(msgs, i)))>> ELSE <<>>)

\* Fault: what is spliced in takes the place of the next message.
FaultOver(msgs, i) ==
    IF Orphans(msgs, i - 1) # <<>> THEN <<Msg("tool", Synthetic(Orphans(msgs, i - 1)))>>
    ELSE <<msgs[i]>>

\* Message i, with the results missing before it added when it has some already, and
\* followed by a message of its own orphans' results when the next has none.
Emit(msgs, i) ==
    <<IF Bucket(msgs, i) THEN [msgs[i] EXCEPT !.parts = @ \o Synthetic(Orphans(msgs, i - 1))]
      ELSE msgs[i]>>
    \o (IF Orphans(msgs, i) # <<>> /\ ~Bucket(msgs, i + 1)
        THEN <<Msg("tool", Synthetic(Orphans(msgs, i)))>> ELSE <<>>)

Sanitize(msgs) == FlattenSeq([i \in DOMAIN msgs |-> Emit(msgs, i)])

-----------------------------------------------------------------------------

\* What a provider asks of a request: every call is answered in the next message.
Paired(msgs) ==
    \A i \in DOMAIN msgs :
        msgs[i].role = "assistant" =>
            \A id \in Range(CallIds(msgs[i])) :
                i < Len(msgs) /\ id \in ResultIds(msgs[i + 1])
=============================================================================

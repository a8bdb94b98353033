--------------------------- MODULE EntryProjection --------------------------
(***************************************************************************)
(* A line of a session file holds a message twice (session/session.go):    *)
(* as a fantasy message, and as the older fields for a binary that knows   *)
(* only those, with a flag when the older fields do not say all.           *)
(***************************************************************************)
EXTENDS Messages, FiniteSets

CONSTANTS EntryIds, MaxEntryParts

ASSUME ProjectionAssumption == NoId \notin EntryIds /\ MaxEntryParts \in Nat

VARIABLES
    msg,  \* a message
    entry \* the fields a line keeps of it

entryVars == <<msg, entry>>

Reasoning == [kind |-> "reasoning"]
File == [kind |-> "file"]

-----------------------------------------------------------------------------

NoFields == [text |-> <<>>, n |-> 0, calls |-> <<>>, answers |-> NoId, lossy |-> FALSE]

\* Fault: an output that is lossy is flagged before it is looked at.
FaultTake(e, p) ==
    LET lossy == e.lossy \/ (p.kind = "result" /\ p.how # "text") IN
    CASE p.kind = "text" -> [e EXCEPT !.text = @ \o p.text, !.n = @ + 1]
      [] p.kind = "call" -> [e EXCEPT !.calls = Append(@, p.id)]
      [] p.kind = "result" ->
            [e EXCEPT !.answers = IF @ = NoId THEN p.id ELSE @,
                      !.text = IF lossy THEN @ ELSE @ \o p.text,
                      !.n = IF lossy THEN @ ELSE @ + 1,
                      !.lossy = lossy]
      [] OTHER -> [e EXCEPT !.lossy = TRUE]

\* appendToolResultText: media without a text is no part of its own; anything but a text is
\* lossy.
TakeOutput(e, p) ==
    [e EXCEPT !.text = @ \o p.text, !.n = IF p.how = "media" /\ p.text = <<>> THEN @ ELSE @ + 1,
              !.lossy = p.how # "text"]

\* One part of projectFantasyToLegacy.  "lossy = lossy || append...(...)": once something
\* was lossy, the output of a result is not looked at.
Take(e, p) ==
    CASE p.kind = "text" -> [e EXCEPT !.text = @ \o p.text, !.n = @ + 1]
      [] p.kind = "call" -> [e EXCEPT !.calls = Append(@, p.id)]
      [] p.kind = "result" ->
            [(IF e.lossy THEN e ELSE TakeOutput(e, p)) EXCEPT
                !.answers = IF @ = NoId THEN p.id ELSE @]
      [] OTHER -> [e EXCEPT !.lossy = TRUE]

\* Fault: texts run together are not flagged.
FaultProject(m) ==
    LET e == FoldLeft(Take, NoFields, m.parts)
    IN  [role |-> m.role, text |-> e.text, calls |-> e.calls, answers |-> e.answers,
         lossy |-> e.lossy]

\* projectFantasyToLegacy: more than one text run together is lossy too.
Project(m) ==
    LET e == FoldLeft(Take, NoFields, m.parts)
    IN  [role |-> m.role, text |-> e.text, calls |-> e.calls, answers |-> e.answers,
         lossy |-> e.lossy \/ e.n > 1]

\* legacyEntryToFantasy: what a binary that knows only the older fields restores.
FromLegacy(e) ==
    Msg(e.role, IF e.role = "tool" THEN <<Result(e.answers, "text", e.text)>>
                ELSE IF e.role = "assistant" THEN TextPart(e.text) \o CallParts(e)
                ELSE <<Text(e.text)>>)

-----------------------------------------------------------------------------

Outputs(id) ==
    {Result(id, how, <<<<how, id>>>>) : how \in {"text", "media", "error"}}
    \cup {Result(id, "media", <<>>)}

\* The messages there are: an assistant's text comes before its calls, a tool message holds
\* results, a user's message a text; reasoning and files stand anywhere.
Message(m) ==
    LET Is(kind, i) == m.parts[i].kind = kind IN
    /\ m.role = "assistant" =>
        \A i, j \in DOMAIN m.parts : Is("call", i) /\ Is("text", j) => j < i
    /\ m.role = "tool" => m.parts # <<>> /\ \A i \in DOMAIN m.parts : Is("result", i)
    /\ m.role = "user" => m.parts # <<>> /\ Is("text", 1)

SaidText == Text(<<<<"said", NoId>>>>)

EntryPartsOf(role) ==
    IF role = "assistant" THEN {SaidText, Reasoning} \cup {CallPart(id) : id \in EntryIds}
    ELSE IF role = "tool" THEN UNION {Outputs(id) : id \in EntryIds}
    ELSE {SaidText, File}

EntryShapes ==
    UNION {{Msg(role, parts) : parts \in UNION {[1 .. n -> EntryPartsOf(role)] : n \in 0 .. MaxEntryParts}} :
           role \in {"user", "assistant", "tool"}}

EntryInit == msg \in {m \in EntryShapes : Message(m)} /\ entry = NoFields

Save == entry = NoFields /\ entry' = Project(msg) /\ UNCHANGED msg

EntrySpec == EntryInit /\ [][Save]_entryVars

-----------------------------------------------------------------------------
(* Properties *)

Saved == entry # NoFields

\* An older binary restores exactly the message, unless the line says it lost something.
DowngradeIsExact == Saved /\ ~entry.lossy => FromLegacy(entry) = msg

Lossless(p) == p.kind \in {"text", "call"} \/ (p.kind = "result" /\ p.how = "text")

\* The older fields hold the text of a tool's output, media and errors included, up to the
\* first part that is not all kept; the outputs after it are not looked at.
OutputsAreKept ==
    Saved => \A i \in DOMAIN msg.parts :
                msg.parts[i].kind = "result" /\ (\A j \in 1 .. i - 1 : Lossless(msg.parts[j])) =>
                    Range(msg.parts[i].text) \subseteq Range(entry.text)

\* A line says all of its message to an older binary, or that it does not, and keeps the
\* outputs it can.
LineSaysWhatItHolds == DowngradeIsExact /\ OutputsAreKept
=============================================================================

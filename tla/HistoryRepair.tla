--------------------------- MODULE HistoryRepair ----------------------------
(***************************************************************************)
(* sanitizeOrphanedToolUsesIn and the two conversions of llm/convert.go on *)
(* every short history a session file may bring back, not only on those    *)
(* the agent's own turns make.                                             *)
(***************************************************************************)
EXTENDS Messages, FiniteSets

CONSTANTS
    Ids,      \* ids of tool calls, NoId among them
    MaxParts, \* bound: parts of a message
    MaxLen    \* bound: messages

ASSUME RepairAssumption == NoId \in Ids /\ MaxParts \in Nat /\ MaxLen \in Nat

VARIABLE history

Said == <<<<"said", NoId>>>>
PartsOf(role) ==
    IF role = "assistant" THEN {Text(Said)} \cup {CallPart(id) : id \in Ids}
    ELSE IF role = "tool" THEN {Result(id, how, Said) : id \in Ids, how \in {"text", "error"}}
    ELSE {Text(Said)} \cup {Result(id, "text", Said) : id \in Ids}

Shapes ==
    UNION {{Msg(role, parts) : parts \in UNION {[1 .. n -> PartsOf(role)] : n \in 0 .. MaxParts}} :
           role \in {"user", "assistant", "tool"}}

RepairInit == history = <<>>

Add == Len(history) < MaxLen /\ \E m \in Shapes : history' = Append(history, m)

RepairSpec == RepairInit /\ [][Add]_history

-----------------------------------------------------------------------------
(* Properties *)

\* "Idempotent: calling on a clean transcript is a no-op."
RepairIsIdempotent(out) == Sanitize(out) = out

Repaired(p) == p.kind = "result" /\ p.text = Marker

\* A message without the results of the repair.
AsItWas(m) == [m EXCEPT !.parts = Those(@, {p \in Range(@) : ~Repaired(p)})]
Added(m) == m.parts # <<>> /\ AsItWas(m).parts = <<>>

\* The repair adds results of its own and nothing else: without them the history is as it
\* was, message for message and part for part.
RepairKeeps(out) ==
    LET kept == Those(out, {m \in Range(out) : ~Added(m)})
    IN  [k \in DOMAIN kept |-> AsItWas(kept[k])] = history

Proper(m) == m.role = "user" => ResultIds(m) = {}

\* A message of a proper shape survives the older one: lifted and projected again it is the
\* same llm.Message.
ShapeIsStable ==
    \A i \in DOMAIN history :
        Proper(history[i]) => ToLLM(ToFantasy(ToLLM(history[i]))) = ToLLM(history[i])

\* The repair of a history answers every call that has an id in the next message, changes
\* nothing else, and leaves nothing for a second one; and the older shape takes nothing from a
\* message it can hold.
RepairIsRight ==
    LET out == Sanitize(history)
    IN  Paired(out) /\ RepairIsIdempotent(out) /\ RepairKeeps(out) /\ ShapeIsStable
=============================================================================

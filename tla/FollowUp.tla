------------------------------ MODULE FollowUp ------------------------------
(***************************************************************************)
(* Autonomous follow-ups (agent.go): which turn the agent starts by itself *)
(* after which, by the word a model begins its answer with when it is      *)
(* done, and how that word is kept from the screen, where the answer comes *)
(* in chunks, and from the history, where it comes in messages.            *)
(*                                                                         *)
(* A text is a sequence of pieces: the two halves of the words, a space, a *)
(* separator (a colon or a hyphen) or anything else.                       *)
(***************************************************************************)
EXTENDS Naturals, Sequences, SequencesExt

CONSTANTS
    MaxPieces, \* bound: pieces of an answer
    MaxChunk,  \* bound: pieces of a chunk
    MaxMessages \* bound: messages of an answer

ASSUME FollowUpAssumption == {MaxPieces, MaxChunk, MaxMessages} \subseteq Nat

VARIABLES
    kind,     \* of the running turn, or "idle"
    said,     \* the messages of the answer so far; joined they are lastAssistantRaw
    shown,    \* what of it was sent to the screen
    mode, buffer, \* followUpStreamSanitizer
    ended,    \* lastTurnState
    lastKind, \* lastCompletedFollowUp
    kept      \* the messages of the last completed turn, as the history has them

followVars == <<kind, said, shown, mode, buffer, ended, lastKind, kept>>

Pieces == {" ", ":", "AUTONEXT", "AUTOIDEA", "_DONE", "word"}
Token == [steps |-> <<"AUTONEXT", "_DONE">>, idea |-> <<"AUTOIDEA", "_DONE">>]
DoneNote == <<"Done.">>

TrimLeft(text, cut) ==
    LET stays == {i \in DOMAIN text : text[i] \notin cut}
    IN  IF stays = {} THEN <<>>
        ELSE SubSeq(text, CHOOSE i \in stays : \A j \in stays : i <= j, Len(text))

Raw == FlattenSeq(said)

FollowInit ==
    /\ kind = "idle" /\ said = <<>> /\ shown = <<>> /\ mode = "pass" /\ buffer = <<>>
    /\ ended = "none" /\ lastKind = "none" /\ kept = <<>>

-----------------------------------------------------------------------------
(* Which turn comes next *)

\* Fault: spaces before the word are not passed over.
FaultMarkedDone(k) == IsPrefix(Token[k], Raw)

MarkedDone(k) == IsPrefix(Token[k], TrimLeft(Raw, {" "}))

\* MaybeQueueFollowUp, with the two flags as they are set then.
FollowUps(autoSteps, autoIdea) ==
    CASE ended # "completed" \/ ~(autoSteps \/ autoIdea) -> {}
      [] lastKind = "idea" -> IF MarkedDone("idea") THEN {} ELSE {"steps"}
      [] lastKind = "steps" ->
            IF ~MarkedDone("steps") THEN {"steps"} ELSE IF autoIdea THEN {"idea"} ELSE {}
      [] OTHER -> IF autoSteps THEN {"steps"} ELSE {"idea"}

Begin(k) ==
    /\ kind = "idle"
    /\ k = "none" \/ \E autoSteps, autoIdea \in BOOLEAN : k \in FollowUps(autoSteps, autoIdea)
    /\ kind' = k /\ said' = <<<<>>>> /\ shown' = <<>> /\ kept' = <<>>
    /\ mode' = IF k = "none" THEN "pass" ELSE "undecided"
    /\ buffer' = <<>>
    /\ UNCHANGED <<ended, lastKind>>

-----------------------------------------------------------------------------
(* What is shown *)

\* Fault: what was held is held on.
FaultStripped(text) ==
    LET rest == TrimLeft(text, {" ", ":"})
    IN  [mode |-> IF rest = <<>> THEN "strip" ELSE "pass", buffer |-> buffer, out |-> rest]

\* followUpStreamSanitizer: after a word, up to what is neither space nor separator.
Stripped(text) ==
    LET rest == TrimLeft(text, {" ", ":"})
    IN  [mode |-> IF rest = <<>> THEN "strip" ELSE "pass", buffer |-> <<>>, out |-> rest]

\* Fault: a text that may become one of the words is shown.
FaultDecided(text) ==
    LET start == TrimLeft(text, {" "})
        token == CHOOSE t \in Range(Token) : IsPrefix(t, start) IN
    IF start = <<>> THEN [mode |-> "undecided", buffer |-> text, out |-> <<>>]
    ELSE IF \E t \in Range(Token) : IsPrefix(t, start)
    THEN Stripped(SubSeq(start, Len(token) + 1, Len(start)))
    ELSE [mode |-> "pass", buffer |-> <<>>, out |-> text]

\* consumeBuffer: a text that is a word so far is held, one that begins with a word is
\* stripped of it, any other is shown.
Decided(text) ==
    LET start == TrimLeft(text, {" "})
        token == CHOOSE t \in Range(Token) : IsPrefix(t, start) IN
    IF \E t \in Range(Token) : IsPrefix(start, t)
    THEN [mode |-> "undecided", buffer |-> text, out |-> <<>>]
    ELSE IF \E t \in Range(Token) : IsPrefix(t, start)
    THEN Stripped(SubSeq(start, Len(token) + 1, Len(start)))
    ELSE [mode |-> "pass", buffer |-> <<>>, out |-> text]

Consumed(chunk) ==
    CASE mode = "pass" -> [mode |-> "pass", buffer |-> <<>>, out |-> chunk]
      [] mode = "strip" -> Stripped(chunk)
      [] mode = "undecided" -> Decided(buffer \o chunk)

\* A chunk of the last message.
Chunk ==
    /\ kind # "idle"
    /\ \E n \in 1 .. MaxChunk : Len(Raw) + n <= MaxPieces /\ \E chunk \in [1 .. n -> Pieces] :
        LET now == Consumed(chunk) IN
        /\ said' = [said EXCEPT ![Len(said)] = @ \o chunk]
        /\ mode' = now.mode /\ buffer' = now.buffer /\ shown' = shown \o now.out
        /\ UNCHANGED <<kind, ended, lastKind, kept>>

\* The model calls a tool, and goes on in another message.
NextMessage ==
    /\ kind # "idle" /\ Len(said) < MaxMessages
    /\ said' = Append(said, <<>>)
    /\ UNCHANGED <<kind, shown, mode, buffer, ended, lastKind, kept>>

-----------------------------------------------------------------------------
(* What is kept *)

\* Fault: a colon that follows the word is left.
FaultSanitized(text) ==
    LET start == TrimLeft(text, {" "})
        rest == TrimLeft(SubSeq(start, 3, Len(start)), {" "}) IN
    IF \A t \in Range(Token) : ~IsPrefix(t, start) THEN text
    ELSE IF rest = <<>> THEN DoneNote ELSE rest

\* sanitizeAssistantText.
Sanitized(text) ==
    LET start == TrimLeft(text, {" "})
        rest == TrimLeft(SubSeq(start, 3, Len(start)), {" ", ":"}) IN
    IF \A t \in Range(Token) : ~IsPrefix(t, start) THEN text
    ELSE IF rest = <<>> THEN DoneNote ELSE rest

\* Fault: what is held is not shown.
FaultFlushed == shown

\* Flush.
Flushed == IF mode = "undecided" THEN shown \o buffer ELSE shown

\* "done".
Complete ==
    /\ kind # "idle"
    /\ shown' = Flushed /\ mode' = "pass" /\ buffer' = <<>>
    /\ kept' = [i \in DOMAIN said |-> Sanitized(said[i])]
    /\ kind' = "idle" /\ ended' = "completed" /\ lastKind' = kind
    /\ UNCHANGED said

\* An error or a cancellation: what is held is never shown, and nothing kept.
Fail ==
    /\ kind # "idle"
    /\ mode' = "pass" /\ buffer' = <<>>
    /\ kind' = "idle" /\ ended' = "failed"
    /\ UNCHANGED <<said, shown, lastKind, kept>>

FollowNext ==
    (\E k \in {"none", "steps", "idea"} : Begin(k)) \/ Chunk \/ NextMessage \/ Complete \/ Fail

FollowSpec == FollowInit /\ [][FollowNext]_followVars

-----------------------------------------------------------------------------
(* Properties *)

FollowTypeOK ==
    /\ kind \in {"idle", "none", "steps", "idea"} /\ mode \in {"pass", "undecided", "strip"}
    /\ ended \in {"none", "completed", "failed"} /\ lastKind \in {"none", "steps", "idea"}
    \* What is held is all of the answer so far, and nothing of it was shown.
    /\ buffer # <<>> => mode = "undecided" /\ buffer = Raw /\ shown = <<>>

Ended == kind = "idle" /\ ended = "completed"

\* After a follow-up turn of one message the screen shows what the history keeps, however
\* the answer was cut into chunks.  Of a bare word the history keeps "Done." and the screen
\* shows nothing, or the word itself when nothing at all came after it.
ShownIsKept ==
    Ended /\ lastKind # "none" /\ Len(said) = 1 =>
        \/ shown = kept[1]
        \/ kept[1] = DoneNote /\ (shown = <<>> \/ TrimLeft(Raw, {" "}) \in Range(Token))

BeginsWith(text, word) ==
    \E i \in 1 .. Len(text) - 1 : SubSeq(text, i, i + 1) = word /\ \A j \in 1 .. i - 1 : text[j] = " "

\* After an answer that begins with the word of its kind the agent goes on, if at all, from
\* the steps to an idea.  That is so for an answer of one message: of several only the
\* beginning of the first is looked at, and the history is rid of words that were not.
DoneEndsKind ==
    [][\A k \in {"steps", "idea"} :
        lastKind # "none" /\ Len(said) = 1 /\ Begin(k) /\ BeginsWith(said[1], Token[lastKind]) =>
            lastKind = "steps" /\ k = "idea"]_followVars

\* The word by which an answer says that it is done ends the follow-ups, and is taken out
\* of the screen and the history alike.
WordIsHeeded == [](FollowTypeOK /\ ShownIsKept) /\ DoneEndsKind
=============================================================================

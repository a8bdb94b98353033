-------------------------- MODULE TranscriptProofs --------------------------
(***************************************************************************)
(* What the history of a context is held to (Transcript), for every number *)
(* of turns, steps, calls, queued prompts and compactions: each call is    *)
(* answered in its place, in histories and requests, and what leaves a     *)
(* history is kept elsewhere.                                              *)
(*                                                                         *)
(* A history is described by where its calls are (Draft): nx[i] is the     *)
(* first call made behind message i, and message i is a prompt or summary, *)
(* an assistant message with the calls nx[i-1] .. nx[i] - 1, or the        *)
(* answer to the calls of the message before it.  The lemmas show what     *)
(* the adapter, the repair, an answer and /compact make of a Draft, and    *)
(* what a Draft implies; TranscriptIInv adds what /compact took away.      *)
(***************************************************************************)
EXTENDS MessageProofs, FiniteSetTheorems

-----------------------------------------------------------------------------
(* The history of a context over its turns (Transcript) *)

\* What the messages of a history may say.
Spoken ==
    {<<"summary", NoId>>, <<"prompt", NoId>>, <<"text", NoId>>, <<"turn cancelled", NoId>>}
    \cup {Output(id) : id \in Nat}
Written ==
    ({Text(<<w>>) : w \in Spoken} \cup {CallPart(id) : id \in Nat})
    \cup {Result(id, "text", t) : id \in Nat, t \in Seq(Spoken)}
Wording == <<<<"text", NoId>>>>

\* The message of a step whose n calls begin with f.
Utter(f, n) == Msg("assistant", TextPart(Wording) \o [k \in 1 .. n |-> CallPart(f + k - 1)])

\* An answer to the n calls from f on, of which the calls of u were not run; what it says of each
\* is certain when there is one.
AnswerOf(p, f, n, u) ==
    /\ p.kind = "result" /\ p.id \in f .. f + n - 1
    /\ n = 1 => p.text = IF f \in u THEN Marker ELSE <<Output(f)>>
Answering(m, f, n, u) ==
    /\ m.role = "tool" /\ m.parts # <<>> /\ m.parts[1].id = f
    /\ \A i \in 1 .. Len(m.parts) : AnswerOf(m.parts[i], f, n, u)

\* What message i of a history is; nx[i] is the first call made behind it.
Plain(nx, msgs, i) == msgs[i] \in {Prompt, Summary} /\ nx[i] = nx[i - 1]
Utters(nx, msgs, i) == nx[i] >= nx[i - 1] /\ msgs[i] = Utter(nx[i - 1], nx[i] - nx[i - 1])
Behind(nx, msgs, i, n) ==
    \/ nx[i - 2] = nx[i] - n /\ msgs[i - 1] = Utter(nx[i - 2], n)
    \/ i = 2 /\ msgs[1] = Summary
Gives(nx, msgs, u, i) ==
    /\ nx[i] = nx[i - 1] /\ i > 1
    /\ \E n \in 1 .. nx[i] - 1 : Answering(msgs[i], nx[i] - n, n, u) /\ Behind(nx, msgs, i, n)
InPlace(nx, msgs, u, i) == Plain(nx, msgs, i) \/ Utters(nx, msgs, i) \/ Gives(nx, msgs, u, i)
Heeded(nx, msgs, u, i) == nx[i] > nx[i - 1] => Answering(msgs[i + 1], nx[i - 1], nx[i] - nx[i - 1], u)

\* A history in which only the calls of the last message may be without an answer.
Draft(nx, msgs, u) ==
    /\ msgs \in Seq(MessagesOf(Written)) /\ nx \in [0 .. Len(msgs) -> Nat \ {0}]
    /\ \A i \in 1 .. Len(msgs) : InPlace(nx, msgs, u, i)
    /\ \A i \in 1 .. Len(msgs) - 1 : Heeded(nx, msgs, u, i)
    /\ Len(msgs) > 0 /\ msgs[1] = Summary => Len(msgs) > Kept

LEMMA WordsOfTurns ==
    /\ Wording \in Seq(Spoken) /\ Marker \in Seq(Spoken) /\ Wording # <<>>
    /\ \A id \in Nat : <<Output(id)>> \in Seq(Spoken)
<1> DEFINE x == <<"text", NoId>>
           y == <<"turn cancelled", NoId>>
<1>1. x \in Spoken /\ y \in Spoken /\ \A id \in Nat : Output(id) \in Spoken
      BY DEF Spoken
<1>2. Wording = <<x>> /\ Marker = <<y>>
      BY DEF Wording, Marker
<1> HIDE DEF x, y
<1>3. \A z \in Spoken : <<z>> \in Seq(Spoken) /\ Len(<<z>>) = 1
      OBVIOUS
<1>4. Len(Wording) = 1
      BY <1>1, <1>2, <1>3
<1> QED BY <1>1, <1>2, <1>3, <1>4, EmptySeq

\* The parts that messages of a history are made of.
LEMMA PartsWritten ==
    /\ \A w \in Spoken : Text(<<w>>) \in Written
    /\ \A id \in Nat : CallPart(id) \in Written
    /\ \A id \in Nat : \A t \in Seq(Spoken) : Result(id, "text", t) \in Written
BY DEF Written

LEMMA WrittenIs ==
    ASSUME NEW p \in Written
    PROVE  /\ p.kind \in {"text", "call", "result"}
           /\ p.kind = "call" => p.id \in Nat /\ p = CallPart(p.id)
           /\ p.kind = "result" => /\ p.id \in Nat /\ p.text \in Seq(Spoken) /\ p.how = "text"
                                   /\ p = Result(p.id, "text", p.text)
           /\ p.kind = "text" => \E w \in Spoken : p = Text(<<w>>)
<1>1. CASE \E w \in Spoken : p = Text(<<w>>)
      BY <1>1 DEF Text
<1>2. CASE \E id \in Nat : p = CallPart(id)
      BY <1>2 DEF CallPart
<1>3. CASE \E id \in Nat : \E t \in Seq(Spoken) : p = Result(id, "text", t)
      BY <1>3 DEF Result
<1> QED BY <1>1, <1>2, <1>3 DEF Written

LEMMA WrittenCloses == Closed(Written)
<1>1. \A id \in IdsOf(Written) : id \in Nat
      BY WrittenIs DEF IdsOf
<1> QED BY <1>1, WordsOfTurns, PartsWritten DEF Closed


\* A message as it comes back through the older shape.
Back(m) == ToFantasy(ToLLM(m))

CallNumbers(f, n) == [k \in 1 .. n |-> f + k - 1]

LEMMA NumbersAre ==
    ASSUME NEW f \in Nat \ {0}, NEW n \in Nat
    PROVE  /\ CallNumbers(f, n) \in Seq(Nat \ {0}) /\ Len(CallNumbers(f, n)) = n
           /\ DOMAIN CallNumbers(f, n) = 1 .. n
           /\ \A k \in 1 .. n : CallNumbers(f, n)[k] = f + k - 1
           /\ Range(CallNumbers(f, n)) = f .. f + n - 1
<1> DEFINE s == CallNumbers(f, n)
<1>1. \A k \in 1 .. n : f + k - 1 \in Nat \ {0}
      OBVIOUS
<1>2. s \in [1 .. n -> Nat \ {0}] /\ \A k \in 1 .. n : s[k] = f + k - 1
      BY <1>1 DEF CallNumbers
<1> DEFINE B == Nat \ {0}
<1> HIDE DEF s, B
<1>3. s \in Seq(B)
      BY <1>2, MakesSeq DEF B
<1>4. Len(s) = n /\ DOMAIN s = 1 .. n
  <2>1. DOMAIN s = 1 .. n
        BY <1>2
  <2>2. Len(s) \in Nat /\ DOMAIN s = 1 .. Len(s)
        BY <1>3, LenProperties
  <2> QED BY <2>1, <2>2
<1>5. Range(s) = f .. f + n - 1
  <2>1. \A x \in Range(s) : x \in f .. f + n - 1
    <3> TAKE x \in Range(s)
    <3>1. PICK k \in 1 .. n : s[k] = x
          BY <1>3, <1>4, RangeIn
    <3> QED BY <1>2, <3>1
  <2>2. \A x \in f .. f + n - 1 : x \in Range(s)
    <3> TAKE x \in f .. f + n - 1
    <3>1. x - f + 1 \in 1 .. n /\ f + (x - f + 1) - 1 = x
          OBVIOUS
    <3>2. s[x - f + 1] = x
          BY <1>2, <3>1
    <3>3. s[x - f + 1] \in Range(s)
          BY <1>3, <1>4, <3>1, ElementIn
    <3> QED BY <3>2, <3>3
  <2> QED BY <2>1, <2>2
<1> QED BY <1>2, <1>3, <1>4, <1>5 DEF s, B

\* The parts of a step's message.
LEMMA UtterParts ==
    ASSUME NEW f \in Nat \ {0}, NEW n \in Nat,
           NEW ids, ids = CallNumbers(f, n), NEW cs, cs = [k \in DOMAIN ids |-> CallPart(ids[k])],
           NEW head, head = TextPart(Wording)
    PROVE  /\ Utter(f, n) = Msg("assistant", head \o cs)
           /\ head \in Seq(Written) /\ Len(head) = 1 /\ head[1] = Text(Wording)
           /\ cs \in Seq(Written) /\ Len(cs) = n /\ \A k \in 1 .. n : cs[k] = CallPart(f + k - 1)
<1>1. /\ DOMAIN ids = 1 .. n /\ \A k \in 1 .. n : ids[k] = f + k - 1
      BY NumbersAre
<1>2. cs = [k \in 1 .. n |-> CallPart(f + k - 1)]
      BY <1>1
<1>3. Utter(f, n) = Msg("assistant", head \o cs)
      BY <1>2 DEF Utter
<1>4. \A k \in 1 .. n : f + k - 1 \in Nat
      OBVIOUS
<1>5. \A k \in 1 .. n : CallPart(f + k - 1) \in Written
      BY <1>4, PartsWritten
<1>6. cs \in [1 .. n -> Written] /\ \A k \in 1 .. n : cs[k] = CallPart(f + k - 1)
      BY <1>2, <1>5
<1>7. cs \in Seq(Written)
      BY <1>6, MakesSeq
<1>8. DOMAIN cs = 1 .. n
      BY <1>2
<1>9. Len(cs) = n
  <2>1. Len(cs) \in Nat /\ DOMAIN cs = 1 .. Len(cs)
        BY <1>7, LenProperties
  <2> QED BY <1>8, <2>1
<1> DEFINE x == Text(Wording)
<1>10. head = <<x>>
       BY WordsOfTurns DEF TextPart
<1>11. x \in Written
       BY PartsWritten DEF Wording, Spoken
<1> HIDE DEF x
<1>12. <<x>> \in Seq(Written) /\ Len(<<x>>) = 1 /\ <<x>>[1] = x
       BY <1>11
<1> QED BY <1>3, <1>6, <1>7, <1>9, <1>10, <1>12 DEF x

\* What a step's message is: its text, and its calls in order.
LEMMA UtterIs ==
    ASSUME NEW f \in Nat \ {0}, NEW n \in Nat
    PROVE  /\ Utter(f, n) \in MessagesOf(Written) /\ Utter(f, n).role = "assistant"
           /\ CallIds(Utter(f, n)) = CallNumbers(f, n)
           /\ ResultIds(Utter(f, n)) = {}
           /\ \A p \in Range(Utter(f, n).parts) : p.kind # "result"
           /\ Back(Utter(f, n)) = Utter(f, n)
<1> DEFINE ids == CallNumbers(f, n)
           cs == [k \in DOMAIN ids |-> CallPart(ids[k])]
           head == TextPart(Wording)
           parts == head \o cs
           m == Utter(f, n)
           T == WithId(m, "call")
<1>1. /\ m = Msg("assistant", parts)
      /\ head \in Seq(Written) /\ Len(head) = 1 /\ head[1] = Text(Wording)
      /\ cs \in Seq(Written) /\ Len(cs) = n /\ \A k \in 1 .. n : cs[k] = CallPart(f + k - 1)
      BY UtterParts
<1>2. /\ ids \in Seq(Nat \ {0}) /\ Len(ids) = n /\ DOMAIN ids = 1 .. n
      /\ \A k \in 1 .. n : ids[k] = f + k - 1
      BY NumbersAre
<1>3. cs = [k \in DOMAIN ids |-> CallPart(ids[k])] /\ head = TextPart(Wording)
      OBVIOUS
<1> HIDE DEF cs, head, ids
<1>4. parts \in Seq(Written) /\ Range(parts) = Range(head) \cup Range(cs)
      BY <1>1, ConcatProperties, RangeConcatenation
<1> HIDE DEF parts, m
<1>5. m \in MessagesOf(Written) /\ m.role = "assistant" /\ m.parts = parts
  <2>1. "assistant" \in {"user", "assistant", "tool"}
        OBVIOUS
  <2> QED BY <1>1, <1>4, <2>1, MessageIs
<1>6. \A p \in Range(head) : p.kind = "text"
  <2>1. \A p \in Range(head) : p = Text(Wording)
        BY <1>1, RangeIn
  <2> QED BY <2>1 DEF Text
<1>7. \A k \in 1 .. n : cs[k].kind = "call" /\ cs[k].id = f + k - 1 /\ cs[k].id # NoId
  <2>1. \A k \in 1 .. n : f + k - 1 # NoId
        BY DEF NoId
  <2>2. \A id : CallPart(id).kind = "call" /\ CallPart(id).id = id
        BY DEF CallPart
  <2> QED BY <1>1, <2>1, <2>2
<1>8. \A p \in Range(cs) : p.kind = "call"
  <2>1. \A p \in Range(cs) : \E k \in 1 .. n : cs[k] = p
        BY <1>1, RangeIn
  <2> QED BY <1>7, <2>1
<1>9. \A p \in Range(parts) : p.kind # "result"
      BY <1>4, <1>6, <1>8
<1>10. ResultIds(m) = {}
       BY <1>5, <1>9 DEF ResultIds, WithId, OfKind
<1>11. Those(parts, T) = cs
  <2>1. \A i \in 1 .. Len(head) : head[i] \notin T
    <3> TAKE i \in 1 .. Len(head)
    <3>1. head[i] \in Range(head)
          BY <1>1, ElementIn, LenProperties
    <3>2. \A p \in T : p.kind = "call"
          BY DEF WithId, OfKind
    <3>3. head[i].kind = "text"
          BY <1>6, <3>1
    <3> QED BY <3>2, <3>3
  <2>2. \A i \in 1 .. Len(cs) : cs[i] \in T
    <3> TAKE i \in 1 .. Len(cs)
    <3>1. cs[i] \in Range(cs)
          BY <1>1, ElementIn, LenProperties
    <3>2. cs[i] \in Range(m.parts)
          BY <1>4, <1>5, <3>1
    <3> QED BY <1>1, <1>7, <3>2 DEF WithId, OfKind
  <2> HIDE DEF T
  <2> QED BY <1>1, <2>1, <2>2, ThoseOfSecond DEF parts
<1>12. CallIds(m) = ids
  <2>1. CallIds(m) = [i \in DOMAIN cs |-> cs[i].id]
        BY <1>5, <1>11 DEF CallIds, T
  <2>2. DOMAIN cs = 1 .. n
        BY <1>1, LenProperties
  <2>3. \A k \in 1 .. n : cs[k].id = ids[k]
        BY <1>2, <1>7
  <2>4. CallIds(m) = [k \in 1 .. n |-> ids[k]]
        BY <2>1, <2>2, <2>3
  <2>5. ids = [k \in 1 .. n |-> ids[k]]
        BY <1>2 DEF ids, CallNumbers
  <2> QED BY <2>4, <2>5
<1>13. Back(m) = m
  <2> DEFINE l == ToLLM(m)
             I == Nat \ {0}
  <2>1. l = [role |-> "assistant", text |-> Wording, calls |-> ids, answers |-> NoId]
    <3>1. ids \in Seq(I) /\ Wording \in Seq(Spoken)
          BY <1>2, WordsOfTurns
    <3> HIDE DEF I
    <3>2. ToLLM(Msg("assistant", TextPart(Wording) \o cs)) =
            [role |-> "assistant", text |-> Wording, calls |-> ids, answers |-> NoId]
          BY <1>3, <3>1, TextAndCallsRead
    <3> QED BY <1>1, <1>3, <3>2 DEF parts
  <2>2. l.role = "assistant" /\ l.text = Wording /\ l.calls = ids
        BY <2>1
  <2> HIDE DEF l
  <2>3. CallParts(l) = cs
        BY <1>3, <2>2 DEF CallParts
  <2>4. ToFantasy(l) = Msg("assistant", TextPart(Wording) \o cs)
        BY <2>2, <2>3 DEF ToFantasy
  <2> QED BY <1>1, <1>3, <2>4 DEF Back, l, parts
<1> QED BY <1>5, <1>9, <1>10, <1>12, <1>13 DEF m, ids

LEMMA NoCalls ==
    ASSUME NEW m \in MessagesOf(Written), \A p \in Range(m.parts) : p.kind # "call"
    PROVE  CallIds(m) = <<>>
<1>1. m.parts \in Seq(Written)
      BY DEF MessagesOf
<1>2. WithId(m, "call") = {}
      BY DEF WithId, OfKind
<1>3. \A i \in 1 .. Len(m.parts) : m.parts[i] \notin WithId(m, "call")
      BY <1>2
<1>4. Those(m.parts, WithId(m, "call")) = <<>>
      BY <1>1, <1>3, ThoseNone
<1> QED BY <1>4 DEF CallIds

\* Prompts and summaries call nothing and answer nothing.
LEMMA PlainIs ==
    ASSUME NEW m \in {Prompt, Summary}
    PROVE  /\ m \in MessagesOf(Written) /\ m.role = "user" /\ CallIds(m) = <<>> /\ ResultIds(m) = {}
           /\ \A p \in Range(m.parts) : p.kind # "result"
<1>1. PICK w \in Spoken : m = Msg("user", <<Text(<<w>>)>>)
      BY DEF Prompt, Summary, Spoken
<1> DEFINE x == Text(<<w>>)
<1>2. x \in Written /\ x.kind = "text"
  <2>1. x \in Written
        BY PartsWritten
  <2>2. x.kind = "text"
        BY DEF Text
  <2> QED BY <2>1, <2>2
<1>3. m = Msg("user", <<x>>)
      BY <1>1
<1> HIDE DEF x
<1>4. <<x>> \in Seq(Written) /\ Range(<<x>>) = {x}
      BY <1>2 DEF Range
<1>5. m \in MessagesOf(Written) /\ m.role = "user" /\ m.parts = <<x>>
      BY <1>3, <1>4, MessageIs
<1>6. \A p \in Range(m.parts) : p.kind = "text"
      BY <1>2, <1>4, <1>5
<1>7. ResultIds(m) = {}
      BY <1>6 DEF ResultIds, WithId, OfKind
<1>8. CallIds(m) = <<>>
      BY <1>5, <1>6, NoCalls
<1> QED BY <1>5, <1>6, <1>7, <1>8

LEMMA PromptIsNoSummary == Prompt # Summary
<1> DEFINE x == <<"prompt", NoId>>
           y == <<"summary", NoId>>
<1>1. x # y
  <2>1. x[1] = "prompt" /\ y[1] = "summary"
        OBVIOUS
  <2> QED BY <2>1
<1>2. Prompt = Msg("user", <<Text(<<x>>)>>) /\ Summary = Msg("user", <<Text(<<y>>)>>)
      BY DEF Prompt, Summary
<1> HIDE DEF x, y
<1>3. \A z : Msg("user", <<Text(<<z>>)>>).parts[1].text[1] = z
      BY DEF Msg, Text
<1> QED BY <1>1, <1>2, <1>3

\* A message of results has the ids of its calls, and no calls.
LEMMA AnswerIs ==
    ASSUME NEW m \in MessagesOf(Written), NEW f \in Nat \ {0}, NEW n \in Nat, NEW u, Answering(m, f, n, u)
    PROVE  /\ CallIds(m) = <<>> /\ f \in ResultIds(m) /\ ResultIds(m) \subseteq f .. f + n - 1
           /\ FirstResult(m) = f
<1>1. m.parts \in Seq(Written) /\ m.parts # <<>> /\ Len(m.parts) # 0
      BY EmptySeq DEF MessagesOf, Answering
<1>2. \A p \in Range(m.parts) : AnswerOf(p, f, n, u)
  <2>1. \A p \in Range(m.parts) : \E i \in 1 .. Len(m.parts) : m.parts[i] = p
        BY <1>1, RangeIn
  <2> QED BY <2>1 DEF Answering
<1>3. \A p \in Range(m.parts) : p.kind = "result" /\ p.id \in f .. f + n - 1
      BY <1>2 DEF AnswerOf
<1>4. CallIds(m) = <<>>
      BY <1>3, NoCalls
<1>5. \A x \in f .. f + n - 1 : x # NoId
      BY DEF NoId
<1>6. WithId(m, "result") = Range(m.parts)
      BY <1>3, <1>5 DEF WithId, OfKind
<1>7. 1 \in DOMAIN m.parts /\ m.parts[1] \in Range(m.parts)
  <2>1. 1 \in DOMAIN m.parts
        BY <1>1, LenProperties
  <2> QED BY <1>1, <2>1, ElementIn
<1>8. m.parts[1].id = f
      BY DEF Answering
<1>9. f \in ResultIds(m) /\ ResultIds(m) \subseteq f .. f + n - 1
      BY <1>3, <1>6, <1>7, <1>8 DEF ResultIds
<1>10. Those(m.parts, WithId(m, "result")) = m.parts
  <2>1. \A i \in 1 .. Len(m.parts) : m.parts[i] \in Range(m.parts)
        BY <1>1, ElementIn, LenProperties
  <2> QED BY <1>1, <1>6, <2>1, ThoseAll
<1>11. FirstResult(m) = f
       BY <1>1, <1>8, <1>10 DEF FirstResult
<1> QED BY <1>4, <1>9, <1>11

LEMMA SaysWords == \A p \in Written : Projected(p) \in Seq(Spoken)
<1> SUFFICES ASSUME NEW p \in Written PROVE Projected(p) \in Seq(Spoken)
    OBVIOUS
<1>1. CASE p.kind = "text"
  <2>1. PICK w \in Spoken : p = Text(<<w>>)
        BY <1>1, WrittenIs
  <2>2. p.text = <<w>> /\ Projected(p) = p.text
        BY <1>1, <2>1 DEF Projected, Text
  <2> QED BY <2>2
<1>2. CASE p.kind = "result"
      BY <1>2, WrittenIs DEF Projected
<1>3. CASE p.kind = "call"
      BY <1>3, EmptySeq DEF Projected
<1> QED BY <1>1, <1>2, <1>3, WrittenIs

\* The older shape makes one result of the answers of a message.
LEMMA ToolBack ==
    ASSUME NEW m \in MessagesOf(Written), m.role = "tool", NEW f \in Nat, FirstResult(m) = f
    PROVE  \E t \in Seq(Spoken) :
              /\ Back(m) = Msg("tool", <<Result(f, "text", t)>>)
              /\ Len(m.parts) = 1 => t = Projected(m.parts[1])
<1> DEFINE uttered == [i \in DOMAIN m.parts |-> Projected(m.parts[i])]
           t == FlattenSeq(uttered)
           calls == Those(m.parts, OfKind(m, "call"))
           ids == [i \in DOMAIN calls |-> calls[i].id]
           l == ToLLM(m)
<1>1. m.parts \in Seq(Written)
      BY DEF MessagesOf
<1>2. uttered \in Seq(Seq(Spoken)) /\ Len(uttered) = Len(m.parts)
      /\ (\A i \in 1 .. Len(m.parts) : uttered[i] = Projected(m.parts[i])) /\ t \in Seq(Spoken)
  <2> DEFINE parts == m.parts
             S == Written
             Y == Spoken
  <2>1. /\ parts \in Seq(S) /\ \A p \in S : Projected(p) \in Seq(Y)
        /\ uttered = [i \in DOMAIN parts |-> Projected(parts[i])]
        BY <1>1, SaysWords
  <2> HIDE DEF parts, S, Y, uttered
  <2>2. /\ uttered \in Seq(Seq(Y)) /\ Len(uttered) = Len(parts)
        /\ \A i \in 1 .. Len(parts) : uttered[i] = Projected(parts[i])
        BY <2>1, WordsAre
  <2>3. FlattenSeq(uttered) \in Seq(Y)
        BY <2>2, FlattenPlaces
  <2> QED BY <2>2, <2>3 DEF parts, Y
<1>3. Len(m.parts) = 1 => t = Projected(m.parts[1])
  <2> HAVE Len(m.parts) = 1
  <2>1. Len(uttered) = 1 /\ uttered[1] = Projected(m.parts[1])
        BY <1>2
  <2> HIDE DEF uttered
  <2> QED BY <1>2, <2>1, OnlyOne
<1>4. /\ calls = Those(m.parts, OfKind(m, "call")) /\ uttered = [i \in DOMAIN m.parts |-> Projected(m.parts[i])]
      /\ ids = [i \in DOMAIN calls |-> calls[i].id] /\ t = FlattenSeq(uttered)
      OBVIOUS
<1> HIDE DEF uttered, t, calls, ids
<1>5. l = [role |-> "tool", text |-> t, calls |-> ids, answers |-> f]
      BY <1>4, ReadLine
<1>6. l.role = "tool" /\ l.text = t /\ l.answers = f
      BY <1>5
<1> HIDE DEF l
<1>7. ToFantasy(l) = Msg("tool", <<Result(f, "text", t)>>)
      BY <1>6 DEF ToFantasy
<1> QED BY <1>2, <1>3, <1>7 DEF Back, l

Told(f, n) == Msg("tool", [k \in 1 .. n |-> Result(f + k - 1, "text", <<Output(f + k - 1)>>)])

\* What the tools of a step give, through the older shape, answers its first call.
LEMMA ToldIs ==
    ASSUME NEW f \in Nat \ {0}, NEW n \in Nat \ {0}, NEW u, f \notin u
    PROVE  /\ Told(f, n) \in MessagesOf(Written)
           /\ Back(Told(f, n)) \in MessagesOf(Written) /\ Answering(Back(Told(f, n)), f, n, u)
<1> DEFINE parts == [k \in 1 .. n |-> Result(f + k - 1, "text", <<Output(f + k - 1)>>)]
           m == Told(f, n)
<1>1. \A k \in 1 .. n : f + k - 1 \in Nat /\ f + k - 1 \in f .. f + n - 1
      OBVIOUS
<1>2. \A k \in 1 .. n : Result(f + k - 1, "text", <<Output(f + k - 1)>>) \in Written
      BY <1>1, WordsOfTurns, PartsWritten
<1>3. parts \in [1 .. n -> Written] /\ \A k \in 1 .. n : parts[k] = Result(f + k - 1, "text", <<Output(f + k - 1)>>)
      BY <1>2
<1>4. m = Msg("tool", parts) /\ DOMAIN parts = 1 .. n
      BY DEF Told
<1> HIDE DEF parts, m
<1>5. parts \in Seq(Written)
      BY <1>3, MakesSeq
<1>6. Len(parts) = n
  <2>1. Len(parts) \in Nat /\ DOMAIN parts = 1 .. Len(parts)
        BY <1>5, LenProperties
  <2> QED BY <1>4, <2>1
<1>7. m \in MessagesOf(Written) /\ m.role = "tool" /\ m.parts = parts
      BY <1>4, <1>5, MessageIs
<1>8. \A id, t : LET r == Result(id, "text", t) IN r.kind = "result" /\ r.id = id /\ r.text = t /\ Projected(r) = t
      BY DEF Result, Projected
<1>9. parts[1].id = f /\ Projected(parts[1]) = <<Output(f)>>
  <2>1. 1 \in 1 .. n /\ f + 1 - 1 = f
        OBVIOUS
  <2>2. parts[1] = Result(f, "text", <<Output(f)>>)
        BY <1>3, <2>1
  <2> QED BY <1>8, <2>2
<1>10. \A k \in 1 .. n : AnswerOf(parts[k], f, n, {})
  <2> TAKE k \in 1 .. n
  <2>1. parts[k].kind = "result" /\ parts[k].id = f + k - 1 /\ parts[k].text = <<Output(f + k - 1)>>
    <3> DEFINE r == parts[k]
               id == f + k - 1
               t == <<Output(id)>>
    <3>1. r = Result(id, "text", t)
          BY <1>3
    <3> HIDE DEF r, id, t
    <3>2. r.kind = "result" /\ r.id = id /\ r.text = t
          BY <1>8, <3>1
    <3> QED BY <3>2 DEF r, id, t
  <2>2. n = 1 => f + k - 1 = f
        OBVIOUS
  <2> QED BY <1>1, <2>1, <2>2 DEF AnswerOf
<1>11. Answering(m, f, n, {})
  <2>1. parts # <<>>
        BY <1>5, <1>6, EmptySeq
  <2> QED BY <1>6, <1>7, <1>9, <1>10, <2>1 DEF Answering
<1>12. FirstResult(m) = f
       BY <1>7, <1>11, AnswerIs
<1>13. PICK t \in Seq(Spoken) :
          Back(m) = Msg("tool", <<Result(f, "text", t)>>) /\ (Len(m.parts) = 1 => t = Projected(m.parts[1]))
       BY <1>7, <1>12, ToolBack
<1>14. n = 1 => t = <<Output(f)>>
       BY <1>6, <1>7, <1>9, <1>13
<1> DEFINE r == Result(f, "text", t)
<1>15. r \in Written /\ r.kind = "result" /\ r.id = f /\ r.text = t
       BY <1>8, PartsWritten
<1>16. Back(m) = Msg("tool", <<r>>)
       BY <1>13
<1> HIDE DEF r
<1>17. <<r>> \in Seq(Written) /\ Len(<<r>>) = 1 /\ <<r>>[1] = r /\ <<r>> # <<>>
       BY <1>15
<1>18. Back(m) \in MessagesOf(Written) /\ Back(m).role = "tool" /\ Back(m).parts = <<r>>
  <2> DEFINE one == <<r>>
  <2>1. one \in Seq(Written) /\ Back(m) = Msg("tool", one) /\ "tool" \in {"user", "assistant", "tool"}
        BY <1>16, <1>17
  <2> HIDE DEF one
  <2>2. Back(m) \in MessagesOf(Written) /\ Back(m).role = "tool" /\ Back(m).parts = one
        BY <2>1, MessageIs
  <2> QED BY <2>2 DEF one
<1>19. AnswerOf(r, f, n, u)
  <2>1. f \in f .. f + n - 1
        OBVIOUS
  <2> QED BY <1>14, <1>15, <2>1 DEF AnswerOf
<1>20. Answering(Back(m), f, n, u)
       BY <1>15, <1>17, <1>18, <1>19 DEF Answering
<1> QED BY <1>7, <1>18, <1>20 DEF m

-----------------------------------------------------------------------------

\* From f on, w calls are numbered before the last message and v behind it.
Drafted(msgs, u, f, w, v) ==
    \E nx : /\ Draft(nx, msgs, u) /\ nx[0] = f /\ nx[Len(msgs)] = v
            /\ IF Len(msgs) = 0 THEN w = v ELSE nx[Len(msgs) - 1] = w

\* A message keeps its place when what stands before it keeps its numbers.
LEMMA PlaceMoves ==
    ASSUME NEW nx, NEW msgs, NEW u, NEW i, InPlace(nx, msgs, u, i), NEW ny, NEW news, NEW v, NEW j,
           ny[j] = nx[i], ny[j - 1] = nx[i - 1],
           Plain(nx, msgs, i) \/ Utters(nx, msgs, i) => news[j] = msgs[i],
           i > 1 => j > 1,
           i > 1 => \A n \in 1 .. nx[i] - 1 :
                       Answering(msgs[i], nx[i] - n, n, u) /\ Behind(nx, msgs, i, n) =>
                           Answering(news[j], nx[i] - n, n, v) /\ Behind(ny, news, j, n)
    PROVE  InPlace(ny, news, v, j)
<1>1. CASE Plain(nx, msgs, i)
      BY <1>1 DEF Plain, InPlace
<1>2. CASE Utters(nx, msgs, i)
      BY <1>2 DEF Utters, InPlace
<1>3. CASE Gives(nx, msgs, u, i)
  <2>1. i > 1 /\ nx[i] = nx[i - 1]
        BY <1>3 DEF Gives
  <2>2. PICK n \in 1 .. nx[i] - 1 : Answering(msgs[i], nx[i] - n, n, u) /\ Behind(nx, msgs, i, n)
        BY <1>3 DEF Gives
  <2>3. Answering(news[j], ny[j] - n, n, v) /\ Behind(ny, news, j, n) /\ j > 1
        BY <2>1, <2>2
  <2>4. n \in 1 .. ny[j] - 1 /\ ny[j] = ny[j - 1]
        BY <2>1
  <2>5. Gives(ny, news, v, j)
        BY <2>3, <2>4 DEF Gives
  <2> QED BY <2>5 DEF InPlace
<1> QED BY <1>1, <1>2, <1>3 DEF InPlace

\* The numbers rise from message to message.
LEMMA DraftAt ==
    ASSUME NEW nx, NEW msgs, NEW u, Draft(nx, msgs, u), NEW i \in 1 .. Len(msgs)
    PROVE  /\ Len(msgs) \in Nat /\ i - 1 \in 0 .. Len(msgs) /\ i \in 0 .. Len(msgs) /\ i \in DOMAIN msgs
           /\ nx[i] \in Nat \ {0} /\ nx[i - 1] \in Nat \ {0} /\ nx[i] >= nx[i - 1]
           /\ msgs[i] \in MessagesOf(Written) /\ InPlace(nx, msgs, u, i)
           /\ nx[i] - nx[i - 1] \in Nat
<1>1. msgs \in Seq(MessagesOf(Written)) /\ nx \in [0 .. Len(msgs) -> Nat \ {0}] /\ InPlace(nx, msgs, u, i)
      BY DEF Draft
<1>2. Len(msgs) \in Nat /\ DOMAIN msgs = 1 .. Len(msgs) /\ msgs[i] \in MessagesOf(Written)
      BY <1>1, LenProperties, ElementIn
<1>3. i - 1 \in 0 .. Len(msgs) /\ i \in 0 .. Len(msgs)
      BY <1>2
<1>4. nx[i] \in Nat \ {0} /\ nx[i - 1] \in Nat \ {0}
      BY <1>1, <1>3
<1>5. nx[i] = nx[i - 1] \/ nx[i] >= nx[i - 1]
      BY <1>1 DEF InPlace, Plain, Utters, Gives
<1>6. nx[i] >= nx[i - 1]
      BY <1>4, <1>5
<1>7. nx[i] - nx[i - 1] \in Nat
      BY <1>4, <1>6
<1> QED BY <1>1, <1>2, <1>3, <1>4, <1>6, <1>7

\* The numbers of the calls rise along a history.
LEMMA DraftRises ==
    ASSUME NEW nx, NEW msgs, NEW u, Draft(nx, msgs, u), NEW i \in 0 .. Len(msgs)
    PROVE  \A k \in i .. Len(msgs) : nx[i] <= nx[k]
<1> DEFINE P == {k \in 0 .. Len(msgs) : k >= i => nx[i] <= nx[k]}
<1>1. Len(msgs) \in Nat /\ \A k \in 0 .. Len(msgs) : nx[k] \in Nat
      BY LenProperties DEF Draft
<1>2. 0 \in P
  <2>1. 0 \in 0 .. Len(msgs) /\ (0 >= i => i = 0) /\ nx[i] <= nx[i]
        BY <1>1
  <2> QED BY <2>1
<1>3. ASSUME NEW k \in 0 .. Len(msgs), k < Len(msgs), k \in P PROVE k + 1 \in P
  <2>1. k + 1 \in 1 .. Len(msgs) /\ (k + 1) - 1 = k /\ k + 1 \in 0 .. Len(msgs)
        BY <1>1, <1>3
  <2>2. nx[k + 1] >= nx[(k + 1) - 1]
        BY <2>1, DraftAt
  <2>3. nx[k] <= nx[k + 1] /\ nx[k] \in Nat /\ nx[k + 1] \in Nat /\ nx[i] \in Nat
        BY <1>1, <2>1, <2>2
  <2>4. CASE k + 1 = i
        BY <2>1, <2>3, <2>4
  <2>5. CASE k + 1 # i
    <3>1. k + 1 >= i => k >= i
          BY <2>1, <2>5
    <3> QED BY <1>3, <2>1, <2>3, <3>1
  <2> QED BY <2>4, <2>5
<1> HIDE DEF P
<1>4. \A k \in 0 .. Len(msgs) : k \in P
      BY <1>1, <1>2, <1>3, UpTo
<1> QED BY <1>1, <1>4 DEF P

\* One more message.
LEMMA DraftAppend ==
    ASSUME NEW nx, NEW msgs, NEW u, Draft(nx, msgs, u), NEW L, L = Len(msgs),
           NEW m \in MessagesOf(Written), m # Summary, NEW v \in Nat \ {0},
           NEW news, news = Append(msgs, m), NEW ny, ny = [k \in 0 .. L + 1 |-> IF k = L + 1 THEN v ELSE nx[k]],
           InPlace(ny, news, u, L + 1), L > 0 => Heeded(ny, news, u, L)
    PROVE  Draft(ny, news, u)
<1>1. msgs \in Seq(MessagesOf(Written)) /\ nx \in [0 .. L -> Nat \ {0}] /\ L \in Nat
      BY LenProperties DEF Draft
<1>2. /\ news \in Seq(MessagesOf(Written)) /\ Len(news) = L + 1 /\ news[L + 1] = m
      /\ \A i \in 1 .. L : news[i] = msgs[i]
      BY <1>1, AppendProperties
<1>3. ny \in [0 .. L + 1 -> Nat \ {0}]
  <2>1. \A k \in 0 .. L + 1 : k # L + 1 => k \in 0 .. L
        BY <1>1
  <2> QED BY <1>1, <2>1
<1>4. \A k \in 0 .. L : ny[k] = nx[k]
  <2>1. \A k \in 0 .. L : k \in 0 .. L + 1 /\ k # L + 1
        BY <1>1
  <2> QED BY <2>1
<1>5. ASSUME NEW i \in 1 .. L PROVE InPlace(ny, news, u, i)
  <2>1. InPlace(nx, msgs, u, i) /\ i \in 0 .. L /\ i - 1 \in 0 .. L /\ i \in Nat
        BY <1>1 DEF Draft
  <2>2. ny[i] = nx[i] /\ ny[i - 1] = nx[i - 1] /\ news[i] = msgs[i]
        BY <1>2, <1>4, <2>1
  <2>3. i > 1 => i - 2 \in 0 .. L /\ i - 1 \in 1 .. L /\ 1 \in 1 .. L
        BY <1>1
  <2>4. i > 1 => ny[i - 2] = nx[i - 2] /\ news[i - 1] = msgs[i - 1] /\ news[1] = msgs[1]
        BY <1>2, <1>4, <2>3
  <2>5. i > 1 => \A n \in 1 .. nx[i] - 1 :
                       Answering(msgs[i], nx[i] - n, n, u) /\ Behind(nx, msgs, i, n) =>
                           Answering(news[i], nx[i] - n, n, u) /\ Behind(ny, news, i, n)
        BY <2>2, <2>4 DEF Behind
  <2> QED BY <2>1, <2>2, <2>5, PlaceMoves
<1>6. ASSUME NEW i \in 1 .. L - 1 PROVE Heeded(ny, news, u, i)
  <2>1. i \in 1 .. L /\ i + 1 \in 1 .. L /\ i - 1 \in 0 .. L /\ i \in 0 .. L
        BY <1>1
  <2>2. ny[i] = nx[i] /\ ny[i - 1] = nx[i - 1] /\ news[i + 1] = msgs[i + 1]
        BY <1>2, <1>4, <2>1
  <2>3. Heeded(nx, msgs, u, i)
        BY DEF Draft
  <2> QED BY <2>2, <2>3 DEF Heeded
<1>7. \A i \in 1 .. Len(news) : InPlace(ny, news, u, i)
  <2>1. \A i \in 1 .. L + 1 : i \in 1 .. L \/ i = L + 1
        BY <1>1
  <2> QED BY <1>2, <1>5, <2>1
<1>8. \A i \in 1 .. Len(news) - 1 : Heeded(ny, news, u, i)
  <2>1. \A i \in 1 .. (L + 1) - 1 : i \in 1 .. L - 1 \/ (i = L /\ L > 0)
        BY <1>1
  <2> QED BY <1>2, <1>6, <2>1
<1>9. Len(news) > 0 /\ news[1] = Summary => Len(news) > Kept
  <2>1. CASE L = 0
        BY <1>2, <2>1
  <2>2. CASE L # 0
    <3>1. 1 \in 1 .. L /\ L > 0
          BY <1>1, <2>2
    <3>2. news[1] = msgs[1] /\ (msgs[1] = Summary => L > Kept)
          BY <1>2, <3>1 DEF Draft
    <3>3. Kept \in Nat
          BY TranscriptAssumption
    <3> QED BY <1>1, <1>2, <3>2, <3>3
  <2> QED BY <2>1, <2>2
<1> QED BY <1>2, <1>3, <1>7, <1>8, <1>9 DEF Draft

\* What is true of a history that ends with w before the last message and v behind it.
LEMMA DraftedIs ==
    ASSUME NEW msgs, NEW u, NEW f, NEW w, NEW v, Drafted(msgs, u, f, w, v)
    PROVE  /\ f \in Nat \ {0} /\ w \in Nat \ {0} /\ v \in Nat \ {0} /\ f <= w /\ w <= v
           /\ msgs \in Seq(MessagesOf(Written)) /\ Len(msgs) \in Nat
<1>1. PICK nx : /\ Draft(nx, msgs, u) /\ nx[0] = f /\ nx[Len(msgs)] = v
                /\ IF Len(msgs) = 0 THEN w = v ELSE nx[Len(msgs) - 1] = w
      BY DEF Drafted
<1>2. msgs \in Seq(MessagesOf(Written)) /\ nx \in [0 .. Len(msgs) -> Nat \ {0}] /\ Len(msgs) \in Nat
      BY <1>1, LenProperties DEF Draft
<1>3. 0 \in 0 .. Len(msgs) /\ Len(msgs) \in 0 .. Len(msgs)
      BY <1>2
<1>4. CASE Len(msgs) = 0
      BY <1>1, <1>2, <1>3, <1>4
<1>5. CASE Len(msgs) # 0
  <2>1. Len(msgs) - 1 \in 0 .. Len(msgs) /\ Len(msgs) \in Len(msgs) - 1 .. Len(msgs)
        BY <1>2, <1>5
  <2>2. nx[0] <= nx[Len(msgs) - 1]
        BY <1>1, <1>3, <2>1, DraftRises
  <2>3. nx[Len(msgs) - 1] <= nx[Len(msgs)]
        BY <1>1, <2>1, DraftRises
  <2> QED BY <1>1, <1>2, <1>3, <1>5, <2>1, <2>2, <2>3
<1> QED BY <1>4, <1>5

LEMMA NextIs ==
    ASSUME NEW nx, NEW L \in Nat, NEW v, NEW ny, ny = [k \in 0 .. L + 1 |-> IF k = L + 1 THEN v ELSE nx[k]]
    PROVE  ny[L + 1] = v /\ ny[L] = nx[L] /\ ny[0] = nx[0] /\ (L > 0 => ny[L - 1] = nx[L - 1])
           /\ (L + 1) - 1 = L /\ (L + 1) - 2 = L - 1
<1>1. L + 1 \in 0 .. L + 1 /\ L \in 0 .. L + 1 /\ 0 \in 0 .. L + 1 /\ L # L + 1 /\ 0 # L + 1
      OBVIOUS
<1>2. L > 0 => L - 1 \in 0 .. L + 1 /\ L - 1 # L + 1
      OBVIOUS
<1> QED BY <1>1, <1>2

\* A prompt, or the message of a step, behind a history that owes no answer.
LEMMA PromptDrafted ==
    ASSUME NEW msgs, NEW u, NEW f, NEW v, Drafted(msgs, u, f, v, v)
    PROVE  Drafted(Append(msgs, Prompt), u, f, v, v)
<1> DEFINE L == Len(msgs)
           m == Prompt
           news == Append(msgs, m)
<1>1. PICK nx : /\ Draft(nx, msgs, u) /\ nx[0] = f /\ nx[L] = v
                /\ IF L = 0 THEN v = v ELSE nx[L - 1] = v
      BY DEF Drafted
<1>2. v \in Nat \ {0} /\ msgs \in Seq(MessagesOf(Written)) /\ L \in Nat
      BY DraftedIs
<1>3. m \in MessagesOf(Written) /\ m # Summary /\ m \in {Prompt, Summary}
      BY PlainIs, PromptIsNoSummary
<1> HIDE DEF m
<1> DEFINE ny == [k \in 0 .. L + 1 |-> IF k = L + 1 THEN v ELSE nx[k]]
<1>4. ny = [k \in 0 .. L + 1 |-> IF k = L + 1 THEN v ELSE nx[k]] /\ L = Len(msgs)
      OBVIOUS
<1> HIDE DEF L, ny
<1>5. ny[L + 1] = v /\ ny[L] = nx[L] /\ ny[0] = nx[0] /\ (L > 0 => ny[L - 1] = nx[L - 1]) /\ (L + 1) - 1 = L
      BY <1>2, <1>4, NextIs
<1>6. news[L + 1] = m /\ Len(news) = L + 1
      BY <1>2, <1>3, <1>4, AppendProperties
<1> HIDE DEF news
<1>7. InPlace(ny, news, u, L + 1)
      BY <1>1, <1>3, <1>5, <1>6 DEF InPlace, Plain
<1>8. L > 0 => Heeded(ny, news, u, L)
      BY <1>1, <1>2, <1>5 DEF Heeded
<1>9. Draft(ny, news, u)
  <2>1. Draft(nx, msgs, u) /\ L = Len(msgs) /\ m \in MessagesOf(Written) /\ m # Summary /\ v \in Nat \ {0}
        BY <1>1, <1>2, <1>3, <1>4
  <2>2. news = Append(msgs, m)
        BY DEF news
  <2> QED BY <1>4, <1>7, <1>8, <2>1, <2>2, DraftAppend
<1> QED BY <1>1, <1>2, <1>5, <1>6, <1>9 DEF Drafted, news, m

\* A step may follow when nothing is owed.
LEMMA UtterDrafted ==
    ASSUME NEW msgs, NEW u, NEW f, NEW v, Drafted(msgs, u, f, v, v), NEW n \in Nat
    PROVE  Drafted(Append(msgs, Utter(v, n)), u, f, v, v + n)
<1> DEFINE L == Len(msgs)
           m == Utter(v, n)
           news == Append(msgs, m)
<1>1. PICK nx : /\ Draft(nx, msgs, u) /\ nx[0] = f /\ nx[L] = v
                /\ IF L = 0 THEN v = v ELSE nx[L - 1] = v
      BY DEF Drafted
<1>2. v \in Nat \ {0} /\ msgs \in Seq(MessagesOf(Written)) /\ L \in Nat
      BY DraftedIs
<1>3. m \in MessagesOf(Written) /\ m # Summary
  <2>1. m \in MessagesOf(Written) /\ m.role = "assistant"
        BY <1>2, UtterIs
  <2>2. Summary.role = "user"
        BY PlainIs
  <2> QED BY <2>1, <2>2
<1> DEFINE x == v + n
<1>0. x \in Nat \ {0} /\ x >= v /\ x - v = n
      BY <1>2
<1> DEFINE ny == [k \in 0 .. L + 1 |-> IF k = L + 1 THEN x ELSE nx[k]]
<1>4. ny = [k \in 0 .. L + 1 |-> IF k = L + 1 THEN x ELSE nx[k]] /\ L = Len(msgs)
      OBVIOUS
<1> HIDE DEF L, ny, x
<1>5. ny[L + 1] = x /\ ny[L] = nx[L] /\ ny[0] = nx[0] /\ (L > 0 => ny[L - 1] = nx[L - 1]) /\ (L + 1) - 1 = L
      BY <1>2, <1>4, NextIs
<1> HIDE DEF m
<1>6. news[L + 1] = m /\ Len(news) = L + 1
      BY <1>2, <1>3, <1>4, AppendProperties
<1> HIDE DEF news
<1>7. InPlace(ny, news, u, L + 1)
      BY <1>0, <1>1, <1>5, <1>6 DEF InPlace, Utters, m
<1>8. L > 0 => Heeded(ny, news, u, L)
      BY <1>1, <1>2, <1>5 DEF Heeded
<1>9. Draft(ny, news, u)
      BY <1>0, <1>1, <1>2, <1>3, <1>4, <1>7, <1>8, DraftAppend DEF news
<1>10. L + 1 # 0
       BY <1>2
<1> QED BY <1>1, <1>2, <1>5, <1>6, <1>9, <1>10 DEF Drafted, news, m, x

\* The answer behind the message of a step that made calls.
LEMMA AnswerDrafted ==
    ASSUME NEW msgs, NEW u, NEW f, NEW w, NEW n \in Nat \ {0}, Drafted(msgs, u, f, w, w + n),
           NEW m \in MessagesOf(Written), Answering(m, w, n, u)
    PROVE  Drafted(Append(msgs, m), u, f, w + n, w + n)
<1> DEFINE L == Len(msgs)
           news == Append(msgs, m)
           v == w + n
<1>1. PICK nx : /\ Draft(nx, msgs, u) /\ nx[0] = f /\ nx[L] = v
                /\ IF L = 0 THEN w = v ELSE nx[L - 1] = w
      BY DEF Drafted
<1>2. v \in Nat \ {0} /\ w \in Nat \ {0} /\ msgs \in Seq(MessagesOf(Written)) /\ L \in Nat
      BY DraftedIs
<1>3. m # Summary
  <2>1. m.role = "tool" /\ Summary.role = "user"
        BY PlainIs DEF Answering
  <2> QED BY <2>1
<1>0. v - w = n /\ v - n = w /\ v > w /\ n \in 1 .. v - 1 /\ L # 0 /\ L > 0 /\ L \in 1 .. L /\ L + 1 > 1
      BY <1>1, <1>2
<1> DEFINE ny == [k \in 0 .. L + 1 |-> IF k = L + 1 THEN v ELSE nx[k]]
<1>4. ny = [k \in 0 .. L + 1 |-> IF k = L + 1 THEN v ELSE nx[k]] /\ L = Len(msgs)
      OBVIOUS
<1> HIDE DEF L, ny, v
<1>5. /\ ny[L + 1] = v /\ ny[L] = nx[L] /\ ny[0] = nx[0] /\ (L > 0 => ny[L - 1] = nx[L - 1])
      /\ (L + 1) - 1 = L /\ (L + 1) - 2 = L - 1
      BY <1>2, <1>4, NextIs
<1>6. news[L + 1] = m /\ Len(news) = L + 1 /\ news[L] = msgs[L]
      BY <1>0, <1>2, <1>4, AppendProperties
<1> HIDE DEF news
<1>7. msgs[L] = Utter(w, n)
  <2>1. InPlace(nx, msgs, u, L)
        BY <1>0, <1>1, <1>4 DEF Draft
  <2>2. nx[L] # nx[L - 1]
        BY <1>0, <1>1, <1>2
  <2>3. Utters(nx, msgs, L)
        BY <2>1, <2>2 DEF InPlace, Plain, Gives
  <2> QED BY <1>0, <1>1, <2>3 DEF Utters
<1>8. InPlace(ny, news, u, L + 1)
  <2>1. Answering(news[L + 1], ny[L + 1] - n, n, u)
        BY <1>0, <1>5, <1>6
  <2>2. Behind(ny, news, L + 1, n)
        BY <1>0, <1>1, <1>5, <1>6, <1>7 DEF Behind
  <2>3. ny[L + 1] = ny[(L + 1) - 1] /\ n \in 1 .. ny[L + 1] - 1
        BY <1>0, <1>1, <1>5
  <2>4. Gives(ny, news, u, L + 1)
        BY <1>0, <2>1, <2>2, <2>3 DEF Gives
  <2> QED BY <2>4 DEF InPlace
<1>9. Heeded(ny, news, u, L)
  <2>1. ny[L - 1] = w /\ ny[L] - ny[L - 1] = n
        BY <1>0, <1>1, <1>5
  <2> QED BY <1>6, <2>1 DEF Heeded
<1>10. Draft(ny, news, u)
       BY <1>0, <1>1, <1>2, <1>3, <1>4, <1>8, <1>9, DraftAppend DEF news
<1>11. L + 1 # 0
       BY <1>2
<1> QED BY <1>1, <1>2, <1>5, <1>6, <1>10, <1>11 DEF Drafted, news, v

\* More calls are known not to have been run; none of those in the history.
LEMMA MoreUnrun ==
    ASSUME NEW msgs, NEW u, NEW f, NEW w, NEW v, Drafted(msgs, u, f, w, v), NEW more,
           \A id \in more : id >= v
    PROVE  Drafted(msgs, u \cup more, f, w, v)
<1> DEFINE L == Len(msgs)
           z == u \cup more
<1>1. PICK nx : /\ Draft(nx, msgs, u) /\ nx[0] = f /\ nx[L] = v
                /\ IF L = 0 THEN w = v ELSE nx[L - 1] = w
      BY DEF Drafted
<1>2. v \in Nat \ {0} /\ msgs \in Seq(MessagesOf(Written)) /\ L \in Nat
      BY DraftedIs
<1>3. ASSUME NEW m, NEW g \in Nat, NEW n, g < v, Answering(m, g, n, u) PROVE Answering(m, g, n, z)
  <2>1. g \in z <=> g \in u
        BY <1>2, <1>3
  <2> HIDE DEF z
  <2> QED BY <1>3, <2>1 DEF Answering, AnswerOf
<1>4. ASSUME NEW i \in 1 .. L
      PROVE  /\ i \in 0 .. L /\ i - 1 \in 0 .. L /\ nx[i] \in Nat /\ nx[i - 1] \in Nat
             /\ nx[i] <= v /\ nx[i - 1] <= nx[i]
  <2>1. nx[i] \in Nat \ {0} /\ nx[i - 1] \in Nat \ {0} /\ nx[i] >= nx[i - 1] /\ i \in 0 .. L /\ i - 1 \in 0 .. L
        BY <1>1, DraftAt
  <2>2. L \in i .. L
        BY <1>2
  <2>3. nx[i] <= nx[L]
        BY <1>1, <2>1, <2>2, DraftRises
  <2> QED BY <1>1, <2>1, <2>3
<1>5. ASSUME NEW i \in 1 .. L PROVE InPlace(nx, msgs, z, i)
  <2>1. InPlace(nx, msgs, u, i)
        BY <1>1 DEF Draft
  <2>2. \A n \in 1 .. nx[i] - 1 : Answering(msgs[i], nx[i] - n, n, u) => Answering(msgs[i], nx[i] - n, n, z)
    <3> TAKE n \in 1 .. nx[i] - 1
    <3>1. nx[i] - n \in Nat /\ nx[i] - n < v
          BY <1>2, <1>4
    <3> QED BY <1>3, <3>1
  <2> HIDE DEF z
  <2> QED BY <2>1, <2>2, PlaceMoves
<1>6. ASSUME NEW i \in 1 .. L - 1 PROVE Heeded(nx, msgs, z, i)
  <2>1. Heeded(nx, msgs, u, i)
        BY <1>1 DEF Draft
  <2>2. i \in 1 .. L
        BY <1>2
  <2>3. CASE nx[i] > nx[i - 1]
    <3>1. nx[i - 1] \in Nat /\ nx[i - 1] < v
          BY <1>2, <1>4, <2>2, <2>3
    <3>2. Answering(msgs[i + 1], nx[i - 1], nx[i] - nx[i - 1], u)
          BY <2>1, <2>3 DEF Heeded
    <3> QED BY <1>3, <3>1, <3>2 DEF Heeded
  <2> QED BY <2>3 DEF Heeded
<1>7. Draft(nx, msgs, z)
      BY <1>1, <1>5, <1>6 DEF Draft
<1> QED BY <1>1, <1>7 DEF Drafted

-----------------------------------------------------------------------------

\* What a message of a history calls and answers.
LEMMA DraftSays ==
    ASSUME NEW nx, NEW msgs, NEW u, Draft(nx, msgs, u), NEW i \in 1 .. Len(msgs)
    PROVE  /\ CallIds(msgs[i]) = CallNumbers(nx[i - 1], nx[i] - nx[i - 1])
           /\ msgs[i].role = "assistant" <=> Utters(nx, msgs, i)
           /\ msgs[i].role = "user" <=> Plain(nx, msgs, i)
           /\ msgs[i].role = "tool" <=> Gives(nx, msgs, u, i)
           /\ Plain(nx, msgs, i) \/ Utters(nx, msgs, i) => ResultIds(msgs[i]) = {}
           /\ nx[i] > nx[i - 1] => Utters(nx, msgs, i)
<1> DEFINE m == msgs[i]
           b == nx[i - 1]
           n == nx[i] - nx[i - 1]
<1>1. /\ b \in Nat \ {0} /\ nx[i] \in Nat \ {0} /\ n \in Nat /\ m \in MessagesOf(Written)
      /\ InPlace(nx, msgs, u, i)
      BY DraftAt
<1>2. nx[i] = nx[i - 1] => n = 0 /\ ~(nx[i] > nx[i - 1])
      BY <1>1
<1>3. CallNumbers(b, 0) = <<>>
  <2>1. CallNumbers(b, 0) \in Seq(Nat \ {0}) /\ Len(CallNumbers(b, 0)) = 0
        BY <1>1, NumbersAre
  <2> QED BY <2>1, EmptySeq
<1>4. CASE Plain(nx, msgs, i)
  <2>1. m \in {Prompt, Summary} /\ nx[i] = nx[i - 1]
        BY <1>4 DEF Plain
  <2>2. m.role = "user" /\ CallIds(m) = <<>> /\ ResultIds(m) = {}
        BY <2>1, PlainIs
  <2>3. ~Utters(nx, msgs, i)
    <3>1. Utter(b, n).role = "assistant"
          BY <1>1, UtterIs
    <3> QED BY <2>2, <3>1 DEF Utters
  <2>4. ~Gives(nx, msgs, u, i)
        BY <2>2 DEF Gives, Answering
  <2>5. CallIds(m) = CallNumbers(b, n)
        BY <1>2, <1>3, <2>1, <2>2
  <2> QED BY <1>2, <1>4, <2>1, <2>2, <2>3, <2>4, <2>5
<1>5. CASE Utters(nx, msgs, i)
  <2>1. m = Utter(b, n)
        BY <1>5 DEF Utters
  <2>2. m.role = "assistant" /\ CallIds(m) = CallNumbers(b, n) /\ ResultIds(m) = {}
        BY <1>1, <2>1, UtterIs
  <2>3. ~Plain(nx, msgs, i)
        BY <2>2, PlainIs DEF Plain
  <2>4. ~Gives(nx, msgs, u, i)
        BY <2>2 DEF Gives, Answering
  <2> QED BY <1>5, <2>2, <2>3, <2>4
<1>6. CASE Gives(nx, msgs, u, i)
  <2>1. PICK c \in 1 .. nx[i] - 1 : Answering(m, nx[i] - c, c, u)
        BY <1>6 DEF Gives
  <2>2. nx[i] - c \in Nat \ {0} /\ c \in Nat
        BY <1>1
  <2>3. CallIds(m) = <<>>
        BY <1>1, <2>1, <2>2, AnswerIs
  <2>4. m.role = "tool"
        BY <2>1 DEF Answering
  <2>5. ~Plain(nx, msgs, i)
        BY <2>4, PlainIs DEF Plain
  <2>6. ~Utters(nx, msgs, i)
    <3>1. Utter(b, n).role = "assistant"
          BY <1>1, UtterIs
    <3> QED BY <2>4, <3>1 DEF Utters
  <2>7. nx[i] = nx[i - 1]
        BY <1>6 DEF Gives
  <2>8. CallIds(m) = CallNumbers(b, n)
        BY <1>2, <1>3, <2>3, <2>7
  <2> QED BY <1>2, <1>6, <2>4, <2>5, <2>6, <2>7, <2>8
<1> QED BY <1>1, <1>4, <1>5, <1>6 DEF InPlace

\* A message of results may become longer by markers for calls that were not run.
LEMMA Lengthened ==
    ASSUME NEW A, NEW s \in Seq(A), NEW t \in Seq(A), s # <<>>
    PROVE  /\ s \o t \in Seq(A) /\ s \o t # <<>> /\ (s \o t)[1] = s[1]
           /\ \A k \in 1 .. Len(s \o t) : (s \o t)[k] \in Range(s) \cup Range(t)
<1>1. Len(s) \in Nat /\ Len(s) # 0 /\ s \o t \in Seq(A)
      BY EmptySeq, LenProperties, ConcatProperties
<1>2. /\ Len(s \o t) = Len(s) + Len(t) /\ Len(t) \in Nat
      /\ \A k \in 1 .. Len(s) : (s \o t)[k] = s[k]
      BY OnePiece
<1>3. 1 \in 1 .. Len(s) /\ Len(s \o t) # 0
      BY <1>1, <1>2
<1>4. Range(s \o t) = Range(s) \cup Range(t)
      BY RangeConcatenation
<1>5. \A k \in 1 .. Len(s \o t) : (s \o t)[k] \in Range(s \o t)
      BY <1>1, ElementIn, LenProperties
<1> QED BY <1>1, <1>2, <1>3, <1>4, <1>5, EmptySeq

\* The repair leaves an answer one.
LEMMA ExtendedAnswers ==
    ASSUME NEW msgs \in Seq(MessagesOf(Written)), NEW i \in DOMAIN msgs,
           NEW f \in Nat \ {0}, NEW n \in Nat \ {0}, NEW u, Answering(msgs[i], f, n, u),
           Orphans(msgs, i - 1) = <<>> \/ (i - 1 \in DOMAIN msgs /\ msgs[i - 1] = Utter(f, n))
    PROVE  Answering(Extended(msgs, i), f, n, u)
<1> DEFINE m == msgs[i]
           x == Extended(msgs, i)
           ids == Orphans(msgs, i - 1)
           more == Synthetic(ids)
<1>1. /\ x \in MessagesOf(Written) /\ x.role = m.role
      /\ x.parts = m.parts \o (IF Bucket(msgs, i) THEN more ELSE <<>>)
      /\ (ids = <<>> \/ ~Bucket(msgs, i) => x = m)
      BY WrittenCloses, ExtendedIs
<1>2. m \in MessagesOf(Written) /\ i \in 1 .. Len(msgs) /\ Len(msgs) \in Nat
      BY ElementIn, LenProperties
<1>3. f \in ResultIds(m) /\ ResultIds(m) \subseteq f .. f + n - 1
      BY <1>2, AnswerIs
<1>4. Bucket(msgs, i)
      BY <1>3 DEF Bucket, Answering
<1>5. CASE ids = <<>>
      BY <1>1, <1>5
<1>6. CASE ids # <<>>
  <2> DEFINE parts == m.parts
             ps == x.parts
  <2>1. i - 1 \in DOMAIN msgs /\ msgs[i - 1] = Utter(f, n) /\ (i - 1) + 1 = i
        BY <1>2, <1>6
  <2>2. msgs[i - 1].role = "assistant" /\ CallIds(msgs[i - 1]) = CallNumbers(f, n)
        BY <2>1, UtterIs
  <2>3. Range(CallNumbers(f, n)) = f .. f + n - 1
        BY NumbersAre
  <2>4. Range(ids) = Range(CallIds(msgs[i - 1])) \ (IF Bucket(msgs, (i - 1) + 1) THEN ResultIds(msgs[(i - 1) + 1]) ELSE {})
        BY <2>1, <2>2, OrphansAre
  <2>5. Range(ids) = (f .. f + n - 1) \ ResultIds(m)
        BY <1>4, <2>1, <2>2, <2>3, <2>4
  <2>6. ids \in Seq(IdsOf(Written))
        BY OrphansAre
  <2>7. n # 1
    <3> HIDE DEF ids, m
    <3>1. Len(ids) # 0 /\ Len(ids) \in Nat /\ DOMAIN ids = 1 .. Len(ids)
          BY <1>6, <2>6, EmptySeq, LenProperties
    <3>2. ids[1] \in Range(ids)
          BY <2>6, <3>1, ElementIn
    <3>3. n = 1 => f .. f + n - 1 = {f}
          OBVIOUS
    <3> QED BY <1>3, <2>5, <3>2, <3>3
  <2>8. /\ more \in Seq(Written) /\ Range(more) = {Result(id, "text", Marker) : id \in Range(ids)}
        BY <2>6, WrittenCloses, SyntheticAre
  <2>9. ps = parts \o more /\ parts \in Seq(Written)
        BY <1>1, <1>2, <1>4 DEF MessagesOf
  <2>10. /\ parts # <<>> /\ m.role = "tool" /\ parts[1].id = f
         /\ \A k \in 1 .. Len(parts) : AnswerOf(parts[k], f, n, u)
         BY DEF Answering
  <2> HIDE DEF parts, ps
  <2>11. /\ parts \o more # <<>> /\ (parts \o more)[1] = parts[1]
         /\ \A k \in 1 .. Len(parts \o more) : (parts \o more)[k] \in Range(parts) \cup Range(more)
         BY <2>8, <2>9, <2>10, Lengthened
  <2>12. ASSUME NEW p \in Range(parts) PROVE AnswerOf(p, f, n, u)
    <3>1. \E k \in 1 .. Len(parts) : parts[k] = p
          BY <2>9, RangeIn
    <3> QED BY <2>10, <3>1
  <2>13. ASSUME NEW p \in Range(more) PROVE AnswerOf(p, f, n, u)
    <3>1. PICK id \in f .. f + n - 1 : p = Result(id, "text", Marker)
          BY <2>5, <2>8
    <3>2. p.kind = "result" /\ p.id = id
          BY <3>1 DEF Result
    <3> QED BY <2>7, <3>2 DEF AnswerOf
  <2>14. \A k \in 1 .. Len(ps) : AnswerOf(ps[k], f, n, u)
         BY <2>9, <2>11, <2>12, <2>13
  <2>15. x.role = "tool" /\ ps # <<>> /\ ps[1].id = f
         BY <1>1, <2>9, <2>10, <2>11
  <2> QED BY <2>14, <2>15 DEF Answering, ps
<1> QED BY <1>5, <1>6

LEMMA EmptyRange ==
    ASSUME NEW A, NEW s \in Seq(A)
    PROVE  Range(s) = {} <=> s = <<>>
<1>1. CASE Len(s) = 0
  <2>1. s = <<>>
        BY <1>1, EmptySeq
  <2>2. \A x \in Range(s) : \E i \in 1 .. Len(s) : s[i] = x
        BY RangeIn
  <2> QED BY <1>1, <2>1, <2>2
<1>2. CASE Len(s) # 0
  <2>1. 1 \in DOMAIN s
        BY <1>2, LenProperties
  <2>2. s[1] \in Range(s)
        BY <2>1, ElementIn
  <2> QED BY <1>2, <2>2, EmptySeq
<1> QED BY <1>1, <1>2

\* A message that is not extended.
LEMMA SameMessage ==
    ASSUME NEW msgs, NEW i, msgs[i].role = "assistant" \/ ResultIds(msgs[i]) = {}
    PROVE  Extended(msgs, i) = msgs[i]
BY DEF Extended, Bucket

\* Extending messages of results, the first half of the repair, changes no place.
LEMMA ExtendedDrafted ==
    ASSUME NEW nx, NEW msgs, NEW u, Draft(nx, msgs, u), NEW L, L = Len(msgs),
           NEW pre, pre = [i \in 1 .. L |-> Extended(msgs, i)]
    PROVE  Draft(nx, pre, u) /\ pre \in Seq(MessagesOf(Written)) /\ Len(pre) = L
<1>1. msgs \in Seq(MessagesOf(Written)) /\ nx \in [0 .. L -> Nat \ {0}] /\ L \in Nat /\ DOMAIN msgs = 1 .. L
      BY LenProperties DEF Draft
<1>2. \A i \in 1 .. L : pre[i] = Extended(msgs, i) /\ pre[i] \in MessagesOf(Written) /\ pre[i].role = msgs[i].role
  <2>1. \A i \in 1 .. L : Extended(msgs, i) \in MessagesOf(Written) /\ Extended(msgs, i).role = msgs[i].role
        BY <1>1, WrittenCloses, ExtendedIs
  <2> QED BY <2>1
<1>3. pre \in Seq(MessagesOf(Written)) /\ Len(pre) = L
  <2> DEFINE S == MessagesOf(Written)
  <2>1. pre \in [1 .. L -> S] /\ DOMAIN pre = 1 .. L
        BY <1>2
  <2> HIDE DEF S
  <2>2. pre \in Seq(S)
        BY <1>1, <2>1, MakesSeq
  <2>3. Len(pre) \in Nat /\ DOMAIN pre = 1 .. Len(pre)
        BY <2>2, LenProperties
  <2>4. Len(pre) = L
        BY <1>1, <2>1, <2>3
  <2> QED BY <2>2, <2>4 DEF S
<1>4. ASSUME NEW i \in 1 .. L, Plain(nx, msgs, i) \/ Utters(nx, msgs, i) PROVE pre[i] = msgs[i]
  <2>1. ResultIds(msgs[i]) = {}
        BY <1>4, DraftSays
  <2> QED BY <1>2, <2>1, SameMessage
<1>5. ASSUME NEW i \in 1 .. L, NEW b \in Nat \ {0}, NEW n \in Nat, msgs[i] = Utter(b, n) PROVE pre[i] = msgs[i]
  <2>1. msgs[i].role = "assistant"
        BY <1>5, UtterIs
  <2> QED BY <1>2, <2>1, SameMessage
<1>6. 1 \in 1 .. L /\ msgs[1] = Summary => pre[1] = Summary
  <2> HAVE 1 \in 1 .. L /\ msgs[1] = Summary
  <2>1. ResultIds(msgs[1]) = {}
        BY PlainIs
  <2> QED BY <1>2, <2>1, SameMessage
<1>7. ASSUME NEW i \in 1 .. L PROVE InPlace(nx, pre, u, i)
  <2>1. InPlace(nx, msgs, u, i)
        BY DEF Draft
  <2>2. ASSUME i > 1, NEW n \in 1 .. nx[i] - 1, Answering(msgs[i], nx[i] - n, n, u), Behind(nx, msgs, i, n)
        PROVE  Answering(pre[i], nx[i] - n, n, u) /\ Behind(nx, pre, i, n)
    <3>1. /\ i - 1 \in 1 .. L /\ i - 2 \in 0 .. L /\ 1 \in 1 .. L /\ n \in Nat \ {0}
          /\ i - 1 \in DOMAIN msgs /\ i \in DOMAIN msgs /\ i \in 0 .. L
          BY <1>1, <2>2
    <3>2. nx[i] \in Nat /\ nx[i - 2] \in Nat \ {0}
          BY <1>1, <3>1
    <3>3. nx[i] - n \in Nat \ {0}
          BY <3>2
    <3> DEFINE g == nx[i] - n
    <3>4. CASE nx[i - 2] = g /\ msgs[i - 1] = Utter(nx[i - 2], n)
      <4>1. pre[i - 1] = msgs[i - 1]
            BY <1>5, <3>1, <3>2, <3>4
      <4>2. msgs[i - 1] = Utter(g, n) /\ g \in Nat \ {0} /\ Answering(msgs[i], g, n, u)
            BY <2>2, <3>3, <3>4
      <4> HIDE DEF g
      <4>3. Answering(Extended(msgs, i), g, n, u)
            BY <1>1, <3>1, <4>2, ExtendedAnswers
      <4> QED BY <1>2, <3>4, <4>1, <4>3 DEF Behind, g
    <3>5. CASE i = 2 /\ msgs[1] = Summary
      <4>1. Summary.role = "user"
            BY PlainIs
      <4>2. i - 1 = 1
            BY <3>5
      <4>3. Orphans(msgs, i - 1) = <<>>
            BY <1>1, <3>1, <3>5, <4>1, <4>2, OrphansAre
      <4>4. g \in Nat \ {0} /\ Answering(msgs[i], g, n, u)
            BY <2>2, <3>3
      <4> HIDE DEF g
      <4>5. Answering(Extended(msgs, i), g, n, u)
            BY <1>1, <3>1, <4>3, <4>4, ExtendedAnswers
      <4> QED BY <1>2, <1>6, <3>1, <3>5, <4>5 DEF Behind, g
    <3> QED BY <2>2, <3>4, <3>5 DEF Behind
  <2>3. i > 1 => \A n \in 1 .. nx[i] - 1 :
                       Answering(msgs[i], nx[i] - n, n, u) /\ Behind(nx, msgs, i, n) =>
                           Answering(pre[i], nx[i] - n, n, u) /\ Behind(nx, pre, i, n)
        BY <2>2
  <2> QED BY <1>4, <2>1, <2>3, PlaceMoves
<1>8. ASSUME NEW i \in 1 .. L - 1, nx[i] > nx[i - 1]
      PROVE  Answering(pre[i + 1], nx[i - 1], nx[i] - nx[i - 1], u)
  <2>1. i \in 1 .. L /\ i + 1 \in 1 .. L /\ i - 1 \in 0 .. L /\ i \in 0 .. L /\ (i + 1) - 1 = i
        /\ i + 1 \in DOMAIN msgs /\ i \in DOMAIN msgs
        BY <1>1
  <2> DEFINE b == nx[i - 1]
             n == nx[i] - nx[i - 1]
  <2>2. b \in Nat \ {0} /\ n \in Nat \ {0}
        BY <1>1, <1>8, <2>1
  <2>3. msgs[i] = Utter(b, n)
        BY <1>8, <2>1, DraftSays DEF Utters
  <2>4. Answering(msgs[i + 1], b, n, u)
        BY <1>8 DEF Draft, Heeded
  <2> HIDE DEF b, n
  <2>5. Answering(Extended(msgs, i + 1), b, n, u)
    <3> DEFINE j == i + 1
    <3>1. j \in DOMAIN msgs /\ j - 1 \in DOMAIN msgs /\ msgs[j - 1] = Utter(b, n) /\ Answering(msgs[j], b, n, u)
          BY <2>1, <2>3, <2>4
    <3> HIDE DEF j
    <3>2. Answering(Extended(msgs, j), b, n, u)
          BY <1>1, <2>2, <3>1, ExtendedAnswers
    <3> QED BY <3>2 DEF j
  <2> QED BY <1>2, <2>1, <2>5 DEF b, n
<1>9. L > 0 /\ pre[1] = Summary => L > Kept
  <2> HAVE L > 0 /\ pre[1] = Summary
  <2>1. 1 \in 1 .. L /\ 1 \in 1 .. Len(msgs)
        BY <1>1
  <2>2. msgs[1].role = "user"
        BY <1>2, <2>1, PlainIs
  <2>3. pre[1] = msgs[1]
        BY <1>4, <2>1, <2>2, DraftSays
  <2> QED BY <2>3 DEF Draft
<1> QED BY <1>1, <1>3, <1>7, <1>8, <1>9 DEF Draft, Heeded

\* Only the last message can be followed by one of the repair's.
LEMMA SplicedLast ==
    ASSUME NEW nx, NEW msgs, NEW u, Draft(nx, msgs, u), NEW i \in 1 .. Len(msgs)
    PROVE  /\ i < Len(msgs) => ~Spliced(msgs, i)
           /\ i = Len(msgs) =>
                /\ Spliced(msgs, i) <=> nx[i] > nx[i - 1]
                /\ Spliced(msgs, i) => Orphans(msgs, i) = CallNumbers(nx[i - 1], nx[i] - nx[i - 1])
<1> DEFINE b == nx[i - 1]
           n == nx[i] - nx[i - 1]
<1>1. /\ msgs \in Seq(MessagesOf(Written)) /\ i \in DOMAIN msgs /\ Len(msgs) \in Nat
      /\ DOMAIN msgs = 1 .. Len(msgs)
      /\ b \in Nat \ {0} /\ n \in Nat /\ nx[i] \in Nat /\ nx[i] >= b
      BY DraftAt, LenProperties DEF Draft
<1>2. CallIds(msgs[i]) = CallNumbers(b, n) /\ (nx[i] > b => msgs[i].role = "assistant")
      BY DraftSays
<1>3. Orphans(msgs, i) \in Seq(IdsOf(Written))
      BY <1>1, OrphansAre
<1>4. CASE ~(nx[i] > b)
  <2>1. n = 0
        BY <1>1, <1>4
  <2>2. Range(CallIds(msgs[i])) = {}
    <3>1. Range(CallNumbers(b, 0)) = b .. b + 0 - 1
          BY <1>1, NumbersAre
    <3>2. b .. b + 0 - 1 = {}
          BY <1>1
    <3> QED BY <1>2, <2>1, <3>1, <3>2
  <2>3. Range(Orphans(msgs, i)) = {} \/ Orphans(msgs, i) = <<>>
        BY <1>1, <2>2, OrphansAre
  <2>4. Orphans(msgs, i) = <<>>
        BY <1>3, <2>3, EmptyRange
  <2> QED BY <1>4, <2>4 DEF Spliced
<1>5. CASE nx[i] > b /\ i < Len(msgs)
  <2>1. i \in 1 .. Len(msgs) - 1 /\ i + 1 \in DOMAIN msgs /\ n \in Nat \ {0}
        BY <1>1, <1>5
  <2>2. Answering(msgs[i + 1], b, n, u)
        BY <1>5, <2>1 DEF Draft, Heeded
  <2>3. msgs[i + 1] \in MessagesOf(Written)
        BY <1>1, <2>1, ElementIn
  <2>4. ResultIds(msgs[i + 1]) # {}
        BY <1>1, <2>2, <2>3, AnswerIs
  <2>5. Bucket(msgs, i + 1)
        BY <2>1, <2>2, <2>4 DEF Bucket, Answering
  <2> QED BY <1>1, <1>5, <2>5 DEF Spliced
<1>6. CASE nx[i] > b /\ i = Len(msgs)
  <2>1. i + 1 \notin DOMAIN msgs
        BY <1>1, <1>6
  <2>2. ~Bucket(msgs, i + 1)
        BY <2>1 DEF Bucket
  <2> DEFINE ids == CallNumbers(b, n)
             A == Nat \ {0}
  <2>0. n # 0
        BY <1>1, <1>6
  <2>3. ids \in Seq(A) /\ Len(ids) = n /\ n # 0
    <3>1. CallNumbers(b, n) \in Seq(Nat \ {0}) /\ Len(CallNumbers(b, n)) = n
          BY <1>1, NumbersAre
    <3> QED BY <2>0, <3>1
  <2> HIDE DEF A
  <2>4. CallIds(msgs[i]) = ids
        BY <1>2
  <2> HIDE DEF ids
  <2>5. Orphans(msgs, i) = Those(ids, Range(ids) \ {})
        BY <1>1, <1>2, <1>6, <2>2, <2>4 DEF Orphans
  <2>6. \A k \in 1 .. Len(ids) : ids[k] \in Range(ids) \ {}
        BY <2>3, ElementIn, LenProperties
  <2>7. Orphans(msgs, i) = ids
        BY <2>3, <2>5, <2>6, ThoseAll
  <2>8. ids # <<>>
        BY <2>3, EmptySeq
  <2> QED BY <1>1, <1>6, <2>2, <2>7, <2>8 DEF Spliced, ids
<1>7. i < Len(msgs) \/ i = Len(msgs)
      BY <1>1
<1> QED BY <1>4, <1>5, <1>6, <1>7

\* The repair of such a history: every message as it is extended, and an answer to its end.
LEMMA SanitizeIs ==
    ASSUME NEW nx, NEW msgs, NEW u, Draft(nx, msgs, u), NEW L, L = Len(msgs),
           NEW pre, pre = [i \in 1 .. L |-> Extended(msgs, i)]
    PROVE  /\ L = 0 \/ nx[L] = nx[L - 1] => Sanitize(msgs) = pre
           /\ L > 0 /\ nx[L] > nx[L - 1] =>
                Sanitize(msgs) = Append(pre, Msg("tool", Synthetic(CallNumbers(nx[L - 1], nx[L] - nx[L - 1]))))
<1> DEFINE out == Sanitize(msgs)
           S == MessagesOf(Written)
<1>1. msgs \in Seq(S) /\ L \in Nat /\ pre \in Seq(S) /\ Len(pre) = L
  <2>1. msgs \in Seq(S)
        BY DEF Draft
  <2>2. pre \in Seq(S) /\ Len(pre) = L
        BY ExtendedDrafted
  <2>3. L \in Nat
    <3> HIDE DEF S
    <3> QED BY <2>1, LenProperties
  <2> QED BY <2>1, <2>2, <2>3
<1>2. out \in Seq(S)
      BY <1>1, WrittenCloses, SanitizePlaces
<1>3. PICK at : Repairs(at, out, msgs)
      BY <1>1, WrittenCloses, SanitizePlaces
<1> HIDE DEF out, S
<1>4. /\ at \in [0 .. L -> Nat] /\ at[0] = 0 /\ Len(out) = at[L]
      /\ \A i \in 1 .. L :
            /\ at[i] = at[i - 1] + (IF Spliced(msgs, i) THEN 2 ELSE 1)
            /\ out[at[i - 1] + 1] = Extended(msgs, i)
            /\ Spliced(msgs, i) => out[at[i - 1] + 2] = Msg("tool", Synthetic(Orphans(msgs, i)))
      BY <1>3 DEF Repairs
<1>5. \A i \in 1 .. L : i < L => ~Spliced(msgs, i)
      BY SplicedLast
<1>6. \A i \in 0 .. L : i < L => at[i] = i
  <2> DEFINE P == {i \in 0 .. L : i < L => at[i] = i}
  <2>1. 0 \in P
        BY <1>1, <1>4
  <2>2. ASSUME NEW k \in 0 .. L, k < L, k \in P PROVE k + 1 \in P
    <3>1. k + 1 \in 1 .. L /\ (k + 1) - 1 = k /\ k + 1 \in 0 .. L
          BY <1>1, <2>2
    <3>2. k + 1 < L => at[k + 1] = at[(k + 1) - 1] + 1
          BY <1>4, <1>5, <3>1
    <3>3. at[k] = k
          BY <2>2
    <3> QED BY <3>1, <3>2, <3>3
  <2> HIDE DEF P
  <2>3. \A k \in 0 .. L : k \in P
        BY <1>1, <2>1, <2>2, UpTo
  <2> QED BY <2>3 DEF P
<1>7. \A i \in 1 .. L : out[i] = pre[i] /\ at[i - 1] = i - 1
  <2> TAKE i \in 1 .. L
  <2>1. i - 1 \in 0 .. L /\ i - 1 < L /\ (i - 1) + 1 = i
        BY <1>1
  <2>2. at[i - 1] = i - 1
        BY <1>6, <2>1
  <2> QED BY <1>4, <2>1, <2>2
<1>8. CASE L = 0
  <2>1. Len(out) = 0 /\ Len(pre) = 0 /\ ~(L > 0)
        BY <1>1, <1>4, <1>8
  <2>2. out = <<>> /\ pre = <<>>
        BY <1>1, <1>2, <2>1, EmptySeq
  <2> QED BY <2>1, <2>2 DEF out
<1>9. CASE L # 0
  <2>1. L \in 1 .. L /\ L > 0 /\ L \in 1 .. Len(msgs)
        BY <1>1, <1>9
  <2>2. /\ Spliced(msgs, L) <=> nx[L] > nx[L - 1]
        /\ Spliced(msgs, L) => Orphans(msgs, L) = CallNumbers(nx[L - 1], nx[L] - nx[L - 1])
        BY <2>1, SplicedLast
  <2>3. at[L - 1] = L - 1 /\ at[L] = at[L - 1] + (IF Spliced(msgs, L) THEN 2 ELSE 1)
        BY <1>4, <1>7, <2>1
  <2>4. nx[L] \in Nat /\ nx[L - 1] \in Nat
        BY <2>1, DraftAt
  <2>5. CASE ~Spliced(msgs, L)
    <3>1. Len(out) = L
          BY <1>1, <1>4, <2>3, <2>5
    <3>2. out = pre
          BY <1>1, <1>2, <1>7, <3>1, SeqEqual
    <3> QED BY <2>2, <2>5, <3>2 DEF out
  <2>6. CASE Spliced(msgs, L)
    <3> DEFINE m == Msg("tool", Synthetic(CallNumbers(nx[L - 1], nx[L] - nx[L - 1])))
               new == Append(pre, m)
    <3>1. Len(out) = L + 1 /\ at[L - 1] + 2 = L + 1
          BY <1>1, <1>4, <2>3, <2>6
    <3>2. out[L + 1] = m
          BY <1>4, <2>1, <2>2, <2>6, <3>1
    <3>3. m \in S
      <4>1. L + 1 \in DOMAIN out
            BY <1>1, <1>2, <3>1, LenProperties
      <4> HIDE DEF m
      <4> QED BY <1>2, <3>2, <4>1, ElementIn
    <3> HIDE DEF m
    <3>4. new \in Seq(S) /\ Len(new) = L + 1 /\ new[L + 1] = m /\ \A i \in 1 .. L : new[i] = pre[i]
          BY <1>1, <3>3, AppendReads
    <3> HIDE DEF new
    <3>5. \A i \in 1 .. Len(out) : out[i] = new[i]
      <4>1. \A i \in 1 .. L + 1 : i \in 1 .. L \/ i = L + 1
            BY <1>1
      <4> QED BY <1>7, <3>1, <3>2, <3>4, <4>1
    <3>6. out = new
          BY <1>2, <3>1, <3>4, <3>5, SeqEqual
    <3>7. nx[L] > nx[L - 1] /\ nx[L] # nx[L - 1]
          BY <2>2, <2>4, <2>6
    <3> QED BY <1>9, <3>6, <3>7 DEF out, new, m
  <2> QED BY <2>5, <2>6
<1> QED BY <1>8, <1>9

\* The repair answers what the last message calls, when none of it was run.
LEMMA SanitizeDrafted ==
    ASSUME NEW msgs, NEW u, NEW f, NEW w, NEW v, Drafted(msgs, u, f, w, v), \A id \in w .. v - 1 : id \in u
    PROVE  Drafted(Sanitize(msgs), u, f, v, v)
<1> DEFINE L == Len(msgs)
           pre == [i \in 1 .. L |-> Extended(msgs, i)]
<1>1. PICK nx : /\ Draft(nx, msgs, u) /\ nx[0] = f /\ nx[L] = v
                /\ IF L = 0 THEN w = v ELSE nx[L - 1] = w
      BY DEF Drafted
<1>2. v \in Nat \ {0} /\ w \in Nat \ {0} /\ w <= v /\ L \in Nat
      BY DraftedIs
<1>3. pre = [i \in 1 .. L |-> Extended(msgs, i)] /\ L = Len(msgs)
      OBVIOUS
<1> HIDE DEF pre, L
<1>4. Draft(nx, pre, u) /\ Len(pre) = L
      BY <1>1, <1>3, ExtendedDrafted
<1>5. Drafted(pre, u, f, w, v)
      BY <1>1, <1>4 DEF Drafted
<1>6. CASE L = 0 \/ v = w
  <2>1. Sanitize(msgs) = pre
        BY <1>1, <1>3, <1>6, SanitizeIs
  <2> QED BY <1>1, <1>5, <1>6, <2>1
<1>7. CASE L # 0 /\ v # w
  <2> DEFINE n == v - w
             ids == CallNumbers(w, n)
             parts == Synthetic(ids)
             m == Msg("tool", parts)
  <2>1. n \in Nat \ {0} /\ v > w /\ L > 0 /\ w + n = v
        BY <1>2, <1>7
  <2>2. Sanitize(msgs) = Append(pre, m)
        BY <1>1, <1>3, <1>7, <2>1, SanitizeIs
  <2> HIDE DEF n
  <2>3. ids \in Seq(Nat \ {0}) /\ Len(ids) = n /\ \A k \in 1 .. n : ids[k] = w + k - 1
        BY <1>2, <2>1, NumbersAre
  <2> HIDE DEF ids
  <2>4. ids \in Seq(IdsOf(Written))
    <3>1. \A id \in Nat : id \in IdsOf(Written)
      <4> TAKE id \in Nat
      <4>1. CallPart(id) \in Written /\ CallPart(id).kind = "call" /\ CallPart(id).id = id
            BY PartsWritten DEF CallPart
      <4> QED BY <4>1 DEF IdsOf
    <3> DEFINE A == Nat \ {0}
               B == IdsOf(Written)
    <3>2. ids \in Seq(A) /\ \A x \in A : x \in B
          BY <2>3, <3>1
    <3> HIDE DEF A, B
    <3>3. ids \in [1 .. n -> B]
      <4>1. DOMAIN ids = 1 .. n /\ ids \in [1 .. n -> A]
            BY <2>3, <3>2, LenProperties
      <4> QED BY <3>2, <4>1
    <3>4. ids \in Seq(B)
          BY <2>1, <3>3, MakesSeq
    <3> QED BY <3>4 DEF B
  <2>5. /\ parts \in Seq(Written) /\ Len(parts) = n
        /\ \A k \in 1 .. n : parts[k] = Result(w + k - 1, "text", Marker)
        BY <2>3, <2>4, WrittenCloses, SyntheticAre
  <2> HIDE DEF parts
  <2>6. m \in MessagesOf(Written) /\ m.role = "tool" /\ m.parts = parts
        BY <2>5, MessageIs
  <2>7. \A id : Result(id, "text", Marker).kind = "result" /\ Result(id, "text", Marker).id = id
                /\ Result(id, "text", Marker).text = Marker
        BY DEF Result
  <2>8. \A k \in 1 .. n : parts[k].kind = "result" /\ parts[k].id = w + k - 1 /\ parts[k].text = Marker
        BY <2>5, <2>7
  <2>9. 1 \in 1 .. n /\ w + 1 - 1 = w /\ (\A k \in 1 .. n : w + k - 1 \in w .. w + n - 1) /\ w \in w .. v - 1
        BY <1>2, <2>1
  <2>10. w \in u
         BY <2>9
  <2>11. \A k \in 1 .. n : AnswerOf(parts[k], w, n, u)
         BY <2>8, <2>9, <2>10 DEF AnswerOf
  <2>12. parts # <<>> /\ parts[1].id = w
         BY <2>1, <2>5, <2>8, <2>9, EmptySeq
  <2>13. Answering(m, w, n, u)
         BY <2>5, <2>6, <2>11, <2>12 DEF Answering
  <2> HIDE DEF m
  <2>14. Drafted(Append(pre, m), u, f, w + n, w + n)
    <3>1. Drafted(pre, u, f, w, w + n)
          BY <1>5, <2>1
    <3> QED BY <2>1, <2>6, <2>13, <3>1, AnswerDrafted DEF m
  <2> QED BY <2>1, <2>2, <2>14 DEF m
<1> QED BY <1>6, <1>7

-----------------------------------------------------------------------------

\* The first calls of the steps of an answer.
Firsts(g, ns) ==
    /\ g \in [0 .. Len(ns) -> Nat \ {0}] /\ g[0] = made + 1
    /\ \A k \in 1 .. Len(ns) : g[k] = g[k - 1] + ns[k]

LEMMA FirstSteps ==
    ASSUME NEW ns \in Seq(Nat), made \in Nat
    PROVE  \E g : Firsts(g, ns) /\ \A k \in 1 .. Len(ns) + 1 : FirstOf(ns, k) = g[k - 1]
<1> DEFINE T == Nat \ {0}
           G == [p \in T \X Nat |-> p[1] + p[2]]
           n == Len(ns)
           base == made + 1
           Rec(r) == r = [i \in 0 .. Len(ns) |-> IF i = 0 THEN made + 1 ELSE r[i - 1] + ns[i]]
           iter == CHOOSE r : Rec(r)
<1>1. n \in Nat /\ ns \in [1 .. n -> Nat]
      BY LenProperties
<1>2. \A c \in T, x \in Nat : G[<<c, x>>] = c + x
  <2> TAKE c \in T, x \in Nat
  <2>1. <<c, x>> \in T \X Nat /\ <<c, x>>[1] = c /\ <<c, x>>[2] = x
        OBVIOUS
  <2> QED BY <2>1
<1>3. G \in [T \X Nat -> T]
  <2>1. \A p \in T \X Nat : p[1] \in T /\ p[2] \in Nat
        OBVIOUS
  <2>2. \A p \in T \X Nat : p[1] + p[2] \in T
        BY <2>1
  <2> QED BY <2>2
<1>4. base \in T
      OBVIOUS
<1> HIDE DEF G, T, base
<1>5. PICK h \in [0 .. n -> T] : FoldUpTo(h, base, G, ns, n)
      BY <1>1, <1>3, <1>4, RecursionExists
<1>6. h[0] = base /\ \A k \in 1 .. n : h[k] = h[k - 1] + ns[k]
  <2>1. h[0] = base /\ \A k \in 1 .. n : h[k] = G[<<h[k - 1], ns[k]>>]
        BY <1>5 DEF FoldUpTo
  <2>2. ASSUME NEW k \in 1 .. n PROVE h[k] = h[k - 1] + ns[k]
    <3>1. k - 1 \in 0 .. n /\ h[k - 1] \in T /\ ns[k] \in Nat
          BY <1>1
    <3> QED BY <1>2, <2>1, <3>1
  <2> QED BY <2>1, <2>2
<1>7. Rec(h)
  <2> DEFINE r == [i \in 0 .. Len(ns) |-> IF i = 0 THEN made + 1 ELSE h[i - 1] + ns[i]]
  <2>1. \A i \in 0 .. n : h[i] = r[i]
    <3> TAKE i \in 0 .. n
    <3>1. CASE i = 0
          BY <1>6, <3>1 DEF base
    <3>2. CASE i # 0
      <4>1. i \in 1 .. n
            BY <1>1, <3>2
      <4> QED BY <1>6, <3>2, <4>1
    <3> QED BY <3>1, <3>2
  <2>2. DOMAIN r = 0 .. n /\ DOMAIN h = 0 .. n
        OBVIOUS
  <2>3. r = [i \in 0 .. n |-> r[i]] /\ h = [i \in 0 .. n |-> h[i]]
        OBVIOUS
  <2>4. h = r
    <3> HIDE DEF r
    <3> QED BY <2>1, <2>3
  <2> QED BY <2>4
<1>8. Rec(iter)
  <2> HIDE DEF Rec
  <2> QED BY <1>7
<1>9. \A k : FirstOf(ns, k) = iter[k - 1]
      BY DEF FirstOf
<1>10. iter[0] = base /\ \A k \in 1 .. n : iter[k] = iter[k - 1] + ns[k]
  <2> HIDE DEF iter
  <2>1. \A i \in 0 .. n : iter[i] = IF i = 0 THEN made + 1 ELSE iter[i - 1] + ns[i]
        BY <1>8
  <2>2. 0 \in 0 .. n /\ \A k \in 1 .. n : k \in 0 .. n /\ k # 0
        BY <1>1
  <2> QED BY <2>1, <2>2 DEF base
<1> HIDE DEF iter, Rec
<1> DEFINE P == {k \in 0 .. n : iter[k] = h[k]}
<1>11. 0 \in P
      BY <1>1, <1>6, <1>10
<1>12. ASSUME NEW k \in 0 .. n, k < n, k \in P PROVE k + 1 \in P
  <2>1. k + 1 \in 1 .. n /\ (k + 1) - 1 = k /\ k + 1 \in 0 .. n /\ iter[k] = h[k]
        BY <1>1, <1>12
  <2>2. iter[k + 1] = iter[k] + ns[k + 1] /\ h[k + 1] = h[k] + ns[k + 1]
        BY <1>6, <1>10, <2>1
  <2> QED BY <2>1, <2>2
<1> HIDE DEF P
<1>13. \A k \in 0 .. n : k \in P
       BY <1>1, <1>11, <1>12, UpTo
<1>14. \A k \in 1 .. n + 1 : FirstOf(ns, k) = h[k - 1]
  <2> TAKE k \in 1 .. n + 1
  <2>1. k - 1 \in 0 .. n
        BY <1>1
  <2> QED BY <1>9, <1>13, <2>1 DEF P
<1>15. Firsts(h, ns)
       BY <1>5, <1>6 DEF Firsts, T, base
<1> QED BY <1>14, <1>15

\* What comes through the older shape as a message of a history.
Lasting == {m \in MessagesOf(Written) : Back(m) \in MessagesOf(Written)}
Through(s) == [i \in DOMAIN s |-> Back(s[i])]

\* What comes back of messages that the older shape can hold.
LEMMA ThroughIs ==
    ASSUME NEW s \in Seq(Lasting)
    PROVE  /\ Through(s) \in Seq(MessagesOf(Written)) /\ Len(Through(s)) = Len(s)
           /\ \A i \in 1 .. Len(s) : Through(s)[i] = Back(s[i])
<1> DEFINE S == MessagesOf(Written)
           t == Through(s)
<1>1. Len(s) \in Nat /\ DOMAIN s = 1 .. Len(s) /\ \A i \in 1 .. Len(s) : s[i] \in Lasting
      BY LenProperties
<1>2. DOMAIN t = 1 .. Len(s) /\ (\A i \in 1 .. Len(s) : t[i] = Back(s[i])) /\ t = [i \in 1 .. Len(s) |-> t[i]]
      BY <1>1 DEF Through
<1>3. \A i \in 1 .. Len(s) : t[i] \in S
      BY <1>1, <1>2 DEF Lasting
<1> HIDE DEF t, S
<1>4. t \in [1 .. Len(s) -> S]
      BY <1>2, <1>3
<1>5. t \in Seq(S)
      BY <1>1, <1>4, MakesSeq
<1>6. Len(t) = Len(s)
  <2>1. Len(t) \in Nat /\ DOMAIN t = 1 .. Len(t)
        BY <1>5, LenProperties
  <2> QED BY <1>1, <1>2, <2>1
<1> QED BY <1>2, <1>5, <1>6 DEF t, S

LEMMA ThroughSum ==
    ASSUME NEW s \in Seq(Lasting), NEW t \in Seq(Lasting)
    PROVE  Through(s \o t) = Through(s) \o Through(t)
<1> DEFINE S == MessagesOf(Written)
           a == Through(s)
           b == Through(t)
           c == Through(s \o t)
<1>1. s \o t \in Seq(Lasting) /\ Len(s \o t) = Len(s) + Len(t) /\ Len(s) \in Nat /\ Len(t) \in Nat
      /\ (\A i \in 1 .. Len(s) : (s \o t)[i] = s[i]) /\ \A i \in 1 .. Len(t) : (s \o t)[Len(s) + i] = t[i]
      BY OnePiece, ConcatProperties
<1>2. /\ a \in Seq(S) /\ Len(a) = Len(s) /\ \A i \in 1 .. Len(s) : a[i] = Back(s[i])
      /\ b \in Seq(S) /\ Len(b) = Len(t) /\ \A i \in 1 .. Len(t) : b[i] = Back(t[i])
      BY ThroughIs
<1>3. c \in Seq(S) /\ Len(c) = Len(s) + Len(t) /\ \A i \in 1 .. Len(s) + Len(t) : c[i] = Back((s \o t)[i])
      BY <1>1, ThroughIs
<1> HIDE DEF a, b, c, S
<1>4. /\ a \o b \in Seq(S) /\ Len(a \o b) = Len(s) + Len(t)
      /\ (\A i \in 1 .. Len(s) : (a \o b)[i] = a[i]) /\ \A i \in 1 .. Len(t) : (a \o b)[Len(s) + i] = b[i]
  <2>1. a \in Seq(S) /\ b \in Seq(S) /\ Len(a) = Len(s) /\ Len(b) = Len(t)
        BY <1>2
  <2>2. a \o b \in Seq(S)
        BY <2>1, ConcatProperties
  <2>3. /\ Len(a \o b) = Len(a) + Len(b) /\ (\A i \in 1 .. Len(a) : (a \o b)[i] = a[i])
        /\ \A i \in 1 .. Len(b) : (a \o b)[Len(a) + i] = b[i]
    <3>1. a \in Seq(S) /\ b \in Seq(S)
          BY <2>1
    <3> QED BY <3>1, OnePiece
  <2> QED BY <2>1, <2>2, <2>3
<1>5. \A i \in 1 .. Len(c) : c[i] = (a \o b)[i]
  <2> TAKE i \in 1 .. Len(c)
  <2>1. CASE i \in 1 .. Len(s)
        BY <1>1, <1>2, <1>3, <1>4, <2>1
  <2>2. CASE i \notin 1 .. Len(s)
    <3> DEFINE k == i - Len(s)
    <3>1. k \in 1 .. Len(t) /\ i = Len(s) + k /\ i \in 1 .. Len(s) + Len(t)
          BY <1>1, <1>3, <2>2
    <3> HIDE DEF k
    <3> QED BY <1>1, <1>2, <1>3, <1>4, <3>1
  <2> QED BY <2>1, <2>2
<1> QED BY <1>3, <1>4, <1>5, SeqEqual DEF a, b, c

LEMMA ThroughOne ==
    ASSUME NEW m \in Lasting
    PROVE  /\ <<m>> \in Seq(Lasting) /\ Through(<<m>>) = <<Back(m)>> /\ Back(m) \in MessagesOf(Written)
<1>1. <<m>> \in Seq(Lasting) /\ Len(<<m>>) = 1 /\ <<m>>[1] = m
      OBVIOUS
<1>2. Through(<<m>>) \in Seq(MessagesOf(Written)) /\ Len(Through(<<m>>)) = 1 /\ Through(<<m>>)[1] = Back(m)
  <2> DEFINE s == <<m>>
  <2>1. s \in Seq(Lasting) /\ Len(s) = 1 /\ s[1] = m
        BY <1>1
  <2> HIDE DEF s
  <2>2. Through(s) \in Seq(MessagesOf(Written)) /\ Len(Through(s)) = Len(s)
        /\ \A i \in 1 .. Len(s) : Through(s)[i] = Back(s[i])
        BY <2>1, ThroughIs
  <2> QED BY <2>1, <2>2 DEF s
<1> DEFINE x == Back(m)
           S == MessagesOf(Written)
           t == Through(<<m>>)
<1>3. x \in S
      BY DEF Lasting
<1>4. t \in Seq(S) /\ Len(t) = 1 /\ t[1] = x
      BY <1>2
<1> HIDE DEF x, S, t
<1>5. <<x>> \in Seq(S) /\ Len(<<x>>) = 1 /\ <<x>>[1] = x
      BY <1>3
<1>6. \A i \in 1 .. 1 : t[i] = <<x>>[i]
      BY <1>4, <1>5
<1>7. t = <<x>>
      BY <1>4, <1>5, <1>6, SeqEqual
<1> QED BY <1>1, <1>3, <1>7 DEF x, S, t

\* The messages of a step.
LEMMA StepIs ==
    ASSUME NEW b \in Nat \ {0}, NEW n \in Nat, NEW run
    PROVE  /\ Utter(b, n) \in Lasting
           /\ n > 0 /\ run => Told(b, n) \in Lasting
           /\ n > 0 /\ run => Step(b, n, run) = <<Utter(b, n)>> \o <<Told(b, n)>>
           /\ ~(n > 0 /\ run) => Step(b, n, run) = <<Utter(b, n)>>
<1>1. Utter(b, n) \in Lasting
      BY UtterIs DEF Lasting
<1>2. n > 0 /\ run => Told(b, n) \in Lasting
  <2> HAVE n > 0 /\ run
  <2>1. n \in Nat \ {0} /\ b \notin {}
        OBVIOUS
  <2> QED BY <2>1, ToldIs DEF Lasting
<1> DEFINE a == Utter(b, n)
           c == Told(b, n)
<1>3. Step(b, n, run) = <<a>> \o (IF n > 0 /\ run THEN <<c>> ELSE <<>>)
  <2>1. TextPart(Wording) = <<Text(<<<<"text", NoId>>>>)>>
        BY WordsOfTurns DEF TextPart, Wording
  <2> QED BY <2>1 DEF Step, Utter, Told
<1> HIDE DEF a, c
<1>4. <<a>> \o <<>> = <<a>>
  <2>1. <<a>> \in Seq(Lasting)
        BY <1>1 DEF a
  <2> QED BY <2>1, ConcatEmptySeq
<1> QED BY <1>1, <1>2, <1>3, <1>4 DEF a, c

\* A step behind a history that owes no answer: what it made is answered when it was run.
LEMMA StepDrafted ==
    ASSUME NEW msgs, NEW u, NEW f, NEW b, Drafted(msgs, u, f, b, b), NEW n \in Nat, NEW run,
           n > 0 /\ run => b \notin u
    PROVE  /\ Step(b, n, run) \in Seq(Lasting)
           /\ Drafted(msgs \o Through(Step(b, n, run)), u, f, IF run THEN b + n ELSE b, b + n)
<1> DEFINE S == MessagesOf(Written)
           a == Utter(b, n)
           c == Told(b, n)
           s == Step(b, n, run)
<1>1. b \in Nat \ {0} /\ msgs \in Seq(S)
      BY DraftedIs
<1>2. a \in Lasting /\ a \in S /\ Back(a) = a
      BY <1>1, StepIs, UtterIs DEF Lasting
<1>3. Drafted(Append(msgs, a), u, f, b, b + n)
      BY UtterDrafted
<1>4. <<a>> \in Seq(Lasting) /\ Through(<<a>>) = <<a>>
  <2> HIDE DEF a
  <2>1. Through(<<a>>) = <<Back(a)>> /\ <<a>> \in Seq(Lasting)
        BY <1>2, ThroughOne
  <2> QED BY <1>2, <2>1
<1>5. Append(msgs, a) = msgs \o <<a>> /\ Append(msgs, a) \in Seq(S) /\ <<a>> \in Seq(S)
  <2> HIDE DEF a, S
  <2>1. Append(msgs, a) = msgs \o <<a>>
        BY <1>1, <1>2, AppendIsConcat
  <2>2. Append(msgs, a) \in Seq(S) /\ <<a>> \in Seq(S)
        BY <1>1, <1>2, AppendProperties
  <2> QED BY <2>1, <2>2
<1>6. CASE ~(n > 0 /\ run)
  <2>1. s = <<a>>
        BY <1>1, <1>6, StepIs
  <2>2. (IF run THEN b + n ELSE b) = b
    <3>1. n = 0 => b + n = b
          BY <1>1
    <3>2. run => n = 0
          BY <1>6
    <3> QED BY <3>1, <3>2
  <2> QED BY <1>3, <1>4, <1>5, <2>1, <2>2
<1>7. CASE n > 0 /\ run
  <2>0. n \in Nat \ {0}
        BY <1>7
  <2>1. s = <<a>> \o <<c>> /\ c \in Lasting /\ n \in Nat \ {0}
    <3>1. b \in Nat \ {0} /\ n \in Nat
          BY <1>1
    <3>2. Step(b, n, run) = <<Utter(b, n)>> \o <<Told(b, n)>> /\ Told(b, n) \in Lasting
          BY <1>7, <3>1, StepIs
    <3> QED BY <2>0, <3>2
  <2>2. <<c>> \in Seq(Lasting) /\ Through(<<c>>) = <<Back(c)>> /\ Back(c) \in S
    <3> HIDE DEF c
    <3> QED BY <2>1, ThroughOne
  <2> DEFINE d == Back(c)
  <2>3. Answering(d, b, n, u)
        BY <1>1, <1>7, <2>1, ToldIs
  <2> HIDE DEF a, c, S
  <2>4. Through(s) = <<a>> \o <<d>> /\ s \in Seq(Lasting)
    <3>1. Through(<<a>> \o <<c>>) = Through(<<a>>) \o Through(<<c>>)
          BY <1>4, <2>2, ThroughSum
    <3>2. <<a>> \o <<c>> \in Seq(Lasting)
          BY <1>4, <2>2, ConcatProperties
    <3> QED BY <1>4, <2>1, <2>2, <3>1, <3>2
  <2> HIDE DEF d, s
  <2>5. d \in S
        BY <2>2 DEF d
  <2>6. <<d>> \in Seq(S)
        BY <2>5
  <2>7. msgs \o (<<a>> \o <<d>>) = (msgs \o <<a>>) \o <<d>>
        BY <1>1, <1>5, <2>6, Associates
  <2>8. msgs \o Through(s) = Append(Append(msgs, a), d)
    <3> DEFINE x == Append(msgs, a)
    <3>1. x \in Seq(S) /\ x = msgs \o <<a>>
          BY <1>5
    <3> HIDE DEF x
    <3>2. Append(x, d) = x \o <<d>>
          BY <2>5, <3>1, AppendIsConcat
    <3> QED BY <2>4, <2>7, <3>1, <3>2 DEF x
  <2>9. Drafted(Append(Append(msgs, a), d), u, f, b + n, b + n)
        BY <1>3, <2>1, <2>3, <2>5, AnswerDrafted DEF S
  <2> QED BY <1>7, <2>4, <2>8, <2>9 DEF s
<1> QED BY <1>6, <1>7

\* The numbers of the first calls of an answer's steps rise.
LEMMA FirstsRise ==
    ASSUME NEW ns \in Seq(Nat), NEW g, Firsts(g, ns), NEW i \in 0 .. Len(ns)
    PROVE  \A k \in i .. Len(ns) : g[i] <= g[k]
<1> DEFINE P == {k \in 0 .. Len(ns) : k >= i => g[i] <= g[k]}
<1>1. Len(ns) \in Nat /\ (\A k \in 0 .. Len(ns) : g[k] \in Nat) /\ \A k \in 1 .. Len(ns) : ns[k] \in Nat
      BY LenProperties DEF Firsts
<1>2. 0 \in P
  <2>1. 0 \in 0 .. Len(ns) /\ (0 >= i => i = 0) /\ g[i] <= g[i]
        BY <1>1
  <2> QED BY <2>1
<1>3. ASSUME NEW k \in 0 .. Len(ns), k < Len(ns), k \in P PROVE k + 1 \in P
  <2>1. k + 1 \in 1 .. Len(ns) /\ (k + 1) - 1 = k /\ k + 1 \in 0 .. Len(ns)
        BY <1>1, <1>3
  <2>2. g[k + 1] = g[k] + ns[k + 1]
        BY <2>1 DEF Firsts
  <2>3. g[k] <= g[k + 1] /\ g[k] \in Nat /\ g[k + 1] \in Nat /\ g[i] \in Nat
        BY <1>1, <2>1, <2>2
  <2>4. CASE k + 1 = i
        BY <2>1, <2>3, <2>4
  <2>5. CASE k + 1 # i
    <3>1. k + 1 >= i => k >= i
          BY <2>1, <2>5
    <3> QED BY <1>3, <2>1, <2>3, <3>1
  <2> QED BY <2>4, <2>5
<1> HIDE DEF P
<1>4. \A k \in 0 .. Len(ns) : k \in P
      BY <1>1, <1>2, <1>3, UpTo
<1> QED BY <1>1, <1>4 DEF P

\* The messages of a step have a form that the older shape can hold.
LEMMA StepLasts ==
    ASSUME NEW b \in Nat \ {0}, NEW n \in Nat, NEW run
    PROVE  Step(b, n, run) \in Seq(Lasting)
<1> DEFINE a == Utter(b, n)
           c == Told(b, n)
<1>1. a \in Lasting /\ (n > 0 /\ run => c \in Lasting)
      BY StepIs
<1>2. Step(b, n, run) = IF n > 0 /\ run THEN <<a>> \o <<c>> ELSE <<a>>
      BY StepIs
<1> HIDE DEF a, c
<1>3. <<a>> \in Seq(Lasting) /\ (n > 0 /\ run => <<c>> \in Seq(Lasting))
      BY <1>1
<1>4. n > 0 /\ run => <<a>> \o <<c>> \in Seq(Lasting)
      BY <1>3, ConcatProperties
<1> QED BY <1>2, <1>3, <1>4

\* What an answer ns adds to history msgs, which owes no answer, whether its last step ran its
\* tools or not: all that may be without an answer is what its last message calls.
AnswersHold(ns, msgs, u, f) ==
    \A run \in BOOLEAN :
        LET calls == FirstOf(ns, Len(ns) + 1) - 1
            lost == IF run THEN {} ELSE FirstOf(ns, Len(ns)) .. calls
        IN  /\ AnswerMessages(ns, run) \in Seq(Lasting)
            /\ calls \in Nat /\ calls >= made /\ lost \subseteq made + 1 .. calls
            /\ \E w : /\ Drafted(msgs \o Through(AnswerMessages(ns, run)), u \cup lost, f, w, calls + 1)
                      /\ \A id \in w .. (calls + 1) - 1 : id \in u \cup lost

LEMMA AnswerSteps ==
    ASSUME made \in Nat, NEW ns \in Seq(Nat), ns # <<>>,
           NEW msgs, NEW u, NEW f, Drafted(msgs, u, f, made + 1, made + 1), u \subseteq 1 .. made
    PROVE  AnswersHold(ns, msgs, u, f)
<1> SUFFICES ASSUME NEW run \in BOOLEAN
             PROVE  LET calls == FirstOf(ns, Len(ns) + 1) - 1
                        lost == IF run THEN {} ELSE FirstOf(ns, Len(ns)) .. calls
                    IN  /\ AnswerMessages(ns, run) \in Seq(Lasting)
                        /\ calls \in Nat /\ calls >= made /\ lost \subseteq made + 1 .. calls
                        /\ \E w : /\ Drafted(msgs \o Through(AnswerMessages(ns, run)), u \cup lost, f, w, calls + 1)
                                  /\ \A id \in w .. (calls + 1) - 1 : id \in u \cup lost
    BY Zenon DEF AnswersHold
<1> SUFFICES ASSUME NEW calls, calls = FirstOf(ns, Len(ns) + 1) - 1,
                    NEW lost, lost = IF run THEN {} ELSE FirstOf(ns, Len(ns)) .. calls
             PROVE  /\ AnswerMessages(ns, run) \in Seq(Lasting)
                    /\ calls \in Nat /\ calls >= made /\ lost \subseteq made + 1 .. calls
                    /\ \E w : /\ Drafted(msgs \o Through(AnswerMessages(ns, run)), u \cup lost, f, w, calls + 1)
                              /\ \A id \in w .. (calls + 1) - 1 : id \in u \cup lost
    BY Zenon
<1> DEFINE L == Len(ns)
           z == u \cup lost
           new == AnswerMessages(ns, run)
           M == MessagesOf(Written)
<1>1. PICK g : Firsts(g, ns) /\ \A k \in 1 .. L + 1 : FirstOf(ns, k) = g[k - 1]
      BY FirstSteps
<1>2. L \in Nat /\ L # 0 /\ DOMAIN ns = 1 .. L /\ \A k \in 1 .. L : ns[k] \in Nat
      BY EmptySeq, LenProperties
<1>3. /\ g \in [0 .. L -> Nat \ {0}] /\ g[0] = made + 1
      /\ \A k \in 1 .. L : g[k] = g[k - 1] + ns[k]
      BY <1>1 DEF Firsts
<1>4. calls = g[L] - 1 /\ FirstOf(ns, L) = g[L - 1]
  <2>1. L + 1 \in 1 .. L + 1 /\ (L + 1) - 1 = L /\ L \in 1 .. L + 1
        BY <1>2
  <2> QED BY <1>1, <2>1
<1>5. \A i \in 0 .. L : \A k \in i .. L : g[i] <= g[k]
      BY <1>1, FirstsRise
<1>6. /\ g[L] \in Nat \ {0} /\ g[L - 1] \in Nat \ {0} /\ made + 1 <= g[L - 1] /\ g[L - 1] <= g[L]
      /\ made + 1 <= g[L]
  <2>1. 0 \in 0 .. L /\ L \in 0 .. L /\ L - 1 \in 0 .. L /\ L \in L - 1 .. L
        BY <1>2
  <2>2. g[0] <= g[L - 1] /\ g[L - 1] <= g[L] /\ g[0] <= g[L]
        BY <1>2, <1>5, <2>1
  <2> QED BY <1>3, <2>1, <2>2
<1>7. calls \in Nat /\ calls >= made /\ lost \subseteq made + 1 .. calls /\ calls + 1 = g[L]
      BY <1>4, <1>6
<1>8. ~run => lost = g[L - 1] .. g[L] - 1
      BY <1>4
<1>9. run => lost = {}
      OBVIOUS
<1> HIDE DEF L
<1> DEFINE steps == [k \in 1 .. L |-> Step(g[k - 1], ns[k], k < L \/ run)]
<1>10. steps \in Seq(Seq(Lasting)) /\ Len(steps) = L
       /\ \A k \in 1 .. L : steps[k] = Step(g[k - 1], ns[k], k < L \/ run)
  <2> DEFINE S == Seq(Lasting)
  <2>1. ASSUME NEW k \in 1 .. L PROVE Step(g[k - 1], ns[k], k < L \/ run) \in S
    <3>1. k - 1 \in 0 .. L
          BY <1>2
    <3>2. g[k - 1] \in Nat \ {0} /\ ns[k] \in Nat
          BY <1>2, <1>3, <3>1
    <3> QED BY <3>2, StepLasts
  <2> HIDE DEF S
  <2>2. steps \in [1 .. L -> S] /\ DOMAIN steps = 1 .. L /\ \A k \in 1 .. L : steps[k] = Step(g[k - 1], ns[k], k < L \/ run)
        BY <2>1
  <2> HIDE DEF steps
  <2>3. steps \in Seq(S)
        BY <1>2, <2>2, MakesSeq
  <2>4. Len(steps) \in Nat /\ DOMAIN steps = 1 .. Len(steps)
        BY <2>3, LenProperties
  <2>5. Len(steps) = L
        BY <1>2, <2>2, <2>4
  <2> QED BY <2>2, <2>3, <2>5 DEF S
<1>11. new = FlattenSeq(steps)
  <2>1. \A k \in 1 .. L : FirstOf(ns, k) = g[k - 1]
    <3>1. \A k \in 1 .. L : k \in 1 .. L + 1
          BY <1>2
    <3> QED BY <1>1, <3>1 DEF L
  <2>2. [k \in DOMAIN ns |-> Step(FirstOf(ns, k), ns[k], k < Len(ns) \/ run)] = steps
        BY <1>2, <2>1 DEF L
  <2> QED BY <2>2 DEF AnswerMessages
<1> HIDE DEF steps
<1>12. PICK h \in [0 .. L -> Seq(Lasting)] : Flattens(h, steps) /\ h[L] = FlattenSeq(steps)
       BY <1>10, FlattenSteps
<1>13. h[0] = <<>> /\ \A k \in 1 .. L : h[k] = h[k - 1] \o steps[k]
       BY <1>10, <1>12 DEF Flattens
<1> HIDE DEF z, new, M
<1>14. Drafted(msgs, z, f, made + 1, made + 1)
  <2>1. \A id \in lost : id >= made + 1
        BY <1>7
  <2> QED BY <2>1, MoreUnrun DEF z
<1>15. msgs \in Seq(M)
       BY DraftedIs DEF M
<1> DEFINE W(k) == IF k < L \/ run THEN g[k] ELSE g[k - 1]
           P == {k \in 0 .. L : Drafted(msgs \o Through(h[k]), z, f, W(k), g[k])}
<1>16. 0 \in P
  <2>1. Through(<<>>) = <<>>
    <3>1. <<>> \in Seq(Lasting) /\ Len(<<>>) = 0
          BY EmptySeq
    <3>2. Through(<<>>) \in Seq(M) /\ Len(Through(<<>>)) = 0
          BY <3>1, ThroughIs DEF M
    <3> DEFINE t == Through(<<>>)
    <3> HIDE DEF t, M
    <3> QED BY <3>2, EmptySeq DEF t
  <2>2. msgs \o Through(h[0]) = msgs
        BY <1>13, <1>15, <2>1, ConcatEmptySeq
  <2>3. W(0) = g[0] /\ 0 \in 0 .. L
        BY <1>2
  <2> QED BY <1>3, <1>14, <2>2, <2>3
<1>17. ASSUME NEW k \in 0 .. L, k < L, k \in P PROVE k + 1 \in P
  <2> DEFINE b == g[k]
             n == ns[k + 1]
             r == k + 1 < L \/ run
             x == msgs \o Through(h[k])
             s == Step(b, n, r)
  <2>1. k + 1 \in 1 .. L /\ (k + 1) - 1 = k /\ k + 1 \in 0 .. L
        BY <1>2, <1>17
  <2>2. b \in Nat \ {0} /\ n \in Nat /\ g[k + 1] = b + n /\ steps[k + 1] = s /\ h[k + 1] = h[k] \o s
        BY <1>2, <1>3, <1>10, <1>13, <2>1
  <2>3. W(k) = b
        BY <1>17
  <2>4. Drafted(x, z, f, b, b)
        BY <1>17, <2>3
  <2>5. n > 0 /\ r => b \notin z
    <3> HAVE n > 0 /\ r
    <3>1. b >= made + 1
      <4>1. 0 \in 0 .. L /\ k \in 0 .. L
            BY <1>2
      <4>2. g[0] <= g[k]
            BY <1>5, <4>1 DEF L
      <4> QED BY <1>3, <4>2
    <3>2. b \notin u
          BY <2>2, <3>1
    <3>3. b \notin lost
      <4>1. CASE run
            BY <1>9, <4>1
      <4>2. CASE ~run
        <5>1. k + 1 \in 0 .. L /\ L - 1 \in k + 1 .. L
              BY <1>2, <2>1, <4>2
        <5>2. g[k + 1] <= g[L - 1] /\ g[k + 1] \in Nat
              BY <1>3, <1>5, <5>1 DEF L
        <5>3. b < g[L - 1] /\ g[L - 1] \in Nat
              BY <1>6, <2>2, <5>2 DEF L
        <5>4. \A id \in lost : id >= g[L - 1]
          <6> DEFINE lo == g[L - 1]
                     hi == g[L] - 1
          <6>1. lost = lo .. hi
                BY <1>8, <4>2 DEF L
          <6>2. lo \in Int /\ hi \in Int
                BY <1>6 DEF L
          <6> HIDE DEF lo, hi
          <6>3. \A id \in lo .. hi : id >= lo
                BY <6>2
          <6> QED BY <6>1, <6>3 DEF lo
        <5>5. ~(b >= g[L - 1])
              BY <2>2, <5>3
        <5> QED BY <5>4, <5>5
      <4> QED BY <4>1, <4>2
    <3> QED BY <3>2, <3>3 DEF z
  <2> HIDE DEF W
  <2>6. s \in Seq(Lasting) /\ Drafted(x \o Through(s), z, f, IF r THEN b + n ELSE b, b + n)
    <3> HIDE DEF b, n, r, x, s
    <3>1. b \in Nat \ {0} /\ n \in Nat
          BY <2>2
    <3> QED BY <2>4, <2>5, <3>1, StepDrafted DEF s
  <2>7. W(k + 1) = IF r THEN b + n ELSE b
        BY <2>1, <2>2 DEF W
  <2>8. x \o Through(s) = msgs \o Through(h[k + 1])
    <3> DEFINE p == Through(h[k])
               q == Through(s)
    <3>1. p \in Seq(M) /\ q \in Seq(M) /\ h[k] \in Seq(Lasting)
          BY <2>6, ThroughIs DEF M
    <3>2. Through(h[k + 1]) = p \o q
          BY <2>2, <2>6, <3>1, ThroughSum
    <3> HIDE DEF p, q
    <3>3. msgs \o (p \o q) = (msgs \o p) \o q
      <4>1. msgs \in Seq(M) /\ p \in Seq(M) /\ q \in Seq(M)
            BY <1>15, <3>1
      <4> QED BY <4>1, Associates
    <3> QED BY <3>2, <3>3 DEF p, q
  <2> QED BY <2>1, <2>2, <2>6, <2>7, <2>8
<1> HIDE DEF P
<1>18. \A k \in 0 .. L : k \in P
       BY <1>2, <1>16, <1>17, UpTo DEF L
<1>19. L \in P /\ L \in 0 .. L
  <2>1. L \in 0 .. L
        BY <1>2 DEF L
  <2> QED BY <1>18, <2>1
<1>20. Drafted(msgs \o Through(new), z, f, W(L), calls + 1)
       BY <1>7, <1>11, <1>12, <1>19 DEF P, L
<1>21. \A id \in W(L) .. (calls + 1) - 1 : id \in z
  <2>1. ~(L < L)
        BY <1>2 DEF L
  <2>2. CASE run
    <3>1. W(L) = calls + 1
          BY <1>7, <2>2 DEF L
    <3>2. W(L) .. (calls + 1) - 1 = {}
          BY <1>7, <3>1
    <3> QED BY <3>2
  <2>3. CASE ~run
    <3>1. W(L) = g[L - 1]
          BY <2>1, <2>3
    <3> QED BY <1>7, <1>8, <2>3, <3>1 DEF z, L
  <2> QED BY <2>2, <2>3
<1>22. new \in Seq(Lasting)
       BY <1>11, <1>12, <1>19
<1> QED BY <1>7, <1>20, <1>21, <1>22 DEF z, new

-----------------------------------------------------------------------------

\* The calls of a message are the numbers its place says.
LEMMA CallsAt ==
    ASSUME NEW nx, NEW msgs, NEW u, Draft(nx, msgs, u), NEW i \in 1 .. Len(msgs)
    PROVE  Range(CallIds(msgs[i])) = nx[i - 1] .. nx[i] - 1
<1> DEFINE b == nx[i - 1]
           n == nx[i] - nx[i - 1]
<1>1. b \in Nat \ {0} /\ n \in Nat /\ nx[i] \in Nat
      BY DraftAt
<1>2. CallIds(msgs[i]) = CallNumbers(b, n)
      BY DraftSays
<1>3. b + n - 1 = nx[i] - 1
      BY <1>1
<1> HIDE DEF b, n
<1>4. Range(CallNumbers(b, n)) = b .. b + n - 1
      BY <1>1, NumbersAre
<1> QED BY <1>2, <1>3, <1>4 DEF b

\* Every number before the place i is that of a call some message before it makes.
LEMMA CallsCover ==
    ASSUME NEW nx, NEW msgs, NEW u, Draft(nx, msgs, u), NEW i \in 0 .. Len(msgs), NEW id \in nx[0] .. nx[i] - 1
    PROVE  \E k \in 1 .. i : id \in Range(CallIds(msgs[k])) /\ k \in 1 .. Len(msgs)
<1> DEFINE P == {k \in 0 .. Len(msgs) : nx[k] <= id \/ \E j \in 1 .. k : id \in nx[j - 1] .. nx[j] - 1}
<1>1. Len(msgs) \in Nat /\ \A k \in 0 .. Len(msgs) : nx[k] \in Nat
      BY LenProperties DEF Draft
<1>2. id \in Nat /\ nx[0] <= id /\ id <= nx[i] - 1
  <2>1. 0 \in 0 .. Len(msgs)
        BY <1>1
  <2> QED BY <1>1, <2>1
<1>3. 0 \in P
      BY <1>1, <1>2
<1>4. ASSUME NEW k \in 0 .. Len(msgs), k < Len(msgs), k \in P PROVE k + 1 \in P
  <2>1. k + 1 \in 1 .. Len(msgs) /\ (k + 1) - 1 = k /\ k + 1 \in 0 .. Len(msgs) /\ k + 1 \in 1 .. k + 1
        BY <1>1, <1>4
  <2>2. nx[k + 1] \in Nat /\ nx[k] \in Nat
        BY <1>1, <2>1
  <2>3. CASE nx[k] <= id /\ id < nx[k + 1]
    <3>1. id \in nx[(k + 1) - 1] .. nx[k + 1] - 1
          BY <1>2, <2>1, <2>2, <2>3
    <3>2. \E j \in 1 .. k + 1 : id \in nx[j - 1] .. nx[j] - 1
          BY <2>1, <3>1
    <3> QED BY <2>1, <3>2
  <2>4. CASE \E j \in 1 .. k : id \in nx[j - 1] .. nx[j] - 1
    <3>1. \A j \in 1 .. k : j \in 1 .. k + 1
          BY <1>1
    <3>2. \E j \in 1 .. k + 1 : id \in nx[j - 1] .. nx[j] - 1
          BY <2>4, <3>1
    <3> QED BY <2>1, <3>2
  <2>5. CASE nx[k + 1] <= id
        BY <2>1, <2>5
  <2> QED BY <1>2, <1>4, <2>2, <2>3, <2>4, <2>5
<1> HIDE DEF P
<1>5. \A k \in 0 .. Len(msgs) : k \in P
      BY <1>1, <1>3, <1>4, UpTo
<1>6. PICK k \in 1 .. i : id \in nx[k - 1] .. nx[k] - 1
  <2>1. ~(nx[i] <= id)
        BY <1>1, <1>2
  <2> QED BY <1>5, <2>1 DEF P
<1>7. k \in 1 .. Len(msgs)
      BY <1>1
<1> QED BY <1>6, <1>7, CallsAt

\* /\compact: the summary takes the place of the messages up to c.
LEMMA TailDrafted ==
    ASSUME NEW nx, NEW msgs, NEW u, Draft(nx, msgs, u), NEW L, L = Len(msgs), L >= Kept,
           NEW c, c = L - Kept, nx[L] = nx[L - 1],
           NEW rest, rest = SubSeq(msgs, c + 1, L), NEW news, news = <<Summary>> \o rest,
           NEW v, v = nx[L]
    PROVE  Drafted(news, u, nx[c], v, v)
<1>1. /\ msgs \in Seq(MessagesOf(Written)) /\ nx \in [0 .. L -> Nat \ {0}] /\ L \in Nat
      /\ Kept \in Nat \ {0}
      BY LenProperties, TranscriptAssumption DEF Draft
<1>2. c \in Nat /\ c \in 0 .. L /\ c + 1 \in 1 .. L + 1 /\ L - (c + 1) + 1 = Kept /\ L = c + Kept
      BY <1>1
<1>3. rest \in Seq(MessagesOf(Written)) /\ Len(rest) = Kept /\ \A k \in 1 .. Kept : rest[k] = msgs[c + k]
  <2> DEFINE M == MessagesOf(Written)
             d == c + 1
  <2>1. msgs \in Seq(M) /\ d \in 1 .. Len(msgs) + 1 /\ rest = SubSeq(msgs, d, Len(msgs))
        BY <1>1, <1>2
  <2> HIDE DEF M, d
  <2>2. /\ rest \in Seq(M) /\ Len(rest) = Len(msgs) - d + 1
        /\ \A i \in 1 .. Len(msgs) - d + 1 : rest[i] = msgs[d + i - 1]
        BY <2>1, TailReads
  <2>3. Len(msgs) - d + 1 = Kept /\ \A i \in 1 .. Kept : d + i - 1 = c + i
        BY <1>1, <1>2 DEF d
  <2> QED BY <2>2, <2>3 DEF M
<1>4. Summary \in MessagesOf(Written)
      BY PlainIs
<1>5. /\ news \in Seq(MessagesOf(Written)) /\ Len(news) = Kept + 1 /\ news[1] = Summary
      /\ \A j \in 2 .. Kept + 1 : news[j] = msgs[c + j - 1]
  <2> DEFINE M == MessagesOf(Written)
             s == Summary
             one == <<s>>
  <2>1. s \in M /\ rest \in Seq(M)
        BY <1>3, <1>4
  <2> HIDE DEF M, s
  <2>2. one \in Seq(M) /\ Len(one) = 1 /\ one[1] = s
        BY <2>1
  <2>3. news = one \o rest
        BY DEF s
  <2> HIDE DEF one
  <2>4. /\ Len(one \o rest) = Len(one) + Len(rest)
        /\ (\A i \in 1 .. Len(one) : (one \o rest)[i] = one[i])
        /\ \A i \in 1 .. Len(rest) : (one \o rest)[Len(one) + i] = rest[i]
    <3>1. one \in Seq(M) /\ rest \in Seq(M)
          BY <2>1, <2>2
    <3> HIDE DEF one
    <3> QED BY <3>1, OnePiece
  <2>5. news \in Seq(M)
        BY <2>1, <2>2, <2>3, ConcatProperties
  <2>6. news[1] = s /\ Len(news) = Kept + 1
        BY <1>1, <1>3, <2>2, <2>3, <2>4
  <2>7. \A j \in 2 .. Kept + 1 : j - 1 \in 1 .. Kept /\ 1 + (j - 1) = j /\ c + (j - 1) = c + j - 1
        BY <1>1, <1>2
  <2>8. \A j \in 2 .. Kept + 1 : news[j] = rest[j - 1]
        BY <1>3, <2>2, <2>3, <2>4, <2>7
  <2>9. \A j \in 2 .. Kept + 1 : news[j] = msgs[c + j - 1]
        BY <1>3, <2>7, <2>8
  <2> QED BY <2>5, <2>6, <2>9 DEF M, s
<1> DEFINE ny == [j \in 0 .. Kept + 1 |-> IF j = 0 THEN nx[c] ELSE nx[c + j - 1]]
<1>6. \A j \in 1 .. Kept + 1 : c + j - 1 \in 0 .. L
      BY <1>1, <1>2
<1>7. ny \in [0 .. Kept + 1 -> Nat \ {0}]
  <2>1. \A j \in 0 .. Kept + 1 : j # 0 => j \in 1 .. Kept + 1
        BY <1>1
  <2> QED BY <1>1, <1>2, <1>6, <2>1
<1>8. ny[0] = nx[c] /\ \A j \in 1 .. Kept + 1 : ny[j] = nx[c + j - 1]
  <2>1. 0 \in 0 .. Kept + 1 /\ \A j \in 1 .. Kept + 1 : j \in 0 .. Kept + 1 /\ j # 0
        BY <1>1
  <2> QED BY <2>1
<1> HIDE DEF ny
<1>9. 1 \in 1 .. Kept + 1 /\ c + 1 - 1 = c /\ ny[1] = nx[c]
  <2>1. 1 \in 1 .. Kept + 1 /\ c + 1 - 1 = c
        BY <1>1, <1>2
  <2> QED BY <1>8, <2>1
<1>10. ASSUME NEW j \in 2 .. Kept + 1, NEW i, i = c + j - 1
       PROVE  /\ i \in 1 .. L /\ ny[j] = nx[i] /\ ny[j - 1] = nx[i - 1] /\ news[j] = msgs[i]
              /\ j > 1 /\ j \in Nat /\ i \in Nat
              /\ j # 2 => ny[j - 2] = nx[i - 2] /\ news[j - 1] = msgs[i - 1]
  <2>1. /\ i \in 1 .. L /\ j \in 1 .. Kept + 1 /\ j - 1 \in 1 .. Kept + 1 /\ j > 1 /\ j \in Nat /\ i \in Nat
        /\ c + (j - 1) - 1 = i - 1
        BY <1>1, <1>2, <1>10
  <2>2. ny[j] = nx[i] /\ ny[j - 1] = nx[i - 1] /\ news[j] = msgs[i]
        BY <1>5, <1>8, <1>10, <2>1
  <2>3. j # 2 => j - 2 \in 1 .. Kept + 1 /\ c + (j - 2) - 1 = i - 2 /\ j - 1 \in 2 .. Kept + 1
        BY <1>1, <1>2, <1>10
  <2>4. j # 2 => ny[j - 2] = nx[i - 2] /\ news[j - 1] = msgs[i - 1]
        BY <1>5, <1>8, <2>1, <2>3
  <2> QED BY <2>1, <2>2, <2>4
<1>11. ASSUME NEW j \in 1 .. Len(news) PROVE InPlace(ny, news, u, j)
  <2>1. CASE j = 1
    <3>1. j - 1 = 0 /\ Summary \in {Prompt, Summary}
          BY <2>1
    <3> QED BY <1>5, <1>8, <1>9, <2>1, <3>1 DEF InPlace, Plain
  <2>2. CASE j # 1
    <3> DEFINE i == c + j - 1
    <3>1. j \in 2 .. Kept + 1
          BY <1>1, <1>5, <2>2
    <3>2. /\ i \in 1 .. L /\ ny[j] = nx[i] /\ ny[j - 1] = nx[i - 1] /\ news[j] = msgs[i]
          /\ j > 1 /\ j \in Nat /\ i \in Nat
          /\ j # 2 => ny[j - 2] = nx[i - 2] /\ news[j - 1] = msgs[i - 1]
          BY <1>10, <3>1
    <3>3. InPlace(nx, msgs, u, i)
          BY <3>2 DEF Draft
    <3>4. ASSUME i > 1, NEW n \in 1 .. nx[i] - 1, Behind(nx, msgs, i, n) PROVE Behind(ny, news, j, n)
      <4>1. CASE j = 2
            BY <1>5, <4>1 DEF Behind
      <4>2. CASE j # 2
        <5>1. ~(i = 2 /\ msgs[1] = Summary)
          <6> SUFFICES ASSUME i = 2, msgs[1] = Summary PROVE FALSE
              OBVIOUS
          <6>1. c = 0
                BY <1>2, <3>1, <4>2
          <6>2. L > 0 /\ L = Kept
                BY <1>1, <1>2, <6>1
          <6>3. L > Kept
                BY <6>2 DEF Draft
          <6> QED BY <1>1, <6>2, <6>3
        <5>2. nx[i - 2] = nx[i] - n /\ msgs[i - 1] = Utter(nx[i - 2], n)
              BY <3>4, <5>1 DEF Behind
        <5> HIDE DEF i
        <5> QED BY <3>2, <4>2, <5>2 DEF Behind
      <4> QED BY <4>1, <4>2
    <3> HIDE DEF i
    <3>5. i > 1 => \A n \in 1 .. nx[i] - 1 :
                       Answering(msgs[i], nx[i] - n, n, u) /\ Behind(nx, msgs, i, n) =>
                           Answering(news[j], nx[i] - n, n, u) /\ Behind(ny, news, j, n)
          BY <3>2, <3>4
    <3> QED BY <3>2, <3>3, <3>5, PlaceMoves
  <2> QED BY <2>1, <2>2
<1>12. ASSUME NEW j \in 1 .. Len(news) - 1 PROVE Heeded(ny, news, u, j)
  <2>0. j \in 1 .. Kept
        BY <1>1, <1>5
  <2>1. CASE j = 1
    <3>0. j - 1 = 0 /\ nx[c] \in Nat
      <4>1. j - 1 = 0
            BY <2>1
      <4>2. nx[c] \in Nat
            BY <1>1, <1>2
      <4> QED BY <4>1, <4>2
    <3>1. ny[j] = ny[j - 1] /\ ny[j] \in Nat
          BY <1>8, <1>9, <2>1, <3>0
    <3>2. ~(ny[j] > ny[j - 1])
          BY <3>1
    <3> QED BY <3>2 DEF Heeded
  <2>2. CASE j # 1
    <3> DEFINE i == c + j - 1
    <3>1. j \in 2 .. Kept + 1 /\ j + 1 \in 2 .. Kept + 1 /\ i \in 1 .. L - 1 /\ c + (j + 1) - 1 = i + 1
          BY <1>1, <1>2, <2>0, <2>2
    <3>2. ny[j] = nx[i] /\ ny[j - 1] = nx[i - 1]
          BY <1>10, <3>1
    <3>3. news[j + 1] = msgs[i + 1]
          BY <1>5, <3>1
    <3>4. Heeded(nx, msgs, u, i)
          BY <3>1 DEF Draft
    <3> HIDE DEF i
    <3> QED BY <3>2, <3>3, <3>4 DEF Heeded
  <2> QED BY <2>1, <2>2
<1>13. Len(news) > Kept
       BY <1>1, <1>5
<1>14. Draft(ny, news, u)
       BY <1>5, <1>7, <1>11, <1>12, <1>13 DEF Draft
<1>15. ny[Len(news)] = v /\ Len(news) # 0 /\ ny[Len(news) - 1] = v
  <2>1. /\ Kept + 1 \in 1 .. Kept + 1 /\ c + (Kept + 1) - 1 = L
        /\ (Kept + 1) - 1 \in 1 .. Kept + 1 /\ c + ((Kept + 1) - 1) - 1 = L - 1 /\ Kept + 1 # 0
        BY <1>1, <1>2
  <2>2. ny[Kept + 1] = nx[L] /\ ny[(Kept + 1) - 1] = nx[L - 1]
        BY <1>8, <2>1
  <2> QED BY <1>5, <2>1, <2>2
<1> QED BY <1>8, <1>14, <1>15 DEF Drafted

\* What /compact leaves: the calls of the old messages are gone, those of the others in place.
LEMMA CompactDrafted ==
    ASSUME NEW u, NEW f, NEW v, Drafted(messages, u, f, v, v), Len(messages) >= Kept
    PROVE  \E g : /\ Drafted(<<Summary>> \o KeptTail, u, g, v, v)
                  /\ \A id \in f .. g - 1 : id \in Calls(Old)
<1> DEFINE msgs == messages
           L == Len(msgs)
           c == L - Kept
<1>1. PICK nx : /\ Draft(nx, msgs, u) /\ nx[0] = f /\ nx[L] = v
                /\ IF L = 0 THEN v = v ELSE nx[L - 1] = v
      BY DEF Drafted
<1>2. L \in Nat /\ Kept \in Nat \ {0} /\ msgs \in Seq(MessagesOf(Written))
      BY <1>1, LenProperties, TranscriptAssumption DEF Draft
<1>3. L # 0 /\ c \in 0 .. L /\ c \in Nat /\ c <= L
      BY <1>2
<1>4. Drafted(<<Summary>> \o KeptTail, u, nx[c], v, v)
  <2>1. KeptTail = SubSeq(msgs, c + 1, L)
        BY DEF KeptTail
  <2>2. nx[L] = nx[L - 1] /\ L >= Kept
        BY <1>1, <1>3
  <2> HIDE DEF msgs
  <2> QED BY <1>1, <2>1, <2>2, TailDrafted
<1>5. ASSUME NEW id \in f .. nx[c] - 1 PROVE id \in Calls(Old)
  <2>1. PICK k \in 1 .. c : id \in Range(CallIds(msgs[k])) /\ k \in 1 .. Len(msgs)
        BY <1>1, <1>3, CallsCover
  <2>2. Old = SubSeq(msgs, 1, c)
        BY DEF Old
  <2>3. k \in DOMAIN Old /\ Old[k] = msgs[k]
    <3> DEFINE M == MessagesOf(Written)
    <3>1. msgs \in Seq(M) /\ 1 \in Int /\ c \in Int /\ \A j \in 1 .. c : msgs[j] \in M
      <4>1. \A j \in 1 .. c : j \in DOMAIN msgs
            BY <1>2, <1>3, LenProperties
      <4> QED BY <1>2, <1>3, <4>1, ElementIn
    <3> HIDE DEF M, msgs, c
    <3>2. Old \in Seq(M) /\ Len(Old) = (IF 1 <= c THEN c - 1 + 1 ELSE 0)
          /\ \A j \in 1 .. c - 1 + 1 : Old[j] = msgs[1 + j - 1]
          BY <2>2, <3>1, SubSeqProperties
    <3>3. c - 1 + 1 = c /\ k \in 1 .. c /\ 1 <= c /\ 1 + k - 1 = k
          BY <1>3 DEF c
    <3>4. Len(Old) = c /\ DOMAIN Old = 1 .. Len(Old)
          BY <3>2, <3>3, LenProperties
    <3> QED BY <3>2, <3>3, <3>4
  <2>4. id \in Range(CallIds(Old[k]))
        BY <2>1, <2>3
  <2> QED BY <2>3, <2>4 DEF Calls
<1> QED BY <1>4, <1>5

-----------------------------------------------------------------------------

\* A number has one place.
LEMMA OnePlace ==
    ASSUME NEW nx, NEW msgs, NEW u, Draft(nx, msgs, u), NEW i \in 1 .. Len(msgs), NEW j \in 1 .. Len(msgs),
           NEW id \in nx[i - 1] .. nx[i] - 1, id \in nx[j - 1] .. nx[j] - 1
    PROVE  i = j
<1>1. Len(msgs) \in Nat /\ \A k \in 0 .. Len(msgs) : nx[k] \in Nat
      BY LenProperties DEF Draft
<1>2. i \in 0 .. Len(msgs) /\ i - 1 \in 0 .. Len(msgs) /\ j \in 0 .. Len(msgs) /\ j - 1 \in 0 .. Len(msgs)
      BY <1>1
<1>3. ASSUME i < j PROVE FALSE
  <2>1. j - 1 \in i .. Len(msgs)
        BY <1>1, <1>3
  <2>2. nx[i] <= nx[j - 1]
        BY <1>2, <2>1, DraftRises
  <2>3. nx[i] \in Nat /\ nx[j - 1] \in Nat /\ nx[i - 1] \in Nat /\ nx[j] \in Nat
        BY <1>1, <1>2
  <2> QED BY <2>2, <2>3
<1>4. ASSUME j < i PROVE FALSE
  <2>1. i - 1 \in j .. Len(msgs)
        BY <1>1, <1>4
  <2>2. nx[j] <= nx[i - 1]
        BY <1>2, <2>1, DraftRises
  <2>3. nx[i] \in Nat /\ nx[j - 1] \in Nat /\ nx[i - 1] \in Nat /\ nx[j] \in Nat
        BY <1>1, <1>2
  <2> QED BY <2>2, <2>3
<1>5. i < j \/ j < i \/ i = j
      BY <1>1
<1> QED BY <1>3, <1>4, <1>5

\* A result is part of an answer, which stands behind the step it answers or, at the head of
\* what /compact kept, behind the summary.
LEMMA ResultIsAnswer ==
    ASSUME NEW nx, NEW msgs, NEW u, Draft(nx, msgs, u), NEW i \in 1 .. Len(msgs),
           NEW p \in Range(msgs[i].parts), p.kind = "result"
    PROVE  /\ i > 1 /\ nx[i] = nx[i - 1] /\ nx[i] \in Nat
           /\ \E n \in 1 .. nx[i] - 1 :
                /\ Answering(msgs[i], nx[i] - n, n, u) /\ Behind(nx, msgs, i, n)
                /\ AnswerOf(p, nx[i] - n, n, u)
<1>1. msgs[i] \in MessagesOf(Written) /\ InPlace(nx, msgs, u, i) /\ nx[i] \in Nat \ {0} /\ nx[i - 1] \in Nat \ {0}
      /\ nx[i] - nx[i - 1] \in Nat
      BY DraftAt
<1>2. ~Plain(nx, msgs, i)
      BY PlainIs DEF Plain
<1>3. ~Utters(nx, msgs, i)
      BY <1>1, UtterIs DEF Utters
<1>4. Gives(nx, msgs, u, i)
      BY <1>1, <1>2, <1>3 DEF InPlace
<1>5. PICK n \in 1 .. nx[i] - 1 : Answering(msgs[i], nx[i] - n, n, u) /\ Behind(nx, msgs, i, n)
      BY <1>4 DEF Gives
<1>6. AnswerOf(p, nx[i] - n, n, u)
  <2> DEFINE parts == msgs[i].parts
  <2>1. parts \in Seq(Written) /\ p \in Range(parts)
        BY <1>1 DEF MessagesOf
  <2>2. \A k \in 1 .. Len(parts) : AnswerOf(parts[k], nx[i] - n, n, u)
        BY <1>5 DEF Answering
  <2> HIDE DEF parts
  <2>3. \E k \in 1 .. Len(parts) : parts[k] = p
        BY <2>1, RangeIn
  <2> QED BY <2>2, <2>3
<1> QED BY <1>1, <1>4, <1>5, <1>6 DEF Gives

\* The same for every call made.
LEMMA DraftFollows ==
    ASSUME NEW nx, Draft(nx, messages, unrun)
    PROVE  ResultsFollowCalls
<1> SUFFICES ASSUME NEW i \in DOMAIN messages, NEW id \in ResultIds(messages[i])
             PROVE  i > 1 /\ (id \in Range(CallIds(messages[i - 1])) \/ (i = 2 /\ messages[1] = Summary))
    BY DEF ResultsFollowCalls
<1>1. messages \in Seq(MessagesOf(Written)) /\ Len(messages) \in Nat /\ i \in 1 .. Len(messages)
      BY LenProperties DEF Draft
<1>2. PICK p \in Range(messages[i].parts) : p.kind = "result" /\ p.id = id
      BY DEF ResultIds, WithId, OfKind
<1>3. /\ i > 1 /\ nx[i] = nx[i - 1] /\ nx[i] \in Nat
      /\ \E n \in 1 .. nx[i] - 1 :
            /\ Answering(messages[i], nx[i] - n, n, unrun) /\ Behind(nx, messages, i, n)
            /\ AnswerOf(p, nx[i] - n, n, unrun)
      BY <1>1, <1>2, ResultIsAnswer
<1>4. PICK n \in 1 .. nx[i] - 1 : Behind(nx, messages, i, n) /\ AnswerOf(p, nx[i] - n, n, unrun)
      BY <1>3
<1>5. CASE i = 2 /\ messages[1] = Summary
      BY <1>5
<1>6. CASE nx[i - 2] = nx[i] - n /\ messages[i - 1] = Utter(nx[i - 2], n)
  <2> DEFINE b == nx[i] - n
  <2>1. b \in Nat \ {0} /\ n \in Nat
        BY <1>3
  <2>2. messages[i - 1] = Utter(b, n) /\ id \in b .. b + n - 1
        BY <1>2, <1>4, <1>6 DEF AnswerOf
  <2> HIDE DEF b
  <2>3. CallIds(Utter(b, n)) = CallNumbers(b, n) /\ Range(CallNumbers(b, n)) = b .. b + n - 1
        BY <2>1, UtterIs, NumbersAre
  <2> QED BY <1>3, <2>2, <2>3
<1> QED BY <1>4, <1>5, <1>6 DEF Behind

\* A lone call has its own result.
LEMMA DraftIsOwn ==
    ASSUME NEW nx, Draft(nx, messages, unrun)
    PROVE  LoneResultsAreOwn
<1> DEFINE msgs == messages
           u == unrun
<1> SUFFICES ASSUME NEW p \in Results(msgs), p.id \in Lone
             PROVE  p.text = IF p.id \in u THEN Marker ELSE <<Output(p.id)>>
    BY DEF LoneResultsAreOwn
<1>1. Draft(nx, msgs, u)
      OBVIOUS
<1>2. PICK i \in DOMAIN msgs : p \in Range(msgs[i].parts) /\ p.kind = "result"
      BY DEF Results
<1>3. PICK j \in DOMAIN msgs : Len(CallIds(msgs[j])) = 1 /\ p.id \in Range(CallIds(msgs[j]))
      BY DEF Lone
<1> HIDE DEF msgs, u
<1>4. /\ msgs \in Seq(MessagesOf(Written)) /\ Len(msgs) \in Nat /\ i \in 1 .. Len(msgs) /\ j \in 1 .. Len(msgs)
      /\ \A k \in 0 .. Len(msgs) : nx[k] \in Nat \ {0}
      BY <1>1, LenProperties DEF Draft
<1>5. p.id \in nx[j - 1] .. nx[j] - 1 /\ nx[j] - nx[j - 1] = 1 /\ p.id = nx[j - 1]
  <2> DEFINE b == nx[j - 1]
             n == nx[j] - nx[j - 1]
             id == p.id
  <2>1. b \in Nat \ {0} /\ n \in Nat /\ nx[j] \in Nat
        BY <1>1, <1>4, DraftAt
  <2>2. CallIds(msgs[j]) = CallNumbers(b, n) /\ Range(CallIds(msgs[j])) = b .. nx[j] - 1
        BY <1>1, <1>4, DraftSays, CallsAt
  <2>3. n = 1
    <3>1. Len(CallNumbers(b, n)) = n
          BY <2>1, NumbersAre
    <3> QED BY <1>3, <2>2, <3>1
  <2>4. id \in b .. nx[j] - 1
        BY <1>3, <2>2
  <2>5. id = b
    <3> HIDE DEF id
    <3> QED BY <2>1, <2>3, <2>4
  <2> QED BY <2>3, <2>4, <2>5
<1>6. /\ i > 1 /\ nx[i] = nx[i - 1] /\ nx[i] \in Nat
      /\ \E n \in 1 .. nx[i] - 1 :
            /\ Answering(msgs[i], nx[i] - n, n, u) /\ Behind(nx, msgs, i, n)
            /\ AnswerOf(p, nx[i] - n, n, u)
      BY <1>1, <1>2, <1>4, ResultIsAnswer
<1>7. PICK n \in 1 .. nx[i] - 1 : Behind(nx, msgs, i, n) /\ AnswerOf(p, nx[i] - n, n, u)
      BY <1>6
<1> DEFINE id == p.id
           b == nx[i] - n
<1>8. id \in b .. b + n - 1 /\ id = nx[j - 1] /\ id \in nx[j - 1] .. nx[j] - 1
      BY <1>5, <1>7 DEF AnswerOf
<1>9. n = 1 => p.text = IF b \in u THEN Marker ELSE <<Output(b)>>
      BY <1>7 DEF AnswerOf
<1> HIDE DEF id
<1>10. n = 1 /\ id = b
  <2>1. CASE nx[i - 2] = nx[i] - n
    <3> DEFINE k == i - 1
    <3>1. k \in 1 .. Len(msgs) /\ k - 1 = i - 2 /\ nx[k] = nx[i]
          BY <1>4, <1>6
    <3>2. id \in nx[k - 1] .. nx[k] - 1
      <4>1. nx[k - 1] = b /\ b + n = nx[k]
            BY <1>6, <2>1, <3>1
      <4>2. b + n - 1 = nx[k] - 1
            BY <4>1, <1>6
      <4> HIDE DEF k, b
      <4> QED BY <1>8, <4>1, <4>2
    <3> HIDE DEF k
    <3>3. k = j
          BY <1>1, <1>4, <1>8, <3>1, <3>2, OnePlace
    <3>4. nx[k] - nx[k - 1] = 1 /\ id = nx[k - 1]
          BY <1>5, <1>8, <3>3
    <3> QED BY <1>6, <2>1, <3>1, <3>4
  <2>2. CASE i = 2 /\ msgs[1] = Summary
    <3>1. 1 \in 1 .. Len(msgs) /\ 0 \in 0 .. Len(msgs) /\ j - 1 \in 0 .. Len(msgs) /\ j - 1 \in 0 .. Len(msgs) /\ i - 1 = 1
          BY <1>4, <2>2
    <3>2. msgs[1].role = "user"
          BY <2>2, PlainIs
    <3>3. nx[1] = nx[1 - 1]
          BY <1>1, <3>1, <3>2, DraftSays DEF Plain
    <3>4. nx[0] <= nx[j - 1]
          BY <1>1, <3>1, DraftRises
    <3>5. nx[i] = nx[0] /\ nx[0] \in Nat /\ nx[j - 1] \in Nat
          BY <1>4, <1>6, <3>1, <3>3
    <3>6. id < nx[i]
      <4>1. b + n - 1 < nx[i] /\ b \in Nat
            BY <1>6
      <4> HIDE DEF b
      <4> QED BY <1>6, <1>8, <4>1
    <3> QED BY <1>8, <3>4, <3>5, <3>6
  <2> QED BY <1>7, <2>1, <2>2 DEF Behind
<1> QED BY <1>9, <1>10 DEF id

\* Calls that were made are in the history, or stood before its first and are remembered.
LEMMA DraftRemembers ==
    ASSUME NEW nx, Draft(nx, messages, unrun), made \in Nat, nx[Len(messages)] = made + 1,
           \A id \in 1 .. nx[0] - 1 : id \in flushed \cup silent
    PROVE  GoneIsRemembered
<1> SUFFICES ASSUME NEW id \in 1 .. made PROVE id \in Calls(messages) \cup flushed \cup silent
    BY DEF GoneIsRemembered
<1>1. Len(messages) \in Nat /\ DOMAIN messages = 1 .. Len(messages) /\ 0 \in 0 .. Len(messages)
      /\ Len(messages) \in 0 .. Len(messages)
  <2>1. Len(messages) \in Nat /\ DOMAIN messages = 1 .. Len(messages)
        BY LenProperties DEF Draft
  <2> QED BY <2>1
<1>2. nx[0] \in Nat
      BY <1>1 DEF Draft
<1>3. CASE id \in 1 .. nx[0] - 1
      BY <1>3
<1>4. CASE id \notin 1 .. nx[0] - 1
  <2>1. id \in nx[0] .. nx[Len(messages)] - 1
        BY <1>2, <1>4
  <2>2. PICK k \in 1 .. Len(messages) : id \in Range(CallIds(messages[k]))
        BY <1>1, <2>1, CallsCover
  <2> QED BY <1>1, <2>2 DEF Calls
<1> QED BY <1>3, <1>4

\* The calls of a history, one after the other.
LEMMA DraftNumbers ==
    ASSUME NEW nx, NEW msgs, NEW u, Draft(nx, msgs, u), NEW L, L = Len(msgs),
           NEW s, s = [i \in DOMAIN msgs |-> CallIds(msgs[i])]
    PROVE  /\ nx[0] \in Nat \ {0} /\ nx[L] \in Nat \ {0} /\ nx[L] - nx[0] \in Nat
           /\ FlattenSeq(s) = CallNumbers(nx[0], nx[L] - nx[0])
<1> DEFINE A == Nat \ {0}
           S == Seq(A)
           f == nx[0]
           N == nx[L] - nx[0]
           t == CallNumbers(f, N)
<1>1. /\ nx \in [0 .. L -> Nat \ {0}] /\ L \in Nat /\ DOMAIN msgs = 1 .. L /\ 0 \in 0 .. L /\ L \in 0 .. L
  <2>1. L \in Nat /\ DOMAIN msgs = 1 .. L
        BY LenProperties DEF Draft
  <2> QED BY <2>1 DEF Draft
<1>2. f \in Nat \ {0} /\ nx[L] \in Nat \ {0} /\ N \in Nat
  <2>1. nx[0] <= nx[L]
        BY <1>1, DraftRises
  <2> QED BY <1>1, <2>1
<1>3. \A i \in 1 .. L : /\ nx[i - 1] \in Nat \ {0} /\ nx[i] \in Nat /\ nx[i] - nx[i - 1] \in Nat
                        /\ CallIds(msgs[i]) = CallNumbers(nx[i - 1], nx[i] - nx[i - 1])
      BY DraftAt, DraftSays
<1>4. \A i \in 1 .. L : /\ s[i] \in S /\ Len(s[i]) = nx[i] - nx[i - 1]
                        /\ \A k \in 1 .. nx[i] - nx[i - 1] : s[i][k] = nx[i - 1] + k - 1
  <2> TAKE i \in 1 .. L
  <2> DEFINE b == nx[i - 1]
             n == nx[i] - nx[i - 1]
  <2>1. b \in Nat \ {0} /\ n \in Nat /\ s[i] = CallNumbers(b, n)
        BY <1>1, <1>3
  <2> HIDE DEF b, n
  <2>2. CallNumbers(b, n) \in S /\ Len(CallNumbers(b, n)) = n /\ \A k \in 1 .. n : CallNumbers(b, n)[k] = b + k - 1
        BY <2>1, NumbersAre
  <2> QED BY <2>1, <2>2 DEF b, n
<1>5. t \in S /\ Len(t) = N /\ \A k \in 1 .. N : t[k] = f + k - 1
  <2> HIDE DEF f, N
  <2> QED BY <1>2, NumbersAre
<1> HIDE DEF A, S, t
<1>6. s \in Seq(S) /\ Len(s) = L
  <2>1. s \in [1 .. L -> S] /\ DOMAIN s = 1 .. L
        BY <1>1, <1>4
  <2>2. s \in Seq(S)
        BY <1>1, <2>1, MakesSeq
  <2>3. Len(s) \in Nat /\ DOMAIN s = 1 .. Len(s)
        BY <2>2, LenProperties
  <2>4. Len(s) = L
        BY <1>1, <2>1, <2>3
  <2> QED BY <2>2, <2>4
<1>7. PICK at : Places(at, s)
      BY <1>6, FlattenPlaces DEF S
<1>8. /\ at \in [0 .. L -> Nat] /\ at[0] = 0
      /\ \A k \in 1 .. L : at[k] = at[k - 1] + Len(s[k])
      BY <1>6, <1>7 DEF Places
<1>9. \A k \in 0 .. L : at[k] = nx[k] - f
  <2> DEFINE P == {k \in 0 .. L : at[k] = nx[k] - f}
  <2>1. 0 \in P
        BY <1>1, <1>2, <1>8
  <2>2. ASSUME NEW k \in 0 .. L, k < L, k \in P PROVE k + 1 \in P
    <3>1. k + 1 \in 1 .. L /\ (k + 1) - 1 = k /\ k + 1 \in 0 .. L
          BY <1>1, <2>2
    <3>2. at[k + 1] = at[k] + (nx[k + 1] - nx[k])
          BY <1>4, <1>8, <3>1
    <3>3. at[k] = nx[k] - f /\ nx[k] \in Nat /\ nx[k + 1] \in Nat
          BY <1>1, <2>2, <3>1
    <3> QED BY <1>2, <3>1, <3>2, <3>3
  <2> HIDE DEF P
  <2>3. \A k \in 0 .. L : k \in P
        BY <1>1, <2>1, <2>2, UpTo
  <2> QED BY <2>3 DEF P
<1>10. Len(t) = at[L]
       BY <1>1, <1>5, <1>9
<1>11. ASSUME NEW k \in 1 .. L, NEW i \in 1 .. Len(s[k]) PROVE t[at[k - 1] + i] = s[k][i]
  <2>1. k - 1 \in 0 .. L /\ k \in 0 .. L /\ L \in k .. L /\ 0 \in 0 .. L /\ k - 1 \in 0 .. Len(msgs) /\ k \in 0 .. Len(msgs)
        BY <1>1
  <2>2. nx[k - 1] \in Nat /\ nx[k] \in Nat /\ i \in 1 .. nx[k] - nx[k - 1]
        BY <1>3, <1>4
  <2>3. s[k][i] = nx[k - 1] + i - 1 /\ at[k - 1] = nx[k - 1] - f
        BY <1>4, <1>9, <2>1, <2>2
  <2>4. nx[k] <= nx[L]
        BY <2>1, DraftRises
  <2>5. f <= nx[k - 1]
        BY <2>1, DraftRises
  <2>6. at[k - 1] + i \in 1 .. N /\ f + (at[k - 1] + i) - 1 = nx[k - 1] + i - 1
    <3> DEFINE a == nx[k - 1]
               b == nx[k]
               z == nx[L]
               q == at[k - 1]
    <3>1. a \in Nat /\ b \in Nat /\ i \in 1 .. b - a /\ q = a - f /\ b <= z /\ f <= a /\ f \in Nat /\ z \in Nat
          BY <1>2, <2>2, <2>3, <2>4, <2>5
    <3>2. N = z - f
          OBVIOUS
    <3> HIDE DEF a, b, z, q, N, f
    <3>3. q + i \in 1 .. N /\ f + (q + i) - 1 = a + i - 1
          BY <3>1, <3>2
    <3> QED BY <3>3 DEF a, q
  <2> HIDE DEF N, f
  <2>7. t[at[k - 1] + i] = f + (at[k - 1] + i) - 1
        BY <1>5, <2>6
  <2> QED BY <2>3, <2>6, <2>7
<1>12. FlattenSeq(s) = t
  <2>1. t \in Seq(A) /\ s \in Seq(Seq(A)) /\ Len(t) = at[Len(s)]
        BY <1>5, <1>6, <1>10 DEF S
  <2>2. \A k \in 1 .. Len(s) : \A i \in 1 .. Len(s[k]) : t[at[k - 1] + i] = s[k][i]
        BY <1>6, <1>11
  <2> DEFINE w == s
  <2>3. /\ t \in Seq(A) /\ w \in Seq(Seq(A)) /\ Len(t) = at[Len(w)] /\ Places(at, w)
        /\ \A k \in 1 .. Len(w) : \A i \in 1 .. Len(w[k]) : t[at[k - 1] + i] = w[k][i]
        BY <1>7, <2>1, <2>2
  <2> HIDE DEF w, N, f
  <2>4. FlattenSeq(w) = t
        BY <2>3, FlattenIs
  <2> QED BY <2>4 DEF w
<1> QED BY <1>2, <1>12 DEF t

\* The calls of a history, read in order, are the latest that were made.
LEMMA DraftTypes ==
    ASSUME NEW nx, Draft(nx, messages, unrun), made \in Nat, nx[Len(messages)] = made + 1,
           turns \in 0 .. MaxTurns, active \in BOOLEAN, drains \in 0 .. MaxDrains,
           unrun \subseteq 1 .. made, compacts \in 0 .. MaxTurns
    PROVE  TranscriptTypeOK
<1> DEFINE calls == FlattenSeq([i \in DOMAIN messages |-> CallIds(messages[i])])
           f == nx[0]
           N == nx[Len(messages)] - f
<1>1. f \in Nat \ {0} /\ N \in Nat /\ calls = CallNumbers(f, N)
      BY DraftNumbers
<1>2. f + N = made + 1
      BY <1>1
<1> HIDE DEF f, N
<1>3. Len(calls) = N /\ DOMAIN calls = 1 .. N /\ calls = [k \in 1 .. N |-> f + k - 1]
  <2>1. Len(CallNumbers(f, N)) = N /\ DOMAIN CallNumbers(f, N) = 1 .. N
        BY <1>1, NumbersAre
  <2>2. CallNumbers(f, N) = [k \in 1 .. N |-> f + k - 1]
        BY DEF CallNumbers
  <2> QED BY <1>1, <2>1, <2>2
<1> HIDE DEF calls
<1>4. \A k \in 1 .. N : f + k - 1 = made - Len(calls) + k
  <2>1. \A k \in 1 .. N : f + k - 1 = made - N + k
        BY <1>1, <1>2
  <2> QED BY <1>3, <2>1
<1>5. calls = [k \in DOMAIN calls |-> made - Len(calls) + k]
  <2>1. [k \in 1 .. N |-> f + k - 1] = [k \in 1 .. N |-> made - Len(calls) + k]
        BY <1>4
  <2> QED BY <1>3, <2>1
<1>6. \A i \in DOMAIN messages : messages[i].role \in {"user", "assistant", "tool"}
  <2> TAKE i \in DOMAIN messages
  <2>1. messages[i] \in MessagesOf(Written)
        BY ElementIn DEF Draft
  <2> QED BY <2>1 DEF MessagesOf
<1> QED BY <1>5, <1>6 DEF TranscriptTypeOK, calls

\* Pairs are kept by a prompt behind them and by the cut of /compact.
LEMMA PromptPairs ==
    ASSUME NEW msgs \in Seq(MessagesOf(Written)), Paired(msgs)
    PROVE  Paired(Append(msgs, Prompt))
<1> DEFINE m == Prompt
           news == Append(msgs, m)
           L == Len(msgs)
<1>1. m \in MessagesOf(Written) /\ m.role = "user"
      BY PlainIs
<1> HIDE DEF m
<1>2. /\ news \in Seq(MessagesOf(Written)) /\ Len(news) = L + 1 /\ news[L + 1] = m /\ L \in Nat
      /\ \A i \in 1 .. L : news[i] = msgs[i]
  <2>1. Append(msgs, m) \in Seq(MessagesOf(Written)) /\ Len(Append(msgs, m)) = Len(msgs) + 1
        /\ (\A i \in 1 .. Len(msgs) : Append(msgs, m)[i] = msgs[i]) /\ Append(msgs, m)[Len(msgs) + 1] = m
        BY <1>1, AppendReads
  <2>2. L \in Nat
        BY LenProperties
  <2> QED BY <2>1, <2>2
<1> HIDE DEF news, L
<1>3. DOMAIN news = 1 .. L + 1 /\ DOMAIN msgs = 1 .. L
      BY <1>2, LenProperties DEF L
<1>4. ASSUME NEW i \in DOMAIN news, news[i].role = "assistant", NEW id \in Range(CallIds(news[i]))
      PROVE  i < Len(news) /\ id \in ResultIds(news[i + 1])
  <2>1. i \in 1 .. L
    <3>1. i # L + 1
          BY <1>1, <1>2, <1>4
    <3> QED BY <1>2, <1>3, <3>1
  <2>2. news[i] = msgs[i] /\ i \in DOMAIN msgs
        BY <1>2, <1>3, <2>1
  <2>3. i < Len(msgs) /\ id \in ResultIds(msgs[i + 1])
        BY <1>4, <2>2 DEF Paired
  <2>4. i + 1 \in 1 .. L /\ i < L + 1
        BY <1>2, <2>1, <2>3 DEF L
  <2> QED BY <1>2, <2>3, <2>4
<1> QED BY <1>4 DEF Paired, news, m

\* A history that loses its oldest messages stays paired: a call is never parted from an answer behind it.
LEMMA TailPairs ==
    ASSUME NEW msgs \in Seq(MessagesOf(Written)), Paired(msgs), NEW c \in 0 .. Len(msgs)
    PROVE  Paired(<<Summary>> \o SubSeq(msgs, c + 1, Len(msgs)))
<1> DEFINE M == MessagesOf(Written)
           L == Len(msgs)
           s == Summary
           one == <<s>>
           rest == SubSeq(msgs, c + 1, L)
           news == one \o rest
<1>1. L \in Nat /\ DOMAIN msgs = 1 .. L /\ s \in M /\ s.role = "user" /\ c \in Nat /\ c <= L
      BY LenProperties, PlainIs
<1>2. rest \in Seq(M) /\ Len(rest) = L - c /\ \A k \in 1 .. L - c : rest[k] = msgs[c + k]
  <2> DEFINE d == c + 1
  <2>1. d \in 1 .. Len(msgs) + 1 /\ rest = SubSeq(msgs, d, Len(msgs))
        BY <1>1
  <2> HIDE DEF M, d, rest
  <2>2. /\ rest \in Seq(M) /\ Len(rest) = Len(msgs) - d + 1
        /\ \A i \in 1 .. Len(msgs) - d + 1 : rest[i] = msgs[d + i - 1]
        BY <2>1, TailReads DEF M
  <2>3. Len(msgs) - d + 1 = L - c /\ \A i \in 1 .. L - c : d + i - 1 = c + i
        BY <1>1 DEF d
  <2> QED BY <2>2, <2>3
<1> HIDE DEF s, rest, M
<1>3. one \in Seq(M) /\ Len(one) = 1 /\ one[1] = s
      BY <1>1
<1> HIDE DEF one
<1>4. /\ Len(one \o rest) = Len(one) + Len(rest)
      /\ (\A i \in 1 .. Len(one) : (one \o rest)[i] = one[i])
      /\ \A i \in 1 .. Len(rest) : (one \o rest)[Len(one) + i] = rest[i]
  <2>1. one \in Seq(M) /\ rest \in Seq(M)
        BY <1>2, <1>3
  <2> QED BY <2>1, OnePiece
<1>5. news \in Seq(M)
      BY <1>2, <1>3, ConcatProperties
<1> HIDE DEF news, L
<1>6. Len(news) = L - c + 1 /\ news[1] = s /\ \A k \in 1 .. L - c : news[1 + k] = msgs[c + k]
      BY <1>1, <1>2, <1>3, <1>4 DEF news
<1>7. DOMAIN news = 1 .. L - c + 1
      BY <1>5, <1>6, LenProperties
<1>8. ASSUME NEW i \in DOMAIN news, news[i].role = "assistant", NEW id \in Range(CallIds(news[i]))
      PROVE  i < Len(news) /\ id \in ResultIds(news[i + 1])
  <2> DEFINE k == i - 1
             j == c + k
  <2>1. i # 1
        BY <1>1, <1>6, <1>8
  <2>2. k \in 1 .. L - c /\ 1 + k = i /\ j \in 1 .. L /\ k \in Nat
        BY <1>1, <1>7, <2>1
  <2>3. news[i] = msgs[j] /\ j \in DOMAIN msgs
        BY <1>1, <1>6, <2>2
  <2>4. j < L /\ id \in ResultIds(msgs[j + 1])
        BY <1>8, <2>3 DEF Paired, L
  <2>5. k + 1 \in 1 .. L - c /\ c + (k + 1) = j + 1 /\ 1 + (k + 1) = i + 1 /\ i < L - c + 1
        BY <1>1, <2>2, <2>4
  <2> HIDE DEF k, j
  <2>6. news[i + 1] = msgs[j + 1]
        BY <1>6, <2>5
  <2> QED BY <1>6, <2>4, <2>5, <2>6
<1> QED BY <1>8 DEF Paired, news, one, s, rest, L

-----------------------------------------------------------------------------

Older == {ToLLM(m) : m \in MessagesOf(Written)}

\* What a history is in a request.
LEMMA LinesAre ==
    ASSUME NEW msgs \in Seq(MessagesOf(Written)), NEW ls, ls = [i \in DOMAIN msgs |-> ToLLM(msgs[i])]
    PROVE  /\ ls \in Seq(Older) /\ Len(ls) = Len(msgs) /\ DOMAIN ls = 1 .. Len(msgs) /\ Len(msgs) \in Nat
           /\ \A i \in 1 .. Len(msgs) :
                ls[i] = ToLLM(msgs[i]) /\ ls[i].role = msgs[i].role /\ ls[i].role # "system"
<1> DEFINE A == Older
<1>1. Len(msgs) \in Nat /\ DOMAIN msgs = 1 .. Len(msgs) /\ \A i \in 1 .. Len(msgs) : msgs[i] \in MessagesOf(Written)
      BY LenProperties
<1>2. \A i \in 1 .. Len(msgs) : ls[i] = ToLLM(msgs[i]) /\ ls[i] \in A
      BY <1>1 DEF Older
<1>3. \A m : ToLLM(m).role = m.role
      BY DEF ToLLM
<1>4. \A i \in 1 .. Len(msgs) : msgs[i].role # "system"
      BY <1>1 DEF MessagesOf
<1> HIDE DEF A
<1>5. ls \in [1 .. Len(msgs) -> A] /\ DOMAIN ls = 1 .. Len(msgs)
      BY <1>1, <1>2
<1>6. ls \in Seq(A)
      BY <1>1, <1>5, MakesSeq
<1>7. Len(ls) = Len(msgs)
  <2>1. Len(ls) \in Nat /\ DOMAIN ls = 1 .. Len(ls)
        BY <1>6, LenProperties
  <2> QED BY <1>1, <1>5, <2>1
<1> QED BY <1>1, <1>2, <1>3, <1>4, <1>5, <1>6, <1>7 DEF A

LEMMA LiftedIs ==
    ASSUME NEW m \in MessagesOf(Written)
    PROVE  /\ m.role = "user" => Lifted(ToLLM(m)).role = "user"
           /\ m.role # "user" => Lifted(ToLLM(m)) = Back(m) /\ Back(m).role = m.role
<1>1. ToLLM(m).role = m.role
      BY DEF ToLLM
<1> DEFINE l == ToLLM(m)
<1> HIDE DEF l
<1>2. l.role = "user" => Lifted(l).role = "user"
      BY DEF Lifted, Msg
<1>3. l.role # "user" => Lifted(l) = ToFantasy(l)
      BY DEF Lifted
<1>4. ToFantasy(l).role = l.role
      BY DEF ToFantasy, Msg
<1> QED BY <1>1, <1>2, <1>3, <1>4 DEF l, Back

\* The prompt, the last of them, is passed apart.
LEMMA PriorIs ==
    ASSUME NEW A, NEW ls \in Seq(A), NEW L \in Nat, Len(ls) = L + 1,
           \A i \in 1 .. L + 1 : ls[i].role # "system", ls[L + 1].role = "user"
    PROVE  /\ Prior(ls) = [i \in 1 .. L |-> Lifted(ls[i])]
           /\ DOMAIN Prior(ls) = 1 .. L /\ Len(Prior(ls)) = L
<1> DEFINE T == {l \in Range(ls) : l.role # "system"}
           front == SubSeq(ls, 1, L)
<1>1. \A i \in 1 .. Len(ls) : ls[i] \in T
      BY ElementIn, LenProperties
<1>2. Conversation(ls) = ls
  <2>1. Conversation(ls) = Those(ls, T)
        BY DEF Conversation
  <2> HIDE DEF T
  <2> QED BY <1>1, <2>1, ThoseAll
<1>3. ls # <<>> /\ Last(ls).role = "user"
  <2>1. ls # <<>>
        BY EmptySeq
  <2> QED BY <2>1 DEF Last
<1>4. Front(ls) = front
  <2>1. (L + 1) - 1 = L
        OBVIOUS
  <2> QED BY <2>1 DEF Front
<1>5. Len(front) = L /\ DOMAIN front = 1 .. L /\ \A i \in 1 .. L : front[i] = ls[i]
  <2>1. 1 \in Int /\ L \in Int /\ \A i \in 1 .. L : ls[i] \in A
    <3>1. \A i \in 1 .. L : i \in DOMAIN ls
          BY LenProperties
    <3> QED BY <3>1, ElementIn
  <2>2. /\ front \in Seq(A) /\ Len(front) = (IF 1 <= L THEN L - 1 + 1 ELSE 0)
        /\ \A i \in 1 .. L - 1 + 1 : front[i] = ls[1 + i - 1]
        BY <2>1, SubSeqProperties
  <2> HIDE DEF front
  <2>3. Len(front) = L
        BY <2>2
  <2>4. DOMAIN front = 1 .. Len(front)
        BY <2>2, LenProperties
  <2>5. \A i \in 1 .. L : i \in 1 .. L - 1 + 1 /\ 1 + i - 1 = i
        OBVIOUS
  <2> QED BY <2>2, <2>3, <2>4, <2>5
<1> HIDE DEF front
<1>6. Prior(ls) = [i \in DOMAIN front |-> Lifted(front[i])]
      BY <1>2, <1>3, <1>4 DEF Prior, TailUser
<1>7. Prior(ls) = [i \in 1 .. L |-> Lifted(ls[i])]
  <2>1. [i \in 1 .. L |-> Lifted(front[i])] = [i \in 1 .. L |-> Lifted(ls[i])]
        BY <1>5
  <2> QED BY <1>5, <1>6, <2>1
<1>8. Len([i \in 1 .. L |-> Lifted(ls[i])]) = L
  <2> DEFINE B == {Lifted(ls[i]) : i \in 1 .. L}
             t == [i \in 1 .. L |-> Lifted(ls[i])]
  <2>1. t \in [1 .. L -> B] /\ DOMAIN t = 1 .. L
        OBVIOUS
  <2> HIDE DEF t, B
  <2>2. t \in Seq(B)
        BY <2>1, MakesSeq
  <2>3. Len(t) \in Nat /\ DOMAIN t = 1 .. Len(t)
        BY <2>2, LenProperties
  <2>4. Len(t) = L
        BY <2>1, <2>3
  <2> QED BY <2>4 DEF t
<1> QED BY <1>7, <1>8

\* A step that calls a tool is answered, in the request too.
LEMMA RequestDrafted ==
    ASSUME NEW nx, NEW msgs, NEW u, Draft(nx, msgs, u), NEW L, L = Len(msgs), L = 0 \/ nx[L] = nx[L - 1],
           NEW new, new = Append(msgs, Prompt), NEW ls, ls = [i \in DOMAIN new |-> ToLLM(new[i])],
           NEW p, p = Prior(ls),
           NEW i \in DOMAIN p, p[i].role = "assistant", CallIds(p[i]) # <<>>
    PROVE  i < Len(p) /\ CallIds(p[i])[1] \in ResultIds(p[i + 1])
<1> DEFINE m == Prompt
<1>1. msgs \in Seq(MessagesOf(Written)) /\ L \in Nat /\ m \in MessagesOf(Written) /\ m.role = "user"
      /\ DOMAIN msgs = 1 .. L
      BY LenProperties, PlainIs DEF Draft
<1> HIDE DEF m
<1>2. /\ new \in Seq(MessagesOf(Written)) /\ Len(new) = L + 1 /\ new[L + 1] = m
      /\ \A k \in 1 .. L : new[k] = msgs[k]
  <2>1. new = Append(msgs, m)
        BY DEF m
  <2>2. Append(msgs, m) \in Seq(MessagesOf(Written)) /\ Len(Append(msgs, m)) = Len(msgs) + 1
        /\ (\A k \in 1 .. Len(msgs) : Append(msgs, m)[k] = msgs[k]) /\ Append(msgs, m)[Len(msgs) + 1] = m
        BY <1>1, AppendReads
  <2> QED BY <2>1, <2>2
<1>3. /\ ls \in Seq(Older) /\ Len(ls) = L + 1
      /\ \A k \in 1 .. L + 1 : ls[k] = ToLLM(new[k]) /\ ls[k].role = new[k].role /\ ls[k].role # "system"
      BY <1>2, LinesAre
<1>4. ls[L + 1].role = "user"
  <2>1. L + 1 \in 1 .. L + 1
        BY <1>1
  <2> QED BY <1>1, <1>2, <1>3, <2>1
<1>5. p = [k \in 1 .. L |-> Lifted(ls[k])] /\ DOMAIN p = 1 .. L /\ Len(p) = L
  <2> DEFINE A == Older
             y == ls
  <2>1. y \in Seq(A) /\ L \in Nat /\ Len(y) = L + 1 /\ y[L + 1].role = "user"
        /\ \A k \in 1 .. L + 1 : y[k].role # "system"
        BY <1>1, <1>3, <1>4
  <2>2. p = Prior(y)
        OBVIOUS
  <2> HIDE DEF A, y
  <2>3. /\ Prior(y) = [k \in 1 .. L |-> Lifted(y[k])]
        /\ DOMAIN Prior(y) = 1 .. L /\ Len(Prior(y)) = L
        BY <2>1, PriorIs
  <2> QED BY <2>2, <2>3 DEF y
<1>6. \A k \in 1 .. L : p[k] = Lifted(ToLLM(msgs[k])) /\ msgs[k] \in MessagesOf(Written)
  <2>1. \A k \in 1 .. L : k \in 1 .. L + 1 /\ k \in DOMAIN msgs
        BY <1>1
  <2>2. \A k \in 1 .. L : ls[k] = ToLLM(msgs[k])
        BY <1>2, <1>3, <2>1
  <2> QED BY <1>1, <1>5, <2>1, <2>2, ElementIn
<1>7. i \in 1 .. L /\ i \in 1 .. Len(msgs)
      BY <1>5
<1>8. msgs[i].role = "assistant" /\ p[i] = Back(msgs[i])
  <2>1. msgs[i].role # "user"
    <3>1. msgs[i].role = "user" => p[i].role = "user"
          BY <1>6, <1>7, LiftedIs
    <3> QED BY <3>1
  <2> QED BY <1>6, <1>7, <2>1, LiftedIs
<1> DEFINE b == nx[i - 1]
           n == nx[i] - nx[i - 1]
<1>9. /\ b \in Nat \ {0} /\ n \in Nat /\ nx[i] \in Nat
      /\ msgs[i] = Utter(b, n)
  <2>1. Utters(nx, msgs, i)
        BY <1>7, <1>8, DraftSays
  <2> QED BY <1>7, <2>1, DraftAt DEF Utters
<1>10. CallIds(p[i]) = CallNumbers(b, n)
  <2> HIDE DEF b, n
  <2>1. Back(Utter(b, n)) = Utter(b, n) /\ CallIds(Utter(b, n)) = CallNumbers(b, n)
        BY <1>9, UtterIs
  <2> QED BY <1>8, <1>9, <2>1
<1>11. n # 0
  <2>1. CallNumbers(b, 0) = <<>>
    <3>1. CallNumbers(b, 0) \in Seq(Nat \ {0}) /\ Len(CallNumbers(b, 0)) = 0
          BY <1>9, NumbersAre
    <3> QED BY <3>1, EmptySeq
  <2> QED BY <1>10, <2>1
<1>12. CallIds(p[i])[1] = b
  <2>1. 1 \in 1 .. n /\ b + 1 - 1 = b
        BY <1>9, <1>11
  <2> HIDE DEF b, n
  <2>2. CallNumbers(b, n)[1] = b + 1 - 1
        BY <1>9, <2>1, NumbersAre
  <2> QED BY <1>10, <2>1, <2>2
<1>13. nx[i] > nx[i - 1] /\ i # L
  <2>1. nx[i] > nx[i - 1]
        BY <1>9, <1>11
  <2>2. nx[i] # nx[i - 1]
        BY <1>9, <1>11
  <2> QED BY <1>1, <1>7, <2>1, <2>2
<1>14. i < L /\ i \in 1 .. Len(msgs) - 1 /\ i + 1 \in 1 .. L
       BY <1>1, <1>7, <1>13
<1>15. Answering(msgs[i + 1], b, n, u)
       BY <1>13, <1>14 DEF Draft, Heeded
<1>16. msgs[i + 1].role = "tool" /\ FirstResult(msgs[i + 1]) = b
  <2> HIDE DEF b, n
  <2> QED BY <1>6, <1>9, <1>14, <1>15, AnswerIs DEF Answering
<1>17. b \in ResultIds(p[i + 1])
  <2> DEFINE a == msgs[i + 1]
  <2>1. a \in MessagesOf(Written) /\ a.role = "tool" /\ FirstResult(a) = b /\ a.role # "user" /\ p[i + 1] = Lifted(ToLLM(a))
        BY <1>6, <1>14, <1>16
  <2> HIDE DEF a, b, n
  <2>2. p[i + 1] = Back(a)
        BY <2>1, LiftedIs
  <2>3. PICK t \in Seq(Spoken) : Back(a) = Msg("tool", <<Result(b, "text", t)>>)
        BY <1>9, <2>1, ToolBack
  <2> DEFINE r == Result(b, "text", t)
  <2>4. r.kind = "result" /\ r.id = b /\ r.id # NoId
        BY <1>9 DEF Result, NoId
  <2>0. p[i + 1] = Msg("tool", <<r>>)
        BY <2>2, <2>3
  <2> HIDE DEF r
  <2>5. p[i + 1].parts = <<r>>
    <3> DEFINE q == p[i + 1]
    <3>1. q = Msg("tool", <<r>>)
          BY <2>0
    <3> HIDE DEF q
    <3>2. q.parts = <<r>>
          BY <3>1 DEF Msg
    <3> QED BY <3>2 DEF q
  <2>6. r \in Range(<<r>>)
        BY DEF Range
  <2> QED BY <2>4, <2>5, <2>6 DEF ResultIds, WithId, OfKind
<1> QED BY <1>5, <1>12, <1>14, <1>17

-----------------------------------------------------------------------------

Lifts(s) == [i \in DOMAIN s |-> Lifted(s[i])]

LEMMA LiftsAre ==
    ASSUME NEW A, NEW s \in Seq(A)
    PROVE  /\ Lifts(s) \in Seq({Lifted(x) : x \in A}) /\ Len(Lifts(s)) = Len(s)
           /\ \A i \in 1 .. Len(s) : Lifts(s)[i] = Lifted(s[i])
<1> DEFINE B == {Lifted(x) : x \in A}
           t == Lifts(s)
<1>1. Len(s) \in Nat /\ DOMAIN s = 1 .. Len(s) /\ \A i \in 1 .. Len(s) : s[i] \in A
      BY LenProperties
<1>2. t = [i \in 1 .. Len(s) |-> Lifted(s[i])] /\ \A i \in 1 .. Len(s) : t[i] = Lifted(s[i])
      BY <1>1 DEF Lifts
<1>3. \A i \in 1 .. Len(s) : Lifted(s[i]) \in B
      BY <1>1
<1> HIDE DEF t, B
<1>4. t \in [1 .. Len(s) -> B] /\ DOMAIN t = 1 .. Len(s)
      BY <1>2, <1>3
<1>5. t \in Seq(B)
      BY <1>1, <1>4, MakesSeq
<1>6. Len(t) = Len(s)
  <2>1. Len(t) \in Nat /\ DOMAIN t = 1 .. Len(t)
        BY <1>5, LenProperties
  <2> QED BY <1>1, <1>4, <2>1
<1> QED BY <1>2, <1>5, <1>6 DEF t, B

\* What fantasy hands on of lines that begin with system messages and hold no other.
LEMMA PreparedIs ==
    ASSUME NEW A, NEW boots \in Seq(A), NEW rest \in Seq(A), Len(boots) # 0,
           \A i \in 1 .. Len(boots) : boots[i].role = "system",
           \A i \in 1 .. Len(rest) : rest[i].role # "system"
    PROVE  Prepared(boots \o rest) = <<Msg("system", <<>>)>> \o Lifts(rest)
<1> DEFINE ls == boots \o rest
           T == {l \in Range(ls) : l.role # "system"}
<1>1. /\ Len(ls) = Len(boots) + Len(rest) /\ Len(boots) \in Nat /\ Len(rest) \in Nat
      /\ (\A i \in 1 .. Len(boots) : ls[i] = boots[i])
      BY OnePiece
<1>2. Range(ls) = Range(boots) \cup Range(rest) /\ ls \in Seq(A)
      BY RangeConcatenation, ConcatProperties
<1>3. \A i \in 1 .. Len(boots) : boots[i] \notin T
      OBVIOUS
<1>4. \A i \in 1 .. Len(rest) : rest[i] \in T
  <2>1. \A i \in 1 .. Len(rest) : rest[i] \in Range(rest)
        BY ElementIn, LenProperties
  <2> QED BY <1>2, <2>1
<1>5. Conversation(ls) = rest
  <2>1. Conversation(ls) = Those(ls, T)
        BY DEF Conversation
  <2> HIDE DEF T
  <2> QED BY <1>3, <1>4, <2>1, ThoseOfSecond
<1>6. \E i \in DOMAIN ls : ls[i].role = "system"
  <2>1. 1 \in 1 .. Len(boots) /\ 1 \in 1 .. Len(ls)
        BY <1>1
  <2>2. 1 \in DOMAIN ls
        BY <1>2, <2>1, LenProperties
  <2> QED BY <1>1, <2>1, <2>2
<1> HIDE DEF ls
<1>7. Prepared(ls) = <<Msg("system", <<>>)>> \o Lifts(rest)
      BY <1>5, <1>6 DEF Prepared, Lifts
<1> QED BY <1>7 DEF ls

\* Are all messages system messages, and is none?  Is the marker where it belongs?
AllSystem(s) == \A i \in 1 .. Len(s) : s[i].role = "system"
NoneSystem(s) == \A i \in 1 .. Len(s) : s[i].role # "system"
MarkerStands(boot, request) ==
    /\ Boundary(request, Len(boot)) = Len(Prepared(boot))
    /\ SubSeq(Prepared(request), 1, Len(Prepared(boot))) = Prepared(boot)

\* The marker falls on the last message of a bootstrap of system messages and a pair or none.
LEMMA MarkerIsLast ==
    ASSUME NEW A, NEW boots \in Seq(A), NEW pairs \in Seq(A), NEW lines \in Seq(A), Len(boots) # 0,
           AllSystem(boots), NoneSystem(pairs), NoneSystem(lines)
    PROVE  MarkerStands(boots \o pairs, (boots \o pairs) \o lines)
<1> SUFFICES ASSUME \A i \in 1 .. Len(boots) : boots[i].role = "system",
                    \A i \in 1 .. Len(pairs) : pairs[i].role # "system",
                    \A i \in 1 .. Len(lines) : lines[i].role # "system",
                    NEW boot, boot = boots \o pairs, NEW request, request = boot \o lines
             PROVE  /\ Boundary(request, Len(boot)) = Len(Prepared(boot))
                    /\ SubSeq(Prepared(request), 1, Len(Prepared(boot))) = Prepared(boot)
    BY DEF AllSystem, NoneSystem, MarkerStands
<1> DEFINE n == Len(boots)
           k == Len(pairs)
           rest == pairs \o lines
           head == <<Msg("system", <<>>)>>
           B == {Lifted(x) : x \in A} \cup {Msg("system", <<>>)}
<1>1. /\ boots \o pairs \in Seq(A) /\ Len(boots \o pairs) = n + k /\ n \in Nat /\ k \in Nat
      /\ (\A i \in 1 .. n : (boots \o pairs)[i] = boots[i]) /\ \A i \in 1 .. k : (boots \o pairs)[n + i] = pairs[i]
      BY OnePiece, ConcatProperties
<1>2. /\ rest \in Seq(A) /\ Len(rest) = k + Len(lines) /\ Len(lines) \in Nat
      /\ (\A i \in 1 .. k : rest[i] = pairs[i]) /\ \A i \in 1 .. Len(lines) : rest[k + i] = lines[i]
      BY OnePiece, ConcatProperties
<1>3. request = boots \o rest
      BY Associates
<1>4. \A i \in 1 .. Len(rest) : rest[i].role # "system"
  <2> TAKE i \in 1 .. Len(rest)
  <2>1. CASE i \in 1 .. k
        BY <1>2, <2>1
  <2>2. CASE i \notin 1 .. k
    <3> DEFINE j == i - k
    <3>1. j \in 1 .. Len(lines) /\ i = k + j
          BY <1>1, <1>2, <2>2
    <3> HIDE DEF j
    <3> QED BY <1>2, <3>1
  <2> QED BY <2>1, <2>2
<1> HIDE DEF rest
<1>5. Prepared(boot) = head \o Lifts(pairs)
      BY PreparedIs
<1>6. Prepared(request) = head \o Lifts(rest)
      BY <1>2, <1>3, <1>4, PreparedIs
<1>7. /\ Lifts(pairs) \in Seq(B) /\ Len(Lifts(pairs)) = k /\ \A i \in 1 .. k : Lifts(pairs)[i] = Lifted(pairs[i])
      /\ Lifts(rest) \in Seq(B) /\ Len(Lifts(rest)) = k + Len(lines)
      /\ \A i \in 1 .. k : Lifts(rest)[i] = Lifted(pairs[i])
  <2> DEFINE C == {Lifted(x) : x \in A}
  <2>1. /\ Lifts(pairs) \in Seq(C) /\ Len(Lifts(pairs)) = Len(pairs)
        /\ \A i \in 1 .. Len(pairs) : Lifts(pairs)[i] = Lifted(pairs[i])
        BY LiftsAre
  <2>2. /\ Lifts(rest) \in Seq(C) /\ Len(Lifts(rest)) = Len(rest)
        /\ \A i \in 1 .. Len(rest) : Lifts(rest)[i] = Lifted(rest[i])
        BY <1>2, LiftsAre
  <2>3. C \subseteq B
        OBVIOUS
  <2> HIDE DEF C, B
  <2>4. Lifts(pairs) \in Seq(B) /\ Lifts(rest) \in Seq(B)
        BY <2>1, <2>2, <2>3, SeqMonotonic
  <2>5. \A i \in 1 .. k : i \in 1 .. Len(rest)
        BY <1>1, <1>2
  <2>6. \A i \in 1 .. k : Lifts(rest)[i] = Lifted(pairs[i])
        BY <1>2, <2>2, <2>5
  <2> QED BY <1>2, <2>1, <2>2, <2>4, <2>6
<1>8. head \in Seq(B) /\ Len(head) = 1
  <2> DEFINE x == Msg("system", <<>>)
  <2>1. x \in B
        OBVIOUS
  <2> HIDE DEF x, B
  <2> QED BY <2>1 DEF x
<1> HIDE DEF head, B
<1> DEFINE p == Lifts(pairs)
           q == Lifts(rest)
<1> HIDE DEF p, q
<1>9. /\ head \o p \in Seq(B) /\ Len(head \o p) = 1 + k
      /\ (\A i \in 1 .. 1 : (head \o p)[i] = head[i]) /\ \A i \in 1 .. k : (head \o p)[1 + i] = p[i]
  <2>1. head \in Seq(B) /\ p \in Seq(B) /\ Len(head) = 1 /\ Len(p) = k
        BY <1>7, <1>8 DEF p
  <2>2. head \o p \in Seq(B)
        BY <2>1, ConcatProperties
  <2>3. /\ Len(head \o p) = Len(head) + Len(p)
        /\ (\A i \in 1 .. Len(head) : (head \o p)[i] = head[i]) /\ \A i \in 1 .. Len(p) : (head \o p)[Len(head) + i] = p[i]
    <3>1. head \in Seq(B) /\ p \in Seq(B)
          BY <2>1
    <3> QED BY <3>1, OnePiece
  <2> QED BY <2>1, <2>2, <2>3
<1>10. /\ head \o q \in Seq(B) /\ Len(head \o q) = 1 + (k + Len(lines))
       /\ (\A i \in 1 .. 1 : (head \o q)[i] = head[i]) /\ \A i \in 1 .. k + Len(lines) : (head \o q)[1 + i] = q[i]
  <2>1. head \in Seq(B) /\ q \in Seq(B) /\ Len(head) = 1 /\ Len(q) = k + Len(lines)
        BY <1>7, <1>8 DEF q
  <2>2. head \o q \in Seq(B)
        BY <2>1, ConcatProperties
  <2>3. /\ Len(head \o q) = Len(head) + Len(q)
        /\ (\A i \in 1 .. Len(head) : (head \o q)[i] = head[i]) /\ \A i \in 1 .. Len(q) : (head \o q)[Len(head) + i] = q[i]
    <3>1. head \in Seq(B) /\ q \in Seq(B)
          BY <2>1
    <3> QED BY <3>1, OnePiece
  <2> QED BY <2>1, <2>2, <2>3
<1> DEFINE a == head \o p
           z == head \o q
           s == SubSeq(z, 1, 1 + k)
<1>11. \A i \in 1 .. 1 + k : z[i] = a[i]
  <2> TAKE i \in 1 .. 1 + k
  <2>1. CASE i = 1
        BY <1>9, <1>10, <2>1
  <2>2. CASE i # 1
    <3> DEFINE j == i - 1
    <3>1. j \in 1 .. k /\ i = 1 + j /\ j \in 1 .. k + Len(lines)
          BY <1>1, <1>2, <2>2
    <3> HIDE DEF j, a, z
    <3>2. a[1 + j] = p[j] /\ z[1 + j] = q[j]
          BY <1>9, <1>10, <3>1 DEF a, z
    <3>3. p[j] = q[j]
          BY <1>7, <3>1 DEF p, q
    <3> QED BY <3>1, <3>2, <3>3
  <2> QED BY <2>1, <2>2
<1>12. s = a
  <2>1. a \in Seq(B) /\ Len(a) = 1 + k /\ z \in Seq(B) /\ Len(z) = 1 + (k + Len(lines))
        BY <1>9, <1>10
  <2> HIDE DEF a, z
  <2>2. 1 \in Int /\ 1 + k \in Int /\ \A i \in 1 .. 1 + k : z[i] \in B
    <3>1. \A i \in 1 .. 1 + k : i \in DOMAIN z
      <4>1. DOMAIN z = 1 .. Len(z)
            BY <2>1, LenProperties
      <4> QED BY <1>1, <1>2, <2>1, <4>1
    <3> QED BY <1>1, <2>1, <3>1, ElementIn
  <2>3. /\ s \in Seq(B) /\ Len(s) = (IF 1 <= 1 + k THEN (1 + k) - 1 + 1 ELSE 0)
        /\ \A i \in 1 .. (1 + k) - 1 + 1 : s[i] = z[1 + i - 1]
        BY <2>2, SubSeqProperties
  <2> HIDE DEF s
  <2>4. Len(s) = 1 + k /\ \A i \in 1 .. 1 + k : i \in 1 .. (1 + k) - 1 + 1 /\ 1 + i - 1 = i
        BY <1>1, <2>3
  <2>5. \A i \in 1 .. Len(s) : s[i] = a[i]
        BY <1>11, <2>3, <2>4
  <2> QED BY <2>1, <2>3, <2>4, <2>5, SeqEqual
<1>13. Systems(request, Len(boot)) = n
  <2>1. {i \in 1 .. n + k : request[i].role = "system"} = 1 .. n
    <3>1. /\ (\A i \in 1 .. n : request[i] = boots[i]) /\ \A i \in 1 .. Len(rest) : request[n + i] = rest[i]
          BY <1>2, <1>3, OnePiece
    <3>2. \A i \in 1 .. n + k : i \in 1 .. n <=> request[i].role = "system"
      <4> TAKE i \in 1 .. n + k
      <4>1. CASE i \in 1 .. n
            BY <3>1, <4>1
      <4>2. CASE i \notin 1 .. n
        <5> DEFINE j == i - n
        <5>1. j \in 1 .. k /\ i = n + j /\ j \in 1 .. Len(rest)
              BY <1>1, <1>2, <4>2
        <5> HIDE DEF j
        <5>2. request[i] = rest[j]
              BY <3>1, <5>1
        <5> QED BY <1>4, <4>2, <5>1, <5>2
      <4> QED BY <4>1, <4>2
    <3>3. \A i \in 1 .. n : i \in 1 .. n + k
          BY <1>1
    <3> QED BY <3>2, <3>3
  <2>2. Len(boot) = n + k
        BY <1>1
  <2>3. Systems(request, Len(boot)) = Cardinality(1 .. n)
        BY <2>1, <2>2 DEF Systems
  <2>4. Cardinality(1 .. n) = n
    <3>1. 1 \in Int /\ n \in Int /\ n # 0
          BY <1>1
    <3> HIDE DEF n
    <3>2. Cardinality(1 .. n) = IF 1 > n THEN 0 ELSE n - 1 + 1
          BY <3>1, FS_Interval
    <3> QED BY <1>1, <3>1, <3>2
  <2> QED BY <2>3, <2>4
<1>14. Boundary(request, Len(boot)) = 1 + k
  <2>1. Len(boot) = n + k /\ Len(request) = n + k + Len(lines)
    <3>1. Len(boots \o rest) = Len(boots) + Len(rest)
          BY <1>2, OnePiece
    <3> QED BY <1>1, <1>2, <1>3, <3>1
  <2>2. ~(Len(boot) = 0 \/ Len(boot) > Len(request))
        BY <1>1, <1>2, <2>1
  <2>3. Boundary(request, Len(boot)) = IF n > 1 THEN Len(boot) - (n - 1) ELSE Len(boot)
        BY <1>13, <2>2 DEF Boundary
  <2> HIDE DEF n, k
  <2> QED BY <1>1, <2>1, <2>3 DEF n
<1> QED BY <1>5, <1>6, <1>9, <1>12, <1>14 DEF p, q

LEMMA MarkerHolds ==
    ASSUME messages \in Seq(MessagesOf(Written))
    PROVE  MarkerAtBoundary
<1> DEFINE sys == [role |-> "system", text |-> <<>>, calls |-> <<>>, answers |-> NoId]
           one == [role |-> "user", text |-> <<>>, calls |-> <<>>, answers |-> NoId]
           two == [role |-> "assistant", text |-> <<>>, calls |-> <<>>, answers |-> NoId]
           A == Older \cup {sys, one, two}
           lines == [i \in DOMAIN messages |-> ToLLM(messages[i])]
           Starts(n) == [i \in 1 .. n |-> sys]
<1>1. sys.role = "system" /\ one.role # "system" /\ two.role # "system" /\ sys \in A /\ one \in A /\ two \in A
      /\ Older \subseteq A
      OBVIOUS
<1>2. Pairs = {<<>>, <<one, two>>}
      BY DEF Pairs
<1>3. /\ lines \in Seq(Older) /\ Len(lines) = Len(messages) /\ Len(messages) \in Nat
      /\ \A i \in 1 .. Len(messages) : lines[i].role # "system"
      BY LinesAre
<1> HIDE DEF one, two, A, lines
<1>4. lines \in Seq(A) /\ \A i \in 1 .. Len(lines) : lines[i].role # "system"
  <2>1. lines \in Seq(A)
        BY <1>1, <1>3, SeqMonotonic
  <2> QED BY <1>3, <2>1
<1>5. ASSUME NEW pairs \in Pairs PROVE pairs \in Seq(A) /\ \A i \in 1 .. Len(pairs) : pairs[i].role # "system"
  <2>1. CASE pairs = <<>>
    <3>1. pairs \in Seq(A) /\ Len(pairs) = 0
          BY <2>1, EmptySeq
    <3> QED BY <3>1
  <2>2. CASE pairs = <<one, two>>
    <3>1. Len(pairs) = 2 /\ pairs[1] = one /\ pairs[2] = two
          BY <2>2
    <3>2. pairs \in Seq(A)
          BY <1>1, <2>2
    <3>3. \A i \in 1 .. 2 : i = 1 \/ i = 2
          OBVIOUS
    <3> QED BY <1>1, <3>1, <3>2, <3>3
  <2> QED BY <1>2, <1>5, <2>1, <2>2
<1> HIDE DEF sys
<1>6. ASSUME NEW n \in 1 .. 2
      PROVE  Starts(n) \in Seq(A) /\ Len(Starts(n)) # 0 /\ \A i \in 1 .. Len(Starts(n)) : Starts(n)[i].role = "system"
  <2> DEFINE s == Starts(n)
  <2>1. s \in [1 .. n -> A] /\ DOMAIN s = 1 .. n /\ (\A i \in 1 .. n : s[i] = sys) /\ n \in Nat /\ n # 0
        BY <1>1
  <2> HIDE DEF s
  <2>2. s \in Seq(A)
        BY <2>1, MakesSeq
  <2>3. Len(s) \in Nat /\ DOMAIN s = 1 .. Len(s)
        BY <2>2, LenProperties
  <2>4. Len(s) = n
        BY <2>1, <2>3
  <2> QED BY <1>1, <2>1, <2>2, <2>4 DEF s
<1> DEFINE Stands(n, pairs) == MarkerStands(Starts(n) \o pairs, (Starts(n) \o pairs) \o lines)
<1>7. ASSUME NEW n \in 1 .. 2, NEW pairs \in Pairs PROVE Stands(n, pairs)
  <2> DEFINE boots == Starts(n)
  <2>1. boots \in Seq(A) /\ pairs \in Seq(A) /\ lines \in Seq(A) /\ Len(boots) # 0
        BY <1>4, <1>5, <1>6
  <2>2. AllSystem(boots) /\ NoneSystem(pairs) /\ NoneSystem(lines)
        BY <1>4, <1>5, <1>6 DEF AllSystem, NoneSystem
  <2> HIDE DEF boots
  <2>3. MarkerStands(boots \o pairs, (boots \o pairs) \o lines)
        BY <2>1, <2>2, MarkerIsLast
  <2> QED BY <2>3 DEF boots
<1> QED BY <1>7 DEF MarkerAtBoundary, MarkerStands, Stands, lines, sys

-----------------------------------------------------------------------------

\* The history in its shape and what is behind it, for the induction.
TranscriptIInv ==
    /\ turns \in 0 .. MaxTurns /\ compacts \in 0 .. MaxTurns /\ drains \in 0 .. MaxDrains
    /\ active \in BOOLEAN /\ made \in Nat /\ unrun \subseteq 1 .. made
    /\ HistoryIsPaired /\ RequestIsPaired
    /\ \E f : /\ Drafted(messages, unrun, f, made + 1, made + 1)
              /\ \A id \in 1 .. f - 1 : id \in flushed \cup silent

\* The invariant says all that the property says.
LEMMA IInvAnswers == TranscriptIInv => CallsAreAnswered
<1> HAVE TranscriptIInv
<1>1. PICK f : /\ Drafted(messages, unrun, f, made + 1, made + 1)
               /\ \A id \in 1 .. f - 1 : id \in flushed \cup silent
      BY DEF TranscriptIInv
<1>2. PICK nx : Draft(nx, messages, unrun) /\ nx[0] = f /\ nx[Len(messages)] = made + 1
      BY <1>1 DEF Drafted
<1>3. made \in Nat /\ turns \in 0 .. MaxTurns /\ compacts \in 0 .. MaxTurns /\ drains \in 0 .. MaxDrains
      /\ active \in BOOLEAN /\ unrun \subseteq 1 .. made /\ HistoryIsPaired /\ RequestIsPaired
      BY DEF TranscriptIInv
<1>4. TranscriptTypeOK
      BY <1>2, <1>3, DraftTypes
<1>5. LoneResultsAreOwn /\ ResultsFollowCalls
      BY <1>2, DraftIsOwn, DraftFollows
<1>6. GoneIsRemembered
      BY <1>1, <1>2, <1>3, DraftRemembers
<1>7. MarkerAtBoundary
      BY <1>2, MarkerHolds DEF Draft
<1> QED BY <1>3, <1>4, <1>5, <1>6, <1>7 DEF CallsAreAnswered

LEMMA IInvInit == TranscriptInit => TranscriptIInv
<1> HAVE TranscriptInit
<1>1. /\ messages = <<>> /\ prior = <<>> /\ turns = 0 /\ active = FALSE
      /\ made = 0 /\ unrun = {} /\ drains = 0
      /\ compacts = 0 /\ flushed = {} /\ silent = {}
      BY DEF TranscriptInit
<1>2. MaxTurns \in Nat /\ MaxDrains \in Nat
      BY TranscriptAssumption
<1> DEFINE nx == [k \in 0 .. 0 |-> 1]
           M == MessagesOf(Written)
           e == <<>>
<1>3. e \in Seq(M) /\ Len(e) = 0 /\ DOMAIN e = 1 .. 0 /\ 1 .. 0 = {}
      BY EmptySeq
<1>4. nx \in [0 .. 0 -> Nat \ {0}] /\ nx[0] = 1
      OBVIOUS
<1> HIDE DEF nx, M, e
<1>5. Draft(nx, e, {})
  <2>1. 1 .. Len(e) = {} /\ 1 .. Len(e) - 1 = {} /\ ~(Len(e) > 0)
        BY <1>3
  <2> QED BY <1>3, <1>4, <2>1 DEF Draft, M
<1>6. Drafted(e, {}, 1, 1, 1)
      BY <1>3, <1>4, <1>5 DEF Drafted
<1>7. Drafted(messages, unrun, 1, made + 1, made + 1)
  <2>1. made + 1 = 1 /\ messages = e /\ unrun = {}
        BY <1>1 DEF e
  <2> QED BY <1>6, <2>1
<1>8. HistoryIsPaired /\ RequestIsPaired
  <2>1. messages = e /\ prior = e
        BY <1>1 DEF e
  <2> QED BY <1>3, <2>1 DEF HistoryIsPaired, RequestIsPaired, Paired
<1>9. \A id \in 1 .. 1 - 1 : id \in flushed \cup silent
      OBVIOUS
<1>10. turns \in 0 .. MaxTurns /\ compacts \in 0 .. MaxTurns /\ drains \in 0 .. MaxDrains
       /\ active \in BOOLEAN /\ made \in Nat /\ unrun \subseteq 1 .. made
  <2>1. active \in BOOLEAN
        BY <1>1
  <2>2. 0 \in 0 .. MaxTurns /\ 0 \in 0 .. MaxDrains /\ 0 \in Nat
        BY <1>2
  <2>3. turns \in 0 .. MaxTurns /\ compacts \in 0 .. MaxTurns /\ drains \in 0 .. MaxDrains /\ made \in Nat
        BY <1>1, <2>2
  <2>4. unrun \subseteq 1 .. made
        BY <1>1
  <2> QED BY <2>1, <2>3, <2>4
<1> QED BY <1>7, <1>8, <1>9, <1>10 DEF TranscriptIInv

\* What the steps change it from.
LEMMA IInvGives ==
    ASSUME TranscriptIInv
    PROVE  /\ turns \in 0 .. MaxTurns /\ compacts \in 0 .. MaxTurns /\ drains \in 0 .. MaxDrains
           /\ made \in Nat /\ unrun \subseteq 1 .. made /\ Paired(messages) /\ RequestIsPaired
           /\ MaxTurns \in Nat /\ MaxDrains \in Nat /\ messages \in Seq(MessagesOf(Written))
           /\ \E f : /\ Drafted(messages, unrun, f, made + 1, made + 1)
                     /\ \A id \in 1 .. f - 1 : id \in flushed \cup silent
<1>1. PICK f : /\ Drafted(messages, unrun, f, made + 1, made + 1)
               /\ \A id \in 1 .. f - 1 : id \in flushed \cup silent
      BY DEF TranscriptIInv
<1>2. messages \in Seq(MessagesOf(Written))
      BY <1>1, DraftedIs
<1>3. /\ turns \in 0 .. MaxTurns /\ compacts \in 0 .. MaxTurns /\ drains \in 0 .. MaxDrains
      /\ made \in Nat /\ unrun \subseteq 1 .. made /\ Paired(messages) /\ RequestIsPaired
      BY DEF TranscriptIInv, HistoryIsPaired
<1>4. MaxTurns \in Nat /\ MaxDrains \in Nat
      BY TranscriptAssumption
<1> QED BY <1>1, <1>2, <1>3, <1>4

\* Each action keeps the invariant.
LEMMA AskHolds == TranscriptIInv /\ Ask => TranscriptIInv'
<1> HAVE TranscriptIInv /\ Ask
<1> USE IInvGives
<1>1. PICK f : /\ Drafted(messages, unrun, f, made + 1, made + 1)
               /\ \A id \in 1 .. f - 1 : id \in flushed \cup silent
      OBVIOUS
<1>2. /\ messages' = Append(messages, Prompt) /\ made' = made /\ unrun' = unrun /\ compacts' = compacts
      /\ flushed' = flushed /\ silent' = silent /\ drains' = drains /\ turns' = turns + 1
      /\ turns + compacts < MaxTurns
      BY DEF Ask, compactVars
<1>3. active' \in BOOLEAN
      BY DEF Ask
<1>4. turns' \in 0 .. MaxTurns /\ compacts' \in 0 .. MaxTurns
      BY <1>2
<1>5. HistoryIsPaired'
  <2>1. Paired(Append(messages, Prompt))
        BY PromptPairs
  <2> QED BY <1>2, <2>1 DEF HistoryIsPaired
<1>6. Drafted(Append(messages, Prompt), unrun, f, made + 1, made + 1)
      BY <1>1, PromptDrafted
<1>7. RequestIsPaired'
  <2> DEFINE new == Append(messages, Prompt)
             ls == [k \in DOMAIN new |-> ToLLM(new[k])]
             p == Prior(ls)
             L == Len(messages)
  <2>1. PICK nx : /\ Draft(nx, messages, unrun) /\ nx[L] = made + 1
                  /\ IF L = 0 THEN made + 1 = made + 1 ELSE nx[L - 1] = made + 1
        BY <1>1 DEF Drafted
  <2>2. L = 0 \/ nx[L] = nx[L - 1]
        BY <2>1
  <2>3. prior' = p
        BY DEF Ask
  <2>4. ASSUME NEW i \in DOMAIN p, p[i].role = "assistant", CallIds(p[i]) # <<>>
        PROVE  i < Len(p) /\ CallIds(p[i])[1] \in ResultIds(p[i + 1])
    <3>1. Draft(nx, messages, unrun) /\ (L = 0 \/ nx[L] = nx[L - 1]) /\ L = Len(messages)
          BY <2>1, <2>2
    <3> QED BY ONLY <3>1, <2>4, RequestDrafted
  <2> HIDE DEF p
  <2> QED BY <2>3, <2>4 DEF RequestIsPaired
<1>8. Drafted(messages', unrun', f, made' + 1, made' + 1) /\ \A id \in 1 .. f - 1 : id \in flushed' \cup silent'
      BY <1>1, <1>2, <1>6
<1>9. made' \in Nat /\ unrun' \subseteq 1 .. made' /\ drains' \in 0 .. MaxDrains
      BY <1>2
<1> QED BY <1>3, <1>4, <1>5, <1>7, <1>8, <1>9 DEF TranscriptIInv

LEMMA DrainHolds == TranscriptIInv /\ Drain => TranscriptIInv'
<1> HAVE TranscriptIInv /\ Drain
<1> USE IInvGives
<1>1. PICK f : /\ Drafted(messages, unrun, f, made + 1, made + 1)
               /\ \A id \in 1 .. f - 1 : id \in flushed \cup silent
      OBVIOUS
<1>2. /\ messages' = Append(messages, Prompt) /\ made' = made /\ unrun' = unrun /\ compacts' = compacts
      /\ flushed' = flushed /\ silent' = silent /\ drains' = drains + 1 /\ turns' = turns
      /\ prior' = prior /\ drains < MaxDrains
      BY DEF Drain, compactVars
<1>3. active' \in BOOLEAN
  <2>1. active' = active /\ active \in BOOLEAN
        BY DEF Drain, TranscriptIInv
  <2> QED BY <2>1
<1>4. drains' \in 0 .. MaxDrains /\ turns' \in 0 .. MaxTurns /\ compacts' \in 0 .. MaxTurns
      BY <1>2
<1>5. HistoryIsPaired'
  <2>1. Paired(Append(messages, Prompt))
        BY PromptPairs
  <2> QED BY <1>2, <2>1 DEF HistoryIsPaired
<1>6. Drafted(Append(messages, Prompt), unrun, f, made + 1, made + 1)
      BY <1>1, PromptDrafted
<1>7. RequestIsPaired'
      BY <1>2 DEF RequestIsPaired
<1>8. Drafted(messages', unrun', f, made' + 1, made' + 1) /\ \A id \in 1 .. f - 1 : id \in flushed' \cup silent'
      BY <1>1, <1>2, <1>6
<1>9. made' \in Nat /\ unrun' \subseteq 1 .. made'
      BY <1>2
<1> QED BY <1>3, <1>4, <1>5, <1>7, <1>8, <1>9 DEF TranscriptIInv

LEMMA FailsHolds == TranscriptIInv /\ Fails => TranscriptIInv'
<1> HAVE TranscriptIInv /\ Fails
<1> USE IInvGives
<1>1. PICK f : /\ Drafted(messages, unrun, f, made + 1, made + 1)
               /\ \A id \in 1 .. f - 1 : id \in flushed \cup silent
      OBVIOUS
<1>2. /\ messages' = Sanitize(messages) /\ made' = made /\ unrun' = unrun /\ compacts' = compacts
      /\ flushed' = flushed /\ silent' = silent /\ drains' = drains /\ turns' = turns
      /\ prior' = prior
      BY DEF Fails, compactVars
<1>3. active' \in BOOLEAN
      BY DEF Fails
<1>5. HistoryIsPaired'
  <2>1. Paired(Sanitize(messages))
        BY SanitizePairs, WrittenCloses
  <2> QED BY <1>2, <2>1 DEF HistoryIsPaired
<1>6. Drafted(Sanitize(messages), unrun, f, made + 1, made + 1)
  <2>1. \A id \in made + 1 .. (made + 1) - 1 : id \in unrun
        OBVIOUS
  <2> QED BY <1>1, <2>1, SanitizeDrafted
<1>7. RequestIsPaired'
      BY <1>2 DEF RequestIsPaired
<1>8. Drafted(messages', unrun', f, made' + 1, made' + 1) /\ \A id \in 1 .. f - 1 : id \in flushed' \cup silent'
      BY <1>1, <1>2, <1>6
<1>9. /\ made' \in Nat /\ unrun' \subseteq 1 .. made' /\ drains' \in 0 .. MaxDrains
      /\ turns' \in 0 .. MaxTurns /\ compacts' \in 0 .. MaxTurns
      BY <1>2
<1> QED BY <1>3, <1>5, <1>7, <1>8, <1>9 DEF TranscriptIInv

LEMMA AnswersAre ==
    ASSUME NEW ns \in Answers
    PROVE  ns \in Seq(Nat) /\ ns # <<>>
<1>1. PICK k \in 1 .. MaxSteps : ns \in [1 .. k -> 0 .. MaxCalls]
      BY DEF Answers
<1>2. k \in Nat /\ k # 0 /\ 0 .. MaxCalls \subseteq Nat
      BY TranscriptAssumption
<1>3. ns \in [1 .. k -> Nat] /\ DOMAIN ns = 1 .. k
      BY <1>1, <1>2
<1>4. ns \in Seq(Nat)
      BY <1>2, <1>3, MakesSeq
<1>5. ns # <<>>
  <2>1. Len(ns) \in Nat /\ DOMAIN ns = 1 .. Len(ns)
        BY <1>4, LenProperties
  <2>2. Len(ns) = k
        BY <1>2, <1>3, <2>1
  <2> QED BY <1>2, <1>4, <2>2, EmptySeq
<1> QED BY <1>4, <1>5

LEMMA DoneHolds == TranscriptIInv /\ Done => TranscriptIInv'
<1> HAVE TranscriptIInv /\ Done
<1> USE IInvGives
<1>1. PICK f : /\ Drafted(messages, unrun, f, made + 1, made + 1)
               /\ \A id \in 1 .. f - 1 : id \in flushed \cup silent
      OBVIOUS
<1>2. PICK ns \in Answers, run \in BOOLEAN :
          LET calls == FirstOf(ns, Len(ns) + 1) - 1
              lost == IF run THEN {} ELSE FirstOf(ns, Len(ns)) .. calls
              new == AnswerMessages(ns, run)
          IN  /\ messages' = Sanitize(messages \o [i \in DOMAIN new |-> ToFantasy(ToLLM(new[i]))])
              /\ made' = calls /\ unrun' = unrun \cup lost /\ active' = FALSE
              /\ UNCHANGED <<prior, turns, drains, compactVars>>
      BY DEF Done
<1> DEFINE calls == FirstOf(ns, Len(ns) + 1) - 1
           lost == IF run THEN {} ELSE FirstOf(ns, Len(ns)) .. calls
           new == AnswerMessages(ns, run)
           msgs == messages \o Through(new)
           u == unrun \cup lost
<1>3. messages' = Sanitize(msgs) /\ made' = calls /\ unrun' = u
      BY <1>2 DEF Through, Back
<1>4. /\ compacts' = compacts /\ flushed' = flushed /\ silent' = silent /\ drains' = drains
      /\ turns' = turns /\ prior' = prior
      BY <1>2 DEF compactVars
<1>5. active' \in BOOLEAN
      BY <1>2
<1>6. ns \in Seq(Nat) /\ ns # <<>>
      BY AnswersAre
<1>7. /\ calls \in Nat /\ calls >= made /\ lost \subseteq made + 1 .. calls
      /\ \E w : Drafted(msgs, u, f, w, calls + 1) /\ \A id \in w .. (calls + 1) - 1 : id \in u
  <2>1. made \in Nat /\ unrun \subseteq 1 .. made
        OBVIOUS
  <2>2. Drafted(messages, unrun, f, made + 1, made + 1)
        BY <1>1
  <2>3. AnswersHold(ns, messages, unrun, f)
        BY <1>6, <2>1, <2>2, AnswerSteps
  <2> QED BY <2>3 DEF AnswersHold
<1> HIDE DEF calls, lost, msgs, u
<1>8. PICK w : Drafted(msgs, u, f, w, calls + 1) /\ \A id \in w .. (calls + 1) - 1 : id \in u
      BY <1>7
<1>9. Drafted(Sanitize(msgs), u, f, calls + 1, calls + 1)
      BY <1>8, SanitizeDrafted
<1>10. HistoryIsPaired'
  <2>1. msgs \in Seq(MessagesOf(Written))
        BY <1>8, DraftedIs
  <2>2. Paired(Sanitize(msgs))
        BY <2>1, SanitizePairs, WrittenCloses
  <2> QED BY <1>3, <2>2 DEF HistoryIsPaired
<1>11. RequestIsPaired'
       BY <1>4 DEF RequestIsPaired
<1>12. Drafted(messages', unrun', f, made' + 1, made' + 1) /\ \A id \in 1 .. f - 1 : id \in flushed' \cup silent'
       BY <1>1, <1>3, <1>4, <1>9
<1>13. made' \in Nat /\ unrun' \subseteq 1 .. made'
  <2>1. 1 .. made \subseteq 1 .. calls /\ made + 1 .. calls \subseteq 1 .. calls
        BY <1>7
  <2> QED BY <1>3, <1>7, <2>1 DEF u
<1>14. drains' \in 0 .. MaxDrains /\ turns' \in 0 .. MaxTurns /\ compacts' \in 0 .. MaxTurns
       BY <1>4
<1> QED BY <1>5, <1>10, <1>11, <1>12, <1>13, <1>14 DEF TranscriptIInv

LEMMA CompactHolds == TranscriptIInv /\ Compact => TranscriptIInv'
<1> HAVE TranscriptIInv /\ Compact
<1> USE IInvGives
<1>1. PICK f : /\ Drafted(messages, unrun, f, made + 1, made + 1)
               /\ \A id \in 1 .. f - 1 : id \in flushed \cup silent
      OBVIOUS
<1>2. PICK memory \in {"none", "text", "fails"}, summary \in {"empty", "text", "fails"} :
          /\ flushed' = IF memory = "text" THEN flushed \cup Calls(Old) ELSE flushed
          /\ silent' = IF memory = "none" THEN silent \cup Calls(Old) ELSE silent
          /\ messages' = IF MemoryFlushed(memory) /\ summary # "fails" THEN Rebuilt(summary = "text")
                         ELSE messages
      BY DEF Compact
<1>3. /\ prior' = prior /\ turns' = turns /\ made' = made /\ unrun' = unrun /\ drains' = drains
      /\ compacts' = compacts + 1 /\ turns + compacts < MaxTurns /\ Len(messages) >= Kept
      BY DEF Compact
<1>4. active' \in BOOLEAN
  <2>1. active' = active /\ active \in BOOLEAN
        BY DEF Compact, TranscriptIInv
  <2> QED BY <2>1
<1>5. /\ made' \in Nat /\ unrun' \subseteq 1 .. made' /\ drains' \in 0 .. MaxDrains
      /\ turns' \in 0 .. MaxTurns /\ compacts' \in 0 .. MaxTurns
      BY <1>3
<1>6. RequestIsPaired'
      BY <1>3 DEF RequestIsPaired
<1>7. flushed \cup silent \subseteq flushed' \cup silent'
      BY <1>2
<1>8. CASE messages' = messages
  <2>1. HistoryIsPaired'
        BY <1>8 DEF HistoryIsPaired
  <2>2. Drafted(messages', unrun', f, made' + 1, made' + 1) /\ \A id \in 1 .. f - 1 : id \in flushed' \cup silent'
        BY <1>1, <1>3, <1>7, <1>8
  <2> QED BY <1>4, <1>5, <1>6, <2>1, <2>2 DEF TranscriptIInv
<1>9. CASE memory # "fails" /\ messages' = <<Summary>> \o KeptTail
  <2>1. PICK g : /\ Drafted(<<Summary>> \o KeptTail, unrun, g, made + 1, made + 1)
                 /\ \A id \in f .. g - 1 : id \in Calls(Old)
        BY <1>1, <1>3, CompactDrafted
  <2>2. Calls(Old) \subseteq flushed' \cup silent'
        BY <1>2, <1>9
  <2>3. \A id \in 1 .. g - 1 : id \in flushed' \cup silent'
    <3>1. f \in Nat /\ g \in Nat
          BY <1>1, <2>1, DraftedIs
    <3> TAKE id \in 1 .. g - 1
    <3>2. id \in 1 .. f - 1 \/ id \in f .. g - 1
          BY <3>1
    <3> QED BY <1>1, <1>7, <2>1, <2>2, <3>2
  <2>4. HistoryIsPaired'
    <3> DEFINE c == Len(messages) - Kept
    <3>1. Kept \in Nat \ {0} /\ Len(messages) \in Nat
          BY TranscriptAssumption, LenProperties
    <3>2. c \in 0 .. Len(messages)
          BY <1>3, <3>1
    <3>3. Paired(<<Summary>> \o SubSeq(messages, c + 1, Len(messages)))
          BY <3>2, TailPairs
    <3> QED BY <1>9, <3>3 DEF HistoryIsPaired, KeptTail
  <2>5. Drafted(messages', unrun', g, made' + 1, made' + 1)
        BY <1>3, <1>9, <2>1
  <2> QED BY <1>4, <1>5, <1>6, <2>3, <2>4, <2>5 DEF TranscriptIInv
<1> QED BY <1>2, <1>8, <1>9 DEF MemoryFlushed, Rebuilt

\* In every history of turns, prompts queued meanwhile, failures and compactions: each call is
\* answered in the next message, in the history and (the first of a step) in every request; a
\* lone call's result is its tool's own output, or the marker when the tool was not run; what
\* /compact drops daily memory was told of, or the model had nothing durable to say of it; a
\* result never stands before its call, and the cache marker is on the bootstrap's last message.
THEOREM TurnsAreAnswered == TranscriptSpec => []CallsAreAnswered
<1>1. TranscriptInit => TranscriptIInv
      BY IInvInit
<1>2. TranscriptIInv /\ [TranscriptNext]_transcriptVars => TranscriptIInv'
  <2> SUFFICES ASSUME TranscriptIInv, [TranscriptNext]_transcriptVars PROVE TranscriptIInv'
      OBVIOUS
  <2>1. CASE Ask
        BY <2>1, AskHolds
  <2>2. CASE Drain
        BY <2>2, DrainHolds
  <2>3. CASE Done
        BY <2>3, DoneHolds
  <2>4. CASE Fails
        BY <2>4, FailsHolds
  <2>5. CASE Compact
        BY <2>5, CompactHolds
  <2>6. CASE UNCHANGED transcriptVars
        BY <2>6 DEF TranscriptIInv, HistoryIsPaired, RequestIsPaired, transcriptVars, compactVars
  <2> QED BY <2>1, <2>2, <2>3, <2>4, <2>5, <2>6 DEF TranscriptNext
<1>3. TranscriptIInv => CallsAreAnswered
      BY IInvAnswers
<1> QED BY <1>1, <1>2, <1>3, PTL DEF TranscriptSpec
=============================================================================

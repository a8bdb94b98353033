--------------------------- MODULE ContextProofs ---------------------------
(***************************************************************************)
(* What ContextHistory is held to, for every number of contexts, turns,    *)
(* notes, logs and relaunches: a turn that streams owns its context, and   *)
(* contexts keep to themselves; what is said is logged, once, under its    *)
(* context; the log and the histories agree, before and after a resume;    *)
(* memory is in its context's history, once.                               *)
(*                                                                         *)
(* For the logs the lemmas go from the agent's methods (what each does to  *)
(* a history, its copy in contextMsgs and its watermark) to what an agent  *)
(* and its log have in common (Once, Remembered, Agreed, AtHome); then     *)
(* LogIInv says when they have it, and each step of Next keeps it.         *)
(***************************************************************************)
EXTENDS ContextHistory, FiniteSetTheorems, SequenceTheorems, TLAPS

-----------------------------------------------------------------------------
(* Histories *)

BootMsg(i) == IF i = 1 THEN Sys ELSE Msg("boot", Main, i)

\* History h begins with the first n bootstrap messages.
Booted(h, n) == n <= Len(h) /\ \A i \in 1 .. n : h[i] = BootMsg(i)

\* Message m may be in the history of context c when the turns C are cancelled.
Own(m, c, C) ==
    /\ Foreign(m, c) => m.kind \in {"user", "reply"} /\ m.n \in C
    /\ m.kind = "sys" => m = Sys

Fine(h, c, n, C) == Booted(h, n) /\ \A i \in 1 .. Len(h) : Own(h[i], c, C)

LEMMA MsgIs ==
    ASSUME NEW k \in Kind, NEW c \in Ctx, NEW i \in Nat
    PROVE  /\ Msg(k, c, i) \in Message
           /\ Msg(k, c, i).kind = k /\ Msg(k, c, i).ctx = c /\ Msg(k, c, i).n = i
BY DEF Msg, Message

LEMMA BootMsgIs ==
    ASSUME NEW i \in Nat
    PROVE  BootMsg(i) \in Message /\ \A c \in Ctx : \A C : Own(BootMsg(i), c, C)
<1>1. Main \in Ctx /\ "sys" \in Kind /\ "boot" \in Kind
      BY DEF Ctx, Kind
<1>2. Sys \in Message /\ Sys.kind = "sys" /\ Msg("boot", Main, i) \in Message
      /\ Msg("boot", Main, i).kind = "boot"
      BY <1>1, MsgIs DEF Sys
<1> QED BY <1>2 DEF BootMsg, Own, Foreign, Spoken

LEMMA BootstrapIs ==
    ASSUME NEW b \in Nat
    PROVE  /\ Bootstrap(b) \in Seq(Message)
           /\ Len(Bootstrap(b)) = b + 1
           /\ Bootstrap(b) # <<>>
           /\ \A i \in 1 .. b + 1 : Bootstrap(b)[i] = BootMsg(i)
<1> DEFINE s == [i \in 1 .. b + 1 |-> BootMsg(i)]
<1>1. Bootstrap(b) = s
      BY DEF Bootstrap, BootMsg
<1>2. s \in Seq(Message)
  <2>1. \A i \in 1 .. b + 1 : BootMsg(i) \in Message
        BY BootMsgIs
  <2>2. s \in [1 .. b + 1 -> Message] /\ b + 1 \in Nat
        BY <2>1
  <2> QED BY <2>2, SeqDef
<1>3. Len(s) = b + 1
      BY <1>2, LenProperties
<1>4. s # <<>>
      BY <1>2, <1>3, EmptySeq
<1> QED BY <1>1, <1>2, <1>3, <1>4

LEMMA BootstrapFine ==
    ASSUME NEW b \in Nat, NEW c \in Ctx, NEW C
    PROVE  Fine(Bootstrap(b), c, b + 1, C)
<1> DEFINE h == Bootstrap(b)
<1>1. Len(h) = b + 1 /\ \A i \in 1 .. b + 1 : h[i] = BootMsg(i)
      BY BootstrapIs
<1> HIDE DEF h
<1>2. \A i \in 1 .. b + 1 : i \in Nat /\ Own(BootMsg(i), c, C)
      BY BootMsgIs
<1>3. Booted(h, b + 1)
      BY <1>1 DEF Booted
<1>4. \A i \in 1 .. Len(h) : Own(h[i], c, C)
      BY <1>1, <1>2
<1> QED BY <1>3, <1>4 DEF Fine, h

\* The prefix of a history that begins with the bootstrap is the bootstrap.
LEMMA PrefixIs ==
    ASSUME NEW h \in Seq(Message), NEW n \in Nat
    PROVE  /\ Prefix(h, n) \in Seq(Message)
           /\ n <= Len(h) => Len(Prefix(h, n)) = n
           /\ n >= 1 /\ h # <<>> => Prefix(h, n) # <<>>
           /\ \A i \in 1 .. Len(Prefix(h, n)) : i <= Len(h) /\ Prefix(h, n)[i] = h[i]
<1> DEFINE k == IF n < Len(h) THEN n ELSE Len(h)
<1>1. Len(h) \in Nat /\ \A i \in 1 .. Len(h) : h[i] \in Message
      BY LenProperties, ElementOfSeq
<1>2. k \in Nat /\ k <= Len(h) /\ (n <= Len(h) => k = n)
      BY <1>1
<1>3. \A i \in 1 .. k : h[i] \in Message
      BY <1>1, <1>2
<1>4. Prefix(h, n) = SubSeq(h, 1, k)
      BY DEF Prefix
<1> HIDE DEF k
<1>5. SubSeq(h, 1, k) \in Seq(Message)
      BY <1>2, <1>3, SubSeqProperties
<1>6. Len(SubSeq(h, 1, k)) = k
      BY <1>2, <1>3, SubSeqProperties
<1>7. \A i \in 1 .. k : SubSeq(h, 1, k)[i] = h[i]
  <2>1. \A i \in 1 .. k - 1 + 1 : SubSeq(h, 1, k)[i] = h[1 + i - 1]
        BY <1>2, <1>3, SubSeqProperties
  <2> QED BY <2>1, <1>2
<1>8. ASSUME n >= 1, h # <<>> PROVE SubSeq(h, 1, k) # <<>>
  <2>1. Len(h) >= 1
        BY <1>8, EmptySeq
  <2>2. k >= 1
        BY <1>8, <2>1, <1>1 DEF k
  <2>3. Len(<<>>) = 0
        BY EmptySeq
  <2> QED BY <2>2, <2>3, <1>2, <1>6
<1> QED BY <1>2, <1>4, <1>5, <1>6, <1>7, <1>8, <1>1

LEMMA PrefixFine ==
    ASSUME NEW h \in Seq(Message), NEW n \in Nat, NEW c \in Ctx, NEW C, Booted(h, n)
    PROVE  Fine(Prefix(h, n), c, n, C)
<1>1. /\ Len(Prefix(h, n)) = n
      /\ \A i \in 1 .. n : Prefix(h, n)[i] = BootMsg(i)
      BY PrefixIs DEF Booted
<1>2. \A i \in 1 .. n : Own(Prefix(h, n)[i], c, C)
      BY <1>1, BootMsgIs
<1> QED BY <1>1, <1>2 DEF Fine, Booted

LEMMA AppendFine ==
    ASSUME NEW h \in Seq(Message), NEW m \in Message, NEW n \in Nat, NEW c, NEW C,
           Fine(h, c, n, C), Own(m, c, C)
    PROVE  Fine(Append(h, m), c, n, C)
<1> DEFINE g == Append(h, m)
<1>1. /\ Len(h) \in Nat /\ Len(g) = Len(h) + 1
      /\ \A i \in 1 .. Len(h) : g[i] = h[i]
      /\ g[Len(h) + 1] = m
      BY AppendProperties, LenProperties
<1> HIDE DEF g
<1>2. \A i \in 1 .. Len(g) : i \in 1 .. Len(h) \/ i = Len(h) + 1
      BY <1>1
<1>3. \A i \in 1 .. Len(g) : Own(g[i], c, C)
      BY <1>1, <1>2 DEF Fine
<1>4. n <= Len(g) /\ \A i \in 1 .. n : i \in 1 .. Len(h)
      BY <1>1 DEF Fine, Booted
<1>5. Booted(g, n)
      BY <1>1, <1>4 DEF Fine, Booted
<1> QED BY <1>3, <1>5 DEF Fine, g

\* Fewer boot messages, or more cancelled turns, are no harder to have.
LEMMA FineStays ==
    ASSUME NEW h, NEW c, NEW n \in Nat, NEW C, NEW D, C \subseteq D, Fine(h, c, n, C)
    PROVE  Fine(h, c, n, D)
BY DEF Fine, Own

-----------------------------------------------------------------------------
(* The Agent's methods *)

\* What every state of the agent has: its current context exists and has messages.
Live(a) ==
    /\ a \in AgentState
    /\ a.boot >= 1
    /\ a.msgs # <<>>
    /\ a.of[a.cur] # <<>>

\* Every history, and the copy of the current one, begins with the bootstrap and is its own.
AgentFine(a, C) ==
    /\ \A c \in Ctx : a.of[c] # <<>> => Fine(a.of[c], c, a.boot, C)
    /\ Fine(a.msgs, a.cur, a.boot, C)

\* Agent b counts the bootstrap as a does, and has no watermark that a had not.
Kept(a, b) ==
    /\ b.boot = a.boot /\ b.base = a.base
    /\ \A d \in Ctx : b.saved[d] > 0 => a.saved[d] > 0

LEMMA AgentIs ==
    ASSUME NEW a \in AgentState
    PROVE  /\ a.msgs \in Seq(Message) /\ a.cur \in Ctx /\ a.scope \in Ctx
           /\ a.of \in [Ctx -> Seq(Message)] /\ a.saved \in [Ctx -> Nat]
           /\ a.boot \in Nat /\ a.base \in Nat /\ a.injected \in SUBSET Ctx
BY DEF AgentState

LEMMA InitContextFine ==
    ASSUME NEW a, NEW c \in Ctx, Live(a)
    PROVE  LET b == InitContext(a, c) IN
           /\ Live(b) /\ Kept(a, b)
           /\ b.of[c] # <<>>
           /\ b.msgs = a.msgs /\ b.cur = a.cur /\ b.scope = a.scope
           /\ \A C : AgentFine(a, C) => AgentFine(b, C)
<1> DEFINE b == InitContext(a, c)
<1> USE AgentIs DEF Live
<1>1. CASE a.of[c] # <<>>
  <2>1. b = a
        BY <1>1 DEF InitContext
  <2> QED BY <2>1, <1>1 DEF Kept
<1>2. CASE a.of[c] = <<>>
  <2> DEFINE h == Prefix(a.msgs, a.boot)
  <2>1. h \in Seq(Message) /\ h # <<>>
        BY PrefixIs
  <2>2. \A C : AgentFine(a, C) => Fine(h, c, a.boot, C)
        BY PrefixFine DEF AgentFine, Fine
  <2>3. b = [a EXCEPT !.of[c] = h, !.saved[c] = 0]
        BY <1>2 DEF InitContext
  <2> HIDE DEF h, b
  <2>4. /\ b \in AgentState
        /\ b.msgs = a.msgs /\ b.cur = a.cur /\ b.scope = a.scope
        /\ b.boot = a.boot /\ b.base = a.base
        /\ b.of = [a.of EXCEPT ![c] = h] /\ b.saved = [a.saved EXCEPT ![c] = 0]
        BY <2>1, <2>3 DEF AgentState
  <2>5. \A d \in Ctx : b.of[d] = IF d = c THEN h ELSE a.of[d]
        BY <2>4
  <2>6. \A d \in Ctx : b.saved[d] = IF d = c THEN 0 ELSE a.saved[d]
        BY <2>4
  <2>7. Live(b) /\ b.of[c] # <<>>
        BY <2>1, <2>4, <2>5
  <2>8. Kept(a, b)
        BY <2>4, <2>6 DEF Kept
  <2>9. ASSUME NEW C, AgentFine(a, C) PROVE AgentFine(b, C)
        BY <2>2, <2>4, <2>5, <2>9 DEF AgentFine
  <2> QED BY <2>4, <2>7, <2>8, <2>9 DEF b
<1> QED BY <1>1, <1>2

LEMMA SetContextFine ==
    ASSUME NEW a, NEW c \in Ctx, Live(a), a.of[c] # <<>>
    PROVE  LET b == SetContext(a, c) IN
           /\ Live(b) /\ Kept(a, b)
           /\ b.cur = c
           /\ \A C : AgentFine(a, C) => AgentFine(b, C)
<1> DEFINE b == SetContext(a, c)
<1> USE AgentIs DEF Live
<1>1. CASE c = a.cur
  <2>1. b = a
        BY <1>1 DEF SetContext
  <2> QED BY <2>1, <1>1 DEF Kept
<1>2. CASE c # a.cur
  <2>1. b = [a EXCEPT !.of[a.cur] = a.msgs, !.cur = c, !.msgs = a.of[c]]
        BY <1>2 DEF SetContext
  <2> HIDE DEF b
  <2>2. a.of[c] \in Seq(Message)
        OBVIOUS
  <2>3. /\ b \in AgentState
        /\ b.msgs = a.of[c] /\ b.cur = c
        /\ b.boot = a.boot /\ b.base = a.base /\ b.saved = a.saved
        /\ b.of = [a.of EXCEPT ![a.cur] = a.msgs]
        BY <2>1, <2>2 DEF AgentState
  <2>4. \A d \in Ctx : b.of[d] = IF d = a.cur THEN a.msgs ELSE a.of[d]
        BY <2>3
  <2>5. Live(b)
        BY <2>3, <2>4, <1>2
  <2>6. Kept(a, b)
        BY <2>3 DEF Kept
  <2>7. ASSUME NEW C, AgentFine(a, C) PROVE AgentFine(b, C)
        BY <2>3, <2>4, <2>7 DEF AgentFine
  <2> QED BY <2>3, <2>5, <2>6, <2>7 DEF b
<1> QED BY <1>1, <1>2

LEMMA SetScopeFine ==
    ASSUME NEW a, NEW c \in Ctx, Live(a)
    PROVE  LET b == SetScope(a, c) IN
           /\ Live(b) /\ Kept(a, b)
           /\ b.cur = a.cur /\ b.scope = c /\ b.saved = a.saved /\ b.of = a.of
           /\ \A C : AgentFine(a, C) => AgentFine(b, C)
<1> DEFINE b == SetScope(a, c)
<1> USE AgentIs DEF Live
<1>1. CASE c \notin HotCtx \ a.injected
  <2>1. b = [a EXCEPT !.scope = c]
        BY <1>1 DEF SetScope
  <2> HIDE DEF b
  <2>2. /\ b \in AgentState
        /\ b.msgs = a.msgs /\ b.cur = a.cur /\ b.scope = c /\ b.of = a.of
        /\ b.boot = a.boot /\ b.base = a.base /\ b.saved = a.saved
        BY <2>1 DEF AgentState
  <2>3. Live(b) /\ Kept(a, b) /\ \A C : AgentFine(a, C) => AgentFine(b, C)
        BY <2>2 DEF Kept, AgentFine
  <2> QED BY <2>2, <2>3 DEF b
<1>2. CASE c \in HotCtx \ a.injected
  <2> DEFINE g == Append(a.msgs, Hot(c))
  <2>1. b = [a EXCEPT !.scope = c, !.injected = @ \cup {c}, !.msgs = g]
        BY <1>2 DEF SetScope
  <2>2. Hot(c) \in Message /\ Hot(c).kind = "hot"
    <3>1. "hot" \in Kind /\ 0 \in Nat
          BY DEF Kind
    <3> QED BY <3>1, MsgIs DEF Hot
  <2>3. \A d, C : Own(Hot(c), d, C)
        BY <2>2 DEF Own, Foreign, Spoken
  <2>4. g \in Seq(Message) /\ g # <<>>
        BY <2>2, AppendProperties
  <2>5. \A C : AgentFine(a, C) => Fine(g, a.cur, a.boot, C)
        BY <2>2, <2>3, AppendFine DEF AgentFine
  <2> HIDE DEF b, g
  <2>6. /\ b \in AgentState
        /\ b.msgs = g /\ b.cur = a.cur /\ b.scope = c /\ b.of = a.of
        /\ b.boot = a.boot /\ b.base = a.base /\ b.saved = a.saved
        BY <2>1, <2>4 DEF AgentState
  <2>7. Live(b) /\ Kept(a, b)
        BY <2>4, <2>6 DEF Kept
  <2>8. \A C : AgentFine(a, C) => AgentFine(b, C)
        BY <2>5, <2>6 DEF AgentFine
  <2> QED BY <2>6, <2>7, <2>8 DEF b
<1> QED BY <1>1, <1>2

LEMMA EnterFine ==
    ASSUME NEW a, NEW c \in Ctx, Live(a)
    PROVE  LET b == Enter(a, c) IN
           /\ Live(b) /\ Kept(a, b)
           /\ b.cur = c /\ b.scope = c
           /\ \A C : AgentFine(a, C) => AgentFine(b, C)
<1> DEFINE i == InitContext(a, c)
           s == SetContext(i, c)
<1>1. /\ Live(i) /\ Kept(a, i) /\ i.of[c] # <<>>
      /\ \A C : AgentFine(a, C) => AgentFine(i, C)
      BY InitContextFine
<1> HIDE DEF i
<1>2. /\ Live(s) /\ Kept(i, s) /\ s.cur = c
      /\ \A C : AgentFine(i, C) => AgentFine(s, C)
      BY <1>1, SetContextFine
<1> HIDE DEF s
<1>3. LET b == SetScope(s, c) IN
      /\ Live(b) /\ Kept(s, b) /\ b.cur = s.cur /\ b.scope = c
      /\ \A C : AgentFine(s, C) => AgentFine(b, C)
      BY <1>2, SetScopeFine
<1>4. Enter(a, c) = SetScope(s, c)
      BY DEF Enter, s, i
<1> QED BY <1>1, <1>2, <1>3, <1>4 DEF Kept

LEMMA AppendMessageFine ==
    ASSUME NEW a, NEW m \in Message, Live(a)
    PROVE  LET b == AppendMessage(a, m) IN
           /\ Live(b) /\ Kept(a, b)
           /\ b.cur = a.cur /\ b.scope = a.scope /\ b.saved = a.saved
           /\ \A C : AgentFine(a, C) /\ Own(m, a.cur, C) => AgentFine(b, C)
<1> DEFINE b == AppendMessage(a, m)
           g == Append(a.msgs, m)
<1> USE AgentIs DEF Live
<1>1. b = [a EXCEPT !.msgs = g, !.of[a.cur] = g]
      BY DEF AppendMessage, AgentState
<1>2. g \in Seq(Message) /\ g # <<>>
      BY AppendProperties
<1>3. \A C : AgentFine(a, C) /\ Own(m, a.cur, C) => Fine(g, a.cur, a.boot, C)
      BY AppendFine DEF AgentFine
<1> HIDE DEF b, g
<1>4. /\ b \in AgentState
      /\ b.msgs = g /\ b.cur = a.cur /\ b.scope = a.scope
      /\ b.boot = a.boot /\ b.base = a.base /\ b.saved = a.saved
      /\ b.of = [a.of EXCEPT ![a.cur] = g]
      BY <1>1, <1>2 DEF AgentState
<1>5. \A d \in Ctx : b.of[d] = IF d = a.cur THEN g ELSE a.of[d]
      BY <1>4
<1>6. Live(b) /\ Kept(a, b)
      BY <1>2, <1>4, <1>5 DEF Kept
<1>7. ASSUME NEW C, AgentFine(a, C), Own(m, a.cur, C) PROVE AgentFine(b, C)
      BY <1>3, <1>4, <1>5, <1>7 DEF AgentFine
<1> QED BY <1>4, <1>6, <1>7 DEF b

LEMMA InjectNoteFine ==
    ASSUME NEW a, NEW c \in Ctx, NEW m \in Message, Live(a)
    PROVE  LET b == InjectNote(a, c, m) IN
           /\ Live(b) /\ Kept(a, b)
           /\ b.cur = a.cur /\ b.scope = a.scope
           /\ \A C : AgentFine(a, C) /\ Own(m, c, C) => AgentFine(b, C)
<1> DEFINE i == InitContext(a, c)
           g == Append(i.of[c], m)
           b == InjectNote(a, c, m)
<1>1. /\ Live(i) /\ Kept(a, i) /\ i.of[c] # <<>>
      /\ i.cur = a.cur /\ i.scope = a.scope
      /\ \A C : AgentFine(a, C) => AgentFine(i, C)
      BY InitContextFine
<1>2. b = [i EXCEPT !.of[c] = g, !.msgs = IF c = i.cur THEN g ELSE i.msgs]
      BY DEF InjectNote
<1> HIDE DEF i
<1>3. i.of[c] \in Seq(Message)
      BY <1>1, AgentIs DEF Live
<1>4. g \in Seq(Message) /\ g # <<>>
      BY <1>3, AppendProperties
<1>5. ASSUME NEW C, AgentFine(i, C), Own(m, c, C) PROVE Fine(g, c, i.boot, C)
  <2>1. i.boot \in Nat /\ Fine(i.of[c], c, i.boot, C)
        BY <1>1, <1>5, AgentIs DEF AgentFine, Live
  <2> QED BY <2>1, <1>3, <1>5, AppendFine
<1> HIDE DEF b, g
<1>6. /\ b \in AgentState
      /\ b.msgs = (IF c = i.cur THEN g ELSE i.msgs) /\ b.cur = i.cur /\ b.scope = i.scope
      /\ b.boot = i.boot /\ b.base = i.base /\ b.saved = i.saved
      /\ b.of = [i.of EXCEPT ![c] = g]
      BY <1>1, <1>2, <1>4 DEF AgentState, Live
<1>7. i.cur \in Ctx /\ \A d \in Ctx : b.of[d] = IF d = c THEN g ELSE i.of[d]
      BY <1>1, <1>6, AgentIs DEF Live
<1>8. Live(b)
  <2>1. b.msgs # <<>>
        BY <1>1, <1>4, <1>6 DEF Live
  <2>2. b.of[b.cur] # <<>>
        BY <1>1, <1>4, <1>6, <1>7 DEF Live
  <2>3. b.boot >= 1
        BY <1>1, <1>6 DEF Live
  <2> QED BY <1>6, <2>1, <2>2, <2>3 DEF Live
<1>9. Kept(a, b)
      BY <1>1, <1>6 DEF Kept
<1>10. ASSUME NEW C, AgentFine(a, C), Own(m, c, C) PROVE AgentFine(b, C)
  <2>1. AgentFine(i, C)
        BY <1>1, <1>10
  <2>2. Fine(g, c, i.boot, C)
        BY <2>1, <1>5, <1>10
  <2> QED BY <2>1, <2>2, <1>6, <1>7 DEF AgentFine
<1> QED BY <1>1, <1>6, <1>8, <1>9, <1>10 DEF b

LEMMA CompactedFine ==
    ASSUME NEW a, NEW m \in Message, Live(a), CanCompact(a)
    PROVE  LET b == Compacted(a, m) IN
           /\ Live(b)
           /\ b.boot = a.boot /\ b.base = a.base
           /\ b.cur = a.cur /\ b.scope = a.scope
           /\ \A C : AgentFine(a, C) /\ Own(m, a.cur, C) => AgentFine(b, C)
<1> DEFINE p == Prefix(a.msgs, a.boot)
           q == SubSeq(a.msgs, Len(a.msgs) - Keep + 1, Len(a.msgs))
           r == p \o <<m>>
           h == r \o q
           b == Compacted(a, m)
<1>a. /\ a.msgs \in Seq(Message) /\ a.cur \in Ctx /\ a.boot \in Nat
      /\ a.of \in [Ctx -> Seq(Message)]
      /\ Len(a.msgs) \in Nat /\ Keep \in Nat /\ a \in AgentState
      BY AgentIs, LenProperties, ContextAssumption DEF Live
<1>b. a.boot <= Len(a.msgs) - Keep
      BY DEF CanCompact
<1>1. p \in Seq(Message) /\ Len(p) = a.boot /\ \A i \in 1 .. Len(p) : p[i] = a.msgs[i]
      BY <1>a, <1>b, PrefixIs
<1>2. /\ q \in Seq(Message)
      /\ \A i \in 1 .. Len(q) : \E j \in 1 .. Len(a.msgs) : q[i] = a.msgs[j]
  <2> DEFINE f == Len(a.msgs) - Keep + 1
             l == Len(a.msgs)
  <2>1. f \in Int /\ l \in Int /\ f >= 1 /\ \A i \in f .. l : i \in 1 .. l
        BY <1>a, <1>b
  <2>2. \A i \in f .. l : a.msgs[i] \in Message
        BY <2>1, <1>a, ElementOfSeq
  <2> HIDE DEF f, l
  <2>3. /\ SubSeq(a.msgs, f, l) \in Seq(Message)
        /\ Len(SubSeq(a.msgs, f, l)) = IF f <= l THEN l - f + 1 ELSE 0
        /\ \A i \in 1 .. l - f + 1 : SubSeq(a.msgs, f, l)[i] = a.msgs[f + i - 1]
        BY <2>1, <2>2, SubSeqProperties
  <2>4. \A i \in 1 .. Len(SubSeq(a.msgs, f, l)) :
            i \in 1 .. l - f + 1 /\ f + i - 1 \in 1 .. l
        BY <2>1, <2>3
  <2>5. \A i \in 1 .. Len(SubSeq(a.msgs, f, l)) :
            \E j \in 1 .. l : SubSeq(a.msgs, f, l)[i] = a.msgs[j]
        BY <2>3, <2>4
  <2> QED BY <2>3, <2>5 DEF f, l
<1> HIDE DEF p, q
<1>3. <<m>> \in Seq(Message) /\ Len(<<m>>) = 1 /\ <<m>>[1] = m
      OBVIOUS
<1>4. /\ r \in Seq(Message) /\ Len(r) = a.boot + 1
      /\ \A i \in 1 .. a.boot : r[i] = a.msgs[i]
      /\ r[a.boot + 1] = m
  <2>1. /\ r \in Seq(Message)
        /\ Len(r) = Len(p) + Len(<<m>>)
        /\ \A i \in 1 .. Len(p) + Len(<<m>>) : r[i] = IF i <= Len(p) THEN p[i] ELSE <<m>>[i - Len(p)]
        BY <1>1, <1>3, ConcatProperties
  <2> QED BY <2>1, <1>1, <1>3, <1>a
<1> HIDE DEF r
<1>5. /\ h \in Seq(Message) /\ Len(h) = a.boot + 1 + Len(q) /\ Len(q) \in Nat
      /\ \A i \in 1 .. Len(h) : h[i] = IF i <= a.boot + 1 THEN r[i] ELSE q[i - (a.boot + 1)]
  <2>1. Len(q) \in Nat
        BY <1>2, LenProperties
  <2>2. /\ h \in Seq(Message)
        /\ Len(h) = Len(r) + Len(q)
        /\ \A i \in 1 .. Len(r) + Len(q) : h[i] = IF i <= Len(r) THEN r[i] ELSE q[i - Len(r)]
        BY <1>2, <1>4, ConcatProperties
  <2> HIDE DEF h
  <2> QED BY <2>1, <2>2, <1>4, <1>a
<1>6. b = [a EXCEPT !.msgs = h, !.of[a.cur] = h, !.saved[a.cur] = Len(h)]
      BY DEF Compacted, h, r, p, q
<1> HIDE DEF h, b
<1>7. h # <<>>
  <2>1. Len(<<>>) = 0
        BY EmptySeq
  <2> QED BY <2>1, <1>5, <1>a
<1>8. /\ b \in AgentState
      /\ b.msgs = h /\ b.cur = a.cur /\ b.scope = a.scope
      /\ b.boot = a.boot /\ b.base = a.base
      /\ b.of = [a.of EXCEPT ![a.cur] = h]
  <2>1. Len(h) \in Nat
        BY <1>5, LenProperties
  <2> QED BY <2>1, <1>a, <1>5, <1>6 DEF AgentState
<1>9. \A d \in Ctx : b.of[d] = IF d = a.cur THEN h ELSE a.of[d]
      BY <1>8, <1>a
<1>10. Live(b)
      BY <1>7, <1>8, <1>9, <1>a DEF Live
<1>11. ASSUME NEW C, AgentFine(a, C), Own(m, a.cur, C) PROVE AgentFine(b, C)
  <2>1. \A i \in 1 .. a.boot : h[i] = BootMsg(i)
    <3>1. \A i \in 1 .. a.boot : i \in 1 .. Len(h) /\ h[i] = r[i] /\ r[i] = a.msgs[i]
          BY <1>4, <1>5, <1>a
    <3>2. \A i \in 1 .. a.boot : a.msgs[i] = BootMsg(i)
          BY <1>11 DEF AgentFine, Fine, Booted
    <3> QED BY <3>1, <3>2
  <2>2. ASSUME NEW i \in 1 .. Len(h) PROVE Own(h[i], a.cur, C)
    <3>1. CASE i <= a.boot
      <4>1. i \in 1 .. a.boot /\ i \in Nat
            BY <3>1, <1>a
      <4>2. h[i] = BootMsg(i)
            BY <4>1, <2>1
      <4> QED BY <4>1, <4>2, <1>a, BootMsgIs
    <3>2. CASE i = a.boot + 1
          BY <3>2, <1>4, <1>5, <1>11
    <3>3. CASE i > a.boot + 1
      <4>1. i - (a.boot + 1) \in 1 .. Len(q) /\ h[i] = q[i - (a.boot + 1)]
            BY <3>3, <1>5, <1>a
      <4>2. \E j \in 1 .. Len(a.msgs) : h[i] = a.msgs[j]
            BY <4>1, <1>2
      <4> QED BY <4>2, <1>11 DEF AgentFine, Fine
    <3> QED BY <3>1, <3>2, <3>3, <1>a
  <2>3. a.boot <= Len(h)
        BY <1>5, <1>a
  <2>4. Fine(h, a.cur, a.boot, C)
        BY <2>1, <2>2, <2>3 DEF Fine, Booted
  <2> QED BY <2>4, <1>8, <1>9, <1>11 DEF AgentFine
<1> QED BY <1>8, <1>10, <1>11 DEF b

LEMMA NewAgentFine ==
    ASSUME NEW n \in Nat, NEW c \in Ctx
    PROVE  LET b == NewAgent(n, c) IN
           /\ Live(b)
           /\ b.boot = n + 1 /\ b.base = n
           /\ b.cur = Main /\ b.scope = c
           /\ \A d \in Ctx : b.saved[d] = 0
           /\ \A C : AgentFine(b, C)
<1> DEFINE b == NewAgent(n, c)
           h == Bootstrap(n)
<1>1. h \in Seq(Message) /\ h # <<>> /\ \A C : Fine(h, Main, n + 1, C)
      BY BootstrapIs, BootstrapFine DEF Ctx
<1>2. Main \in Ctx /\ <<>> \in Seq(Message) /\ n + 1 \in Nat /\ {} \in SUBSET Ctx
      BY EmptySeq DEF Ctx
<1>3. b = [msgs |-> h, of |-> [d \in Ctx |-> IF d = Main THEN h ELSE <<>>],
           cur |-> Main, saved |-> [d \in Ctx |-> 0], boot |-> n + 1,
           injected |-> {}, scope |-> c, base |-> n]
      BY DEF NewAgent
<1> HIDE DEF h, b
<1>4. [d \in Ctx |-> IF d = Main THEN h ELSE <<>>] \in [Ctx -> Seq(Message)]
      BY <1>1, <1>2
<1>5. b \in AgentState
      BY <1>1, <1>2, <1>3, <1>4 DEF AgentState
<1>6. b.msgs = h /\ b.cur = Main /\ b.boot = n + 1 /\ b.base = n /\ b.scope = c
      /\ \A d \in Ctx : b.saved[d] = 0 /\ b.of[d] = IF d = Main THEN h ELSE <<>>
      BY <1>3
<1>7. Live(b)
      BY <1>1, <1>2, <1>5, <1>6 DEF Live
<1>8. \A C : AgentFine(b, C)
      BY <1>1, <1>6 DEF AgentFine
<1> QED BY <1>6, <1>7, <1>8 DEF b

-----------------------------------------------------------------------------
(* Logs *)

\* The place of i among the numbers P, and the k-th of them.
Rank(P, i) == Cardinality({j \in P : j <= i})
Nth(P, k) == CHOOSE i \in P : Rank(P, i) = k

Places(log, c) == {i \in DOMAIN log : log[i].label = c}

LEMMA PlacesFinite ==
    ASSUME NEW n \in Nat, NEW P, P \subseteq 1 .. n
    PROVE  IsFiniteSet(P) /\ Cardinality(P) \in Nat
<1>1. IsFiniteSet(1 .. n)
      BY FS_Interval
<1>2. IsFiniteSet(P)
      BY <1>1, FS_Subset
<1> QED BY <1>2, FS_CardinalityType

LEMMA RankIs ==
    ASSUME NEW n \in Nat, NEW P, P \subseteq 1 .. n, NEW i \in P
    PROVE  Rank(P, i) \in 1 .. Cardinality(P)
<1> DEFINE S == {j \in P : j <= i}
<1>1. S \subseteq P /\ IsFiniteSet(P) /\ Cardinality(P) \in Nat
      BY PlacesFinite
<1>2. IsFiniteSet(S) /\ Cardinality(S) <= Cardinality(P)
      BY <1>1, FS_Subset
<1>3. i \in S
      OBVIOUS
<1>4. Cardinality(S) \in Nat /\ Cardinality(S) # 0
      BY <1>2, <1>3, FS_EmptySet, FS_CardinalityType
<1> HIDE DEF S
<1>5. Cardinality(S) \in 1 .. Cardinality(P)
      BY <1>1, <1>2, <1>4
<1> QED BY <1>5 DEF Rank, S

LEMMA RankGrows ==
    ASSUME NEW n \in Nat, NEW P, P \subseteq 1 .. n, NEW i \in P, NEW j \in P, i < j
    PROVE  Rank(P, i) < Rank(P, j)
<1> DEFINE S == {k \in P : k <= i}
           T == {k \in P : k <= j}
<1>1. IsFiniteSet(P) /\ T \subseteq P /\ S \subseteq T
  <2>1. IsFiniteSet(P)
        BY PlacesFinite
  <2>2. i \in Int /\ j \in Int /\ \A k \in P : k \in Int
        OBVIOUS
  <2>3. \A k \in P : k <= i => k <= j
        BY <2>2
  <2> HIDE DEF S, T
  <2>4. S \subseteq T /\ T \subseteq P
        BY <2>3 DEF S, T
  <2> QED BY <2>1, <2>4
<1>2. IsFiniteSet(T)
      BY <1>1, FS_Subset
<1>3. j \in T /\ j \notin S
      OBVIOUS
<1> HIDE DEF S, T
<1>4. IsFiniteSet(S) /\ Cardinality(S) <= Cardinality(T) /\ Cardinality(S) # Cardinality(T)
      BY <1>1, <1>2, <1>3, FS_Subset
<1>5. Cardinality(S) \in Nat /\ Cardinality(T) \in Nat
      BY <1>2, <1>4, FS_CardinalityType
<1>6. Cardinality(S) < Cardinality(T)
      BY <1>4, <1>5
<1> QED BY <1>6 DEF Rank, S, T

LEMMA NthIs ==
    ASSUME NEW n \in Nat, NEW P, P \subseteq 1 .. n, NEW k \in 1 .. Cardinality(P)
    PROVE  /\ Nth(P, k) \in P /\ Rank(P, Nth(P, k)) = k
           /\ \A i \in P : Rank(P, i) = k => i = Nth(P, k)
<1> DEFINE N == 1 .. Cardinality(P)
           f == [i \in P |-> Rank(P, i)]
<1>1. IsFiniteSet(P) /\ Cardinality(P) \in Nat
      BY PlacesFinite
<1>2. IsFiniteSet(N) /\ Cardinality(N) = Cardinality(P)
      BY <1>1, FS_Interval
<1>3. \A i, j \in P : Rank(P, i) = Rank(P, j) => i = j
  <2> SUFFICES ASSUME NEW i \in P, NEW j \in P, Rank(P, i) = Rank(P, j), i # j
               PROVE  FALSE
      OBVIOUS
  <2>1. Rank(P, i) \in 1 .. Cardinality(P) /\ Rank(P, j) \in 1 .. Cardinality(P)
        BY RankIs
  <2>2. i < j \/ j < i
        OBVIOUS
  <2>3. Rank(P, i) < Rank(P, j) \/ Rank(P, j) < Rank(P, i)
        BY <2>2, RankGrows
  <2> QED BY <2>1, <2>3, <1>1
<1>4. f \in Injection(P, N)
  <2>1. f \in [P -> N]
        BY RankIs
  <2> QED BY <2>1, <1>3 DEF Injection, IsInjective
<1> HIDE DEF f, N
<1>5. f \in Surjection(P, N)
      BY <1>2, <1>4, FS_Injection
<1>6. \E i \in P : f[i] = k
      BY <1>5 DEF Surjection, N
<1>7. \E i \in P : Rank(P, i) = k
      BY <1>6 DEF f
<1>8. Nth(P, k) \in P /\ Rank(P, Nth(P, k)) = k
      BY <1>7 DEF Nth
<1> QED BY <1>3, <1>8

\* The group of c in a log: it has the messages labelled c.
LEMMA LoggedIs ==
    ASSUME NEW log \in Seq(Entry), NEW c
    PROVE  /\ Places(log, c) \subseteq 1 .. Len(log)
           /\ Logged(log, c) \in Seq(Message)
           /\ Len(Logged(log, c)) = Cardinality(Places(log, c))
           /\ \A k \in 1 .. Len(Logged(log, c)) :
                 /\ Nth(Places(log, c), k) \in Places(log, c)
                 /\ Logged(log, c)[k] = log[Nth(Places(log, c), k)].msg
           /\ c \in Grouped(log) => Logged(log, c) # <<>>
<1> DEFINE P == Places(log, c)
           h == [k \in 1 .. Cardinality(P) |-> log[Nth(P, k)].msg]
<1>1. Len(log) \in Nat /\ DOMAIN log = 1 .. Len(log) /\ \A i \in 1 .. Len(log) : log[i] \in Entry
      BY LenProperties, ElementOfSeq
<1>2. P \subseteq 1 .. Len(log)
      BY <1>1 DEF Places
<1>3. Logged(log, c) = h
      BY DEF Logged, Places, Nth, Rank
<1>4. IsFiniteSet(P) /\ Cardinality(P) \in Nat
      BY <1>1, <1>2, PlacesFinite
<1>5. \A k \in 1 .. Cardinality(P) : Nth(P, k) \in P
      BY <1>1, <1>2, NthIs
<1>6. \A k \in 1 .. Cardinality(P) : log[Nth(P, k)].msg \in Message
      BY <1>1, <1>2, <1>5 DEF Entry
<1>7. ASSUME c \in Grouped(log) PROVE Cardinality(P) # 0
  <2>1. \E i \in DOMAIN log : i \in P
        BY <1>7 DEF Grouped, Places
  <2> QED BY <2>1, <1>4, FS_EmptySet
<1> HIDE DEF P
<1>8. h \in Seq(Message)
  <2>1. h \in [1 .. Cardinality(P) -> Message]
        BY <1>6
  <2> QED BY <2>1, <1>4, SeqDef
<1>9. Len(h) = Cardinality(P) /\ \A k \in 1 .. Cardinality(P) : h[k] = log[Nth(P, k)].msg
      BY <1>4, <1>8, LenProperties
<1> HIDE DEF h
<1>10. Len(<<>>) = 0
      BY EmptySeq
<1> QED BY <1>2, <1>3, <1>5, <1>7, <1>8, <1>9, <1>10 DEF P

Labelled(es, d) == \A i \in 1 .. Len(es) : es[i].label = d

\* Entries of one label, appended to a log, are appended to the group of that label.
LEMMA LoggedMore ==
    ASSUME NEW log \in Seq(Entry), NEW es \in Seq(Entry), NEW d, NEW c,
           Labelled(es, d)
    PROVE  /\ c # d => Logged(log \o es, c) = Logged(log, c)
           /\ c = d =>
                /\ Len(Logged(log \o es, c)) = Len(Logged(log, c)) + Len(es)
                /\ \A k \in 1 .. Len(Logged(log, c)) : Logged(log \o es, c)[k] = Logged(log, c)[k]
                /\ \A k \in 1 .. Len(es) :
                      Logged(log \o es, c)[Len(Logged(log, c)) + k] = es[k].msg
<1> DEFINE all == log \o es
           n == Len(log)
           m == Len(es)
           P == Places(log, c)
           Q == Places(all, c)
<1>1. n \in Nat /\ m \in Nat
      BY LenProperties
<1>2. /\ all \in Seq(Entry) /\ Len(all) = n + m
      /\ \A i \in 1 .. n : all[i] = log[i]
      /\ \A i \in 1 .. m : all[n + i] = es[i]
  <2>1. /\ all \in Seq(Entry) /\ Len(all) = n + m
        /\ \A i \in 1 .. n + m : all[i] = IF i <= n THEN log[i] ELSE es[i - n]
        BY ConcatProperties
  <2> HIDE DEF all, n, m
  <2> QED BY <2>1, <1>1
<1>3. DOMAIN log = 1 .. n /\ DOMAIN all = 1 .. n + m
      BY <1>2, LenProperties
<1> HIDE DEF all, n, m
<1>4. \A i \in 1 .. n + m : i \in 1 .. n \/ \E j \in 1 .. m : i = n + j
  <2> SUFFICES ASSUME NEW i \in 1 .. n + m, i \notin 1 .. n
               PROVE  \E j \in 1 .. m : i = n + j
      OBVIOUS
  <2>1. i - n \in 1 .. m /\ i = n + (i - n)
        BY <1>1
  <2> QED BY <2>1
<1>5. P = {i \in 1 .. n : log[i].label = c} /\ Q = {i \in 1 .. n + m : all[i].label = c}
      BY <1>3 DEF Places
<1>6. P \subseteq 1 .. n /\ Q \subseteq 1 .. n + m /\ n + m \in Nat
      BY <1>1, <1>5
<1>7. /\ Logged(log, c) \in Seq(Message) /\ Len(Logged(log, c)) = Cardinality(P)
      /\ \A k \in 1 .. Cardinality(P) : Logged(log, c)[k] = log[Nth(P, k)].msg
      BY LoggedIs
<1>8. /\ Logged(all, c) \in Seq(Message) /\ Len(Logged(all, c)) = Cardinality(Q)
      /\ \A k \in 1 .. Cardinality(Q) : Logged(all, c)[k] = all[Nth(Q, k)].msg
      BY <1>2, LoggedIs
<1>9. IsFiniteSet(P) /\ Cardinality(P) \in Nat /\ Cardinality(Q) \in Nat
      BY <1>1, <1>6, PlacesFinite
<1>10. ASSUME c # d PROVE Logged(all, c) = Logged(log, c)
  <2>1. \A i \in 1 .. n + m : i \in Q <=> i \in P
    <3>1. \A i \in 1 .. n : i \in 1 .. n + m /\ all[i] = log[i]
          BY <1>1, <1>2
    <3>2. \A j \in 1 .. m : all[n + j].label # c /\ n + j \notin 1 .. n
          BY <1>1, <1>2, <1>10 DEF m, Labelled
    <3> QED BY <3>1, <3>2, <1>4, <1>5
  <2>2. \A i \in P : i \in 1 .. n + m
        BY <1>1, <1>6
  <2>3. Q = P
        BY <2>1, <2>2, <1>6
  <2>4. \A k \in 1 .. Cardinality(P) : Nth(P, k) \in P
        BY <1>1, <1>6, NthIs
  <2>5. \A k \in 1 .. Cardinality(P) : Logged(all, c)[k] = Logged(log, c)[k]
        BY <2>3, <2>4, <1>2, <1>6, <1>7, <1>8
  <2> QED BY <2>3, <2>5, <1>7, <1>8, SeqEqual
<1>11. ASSUME c = d
       PROVE  /\ Len(Logged(all, c)) = Len(Logged(log, c)) + m
              /\ \A k \in 1 .. Len(Logged(log, c)) : Logged(all, c)[k] = Logged(log, c)[k]
              /\ \A k \in 1 .. m : Logged(all, c)[Len(Logged(log, c)) + k] = es[k].msg
  <2>1. \A j \in 1 .. m : n + j \in Q
    <3>1. \A j \in 1 .. m : n + j \in 1 .. n + m
          BY <1>1
    <3> QED BY <3>1, <1>2, <1>5, <1>11 DEF m, Labelled
  <2>2. \A i \in 1 .. n : i \in Q <=> i \in P
    <3>1. \A i \in 1 .. n : i \in 1 .. n + m /\ all[i] = log[i]
          BY <1>1, <1>2
    <3> QED BY <3>1, <1>5
  <2>3. ASSUME NEW k \in 0 .. m
        PROVE  /\ {i \in Q : i <= n + k} = P \cup (n + 1 .. n + k)
               /\ IsFiniteSet(P \cup (n + 1 .. n + k))
               /\ Cardinality(P \cup (n + 1 .. n + k)) = Cardinality(P) + k
    <3>1. \A i \in Q : i <= n + k => i \in P \/ i \in n + 1 .. n + k
      <4> SUFFICES ASSUME NEW i \in Q, i <= n + k
                   PROVE  i \in P \/ i \in n + 1 .. n + k
          OBVIOUS
      <4>1. i \in 1 .. n + m
            BY <1>6
      <4>2. CASE i \in 1 .. n
            BY <4>2, <2>2
      <4>3. CASE i \notin 1 .. n
            BY <4>1, <4>3, <1>1
      <4> QED BY <4>2, <4>3
    <3>2. \A i \in P : i \in Q /\ i <= n + k
      <4>1. \A i \in P : i \in 1 .. n
            BY <1>6
      <4>2. \A i \in 1 .. n : i <= n + k
            BY <1>1
      <4> QED BY <4>1, <4>2, <2>2
    <3>3. \A i \in n + 1 .. n + k : i \in Q /\ i <= n + k
      <4> SUFFICES ASSUME NEW i \in n + 1 .. n + k PROVE i \in Q /\ i <= n + k
          OBVIOUS
      <4>1. i - n \in 1 .. m /\ i = n + (i - n) /\ i <= n + k
            BY <1>1
      <4> QED BY <4>1, <2>1
    <3>4. {i \in Q : i <= n + k} = P \cup (n + 1 .. n + k)
      <4> DEFINE T == n + 1 .. n + k
      <4>1. ASSUME NEW i \in Q, i <= n + k PROVE i \in P \/ i \in T
            BY <4>1, <3>1
      <4>2. \A i \in T : i \in Q /\ i <= n + k
            BY <3>3
      <4> HIDE DEF T
      <4>3. {i \in Q : i <= n + k} \subseteq P \cup T
            BY <4>1
      <4>4. P \cup T \subseteq {i \in Q : i <= n + k}
            BY <4>2, <3>2
      <4>5. {i \in Q : i <= n + k} = P \cup T
            BY <4>3, <4>4
      <4> QED BY <4>5 DEF T
    <3>5. IsFiniteSet(n + 1 .. n + k) /\ Cardinality(n + 1 .. n + k) = k
      <4>1. n + 1 \in Int /\ n + k \in Int /\ (n + 1 > n + k => k = 0)
            /\ (n + k) - (n + 1) + 1 = k
            BY <1>1
      <4>2. /\ IsFiniteSet(n + 1 .. n + k)
            /\ Cardinality(n + 1 .. n + k) = IF n + 1 > n + k THEN 0 ELSE (n + k) - (n + 1) + 1
            BY <4>1, FS_Interval
      <4> QED BY <4>1, <4>2
    <3>6. P \cap (n + 1 .. n + k) = {}
      <4>1. \A i \in 1 .. n : i \notin n + 1 .. n + k
            BY <1>1
      <4> QED BY <4>1, <1>6
    <3>7. Cardinality({}) = 0
          BY FS_EmptySet
    <3>8. /\ IsFiniteSet(P \cup (n + 1 .. n + k))
          /\ Cardinality(P \cup (n + 1 .. n + k)) = Cardinality(P) + k - 0
      <4> DEFINE T == n + 1 .. n + k
      <4>1. IsFiniteSet(T) /\ Cardinality(T) = k /\ Cardinality(P \cap T) = 0
            BY <3>5, <3>6, <3>7
      <4> HIDE DEF T
      <4>2. /\ IsFiniteSet(P \cup T)
            /\ Cardinality(P \cup T) = Cardinality(P) + Cardinality(T) - Cardinality(P \cap T)
            BY <4>1, <1>9, FS_Union
      <4> QED BY <4>1, <4>2 DEF T
    <3>9. Cardinality(P) + k - 0 = Cardinality(P) + k
          BY <1>9
    <3> QED BY <3>4, <3>8, <3>9
  <2>4. Cardinality(Q) = Cardinality(P) + m
    <3>1. {i \in Q : i <= n + m} = Q /\ m \in 0 .. m
          BY <1>1, <1>6
    <3> QED BY <3>1, <2>3
  <2>5. ASSUME NEW k \in 1 .. m PROVE Nth(Q, Cardinality(P) + k) = n + k
    <3>1. Rank(Q, n + k) = Cardinality(P) + k
      <4>1. k \in 0 .. m
            BY <1>1
      <4> QED BY <4>1, <2>3 DEF Rank
    <3>2. n + k \in Q
          BY <2>1
    <3>3. Cardinality(P) + k \in 1 .. Cardinality(Q)
          BY <2>4, <1>1, <1>9
    <3> QED BY <3>1, <3>2, <3>3, <1>6, NthIs
  <2>6. ASSUME NEW k \in 1 .. Cardinality(P) PROVE Nth(Q, k) = Nth(P, k) /\ Nth(P, k) \in 1 .. n
    <3> DEFINE i == Nth(P, k)
    <3>1. i \in P /\ Rank(P, i) = k
          BY <1>1, <1>6, NthIs
    <3>2. i \in 1 .. n /\ i \in Q
          BY <3>1, <1>6, <2>2
    <3> HIDE DEF i
    <3>3. {j \in Q : j <= i} = {j \in P : j <= i}
      <4>1. \A j \in Q : j <= i => j \in 1 .. n
        <5>1. \A j \in 1 .. n + m : j <= i => j \in 1 .. n
              BY <3>2, <1>1
        <5> QED BY <5>1, <1>6
      <4>2. \A j \in P : j \in 1 .. n
            BY <1>6
      <4> QED BY <4>1, <4>2, <2>2
    <3>4. Rank(Q, i) = k
          BY <3>1, <3>3 DEF Rank
    <3>5. k \in 1 .. Cardinality(Q)
          BY <2>4, <1>1, <1>9
    <3>6. i = Nth(Q, k)
          BY <3>2, <3>4, <3>5, <1>6, NthIs
    <3> QED BY <3>2, <3>6 DEF i
  <2>7. \A k \in 1 .. Cardinality(P) : k \in 1 .. Cardinality(Q)
        BY <2>4, <1>1, <1>9
  <2>8. \A k \in 1 .. m : Cardinality(P) + k \in 1 .. Cardinality(Q)
        BY <2>4, <1>1, <1>9
  <2>9. \A k \in 1 .. Cardinality(P) : Logged(all, c)[k] = Logged(log, c)[k]
        BY <2>6, <2>7, <1>2, <1>7, <1>8
  <2>10. \A k \in 1 .. m : Logged(all, c)[Cardinality(P) + k] = es[k].msg
        BY <2>5, <2>8, <1>2, <1>8
  <2> QED BY <2>4, <2>9, <2>10, <1>7, <1>8
<1> QED BY <1>10, <1>11 DEF all, m

-----------------------------------------------------------------------------
(* Resuming a log *)

LEMMA FineLess ==
    ASSUME NEW h, NEW c, NEW n \in Nat, NEW k \in Nat, NEW C, k <= n,
           Len(h) \in Nat, Fine(h, c, n, C)
    PROVE  Fine(h, c, k, C)
<1>1. k <= Len(h) /\ \A i \in 1 .. k : i \in 1 .. n
      BY DEF Fine, Booted
<1> QED BY <1>1 DEF Fine, Booted

LEMMA HotInIs ==
    ASSUME NEW h \in Seq(Message)
    PROVE  HotIn(h) \in SUBSET Ctx
<1>1. \A i \in DOMAIN h : h[i] \in Message
      BY LenProperties, ElementOfSeq
<1> QED BY <1>1 DEF HotIn, Items, Message

\* Restored messages begin with the system prompt; those that begin with the bootstrap are
\* restored as they are.
LEMMA ForcedFine ==
    ASSUME NEW h \in Seq(Message)
    PROVE  /\ Forced(h) \in Seq(Message) /\ Forced(h) # <<>>
           /\ \A c \in Ctx : \A C : (\A i \in 1 .. Len(h) : Own(h[i], c, C)) => Fine(Forced(h), c, 1, C)
           /\ \A n \in Nat : \A c, C : n >= 1 /\ Fine(h, c, n, C) => Fine(Forced(h), c, n, C)
<1>1. Sys \in Message /\ Sys.kind = "sys" /\ \A c \in Ctx : \A C : Own(Sys, c, C)
  <2>1. Main \in Ctx /\ "sys" \in Kind /\ 1 \in Nat /\ 0 \in Nat
        BY DEF Ctx, Kind
  <2> QED BY <2>1, MsgIs, BootMsgIs DEF Sys, BootMsg
<1>2. Len(h) \in Nat /\ \A i \in 1 .. Len(h) : h[i] \in Message
      BY LenProperties, ElementOfSeq
<1>3. CASE h # <<>> /\ Head(h).kind = "sys"
  <2>1. Forced(h) = h
        BY <1>3 DEF Forced
  <2>2. 1 <= Len(h)
        BY <1>3, EmptySeq
  <2>3. Head(h) = h[1]
        BY <1>3
  <2>4. ASSUME NEW c \in Ctx, NEW C, \A i \in 1 .. Len(h) : Own(h[i], c, C)
        PROVE  Fine(h, c, 1, C)
    <3>1. 1 \in 1 .. Len(h) /\ \A i \in 1 .. 1 : i = 1
          BY <1>2, <2>2
    <3>2. h[1] = Sys
          BY <1>3, <2>3, <2>4, <3>1 DEF Own
    <3> QED BY <2>2, <2>4, <3>1, <3>2 DEF Fine, Booted, BootMsg
  <2> QED BY <1>3, <2>1, <2>4
<1>4. CASE ~ (h # <<>> /\ Head(h).kind = "sys")
  <2> DEFINE g == <<Sys>> \o h
  <2>1. Forced(h) = g
        BY <1>4 DEF Forced
  <2>2. <<Sys>> \in Seq(Message) /\ Len(<<Sys>>) = 1 /\ <<Sys>>[1] = Sys
        BY <1>1
  <2>3. /\ g \in Seq(Message) /\ Len(g) = 1 + Len(h)
        /\ \A i \in 1 .. 1 + Len(h) : g[i] = IF i <= 1 THEN <<Sys>>[i] ELSE h[i - 1]
        BY <2>2, ConcatProperties
  <2> HIDE DEF g
  <2>4. g # <<>>
    <3>1. Len(<<>>) = 0
          BY EmptySeq
    <3> QED BY <3>1, <2>3, <1>2
  <2>5. g[1] = Sys /\ \A i \in 2 .. Len(g) : i - 1 \in 1 .. Len(h) /\ g[i] = h[i - 1]
        BY <1>2, <2>2, <2>3
  <2>6. ASSUME NEW c \in Ctx, NEW C, \A i \in 1 .. Len(h) : Own(h[i], c, C)
        PROVE  Fine(g, c, 1, C)
    <3>1. \A i \in 1 .. Len(g) : i = 1 \/ i \in 2 .. Len(g)
          BY <1>2, <2>3
    <3>2. \A i \in 1 .. Len(g) : Own(g[i], c, C)
          BY <3>1, <2>5, <2>6, <1>1
    <3>3. Booted(g, 1)
      <4>1. 1 <= Len(g) /\ \A i \in 1 .. 1 : i = 1
            BY <1>2, <2>3
      <4> QED BY <4>1, <2>5 DEF Booted, BootMsg
    <3> QED BY <3>2, <3>3 DEF Fine
  <2>7. ASSUME NEW n \in Nat, NEW c, NEW C, n >= 1, Fine(h, c, n, C)
        PROVE  FALSE
    <3>1. h[1] = Sys /\ 1 <= Len(h)
      <4>1. 1 \in 1 .. n /\ n <= Len(h)
            BY <2>7 DEF Fine, Booted
      <4> QED BY <4>1, <2>7, <1>2 DEF Fine, Booted, BootMsg
    <3>2. h # <<>>
      <4>1. Len(<<>>) = 0
            BY EmptySeq
      <4> QED BY <4>1, <3>1
    <3>3. Head(h) = h[1]
          BY <3>2
    <3> QED BY <3>1, <3>2, <3>3, <1>1, <1>4
  <2> QED BY <2>1, <2>3, <2>4, <2>6, <2>7
<1> QED BY <1>3, <1>4

\* The group of #main in the current context.
LEMMA RestoredFine ==
    ASSUME NEW a, NEW h \in Seq(Message), NEW k \in Nat, Live(a)
    PROVE  LET b == [RestoreMessages(a, h) EXCEPT !.saved[Main] = k] IN
           /\ Live(b)
           /\ b.boot = 1 /\ b.base = a.base
           /\ b.cur = a.cur /\ b.scope = a.scope
           /\ b.saved = [a.saved EXCEPT ![Main] = k]
           /\ \A C : AgentFine(a, C) /\ (\A i \in 1 .. Len(h) : Own(h[i], a.cur, C)) => AgentFine(b, C)
<1> DEFINE f == Forced(h)
           b == [RestoreMessages(a, h) EXCEPT !.saved[Main] = k]
<1>a. /\ a \in AgentState /\ a.cur \in Ctx /\ a.boot \in Nat /\ a.boot >= 1
      /\ a.of \in [Ctx -> Seq(Message)] /\ a.saved \in [Ctx -> Nat]
      BY AgentIs DEF Live
<1>1. /\ f \in Seq(Message) /\ f # <<>>
      /\ \A c \in Ctx : \A C : (\A i \in 1 .. Len(h) : Own(h[i], c, C)) => Fine(f, c, 1, C)
      BY ForcedFine
<1>2. HotIn(h) \in SUBSET Ctx
      BY HotInIs
<1> DEFINE r == RestoreMessages(a, h)
           s == HotIn(h)
<1>3. r = [a EXCEPT !.msgs = f, !.of[a.cur] = f, !.boot = 1, !.injected = s]
      BY DEF RestoreMessages
<1>5. b = [r EXCEPT !.saved[Main] = k]
      OBVIOUS
<1> HIDE DEF f, r, s, b
<1>4. /\ r \in AgentState
      /\ r.msgs = f /\ r.of = [a.of EXCEPT ![a.cur] = f] /\ r.boot = 1 /\ r.base = a.base
      /\ r.cur = a.cur /\ r.scope = a.scope /\ r.saved = a.saved
  <2>1. s \in SUBSET Ctx /\ 1 \in Nat
        BY <1>2 DEF s
  <2> QED BY <2>1, <1>1, <1>3, <1>a DEF AgentState
<1>6. /\ b \in AgentState
      /\ b.msgs = f /\ b.of = [a.of EXCEPT ![a.cur] = f] /\ b.boot = 1 /\ b.base = a.base
      /\ b.cur = a.cur /\ b.scope = a.scope /\ b.saved = [a.saved EXCEPT ![Main] = k]
      BY <1>4, <1>5 DEF AgentState
<1>7. \A d \in Ctx : b.of[d] = IF d = a.cur THEN f ELSE a.of[d]
      BY <1>6, <1>a
<1>8. Live(b)
      BY <1>1, <1>6, <1>7, <1>a DEF Live
<1>9. ASSUME NEW C, AgentFine(a, C), \A i \in 1 .. Len(h) : Own(h[i], a.cur, C)
      PROVE  AgentFine(b, C)
  <2>1. Fine(f, a.cur, 1, C)
        BY <1>1, <1>9, <1>a
  <2>2. ASSUME NEW d \in Ctx, a.of[d] # <<>> PROVE Fine(a.of[d], d, 1, C)
    <3>1. Fine(a.of[d], d, a.boot, C) /\ Len(a.of[d]) \in Nat
          BY <1>9, <2>2, <1>a, LenProperties DEF AgentFine
    <3> QED BY <3>1, <1>a, FineLess
  <2> QED BY <2>1, <2>2, <1>6, <1>7 DEF AgentFine
<1> QED BY <1>6, <1>8, <1>9 DEF b

LEMMA ResumedFine ==
    ASSUME NEW a, NEW log \in Seq(Entry), Live(a)
    PROVE  LET b == Resumed(a, log) IN
           /\ Live(b)
           /\ b.base = a.base /\ b.cur = a.cur /\ b.scope = a.scope
           /\ b.boot # a.boot => Main \in Grouped(log)
           /\ \A c \in Ctx : a.saved[c] = 0 /\ b.saved[c] > 0 => c \in Grouped(log)
           /\ \A C :
                 /\ a.cur = Main
                 /\ AgentFine(a, C)
                 /\ \A i \in 1 .. Len(log) : Own(log[i].msg, log[i].label, C)
                 /\ Main \notin Grouped(log) =>
                       \A c \in Ctx \cap Grouped(log) : Booted(Logged(log, c), a.boot)
                 => AgentFine(b, C)
<1> DEFINE G == Grouped(log)
           R == G \ {Main}
           L(c) == Logged(log, c)
           m == IF Main \in G
                THEN [RestoreMessages(a, L(Main)) EXCEPT !.saved[Main] = Len(L(Main))]
                ELSE a
           b == Resumed(a, log)
           J == UNION {HotIn(L(c)) : c \in R}
<1>a. /\ a \in AgentState /\ a.cur \in Ctx /\ a.boot \in Nat /\ a.boot >= 1
      /\ a.of \in [Ctx -> Seq(Message)] /\ a.saved \in [Ctx -> Nat] /\ Main \in Ctx
      BY AgentIs DEF Live, Ctx
<1>1. /\ \A c : L(c) \in Seq(Message) /\ Len(L(c)) \in Nat
      /\ \A c \in G : L(c) # <<>>
      BY LoggedIs, LenProperties
<1>2. \A c, C : (\A i \in 1 .. Len(log) : Own(log[i].msg, log[i].label, C))
                => \A k \in 1 .. Len(L(c)) : Own(L(c)[k], c, C)
  <2> SUFFICES ASSUME NEW c, NEW C, NEW k \in 1 .. Len(L(c)),
                      \A i \in 1 .. Len(log) : Own(log[i].msg, log[i].label, C)
               PROVE  Own(L(c)[k], c, C)
      OBVIOUS
  <2> DEFINE i == Nth(Places(log, c), k)
  <2>1. i \in Places(log, c) /\ L(c)[k] = log[i].msg /\ Places(log, c) \subseteq 1 .. Len(log)
        BY LoggedIs
  <2>2. i \in 1 .. Len(log) /\ log[i].label = c
        BY <2>1 DEF Places
  <2> QED BY <2>1, <2>2
<1>3. /\ Live(m)
      /\ m.base = a.base /\ m.cur = a.cur /\ m.scope = a.scope
      /\ m.boot = IF Main \in G THEN 1 ELSE a.boot
      /\ \A c \in Ctx : m.saved[c] = IF c = Main /\ Main \in G THEN Len(L(Main)) ELSE a.saved[c]
      /\ \A C : /\ a.cur = Main /\ AgentFine(a, C)
                /\ Main \in G => \A k \in 1 .. Len(L(Main)) : Own(L(Main)[k], Main, C)
                => AgentFine(m, C)
  <2>1. CASE Main \notin G
    <3>1. m = a
          BY <2>1
    <3> QED BY <2>1, <3>1
  <2>2. CASE Main \in G
    <3> DEFINE r == [RestoreMessages(a, L(Main)) EXCEPT !.saved[Main] = Len(L(Main))]
    <3>1. m = r
          BY <2>2
    <3>2. /\ Live(r)
          /\ r.boot = 1 /\ r.base = a.base
          /\ r.cur = a.cur /\ r.scope = a.scope
          /\ r.saved = [a.saved EXCEPT ![Main] = Len(L(Main))]
          /\ \A C : AgentFine(a, C) /\ (\A k \in 1 .. Len(L(Main)) : Own(L(Main)[k], a.cur, C))
                       => AgentFine(r, C)
          BY <1>1, RestoredFine
    <3> HIDE DEF r, m, L
    <3>3. \A c \in Ctx : r.saved[c] = IF c = Main THEN Len(L(Main)) ELSE a.saved[c]
          BY <3>2, <1>a
    <3> QED BY <2>2, <3>1, <3>2, <3>3
  <2> QED BY <2>1, <2>2
<1> DEFINE of == [c \in Ctx |-> IF c \in R THEN Forced(L(c)) ELSE m.of[c]]
           saved == [c \in Ctx |-> IF c \in R THEN Len(L(c)) ELSE m.saved[c]]
<1>4. b = [m EXCEPT !.of = of, !.saved = saved, !.injected = @ \cup J]
      BY DEF Resumed
<1>5. J \in SUBSET Ctx
      BY <1>1, HotInIs
<1> HIDE DEF m, b, J, L, G
<1>b. /\ m \in AgentState /\ m.cur \in Ctx /\ m.of \in [Ctx -> Seq(Message)]
      /\ m.saved \in [Ctx -> Nat] /\ m.boot \in Nat /\ m.injected \in SUBSET Ctx
      BY <1>3, AgentIs DEF Live
<1>6. of \in [Ctx -> Seq(Message)] /\ saved \in [Ctx -> Nat]
      BY <1>1, <1>b, ForcedFine
<1>c. /\ \A c \in Ctx : of[c] = IF c \in R THEN Forced(L(c)) ELSE m.of[c]
      /\ \A c \in Ctx : saved[c] = IF c \in R THEN Len(L(c)) ELSE m.saved[c]
      OBVIOUS
<1> HIDE DEF of, saved
<1>7. /\ b \in AgentState
      /\ b.msgs = m.msgs /\ b.of = of /\ b.saved = saved /\ b.boot = m.boot
      /\ b.base = m.base /\ b.cur = m.cur /\ b.scope = m.scope
      BY <1>4, <1>5, <1>6, <1>b DEF AgentState
<1>8. Live(b)
  <2>1. of[m.cur] # <<>>
        BY <1>1, <1>3, <1>b, <1>c, ForcedFine DEF Live
  <2> QED BY <2>1, <1>3, <1>7 DEF Live
<1>9. b.boot # a.boot => Main \in G
      BY <1>3, <1>7
<1>10. \A c \in Ctx : a.saved[c] = 0 /\ b.saved[c] > 0 => c \in G
  <2> SUFFICES ASSUME NEW c \in Ctx, a.saved[c] = 0, b.saved[c] > 0, c \notin G
               PROVE  FALSE
      OBVIOUS
  <2>1. b.saved[c] = m.saved[c] /\ m.saved[c] = a.saved[c]
        BY <1>3, <1>7, <1>c
  <2> QED BY <2>1
<1>11. ASSUME NEW C, a.cur = Main, AgentFine(a, C),
              \A i \in 1 .. Len(log) : Own(log[i].msg, log[i].label, C),
              Main \notin G => \A c \in Ctx \cap G : Booted(L(c), a.boot)
       PROVE  AgentFine(b, C)
  <2>1. \A c : \A k \in 1 .. Len(L(c)) : Own(L(c)[k], c, C)
        BY <1>2, <1>11 DEF L
  <2>2. AgentFine(m, C)
        BY <2>1, <1>3, <1>11
  <2>3. ASSUME NEW c \in Ctx, c \in R PROVE Fine(Forced(L(c)), c, b.boot, C)
    <3>1. CASE Main \in G
      <4>1. b.boot = 1
            BY <3>1, <1>3, <1>7
      <4> QED BY <4>1, <2>1, <1>1, ForcedFine
    <3>2. CASE Main \notin G
      <4>1. b.boot = a.boot
            BY <3>2, <1>3, <1>7
      <4>2. Fine(L(c), c, a.boot, C)
            BY <3>2, <2>1, <2>3, <1>11 DEF Fine
      <4> QED BY <4>1, <4>2, <1>1, <1>a, ForcedFine
    <3> QED BY <3>1, <3>2
  <2>4. ASSUME NEW c \in Ctx, b.of[c] # <<>> PROVE Fine(b.of[c], c, b.boot, C)
        BY <2>2, <2>3, <2>4, <1>7, <1>c DEF AgentFine
  <2> QED BY <2>2, <2>4, <1>7 DEF AgentFine
<1> QED BY <1>3, <1>7, <1>8, <1>9, <1>10, <1>11 DEF b, G, L

-----------------------------------------------------------------------------
(* The inductive invariant *)

\* A goroutine that may still append is that of the turn that streams, in the turn's context,
\* or its turn was cancelled.
Pending ==
    /\ turn # NoTurn => home[turn] = turnCtx
    /\ \A t \in Turn : phase[t] \in {"born", "run"} => t = turn \/ t \in cancelled

LogsOwn == \A s \in DOMAIN logs : \A i \in 1 .. Len(logs[s]) :
               Own(logs[s][i].msg, logs[s][i].label, cancelled)

\* Why a resumed history begins with what the agent counts: RestoreMessages counts one message,
\* and without a group of #main each group of the log begins with the whole bootstrap, since
\* its context had no watermark when its first entries were logged.
LogsBooted ==
    /\ \A s \in DOMAIN logs, c \in Ctx :
          Main \notin Grouped(logs[s]) /\ c \in Grouped(logs[s])
             => Booted(Logged(logs[s], c), ag.base + 1)
    /\ \A c \in Ctx : ag.saved[c] > 0 => c \in Grouped(logs[sess])
    /\ ag.boot # ag.base + 1 => Main \in Grouped(logs[sess])

Tame == Unless({"bare", "resume"}) /\ BootIsLogged
Straight == Unless({"bare", "resume", "compact"})

ContextIInv ==
    /\ TypeOK
    /\ Live(ag)
    /\ TurnOwnsContext
    /\ Pending
    /\ Tame => AgentFine(ag, cancelled) /\ LogsOwn
    /\ Straight => LogsBooted

-----------------------------------------------------------------------------
(* The initial states *)

\* A start fits the invariant.
LEMMA ContextInit == Init => ContextIInv
<1> SUFFICES ASSUME Init PROVE ContextIInv
    OBVIOUS
<1>1. PICK b \in Boots, f \in StartFocus :
        /\ ag = SetScope(NewAgent(b, f), f)
        /\ focus = f
        /\ met = IF f = Main THEN {} ELSE {"elsewhere"}
      BY DEF Init
<1>2. /\ turn = NoTurn /\ turnCtx = Main /\ phase = [t \in Turn |-> "none"]
      /\ turns = 0 /\ logs = <<<<>>>> /\ sess = 1 /\ notes = 0 /\ launches = 0
      /\ home = [t \in Turn |-> Main]
      /\ cancelled = {} /\ answered = {} /\ finished = {} /\ noted = {}
      BY DEF Init
<1>3. b \in Nat /\ f \in Ctx /\ Main \in Ctx
      BY ContextAssumption DEF Ctx
<1> DEFINE n == NewAgent(b, f)
<1>4. /\ Live(n) /\ n.boot = b + 1 /\ n.base = b
      /\ \A d \in Ctx : n.saved[d] = 0
      /\ \A C : AgentFine(n, C)
      BY <1>3, NewAgentFine
<1>5. ag = SetScope(n, f)
      BY <1>1
<1> HIDE DEF n
<1>6. /\ Live(ag) /\ Kept(n, ag) /\ ag.saved = n.saved
      /\ \A C : AgentFine(ag, C)
      BY <1>3, <1>4, <1>5, SetScopeFine
<1>7. logs \in Seq(Seq(Entry)) /\ DOMAIN logs = 1 .. 1 /\ logs[1] = <<>>
  <2>1. <<>> \in Seq(Entry)
        BY EmptySeq
  <2>2. <<<<>>>> \in Seq(Seq(Entry)) /\ Len(<<<<>>>>) = 1 /\ <<<<>>>>[1] = <<>>
        BY <2>1
  <2> QED BY <2>2, <1>2, LenProperties
<1>8. TypeOK
  <2>1. ag \in AgentState /\ focus \in Ctx /\ turnCtx \in Ctx
        BY <1>1, <1>2, <1>3, <1>6 DEF Live
  <2>2. phase \in [Turn -> Phase] /\ home \in [Turn -> Ctx]
        BY <1>2, <1>3 DEF Phase
  <2>3. turns \in 0 .. MaxTurns /\ notes \in Nat /\ launches \in Nat
        BY <1>2, ContextAssumption
  <2>4. met \subseteq {"elsewhere", "bare", "note", "race", "compact", "resume"}
        BY <1>1
  <2>5. sess \in DOMAIN logs
        BY <1>2, <1>7
  <2> QED BY <1>2, <1>7, <2>1, <2>2, <2>3, <2>4, <2>5 DEF TypeOK
<1>9. TurnOwnsContext /\ Pending
      BY <1>2 DEF TurnOwnsContext, Pending
<1>10. LogsOwn
  <2>1. Len(<<>>) = 0
        BY EmptySeq
  <2>2. \A s \in DOMAIN logs : logs[s] = <<>>
        BY <1>7
  <2> QED BY <2>1, <2>2 DEF LogsOwn
<1>11. LogsBooted
  <2>1. \A s \in DOMAIN logs : Grouped(logs[s]) = {}
        BY <1>7 DEF Grouped
  <2>2. ag.boot = ag.base + 1 /\ \A d \in Ctx : ag.saved[d] = 0
        BY <1>4, <1>6 DEF Kept
  <2> QED BY <2>1, <2>2 DEF LogsBooted
<1> QED BY <1>6, <1>8, <1>9, <1>10, <1>11 DEF ContextIInv

-----------------------------------------------------------------------------
(* What every step keeps *)

LEMMA OnlyMore ==
    ASSUME TypeOK, Next
    PROVE  /\ met \subseteq met' /\ cancelled \subseteq cancelled'
           /\ launches' = launches \/ launches' = launches + 1
           /\ Tame' => Tame
           /\ Straight' => Straight
<1>1. /\ met \subseteq met' /\ cancelled \subseteq cancelled'
      /\ launches' = launches \/ launches' = launches + 1
  <2>1. ASSUME NEW t \in Turn, Goroutine(t) PROVE UNCHANGED <<met, cancelled, launches>>
        BY <2>1 DEF Goroutine, Reject, Begin, Reply, Fail, Release
  <2>2. ASSUME NEW t \in Turn, RacingNote(t)
        PROVE  met \subseteq met' /\ UNCHANGED <<cancelled, launches>>
        BY <2>2 DEF RacingNote
  <2>3. CASE Send \/ Done \/ Fork
        BY <2>3 DEF Send, Done, Fork
  <2>4. CASE Cancel
        BY <2>4 DEF Cancel
  <2>5. ASSUME NEW c \in Ctx, Focus(c) PROVE UNCHANGED <<met, cancelled, launches>>
        BY <2>5 DEF Focus
  <2>6. ASSUME NEW c \in Ctx, Note(c)
        PROVE  met \subseteq met' /\ UNCHANGED <<cancelled, launches>>
        BY <2>6 DEF Note
  <2>7. CASE Compact
        BY <2>7 DEF Compact
  <2>8. CASE Restart
        BY <2>8 DEF Restart, Interrupted
  <2>9. CASE Relaunch
        BY <2>9 DEF Relaunch
  <2>10. ASSUME NEW s \in DOMAIN logs, Resume(s)
         PROVE  met \subseteq met' /\ cancelled \subseteq cancelled' /\ launches' = launches + 1
         BY <2>10 DEF Resume, Interrupted
  <2> QED BY <2>1, <2>2, <2>3, <2>4, <2>5, <2>6, <2>7, <2>8, <2>9, <2>10 DEF Next
<1>2. launches \in Nat
      BY DEF TypeOK
<1>3. Tame' => Tame
      BY <1>1, <1>2 DEF Tame, BootIsLogged, Unless
<1>4. Straight' => Straight
      BY <1>1 DEF Straight, Unless
<1> QED BY <1>1, <1>3, <1>4

LEMMA StraightIsTame ==
    /\ Straight => Tame
    /\ Tame /\ launches # 0 => Straight
BY DEF Straight, Tame, BootIsLogged, Unless

\* What a turn appends is its own.
LEMMA TurnMessages ==
    ASSUME TypeOK, TurnOwnsContext, Pending, NEW t \in Turn, phase[t] \in {"born", "run"},
           NEW k \in {"user", "reply"}
    PROVE  /\ Msg(k, home[t], t) \in Message
           /\ Own(Msg(k, home[t], t), ag.cur, cancelled)
<1>1. k \in Kind /\ home[t] \in Ctx /\ t \in Nat /\ t # NoTurn
      BY DEF Kind, TypeOK, Turn, NoTurn
<1>2. LET m == Msg(k, home[t], t) IN m \in Message /\ m.kind = k /\ m.ctx = home[t] /\ m.n = t
      BY <1>1, MsgIs
<1>3. t \in cancelled \/ home[t] = ag.cur
      BY <1>1 DEF Pending, TurnOwnsContext
<1> QED BY <1>2, <1>3 DEF Own, Foreign

LEMMA NoteMessages ==
    ASSUME NEW k \in {"note", "sum"}, NEW c \in Ctx, NEW i \in Nat
    PROVE  /\ Msg(k, c, i) \in Message
           /\ \A C : Own(Msg(k, c, i), c, C)
<1>1. k \in Kind
      BY DEF Kind
<1> QED BY <1>1, MsgIs DEF Own, Foreign

\* The watermark of a turn, and what is new above the old one.
LEMMA SavedFine ==
    ASSUME NEW a, NEW c \in Ctx, Live(a)
    PROVE  LET b == Saved(a, c) IN
           /\ Live(b)
           /\ b.boot = a.boot /\ b.base = a.base /\ b.cur = a.cur /\ b.scope = a.scope
           /\ b.saved = [a.saved EXCEPT ![c] = Len(a.msgs)]
           /\ \A C : AgentFine(a, C) => AgentFine(b, C)
<1> DEFINE b == Saved(a, c)
           n == Len(a.msgs)
<1>1. b = [a EXCEPT !.saved[c] = n]
      BY DEF Saved
<1>2. a \in AgentState /\ n \in Nat /\ a.saved \in [Ctx -> Nat]
      BY AgentIs, LenProperties DEF Live
<1> HIDE DEF b, n
<1>3. /\ b \in AgentState
      /\ b.msgs = a.msgs /\ b.of = a.of /\ b.cur = a.cur /\ b.scope = a.scope
      /\ b.boot = a.boot /\ b.base = a.base /\ b.saved = [a.saved EXCEPT ![c] = n]
      BY <1>1, <1>2 DEF AgentState
<1>4. Live(b) /\ \A C : AgentFine(a, C) => AgentFine(b, C)
      BY <1>3 DEF Live, AgentFine
<1> QED BY <1>3, <1>4 DEF b, n

LEMMA NewEntriesAre ==
    ASSUME NEW a, NEW c \in Ctx, Live(a)
    PROVE  LET es == NewEntries(a, c) IN
           /\ es \in Seq(Entry)
           /\ Len(es) = IF Len(a.msgs) <= a.saved[c] THEN 0 ELSE Len(a.msgs) - a.saved[c]
           /\ \A i \in 1 .. Len(es) :
                 /\ es[i].label = c
                 /\ a.saved[c] + i \in 1 .. Len(a.msgs)
                 /\ es[i].msg = a.msgs[a.saved[c] + i]
<1> DEFINE k == a.saved[c]
           n == Len(a.msgs)
           es == NewEntries(a, c)
<1>1. /\ k \in Nat /\ n \in Nat /\ a.boot \in Nat
      /\ \A i \in 1 .. n : a.msgs[i] \in Message
      BY AgentIs, LenProperties, ElementOfSeq DEF Live
<1>2. CASE n <= k
  <2>1. es = <<>>
        BY <1>2 DEF NewEntries
  <2>2. <<>> \in Seq(Entry) /\ Len(<<>>) = 0
        BY EmptySeq
  <2> QED BY <1>2, <2>1, <2>2
<1>3. CASE ~ (n <= k)
  <2> DEFINE f == [i \in 1 .. n - k |->
                      [msg |-> a.msgs[k + i], label |-> c, boot |-> k + i <= a.boot]]
  <2>1. es = f
        BY <1>3 DEF NewEntries
  <2>2. n - k \in Nat /\ \A i \in 1 .. n - k : k + i \in 1 .. n
        BY <1>1, <1>3
  <2>3. \A i \in 1 .. n - k : [msg |-> a.msgs[k + i], label |-> c, boot |-> k + i <= a.boot] \in Entry
    <3>1. \A i \in 1 .. n - k : a.msgs[k + i] \in Message
          BY <1>1, <2>2
    <3>2. \A i \in 1 .. n - k : (k + i <= a.boot) \in BOOLEAN
          OBVIOUS
    <3> QED BY <3>1, <3>2 DEF Entry
  <2>4. f \in [1 .. n - k -> Entry]
        BY <2>3
  <2>5. f \in Seq(Entry)
    <3> DEFINE w == n - k
    <3>1. w \in Nat /\ f \in [1 .. w -> Entry]
          BY <2>2, <2>4
    <3> HIDE DEF w, f
    <3> QED BY <3>1, SeqDef
  <2>6. Len(f) = n - k
        BY <2>2, <2>4, <2>5, LenProperties
  <2>7. \A i \in 1 .. n - k : f[i].label = c /\ f[i].msg = a.msgs[k + i]
        OBVIOUS
  <2> HIDE DEF f
  <2> QED BY <1>3, <2>1, <2>2, <2>5, <2>6, <2>7
<1> QED BY <1>2, <1>3

-----------------------------------------------------------------------------
(* The steps *)

LEMMA OwnStays ==
    ASSUME NEW m, NEW c, NEW C, NEW D, C \subseteq D, Own(m, c, C)
    PROVE  Own(m, c, D)
BY DEF Own

LEMMA AgentStays ==
    ASSUME NEW a, NEW C, NEW D, C \subseteq D, Live(a), AgentFine(a, C)
    PROVE  AgentFine(a, D)
<1>1. a.boot \in Nat
      BY AgentIs DEF Live
<1> QED BY <1>1, FineStays DEF AgentFine

\* Steps that leave the logs alone.
LEMMA SameLogs ==
    ASSUME ContextIInv, Next, UNCHANGED logs, Live(ag'),
           Tame' => (AgentFine(ag, cancelled) => AgentFine(ag', cancelled))
    PROVE  /\ Tame' => AgentFine(ag', cancelled') /\ LogsOwn'
           /\ Straight' /\ sess' = sess /\ Kept(ag, ag') => LogsBooted'
<1>1. cancelled \subseteq cancelled' /\ (Tame' => Tame) /\ (Straight' => Straight)
      BY OnlyMore DEF ContextIInv
<1>2. ASSUME Tame' PROVE AgentFine(ag', cancelled') /\ LogsOwn'
  <2>1. AgentFine(ag', cancelled) /\ LogsOwn
        BY <1>1, <1>2 DEF ContextIInv
  <2>2. AgentFine(ag', cancelled')
        BY <2>1, <1>1, AgentStays
  <2>3. LogsOwn'
        BY <2>1, <1>1, OwnStays DEF LogsOwn
  <2> QED BY <2>2, <2>3
<1>3. ASSUME Straight', sess' = sess, Kept(ag, ag') PROVE LogsBooted'
      BY <1>1, <1>3 DEF ContextIInv, LogsBooted, Kept
<1> QED BY <1>2, <1>3

\* A goroutine's step: it appends to the current history, or nothing.
LEMMA GoroutineStep ==
    ASSUME ContextIInv, Next, NEW t \in Turn, Goroutine(t) \/ RacingNote(t)
    PROVE  ContextIInv'
<1> USE DEF ContextIInv
<1>1. TypeOK /\ Live(ag) /\ ag.cur \in Ctx
      BY AgentIs DEF Live
<1>2. PICK p \in Phase \ {"none", "born"} : phase' = [phase EXCEPT ![t] = p]
      BY DEF Goroutine, Reject, Begin, Reply, Fail, Release, RacingNote, Phase
<1>3. phase'[t] = "run" => phase[t] = "born"
      BY <1>1, <1>2 DEF Goroutine, Reject, Begin, Reply, Fail, Release, RacingNote, TypeOK
<1>4. UNCHANGED <<focus, turn, turnCtx, turns, logs, sess, launches, home, cancelled, finished>>
      BY DEF Goroutine, Reject, Begin, Reply, Fail, Release, RacingNote
<1>5. notes' \in Nat /\ answered' \subseteq Turn /\ noted' \subseteq Message
      /\ met' \subseteq {"elsewhere", "bare", "note", "race", "compact", "resume"}
  <2>1. CASE Goroutine(t)
        BY <2>1, <1>1 DEF Goroutine, Reject, Begin, Reply, Fail, Release, TypeOK
  <2>2. CASE RacingNote(t)
    <3>1. notes' = notes + 1 /\ noted' = noted \cup {Msg("note", ag.cur, notes')}
          /\ answered' = answered \cup {t} /\ met' = met \cup {"race"}
          BY <2>2 DEF RacingNote
    <3>2. notes' \in Nat
          BY <3>1, <1>1 DEF TypeOK
    <3>3. Msg("note", ag.cur, notes') \in Message
          BY <3>2, <1>1, NoteMessages
    <3> QED BY <3>1, <3>2, <3>3, <1>1 DEF TypeOK
  <2> QED BY <2>1, <2>2
<1>6. /\ Live(ag') /\ Kept(ag, ag') /\ ag'.cur = ag.cur /\ ag'.scope = ag.scope
      /\ AgentFine(ag, cancelled) => AgentFine(ag', cancelled)
  <2>1. CASE ag' = ag
        BY <2>1, <1>1 DEF Kept
  <2>2. ASSUME NEW m \in Message, Own(m, ag.cur, cancelled), ag' = AppendMessage(ag, m)
        PROVE  /\ Live(ag') /\ Kept(ag, ag') /\ ag'.cur = ag.cur /\ ag'.scope = ag.scope
               /\ AgentFine(ag, cancelled) => AgentFine(ag', cancelled)
        BY <2>2, <1>1, AppendMessageFine
  <2>3. CASE Begin(t)
    <3>1. ag' = AppendMessage(ag, Msg("user", home[t], t)) /\ phase[t] \in {"born", "run"}
          BY <2>3 DEF Begin
    <3> QED BY <3>1, <2>2, <1>1, TurnMessages
  <2>4. CASE Reply(t)
    <3>1. ag' = AppendMessage(ag, Msg("reply", home[t], t)) /\ phase[t] \in {"born", "run"}
          BY <2>4 DEF Reply
    <3> QED BY <3>1, <2>2, <1>1, TurnMessages
  <2>5. CASE RacingNote(t)
    <3>1. /\ phase[t] \in {"born", "run"} /\ notes' = notes + 1
          /\ \E m \in {Msg("note", ag.cur, notes'), Msg("reply", home[t], t)} :
                ag' = AppendMessage(ag, m)
          BY <2>5 DEF RacingNote
    <3>2. notes' \in Nat
          BY <1>5
    <3>3. /\ Msg("note", ag.cur, notes') \in Message
          /\ Own(Msg("note", ag.cur, notes'), ag.cur, cancelled)
          BY <3>2, <1>1, NoteMessages
    <3>4. /\ Msg("reply", home[t], t) \in Message
          /\ Own(Msg("reply", home[t], t), ag.cur, cancelled)
          BY <3>1, <1>1, TurnMessages
    <3> QED BY <3>1, <3>3, <3>4, <2>2
  <2>6. CASE Reject(t) \/ Fail(t) \/ Release(t)
        BY <2>6, <2>1 DEF Reject, Fail, Release
  <2> QED BY <2>3, <2>4, <2>5, <2>6 DEF Goroutine
<1>7. TypeOK'
  <2>1. phase' \in [Turn -> Phase]
        BY <1>1, <1>2 DEF TypeOK
  <2>2. ag' \in AgentState
        BY <1>6 DEF Live
  <2> QED BY <2>1, <2>2, <1>1, <1>4, <1>5 DEF TypeOK
<1>8. TurnOwnsContext'
      BY <1>4, <1>6 DEF TurnOwnsContext
<1>9. Pending'
      BY <1>1, <1>2, <1>3, <1>4 DEF Pending, TypeOK
<1>10. (Tame' => AgentFine(ag', cancelled') /\ LogsOwn') /\ (Straight' => LogsBooted')
      BY <1>4, <1>6, SameLogs
<1> QED BY <1>6, <1>7, <1>8, <1>9, <1>10

\* The focus moves.
LEMMA FocusStep ==
    ASSUME ContextIInv, Next, NEW c \in Ctx, Focus(c)
    PROVE  ContextIInv'
<1> USE DEF ContextIInv
<1>1. /\ focus' = c /\ ag' = IF turn = NoTurn THEN Enter(ag, c) ELSE ag
      /\ UNCHANGED <<turn, turnCtx, phase, turns, logs, sess, notes, launches,
                     home, cancelled, answered, finished, noted, met>>
      BY DEF Focus
<1>2. /\ Live(ag') /\ Kept(ag, ag')
      /\ turn # NoTurn => ag' = ag
      /\ AgentFine(ag, cancelled) => AgentFine(ag', cancelled)
  <2>1. CASE turn = NoTurn
        BY <2>1, <1>1, EnterFine
  <2>2. CASE turn # NoTurn
        BY <2>2, <1>1 DEF Kept
  <2> QED BY <2>1, <2>2
<1>3. TypeOK' /\ TurnOwnsContext' /\ Pending'
      BY <1>1, <1>2 DEF TypeOK, TurnOwnsContext, Pending, Live
<1>4. (Tame' => AgentFine(ag', cancelled') /\ LogsOwn') /\ (Straight' => LogsBooted')
      BY <1>1, <1>2, SameLogs
<1> QED BY <1>2, <1>3, <1>4

\* A note.
LEMMA NoteStep ==
    ASSUME ContextIInv, Next, NEW c \in Ctx, Note(c)
    PROVE  ContextIInv'
<1> USE DEF ContextIInv
<1> DEFINE m == Msg("note", c, notes')
<1>1. /\ notes' = notes + 1 /\ ag' = InjectNote(ag, c, m)
      /\ noted' = noted \cup {m}
      /\ UNCHANGED <<focus, turn, turnCtx, phase, turns, logs, sess, launches,
                     home, cancelled, answered, finished>>
      BY DEF Note
<1>2. met' \subseteq {"elsewhere", "bare", "note", "race", "compact", "resume"}
      BY DEF Note, TypeOK
<1>3. notes' \in Nat
      BY <1>1 DEF TypeOK
<1>4. m \in Message /\ \A C : Own(m, c, C)
      BY <1>3, NoteMessages
<1> HIDE DEF m
<1>5. /\ Live(ag') /\ Kept(ag, ag') /\ ag'.cur = ag.cur /\ ag'.scope = ag.scope
      /\ AgentFine(ag, cancelled) => AgentFine(ag', cancelled)
      BY <1>1, <1>4, InjectNoteFine
<1>6. TypeOK'
      BY <1>1, <1>2, <1>3, <1>4, <1>5 DEF TypeOK, Live
<1>7. TurnOwnsContext' /\ Pending'
      BY <1>1, <1>5 DEF TurnOwnsContext, Pending
<1>8. (Tame' => AgentFine(ag', cancelled') /\ LogsOwn') /\ (Straight' => LogsBooted')
      BY <1>1, <1>5, SameLogs
<1> QED BY <1>5, <1>6, <1>7, <1>8

\* Nothing of the agent changes: an interrupt.
LEMMA CancelStep ==
    ASSUME ContextIInv, Next, Cancel
    PROVE  ContextIInv'
<1> USE DEF ContextIInv
<1>1. /\ turn \in Turn /\ turn' = NoTurn /\ cancelled' = cancelled \cup {turn}
      /\ UNCHANGED <<ag, focus, turnCtx, phase, turns, logs, sess, notes, launches,
                     home, answered, finished, noted, met>>
      BY DEF Cancel, TypeOK
<1>2. Live(ag') /\ Kept(ag, ag')
      BY <1>1 DEF Kept
<1>3. TypeOK' /\ TurnOwnsContext' /\ Pending'
      BY <1>1 DEF TypeOK, TurnOwnsContext, Pending
<1>4. (Tame' => AgentFine(ag', cancelled') /\ LogsOwn') /\ (Straight' => LogsBooted')
      BY <1>1, <1>2, SameLogs
<1> QED BY <1>2, <1>3, <1>4

\* A summary: from here on a relaunch is not Tame.
LEMMA CompactStep ==
    ASSUME ContextIInv, Next, Compact
    PROVE  ContextIInv'
<1> USE DEF ContextIInv
<1> DEFINE m == Msg("sum", ag.cur, notes')
<1>1. /\ turn = NoTurn /\ CanCompact(ag) /\ notes' = notes + 1
      /\ ag' = Compacted(ag, m)
      /\ met' = met \cup {"compact"}
      /\ UNCHANGED <<focus, turn, turnCtx, phase, turns, logs, sess, launches,
                     home, cancelled, answered, finished, noted>>
      BY DEF Compact
<1>2. notes' \in Nat /\ ag.cur \in Ctx
      BY <1>1, AgentIs DEF TypeOK
<1>3. m \in Message /\ \A C : Own(m, ag.cur, C)
      BY <1>2, NoteMessages
<1> HIDE DEF m
<1>4. Live(ag') /\ (AgentFine(ag, cancelled) => AgentFine(ag', cancelled))
      BY <1>1, <1>3, CompactedFine
<1>5. TypeOK'
      BY <1>1, <1>2, <1>4 DEF TypeOK, Live
<1>6. TurnOwnsContext' /\ Pending'
      BY <1>1 DEF TurnOwnsContext, Pending
<1>7. Tame' => AgentFine(ag', cancelled') /\ LogsOwn'
      BY <1>1, <1>4, SameLogs
<1>8. ~Straight'
      BY <1>1 DEF Straight, Unless
<1> QED BY <1>4, <1>5, <1>6, <1>7, <1>8

-----------------------------------------------------------------------------
(* A turn starts; a turn ends and is logged *)

LEMMA LoggedNone ==
    ASSUME NEW log \in Seq(Entry), NEW c, c \notin Grouped(log)
    PROVE  Len(Logged(log, c)) = 0
<1>1. Places(log, c) = {}
      BY DEF Places, Grouped
<1>2. Len(Logged(log, c)) = Cardinality({})
      BY <1>1, LoggedIs
<1> QED BY <1>2, FS_EmptySet

LEMMA GroupedMore ==
    ASSUME NEW log \in Seq(Entry), NEW es \in Seq(Entry), NEW d,
           \A i \in 1 .. Len(es) : es[i].label = d
    PROVE  /\ Grouped(log) \subseteq Grouped(log \o es)
           /\ Grouped(log \o es) \subseteq Grouped(log) \cup {d}
           /\ Len(es) = 0 => Grouped(log \o es) = Grouped(log)
           /\ Len(es) # 0 => d \in Grouped(log \o es)
<1> DEFINE all == log \o es
           n == Len(log)
           m == Len(es)
<1>1. n \in Nat /\ m \in Nat
      BY LenProperties
<1>2. /\ all \in Seq(Entry) /\ Len(all) = n + m
      /\ \A i \in 1 .. n + m : all[i] = IF i <= n THEN log[i] ELSE es[i - n]
      BY ConcatProperties
<1>3. DOMAIN log = 1 .. n /\ DOMAIN all = 1 .. n + m /\ \A i \in 1 .. m : es[i].label = d
      BY <1>2, LenProperties
<1> HIDE DEF all, n, m
<1>4. \A i \in 1 .. n : i \in 1 .. n + m /\ all[i] = log[i]
      BY <1>1, <1>2
<1>5. \A i \in 1 .. n + m : i \in 1 .. n \/ (all[i].label = d /\ m # 0)
      BY <1>1, <1>2, <1>3
<1>6. m # 0 => n + m \in 1 .. n + m /\ n + m \notin 1 .. n
      BY <1>1
<1>7. Grouped(log) = {log[i].label : i \in 1 .. n} /\ Grouped(all) = {all[i].label : i \in 1 .. n + m}
      BY <1>3 DEF Grouped
<1>8. Grouped(log) \subseteq Grouped(all)
      BY <1>4, <1>7
<1>9. Grouped(all) \subseteq Grouped(log) \cup {d}
      BY <1>4, <1>5, <1>7
<1>10. m = 0 => Grouped(all) \subseteq Grouped(log)
      BY <1>4, <1>5, <1>7
<1>11. m # 0 => d \in Grouped(all)
      BY <1>5, <1>6, <1>7
<1> QED BY <1>8, <1>9, <1>10, <1>11 DEF all, m

LEMMA StartsIn ==
    ASSUME TypeOK, NEW a, Live(a), StartIn(a), UNCHANGED cancelled,
           \A t \in Turn : phase[t] \in {"born", "run"} => t \in cancelled
    PROVE  /\ Live(ag') /\ Kept(a, ag')
           /\ \A C : AgentFine(a, C) => AgentFine(ag', C)
           /\ turns' \in 0 .. MaxTurns /\ turn' \in Turn /\ turnCtx' \in Ctx
           /\ phase' \in [Turn -> Phase] /\ home' \in [Turn -> Ctx]
           /\ TurnOwnsContext' /\ Pending'
<1>1. /\ turns < MaxTurns /\ turns' = turns + 1 /\ turn' = turns' /\ turnCtx' = focus
      /\ ag' = Enter(a, focus)
      /\ phase' = [phase EXCEPT ![turns'] = "born"]
      /\ home' = [home EXCEPT ![turns'] = focus]
      BY DEF StartIn
<1>2. focus \in Ctx /\ phase \in [Turn -> Phase] /\ home \in [Turn -> Ctx] /\ turns \in 0 .. MaxTurns
      BY DEF TypeOK
<1>3. turns' \in 1 .. MaxTurns /\ turns' \in 0 .. MaxTurns
      BY <1>1, <1>2, ContextAssumption
<1>4. turn' \in Turn /\ turns' \in Turn
      BY <1>1, <1>3 DEF Turn
<1>5. /\ Live(ag') /\ Kept(a, ag') /\ ag'.cur = focus /\ ag'.scope = focus
      /\ \A C : AgentFine(a, C) => AgentFine(ag', C)
      BY <1>1, <1>2, EnterFine
<1>6. phase' \in [Turn -> Phase] /\ home' \in [Turn -> Ctx]
      BY <1>1, <1>2, <1>4 DEF Phase
<1>7. TurnOwnsContext'
      BY <1>1, <1>5 DEF TurnOwnsContext
<1>8. Pending'
  <2>1. home'[turn'] = turnCtx'
        BY <1>1, <1>2, <1>4
  <2>2. ASSUME NEW t \in Turn, phase'[t] \in {"born", "run"} PROVE t = turn' \/ t \in cancelled'
        BY <2>2, <1>1, <1>2, <1>4
  <2> QED BY <2>1, <2>2 DEF Pending
<1> QED BY <1>1, <1>2, <1>3, <1>4, <1>5, <1>6, <1>7, <1>8

LEMMA SendStep ==
    ASSUME ContextIInv, Next, Send
    PROVE  ContextIInv'
<1> USE DEF ContextIInv
<1>1. /\ turn = NoTurn /\ StartIn(ag)
      /\ UNCHANGED <<focus, logs, sess, notes, launches, cancelled, answered, finished, noted, met>>
      BY DEF Send
<1>2. \A t \in Turn : phase[t] \in {"born", "run"} => t \in cancelled
      BY <1>1 DEF Pending, Turn, NoTurn
<1>3. /\ Live(ag') /\ Kept(ag, ag')
      /\ AgentFine(ag, cancelled) => AgentFine(ag', cancelled)
      /\ turns' \in 0 .. MaxTurns /\ turn' \in Turn /\ turnCtx' \in Ctx
      /\ phase' \in [Turn -> Phase] /\ home' \in [Turn -> Ctx]
      /\ TurnOwnsContext' /\ Pending'
      BY <1>1, <1>2, StartsIn
<1>4. TypeOK'
      BY <1>1, <1>3 DEF TypeOK, Live
<1>5. (Tame' => AgentFine(ag', cancelled') /\ LogsOwn') /\ (Straight' => LogsBooted')
      BY <1>1, <1>3, SameLogs
<1> QED BY <1>3, <1>4, <1>5

\* The entries of a turn are those of its context, and the first of a context begin with the
\* bootstrap.
LEMMA DoneStep ==
    ASSUME ContextIInv, Next, Done
    PROVE  ContextIInv'
<1> USE DEF ContextIInv
<1> DEFINE a == Saved(ag, turnCtx)
           es == NewEntries(ag, turnCtx)
           L == logs[sess]
<1>1. /\ turn \in Turn /\ phase[turn] \in {"ending", "over", "rejected"}
      /\ logs' = [logs EXCEPT ![sess] = L \o es]
      /\ finished' = finished \cup {turn}
      /\ UNCHANGED <<focus, sess, notes, launches, cancelled, answered, noted, met>>
      BY DEF Done, TypeOK
<1>2. \/ StartIn(a)
      \/ ag' = a /\ turn' = NoTurn /\ UNCHANGED <<turnCtx, phase, turns, home>>
      BY DEF Done
<1>3. turnCtx \in Ctx /\ turnCtx = ag.cur
      BY <1>1 DEF TypeOK, TurnOwnsContext, Turn, NoTurn
<1>4. /\ Live(a) /\ a.boot = ag.boot /\ a.base = ag.base
      /\ a.saved = [ag.saved EXCEPT ![turnCtx] = Len(ag.msgs)]
      /\ \A C : AgentFine(ag, C) => AgentFine(a, C)
      BY <1>3, SavedFine
<1>5. /\ es \in Seq(Entry)
      /\ Len(es) = IF Len(ag.msgs) <= ag.saved[turnCtx] THEN 0 ELSE Len(ag.msgs) - ag.saved[turnCtx]
      /\ \A i \in 1 .. Len(es) :
            /\ es[i].label = turnCtx
            /\ ag.saved[turnCtx] + i \in 1 .. Len(ag.msgs)
            /\ es[i].msg = ag.msgs[ag.saved[turnCtx] + i]
      BY <1>3, NewEntriesAre
<1>6. /\ logs \in Seq(Seq(Entry)) /\ sess \in DOMAIN logs /\ DOMAIN logs = 1 .. Len(logs)
      /\ \A s \in DOMAIN logs : logs[s] \in Seq(Entry)
      BY LenProperties, ElementOfSeq DEF TypeOK
<1> HIDE DEF a, es
<1>7. L \o es \in Seq(Entry)
      BY <1>5, <1>6, ConcatProperties
<1>8. /\ logs' \in Seq(Seq(Entry)) /\ DOMAIN logs' = DOMAIN logs
      /\ \A s \in DOMAIN logs : logs'[s] = IF s = sess THEN L \o es ELSE logs[s]
  <2>1. logs' \in Seq(Seq(Entry))
        BY <1>1, <1>6, <1>7, ExceptSeq
  <2> QED BY <2>1, <1>1, <1>6
<1>9. \A t \in Turn : phase[t] \in {"born", "run"} => t \in cancelled
      BY <1>1 DEF Pending
<1>10. /\ Live(ag') /\ Kept(a, ag')
       /\ \A C : AgentFine(a, C) => AgentFine(ag', C)
       /\ turns' \in 0 .. MaxTurns /\ turn' \in Turn \cup {NoTurn} /\ turnCtx' \in Ctx
       /\ phase' \in [Turn -> Phase] /\ home' \in [Turn -> Ctx]
       /\ TurnOwnsContext' /\ Pending'
  <2>1. CASE StartIn(a)
        BY <2>1, <1>1, <1>4, <1>9, StartsIn
  <2>2. CASE ag' = a /\ turn' = NoTurn /\ UNCHANGED <<turnCtx, phase, turns, home>>
    <3>1. Live(ag') /\ Kept(a, ag') /\ \A C : AgentFine(a, C) => AgentFine(ag', C)
          BY <2>2, <1>4 DEF Kept
    <3>2. TurnOwnsContext' /\ Pending'
          BY <2>2, <1>1, <1>9 DEF TurnOwnsContext, Pending
    <3> QED BY <2>2, <3>1, <3>2 DEF TypeOK
  <2> QED BY <2>1, <2>2, <1>2
<1>11. TypeOK'
  <2>1. ag' \in AgentState
        BY <1>10 DEF Live
  <2>2. finished' \subseteq Turn
        BY <1>1 DEF TypeOK
  <2>3. sess' \in DOMAIN logs'
        BY <1>1, <1>6, <1>8
  <2> QED BY <2>1, <2>2, <2>3, <1>1, <1>8, <1>10 DEF TypeOK
<1>12. (Tame' => Tame) /\ (Straight' => Straight) /\ (Straight => Tame)
      BY OnlyMore, StraightIsTame
<1>13. ASSUME Tame' PROVE AgentFine(ag', cancelled') /\ LogsOwn'
  <2>1. AgentFine(ag, cancelled) /\ LogsOwn
        BY <1>12, <1>13
  <2>2. AgentFine(ag', cancelled')
        BY <2>1, <1>1, <1>4, <1>10
  <2>3. ASSUME NEW i \in 1 .. Len(L \o es)
        PROVE  Own((L \o es)[i].msg, (L \o es)[i].label, cancelled)
    <3>1. /\ Len(L) \in Nat /\ Len(es) \in Nat /\ Len(L \o es) = Len(L) + Len(es)
          /\ (L \o es)[i] = IF i <= Len(L) THEN L[i] ELSE es[i - Len(L)]
      <4>1. L \in Seq(Entry)
            BY <1>6
      <4>2. Len(L) \in Nat /\ Len(es) \in Nat
            BY <4>1, <1>5, LenProperties
      <4> HIDE DEF L
      <4>3. /\ Len(L \o es) = Len(L) + Len(es)
            /\ \A j \in 1 .. Len(L) + Len(es) :
                  (L \o es)[j] = IF j <= Len(L) THEN L[j] ELSE es[j - Len(L)]
            BY <4>1, <1>5, ConcatProperties
      <4> QED BY <4>2, <4>3
    <3>2. CASE i <= Len(L)
      <4>1. i \in 1 .. Len(L) /\ (L \o es)[i] = L[i]
            BY <3>1, <3>2
      <4> QED BY <4>1, <2>1, <1>6 DEF LogsOwn
    <3>3. CASE ~ (i <= Len(L))
      <4> DEFINE j == i - Len(L)
      <4>1. j \in 1 .. Len(es) /\ (L \o es)[i] = es[j]
            BY <3>1, <3>3
      <4> HIDE DEF j
      <4>2. es[j].label = turnCtx /\ \E k \in 1 .. Len(ag.msgs) : es[j].msg = ag.msgs[k]
            BY <4>1, <1>5
      <4> QED BY <4>1, <4>2, <2>1, <1>3 DEF AgentFine, Fine
    <3> QED BY <3>2, <3>3
  <2>4. LogsOwn'
        BY <2>1, <2>3, <1>1, <1>8 DEF LogsOwn
  <2> QED BY <2>2, <2>4
<1>14. ASSUME Straight' PROVE LogsBooted'
  <2>1. LogsBooted /\ AgentFine(ag, cancelled)
        BY <1>12, <1>14
  <2>2. /\ Grouped(L) \subseteq Grouped(L \o es)
        /\ Grouped(L \o es) \subseteq Grouped(L) \cup {turnCtx}
        /\ Len(es) = 0 => Grouped(L \o es) = Grouped(L)
        /\ Len(es) # 0 => turnCtx \in Grouped(L \o es)
        BY <1>5, <1>6, GroupedMore
  <2>3. ag'.boot = ag.boot /\ ag'.base = ag.base
        /\ \A c \in Ctx : ag'.saved[c] > 0 => a.saved[c] > 0
        BY <1>4, <1>10 DEF Kept
  <2>4. ag'.boot # ag'.base + 1 => Main \in Grouped(logs'[sess'])
        BY <2>1, <2>2, <2>3, <1>1, <1>6, <1>8 DEF LogsBooted
  <2>5. ag.saved \in [Ctx -> Nat] /\ Len(ag.msgs) \in Nat /\ ag.boot \in Nat
        BY AgentIs, LenProperties DEF Live
  <2>6. \A c \in Ctx : ag'.saved[c] > 0 => c \in Grouped(logs'[sess'])
    <3> SUFFICES ASSUME NEW c \in Ctx, ag'.saved[c] > 0 PROVE c \in Grouped(L \o es)
        BY <1>1, <1>6, <1>8
    <3>1. a.saved[c] > 0
          BY <2>3
    <3>2. CASE c # turnCtx
      <4>1. ag.saved[c] > 0
            BY <3>1, <3>2, <1>4, <2>5
      <4> QED BY <4>1, <2>1, <2>2 DEF LogsBooted
    <3>3. CASE c = turnCtx
      <4>1. CASE Len(es) # 0
            BY <4>1, <3>3, <2>2
      <4>2. CASE Len(es) = 0
        <5>1. a.saved[c] = Len(ag.msgs)
              BY <3>3, <1>3, <1>4, <2>5
        <5>2. Len(ag.msgs) <= ag.saved[c]
              BY <4>2, <3>3, <1>3, <1>5, <2>5
        <5>3. ag.saved[c] > 0
              BY <5>1, <5>2, <3>1, <2>5
        <5> QED BY <5>3, <2>1, <2>2 DEF LogsBooted
      <4> QED BY <4>1, <4>2
    <3> QED BY <3>2, <3>3
  <2>7. ASSUME NEW s \in DOMAIN logs', NEW c \in Ctx,
               Main \notin Grouped(logs'[s]), c \in Grouped(logs'[s])
        PROVE  Booted(Logged(logs'[s], c), ag'.base + 1)
    <3>1. CASE s # sess
          BY <3>1, <2>1, <2>3, <2>7, <1>8 DEF LogsBooted
    <3>2. CASE s = sess
      <4> DEFINE g == Logged(L, c)
                 h == Logged(L \o es, c)
      <4>1. logs'[s] = L \o es /\ Main \notin Grouped(L) /\ ag.boot = ag.base + 1
            BY <3>2, <2>1, <2>2, <2>7, <1>6, <1>8 DEF LogsBooted
      <4>2. /\ c # turnCtx => h = g
            /\ c = turnCtx => /\ Len(h) = Len(g) + Len(es)
                              /\ \A k \in 1 .. Len(g) : h[k] = g[k]
                              /\ \A k \in 1 .. Len(es) : h[Len(g) + k] = es[k].msg
        <5>1. L \in Seq(Entry) /\ es \in Seq(Entry) /\ Labelled(es, turnCtx)
              BY <1>5, <1>6 DEF Labelled
        <5> HIDE DEF L
        <5>2. /\ c # turnCtx => Logged(L \o es, c) = Logged(L, c)
              /\ c = turnCtx =>
                   /\ Len(Logged(L \o es, c)) = Len(Logged(L, c)) + Len(es)
                   /\ \A k \in 1 .. Len(Logged(L, c)) : Logged(L \o es, c)[k] = Logged(L, c)[k]
                   /\ \A k \in 1 .. Len(es) :
                         Logged(L \o es, c)[Len(Logged(L, c)) + k] = es[k].msg
          <6> HIDE DEF g, h
          <6>1. ASSUME c # turnCtx PROVE Logged(L \o es, c) = Logged(L, c)
                BY <5>1, <6>1, LoggedMore
          <6>2. ASSUME c = turnCtx
                PROVE  Len(Logged(L \o es, c)) = Len(Logged(L, c)) + Len(es)
                BY <5>1, <6>2, LoggedMore
          <6>3. ASSUME c = turnCtx, NEW k \in 1 .. Len(Logged(L, c))
                PROVE  Logged(L \o es, c)[k] = Logged(L, c)[k]
                BY <5>1, <6>3, LoggedMore
          <6>4. ASSUME c = turnCtx, NEW k \in 1 .. Len(es)
                PROVE  Logged(L \o es, c)[Len(Logged(L, c)) + k] = es[k].msg
                BY <5>1, <6>4, LoggedMore
          <6> QED BY <6>1, <6>2, <6>3, <6>4
        <5> QED BY <5>2
      <4>3. Len(g) \in Nat /\ Len(es) \in Nat
            BY <1>5, <1>6, LoggedIs, LenProperties
      <4>4. CASE c \in Grouped(L)
        <5>1. Booted(g, ag.boot)
              BY <4>1, <4>4, <2>1, <1>6 DEF LogsBooted
        <5> HIDE DEF g, h
        <5>2. Len(g) <= Len(h) /\ \A k \in 1 .. Len(g) : h[k] = g[k]
              BY <4>2, <4>3
        <5>3. Len(h) \in Nat
              BY <4>2, <4>3
        <5>4. ag.boot <= Len(h) /\ \A k \in 1 .. ag.boot : k \in 1 .. Len(g)
              BY <5>1, <5>2, <5>3, <4>3, <2>5 DEF Booted
        <5>5. Booted(h, ag.boot)
              BY <5>1, <5>2, <5>4 DEF Booted
        <5> QED BY <5>5, <4>1, <2>3 DEF h
      <4>5. CASE c \notin Grouped(L)
        <5>1. c = turnCtx
              BY <4>1, <4>5, <2>2, <2>7
        <5>2. Len(g) = 0
              BY <4>5, <1>6, LoggedNone
        <5>3. ag.saved[c] = 0
              BY <4>5, <2>1, <2>5 DEF LogsBooted
        <5>4. Booted(ag.msgs, ag.boot) /\ ag.boot <= Len(ag.msgs) /\ ag.boot >= 1
              BY <2>1 DEF AgentFine, Fine, Booted, Live
        <5>5. Len(es) = Len(ag.msgs)
              BY <5>1, <5>3, <5>4, <1>5, <2>5
        <5>6. \A k \in 1 .. Len(es) : es[k].msg = ag.msgs[k]
          <6>1. \A k \in 1 .. Len(es) : ag.saved[turnCtx] + k = k
                BY <5>1, <5>3, <4>3
          <6> QED BY <6>1, <1>5
        <5>7. Len(h) = Len(ag.msgs) /\ \A k \in 1 .. Len(es) : h[k] = ag.msgs[k]
          <6>1. \A k \in 1 .. Len(es) : Len(g) + k = k
                BY <5>2, <4>3
          <6> HIDE DEF g, h
          <6> QED BY <6>1, <5>1, <5>2, <5>5, <5>6, <4>2, <2>5
        <5> HIDE DEF g, h
        <5>8. \A k \in 1 .. ag.boot : k \in 1 .. Len(es)
              BY <5>4, <5>5, <2>5
        <5>9. Booted(h, ag.boot)
              BY <5>4, <5>7, <5>8 DEF Booted
        <5> QED BY <5>9, <4>1, <2>3 DEF h
      <4> QED BY <4>4, <4>5
    <3> QED BY <3>1, <3>2
  <2> QED BY <2>4, <2>6, <2>7 DEF LogsBooted
<1> QED BY <1>10, <1>11, <1>13, <1>14

-----------------------------------------------------------------------------
(* New logs, and relaunches *)

LEMMA NewLog ==
    ASSUME TypeOK, NewSession
    PROVE  /\ logs' \in Seq(Seq(Entry)) /\ sess' \in DOMAIN logs' /\ logs'[sess'] = <<>>
           /\ \A s \in DOMAIN logs' : \/ s \in DOMAIN logs /\ logs'[s] = logs[s]
                                      \/ logs'[s] = <<>>
<1> DEFINE n == Len(logs)
<1>1. /\ logs \in Seq(Seq(Entry)) /\ sess \in DOMAIN logs
      /\ DOMAIN logs = 1 .. n /\ n \in Nat /\ n >= 1
  <2>1. logs \in Seq(Seq(Entry)) /\ sess \in DOMAIN logs
        BY DEF TypeOK
  <2>2. DOMAIN logs = 1 .. n /\ n \in Nat
        BY <2>1, LenProperties
  <2> QED BY <2>1, <2>2
<1>2. CASE logs[n] = <<>>
  <2>1. logs' = logs /\ sess' = n
        BY <1>2 DEF NewSession
  <2>2. n \in DOMAIN logs
        BY <1>1
  <2> QED BY <1>1, <1>2, <2>1, <2>2
<1>3. CASE logs[n] # <<>>
  <2>1. logs' = Append(logs, <<>>) /\ sess' = Len(logs')
        BY <1>3 DEF NewSession
  <2>2. <<>> \in Seq(Entry)
        BY EmptySeq
  <2>3. /\ logs' \in Seq(Seq(Entry)) /\ Len(logs') = n + 1
        /\ \A s \in 1 .. n : logs'[s] = logs[s]
        /\ logs'[n + 1] = <<>>
        BY <1>1, <2>1, <2>2, AppendProperties
  <2>4. DOMAIN logs' = 1 .. n + 1
        BY <2>3, LenProperties
  <2> HIDE DEF n
  <2>5. \A s \in 1 .. n + 1 : s \in 1 .. n \/ s = n + 1
        BY <1>1
  <2>6. n + 1 \in 1 .. n + 1
        BY <1>1
  <2> QED BY <1>1, <2>1, <2>3, <2>4, <2>5, <2>6
<1> QED BY <1>2, <1>3

\* An agent without watermarks and an empty log.
LEMMA FreshLog ==
    ASSUME ContextIInv, Next, NewSession, Live(ag'),
           \A C : AgentFine(ag', C),
           Straight' => /\ ag'.base = ag.base /\ ag'.boot = ag.base + 1
                        /\ \A c \in Ctx : ag'.saved[c] = 0
    PROVE  /\ Tame' => AgentFine(ag', cancelled') /\ LogsOwn'
           /\ Straight' => LogsBooted'
<1> USE DEF ContextIInv
<1>1. /\ \A s \in DOMAIN logs' : \/ s \in DOMAIN logs /\ logs'[s] = logs[s]
                                 \/ logs'[s] = <<>>
      /\ Len(<<>>) = 0 /\ Grouped(<<>>) = {}
  <2>1. Len(<<>>) = 0 /\ DOMAIN <<>> = {}
        BY EmptySeq
  <2>2. Grouped(<<>>) = {}
        BY <2>1 DEF Grouped
  <2> QED BY <2>1, <2>2, NewLog
<1>2. cancelled \subseteq cancelled' /\ (Tame' => Tame) /\ (Straight' => Straight)
      BY OnlyMore
<1>3. ASSUME Tame' PROVE LogsOwn'
  <2>1. LogsOwn
        BY <1>2, <1>3
  <2> SUFFICES ASSUME NEW s \in DOMAIN logs', NEW i \in 1 .. Len(logs'[s])
               PROVE  Own(logs'[s][i].msg, logs'[s][i].label, cancelled')
      BY DEF LogsOwn
  <2>2. s \in DOMAIN logs /\ logs'[s] = logs[s]
        BY <1>1
  <2>3. Own(logs[s][i].msg, logs[s][i].label, cancelled)
        BY <2>1, <2>2 DEF LogsOwn
  <2> QED BY <2>2, <2>3, <1>2, OwnStays
<1>4. ASSUME Straight' PROVE LogsBooted'
  <2>1. LogsBooted
        BY <1>2, <1>4
  <2>2. ASSUME NEW s \in DOMAIN logs', NEW c \in Ctx,
               Main \notin Grouped(logs'[s]), c \in Grouped(logs'[s])
        PROVE  Booted(Logged(logs'[s], c), ag'.base + 1)
    <3>1. s \in DOMAIN logs /\ logs'[s] = logs[s]
          BY <1>1, <2>2
    <3> QED BY <3>1, <2>1, <2>2, <1>4 DEF LogsBooted
  <2> QED BY <2>2, <1>4 DEF LogsBooted
<1> QED BY <1>3, <1>4

LEMMA ForkStep ==
    ASSUME ContextIInv, Next, Fork
    PROVE  ContextIInv'
<1> USE DEF ContextIInv
<1> DEFINE n == Len(logs)
<1>1. /\ logs' = Append(logs, logs[sess]) /\ sess' = Len(logs')
      /\ UNCHANGED <<ag, focus, turn, turnCtx, phase, turns, notes, launches,
                     home, cancelled, answered, finished, noted, met>>
      BY DEF Fork
<1>2. logs \in Seq(Seq(Entry)) /\ sess \in DOMAIN logs
      BY DEF TypeOK
<1>3. DOMAIN logs = 1 .. n /\ n \in Nat /\ logs[sess] \in Seq(Entry)
      BY <1>2, LenProperties, ElementOfSeq
<1>4. /\ logs' \in Seq(Seq(Entry)) /\ Len(logs') = n + 1
      /\ \A s \in 1 .. n : logs'[s] = logs[s]
      /\ logs'[n + 1] = logs[sess]
      BY <1>1, <1>2, <1>3, AppendProperties
<1>5. DOMAIN logs' = 1 .. n + 1
      BY <1>4, LenProperties
<1> HIDE DEF n
<1>6. \A s \in DOMAIN logs' : \E r \in DOMAIN logs : logs'[s] = logs[r]
  <2>1. \A s \in 1 .. n + 1 : s \in 1 .. n \/ s = n + 1
        BY <1>3
  <2> QED BY <2>1, <1>2, <1>3, <1>4, <1>5
<1>7. sess' \in DOMAIN logs' /\ logs'[sess'] = logs[sess]
  <2>1. n + 1 \in 1 .. n + 1
        BY <1>3
  <2> QED BY <2>1, <1>1, <1>4, <1>5
<1>8. TypeOK' /\ Live(ag') /\ TurnOwnsContext' /\ Pending'
      BY <1>1, <1>4, <1>7 DEF TypeOK, TurnOwnsContext, Pending
<1>9. (Tame' => Tame) /\ (Straight' => Straight)
      BY OnlyMore
<1>10. Tame' => AgentFine(ag', cancelled') /\ LogsOwn'
      BY <1>1, <1>6, <1>9 DEF LogsOwn
<1>11. Straight' => LogsBooted'
      BY <1>1, <1>6, <1>7, <1>9 DEF LogsBooted
<1> QED BY <1>8, <1>10, <1>11

LEMMA RestartStep ==
    ASSUME ContextIInv, Next, Restart
    PROVE  ContextIInv'
<1> USE DEF ContextIInv
<1> DEFINE a == NewAgent(ag.base, ag.scope)
<1>1. /\ launches' = launches + 1 /\ turn' = NoTurn
      /\ cancelled' = cancelled \cup ({turn} \ {NoTurn})
      /\ ag' = a /\ NewSession
      /\ UNCHANGED <<focus, turnCtx, phase, turns, notes, home, answered, finished, noted, met>>
      BY DEF Restart, Interrupted
<1>2. /\ Live(a) /\ a.base = ag.base /\ a.boot = ag.base + 1
      /\ \A c \in Ctx : a.saved[c] = 0
      /\ \A C : AgentFine(a, C)
  <2>1. ag.base \in Nat /\ ag.scope \in Ctx
        BY AgentIs DEF Live
  <2> QED BY <2>1, NewAgentFine
<1> HIDE DEF a
<1>3. logs' \in Seq(Seq(Entry)) /\ sess' \in DOMAIN logs'
      BY <1>1, NewLog
<1>4. cancelled' \subseteq Turn /\ launches' \in Nat
      BY <1>1 DEF TypeOK
<1>5. TypeOK' /\ Live(ag') /\ TurnOwnsContext'
      BY <1>1, <1>2, <1>3, <1>4 DEF TypeOK, TurnOwnsContext, Live
<1>6. Pending'
  <2>1. \A t \in Turn : t # NoTurn
        BY DEF Turn, NoTurn
  <2> QED BY <2>1, <1>1 DEF Pending
<1>7. (Tame' => AgentFine(ag', cancelled') /\ LogsOwn') /\ (Straight' => LogsBooted')
      BY <1>1, <1>2, FreshLog
<1> QED BY <1>5, <1>6, <1>7

\* A resume inside the program is not Tame; the agent lives on.
LEMMA ResumeStep ==
    ASSUME ContextIInv, Next, NEW s \in DOMAIN logs, Resume(s)
    PROVE  ContextIInv'
<1> USE DEF ContextIInv
<1>1. /\ launches' = launches + 1 /\ turn' = NoTurn
      /\ cancelled' = cancelled \cup ({turn} \ {NoTurn})
      /\ ag' = Resumed(ag, logs[s]) /\ sess' = s
      /\ met' = met \cup {"resume"}
      /\ UNCHANGED <<focus, turnCtx, phase, turns, logs, notes, home, answered, finished, noted>>
      BY DEF Resume, Interrupted
<1>2. logs[s] \in Seq(Entry)
      BY LenProperties, ElementOfSeq DEF TypeOK
<1>3. Live(ag')
      BY <1>1, <1>2, ResumedFine
<1>4. cancelled' \subseteq Turn /\ launches' \in Nat
      /\ met' \subseteq {"elsewhere", "bare", "note", "race", "compact", "resume"}
      BY <1>1 DEF TypeOK
<1>5. TypeOK' /\ TurnOwnsContext'
      BY <1>1, <1>3, <1>4 DEF TypeOK, TurnOwnsContext, Live
<1>6. Pending'
  <2>1. \A t \in Turn : t # NoTurn
        BY DEF Turn, NoTurn
  <2> QED BY <2>1, <1>1 DEF Pending
<1>7. ~Tame' /\ ~Straight'
      BY <1>1 DEF Tame, Straight, Unless
<1> QED BY <1>3, <1>5, <1>6, <1>7

LEMMA RelaunchStep ==
    ASSUME ContextIInv, Next, Relaunch
    PROVE  ContextIInv'
<1> USE DEF ContextIInv
<1>1. /\ launches' = launches + 1 /\ turn' = NoTurn /\ turnCtx' = Main
      /\ cancelled' = cancelled \cup {t \in Turn : phase[t] \in {"born", "run", "ending"}}
      /\ phase' = [t \in Turn |-> IF phase[t] = "none" THEN "none" ELSE "over"]
      /\ UNCHANGED <<focus, turns, notes, home, answered, finished, noted>>
      BY DEF Relaunch
<1>2. PICK b \in Boots :
        LET a == SetScope(NewAgent(b, focus), focus) IN
        /\ met' = met \cup (IF focus = Main THEN {} ELSE {"elsewhere"})
                      \cup (IF b = ag.base THEN {} ELSE {"bare"})
        /\ \/ ag' = a /\ NewSession
           \/ \E s \in DOMAIN logs :
                 /\ logs[s] # <<>>
                 /\ ag' = Resumed(a, logs[s])
                 /\ sess' = s
                 /\ UNCHANGED logs
      BY DEF Relaunch
<1> DEFINE n == NewAgent(b, focus)
           a == SetScope(n, focus)
<1>3. b \in Nat /\ focus \in Ctx /\ Main \in Ctx
      BY ContextAssumption DEF TypeOK, Ctx
<1>4. /\ Live(n) /\ n.boot = b + 1 /\ n.base = b /\ n.cur = Main
      /\ \A c \in Ctx : n.saved[c] = 0
      /\ \A C : AgentFine(n, C)
      BY <1>3, NewAgentFine
<1> HIDE DEF n
<1>5. /\ Live(a) /\ a.boot = b + 1 /\ a.base = b /\ a.cur = Main
      /\ \A c \in Ctx : a.saved[c] = 0
      /\ \A C : AgentFine(a, C)
      BY <1>3, <1>4, SetScopeFine DEF Kept
<1>6. /\ met' = met \cup (IF focus = Main THEN {} ELSE {"elsewhere"})
                    \cup (IF b = ag.base THEN {} ELSE {"bare"})
      /\ \/ ag' = a /\ NewSession
         \/ \E s \in DOMAIN logs : ag' = Resumed(a, logs[s]) /\ sess' = s /\ UNCHANGED logs
      BY <1>2 DEF n
<1> HIDE DEF a
<1>7. ASSUME Tame' PROVE Straight' /\ Straight /\ Tame /\ b = ag.base
  <2>1. launches' # 0
        BY <1>1 DEF TypeOK
  <2>2. Straight'
        BY <1>7, <2>1 DEF Straight, Tame, BootIsLogged, Unless
  <2>3. "bare" \notin met'
        BY <2>2 DEF Straight, Unless
  <2> QED BY <1>7, <2>2, <2>3, <1>6, OnlyMore
<1>8. Straight' => Tame'
      BY DEF Straight, Tame, BootIsLogged, Unless
<1>9. \A s \in DOMAIN logs : logs[s] \in Seq(Entry) /\ DOMAIN logs = 1 .. Len(logs)
      BY LenProperties, ElementOfSeq DEF TypeOK
<1>10. Live(ag') /\ logs' \in Seq(Seq(Entry)) /\ sess' \in DOMAIN logs'
  <2>1. CASE ag' = a /\ NewSession
        BY <2>1, <1>5, NewLog
  <2>2. ASSUME NEW s \in DOMAIN logs, ag' = Resumed(a, logs[s]), sess' = s, UNCHANGED logs
        PROVE  Live(ag') /\ logs' \in Seq(Seq(Entry)) /\ sess' \in DOMAIN logs'
    <3>1. Live(ag')
          BY <2>2, <1>5, <1>9, ResumedFine
    <3> QED BY <3>1, <2>2 DEF TypeOK
  <2> QED BY <2>1, <2>2, <1>6
<1>11. TypeOK'
  <2>1. phase' \in [Turn -> Phase] /\ cancelled' \subseteq Turn /\ launches' \in Nat
        BY <1>1 DEF Phase, TypeOK
  <2>2. met' \subseteq {"elsewhere", "bare", "note", "race", "compact", "resume"}
        BY <1>6 DEF TypeOK
  <2>3. ag' \in AgentState /\ turn' \in Turn \cup {NoTurn} /\ turnCtx' \in Ctx
        BY <1>1, <1>3, <1>10 DEF Live
  <2> QED BY <2>1, <2>2, <2>3, <1>1, <1>10 DEF TypeOK
<1>12. TurnOwnsContext' /\ Pending'
      BY <1>1 DEF TurnOwnsContext, Pending
<1>13. ASSUME Tame' PROVE AgentFine(ag', cancelled') /\ LogsOwn' /\ LogsBooted'
  <2>1. CASE ag' = a /\ NewSession
        BY <2>1, <1>5, <1>7, <1>10, <1>13, FreshLog
  <2>2. ASSUME NEW s \in DOMAIN logs, ag' = Resumed(a, logs[s]), sess' = s, UNCHANGED logs
        PROVE  AgentFine(ag', cancelled') /\ LogsOwn' /\ LogsBooted'
    <3> DEFINE log == logs[s]
    <3>1. /\ LogsOwn /\ LogsBooted /\ cancelled \subseteq cancelled'
          /\ b = ag.base /\ a.boot = ag.base + 1
          BY <1>5, <1>7, <1>13, OnlyMore
    <3>2. /\ \A i \in 1 .. Len(log) : Own(log[i].msg, log[i].label, cancelled)
          /\ Main \notin Grouped(log) =>
                \A c \in Ctx \cap Grouped(log) : Booted(Logged(log, c), a.boot)
          BY <3>1 DEF LogsOwn, LogsBooted
    <3>3. log \in Seq(Entry)
          BY <1>9
    <3> HIDE DEF log
    <3>4. /\ ag' = Resumed(a, log) /\ ag'.base = a.base
          /\ ag'.boot # a.boot => Main \in Grouped(log)
          /\ \A c \in Ctx : a.saved[c] = 0 /\ ag'.saved[c] > 0 => c \in Grouped(log)
          /\ AgentFine(ag', cancelled)
      <4>1. ag' = Resumed(a, log)
            BY <2>2 DEF log
      <4>2. AgentFine(a, cancelled)
            BY <1>5
      <4>3. /\ ag'.base = a.base
            /\ ag'.boot # a.boot => Main \in Grouped(log)
            /\ \A c \in Ctx : a.saved[c] = 0 /\ ag'.saved[c] > 0 => c \in Grouped(log)
            BY <4>1, <3>3, <1>5, ResumedFine
      <4>4. AgentFine(ag', cancelled)
            BY <4>1, <4>2, <3>2, <3>3, <1>5, ResumedFine
      <4> QED BY <4>1, <4>3, <4>4
    <3>5. AgentFine(ag', cancelled')
          BY <3>1, <3>4, <1>10, AgentStays
    <3>6. LogsOwn'
          BY <3>1, <2>2, OwnStays DEF LogsOwn
    <3>7. LogsBooted'
          BY <3>1, <3>4, <2>2, <1>5 DEF LogsBooted, log
    <3> QED BY <3>5, <3>6, <3>7
  <2> QED BY <2>1, <2>2, <1>6
<1> QED BY <1>8, <1>10, <1>11, <1>12, <1>13

-----------------------------------------------------------------------------
(* The theorems *)

\* Every step keeps it.
LEMMA ContextStep == ContextIInv /\ [Next]_vars => ContextIInv'
<1> SUFFICES ASSUME ContextIInv, [Next]_vars PROVE ContextIInv'
    OBVIOUS
<1>1. CASE Next
  <2>1. ASSUME NEW t \in Turn, Goroutine(t) \/ RacingNote(t) PROVE ContextIInv'
        BY <1>1, <2>1, GoroutineStep
  <2>2. CASE Send
        BY <1>1, <2>2, SendStep
  <2>3. CASE Done
        BY <1>1, <2>3, DoneStep
  <2>4. CASE Cancel
        BY <1>1, <2>4, CancelStep
  <2>5. ASSUME NEW c \in Ctx, Focus(c) PROVE ContextIInv'
        BY <1>1, <2>5, FocusStep
  <2>6. ASSUME NEW c \in Ctx, Note(c) PROVE ContextIInv'
        BY <1>1, <2>6, NoteStep
  <2>7. CASE Compact
        BY <1>1, <2>7, CompactStep
  <2>8. CASE Restart
        BY <1>1, <2>8, RestartStep
  <2>9. CASE Fork
        BY <1>1, <2>9, ForkStep
  <2>10. CASE Relaunch
        BY <1>1, <2>10, RelaunchStep
  <2>11. ASSUME NEW s \in DOMAIN logs, Resume(s) PROVE ContextIInv'
        BY <1>1, <2>11, ResumeStep
  <2> QED BY <1>1, <2>1, <2>2, <2>3, <2>4, <2>5, <2>6, <2>7, <2>8, <2>9, <2>10, <2>11 DEF Next
<1>2. CASE UNCHANGED vars
      BY <1>2 DEF vars, ContextIInv, TypeOK, TurnOwnsContext, Pending, Tame, BootIsLogged,
                  Straight, Unless, LogsOwn, LogsBooted
<1> QED BY <1>1, <1>2

LEMMA IsolationFollows == ContextIInv => Isolation
<1> SUFFICES ASSUME ContextIInv PROVE Isolation
    OBVIOUS
<1> USE DEF ContextIInv
<1>1. /\ ag.msgs \in Seq(Message) /\ ag.of \in [Ctx -> Seq(Message)] /\ ag.boot \in Nat
      /\ ag.boot >= 1 /\ ag.cur \in Ctx
      BY AgentIs DEF Live
<1>2. \A h \in Seq(Message) : DOMAIN h = 1 .. Len(h) /\ Len(h) \in Nat
      BY LenProperties
<1>3. \A c \in Ctx : History(c) \in Seq(Message)
      BY <1>1 DEF History
<1>4. ASSUME Tame PROVE \A c \in Ctx : Exists(c) => Fine(History(c), c, ag.boot, cancelled)
      BY <1>4 DEF AgentFine, History, Exists
<1>5. HistoriesApart
  <2> SUFFICES ASSUME Tame, NEW c \in Ctx, Exists(c), NEW m \in Items(History(c)), Foreign(m, c)
               PROVE  LateAppend(m)
      BY DEF HistoriesApart, Tame
  <2>1. \E i \in 1 .. Len(History(c)) : m = History(c)[i]
        BY <1>2, <1>3 DEF Items
  <2>2. Own(m, c, cancelled)
        BY <2>1, <1>4 DEF Fine
  <2> QED BY <2>2 DEF Own, LateAppend
<1>6. LabelsTrue
  <2> SUFFICES ASSUME Tame, NEW s \in DOMAIN logs, NEW e \in Items(logs[s]), Foreign(e.msg, e.label)
               PROVE  LateAppend(e.msg)
      BY DEF LabelsTrue, Tame
  <2>1. logs[s] \in Seq(Entry)
        BY LenProperties, ElementOfSeq DEF TypeOK
  <2>2. \E i \in 1 .. Len(logs[s]) : e = logs[s][i]
        BY <2>1, LenProperties DEF Items
  <2>3. Own(e.msg, e.label, cancelled)
        BY <2>2 DEF LogsOwn
  <2> QED BY <2>3 DEF Own, LateAppend
<1>7. BootIsBootstrap
  <2> SUFFICES ASSUME Tame, NEW c \in Ctx, Exists(c)
               PROVE  /\ ag.boot <= Len(History(c))
                      /\ SubSeq(History(c), 1, ag.boot) = Bootstrap(ag.boot - 1)
      BY DEF BootIsBootstrap, Tame
  <2> DEFINE h == History(c)
             n == ag.boot
             b == Bootstrap(n - 1)
             p == SubSeq(h, 1, n)
  <2>1. /\ h \in Seq(Message) /\ Booted(h, n) /\ n \in Nat /\ n >= 1
        BY <1>1, <1>3, <1>4 DEF Fine
  <2>2. n <= Len(h) /\ \A i \in 1 .. n : i \in 1 .. Len(h) /\ h[i] = BootMsg(i) /\ h[i] \in Message
    <3>1. n <= Len(h) /\ \A i \in 1 .. n : h[i] = BootMsg(i)
          BY <2>1 DEF Booted
    <3>2. \A i \in 1 .. n : i \in 1 .. Len(h)
          BY <2>1, <3>1, <1>2
    <3>3. \A i \in 1 .. Len(h) : h[i] \in Message
          BY <2>1, ElementOfSeq
    <3> QED BY <3>1, <3>2, <3>3
  <2>3. b \in Seq(Message) /\ Len(b) = n /\ \A i \in 1 .. n : b[i] = BootMsg(i)
    <3>1. n - 1 \in Nat /\ (n - 1) + 1 = n
          BY <2>1
    <3> QED BY <3>1, BootstrapIs
  <2> HIDE DEF h, n, b
  <2>4. p \in Seq(Message) /\ Len(p) = n /\ \A i \in 1 .. n : p[i] = h[i]
    <3>1. /\ p \in Seq(Message)
          /\ Len(p) = IF 1 <= n THEN n - 1 + 1 ELSE 0
          /\ \A i \in 1 .. n - 1 + 1 : p[i] = h[1 + i - 1]
          BY <2>1, <2>2, SubSeqProperties
    <3> QED BY <3>1, <2>1
  <2> HIDE DEF p
  <2>5. p = b
        BY <2>2, <2>3, <2>4, SeqEqual
  <2> QED BY <2>2, <2>5 DEF h, n, b, p
<1> QED BY <1>5, <1>6, <1>7 DEF Isolation

\* Contexts keep to themselves: nothing said in one context is in the history of another or
\* under its label in a log, except what a cancelled turn appends late, and every history
\* begins with the bootstrap that a new context is given (InitContext, agentDoneMsg,
\* ResumeSession).
THEOREM ContextsApart == Spec => []Isolation
<1>1. Spec => []ContextIInv
      BY ContextInit, ContextStep, PTL DEF Spec
<1> QED BY <1>1, IsolationFollows, PTL

\* While a turn streams, the agent stays in the turn's context and memory scope, whatever the
\* user joins, parts, invites or queries (syncAgentContextIfIdle).
THEOREM StreamingTurnOwnsContext == Spec => []TurnOwnsContext
<1>1. Spec => []ContextIInv
      BY ContextInit, ContextStep, PTL DEF Spec
<1>2. ContextIInv => TurnOwnsContext
      BY DEF ContextIInv
<1> QED BY <1>1, <1>2, PTL

-----------------------------------------------------------------------------
(* What the agent's methods do to the histories *)

Hist(a, c) == IF c = a.cur THEN a.msgs ELSE a.of[c]

\* What a context has before a message is appended: its history, or the start of a new one.
Stem(a, c) == IF a.of[c] = <<>> THEN Prefix(a.msgs, a.boot) ELSE Hist(a, c)

\* b is a after a step that appends a message of M at most to each history.
Moves(a, b, M) ==
    \A d \in Ctx :
        \/ a.of[d] = <<>> /\ b.of[d] = <<>>
        \/ /\ b.of[d] # <<>>
           /\ b.saved[d] = IF a.of[d] = <<>> THEN 0 ELSE a.saved[d]
           /\ Hist(b, d) = Stem(a, d) \/ \E m \in M : Hist(b, d) = Append(Stem(a, d), m)

\* b is a after a step that put m behind what contextMsgs holds of the current context.
Rewinds(a, b, m) ==
    /\ b.saved = a.saved /\ b.cur = a.cur
    /\ b.msgs = Append(a.of[a.cur], m)
    /\ \A d \in Ctx : b.of[d] = IF d = a.cur THEN b.msgs ELSE a.of[d]

\* The memory of a context is a message of its own kind.
LEMMA HotIs ==
    ASSUME NEW c \in Ctx
    PROVE  Hot(c) \in Message /\ Hot(c).kind = "hot" /\ Hot(c).ctx = c
<1>1. "hot" \in Kind /\ 0 \in Nat
      BY DEF Kind
<1> QED BY <1>1, MsgIs DEF Hot

\* A message is appended to a history that has messages.
LEMMA StemIs ==
    ASSUME NEW a, NEW c \in Ctx, Live(a)
    PROVE  Stem(a, c) \in Seq(Message) /\ Stem(a, c) # <<>>
<1>1. a.msgs \in Seq(Message) /\ a.of[c] \in Seq(Message) /\ a.boot \in Nat /\ a.boot >= 1 /\ a.msgs # <<>>
      BY AgentIs DEF Live
<1> QED BY <1>1, PrefixIs DEF Stem, Hist

\* InitContext: a new context starts with the bootstrap, and no watermark.
LEMMA InitContextIs ==
    ASSUME NEW a, NEW c \in Ctx, Live(a)
    PROVE  LET b == InitContext(a, c) IN
           /\ b.msgs = a.msgs /\ b.cur = a.cur /\ b.boot = a.boot /\ b.injected = a.injected
           /\ \A d \in Ctx : b.of[d] = IF d = c /\ a.of[c] = <<>> THEN Prefix(a.msgs, a.boot) ELSE a.of[d]
           /\ \A d \in Ctx : b.saved[d] = IF d = c /\ a.of[c] = <<>> THEN 0 ELSE a.saved[d]
<1> DEFINE b == InitContext(a, c)
           h == Prefix(a.msgs, a.boot)
<1>1. CASE a.of[c] # <<>>
      BY <1>1 DEF InitContext
<1>2. CASE a.of[c] = <<>>
  <2>1. b = [a EXCEPT !.of[c] = h, !.saved[c] = 0] /\ a \in AgentState
        BY <1>2 DEF InitContext, Live
  <2>2. a.of \in [Ctx -> Seq(Message)] /\ a.saved \in [Ctx -> Nat]
        BY <2>1, AgentIs
  <2> HIDE DEF h, b
  <2>3. /\ b.msgs = a.msgs /\ b.cur = a.cur /\ b.boot = a.boot /\ b.injected = a.injected
        /\ b.of = [a.of EXCEPT ![c] = h] /\ b.saved = [a.saved EXCEPT ![c] = 0]
        BY <2>1 DEF AgentState
  <2> QED BY <1>2, <2>2, <2>3 DEF h, b
<1> QED BY <1>1, <1>2

\* SetContext: the history that is left goes into contextMsgs.
LEMMA SetContextIs ==
    ASSUME NEW a, NEW c \in Ctx, Live(a)
    PROVE  LET b == SetContext(a, c) IN
           /\ b.cur = c /\ b.boot = a.boot /\ b.injected = a.injected /\ b.saved = a.saved
           /\ b.msgs = IF c = a.cur THEN a.msgs ELSE a.of[c]
           /\ \A d \in Ctx : b.of[d] = IF d = a.cur /\ c # a.cur THEN a.msgs ELSE a.of[d]
<1> DEFINE b == SetContext(a, c)
<1>1. CASE c = a.cur
      BY <1>1 DEF SetContext
<1>2. CASE c # a.cur
  <2>1. b = [a EXCEPT !.of[a.cur] = a.msgs, !.cur = c, !.msgs = a.of[c]] /\ a \in AgentState
        BY <1>2 DEF SetContext, Live
  <2>2. a.of \in [Ctx -> Seq(Message)] /\ a.cur \in Ctx
        BY <2>1, AgentIs
  <2> HIDE DEF b
  <2>3. /\ b.msgs = a.of[c] /\ b.cur = c /\ b.boot = a.boot /\ b.injected = a.injected
        /\ b.saved = a.saved /\ b.of = [a.of EXCEPT ![a.cur] = a.msgs]
        BY <2>1 DEF AgentState
  <2> QED BY <1>2, <2>2, <2>3 DEF b
<1> QED BY <1>1, <1>2

\* SetScope: memory that was not injected yet goes into messages, not into contextMsgs.
LEMMA SetScopeIs ==
    ASSUME NEW a, NEW c \in Ctx, Live(a)
    PROVE  LET b == SetScope(a, c) IN
           /\ b.cur = a.cur /\ b.boot = a.boot /\ b.saved = a.saved /\ b.of = a.of
           /\ b.injected = a.injected \cup ({c} \cap HotCtx)
           /\ b.msgs = IF c \in HotCtx \ a.injected THEN Append(a.msgs, Hot(c)) ELSE a.msgs
<1> DEFINE b == SetScope(a, c)
<1>a. a \in AgentState
      BY DEF Live
<1>1. CASE c \notin HotCtx \ a.injected
  <2>1. b = [a EXCEPT !.scope = c]
        BY <1>1 DEF SetScope
  <2> HIDE DEF b
  <2>2. /\ b.msgs = a.msgs /\ b.cur = a.cur /\ b.of = a.of /\ b.injected = a.injected
        /\ b.boot = a.boot /\ b.saved = a.saved
        BY <2>1, <1>a DEF AgentState
  <2>3. a.injected = a.injected \cup ({c} \cap HotCtx)
        BY <1>1
  <2> QED BY <1>1, <2>2, <2>3 DEF b
<1>2. CASE c \in HotCtx \ a.injected
  <2> DEFINE g == Append(a.msgs, Hot(c))
             I == a.injected \cup {c}
  <2>1. b = [a EXCEPT !.scope = c, !.injected = I, !.msgs = g]
        BY <1>2 DEF SetScope
  <2> HIDE DEF b, g, I
  <2>2. /\ b.msgs = g /\ b.cur = a.cur /\ b.of = a.of /\ b.injected = I
        /\ b.boot = a.boot /\ b.saved = a.saved
        BY <2>1, <1>a DEF AgentState
  <2>3. I = a.injected \cup ({c} \cap HotCtx)
        BY <1>2 DEF I
  <2> QED BY <1>2, <2>2, <2>3 DEF b, g
<1> QED BY <1>1, <1>2

\* The three of them, as a turn or a change of focus calls them.
LEMMA EnterIs ==
    ASSUME NEW a, NEW c \in Ctx, Live(a)
    PROVE  LET b == Enter(a, c) IN
           /\ b.cur = c /\ b.boot = a.boot
           /\ b.injected = a.injected \cup ({c} \cap HotCtx)
           /\ b.msgs = IF c \in HotCtx \ a.injected THEN Append(Stem(a, c), Hot(c)) ELSE Stem(a, c)
           /\ b.of[c] = IF c = a.cur THEN a.of[c] ELSE Stem(a, c)
           /\ \A d \in Ctx : d # c => b.of[d] = Hist(a, d)
           /\ \A d \in Ctx : b.saved[d] = IF d = c /\ a.of[c] = <<>> THEN 0 ELSE a.saved[d]
<1> DEFINE i == InitContext(a, c)
           s == SetContext(i, c)
           b == Enter(a, c)
<1>1. /\ Live(i) /\ i.of[c] # <<>>
      /\ i.msgs = a.msgs /\ i.cur = a.cur /\ i.boot = a.boot /\ i.injected = a.injected
      /\ \A d \in Ctx : i.of[d] = IF d = c /\ a.of[c] = <<>> THEN Prefix(a.msgs, a.boot) ELSE a.of[d]
      /\ \A d \in Ctx : i.saved[d] = IF d = c /\ a.of[c] = <<>> THEN 0 ELSE a.saved[d]
      BY InitContextFine, InitContextIs
<1> HIDE DEF i
<1>2. /\ Live(s)
      /\ s.cur = c /\ s.boot = i.boot /\ s.injected = i.injected /\ s.saved = i.saved
      /\ s.msgs = IF c = i.cur THEN i.msgs ELSE i.of[c]
      /\ \A d \in Ctx : s.of[d] = IF d = i.cur /\ c # i.cur THEN i.msgs ELSE i.of[d]
      BY <1>1, SetContextFine, SetContextIs
<1> HIDE DEF s
<1>3. b = SetScope(s, c)
      BY DEF Enter, s, i
<1> HIDE DEF b
<1>4. /\ b.cur = s.cur /\ b.boot = s.boot /\ b.saved = s.saved /\ b.of = s.of
      /\ b.injected = s.injected \cup ({c} \cap HotCtx)
      /\ b.msgs = IF c \in HotCtx \ s.injected THEN Append(s.msgs, Hot(c)) ELSE s.msgs
      BY <1>2, <1>3, SetScopeIs
<1>5. a.cur \in Ctx /\ a.of[a.cur] # <<>>
      BY AgentIs DEF Live
<1>6. s.msgs = Stem(a, c)
      BY <1>1, <1>2, <1>5 DEF Stem, Hist
<1>7. b.of[c] = IF c = a.cur THEN a.of[c] ELSE Stem(a, c)
      BY <1>1, <1>2, <1>4, <1>5 DEF Stem, Hist
<1>8. \A d \in Ctx : d # c => b.of[d] = Hist(a, d)
      BY <1>1, <1>2, <1>4 DEF Hist
<1> QED BY <1>1, <1>2, <1>4, <1>6, <1>7, <1>8 DEF b

\* appendMessagesLocked.
LEMMA AppendMessageIs ==
    ASSUME NEW a, NEW m \in Message, Live(a)
    PROVE  LET b == AppendMessage(a, m) IN
           /\ b.cur = a.cur /\ b.boot = a.boot /\ b.injected = a.injected /\ b.saved = a.saved
           /\ b.msgs = Append(a.msgs, m)
           /\ \A d \in Ctx : b.of[d] = IF d = a.cur THEN b.msgs ELSE a.of[d]
<1> DEFINE b == AppendMessage(a, m)
           g == Append(a.msgs, m)
<1>1. b = [a EXCEPT !.msgs = g, !.of[a.cur] = g] /\ a \in AgentState
      BY DEF AppendMessage, Live
<1>2. a.of \in [Ctx -> Seq(Message)] /\ a.cur \in Ctx
      BY <1>1, AgentIs
<1> HIDE DEF b, g
<1>3. /\ b.msgs = g /\ b.cur = a.cur /\ b.boot = a.boot /\ b.injected = a.injected
      /\ b.saved = a.saved /\ b.of = [a.of EXCEPT ![a.cur] = g]
      BY <1>1 DEF AgentState
<1> QED BY <1>2, <1>3 DEF b, g

\* InjectNoteInContext: the note goes behind what contextMsgs holds.
LEMMA InjectNoteIs ==
    ASSUME NEW a, NEW c \in Ctx, NEW m \in Message, Live(a)
    PROVE  LET b == InjectNote(a, c, m)
               o == IF a.of[c] = <<>> THEN Prefix(a.msgs, a.boot) ELSE a.of[c]
           IN
           /\ b.cur = a.cur /\ b.boot = a.boot /\ b.injected = a.injected
           /\ b.msgs = IF c = a.cur THEN Append(o, m) ELSE a.msgs
           /\ \A d \in Ctx : b.of[d] = IF d = c THEN Append(o, m) ELSE a.of[d]
           /\ \A d \in Ctx : b.saved[d] = IF d = c /\ a.of[c] = <<>> THEN 0 ELSE a.saved[d]
<1> DEFINE i == InitContext(a, c)
           g == Append(i.of[c], m)
           b == InjectNote(a, c, m)
           o == IF a.of[c] = <<>> THEN Prefix(a.msgs, a.boot) ELSE a.of[c]
<1>1. /\ Live(i)
      /\ i.msgs = a.msgs /\ i.cur = a.cur /\ i.boot = a.boot /\ i.injected = a.injected
      /\ \A d \in Ctx : i.of[d] = IF d = c /\ a.of[c] = <<>> THEN Prefix(a.msgs, a.boot) ELSE a.of[d]
      /\ \A d \in Ctx : i.saved[d] = IF d = c /\ a.of[c] = <<>> THEN 0 ELSE a.saved[d]
      BY InitContextFine, InitContextIs
<1>2. b = [i EXCEPT !.of[c] = g, !.msgs = IF c = i.cur THEN g ELSE i.msgs]
      BY DEF InjectNote
<1> HIDE DEF i, b, g
<1>3. i \in AgentState /\ i.of \in [Ctx -> Seq(Message)]
      BY <1>1, AgentIs DEF Live
<1>4. /\ b.msgs = (IF c = i.cur THEN g ELSE i.msgs) /\ b.cur = i.cur /\ b.boot = i.boot
      /\ b.injected = i.injected /\ b.saved = i.saved /\ b.of = [i.of EXCEPT ![c] = g]
      BY <1>2, <1>3 DEF AgentState
<1>5. g = Append(o, m)
      BY <1>1 DEF g
<1> HIDE DEF o
<1>6. \A d \in Ctx : b.of[d] = IF d = c THEN Append(o, m) ELSE a.of[d]
      BY <1>1, <1>3, <1>4, <1>5
<1> QED BY <1>1, <1>4, <1>5, <1>6 DEF b, o

\* The memory that Enter(a, c) puts into the history of c.
NewHot(a, c) == {Hot(d) : d \in ({c} \cap HotCtx) \ a.injected}

\* Going to a context appends its memory at most.
LEMMA EnterMoves ==
    ASSUME NEW a, NEW c \in Ctx, Live(a)
    PROVE  Moves(a, Enter(a, c), NewHot(a, c))
<1> DEFINE b == Enter(a, c)
<1>1. /\ b.cur = c
      /\ b.msgs = IF c \in HotCtx \ a.injected THEN Append(Stem(a, c), Hot(c)) ELSE Stem(a, c)
      /\ b.of[c] = IF c = a.cur THEN a.of[c] ELSE Stem(a, c)
      /\ \A d \in Ctx : d # c => b.of[d] = Hist(a, d)
      /\ \A d \in Ctx : b.saved[d] = IF d = c /\ a.of[c] = <<>> THEN 0 ELSE a.saved[d]
      BY EnterIs
<1> HIDE DEF b
<1>2. a.of[a.cur] # <<>> /\ a.msgs # <<>> /\ Stem(a, c) # <<>>
      BY StemIs DEF Live
<1>3. ASSUME NEW d \in Ctx, d # c, a.of[d] = <<>> PROVE b.of[d] = <<>>
      BY <1>1, <1>2, <1>3 DEF Hist
<1>4. ASSUME NEW d \in Ctx, d # c, a.of[d] # <<>>
      PROVE  b.of[d] # <<>> /\ b.saved[d] = a.saved[d] /\ Hist(b, d) = Stem(a, d)
      BY <1>1, <1>2, <1>4 DEF Hist, Stem
<1>5. b.of[c] # <<>> /\ b.saved[c] = (IF a.of[c] = <<>> THEN 0 ELSE a.saved[c])
      BY <1>1, <1>2
<1>6. Hist(b, c) = Stem(a, c) \/ \E m \in NewHot(a, c) : Hist(b, c) = Append(Stem(a, c), m)
  <2>1. CASE c \in HotCtx \ a.injected
    <3>1. Hot(c) \in NewHot(a, c)
          BY <2>1 DEF NewHot
    <3> QED BY <2>1, <3>1, <1>1 DEF Hist
  <2>2. CASE c \notin HotCtx \ a.injected
        BY <2>2, <1>1 DEF Hist
  <2> QED BY <2>1, <2>2
<1> QED BY <1>3, <1>4, <1>5, <1>6 DEF Moves, b

\* A prompt or an answer appends one message.
LEMMA AppendMoves ==
    ASSUME NEW a, NEW m \in Message, Live(a)
    PROVE  Moves(a, AppendMessage(a, m), {m})
<1> DEFINE b == AppendMessage(a, m)
<1>1. /\ b.cur = a.cur /\ b.saved = a.saved /\ b.msgs = Append(a.msgs, m)
      /\ \A d \in Ctx : b.of[d] = IF d = a.cur THEN b.msgs ELSE a.of[d]
      BY AppendMessageIs
<1> HIDE DEF b
<1>2. a.of[a.cur] # <<>> /\ a.msgs \in Seq(Message)
      BY AgentIs DEF Live
<1>3. b.msgs # <<>>
      BY <1>1, <1>2, AppendProperties
<1>4. ASSUME NEW d \in Ctx, a.of[d] # <<>>
      PROVE  /\ b.of[d] # <<>> /\ b.saved[d] = a.saved[d]
             /\ Hist(b, d) = Stem(a, d) \/ Hist(b, d) = Append(Stem(a, d), m)
      BY <1>1, <1>2, <1>3, <1>4 DEF Hist, Stem
<1>5. ASSUME NEW d \in Ctx, a.of[d] = <<>> PROVE b.of[d] = <<>>
      BY <1>1, <1>2, <1>5
<1> QED BY <1>4, <1>5 DEF Moves, b

\* A note appends one message, except where messages is ahead of contextMsgs.
LEMMA NoteMoves ==
    ASSUME NEW a, NEW c \in Ctx, NEW m \in Message, Live(a)
    PROVE  /\ c # a.cur \/ a.of[c] = a.msgs => Moves(a, InjectNote(a, c, m), {m})
           /\ c = a.cur => Rewinds(a, InjectNote(a, c, m), m)
<1> DEFINE b == InjectNote(a, c, m)
           o == IF a.of[c] = <<>> THEN Prefix(a.msgs, a.boot) ELSE a.of[c]
<1>1. /\ b.cur = a.cur
      /\ b.msgs = IF c = a.cur THEN Append(o, m) ELSE a.msgs
      /\ \A d \in Ctx : b.of[d] = IF d = c THEN Append(o, m) ELSE a.of[d]
      /\ \A d \in Ctx : b.saved[d] = IF d = c /\ a.of[c] = <<>> THEN 0 ELSE a.saved[d]
      BY InjectNoteIs
<1>2. a.of[a.cur] # <<>> /\ a.msgs \in Seq(Message) /\ a.of[c] \in Seq(Message) /\ a.boot \in Nat
      /\ a.saved \in [Ctx -> Nat] /\ b.saved \in [Ctx -> Nat]
      BY AgentIs, InjectNoteFine DEF Live
<1> HIDE DEF b
<1>3. o \in Seq(Message)
      BY <1>2, PrefixIs
<1> HIDE DEF o
<1>4. Append(o, m) # <<>>
      BY <1>3, AppendProperties
<1>5. ASSUME c # a.cur \/ a.of[c] = a.msgs, NEW d \in Ctx, d # c
      PROVE  \/ a.of[d] = <<>> /\ b.of[d] = <<>>
             \/ b.of[d] # <<>> /\ a.of[d] # <<>> /\ b.saved[d] = a.saved[d] /\ Hist(b, d) = Stem(a, d)
      BY <1>1, <1>2, <1>5 DEF Hist, Stem
<1>6. ASSUME c # a.cur \/ a.of[c] = a.msgs
      PROVE  /\ b.of[c] # <<>> /\ b.saved[c] = (IF a.of[c] = <<>> THEN 0 ELSE a.saved[c])
             /\ Hist(b, c) = Append(Stem(a, c), m)
  <2>1. Hist(b, c) = Append(o, m)
        BY <1>1 DEF Hist
  <2>2. o = Stem(a, c)
        BY <1>6, <1>2 DEF o, Stem, Hist
  <2> QED BY <2>1, <2>2, <1>1, <1>4
<1>7. ASSUME c = a.cur PROVE Rewinds(a, b, m)
  <2>1. o = a.of[c]
        BY <1>7, <1>2 DEF o
  <2>2. \A d \in Ctx : b.saved[d] = a.saved[d]
        BY <1>7, <1>1, <1>2
  <2> QED BY <2>1, <2>2, <1>1, <1>2, <1>7 DEF Rewinds
<1> QED BY <1>5, <1>6, <1>7 DEF Moves, b

-----------------------------------------------------------------------------
(* What histories are made of *)

Within(h, U) == \A i \in 1 .. Len(h) : h[i] \in U
AgentWithin(a, U) == Within(a.msgs, U) /\ \A c \in Ctx : Within(a.of[c], U)
LogWithin(log, U) == \A i \in 1 .. Len(log) : log[i].msg \in U
SysFirst(a) == a.msgs[1] = Sys /\ \A c \in Ctx : a.of[c] # <<>> => a.of[c][1] = Sys

\* What a history has after an append.
LEMMA AppendIs ==
    ASSUME NEW h \in Seq(Message), NEW m \in Message
    PROVE  /\ Append(h, m) \in Seq(Message) /\ Append(h, m) # <<>>
           /\ Len(h) \in Nat /\ Len(Append(h, m)) = Len(h) + 1
           /\ \A i \in 1 .. Len(h) : Append(h, m)[i] = h[i]
           /\ Append(h, m)[Len(h) + 1] = m
           /\ \A i \in 1 .. Len(h) + 1 : i \in 1 .. Len(h) \/ i = Len(h) + 1
<1>1. Len(h) \in Nat
      BY LenProperties
<1>2. \A i \in 1 .. Len(h) + 1 : i \in 1 .. Len(h) \/ i = Len(h) + 1
      BY <1>1
<1> QED BY <1>1, <1>2, AppendProperties

\* An append stays within the messages of U.
LEMMA AppendWithin ==
    ASSUME NEW h \in Seq(Message), NEW m \in Message, NEW U, Within(h, U), m \in U
    PROVE  Within(Append(h, m), U)
BY AppendIs DEF Within

\* A history that is not empty has a first message.
LEMMA NotEmpty ==
    ASSUME NEW h \in Seq(Message), h # <<>>
    PROVE  Len(h) \in Nat /\ Len(h) >= 1 /\ 1 \in 1 .. Len(h)
BY EmptySeq, LenProperties

\* An append leaves the first message,
LEMMA AppendFirst ==
    ASSUME NEW h \in Seq(Message), NEW m \in Message, h # <<>>
    PROVE  Append(h, m)[1] = h[1]
BY AppendIs, NotEmpty

\* and so does taking a prefix.
LEMMA PrefixFirst ==
    ASSUME NEW h \in Seq(Message), NEW n \in Nat, n >= 1, h # <<>>
    PROVE  Prefix(h, n)[1] = h[1]
BY PrefixIs, NotEmpty

\* A prefix stays within the messages of U,
LEMMA PrefixWithin ==
    ASSUME NEW h \in Seq(Message), NEW n \in Nat, NEW U, Within(h, U)
    PROVE  Within(Prefix(h, n), U)
<1>1. Len(h) \in Nat /\ Prefix(h, n) \in Seq(Message)
      BY PrefixIs, LenProperties
<1>2. \A i \in 1 .. Len(Prefix(h, n)) : i \in 1 .. Len(h) /\ Prefix(h, n)[i] = h[i]
      BY <1>1, PrefixIs
<1> QED BY <1>2 DEF Within

\* and so does the start of a new context,
LEMMA StemWithin ==
    ASSUME NEW a, NEW c \in Ctx, Live(a), NEW U, AgentWithin(a, U)
    PROVE  Within(Stem(a, c), U)
<1>1. a.msgs \in Seq(Message) /\ a.boot \in Nat
      BY AgentIs DEF Live
<1> QED BY <1>1, PrefixWithin DEF Stem, Hist, AgentWithin

\* whose first message is the system prompt.
LEMMA StemFirst ==
    ASSUME NEW a, NEW c \in Ctx, Live(a), SysFirst(a)
    PROVE  Stem(a, c)[1] = Sys
<1>1. a.msgs \in Seq(Message) /\ a.boot \in Nat /\ a.msgs # <<>> /\ a.boot >= 1
      BY AgentIs DEF Live
<1> QED BY <1>1, PrefixFirst DEF Stem, Hist, SysFirst

\* Going to a context brings in its memory and nothing else.
LEMMA EnterWithin ==
    ASSUME NEW a, NEW c \in Ctx, Live(a)
    PROVE  LET b == Enter(a, c) IN
           /\ \A U : AgentWithin(a, U) /\ NewHot(a, c) \subseteq U => AgentWithin(b, U)
           /\ SysFirst(a) => SysFirst(b)
<1> DEFINE b == Enter(a, c)
           h == Stem(a, c)
<1>1. /\ b.cur = c
      /\ b.msgs = IF c \in HotCtx \ a.injected THEN Append(h, Hot(c)) ELSE h
      /\ b.of[c] = IF c = a.cur THEN a.of[c] ELSE h
      /\ \A d \in Ctx : d # c => b.of[d] = Hist(a, d)
      BY EnterIs
<1> HIDE DEF b
<1>2. h \in Seq(Message) /\ h # <<>> /\ Hot(c) \in Message
      BY StemIs, HotIs
<1>3. ASSUME NEW U, AgentWithin(a, U), NewHot(a, c) \subseteq U PROVE AgentWithin(b, U)
  <2>1. Within(h, U)
        BY <1>3, StemWithin
  <2> HIDE DEF h
  <2>2. c \in HotCtx \ a.injected => Hot(c) \in U
        BY <1>3 DEF NewHot
  <2>3. Within(b.msgs, U)
        BY <2>1, <2>2, <1>1, <1>2, AppendWithin
  <2>4. ASSUME NEW d \in Ctx PROVE Within(b.of[d], U)
        BY <2>1, <1>1, <1>3 DEF Hist, AgentWithin
  <2> QED BY <2>3, <2>4 DEF AgentWithin
<1>4. ASSUME SysFirst(a) PROVE SysFirst(b)
  <2>1. h[1] = Sys
        BY <1>4, StemFirst
  <2> HIDE DEF h
  <2>2. b.msgs[1] = Sys
        BY <2>1, <1>1, <1>2, AppendFirst
  <2>3. ASSUME NEW d \in Ctx, b.of[d] # <<>> PROVE b.of[d][1] = Sys
        BY <2>1, <2>3, <1>1, <1>4 DEF Hist, SysFirst
  <2> QED BY <2>2, <2>3 DEF SysFirst
<1> QED BY <1>3, <1>4 DEF b

\* A turn's message is all that its append brings in.
LEMMA AppendMessageWithin ==
    ASSUME NEW a, NEW m \in Message, Live(a)
    PROVE  LET b == AppendMessage(a, m) IN
           /\ \A U : AgentWithin(a, U) /\ m \in U => AgentWithin(b, U)
           /\ SysFirst(a) => SysFirst(b)
<1> DEFINE b == AppendMessage(a, m)
<1>1. /\ b.msgs = Append(a.msgs, m)
      /\ \A d \in Ctx : b.of[d] = IF d = a.cur THEN b.msgs ELSE a.of[d]
      BY AppendMessageIs
<1> HIDE DEF b
<1>2. a.msgs \in Seq(Message) /\ a.msgs # <<>>
      BY AgentIs DEF Live
<1>3. ASSUME NEW U, AgentWithin(a, U), m \in U PROVE AgentWithin(b, U)
  <2>1. Within(b.msgs, U)
        BY <1>1, <1>2, <1>3, AppendWithin DEF AgentWithin
  <2> QED BY <2>1, <1>1, <1>3 DEF AgentWithin
<1>4. ASSUME SysFirst(a) PROVE SysFirst(b)
  <2>1. b.msgs[1] = Sys
        BY <1>1, <1>2, <1>4, AppendFirst DEF SysFirst
  <2> QED BY <2>1, <1>1, <1>4 DEF SysFirst
<1> QED BY <1>3, <1>4 DEF b

\* A note is all that InjectNoteInContext brings in.
LEMMA NoteWithin ==
    ASSUME NEW a, NEW c \in Ctx, NEW m \in Message, Live(a)
    PROVE  LET b == InjectNote(a, c, m) IN
           /\ \A U : AgentWithin(a, U) /\ m \in U => AgentWithin(b, U)
           /\ SysFirst(a) => SysFirst(b)
<1> DEFINE b == InjectNote(a, c, m)
           o == IF a.of[c] = <<>> THEN Prefix(a.msgs, a.boot) ELSE a.of[c]
<1>1. /\ b.msgs = IF c = a.cur THEN Append(o, m) ELSE a.msgs
      /\ \A d \in Ctx : b.of[d] = IF d = c THEN Append(o, m) ELSE a.of[d]
      BY InjectNoteIs
<1>2. a.msgs \in Seq(Message) /\ a.msgs # <<>> /\ a.of[c] \in Seq(Message) /\ a.boot \in Nat /\ a.boot >= 1
      BY AgentIs DEF Live
<1>3. o \in Seq(Message) /\ o # <<>>
      BY <1>2, PrefixIs
<1> HIDE DEF b
<1>4. ASSUME NEW U, AgentWithin(a, U), m \in U PROVE AgentWithin(b, U)
  <2>1. Within(o, U)
        BY <1>2, <1>4, PrefixWithin DEF AgentWithin
  <2> HIDE DEF o
  <2>2. Within(Append(o, m), U)
        BY <2>1, <1>3, <1>4, AppendWithin
  <2> QED BY <2>2, <1>1, <1>4 DEF AgentWithin
<1>5. ASSUME SysFirst(a) PROVE SysFirst(b)
  <2>1. o[1] = Sys
        BY <1>2, <1>5, PrefixFirst DEF SysFirst
  <2> HIDE DEF o
  <2>2. Append(o, m)[1] = Sys
        BY <2>1, <1>3, AppendFirst
  <2> QED BY <2>2, <1>1, <1>5 DEF SysFirst
<1> QED BY <1>4, <1>5 DEF b

-----------------------------------------------------------------------------
(* More of the agent's methods *)

\* The watermark of a turn's end.
LEMMA SavedIs ==
    ASSUME NEW a, NEW c \in Ctx, Live(a)
    PROVE  LET b == Saved(a, c) IN
           /\ b.msgs = a.msgs /\ b.of = a.of /\ b.cur = a.cur /\ b.boot = a.boot
           /\ b.injected = a.injected
           /\ \A d \in Ctx : b.saved[d] = IF d = c THEN Len(a.msgs) ELSE a.saved[d]
<1> DEFINE b == Saved(a, c)
           n == Len(a.msgs)
<1>1. b = [a EXCEPT !.saved[c] = n] /\ a \in AgentState
      BY DEF Saved, Live
<1>2. n \in Nat /\ a.saved \in [Ctx -> Nat]
      BY <1>1, AgentIs, LenProperties
<1> HIDE DEF b, n
<1>3. /\ b.msgs = a.msgs /\ b.of = a.of /\ b.cur = a.cur /\ b.injected = a.injected
      /\ b.boot = a.boot /\ b.saved = [a.saved EXCEPT ![c] = n]
      BY <1>1 DEF AgentState
<1>4. \A d \in Ctx : b.saved[d] = IF d = c THEN n ELSE a.saved[d]
      BY <1>2, <1>3
<1> QED BY <1>3, <1>4 DEF b, n

\* A program's start: the bootstrap of #main, and the memory of the focused context.
LEMMA LaunchIs ==
    ASSUME NEW n \in Nat, NEW f \in Ctx
    PROVE  LET h == Bootstrap(n)
               b == SetScope(NewAgent(n, f), f)
           IN
           /\ Live(b) /\ b.cur = Main /\ b.boot = n + 1
           /\ b.injected = {f} \cap HotCtx
           /\ b.msgs = IF f \in HotCtx THEN Append(h, Hot(f)) ELSE h
           /\ \A d \in Ctx : b.of[d] = IF d = Main THEN h ELSE <<>>
           /\ \A d \in Ctx : b.saved[d] = 0
<1> DEFINE a == NewAgent(n, f)
           h == Bootstrap(n)
           b == SetScope(a, f)
<1>1. Live(a) /\ a.boot = n + 1 /\ a.cur = Main /\ \A d \in Ctx : a.saved[d] = 0
      BY NewAgentFine
<1>2. /\ a.msgs = h /\ a.injected = {}
      /\ \A d \in Ctx : a.of[d] = IF d = Main THEN h ELSE <<>>
  <2> HIDE DEF h
  <2>1. a = [msgs |-> h, of |-> [d \in Ctx |-> IF d = Main THEN h ELSE <<>>],
             cur |-> Main, saved |-> [d \in Ctx |-> 0], boot |-> n + 1,
             injected |-> {}, scope |-> f, base |-> n]
        BY DEF NewAgent, h
  <2> HIDE DEF a
  <2> QED BY <2>1
<1> HIDE DEF a, h
<1>3. /\ b.cur = a.cur /\ b.boot = a.boot /\ b.saved = a.saved /\ b.of = a.of
      /\ b.injected = a.injected \cup ({f} \cap HotCtx)
      /\ b.msgs = IF f \in HotCtx \ a.injected THEN Append(a.msgs, Hot(f)) ELSE a.msgs
      BY <1>1, SetScopeIs
<1>4. Live(b)
      BY <1>1, SetScopeFine
<1> HIDE DEF b
<1>5. b.msgs = IF f \in HotCtx THEN Append(h, Hot(f)) ELSE h
      BY <1>2, <1>3
<1> QED BY <1>1, <1>2, <1>3, <1>4, <1>5 DEF a, h, b

\* RestoreMessages, with the watermark of #main.
LEMMA RestoredIs ==
    ASSUME NEW a, NEW h \in Seq(Message), NEW k \in Nat, Live(a)
    PROVE  LET b == [RestoreMessages(a, h) EXCEPT !.saved[Main] = k] IN
           /\ b.msgs = Forced(h) /\ b.injected = HotIn(h) /\ b.cur = a.cur
           /\ \A d \in Ctx : b.of[d] = IF d = a.cur THEN Forced(h) ELSE a.of[d]
<1> DEFINE f == Forced(h)
           s == HotIn(h)
           r == RestoreMessages(a, h)
           b == [r EXCEPT !.saved[Main] = k]
<1>1. a \in AgentState /\ a.cur \in Ctx /\ a.of \in [Ctx -> Seq(Message)]
      BY AgentIs DEF Live
<1>2. f \in Seq(Message) /\ s \in SUBSET Ctx
      BY ForcedFine, HotInIs
<1>3. r = [a EXCEPT !.msgs = f, !.of[a.cur] = f, !.boot = 1, !.injected = s]
      BY DEF RestoreMessages
<1>4. b = [r EXCEPT !.saved[Main] = k]
      OBVIOUS
<1> HIDE DEF f, s, r, b
<1>5. /\ r \in AgentState /\ r.msgs = f /\ r.injected = s /\ r.cur = a.cur
      /\ r.of = [a.of EXCEPT ![a.cur] = f]
      BY <1>1, <1>2, <1>3 DEF AgentState
<1>6. b.msgs = f /\ b.injected = s /\ b.cur = a.cur /\ b.of = [a.of EXCEPT ![a.cur] = f]
      BY <1>4, <1>5 DEF AgentState
<1>7. \A d \in Ctx : b.of[d] = IF d = a.cur THEN f ELSE a.of[d]
      BY <1>1, <1>6
<1> QED BY <1>6, <1>7 DEF f, s, b, r

\* What ResumeSession restores: the groups of the log, with their watermarks.
LEMMA ResumedIs ==
    ASSUME NEW a, NEW log \in Seq(Entry), Live(a)
    PROVE  LET b == Resumed(a, log)
               G == Grouped(log)
           IN
           /\ b.cur = a.cur
           /\ b.msgs = IF Main \in G THEN Forced(Logged(log, Main)) ELSE a.msgs
           /\ \A c \in Ctx : b.of[c] = IF c \in G \ {Main} THEN Forced(Logged(log, c))
                                       ELSE IF c = a.cur /\ Main \in G
                                       THEN Forced(Logged(log, Main)) ELSE a.of[c]
           /\ \A c \in Ctx : b.saved[c] = IF c \in G THEN Len(Logged(log, c)) ELSE a.saved[c]
           /\ \A c : c \in b.injected <=>
                 \/ Main \notin G /\ c \in a.injected
                 \/ \E d \in G : c \in HotIn(Logged(log, d))
<1> DEFINE G == Grouped(log)
           R == G \ {Main}
           L(c) == Logged(log, c)
           m == IF Main \in G
                THEN [RestoreMessages(a, L(Main)) EXCEPT !.saved[Main] = Len(L(Main))]
                ELSE a
           b == Resumed(a, log)
           J == UNION {HotIn(L(c)) : c \in R}
<1>a. /\ a \in AgentState /\ a.cur \in Ctx /\ a.of \in [Ctx -> Seq(Message)]
      /\ a.saved \in [Ctx -> Nat] /\ Main \in Ctx
      BY AgentIs DEF Live, Ctx
<1>1. \A c : L(c) \in Seq(Message) /\ Len(L(c)) \in Nat
      BY LoggedIs, LenProperties
<1>2. /\ Live(m) /\ m.cur = a.cur
      /\ m.msgs = IF Main \in G THEN Forced(L(Main)) ELSE a.msgs
      /\ m.injected = IF Main \in G THEN HotIn(L(Main)) ELSE a.injected
      /\ \A c \in Ctx : m.of[c] = IF c = a.cur /\ Main \in G THEN Forced(L(Main)) ELSE a.of[c]
      /\ \A c \in Ctx : m.saved[c] = IF c = Main /\ Main \in G THEN Len(L(Main)) ELSE a.saved[c]
  <2>1. CASE Main \notin G
    <3>1. m = a
          BY <2>1
    <3> QED BY <2>1, <3>1
  <2>2. CASE Main \in G
    <3> DEFINE r == [RestoreMessages(a, L(Main)) EXCEPT !.saved[Main] = Len(L(Main))]
    <3>1. m = r
          BY <2>2
    <3>2. /\ Live(r)
          /\ r.boot = 1 /\ r.base = a.base
          /\ r.cur = a.cur /\ r.scope = a.scope
          /\ r.saved = [a.saved EXCEPT ![Main] = Len(L(Main))]
          /\ \A C : AgentFine(a, C) /\ (\A k \in 1 .. Len(L(Main)) : Own(L(Main)[k], a.cur, C))
                       => AgentFine(r, C)
          BY <1>1, RestoredFine
    <3>3. /\ r.msgs = Forced(L(Main)) /\ r.injected = HotIn(L(Main)) /\ r.cur = a.cur
          /\ \A d \in Ctx : r.of[d] = IF d = a.cur THEN Forced(L(Main)) ELSE a.of[d]
          BY <1>1, RestoredIs
    <3> HIDE DEF r, m, L
    <3>4. \A c \in Ctx : r.saved[c] = IF c = Main THEN Len(L(Main)) ELSE a.saved[c]
          BY <3>2, <1>a
    <3> QED BY <2>2, <3>1, <3>2, <3>3, <3>4
  <2> QED BY <2>1, <2>2
<1> DEFINE of == [c \in Ctx |-> IF c \in R THEN Forced(L(c)) ELSE m.of[c]]
           saved == [c \in Ctx |-> IF c \in R THEN Len(L(c)) ELSE m.saved[c]]
           I == m.injected \cup J
<1>3. b = [m EXCEPT !.of = of, !.saved = saved, !.injected = I]
      BY DEF Resumed
<1>4. J \in SUBSET Ctx
      BY <1>1, HotInIs
<1>5. \A c : c \in J <=> \E d \in R : c \in HotIn(L(d))
      OBVIOUS
<1> HIDE DEF m, b, J, L, G
<1>6. /\ m \in AgentState /\ m.of \in [Ctx -> Seq(Message)]
      /\ m.saved \in [Ctx -> Nat] /\ m.injected \in SUBSET Ctx
      BY <1>2, AgentIs DEF Live
<1>7. of \in [Ctx -> Seq(Message)] /\ saved \in [Ctx -> Nat] /\ I \in SUBSET Ctx
      BY <1>1, <1>4, <1>6, ForcedFine
<1>8. /\ \A c \in Ctx : of[c] = IF c \in R THEN Forced(L(c)) ELSE m.of[c]
      /\ \A c \in Ctx : saved[c] = IF c \in R THEN Len(L(c)) ELSE m.saved[c]
      /\ \A c : c \in I <=> c \in m.injected \/ c \in J
      OBVIOUS
<1> HIDE DEF of, saved, I
<1>9. /\ b.msgs = m.msgs /\ b.of = of /\ b.saved = saved /\ b.cur = m.cur
      /\ b.injected = I
      BY <1>3, <1>6, <1>7 DEF AgentState
<1>10. \A c \in Ctx : b.of[c] = IF c \in R THEN Forced(L(c))
                                ELSE IF c = a.cur /\ Main \in G THEN Forced(L(Main)) ELSE a.of[c]
       BY <1>2, <1>8, <1>9
<1>11. \A c \in Ctx : b.saved[c] = IF c \in G THEN Len(L(c)) ELSE a.saved[c]
       BY <1>2, <1>8, <1>9
<1>12. \A c : c \in b.injected <=>
                 \/ Main \notin G /\ c \in a.injected
                 \/ \E d \in G : c \in HotIn(L(d))
  <2>1. CASE Main \in G
    <3>1. \A c : (\E d \in G : c \in HotIn(L(d)))
                    <=> c \in HotIn(L(Main)) \/ \E d \in R : c \in HotIn(L(d))
          BY <2>1
    <3> QED BY <3>1, <2>1, <1>2, <1>5, <1>8, <1>9
  <2>2. CASE Main \notin G
    <3>1. R = G
          BY <2>2
    <3> QED BY <3>1, <2>2, <1>2, <1>5, <1>8, <1>9
  <2> QED BY <2>1, <2>2
<1> QED BY <1>2, <1>9, <1>10, <1>11, <1>12 DEF b, G, L

-----------------------------------------------------------------------------
(* The current history and its copy *)

\* At most one memory was added since the copy was made, and no more can be.
OneHot(a) == Len(a.msgs) = Len(a.of[a.cur]) + 1 /\ (a.cur \in HotCtx => a.cur \in a.injected)
Short(a) == a.msgs = a.of[a.cur] \/ OneHot(a)

\* What contextMsgs holds of the current context is a prefix of messages; the rest is memory.
Synced(a) ==
    /\ Len(a.of[a.cur]) <= Len(a.msgs)
    /\ \A i \in 1 .. Len(a.of[a.cur]) : a.msgs[i] = a.of[a.cur][i]
    /\ \A i \in 1 .. Len(a.msgs) : i > Len(a.of[a.cur]) => a.msgs[i].kind = "hot"
    /\ \A c \in Ctx : c # a.cur => a.saved[c] <= Len(a.of[c])
    /\ a.saved[a.cur] <= Len(a.of[a.cur]) \/ (a.saved[a.cur] = Len(a.msgs) /\ OneHot(a))

\* The parts of an agent's state that the lemmas below compare.
LEMMA PartsAre ==
    ASSUME NEW a, Live(a)
    PROVE  /\ a.msgs \in Seq(Message) /\ a.cur \in Ctx /\ a.boot \in Nat /\ a.boot >= 1
           /\ Len(a.msgs) \in Nat /\ Len(a.msgs) >= 1
           /\ a.msgs # <<>> /\ a.of[a.cur] # <<>>
           /\ \A c \in Ctx : a.of[c] \in Seq(Message) /\ Len(a.of[c]) \in Nat /\ a.saved[c] \in Nat
<1>1. /\ a.msgs \in Seq(Message) /\ a.cur \in Ctx /\ a.boot \in Nat /\ a.msgs # <<>>
      /\ a.of \in [Ctx -> Seq(Message)] /\ a.saved \in [Ctx -> Nat] /\ a.of[a.cur] # <<>>
      /\ a.boot >= 1
      BY AgentIs DEF Live
<1>2. Len(a.msgs) \in Nat /\ Len(a.msgs) >= 1
      BY <1>1, NotEmpty
<1>3. \A c \in Ctx : a.of[c] \in Seq(Message) /\ a.saved[c] \in Nat
      BY <1>1
<1>4. \A c \in Ctx : Len(a.of[c]) \in Nat
      BY <1>3, LenProperties
<1> QED BY <1>1, <1>2, <1>3, <1>4

\* The history of a context is a sequence of messages.
LEMMA HistIs ==
    ASSUME NEW a, NEW c \in Ctx, Live(a)
    PROVE  /\ Hist(a, c) \in Seq(Message) /\ Len(Hist(a, c)) \in Nat
           /\ a.of[c] # <<>> => Hist(a, c) # <<>>
BY PartsAre DEF Hist

\* An agent whose copy is up to date.
LEMMA SyncedIs ==
    ASSUME NEW a, Live(a), a.msgs = a.of[a.cur],
           \A c \in Ctx : a.saved[c] <= Len(a.of[c])
    PROVE  Synced(a) /\ Short(a)
BY PartsAre DEF Synced, Short

\* Going to a context leaves at most one memory that contextMsgs does not hold.
LEMMA EnterSynced ==
    ASSUME NEW a, NEW c \in Ctx, Live(a), Synced(a)
    PROVE  LET b == Enter(a, c) IN
           /\ Synced(b)
           /\ c # a.cur \/ Short(a) => Short(b)
<1> DEFINE b == Enter(a, c)
           S == Stem(a, c)
<1>1. /\ b.cur = c /\ b.injected = a.injected \cup ({c} \cap HotCtx)
      /\ b.msgs = IF c \in HotCtx \ a.injected THEN Append(S, Hot(c)) ELSE S
      /\ b.of[c] = IF c = a.cur THEN a.of[c] ELSE S
      /\ \A d \in Ctx : d # c => b.of[d] = Hist(a, d)
      /\ \A d \in Ctx : b.saved[d] = IF d = c /\ a.of[c] = <<>> THEN 0 ELSE a.saved[d]
      BY EnterIs
<1>2. /\ a.cur \in Ctx /\ Len(a.msgs) \in Nat /\ a.of[a.cur] # <<>>
      /\ \A d \in Ctx : Len(a.of[d]) \in Nat /\ a.saved[d] \in Nat
      BY PartsAre
<1>3. S \in Seq(Message) /\ Len(S) \in Nat /\ Hot(c) \in Message /\ Hot(c).kind = "hot"
      BY StemIs, LenProperties, HotIs
<1>4. /\ a.of[c] # <<>> => S = Hist(a, c)
      /\ Len(<<>>) = 0
      BY EmptySeq DEF Stem
<1> HIDE DEF b, S
<1>5. /\ Len(S) <= Len(b.msgs) /\ Len(b.msgs) \in Nat
      /\ \A i \in 1 .. Len(S) : b.msgs[i] = S[i]
      /\ \A i \in 1 .. Len(b.msgs) : i > Len(S) => b.msgs[i].kind = "hot"
      /\ b.msgs = S \/ Len(b.msgs) = Len(S) + 1
      /\ c \in HotCtx => c \in b.injected
      /\ c \in HotCtx /\ c \in a.injected => b.msgs = S
      /\ c \notin HotCtx => b.msgs = S
  <2>1. CASE c \in HotCtx \ a.injected
    <3> DEFINE g == Append(S, Hot(c))
    <3>1. /\ Len(g) = Len(S) + 1
          /\ \A i \in 1 .. Len(S) : g[i] = S[i]
          /\ g[Len(S) + 1] = Hot(c)
          /\ \A i \in 1 .. Len(S) + 1 : i \in 1 .. Len(S) \/ i = Len(S) + 1
          BY <1>3, AppendIs
    <3>2. b.msgs = g
          BY <2>1, <1>1
    <3> HIDE DEF g
    <3> QED BY <3>1, <3>2, <2>1, <1>1, <1>3
  <2>2. CASE c \notin HotCtx \ a.injected
        BY <2>2, <1>1, <1>3
  <2> QED BY <2>1, <2>2
<1>6. /\ Len(a.of[a.cur]) <= Len(a.msgs)
      /\ \A i \in 1 .. Len(a.of[a.cur]) : a.msgs[i] = a.of[a.cur][i]
      /\ \A i \in 1 .. Len(a.msgs) : i > Len(a.of[a.cur]) => a.msgs[i].kind = "hot"
      /\ \A d \in Ctx : d # a.cur => a.saved[d] <= Len(a.of[d])
      /\ a.saved[a.cur] <= Len(a.of[a.cur]) \/ (a.saved[a.cur] = Len(a.msgs) /\ OneHot(a))
      BY DEF Synced
<1>7. \A d \in Ctx : a.saved[d] <= Len(Hist(a, d))
      BY <1>2, <1>6 DEF Hist
<1>8. \A d \in Ctx : d # c => b.saved[d] <= Len(b.of[d])
      BY <1>1, <1>7
<1>9. CASE c = a.cur
  <2>1. S = a.msgs /\ b.of[c] = a.of[c] /\ b.saved[c] = a.saved[c]
        BY <1>9, <1>1, <1>2, <1>4 DEF Hist
  <2>2. OneHot(a) => b.msgs = S /\ OneHot(b)
        BY <2>1, <1>1, <1>5, <1>9 DEF OneHot
  <2>3. b.saved[c] <= Len(b.of[c]) \/ (b.saved[c] = Len(b.msgs) /\ OneHot(b))
        BY <2>1, <2>2, <1>6, <1>9
  <2>4. /\ Len(b.of[c]) <= Len(b.msgs)
        /\ \A i \in 1 .. Len(b.of[c]) : b.msgs[i] = b.of[c][i]
    <3>1. \A i \in 1 .. Len(a.of[c]) : i \in 1 .. Len(S)
          BY <2>1, <1>2, <1>6, <1>9
    <3> QED BY <3>1, <2>1, <1>2, <1>5, <1>6, <1>9
  <2>5. \A i \in 1 .. Len(b.msgs) : i > Len(b.of[c]) => b.msgs[i].kind = "hot"
    <3> SUFFICES ASSUME NEW i \in 1 .. Len(b.msgs), i > Len(a.of[c]) PROVE b.msgs[i].kind = "hot"
        BY <2>1
    <3>1. CASE i > Len(S)
          BY <3>1, <1>5
    <3>2. CASE ~ (i > Len(S))
      <4>1. i \in 1 .. Len(S)
            BY <3>2, <1>3, <1>5
      <4> QED BY <4>1, <2>1, <1>5, <1>6, <1>9
    <3> QED BY <3>1, <3>2
  <2>6. Synced(b)
        BY <2>3, <2>4, <2>5, <1>1, <1>8 DEF Synced
  <2>7. Short(a) => Short(b)
        BY <2>1, <2>2, <1>1, <1>5, <1>9 DEF Short, OneHot
  <2> QED BY <2>6, <2>7, <1>9 DEF b
<1>10. CASE c # a.cur
  <2>1. b.of[c] = S
        BY <1>10, <1>1
  <2>2. b.saved[c] <= Len(S)
    <3>1. CASE a.of[c] = <<>>
          BY <3>1, <1>1, <1>3
    <3>2. CASE a.of[c] # <<>>
          BY <3>2, <1>1, <1>4, <1>7
    <3> QED BY <3>1, <3>2
  <2>3. Synced(b)
        BY <2>1, <2>2, <1>1, <1>5, <1>8 DEF Synced
  <2>4. Short(b)
        BY <2>1, <1>1, <1>5 DEF Short, OneHot
  <2> QED BY <2>3, <2>4 DEF b
<1> QED BY <1>9, <1>10

\* A turn's message makes contextMsgs hold messages again.
LEMMA AppendSynced ==
    ASSUME NEW a, NEW m \in Message, Live(a), Synced(a)
    PROVE  LET b == AppendMessage(a, m) IN
           Synced(b) /\ Short(b) /\ b.msgs = b.of[b.cur]
<1> DEFINE b == AppendMessage(a, m)
<1>1. /\ b.cur = a.cur /\ b.saved = a.saved /\ b.msgs = Append(a.msgs, m)
      /\ \A d \in Ctx : b.of[d] = IF d = a.cur THEN b.msgs ELSE a.of[d]
      BY AppendMessageIs
<1>2. Live(b)
      BY AppendMessageFine
<1>3. /\ a.cur \in Ctx /\ Len(a.msgs) \in Nat /\ a.msgs \in Seq(Message)
      /\ \A d \in Ctx : Len(a.of[d]) \in Nat /\ a.saved[d] \in Nat
      BY PartsAre
<1>4. Len(b.msgs) = Len(a.msgs) + 1
      BY <1>1, <1>3, AppendIs
<1> HIDE DEF b
<1>5. b.msgs = b.of[b.cur]
      BY <1>1, <1>3
<1>6. \A c \in Ctx : b.saved[c] <= Len(b.of[c])
  <2>1. /\ \A d \in Ctx : d # a.cur => a.saved[d] <= Len(a.of[d])
        /\ a.saved[a.cur] <= Len(a.msgs) + 1
        BY <1>3 DEF Synced
  <2>2. \A d \in Ctx : d # a.cur => b.saved[d] = a.saved[d] /\ b.of[d] = a.of[d]
        BY <1>1
  <2>3. b.saved[a.cur] = a.saved[a.cur] /\ b.of[a.cur] = b.msgs
        BY <1>1, <1>3
  <2> QED BY <2>1, <2>2, <2>3, <1>4
<1> QED BY <1>2, <1>5, <1>6, SyncedIs DEF b

\* A note keeps contextMsgs a prefix of messages.
LEMMA NoteSynced ==
    ASSUME NEW a, NEW c \in Ctx, NEW m \in Message, Live(a), Synced(a)
    PROVE  LET b == InjectNote(a, c, m) IN
           /\ Synced(b)
           /\ Short(a) => Short(b)
           /\ a.msgs = a.of[a.cur] => b.msgs = b.of[b.cur]
<1> DEFINE b == InjectNote(a, c, m)
           o == IF a.of[c] = <<>> THEN Prefix(a.msgs, a.boot) ELSE a.of[c]
           g == Append(o, m)
<1>1. /\ b.cur = a.cur /\ b.injected = a.injected
      /\ b.msgs = IF c = a.cur THEN g ELSE a.msgs
      /\ \A d \in Ctx : b.of[d] = IF d = c THEN g ELSE a.of[d]
      /\ \A d \in Ctx : b.saved[d] = IF d = c /\ a.of[c] = <<>> THEN 0 ELSE a.saved[d]
      BY InjectNoteIs
<1>2. Live(b)
      BY InjectNoteFine
<1>3. /\ a.cur \in Ctx /\ Len(a.msgs) \in Nat /\ a.msgs \in Seq(Message) /\ a.boot \in Nat
      /\ a.of[a.cur] # <<>>
      /\ \A d \in Ctx : a.of[d] \in Seq(Message) /\ Len(a.of[d]) \in Nat /\ a.saved[d] \in Nat
      BY PartsAre
<1>4. o \in Seq(Message) /\ (a.of[c] # <<>> => o = a.of[c])
      BY <1>3, PrefixIs
<1> HIDE DEF o, b
<1>5. Len(g) = Len(o) + 1 /\ Len(o) \in Nat
      BY <1>4, AppendIs
<1> HIDE DEF g
<1>6. CASE c = a.cur
  <2>1. b.msgs = b.of[b.cur] /\ o = a.of[c]
        BY <1>6, <1>1, <1>3, <1>4
  <2>2. \A d \in Ctx : b.saved[d] <= Len(b.of[d])
    <3>1. \A d \in Ctx : d # c => b.saved[d] = a.saved[d] /\ b.of[d] = a.of[d]
          BY <1>1
    <3>2. b.saved[c] = a.saved[c] /\ b.of[c] = g
          BY <1>1, <1>3, <1>6
    <3>3. a.saved[c] <= Len(o) + 1
          BY <2>1, <1>3, <1>5, <1>6 DEF Synced, OneHot
    <3> QED BY <3>1, <3>2, <3>3, <1>5, <1>6 DEF Synced
  <2> QED BY <2>1, <2>2, <1>2, SyncedIs DEF b
<1>7. CASE c # a.cur
  <2>1. b.cur = a.cur /\ b.msgs = a.msgs /\ b.of[a.cur] = a.of[a.cur] /\ b.saved[a.cur] = a.saved[a.cur]
        BY <1>1, <1>3, <1>7
  <2>2. \A d \in Ctx : d # a.cur => b.saved[d] <= Len(b.of[d])
        BY <1>1, <1>3, <1>4, <1>5, <1>7 DEF Synced
  <2>3. (OneHot(a) => OneHot(b)) /\ (Short(a) => Short(b))
        BY <2>1, <1>1 DEF OneHot, Short
  <2>4. Synced(b)
        BY <2>1, <2>2, <2>3 DEF Synced
  <2> QED BY <2>1, <2>3, <2>4 DEF b
<1> QED BY <1>6, <1>7

-----------------------------------------------------------------------------
(* Nothing twice *)

Begins(o, h) == Len(o) <= Len(h) /\ \A i \in 1 .. Len(o) : o[i] = h[i]
Distinct(h) == \A i, j \in 1 .. Len(h) : i < j => h[i] # h[j]

\* Above place k, history h has nothing of g.
NewAbove(h, k, g) == \A i \in 1 .. Len(h) : i > k => \A j \in 1 .. Len(g) : g[j] # h[i]

\* No history has a message twice, and above its watermark none that log has for it.
Novel(a, log) ==
    \A c \in Ctx :
        /\ a.of[c] = <<>> => c \notin Grouped(log)
        /\ a.of[c] # <<>> => Distinct(Hist(a, c)) /\ NewAbove(Hist(a, c), a.saved[c], Logged(log, c))

\* A prefix is the beginning of its history.
LEMMA PrefixBegins ==
    ASSUME NEW h \in Seq(Message), NEW n \in Nat
    PROVE  Begins(Prefix(h, n), h)
<1> DEFINE p == Prefix(h, n)
<1>1. p \in Seq(Message) /\ \A i \in 1 .. Len(p) : i <= Len(h) /\ p[i] = h[i]
      BY PrefixIs
<1>2. Len(p) \in Nat /\ Len(h) \in Nat
      BY <1>1, LenProperties
<1> HIDE DEF p
<1>3. Len(p) <= Len(h)
  <2>1. CASE Len(p) = 0
        BY <2>1, <1>2
  <2>2. CASE Len(p) # 0
    <3>1. Len(p) \in 1 .. Len(p)
          BY <2>2, <1>2
    <3> QED BY <3>1, <1>1
  <2> QED BY <2>1, <2>2
<1> QED BY <1>1, <1>3 DEF Begins, p

\* The beginning of a history has nothing twice that the history has not.
LEMMA BeginsIs ==
    ASSUME NEW o \in Seq(Message), NEW h \in Seq(Message), Begins(o, h)
    PROVE  /\ Distinct(h) => Distinct(o)
           /\ \A k, g : NewAbove(h, k, g) => NewAbove(o, k, g)
<1>1. Len(o) \in Nat /\ Len(h) \in Nat /\ \A i \in 1 .. Len(o) : i \in 1 .. Len(h) /\ o[i] = h[i]
      BY LenProperties DEF Begins
<1>2. Distinct(h) => Distinct(o)
      BY <1>1 DEF Distinct
<1>3. \A k, g : NewAbove(h, k, g) => NewAbove(o, k, g)
      BY <1>1 DEF NewAbove
<1> QED BY <1>2, <1>3

\* A message that is not there yet can be appended.
LEMMA AppendDistinct ==
    ASSUME NEW h \in Seq(Message), NEW m \in Message, NEW U, Within(h, U), m \notin U
    PROVE  /\ Distinct(h) => Distinct(Append(h, m))
           /\ \A k, g : NewAbove(h, k, g) /\ Within(g, U) => NewAbove(Append(h, m), k, g)
<1> DEFINE g == Append(h, m)
<1>1. /\ Len(h) \in Nat /\ Len(g) = Len(h) + 1
      /\ \A i \in 1 .. Len(h) : g[i] = h[i]
      /\ g[Len(h) + 1] = m
      /\ \A i \in 1 .. Len(h) + 1 : i \in 1 .. Len(h) \/ i = Len(h) + 1
      BY AppendIs
<1> HIDE DEF g
<1>2. \A i \in 1 .. Len(h) : h[i] # m
      BY DEF Within
<1>3. ASSUME Distinct(h) PROVE Distinct(g)
  <2> SUFFICES ASSUME NEW i \in 1 .. Len(g), NEW j \in 1 .. Len(g), i < j PROVE g[i] # g[j]
      BY DEF Distinct
  <2>1. i \in 1 .. Len(h)
        BY <1>1
  <2>2. j \in 1 .. Len(h) \/ g[j] = m
        BY <1>1
  <2> QED BY <2>1, <2>2, <1>1, <1>2, <1>3 DEF Distinct
<1>4. ASSUME NEW k, NEW f, NewAbove(h, k, f), Within(f, U) PROVE NewAbove(g, k, f)
  <2> SUFFICES ASSUME NEW i \in 1 .. Len(g), i > k, NEW j \in 1 .. Len(f) PROVE f[j] # g[i]
      BY DEF NewAbove
  <2>1. i \in 1 .. Len(h) \/ g[i] = m
        BY <1>1
  <2>2. f[j] # m
        BY <1>4 DEF Within
  <2> QED BY <2>1, <2>2, <1>1, <1>4 DEF NewAbove
<1> QED BY <1>3, <1>4 DEF g

\* The group of a context holds what the log holds.
LEMMA LoggedWithin ==
    ASSUME NEW log \in Seq(Entry), NEW c, NEW U, LogWithin(log, U)
    PROVE  Within(Logged(log, c), U)
<1>1. /\ Places(log, c) \subseteq 1 .. Len(log)
      /\ \A k \in 1 .. Len(Logged(log, c)) :
            /\ Nth(Places(log, c), k) \in Places(log, c)
            /\ Logged(log, c)[k] = log[Nth(Places(log, c), k)].msg
      BY LoggedIs
<1> QED BY <1>1 DEF Within, LogWithin

\* A context without a group has nothing in the log.
LEMMA NoGroup ==
    ASSUME NEW log \in Seq(Entry), NEW c, c \notin Grouped(log)
    PROVE  \A h, k : NewAbove(h, k, Logged(log, c))
BY LoggedNone DEF NewAbove

\* Each entry is in its group, and two entries of a group are in its order.
LEMMA LoggedHas ==
    ASSUME NEW log \in Seq(Entry), NEW i \in 1 .. Len(log)
    PROVE  LET P == Places(log, log[i].label)
               g == Logged(log, log[i].label)
           IN
           /\ i \in P /\ log[i].label \in Grouped(log)
           /\ Rank(P, i) \in 1 .. Len(g)
           /\ g[Rank(P, i)] = log[i].msg
<1> DEFINE P == Places(log, log[i].label)
           g == Logged(log, log[i].label)
           k == Rank(P, i)
<1>1. DOMAIN log = 1 .. Len(log) /\ Len(log) \in Nat
      BY LenProperties
<1>2. i \in P /\ P \subseteq 1 .. Len(log) /\ log[i].label \in Grouped(log)
      BY <1>1 DEF Places, Grouped
<1> HIDE DEF P
<1>3. k \in 1 .. Cardinality(P)
      BY <1>1, <1>2, RankIs
<1>4. i = Nth(P, k)
      BY <1>1, <1>2, <1>3, NthIs
<1>5. /\ Len(g) = Cardinality(P)
      /\ \A j \in 1 .. Len(g) : g[j] = log[Nth(P, j)].msg
      BY LoggedIs DEF P
<1> QED BY <1>2, <1>3, <1>4, <1>5 DEF P

\* A step that appends new messages at most repeats nothing.
LEMMA MovesNovel ==
    ASSUME NEW a, NEW b, NEW M, NEW U, NEW log \in Seq(Entry), Live(a),
           Novel(a, log), Moves(a, b, M), AgentWithin(a, U), LogWithin(log, U),
           M \subseteq Message, M \cap U = {}
    PROVE  Novel(b, log)
<1> SUFFICES ASSUME NEW d \in Ctx
             PROVE  /\ b.of[d] = <<>> => d \notin Grouped(log)
                    /\ b.of[d] # <<>> =>
                          Distinct(Hist(b, d)) /\ NewAbove(Hist(b, d), b.saved[d], Logged(log, d))
    BY DEF Novel
<1>1. CASE a.of[d] = <<>> /\ b.of[d] = <<>>
      BY <1>1 DEF Novel
<1>2. CASE ~ (a.of[d] = <<>> /\ b.of[d] = <<>>)
  <2> DEFINE S == Stem(a, d)
             L == Logged(log, d)
  <2>1. /\ b.of[d] # <<>>
        /\ b.saved[d] = IF a.of[d] = <<>> THEN 0 ELSE a.saved[d]
        /\ Hist(b, d) = S \/ \E m \in M : Hist(b, d) = Append(S, m)
        BY <1>2 DEF Moves
  <2>2. /\ a.msgs \in Seq(Message) /\ a.boot \in Nat /\ a.cur \in Ctx /\ a.of[a.cur] # <<>>
        BY PartsAre
  <2>3. S \in Seq(Message) /\ Within(S, U) /\ Within(L, U)
        BY StemIs, StemWithin, LoggedWithin
  <2>4. Distinct(S) /\ NewAbove(S, b.saved[d], L)
    <3>1. CASE a.of[d] # <<>>
      <4>1. S = Hist(a, d) /\ b.saved[d] = a.saved[d]
            BY <3>1, <2>1 DEF Stem
      <4> QED BY <4>1, <3>1 DEF Novel
    <3>2. CASE a.of[d] = <<>>
      <4>1. S = Prefix(a.msgs, a.boot)
            BY <3>2 DEF Stem
      <4>2. Distinct(a.msgs)
            BY <2>2 DEF Novel, Hist
      <4>3. Distinct(S)
            BY <4>1, <4>2, <2>2, <2>3, PrefixBegins, BeginsIs
      <4>4. d \notin Grouped(log)
            BY <3>2 DEF Novel
      <4> QED BY <4>3, <4>4, NoGroup
    <3> QED BY <3>1, <3>2
  <2> HIDE DEF S, L
  <2>5. Distinct(Hist(b, d)) /\ NewAbove(Hist(b, d), b.saved[d], L)
    <3>1. CASE Hist(b, d) = S
          BY <3>1, <2>4
    <3>2. ASSUME NEW m \in M, Hist(b, d) = Append(S, m)
          PROVE  Distinct(Hist(b, d)) /\ NewAbove(Hist(b, d), b.saved[d], L)
      <4>1. m \in Message /\ m \notin U
            OBVIOUS
      <4> QED BY <4>1, <3>2, <2>3, <2>4, AppendDistinct
    <3> QED BY <3>1, <3>2, <2>1
  <2> QED BY <2>1, <2>5 DEF L
<1> QED BY <1>1, <1>2

\* Nor does a note that is put behind a shorter copy.
LEMMA RewindsNovel ==
    ASSUME NEW a, NEW b, NEW m \in Message, NEW U, NEW log \in Seq(Entry), Live(a),
           Novel(a, log), Rewinds(a, b, m), Synced(a), AgentWithin(a, U), LogWithin(log, U),
           m \notin U
    PROVE  Novel(b, log)
<1> DEFINE o == a.of[a.cur]
           L == Logged(log, a.cur)
<1>1. /\ b.saved = a.saved /\ b.cur = a.cur /\ b.msgs = Append(o, m)
      /\ \A d \in Ctx : b.of[d] = IF d = a.cur THEN b.msgs ELSE a.of[d]
      BY DEF Rewinds
<1>2. a.msgs \in Seq(Message) /\ a.cur \in Ctx /\ o # <<>> /\ o \in Seq(Message)
      BY PartsAre
<1>3. Begins(o, a.msgs)
      BY DEF Synced, Begins
<1>4. Distinct(a.msgs) /\ NewAbove(a.msgs, a.saved[a.cur], L)
      BY <1>2 DEF Novel, Hist
<1>5. Within(o, U) /\ Within(L, U)
      BY <1>2, LoggedWithin DEF AgentWithin
<1> HIDE DEF o, L
<1>6. Distinct(o) /\ NewAbove(o, a.saved[a.cur], L)
      BY <1>2, <1>3, <1>4, BeginsIs
<1>7. Distinct(b.msgs) /\ NewAbove(b.msgs, a.saved[a.cur], L) /\ b.msgs # <<>>
      BY <1>1, <1>2, <1>5, <1>6, AppendDistinct, AppendIs
<1>8. ASSUME NEW d \in Ctx
      PROVE  /\ b.of[d] = <<>> => d \notin Grouped(log)
             /\ b.of[d] # <<>> =>
                   Distinct(Hist(b, d)) /\ NewAbove(Hist(b, d), b.saved[d], Logged(log, d))
  <2>1. CASE d = a.cur
        BY <2>1, <1>1, <1>7 DEF Hist, L
  <2>2. CASE d # a.cur
    <3>1. b.of[d] = a.of[d] /\ Hist(b, d) = Hist(a, d) /\ b.saved[d] = a.saved[d]
          BY <2>2, <1>1 DEF Hist
    <3> QED BY <3>1 DEF Novel
  <2> QED BY <2>1, <2>2
<1> QED BY <1>8 DEF Novel

-----------------------------------------------------------------------------
(* The end of a turn: what is new is logged *)

\* What the log of a context is after a turn in it: what it was, and the history above the
\* watermark.
LEMMA DoneLog ==
    ASSUME NEW a, NEW log \in Seq(Entry), Live(a)
    PROVE  LET c == a.cur
               k == a.saved[c]
               all == log \o NewEntries(a, c)
               g == Logged(log, c)
               h == Logged(all, c)
               n == IF Len(a.msgs) <= k THEN 0 ELSE Len(a.msgs) - k
           IN
           /\ all \in Seq(Entry)
           /\ \A d : d # c => Logged(all, d) = Logged(log, d) /\ (d \in Grouped(all) <=> d \in Grouped(log))
           /\ h \in Seq(Message) /\ g \in Seq(Message) /\ Len(g) \in Nat /\ Len(h) = Len(g) + n
           /\ Grouped(log) \subseteq Grouped(all)
           /\ n # 0 => c \in Grouped(all)
           /\ \A i \in 1 .. Len(g) : h[i] = g[i]
           /\ \A i \in 1 .. n : k + i \in 1 .. Len(a.msgs) /\ h[Len(g) + i] = a.msgs[k + i]
           /\ Len(all) = Len(log) + n
           /\ \A i \in 1 .. Len(log) : all[i] = log[i]
           /\ \A i \in 1 .. n : all[Len(log) + i].msg = a.msgs[k + i] /\ all[Len(log) + i].label = c
<1> DEFINE c == a.cur
           k == a.saved[c]
           es == NewEntries(a, c)
           all == log \o es
           g == Logged(log, c)
           h == Logged(all, c)
           n == IF Len(a.msgs) <= k THEN 0 ELSE Len(a.msgs) - k
<1>0. c \in Ctx /\ k \in Nat
      BY PartsAre
<1>1. /\ es \in Seq(Entry) /\ Len(es) = n
      /\ \A i \in 1 .. n : /\ es[i].label = c
                           /\ k + i \in 1 .. Len(a.msgs)
                           /\ es[i].msg = a.msgs[k + i]
      BY <1>0, NewEntriesAre
<1> HIDE DEF es, n, k
<1>2. Labelled(es, c)
      BY <1>1 DEF Labelled
<1>3. Len(log) \in Nat /\ Len(es) \in Nat
      BY <1>1, LenProperties
<1>4. /\ all \in Seq(Entry) /\ Len(all) = Len(log) + Len(es)
      /\ \A i \in 1 .. Len(log) + Len(es) : all[i] = IF i <= Len(log) THEN log[i] ELSE es[i - Len(log)]
      BY <1>1, ConcatProperties
<1>5. /\ Grouped(log) \subseteq Grouped(all)
      /\ Grouped(all) \subseteq Grouped(log) \cup {c}
      /\ Len(es) # 0 => c \in Grouped(all)
      BY <1>1, GroupedMore
<1>6. \A d : d # c => Logged(all, d) = Logged(log, d)
      BY <1>1, <1>2, LoggedMore
<1>7. /\ Len(h) = Len(g) + Len(es)
      /\ \A i \in 1 .. Len(g) : h[i] = g[i]
      /\ \A i \in 1 .. Len(es) : h[Len(g) + i] = es[i].msg
  <2>1. Len(h) = Len(g) + Len(es)
        BY <1>1, <1>2, LoggedMore
  <2>2. \A i \in 1 .. Len(g) : h[i] = g[i]
        BY <1>1, <1>2, LoggedMore
  <2>3. \A i \in 1 .. Len(es) : h[Len(g) + i] = es[i].msg
        BY <1>1, <1>2, LoggedMore
  <2> QED BY <2>1, <2>2, <2>3
<1>8. g \in Seq(Message) /\ Len(g) \in Nat /\ h \in Seq(Message)
      BY <1>4, LoggedIs, LenProperties
<1> HIDE DEF all, g, h
<1>9. /\ \A i \in 1 .. Len(log) : all[i] = log[i]
      /\ \A i \in 1 .. Len(es) : all[Len(log) + i] = es[i]
  <2>1. \A i \in 1 .. Len(log) : i \in 1 .. Len(log) + Len(es) /\ i <= Len(log)
        BY <1>3
  <2>2. \A i \in 1 .. Len(es) : /\ Len(log) + i \in 1 .. Len(log) + Len(es)
                                /\ ~ (Len(log) + i <= Len(log))
                                /\ Len(log) + i - Len(log) = i
        BY <1>3
  <2> QED BY <2>1, <2>2, <1>4
<1> QED BY <1>1, <1>4, <1>5, <1>6, <1>7, <1>8, <1>9 DEF es, n, k, all, g, h

\* The end of a turn logs what is above the watermark, and so nothing twice.
LEMMA DoneNovel ==
    ASSUME NEW a, NEW log \in Seq(Entry), Live(a), Novel(a, log),
           \A d \in Ctx : Distinct(Logged(log, d))
    PROVE  LET all == log \o NewEntries(a, a.cur) IN
           /\ Novel(Saved(a, a.cur), all)
           /\ \A d \in Ctx : Distinct(Logged(all, d))
<1> DEFINE c == a.cur
           k == a.saved[c]
           all == log \o NewEntries(a, c)
           g == Logged(log, c)
           h == Logged(all, c)
           n == IF Len(a.msgs) <= k THEN 0 ELSE Len(a.msgs) - k
           b == Saved(a, c)
<1>1. /\ \A d : d # c => Logged(all, d) = Logged(log, d) /\ (d \in Grouped(all) <=> d \in Grouped(log))
      /\ Len(g) \in Nat /\ Len(h) = Len(g) + n
      /\ \A i \in 1 .. Len(g) : h[i] = g[i]
      /\ \A i \in 1 .. n : k + i \in 1 .. Len(a.msgs) /\ h[Len(g) + i] = a.msgs[k + i]
      BY DoneLog
<1>2. /\ c \in Ctx /\ Len(a.msgs) \in Nat /\ k \in Nat /\ a.of[c] # <<>>
      BY PartsAre
<1>3. /\ b.msgs = a.msgs /\ b.of = a.of /\ b.cur = a.cur
      /\ \A d \in Ctx : b.saved[d] = IF d = c THEN Len(a.msgs) ELSE a.saved[d]
      BY <1>2, SavedIs
<1>4. Distinct(a.msgs) /\ NewAbove(a.msgs, k, g)
      BY <1>2 DEF Novel, Hist
<1>n. n \in Nat
      BY <1>2
<1> HIDE DEF k, all, g, h, n, b
<1>5. Distinct(h)
  <2> SUFFICES ASSUME NEW i \in 1 .. Len(h), NEW j \in 1 .. Len(h), i < j PROVE h[i] # h[j]
      BY DEF Distinct
  <2>1. CASE j <= Len(g)
    <3>1. i \in 1 .. Len(g) /\ j \in 1 .. Len(g) /\ Distinct(g)
          BY <2>1, <1>1, <1>2, <1>n DEF g
    <3> QED BY <3>1, <1>1 DEF Distinct
  <2>2. CASE i <= Len(g) /\ ~ (j <= Len(g))
    <3> DEFINE y == j - Len(g)
    <3>1. i \in 1 .. Len(g) /\ y \in 1 .. n /\ j = Len(g) + y /\ k + y > k
          BY <2>2, <1>1, <1>2, <1>n
    <3> HIDE DEF y
    <3>2. h[i] = g[i] /\ h[j] = a.msgs[k + y] /\ k + y \in 1 .. Len(a.msgs)
          BY <3>1, <1>1
    <3> QED BY <3>1, <3>2, <1>4 DEF NewAbove
  <2>3. CASE ~ (i <= Len(g))
    <3> DEFINE x == i - Len(g)
               y == j - Len(g)
    <3>1. /\ x \in 1 .. n /\ i = Len(g) + x /\ y \in 1 .. n /\ j = Len(g) + y
          /\ k + x < k + y
          BY <2>3, <1>1, <1>2, <1>n
    <3> HIDE DEF x, y
    <3>2. /\ h[i] = a.msgs[k + x] /\ k + x \in 1 .. Len(a.msgs)
          /\ h[j] = a.msgs[k + y] /\ k + y \in 1 .. Len(a.msgs)
          BY <3>1, <1>1
    <3> QED BY <3>1, <3>2, <1>4 DEF Distinct
  <2> QED BY <2>1, <2>2, <2>3, <1>1, <1>n
<1>6. \A d \in Ctx : Distinct(Logged(all, d))
      BY <1>1, <1>5 DEF h
<1>7. NewAbove(a.msgs, Len(a.msgs), h)
      BY <1>2 DEF NewAbove
<1>8. ASSUME NEW d \in Ctx
      PROVE  /\ b.of[d] = <<>> => d \notin Grouped(all)
             /\ b.of[d] # <<>> =>
                   Distinct(Hist(b, d)) /\ NewAbove(Hist(b, d), b.saved[d], Logged(all, d))
  <2>1. CASE d = c
        BY <2>1, <1>2, <1>3, <1>4, <1>7 DEF Hist, h
  <2>2. CASE d # c
    <3>1. Hist(b, d) = Hist(a, d) /\ b.saved[d] = a.saved[d] /\ b.of[d] = a.of[d]
          BY <2>2, <1>3 DEF Hist
    <3> QED BY <3>1, <2>2, <1>1 DEF Novel
  <2> QED BY <2>1, <2>2
<1>9. Novel(b, all)
      BY <1>8 DEF Novel
<1> QED BY <1>6, <1>9 DEF all, b

-----------------------------------------------------------------------------
(* A summary, a start and a resume repeat nothing *)

\* The compacted history: the message at each place but the summary's comes from a place of
\* the old one, in its order.
From(a, i) == IF i <= a.boot THEN i ELSE Len(a.msgs) - Keep + (i - (a.boot + 1))

\* Compact: the bootstrap, the summary, and the last messages, at their places.
LEMMA CompactedIs ==
    ASSUME NEW a, NEW m \in Message, Live(a), CanCompact(a)
    PROVE  LET b == Compacted(a, m) IN
           /\ b.msgs \in Seq(Message) /\ b.cur = a.cur /\ b.boot = a.boot /\ b.injected = a.injected
           /\ \A d \in Ctx : b.of[d] = IF d = a.cur THEN b.msgs ELSE a.of[d]
           /\ \A d \in Ctx : b.saved[d] = IF d = a.cur THEN Len(b.msgs) ELSE a.saved[d]
           /\ Len(b.msgs) = a.boot + 1 + Keep
           /\ b.msgs[a.boot + 1] = m
           /\ \A i \in 1 .. Len(b.msgs) : i # a.boot + 1 =>
                 From(a, i) \in 1 .. Len(a.msgs) /\ b.msgs[i] = a.msgs[From(a, i)]
<1> DEFINE p == Prefix(a.msgs, a.boot)
           l == Len(a.msgs)
           f == l - Keep + 1
           q == SubSeq(a.msgs, f, l)
           r == p \o <<m>>
           h == r \o q
           b == Compacted(a, m)
<1>a. /\ a.msgs \in Seq(Message) /\ a.cur \in Ctx /\ a.boot \in Nat /\ a.boot >= 1
      /\ a.of \in [Ctx -> Seq(Message)] /\ a.saved \in [Ctx -> Nat]
      /\ l \in Nat /\ Keep \in Nat /\ a \in AgentState
      BY AgentIs, LenProperties, ContextAssumption DEF Live
<1>b. a.boot <= l - Keep
      BY DEF CanCompact
<1>c. a.boot <= Len(a.msgs) /\ Len(a.msgs) \in Nat
      BY <1>a, <1>b
<1>1. p \in Seq(Message) /\ Len(p) = a.boot /\ \A i \in 1 .. Len(p) : p[i] = a.msgs[i]
  <2> HIDE DEF l
  <2> QED BY <1>a, <1>c, PrefixIs
<1>2. q \in Seq(Message) /\ Len(q) = Keep /\ \A i \in 1 .. Keep : q[i] = a.msgs[l - Keep + i]
  <2>1. f \in Int /\ l \in Int /\ f >= 1 /\ l - f + 1 = Keep /\ \A i \in f .. l : i \in 1 .. l
        BY <1>a, <1>b
  <2>2. \A i \in f .. l : a.msgs[i] \in Message
        BY <2>1, <1>a, ElementOfSeq
  <2> HIDE DEF f, l
  <2>3. /\ SubSeq(a.msgs, f, l) \in Seq(Message)
        /\ Len(SubSeq(a.msgs, f, l)) = IF f <= l THEN l - f + 1 ELSE 0
        /\ \A i \in 1 .. l - f + 1 : SubSeq(a.msgs, f, l)[i] = a.msgs[f + i - 1]
        BY <2>1, <2>2, SubSeqProperties
  <2>4. Len(q) = Keep
        BY <2>1, <2>3, <1>a
  <2>5. \A i \in 1 .. Keep : f + i - 1 = l - Keep + i
        BY <1>a DEF f
  <2> QED BY <2>1, <2>3, <2>4, <2>5
<1> HIDE DEF p, q, f, l
<1>3. <<m>> \in Seq(Message) /\ Len(<<m>>) = 1 /\ <<m>>[1] = m
      OBVIOUS
<1>4. /\ r \in Seq(Message) /\ Len(r) = a.boot + 1
      /\ \A i \in 1 .. a.boot : r[i] = a.msgs[i]
      /\ r[a.boot + 1] = m
  <2>1. /\ r \in Seq(Message)
        /\ Len(r) = Len(p) + Len(<<m>>)
        /\ \A i \in 1 .. Len(p) + Len(<<m>>) : r[i] = IF i <= Len(p) THEN p[i] ELSE <<m>>[i - Len(p)]
        BY <1>1, <1>3, ConcatProperties
  <2> QED BY <2>1, <1>1, <1>3, <1>a
<1> HIDE DEF r
<1>5. /\ h \in Seq(Message) /\ Len(h) = a.boot + 1 + Keep
      /\ \A i \in 1 .. Len(h) : h[i] = IF i <= a.boot + 1 THEN r[i] ELSE q[i - (a.boot + 1)]
  <2>1. /\ h \in Seq(Message)
        /\ Len(h) = Len(r) + Len(q)
        /\ \A i \in 1 .. Len(r) + Len(q) : h[i] = IF i <= Len(r) THEN r[i] ELSE q[i - Len(r)]
        BY <1>2, <1>4, ConcatProperties
  <2> HIDE DEF h
  <2> QED BY <2>1, <1>2, <1>4, <1>a
<1>6. b = [a EXCEPT !.msgs = h, !.of[a.cur] = h, !.saved[a.cur] = Len(h)]
      BY DEF Compacted, h, r, p, q, f, l
<1> HIDE DEF h, b
<1>7. h[a.boot + 1] = m
  <2>1. a.boot + 1 \in 1 .. Len(h) /\ a.boot + 1 <= a.boot + 1
        BY <1>5, <1>a
  <2> QED BY <2>1, <1>4, <1>5
<1>8. ASSUME NEW i \in 1 .. Len(h), i # a.boot + 1
      PROVE  From(a, i) \in 1 .. l /\ h[i] = a.msgs[From(a, i)]
  <2>1. CASE i <= a.boot
    <3>1. From(a, i) = i /\ i \in 1 .. l /\ i \in 1 .. a.boot /\ h[i] = r[i]
          BY <2>1, <1>5, <1>a, <1>b DEF From
    <3> QED BY <3>1, <1>4
  <2>2. CASE ~ (i <= a.boot)
    <3> DEFINE j == i - (a.boot + 1)
    <3>1. j \in 1 .. Keep /\ ~ (i <= a.boot + 1)
          BY <2>2, <1>5, <1>8, <1>a
    <3>2. h[i] = q[j]
          BY <3>1, <1>5
    <3>3. From(a, i) = l - Keep + j
          BY <2>2 DEF From, l
    <3>4. l - Keep + j \in 1 .. l
          BY <3>1, <1>a, <1>b
    <3> HIDE DEF j
    <3> QED BY <3>1, <3>2, <3>3, <3>4, <1>2
  <2> QED BY <2>1, <2>2
<1>9. /\ b.msgs = h /\ b.cur = a.cur /\ b.boot = a.boot /\ b.injected = a.injected
      /\ b.of = [a.of EXCEPT ![a.cur] = h] /\ b.saved = [a.saved EXCEPT ![a.cur] = Len(h)]
      BY <1>6, <1>a DEF AgentState
<1>10. /\ \A d \in Ctx : b.of[d] = IF d = a.cur THEN h ELSE a.of[d]
       /\ \A d \in Ctx : b.saved[d] = IF d = a.cur THEN Len(h) ELSE a.saved[d]
       BY <1>9, <1>a
<1> QED BY <1>5, <1>7, <1>8, <1>9, <1>10 DEF b, l

\* A summary that is new repeats nothing.
LEMMA CompactedNovel ==
    ASSUME NEW a, NEW m \in Message, NEW U, NEW log, Live(a), CanCompact(a),
           Novel(a, log), AgentWithin(a, U), m \notin U
    PROVE  Novel(Compacted(a, m), log)
<1> DEFINE b == Compacted(a, m)
<1>1. /\ b.msgs \in Seq(Message) /\ b.cur = a.cur
      /\ \A d \in Ctx : b.of[d] = IF d = a.cur THEN b.msgs ELSE a.of[d]
      /\ \A d \in Ctx : b.saved[d] = IF d = a.cur THEN Len(b.msgs) ELSE a.saved[d]
      /\ Len(b.msgs) = a.boot + 1 + Keep
      /\ b.msgs[a.boot + 1] = m
      /\ \A i \in 1 .. Len(b.msgs) : i # a.boot + 1 =>
            From(a, i) \in 1 .. Len(a.msgs) /\ b.msgs[i] = a.msgs[From(a, i)]
      BY CompactedIs
<1>2. /\ a.cur \in Ctx /\ a.of[a.cur] # <<>> /\ a.boot \in Nat /\ Len(a.msgs) \in Nat
      /\ Keep \in Nat /\ a.boot <= Len(a.msgs) - Keep
      BY PartsAre, ContextAssumption DEF CanCompact
<1> HIDE DEF b
<1>3. Distinct(a.msgs) /\ \A i \in 1 .. Len(a.msgs) : a.msgs[i] # m
      BY <1>2 DEF Novel, Hist, AgentWithin, Within
<1>4. Distinct(b.msgs)
  <2> SUFFICES ASSUME NEW i \in 1 .. Len(b.msgs), NEW j \in 1 .. Len(b.msgs), i < j
               PROVE  b.msgs[i] # b.msgs[j]
      BY DEF Distinct
  <2>1. CASE i = a.boot + 1 \/ j = a.boot + 1
    <3>1. i # j
          OBVIOUS
    <3> QED BY <3>1, <2>1, <1>1, <1>3
  <2>2. CASE i # a.boot + 1 /\ j # a.boot + 1
    <3>1. From(a, i) < From(a, j)
      <4>1. i \in Int /\ j \in Int /\ i < j /\ i # a.boot + 1 /\ j # a.boot + 1
            BY <2>2
      <4>2. CASE j <= a.boot
            BY <4>1, <4>2, <1>2 DEF From
      <4>3. CASE i <= a.boot /\ ~ (j <= a.boot)
        <5>1. From(a, i) = i /\ From(a, j) = Len(a.msgs) - Keep + (j - (a.boot + 1))
              BY <4>3 DEF From
        <5> QED BY <5>1, <4>1, <4>3, <1>2
      <4>4. CASE ~ (i <= a.boot)
        <5>1. /\ From(a, i) = Len(a.msgs) - Keep + (i - (a.boot + 1))
              /\ From(a, j) = Len(a.msgs) - Keep + (j - (a.boot + 1))
              BY <4>1, <4>4, <1>2 DEF From
        <5> QED BY <5>1, <4>1, <1>2
      <4> QED BY <4>2, <4>3, <4>4
    <3>2. /\ From(a, i) \in 1 .. Len(a.msgs) /\ b.msgs[i] = a.msgs[From(a, i)]
          /\ From(a, j) \in 1 .. Len(a.msgs) /\ b.msgs[j] = a.msgs[From(a, j)]
          BY <2>2, <1>1
    <3> QED BY <3>1, <3>2, <1>3 DEF Distinct
  <2> QED BY <2>1, <2>2
<1>5. \A g : NewAbove(b.msgs, Len(b.msgs), g)
      BY <1>1, <1>2 DEF NewAbove
<1>6. b.msgs # <<>>
  <2>1. Len(<<>>) = 0
        BY EmptySeq
  <2> QED BY <2>1, <1>1, <1>2
<1>7. ASSUME NEW d \in Ctx
      PROVE  /\ b.of[d] = <<>> => d \notin Grouped(log)
             /\ b.of[d] # <<>> =>
                   Distinct(Hist(b, d)) /\ NewAbove(Hist(b, d), b.saved[d], Logged(log, d))
  <2>1. CASE d = a.cur
        BY <2>1, <1>1, <1>4, <1>5, <1>6 DEF Hist
  <2>2. CASE d # a.cur
    <3>1. Hist(b, d) = Hist(a, d) /\ b.saved[d] = a.saved[d] /\ b.of[d] = a.of[d]
          BY <2>2, <1>1 DEF Hist
    <3> QED BY <3>1 DEF Novel
  <2> QED BY <2>1, <2>2
<1> QED BY <1>7 DEF Novel, b

\* A summary is all that Compact brings in, and contextMsgs is a copy again.
LEMMA CompactedWithin ==
    ASSUME NEW a, NEW m \in Message, Live(a), CanCompact(a)
    PROVE  LET b == Compacted(a, m) IN
           /\ \A U : AgentWithin(a, U) /\ m \in U => AgentWithin(b, U)
           /\ SysFirst(a) => SysFirst(b)
           /\ Synced(a) => Synced(b) /\ Short(b)
<1> DEFINE b == Compacted(a, m)
<1>1. /\ b.msgs \in Seq(Message) /\ b.cur = a.cur
      /\ \A d \in Ctx : b.of[d] = IF d = a.cur THEN b.msgs ELSE a.of[d]
      /\ \A d \in Ctx : b.saved[d] = IF d = a.cur THEN Len(b.msgs) ELSE a.saved[d]
      /\ Len(b.msgs) = a.boot + 1 + Keep
      /\ b.msgs[a.boot + 1] = m
      /\ \A i \in 1 .. Len(b.msgs) : i # a.boot + 1 =>
            From(a, i) \in 1 .. Len(a.msgs) /\ b.msgs[i] = a.msgs[From(a, i)]
      BY CompactedIs
<1>2. a.cur \in Ctx /\ a.boot \in Nat /\ a.boot >= 1 /\ Keep \in Nat
      BY PartsAre, ContextAssumption
<1>3. Live(b)
      BY CompactedFine
<1> HIDE DEF b
<1>4. ASSUME NEW U, AgentWithin(a, U), m \in U PROVE AgentWithin(b, U)
  <2>1. Within(b.msgs, U)
        BY <1>1, <1>4 DEF AgentWithin, Within
  <2> QED BY <2>1, <1>1, <1>4 DEF AgentWithin
<1>5. ASSUME SysFirst(a) PROVE SysFirst(b)
  <2>1. 1 \in 1 .. Len(b.msgs) /\ 1 # a.boot + 1 /\ From(a, 1) = 1
        BY <1>1, <1>2 DEF From
  <2>2. b.msgs[1] = Sys
        BY <2>1, <1>1, <1>5 DEF SysFirst
  <2> QED BY <2>2, <1>1, <1>5 DEF SysFirst
<1>6. ASSUME Synced(a) PROVE Synced(b) /\ Short(b)
  <2>1. b.msgs = b.of[b.cur]
        BY <1>1, <1>2
  <2>2. \A c \in Ctx : b.saved[c] <= Len(b.of[c])
    <3>1. \A c \in Ctx : c # a.cur => a.saved[c] <= Len(a.of[c])
          BY <1>6 DEF Synced
    <3>2. Len(b.msgs) <= Len(b.msgs)
          BY <1>1, <1>2
    <3> QED BY <3>1, <3>2, <1>1
  <2> QED BY <2>1, <2>2, <1>3, SyncedIs
<1> QED BY <1>4, <1>5, <1>6 DEF b

\* The bootstrap has nothing twice, and no memory.
LEMMA BootstrapDistinct ==
    ASSUME NEW n \in Nat
    PROVE  LET h == Bootstrap(n) IN
           Distinct(h) /\ \A i \in 1 .. Len(h) : h[i].kind # "hot"
<1> DEFINE h == Bootstrap(n)
<1>1. /\ h \in Seq(Message) /\ Len(h) = n + 1
      /\ \A i \in 1 .. n + 1 : h[i] = BootMsg(i)
      BY BootstrapIs
<1>2. /\ \A i \in Nat : i # 1 => BootMsg(i).kind = "boot" /\ BootMsg(i).n = i
      /\ BootMsg(1) = Sys /\ Sys.kind = "sys"
  <2>1. "boot" \in Kind /\ "sys" \in Kind /\ 0 \in Nat /\ Main \in Ctx
        BY DEF Kind, Ctx
  <2> QED BY <2>1, MsgIs DEF BootMsg, Sys
<1> HIDE DEF h
<1>3. ASSUME NEW i \in 1 .. Len(h), NEW j \in 1 .. Len(h), i < j PROVE h[i] # h[j]
  <2>1. h[j].kind = "boot" /\ h[j].n = j
        BY <1>1, <1>2, <1>3
  <2>2. i = 1 \/ h[i].n = i
        BY <1>1, <1>2
  <2>3. i = 1 => h[i].kind = "sys"
        BY <1>1, <1>2
  <2> QED BY <2>1, <2>2, <2>3, <1>3
<1>4. ASSUME NEW i \in 1 .. Len(h) PROVE h[i].kind # "hot"
      BY <1>1, <1>2
<1> QED BY <1>3, <1>4 DEF Distinct, h

\* A start.
LEMMA LaunchFits ==
    ASSUME NEW n \in Nat, NEW f \in Ctx
    PROVE  LET a == SetScope(NewAgent(n, f), f) IN
           /\ Synced(a)
           /\ SysFirst(a)
           /\ \A U : /\ Sys \in U
                     /\ f \in HotCtx => Hot(f) \in U
                     /\ \A i \in Nat : Msg("boot", Main, i) \in U
                     => AgentWithin(a, U)
           /\ \A log : Grouped(log) = {} => Novel(a, log)
           /\ Distinct(a.msgs) /\ \A c \in Ctx : c # Main => a.of[c] = <<>>
<1> DEFINE a == SetScope(NewAgent(n, f), f)
           h == Bootstrap(n)
<1>1. /\ Live(a) /\ a.cur = Main /\ a.boot = n + 1
      /\ a.injected = {f} \cap HotCtx
      /\ a.msgs = IF f \in HotCtx THEN Append(h, Hot(f)) ELSE h
      /\ \A d \in Ctx : a.of[d] = IF d = Main THEN h ELSE <<>>
      /\ \A d \in Ctx : a.saved[d] = 0
      BY LaunchIs
<1>2. /\ h \in Seq(Message) /\ Len(h) = n + 1 /\ h # <<>>
      /\ \A i \in 1 .. n + 1 : h[i] = BootMsg(i)
      BY BootstrapIs
<1>3. Hot(f) \in Message /\ Hot(f).kind = "hot" /\ Main \in Ctx
      BY HotIs DEF Ctx
<1>4. /\ \A i \in Nat : i # 1 => BootMsg(i).kind = "boot" /\ BootMsg(i).n = i
      /\ BootMsg(1) = Sys /\ Sys.kind = "sys"
  <2>1. "boot" \in Kind /\ "sys" \in Kind /\ 0 \in Nat
        BY DEF Kind
  <2> QED BY <2>1, <1>3, MsgIs DEF BootMsg, Sys
<1> HIDE DEF a, h
<1>5. Distinct(h) /\ \A i \in 1 .. Len(h) : h[i].kind # "hot"
      BY BootstrapDistinct DEF h
<1>6. Distinct(a.msgs)
  <2>1. CASE f \in HotCtx
    <3> DEFINE U == {m \in Message : m.kind # "hot"}
    <3>1. Within(h, U)
      <4>1. \A i \in 1 .. Len(h) : h[i] \in Message
            BY <1>2, ElementOfSeq
      <4> QED BY <4>1, <1>5 DEF Within
    <3>2. Hot(f) \notin U
          BY <1>3
    <3> HIDE DEF U
    <3> QED BY <3>1, <3>2, <2>1, <1>1, <1>2, <1>3, <1>5, AppendDistinct
  <2>2. CASE f \notin HotCtx
        BY <2>2, <1>1, <1>5
  <2> QED BY <2>1, <2>2
<1>7. Synced(a)
  <2>1. /\ Len(h) <= Len(a.msgs)
        /\ \A i \in 1 .. Len(h) : a.msgs[i] = h[i]
        /\ \A i \in 1 .. Len(a.msgs) : i > Len(h) => a.msgs[i].kind = "hot"
    <3>1. CASE f \in HotCtx
      <4> DEFINE g == Append(h, Hot(f))
      <4>1. /\ Len(g) = Len(h) + 1 /\ Len(h) \in Nat
            /\ \A i \in 1 .. Len(h) : g[i] = h[i]
            /\ g[Len(h) + 1] = Hot(f)
            /\ \A i \in 1 .. Len(h) + 1 : i \in 1 .. Len(h) \/ i = Len(h) + 1
            BY <1>2, <1>3, AppendIs
      <4>2. a.msgs = g
            BY <3>1, <1>1
      <4> HIDE DEF g
      <4> QED BY <4>1, <4>2, <1>3
    <3>2. CASE f \notin HotCtx
          BY <3>2, <1>1, <1>2
    <3> QED BY <3>1, <3>2
  <2>2. a.of[a.cur] = h
        BY <1>1, <1>3
  <2>3. \A c \in Ctx : a.saved[c] <= Len(a.of[c])
    <3>1. \A c \in Ctx : Len(a.of[c]) \in Nat /\ a.saved[c] = 0
          BY <1>1, PartsAre
    <3> QED BY <3>1
  <2> QED BY <2>1, <2>2, <2>3, <1>1, <1>3 DEF Synced
<1>8. SysFirst(a)
  <2>1. h[1] = Sys /\ a.msgs[1] = h[1]
    <3>1. 1 \in 1 .. n + 1
          OBVIOUS
    <3> QED BY <3>1, <1>1, <1>2, <1>3, <1>4, AppendFirst
  <2> QED BY <2>1, <1>1 DEF SysFirst
<1>9. ASSUME NEW U, Sys \in U, f \in HotCtx => Hot(f) \in U,
             \A i \in Nat : Msg("boot", Main, i) \in U
      PROVE  AgentWithin(a, U)
  <2>1. Within(h, U)
    <3>1. \A i \in 1 .. n + 1 : BootMsg(i) \in U
          BY <1>9 DEF BootMsg
    <3> QED BY <3>1, <1>2 DEF Within
  <2>2. Within(a.msgs, U)
        BY <2>1, <1>1, <1>2, <1>3, <1>9, AppendWithin
  <2>3. Within(<<>>, U)
    <3>1. Len(<<>>) = 0
          BY EmptySeq
    <3> QED BY <3>1 DEF Within
  <2> QED BY <2>1, <2>2, <2>3, <1>1 DEF AgentWithin
<1>10. ASSUME NEW log, Grouped(log) = {} PROVE Novel(a, log)
  <2>1. \A c \in Ctx : Len(Logged(log, c)) = 0
    <3>1. ASSUME NEW c \in Ctx PROVE Len(Logged(log, c)) = 0
      <4>1. Places(log, c) = {}
            BY <1>10 DEF Grouped, Places
      <4>2. Cardinality({}) = 0
            BY FS_EmptySet
      <4>3. Logged(log, c) = [k \in 1 .. Cardinality(Places(log, c)) |-> log[Nth(Places(log, c), k)].msg]
            BY DEF Logged, Places, Nth, Rank
      <4>4. Logged(log, c) = [k \in 1 .. 0 |-> log[Nth({}, k)].msg]
            BY <4>1, <4>2, <4>3
      <4>5. Logged(log, c) = <<>>
            BY <4>4
      <4> QED BY <4>5, EmptySeq
    <3> QED BY <3>1
  <2>2. \A c \in Ctx : \A g, k : NewAbove(g, k, Logged(log, c))
        BY <2>1 DEF NewAbove
  <2> QED BY <2>2, <1>1, <1>6, <1>10 DEF Novel, Hist
<1>11. \A c \in Ctx : c # Main => a.of[c] = <<>>
      BY <1>1
<1> QED BY <1>6, <1>7, <1>8, <1>9, <1>10, <1>11 DEF a

-----------------------------------------------------------------------------
(* What a resumed history holds *)

\* System messages are the system prompt.
SysOnly == {m \in Message : m.kind = "sys" => m = Sys}

\* The system prompt.
LEMMA SysIs == Sys \in Message /\ Sys.kind = "sys" /\ Main \in Ctx
<1>1. Main \in Ctx /\ "sys" \in Kind /\ 0 \in Nat
      BY DEF Ctx, Kind
<1> QED BY <1>1, MsgIs DEF Sys

\* Restored messages begin with the system prompt, and are those of the log.
LEMMA ForcedIs ==
    ASSUME NEW h \in Seq(Message)
    PROVE  /\ Forced(h) \in Seq(Message) /\ Forced(h) # <<>>
           /\ Len(h) \in Nat /\ Len(Forced(h)) \in Nat /\ Len(h) <= Len(Forced(h))
           /\ h # <<>> /\ h[1] = Sys => Forced(h) = h
           /\ Within(h, SysOnly) => Forced(h)[1] = Sys
           /\ \A U : Within(h, U) /\ Sys \in U => Within(Forced(h), U)
<1>1. Len(h) \in Nat /\ \A i \in 1 .. Len(h) : h[i] \in Message
      BY LenProperties, ElementOfSeq
<1>2. h # <<>> => Head(h) = h[1] /\ 1 \in 1 .. Len(h)
      BY NotEmpty
<1>3. Sys \in Message /\ Sys.kind = "sys"
      BY SysIs
<1>4. CASE h # <<>> /\ Head(h).kind = "sys"
  <2>1. Forced(h) = h
        BY <1>4 DEF Forced
  <2>2. Within(h, SysOnly) => h[1] = Sys
        BY <1>2, <1>4 DEF Within, SysOnly
  <2> QED BY <2>1, <2>2, <1>1, <1>4
<1>5. CASE ~ (h # <<>> /\ Head(h).kind = "sys")
  <2> DEFINE g == <<Sys>> \o h
  <2>1. Forced(h) = g
        BY <1>5 DEF Forced
  <2>2. <<Sys>> \in Seq(Message) /\ Len(<<Sys>>) = 1 /\ <<Sys>>[1] = Sys
        BY <1>3
  <2>3. /\ g \in Seq(Message) /\ Len(g) = 1 + Len(h)
        /\ \A i \in 1 .. 1 + Len(h) : g[i] = IF i <= 1 THEN <<Sys>>[i] ELSE h[i - 1]
        BY <2>2, ConcatProperties
  <2> HIDE DEF g
  <2>4. g[1] = Sys /\ \A i \in 1 .. Len(g) : i = 1 \/ (i - 1 \in 1 .. Len(h) /\ g[i] = h[i - 1])
        BY <1>1, <2>2, <2>3
  <2>5. \A U : Within(h, U) /\ Sys \in U => Within(g, U)
        BY <2>4 DEF Within
  <2>6. g # <<>>
        BY <2>3, <1>1, EmptySeq
  <2>7. ~ (h # <<>> /\ h[1] = Sys)
        BY <1>2, <1>3, <1>5
  <2>8. Len(g) \in Nat /\ Len(h) <= Len(g)
        BY <2>3, <1>1
  <2> QED BY <2>1, <2>3, <2>4, <2>5, <2>6, <2>7, <2>8, <1>1
<1> QED BY <1>4, <1>5

\* The group of c holds what is labelled c.
LEMMA GroupWithin ==
    ASSUME NEW log \in Seq(Entry), NEW c, NEW U,
           \A i \in 1 .. Len(log) : log[i].label = c => log[i].msg \in U
    PROVE  Within(Logged(log, c), U)
<1>1. /\ Places(log, c) \subseteq 1 .. Len(log)
      /\ \A k \in 1 .. Len(Logged(log, c)) :
            /\ Nth(Places(log, c), k) \in Places(log, c)
            /\ Logged(log, c)[k] = log[Nth(Places(log, c), k)].msg
      BY LoggedIs
<1>2. \A i \in Places(log, c) : i \in 1 .. Len(log) /\ log[i].label = c
      BY <1>1 DEF Places
<1> QED BY <1>1, <1>2 DEF Within

\* Anything that is logged and restored is of the log or of the old histories.
LEMMA ResumedWithin ==
    ASSUME NEW a, NEW log \in Seq(Entry), Live(a)
    PROVE  LET b == Resumed(a, log) IN
           /\ \A U : AgentWithin(a, U) /\ LogWithin(log, U) /\ Sys \in U => AgentWithin(b, U)
           /\ SysFirst(a) /\ LogWithin(log, SysOnly) => SysFirst(b)
<1> DEFINE b == Resumed(a, log)
           G == Grouped(log)
           F(c) == Forced(Logged(log, c))
<1>1. /\ b.msgs = IF Main \in G THEN F(Main) ELSE a.msgs
      /\ \A c \in Ctx : b.of[c] = IF c \in G \ {Main} THEN F(c)
                                  ELSE IF c = a.cur /\ Main \in G THEN F(Main) ELSE a.of[c]
      BY ResumedIs
<1> HIDE DEF b, G
<1>2. \A c : \A U : LogWithin(log, U) /\ Sys \in U => Within(F(c), U)
  <2> SUFFICES ASSUME NEW c, NEW U, LogWithin(log, U), Sys \in U PROVE Within(F(c), U)
      OBVIOUS
  <2>1. Within(Logged(log, c), U) /\ Logged(log, c) \in Seq(Message)
        BY LoggedWithin, LoggedIs
  <2> QED BY <2>1, ForcedIs
<1>3. \A c : LogWithin(log, SysOnly) => F(c)[1] = Sys
  <2> SUFFICES ASSUME NEW c, LogWithin(log, SysOnly) PROVE F(c)[1] = Sys
      OBVIOUS
  <2>1. Within(Logged(log, c), SysOnly) /\ Logged(log, c) \in Seq(Message)
        BY LoggedWithin, LoggedIs
  <2> QED BY <2>1, ForcedIs
<1> HIDE DEF F
<1>4. ASSUME NEW U, AgentWithin(a, U), LogWithin(log, U), Sys \in U PROVE AgentWithin(b, U)
      BY <1>1, <1>2, <1>4 DEF AgentWithin
<1>5. ASSUME SysFirst(a), LogWithin(log, SysOnly) PROVE SysFirst(b)
      BY <1>1, <1>3, <1>5 DEF SysFirst
<1> QED BY <1>4, <1>5 DEF b

\* Every group of the log begins with the system prompt.
Headed(log) == \A c \in Ctx : c \in Grouped(log) => Logged(log, c)[1] = Sys

\* A program that starts with --resume.
LEMMA RelaunchedIs ==
    ASSUME NEW n \in Nat, NEW f \in Ctx, NEW log \in Seq(Entry)
    PROVE  LET a == SetScope(NewAgent(n, f), f)
               b == Resumed(a, log)
               G == Grouped(log)
           IN
           /\ Live(a) /\ Live(b) /\ b.cur = Main
           /\ Synced(b)
           /\ \A c \in Ctx : b.saved[c] = IF c \in G THEN Len(Logged(log, c)) ELSE 0
           /\ \A c \in Ctx : c \notin G /\ c # Main => b.of[c] = <<>>
           /\ \A c \in Ctx : c \in G => b.of[c] # <<>> /\ Hist(b, c) = Forced(Logged(log, c))
           /\ Main \notin G => b.of[Main] # <<>> /\ Hist(b, Main) = a.msgs
           /\ \A c : c \in b.injected <=>
                 \/ Main \notin G /\ c \in {f} \cap HotCtx
                 \/ \E d \in G : c \in HotIn(Logged(log, d))
<1> DEFINE a == SetScope(NewAgent(n, f), f)
           b == Resumed(a, log)
           G == Grouped(log)
           L(c) == Logged(log, c)
<1>1. /\ Live(a) /\ a.cur = Main /\ a.injected = {f} \cap HotCtx
      /\ \A d \in Ctx : d # Main => a.of[d] = <<>>
      /\ \A d \in Ctx : a.saved[d] = 0
      BY LaunchIs
<1>2. Synced(a)
      BY LaunchFits
<1>3. Main \in Ctx /\ Len(a.msgs) \in Nat /\ a.of[Main] # <<>> /\ \A d \in Ctx : Len(a.of[d]) \in Nat
      BY <1>1, PartsAre, SysIs
<1> HIDE DEF a
<1>4. /\ b.cur = a.cur
      /\ b.msgs = IF Main \in G THEN Forced(L(Main)) ELSE a.msgs
      /\ \A c \in Ctx : b.of[c] = IF c \in G \ {Main} THEN Forced(L(c))
                                  ELSE IF c = a.cur /\ Main \in G THEN Forced(L(Main)) ELSE a.of[c]
      /\ \A c \in Ctx : b.saved[c] = IF c \in G THEN Len(L(c)) ELSE a.saved[c]
      /\ \A c : c \in b.injected <=>
            \/ Main \notin G /\ c \in a.injected
            \/ \E d \in G : c \in HotIn(L(d))
      BY <1>1, ResumedIs
<1>5. Live(b)
      BY <1>1, ResumedFine
<1> HIDE DEF b, G
<1>6. \A c : /\ Forced(L(c)) # <<>> /\ Len(L(c)) <= Len(Forced(L(c)))
             /\ Len(L(c)) \in Nat /\ Len(Forced(L(c))) \in Nat
  <2>1. \A c : L(c) \in Seq(Message)
        BY LoggedIs
  <2> HIDE DEF L
  <2> QED BY <2>1, ForcedIs
<1> HIDE DEF L
<1>7. \A c \in Ctx : c \in G => b.of[c] = Forced(L(c)) /\ b.of[c] # <<>> /\ Hist(b, c) = Forced(L(c))
      BY <1>1, <1>4, <1>6 DEF Hist
<1>8. Main \notin G => b.of[Main] # <<>> /\ Hist(b, Main) = a.msgs /\ b.of[Main] = a.of[Main] /\ b.msgs = a.msgs
      BY <1>1, <1>3, <1>4 DEF Hist
<1>9. \A c \in Ctx : c \notin G /\ c # Main => b.of[c] = <<>>
      BY <1>1, <1>4
<1>10. \A c \in Ctx : b.saved[c] = IF c \in G THEN Len(L(c)) ELSE 0
      BY <1>1, <1>4
<1>11. Synced(b)
  <2>1. CASE Main \in G
    <3>1. b.msgs = b.of[b.cur]
          BY <2>1, <1>1, <1>3, <1>4
    <3>2. \A c \in Ctx : b.saved[c] <= Len(b.of[c])
      <4>1. \A c \in Ctx : Len(b.of[c]) \in Nat
            BY <1>5, PartsAre
      <4> QED BY <4>1, <1>6, <1>7, <1>10
    <3> QED BY <3>1, <3>2, <1>5, SyncedIs
  <2>2. CASE Main \notin G
    <3>1. \A c \in Ctx : b.saved[c] <= Len(b.of[c])
      <4>1. \A c \in Ctx : Len(b.of[c]) \in Nat
            BY <1>5, PartsAre
      <4> QED BY <4>1, <1>6, <1>7, <1>10
    <3>2. b.msgs = a.msgs /\ b.of[b.cur] = a.of[a.cur] /\ b.cur \in Ctx
          BY <2>2, <1>1, <1>3, <1>4, <1>8
    <3> QED BY <3>1, <3>2, <1>2 DEF Synced
  <2> QED BY <2>1, <2>2
<1>12. \A c : c \in b.injected <=>
          \/ Main \notin G /\ c \in {f} \cap HotCtx
          \/ \E d \in G : c \in HotIn(L(d))
       BY <1>1, <1>4
<1>13. b.cur = Main
       BY <1>1, <1>4
<1> QED BY <1>1, <1>5, <1>7, <1>8, <1>9, <1>10, <1>11, <1>12, <1>13 DEF a, b, G, L

-----------------------------------------------------------------------------
(* Where messages and memory are, after a start with --resume *)

\* The messages of a history are at its places.
LEMMA ItemsAre ==
    ASSUME NEW h \in Seq(Message)
    PROVE  /\ \A i \in 1 .. Len(h) : h[i] \in Items(h)
           /\ \A m \in Items(h) : \E i \in 1 .. Len(h) : h[i] = m
<1>1. DOMAIN h = 1 .. Len(h)
      BY LenProperties
<1> QED BY <1>1 DEF Items

\* The empty history has nothing.
LEMMA EmptyWithin == \A U : Within(<<>>, U)
<1>1. Len(<<>>) = 0
      BY EmptySeq
<1> QED BY <1>1 DEF Within

\* The copy of a history holds nothing else.
LEMMA Held ==
    ASSUME NEW a, NEW c \in Ctx, NEW U, Live(a), Synced(a),
           a.of[c] # <<>> => Within(Hist(a, c), U)
    PROVE  /\ Within(a.of[c], U)
           /\ c = a.cur => Within(a.msgs, U)
<1>1. /\ a.of[a.cur] # <<>> /\ Len(a.msgs) \in Nat /\ Len(a.of[a.cur]) \in Nat
      /\ a.cur \in Ctx
      BY PartsAre
<1>2. CASE c = a.cur
  <2>1. Within(a.msgs, U)
        BY <1>1, <1>2 DEF Hist
  <2>2. \A i \in 1 .. Len(a.of[c]) : i \in 1 .. Len(a.msgs) /\ a.msgs[i] = a.of[c][i]
        BY <1>1, <1>2 DEF Synced
  <2> QED BY <2>1, <2>2 DEF Within
<1>3. CASE c # a.cur
      BY <1>3, EmptyWithin DEF Hist
<1> QED BY <1>2, <1>3

\* Logged messages that were said are in the history their label names.
SpokenThere(a, log) ==
    \A i \in 1 .. Len(log) : log[i].msg.kind \in Spoken => log[i].msg \in Items(Hist(a, log[i].label))

\* The log of a context is its history up to the watermark.
Mirrors(a, log) ==
    \A c \in Ctx :
        /\ a.of[c] = <<>> => c \notin Grouped(log)
        /\ a.of[c] # <<>> =>
              /\ a.saved[c] <= Len(Hist(a, c)) /\ Len(Logged(log, c)) = a.saved[c]
              /\ \A i \in 1 .. Len(Logged(log, c)) : Logged(log, c)[i] = Hist(a, c)[i]

\* Memory is that of a context marked as injected; such memory is in a history, or in its own.
Marked(I) == {m \in Message : m.kind = "hot" => m.ctx \in I}
MemoryThere(a) == \A c \in a.injected \cap HotCtx : \E d \in Ctx : Hot(c) \in Items(Hist(a, d))
MemoryHome(a) == \A c \in a.injected \cap HotCtx : Hot(c) \in Items(Hist(a, c))

At(c) == {m \in Message : m.kind = "hot" => m.ctx = c}
AgentHome(a) == Within(a.msgs, At(a.cur)) /\ \A c \in Ctx : Within(a.of[c], At(c))
LogHome(log) == \A i \in 1 .. Len(log) : log[i].msg \in At(log[i].label)

HotOnly == {m \in Message : m.kind = "hot" => m = Hot(m.ctx) /\ m.ctx \in HotCtx}

\* The bootstrap is no memory.
LEMMA BootIsCold ==
    /\ Sys \in Message /\ Sys.kind # "hot"
    /\ \A i \in Nat : Msg("boot", Main, i) \in Message /\ Msg("boot", Main, i).kind # "hot"
<1>1. "boot" \in Kind /\ Main \in Ctx
      BY SysIs DEF Kind
<1> QED BY <1>1, SysIs, MsgIs

\* What a program starts with is at home when it starts in #main.
LEMMA LaunchWithin ==
    ASSUME NEW n \in Nat, NEW f \in Ctx
    PROVE  LET a == SetScope(NewAgent(n, f), f) IN
           /\ AgentWithin(a, Marked({f} \cap HotCtx))
           /\ f \in HotCtx => Hot(f) \in Items(a.msgs)
           /\ f = Main => AgentHome(a)
<1> DEFINE a == SetScope(NewAgent(n, f), f)
<1>1. /\ Live(a) /\ a.cur = Main
      /\ a.msgs = IF f \in HotCtx THEN Append(Bootstrap(n), Hot(f)) ELSE Bootstrap(n)
      /\ \A d \in Ctx : a.of[d] = IF d = Main THEN Bootstrap(n) ELSE <<>>
      BY LaunchIs
<1>2. \A U : /\ Sys \in U
             /\ f \in HotCtx => Hot(f) \in U
             /\ \A i \in Nat : Msg("boot", Main, i) \in U
             => AgentWithin(a, U)
      BY LaunchFits
<1>3. Hot(f) \in Message /\ Hot(f).kind = "hot" /\ Hot(f).ctx = f
      BY HotIs
<1> HIDE DEF a
<1>4. AgentWithin(a, Marked({f} \cap HotCtx))
      BY <1>2, <1>3, BootIsCold DEF Marked
<1>5. ASSUME f \in HotCtx PROVE Hot(f) \in Items(a.msgs)
  <2> DEFINE h == Bootstrap(n)
  <2>1. h \in Seq(Message)
        BY BootstrapIs
  <2> HIDE DEF h
  <2>2. /\ Append(h, Hot(f)) \in Seq(Message) /\ Len(h) \in Nat
        /\ Len(Append(h, Hot(f))) = Len(h) + 1 /\ Append(h, Hot(f))[Len(h) + 1] = Hot(f)
        BY <2>1, <1>3, AppendIs
  <2>3. Len(h) + 1 \in 1 .. Len(Append(h, Hot(f)))
        BY <2>2
  <2>4. Hot(f) \in Items(Append(h, Hot(f)))
        BY <2>2, <2>3, ItemsAre
  <2> QED BY <2>4, <1>1, <1>5 DEF h
<1>6. ASSUME f = Main PROVE AgentHome(a)
  <2>1. AgentWithin(a, At(Main))
        BY <1>2, <1>3, <1>6, BootIsCold DEF At
  <2>2. \A c \in Ctx : c # Main => a.of[c] = <<>>
        BY <1>1
  <2>3. ASSUME NEW c \in Ctx PROVE Within(a.of[c], At(c))
        BY <2>1, <2>2, EmptyWithin DEF AgentWithin
  <2> QED BY <2>1, <2>3, <1>1 DEF AgentHome, AgentWithin
<1> QED BY <1>4, <1>5, <1>6 DEF a

\* A start with --resume restores each group where it was said, up to its watermark, and
\* counts exactly the memory it restores as injected.
LEMMA RelaunchedFits ==
    ASSUME NEW n \in Nat, NEW f \in Ctx, NEW log \in Seq(Entry), Headed(log)
    PROVE  LET b == Resumed(SetScope(NewAgent(n, f), f), log) IN
           /\ SpokenThere(b, log) /\ Mirrors(b, log)
           /\ (\A c \in Ctx : Distinct(Logged(log, c))) => Novel(b, log)
           /\ AgentWithin(b, Marked(b.injected)) /\ LogWithin(log, Marked(b.injected))
           /\ LogWithin(log, HotOnly) => MemoryThere(b)
           /\ LogWithin(log, HotOnly) /\ LogHome(log) /\ f = Main => MemoryHome(b) /\ AgentHome(b)
<1> DEFINE a == SetScope(NewAgent(n, f), f)
           b == Resumed(a, log)
           G == Grouped(log)
           L(c) == Logged(log, c)
<1>1. /\ Live(a) /\ Live(b) /\ b.cur = Main /\ Synced(b)
      /\ \A c \in Ctx : b.saved[c] = IF c \in G THEN Len(L(c)) ELSE 0
      /\ \A c \in Ctx : c \notin G /\ c # Main => b.of[c] = <<>>
      /\ \A c \in Ctx : c \in G => b.of[c] # <<>> /\ Hist(b, c) = Forced(L(c))
      /\ Main \notin G => b.of[Main] # <<>> /\ Hist(b, Main) = a.msgs
      /\ \A c : c \in b.injected <=>
            \/ Main \notin G /\ c \in {f} \cap HotCtx
            \/ \E d \in G : c \in HotIn(L(d))
      BY RelaunchedIs
<1>2. /\ Distinct(a.msgs) /\ AgentWithin(a, Marked({f} \cap HotCtx))
      /\ f \in HotCtx => Hot(f) \in Items(a.msgs)
      /\ f = Main => AgentHome(a)
      BY LaunchFits, LaunchWithin
<1>3. a.msgs \in Seq(Message) /\ Len(a.msgs) \in Nat /\ a.cur = Main
      BY <1>1, PartsAre, LaunchIs
<1> HIDE DEF a, b
<1>4. \A c : L(c) \in Seq(Message) /\ Len(L(c)) \in Nat
      BY LoggedIs, LenProperties
<1>5. \A i \in 1 .. Len(log) : log[i].label \in Ctx /\ log[i].label \in G /\ log[i].msg \in Message
  <2>1. \A i \in 1 .. Len(log) : log[i] \in Entry
        BY ElementOfSeq
  <2>2. \A i \in 1 .. Len(log) : log[i].label \in G
        BY LoggedHas
  <2> QED BY <2>1, <2>2 DEF Entry
<1>6. G \subseteq Ctx
  <2>1. DOMAIN log = 1 .. Len(log)
        BY LenProperties
  <2> QED BY <2>1, <1>5 DEF Grouped
<1>7. \A i \in 1 .. Len(log) : \E k \in 1 .. Len(L(log[i].label)) : L(log[i].label)[k] = log[i].msg
      BY LoggedHas
<1>8. \A c \in Ctx : c \notin G => Len(L(c)) = 0
      BY LoggedNone
<1>9. \A c \in Ctx : c \in G => Hist(b, c) = L(c) /\ L(c) # <<>>
  <2> SUFFICES ASSUME NEW c \in Ctx, c \in G PROVE Hist(b, c) = L(c) /\ L(c) # <<>>
      OBVIOUS
  <2>1. L(c)[1] = Sys /\ L(c) # <<>>
        BY LoggedIs DEF Headed
  <2> HIDE DEF L
  <2>2. Forced(L(c)) = L(c)
        BY <2>1, <1>4, ForcedIs
  <2> QED BY <2>1, <2>2, <1>1
<1> HIDE DEF L, G
<1>10. SpokenThere(b, log)
  <2> SUFFICES ASSUME NEW i \in 1 .. Len(log) PROVE log[i].msg \in Items(Hist(b, log[i].label))
      BY DEF SpokenThere
  <2>1. PICK k \in 1 .. Len(L(log[i].label)) : L(log[i].label)[k] = log[i].msg
        BY <1>7
  <2>2. L(log[i].label)[k] \in Items(L(log[i].label))
        BY <1>4, ItemsAre
  <2> QED BY <2>1, <2>2, <1>5, <1>9
<1>11. Mirrors(b, log)
  <2> SUFFICES ASSUME NEW c \in Ctx
               PROVE  /\ b.of[c] = <<>> => c \notin G
                      /\ b.of[c] # <<>> =>
                            /\ b.saved[c] <= Len(Hist(b, c)) /\ Len(L(c)) = b.saved[c]
                            /\ \A i \in 1 .. Len(L(c)) : L(c)[i] = Hist(b, c)[i]
      BY DEF Mirrors, L, G
  <2>1. CASE c \in G
    <3>1. Hist(b, c) = L(c) /\ b.saved[c] = Len(L(c)) /\ b.of[c] # <<>>
          BY <2>1, <1>1, <1>9
    <3>2. Len(L(c)) <= Len(L(c))
          BY <1>4
    <3> QED BY <3>1, <3>2
  <2>2. CASE c \notin G
    <3>1. Len(L(c)) = 0 /\ b.saved[c] = 0
          BY <2>2, <1>1, <1>8
    <3>2. Len(Hist(b, c)) \in Nat
          BY <1>1, HistIs
    <3> QED BY <3>1, <3>2, <2>2
  <2> QED BY <2>1, <2>2
<1>12. ASSUME \A c \in Ctx : Distinct(L(c)) PROVE Novel(b, log)
  <2> SUFFICES ASSUME NEW c \in Ctx
               PROVE  /\ b.of[c] = <<>> => c \notin G
                      /\ b.of[c] # <<>> => Distinct(Hist(b, c)) /\ NewAbove(Hist(b, c), b.saved[c], L(c))
      BY DEF Novel, L, G
  <2>1. CASE c \in G
    <3>1. Hist(b, c) = L(c) /\ b.saved[c] = Len(L(c)) /\ b.of[c] # <<>>
          BY <2>1, <1>1, <1>9
    <3>2. NewAbove(L(c), Len(L(c)), L(c))
          BY <1>4 DEF NewAbove
    <3> QED BY <3>1, <3>2, <1>12
  <2>2. CASE c \notin G
    <3>1. NewAbove(Hist(b, c), b.saved[c], L(c))
          BY <2>2, <1>8 DEF NewAbove
    <3>2. b.of[c] # <<>> => c = Main /\ Hist(b, c) = a.msgs
          BY <2>2, <1>1
    <3> QED BY <3>1, <3>2, <2>2, <1>2
  <2> QED BY <2>1, <2>2
<1>13. \A c \in G : Within(L(c), Marked(b.injected))
  <2> SUFFICES ASSUME NEW c \in G, NEW i \in 1 .. Len(L(c)) PROVE L(c)[i] \in Marked(b.injected)
      BY DEF Within
  <2>1. L(c)[i] \in Message /\ L(c)[i] \in Items(L(c))
        BY <1>4, ItemsAre, ElementOfSeq
  <2>2. L(c)[i].kind = "hot" => L(c)[i].ctx \in HotIn(L(c))
        BY <2>1 DEF HotIn
  <2> QED BY <2>1, <2>2, <1>1 DEF Marked
<1>14. LogWithin(log, Marked(b.injected))
      BY <1>5, <1>7, <1>13 DEF LogWithin, Within
<1>15. AgentWithin(b, Marked(b.injected))
  <2>1. ASSUME NEW c \in Ctx, b.of[c] # <<>> PROVE Within(Hist(b, c), Marked(b.injected))
    <3>1. CASE c \in G
          BY <3>1, <1>9, <1>13
    <3>2. CASE c \notin G
      <4>1. c = Main /\ Main \notin G /\ Hist(b, c) = a.msgs
            BY <3>2, <2>1, <1>1
      <4>2. {f} \cap HotCtx \subseteq b.injected
            BY <4>1, <1>1
      <4> QED BY <4>1, <4>2, <1>2 DEF AgentWithin, Within, Marked
    <3> QED BY <3>1, <3>2
  <2>2. \A c \in Ctx : Within(b.of[c], Marked(b.injected)) /\ (c = b.cur => Within(b.msgs, Marked(b.injected)))
        BY <2>1, <1>1, Held
  <2> QED BY <2>2, <1>1, SysIs DEF AgentWithin
<1>16. ASSUME LogWithin(log, HotOnly), NEW c \in HotCtx, NEW d \in G, c \in HotIn(L(d))
       PROVE  Hot(c) \in Items(Hist(b, d)) /\ \E i \in 1 .. Len(L(d)) : L(d)[i] = Hot(c)
  <2>1. PICK i \in 1 .. Len(L(d)) : L(d)[i].kind = "hot" /\ L(d)[i].ctx = c
        BY <1>4, <1>16, ItemsAre DEF HotIn
  <2>2. Within(L(d), HotOnly)
        BY <1>16, LoggedWithin DEF L
  <2>3. L(d)[i] = Hot(c)
        BY <2>1, <2>2 DEF Within, HotOnly
  <2>4. Hot(c) \in Items(L(d))
        BY <2>3, <1>4, ItemsAre
  <2> QED BY <2>3, <2>4, <1>6, <1>9
<1>17. ASSUME LogWithin(log, HotOnly) PROVE MemoryThere(b)
  <2> SUFFICES ASSUME NEW c \in b.injected, c \in HotCtx
               PROVE  \E d \in Ctx : Hot(c) \in Items(Hist(b, d))
      BY DEF MemoryThere
  <2>1. CASE Main \notin G /\ c \in {f} \cap HotCtx
        BY <2>1, <1>1, <1>2, SysIs
  <2>2. ASSUME NEW d \in G, c \in HotIn(L(d)) PROVE \E e \in Ctx : Hot(c) \in Items(Hist(b, e))
        BY <2>2, <1>6, <1>16, <1>17
  <2> QED BY <2>1, <2>2, <1>1
<1>18. ASSUME LogWithin(log, HotOnly), LogHome(log), f = Main PROVE MemoryHome(b) /\ AgentHome(b)
  <2>1. \A c \in G : Within(L(c), At(c))
    <3> SUFFICES ASSUME NEW c \in G PROVE Within(L(c), At(c))
        OBVIOUS
    <3>1. \A i \in 1 .. Len(log) : log[i].label = c => log[i].msg \in At(c)
          BY <1>18 DEF LogHome
    <3> QED BY <3>1, GroupWithin DEF L
  <2>2. ASSUME NEW c \in b.injected, c \in HotCtx PROVE Hot(c) \in Items(Hist(b, c))
    <3>1. CASE Main \notin G /\ c \in {f} \cap HotCtx
          BY <3>1, <1>1, <1>2, <1>18
    <3>2. ASSUME NEW d \in G, c \in HotIn(L(d)) PROVE Hot(c) \in Items(Hist(b, c))
      <4>1. Hot(c) \in Items(Hist(b, d)) /\ \E i \in 1 .. Len(L(d)) : L(d)[i] = Hot(c)
            BY <3>2, <2>2, <1>16, <1>18
      <4>2. Hot(c) \in At(d)
            BY <4>1, <2>1 DEF Within
      <4>3. c \in Ctx /\ d \in Ctx
            BY <2>2, <1>6, ContextAssumption DEF Ctx
      <4>4. c = d
            BY <4>2, <4>3, HotIs DEF At
      <4> QED BY <4>1, <4>4
    <3> QED BY <3>1, <3>2, <1>1
  <2>3. ASSUME NEW c \in Ctx, b.of[c] # <<>> PROVE Within(Hist(b, c), At(c))
    <3>1. CASE c \in G
          BY <3>1, <2>1, <1>9
    <3>2. CASE c \notin G
      <4>1. c = Main /\ Main \notin G /\ Hist(b, c) = a.msgs
            BY <3>2, <2>3, <1>1
      <4> QED BY <4>1, <1>2, <1>3, <1>18 DEF AgentHome
    <3> QED BY <3>1, <3>2
  <2>4. \A c \in Ctx : Within(b.of[c], At(c)) /\ (c = b.cur => Within(b.msgs, At(c)))
        BY <2>3, <1>1, Held
  <2> QED BY <2>2, <2>4, <1>1, SysIs DEF MemoryHome, AgentHome
<1> QED BY <1>10, <1>11, <1>12, <1>14, <1>15, <1>17, <1>18 DEF b, a, L

-----------------------------------------------------------------------------
(* What an agent and its log have in common, and the steps that keep it *)

\* Nothing is there twice, and memory only of contexts marked as injected.
Once(a, log) == Novel(a, log) /\ AgentWithin(a, Marked(a.injected)) /\ LogWithin(log, Marked(a.injected))

\* What was said and logged is remembered; a watermark is that of a logged context.
Remembered(a, log) ==
    /\ SpokenThere(a, log)
    /\ \A c \in Ctx : a.of[c] # <<>> /\ a.saved[c] > 0 => c \in Grouped(log)

\* Log and histories agree, and memory is in one of them; or in its own.
Agreed(a, log) == Mirrors(a, log) /\ MemoryThere(a)
AtHome(a, log) == MemoryHome(a) /\ AgentHome(a) /\ LogHome(log)

\* What is within U is within any larger set.
LEMMA WithinMore ==
    ASSUME NEW a, NEW log, NEW U, NEW V, U \subseteq V
    PROVE  /\ AgentWithin(a, U) => AgentWithin(a, V)
           /\ LogWithin(log, U) => LogWithin(log, V)
BY DEF AgentWithin, LogWithin, Within

\* An append adds its message.
LEMMA AppendItems ==
    ASSUME NEW h \in Seq(Message), NEW m \in Message
    PROVE  Items(h) \subseteq Items(Append(h, m)) /\ m \in Items(Append(h, m))
<1>1. /\ Append(h, m) \in Seq(Message) /\ Len(h) \in Nat /\ Len(Append(h, m)) = Len(h) + 1
      /\ \A i \in 1 .. Len(h) : Append(h, m)[i] = h[i]
      /\ Append(h, m)[Len(h) + 1] = m
      BY AppendIs
<1>2. /\ \A i \in 1 .. Len(h) : i \in 1 .. Len(Append(h, m))
      /\ Len(h) + 1 \in 1 .. Len(Append(h, m))
      BY <1>1
<1>3. \A i \in 1 .. Len(h) : h[i] \in Items(Append(h, m))
  <2>1. \A i \in 1 .. Len(Append(h, m)) : Append(h, m)[i] \in Items(Append(h, m))
        BY <1>1, ItemsAre
  <2> QED BY <2>1, <1>1, <1>2
<1>4. m \in Items(Append(h, m))
  <2>1. \A i \in 1 .. Len(Append(h, m)) : Append(h, m)[i] \in Items(Append(h, m))
        BY <1>1, ItemsAre
  <2> QED BY <2>1, <1>1, <1>2
<1>5. \A x \in Items(h) : \E i \in 1 .. Len(h) : h[i] = x
      BY ItemsAre
<1> QED BY <1>3, <1>4, <1>5

\* No step but a rewind or a summary takes anything out of a history.
LEMMA MovesItems ==
    ASSUME NEW a, NEW b, NEW M, Live(a), Moves(a, b, M), M \subseteq Message, NEW d \in Ctx
    PROVE  Items(Hist(a, d)) \subseteq Items(Hist(b, d))
<1>1. a.of[a.cur] # <<>>
      BY PartsAre
<1>2. CASE a.of[d] = <<>>
  <2>1. Hist(a, d) = <<>>
        BY <1>1, <1>2 DEF Hist
  <2>2. <<>> \in Seq(Message) /\ Len(<<>>) = 0
        BY EmptySeq
  <2>3. Items(<<>>) = {}
    <3>1. \A m \in Items(<<>>) : \E i \in 1 .. Len(<<>>) : <<>>[i] = m
          BY <2>2, ItemsAre
    <3>2. 1 .. Len(<<>>) = {}
          BY <2>2
    <3> QED BY <3>1, <3>2
  <2> QED BY <2>1, <2>3
<1>3. CASE a.of[d] # <<>>
  <2>1. Stem(a, d) = Hist(a, d) /\ Hist(a, d) \in Seq(Message)
        BY <1>3, HistIs DEF Stem
  <2>2. Hist(b, d) = Hist(a, d) \/ \E m \in M : Hist(b, d) = Append(Hist(a, d), m)
        BY <1>3, <2>1 DEF Moves
  <2> QED BY <2>1, <2>2, AppendItems
<1> QED BY <1>2, <1>3

\* Such a step keeps what was said and logged in its history.
LEMMA MovesSpoken ==
    ASSUME NEW a, NEW b, NEW M, NEW log \in Seq(Entry), Live(a), Moves(a, b, M), M \subseteq Message
    PROVE  Remembered(a, log) => Remembered(b, log)
<1> SUFFICES ASSUME Remembered(a, log) PROVE Remembered(b, log)
    OBVIOUS
<1>1. \A i \in 1 .. Len(log) : log[i].label \in Ctx
  <2>1. \A i \in 1 .. Len(log) : log[i] \in Entry
        BY ElementOfSeq
  <2> QED BY <2>1 DEF Entry
<1>2. SpokenThere(b, log)
      BY <1>1, MovesItems DEF Remembered, SpokenThere
<1>3. ASSUME NEW c \in Ctx, b.of[c] # <<>>, b.saved[c] > 0 PROVE c \in Grouped(log)
      BY <1>3 DEF Moves, Remembered
<1> QED BY <1>2, <1>3 DEF Remembered

-----------------------------------------------------------------------------
(* Steps that append, at most, keep it *)

\* A step that appends at most keeps the log equal to the history up to the watermark.
LEMMA MovesMirrors ==
    ASSUME NEW a, NEW b, NEW M, NEW log \in Seq(Entry), Live(a), Moves(a, b, M), M \subseteq Message,
           Mirrors(a, log)
    PROVE  Mirrors(b, log)
<1> SUFFICES ASSUME NEW d \in Ctx
             PROVE  /\ b.of[d] = <<>> => d \notin Grouped(log)
                    /\ b.of[d] # <<>> =>
                          /\ b.saved[d] <= Len(Hist(b, d)) /\ Len(Logged(log, d)) = b.saved[d]
                          /\ \A i \in 1 .. Len(Logged(log, d)) : Logged(log, d)[i] = Hist(b, d)[i]
    BY DEF Mirrors
<1>1. CASE a.of[d] = <<>> /\ b.of[d] = <<>>
      BY <1>1 DEF Mirrors
<1>2. CASE ~ (a.of[d] = <<>> /\ b.of[d] = <<>>)
  <2> DEFINE S == Stem(a, d)
             L == Logged(log, d)
             h == Hist(b, d)
  <2>1. /\ b.of[d] # <<>>
        /\ b.saved[d] = IF a.of[d] = <<>> THEN 0 ELSE a.saved[d]
        /\ h = S \/ \E m \in M : h = Append(S, m)
        BY <1>2 DEF Moves
  <2>2. S \in Seq(Message) /\ Len(S) \in Nat
        BY StemIs, LenProperties
  <2>3. b.saved[d] <= Len(S) /\ Len(L) = b.saved[d] /\ \A i \in 1 .. Len(L) : L[i] = S[i]
    <3>1. CASE a.of[d] # <<>>
      <4>1. S = Hist(a, d) /\ b.saved[d] = a.saved[d]
            BY <3>1, <2>1 DEF Stem
      <4> QED BY <4>1, <3>1 DEF Mirrors
    <3>2. CASE a.of[d] = <<>>
      <4>1. d \notin Grouped(log) /\ b.saved[d] = 0
            BY <3>2, <2>1 DEF Mirrors
      <4>2. Len(L) = 0
            BY <4>1, LoggedNone
      <4> QED BY <4>1, <4>2, <2>2
    <3> QED BY <3>1, <3>2
  <2> HIDE DEF S, L, h
  <2>4. Len(S) <= Len(h) /\ Len(h) \in Nat /\ \A i \in 1 .. Len(S) : h[i] = S[i]
    <3>1. CASE h = S
          BY <3>1, <2>2
    <3>2. ASSUME NEW m \in M, h = Append(S, m)
          PROVE  Len(S) <= Len(h) /\ Len(h) \in Nat /\ \A i \in 1 .. Len(S) : h[i] = S[i]
      <4>1. m \in Message
            OBVIOUS
      <4> QED BY <4>1, <3>2, <2>2, AppendIs
    <3> QED BY <3>1, <3>2, <2>1
  <2>5. \A i \in 1 .. Len(L) : i \in 1 .. Len(S)
        BY <2>2, <2>3
  <2>6. b.saved[d] <= Len(h)
    <3>1. Len(L) \in Nat
      <4>1. L \in Seq(Message)
            BY LoggedIs DEF L
      <4> QED BY <4>1, LenProperties
    <3> QED BY <3>1, <2>2, <2>3, <2>4
  <2>7. \A i \in 1 .. Len(L) : L[i] = h[i]
        BY <2>3, <2>4, <2>5
  <2> QED BY <2>1, <2>3, <2>6, <2>7 DEF L, h
<1> QED BY <1>1, <1>2

\* A new context begins with nothing but the bootstrap.
LEMMA StemHome ==
    ASSUME NEW a, NEW c \in Ctx, Live(a), AgentHome(a), Booted(a.msgs, a.boot)
    PROVE  Within(Stem(a, c), At(c)) /\ \A d : Within(Prefix(a.msgs, a.boot), At(d))
<1>1. a.msgs \in Seq(Message) /\ a.boot \in Nat
      BY PartsAre
<1>2. ASSUME NEW d PROVE Within(Prefix(a.msgs, a.boot), At(d))
  <2> DEFINE p == Prefix(a.msgs, a.boot)
  <2>1. /\ p \in Seq(Message) /\ Len(p) = a.boot
        /\ \A i \in 1 .. Len(p) : p[i] = a.msgs[i]
        BY <1>1, PrefixIs DEF Booted
  <2> HIDE DEF p
  <2>2. \A i \in 1 .. Len(p) : p[i] = BootMsg(i)
        BY <2>1 DEF Booted
  <2>3. \A i \in Nat : BootMsg(i) \in At(d)
        BY BootIsCold DEF BootMsg, At
  <2>4. \A i \in 1 .. Len(p) : i \in Nat
        BY <1>1, <2>1
  <2> QED BY <2>2, <2>3, <2>4 DEF Within, p
<1>3. Within(Stem(a, c), At(c))
      BY <1>2 DEF Stem, Hist, AgentHome
<1> QED BY <1>2, <1>3

\* Going to a context.
LEMMA EnterKeeps ==
    ASSUME NEW a, NEW c \in Ctx, NEW log \in Seq(Entry), Live(a)
    PROVE  LET b == Enter(a, c) IN
           /\ Once(a, log) => Once(b, log)
           /\ Remembered(a, log) => Remembered(b, log)
           /\ Agreed(a, log) => Agreed(b, log)
           /\ AtHome(a, log) /\ Booted(a.msgs, a.boot) => AtHome(b, log)
           /\ \A d \in Ctx : Items(Hist(a, d)) \subseteq Items(Hist(b, d))
<1> DEFINE b == Enter(a, c)
           S == Stem(a, c)
           M == NewHot(a, c)
<1>1. /\ b.cur = c /\ b.injected = a.injected \cup ({c} \cap HotCtx)
      /\ b.msgs = IF c \in HotCtx \ a.injected THEN Append(S, Hot(c)) ELSE S
      /\ b.of[c] = IF c = a.cur THEN a.of[c] ELSE S
      /\ \A d \in Ctx : d # c => b.of[d] = Hist(a, d)
      BY EnterIs
<1>2. Moves(a, b, M)
      BY EnterMoves
<1>3. /\ \A U : AgentWithin(a, U) /\ M \subseteq U => AgentWithin(b, U)
      BY EnterWithin
<1>4. Hot(c) \in Message /\ Hot(c).kind = "hot" /\ Hot(c).ctx = c
      BY HotIs
<1>5. M \subseteq {Hot(c)} /\ M \subseteq Message /\ (c \in a.injected => M = {})
      BY <1>4 DEF NewHot
<1>6. S \in Seq(Message) /\ S # <<>>
      BY StemIs
<1>7. a.of[a.cur] # <<>> /\ a.cur \in Ctx
      BY PartsAre
<1> HIDE DEF b, S, M
<1>8. ASSUME Once(a, log) PROVE Once(b, log)
  <2>1. Marked(a.injected) \subseteq Marked(b.injected)
        BY <1>1 DEF Marked
  <2>2. M \subseteq Marked(b.injected)
    <3>1. CASE M = {}
          BY <3>1
    <3>2. CASE M # {}
      <4>1. c \in HotCtx
            BY <3>2 DEF M, NewHot
      <4> QED BY <4>1, <1>1, <1>4, <1>5 DEF Marked
    <3> QED BY <3>1, <3>2
  <2>3. M \cap Marked(a.injected) = {}
        BY <1>4, <1>5 DEF Marked
  <2>4. AgentWithin(b, Marked(b.injected)) /\ LogWithin(log, Marked(b.injected))
        BY <2>1, <2>2, <1>3, <1>8, WithinMore DEF Once
  <2>5. Novel(b, log)
        BY <2>3, <1>2, <1>5, <1>8, MovesNovel DEF Once
  <2> QED BY <2>4, <2>5 DEF Once
<1>9. Remembered(a, log) => Remembered(b, log)
      BY <1>2, <1>5, MovesSpoken
<1>10. \A d \in Ctx : Items(Hist(a, d)) \subseteq Items(Hist(b, d))
      BY <1>2, <1>5, MovesItems
<1>11. c \in HotCtx \ a.injected => Hot(c) \in Items(Hist(b, c))
  <2>1. Hist(b, c) = b.msgs
        BY <1>1 DEF Hist
  <2> QED BY <2>1, <1>1, <1>4, <1>6, AppendItems
<1>12. ASSUME Agreed(a, log) PROVE Agreed(b, log)
  <2>1. Mirrors(b, log)
        BY <1>2, <1>5, <1>12, MovesMirrors DEF Agreed
  <2>2. MemoryThere(b)
        BY <1>1, <1>10, <1>11, <1>12 DEF Agreed, MemoryThere
  <2> QED BY <2>1, <2>2 DEF Agreed
<1>13. ASSUME AtHome(a, log), Booted(a.msgs, a.boot) PROVE AtHome(b, log)
  <2>1. ASSUME NEW d \in b.injected, d \in HotCtx PROVE Hot(d) \in Items(Hist(b, d))
    <3>1. d \in Ctx
          BY <2>1, ContextAssumption DEF Ctx
    <3>2. CASE d \in a.injected
          BY <3>1, <3>2, <2>1, <1>10, <1>13 DEF AtHome, MemoryHome
    <3>3. CASE d \notin a.injected
      <4>1. d = c
            BY <3>3, <2>1, <1>1
      <4> QED BY <4>1, <3>3, <2>1, <1>11
    <3> QED BY <3>2, <3>3
  <2>2. Within(S, At(c))
        BY <1>13, StemHome DEF AtHome, S
  <2>3. Hot(c) \in At(c)
        BY <1>4 DEF At
  <2>4. Within(b.msgs, At(c))
        BY <2>2, <2>3, <1>1, <1>4, <1>6, AppendWithin
  <2>5. ASSUME NEW d \in Ctx PROVE Within(b.of[d], At(d))
    <3>1. CASE d = c
          BY <3>1, <2>2, <1>1, <1>13 DEF AtHome, AgentHome
    <3>2. CASE d # c
          BY <3>2, <1>1, <1>13 DEF Hist, AtHome, AgentHome
    <3> QED BY <3>1, <3>2
  <2> QED BY <2>1, <2>4, <2>5, <1>1, <1>13 DEF AtHome, MemoryHome, AgentHome
<1> QED BY <1>8, <1>9, <1>10, <1>12, <1>13 DEF b

\* A message of a turn, or a note, that is nowhere yet.
LEMMA AppendKeeps ==
    ASSUME NEW a, NEW m \in Message, NEW U, NEW log \in Seq(Entry), Live(a),
           AgentWithin(a, U), LogWithin(log, U), m \notin U, m.kind # "hot"
    PROVE  LET b == AppendMessage(a, m) IN
           /\ Once(a, log) => Once(b, log)
           /\ Remembered(a, log) => Remembered(b, log)
           /\ Agreed(a, log) => Agreed(b, log)
           /\ AtHome(a, log) => AtHome(b, log)
           /\ m \in Items(Hist(b, a.cur))
           /\ \A d \in Ctx : Items(Hist(a, d)) \subseteq Items(Hist(b, d))
<1> DEFINE b == AppendMessage(a, m)
<1>1. /\ b.cur = a.cur /\ b.injected = a.injected /\ b.msgs = Append(a.msgs, m)
      /\ \A d \in Ctx : b.of[d] = IF d = a.cur THEN b.msgs ELSE a.of[d]
      BY AppendMessageIs
<1>2. Moves(a, b, {m})
      BY AppendMoves
<1>3. \A V : AgentWithin(a, V) /\ m \in V => AgentWithin(b, V)
      BY AppendMessageWithin
<1>4. a.msgs \in Seq(Message) /\ a.cur \in Ctx
      BY PartsAre
<1> HIDE DEF b
<1>5. ASSUME Once(a, log) PROVE Once(b, log)
  <2>1. m \in Marked(b.injected)
        BY DEF Marked
  <2>2. Novel(b, log)
        BY <1>2, <1>5, MovesNovel DEF Once
  <2> QED BY <2>1, <2>2, <1>1, <1>3, <1>5 DEF Once
<1>6. Remembered(a, log) => Remembered(b, log)
      BY <1>2, MovesSpoken
<1>7. \A d \in Ctx : Items(Hist(a, d)) \subseteq Items(Hist(b, d))
      BY <1>2, MovesItems
<1>8. m \in Items(Hist(b, a.cur))
      BY <1>1, <1>4, AppendItems DEF Hist
<1>9. ASSUME Agreed(a, log) PROVE Agreed(b, log)
  <2>1. Mirrors(b, log)
        BY <1>2, <1>9, MovesMirrors DEF Agreed
  <2> QED BY <2>1, <1>1, <1>7, <1>9 DEF Agreed, MemoryThere
<1>10. ASSUME AtHome(a, log) PROVE AtHome(b, log)
  <2>1. m \in At(a.cur)
        BY DEF At
  <2>2. Within(b.msgs, At(a.cur))
        BY <2>1, <1>1, <1>4, <1>10, AppendWithin DEF AtHome, AgentHome
  <2>3. AgentHome(b)
        BY <2>2, <1>1, <1>10 DEF AtHome, AgentHome
  <2>4. MemoryHome(b)
    <3>1. \A d \in HotCtx : d \in Ctx
          BY ContextAssumption DEF Ctx
    <3> QED BY <3>1, <1>1, <1>7, <1>10 DEF AtHome, MemoryHome
  <2> QED BY <2>3, <2>4, <1>10 DEF AtHome
<1> QED BY <1>5, <1>6, <1>7, <1>8, <1>9, <1>10 DEF b

\* The copy from which a note rebuilds the current history lacks memory at most.
LEMMA RewindsItems ==
    ASSUME NEW a, NEW b, NEW m \in Message, Live(a), Synced(a), Rewinds(a, b, m), NEW d \in Ctx,
           NEW x \in Items(Hist(a, d)), x.kind # "hot"
    PROVE  x \in Items(Hist(b, d))
<1>1. /\ a.msgs \in Seq(Message) /\ a.cur \in Ctx /\ a.of[a.cur] \in Seq(Message)
      /\ Len(a.msgs) \in Nat /\ Len(a.of[a.cur]) \in Nat
      BY PartsAre
<1>2. /\ b.cur = a.cur /\ b.msgs = Append(a.of[a.cur], m)
      /\ \A c \in Ctx : b.of[c] = IF c = a.cur THEN b.msgs ELSE a.of[c]
      BY DEF Rewinds
<1>3. CASE d # a.cur
      BY <1>2, <1>3 DEF Hist
<1>4. CASE d = a.cur
  <2>1. PICK i \in 1 .. Len(a.msgs) : a.msgs[i] = x
        BY <1>1, <1>4, ItemsAre DEF Hist
  <2>2. ~ (i > Len(a.of[a.cur]))
        BY <2>1 DEF Synced
  <2>3. i \in 1 .. Len(a.of[a.cur])
        BY <2>2, <1>1
  <2>4. a.of[a.cur][i] = x
        BY <2>1, <2>3 DEF Synced
  <2>5. x \in Items(a.of[a.cur])
        BY <2>3, <2>4, <1>1, ItemsAre
  <2>6. x \in Items(b.msgs)
        BY <2>5, <1>1, <1>2, AppendItems
  <2> QED BY <2>6, <1>2, <1>4 DEF Hist
<1> QED BY <1>3, <1>4

\* A note, the exception being one for the current context while messages is ahead of contextMsgs.
LEMMA NoteKeeps ==
    ASSUME NEW a, NEW c \in Ctx, NEW m \in Message, NEW U, NEW log \in Seq(Entry), Live(a), Synced(a),
           AgentWithin(a, U), LogWithin(log, U), m \notin U, m.kind # "hot"
    PROVE  LET b == InjectNote(a, c, m) IN
           /\ Once(a, log) => Once(b, log)
           /\ Remembered(a, log) => Remembered(b, log)
           /\ c # a.cur \/ a.of[c] = a.msgs =>
                 /\ Agreed(a, log) => Agreed(b, log)
                 /\ AtHome(a, log) /\ Booted(a.msgs, a.boot) => AtHome(b, log)
           /\ m \in Items(Hist(b, c))
           /\ \A d \in Ctx : \A x \in Items(Hist(a, d)) : x.kind # "hot" => x \in Items(Hist(b, d))
<1> DEFINE b == InjectNote(a, c, m)
           o == IF a.of[c] = <<>> THEN Prefix(a.msgs, a.boot) ELSE a.of[c]
           G == c # a.cur \/ a.of[c] = a.msgs
<1>1. /\ b.cur = a.cur /\ b.injected = a.injected
      /\ b.msgs = IF c = a.cur THEN Append(o, m) ELSE a.msgs
      /\ \A d \in Ctx : b.of[d] = IF d = c THEN Append(o, m) ELSE a.of[d]
      BY InjectNoteIs
<1>2. (G => Moves(a, b, {m})) /\ (c = a.cur => Rewinds(a, b, m))
      BY NoteMoves
<1>3. \A V : AgentWithin(a, V) /\ m \in V => AgentWithin(b, V)
      BY NoteWithin
<1>4. a.msgs \in Seq(Message) /\ a.of[c] \in Seq(Message) /\ a.boot \in Nat /\ a.of[a.cur] # <<>>
      BY PartsAre
<1>5. o \in Seq(Message)
      BY <1>4, PrefixIs
<1> HIDE DEF b, o
<1>6. m \in Items(Hist(b, c))
  <2>1. Hist(b, c) = Append(o, m)
        BY <1>1 DEF Hist
  <2> QED BY <2>1, <1>5, AppendItems
<1>7. \A d \in Ctx : \A x \in Items(Hist(a, d)) : x.kind # "hot" => x \in Items(Hist(b, d))
  <2>1. CASE G
        BY <2>1, <1>2, MovesItems
  <2>2. CASE c = a.cur
        BY <2>2, <1>2, RewindsItems
  <2> QED BY <2>1, <2>2
<1>8. ASSUME Once(a, log) PROVE Once(b, log)
  <2>1. m \in Marked(b.injected)
        BY DEF Marked
  <2>2. Novel(b, log)
    <3>1. CASE G
          BY <3>1, <1>2, <1>8, MovesNovel DEF Once
    <3>2. CASE c = a.cur
          BY <3>2, <1>2, <1>8, RewindsNovel DEF Once
    <3> QED BY <3>1, <3>2
  <2> QED BY <2>1, <2>2, <1>1, <1>3, <1>8 DEF Once
<1>9. ASSUME Remembered(a, log) PROVE Remembered(b, log)
  <2>1. CASE G
        BY <2>1, <1>2, <1>9, MovesSpoken
  <2>2. CASE c = a.cur
    <3>1. \A i \in 1 .. Len(log) : log[i].label \in Ctx
      <4>1. \A i \in 1 .. Len(log) : log[i] \in Entry
            BY ElementOfSeq
      <4> QED BY <4>1 DEF Entry
    <3>2. SpokenThere(b, log)
      <4>1. "hot" \notin Spoken
            BY DEF Spoken
      <4> QED BY <4>1, <3>1, <1>7, <1>9 DEF Remembered, SpokenThere
    <3>3. \A d \in Ctx : b.of[d] # <<>> => a.of[d] # <<>>
          BY <2>2, <1>1, <1>4
    <3>4. b.saved = a.saved
          BY <2>2, <1>2 DEF Rewinds
    <3> QED BY <3>2, <3>3, <3>4, <1>9 DEF Remembered
  <2> QED BY <2>1, <2>2
<1>10. ASSUME G PROVE \A d \in Ctx : Items(Hist(a, d)) \subseteq Items(Hist(b, d))
      BY <1>2, <1>10, MovesItems
<1>11. ASSUME G, Agreed(a, log) PROVE Agreed(b, log)
  <2>1. Mirrors(b, log)
        BY <1>2, <1>11, MovesMirrors DEF Agreed
  <2> QED BY <2>1, <1>1, <1>10, <1>11 DEF Agreed, MemoryThere
<1>12. ASSUME G, AtHome(a, log), Booted(a.msgs, a.boot) PROVE AtHome(b, log)
  <2>1. m \in At(c)
        BY DEF At
  <2>2. Within(o, At(c))
        BY <1>12, StemHome DEF AtHome, AgentHome, o
  <2>3. Within(Append(o, m), At(c))
        BY <2>1, <2>2, <1>5, AppendWithin
  <2>4. AgentHome(b)
        BY <2>3, <1>1, <1>12 DEF AtHome, AgentHome
  <2>5. MemoryHome(b)
    <3>1. \A d \in HotCtx : d \in Ctx
          BY ContextAssumption DEF Ctx
    <3> QED BY <3>1, <1>1, <1>10, <1>12 DEF AtHome, MemoryHome
  <2> QED BY <2>4, <2>5, <1>12 DEF AtHome
<1> QED BY <1>6, <1>7, <1>8, <1>9, <1>11, <1>12 DEF b

-----------------------------------------------------------------------------
(* The end of a turn, a summary and a start keep it *)

\* What the end of a turn in c is going to log.
Unsaved(a, c) == {a.msgs[i] : i \in {j \in 1 .. Len(a.msgs) : j > a.saved[c]}}

\* The end of a turn in the current context.
LEMMA DoneKeeps ==
    ASSUME NEW a, NEW log \in Seq(Entry), Live(a)
    PROVE  LET b == Saved(a, a.cur)
               all == log \o NewEntries(a, a.cur)
           IN
           /\ Once(a, log) /\ (\A d \in Ctx : Distinct(Logged(log, d)))
                 => Once(b, all) /\ \A d \in Ctx : Distinct(Logged(all, d))
           /\ Remembered(a, log) => Remembered(b, all)
           /\ SysFirst(a) /\ Headed(log) /\ Remembered(a, log) => Headed(all)
           /\ Agreed(a, log) => Agreed(b, all)
           /\ AtHome(a, log) => AtHome(b, all)
           /\ \A U : AgentWithin(a, U) /\ LogWithin(log, U) => LogWithin(all, U)
           /\ \A x \in Unsaved(a, a.cur) : \E i \in 1 .. Len(all) : all[i].msg = x
           /\ \A i \in 1 .. Len(log) : i \in 1 .. Len(all) /\ all[i] = log[i]
<1> DEFINE c == a.cur
           k == a.saved[c]
           all == log \o NewEntries(a, c)
           g == Logged(log, c)
           h == Logged(all, c)
           n == IF Len(a.msgs) <= k THEN 0 ELSE Len(a.msgs) - k
           b == Saved(a, c)
<1>1. /\ c \in Ctx /\ Len(a.msgs) \in Nat /\ Len(a.msgs) >= 1 /\ k \in Nat /\ a.of[c] # <<>>
      /\ a.msgs \in Seq(Message)
      BY PartsAre
<1>2. /\ all \in Seq(Entry)
      /\ \A d : d # c => Logged(all, d) = Logged(log, d) /\ (d \in Grouped(all) <=> d \in Grouped(log))
      /\ h \in Seq(Message) /\ g \in Seq(Message) /\ Len(g) \in Nat /\ Len(h) = Len(g) + n
      /\ Grouped(log) \subseteq Grouped(all)
      /\ n # 0 => c \in Grouped(all)
      /\ \A i \in 1 .. Len(g) : h[i] = g[i]
      /\ \A i \in 1 .. n : k + i \in 1 .. Len(a.msgs) /\ h[Len(g) + i] = a.msgs[k + i]
      BY DoneLog
<1>3. /\ Len(all) = Len(log) + n
      /\ \A i \in 1 .. Len(log) : all[i] = log[i]
      /\ \A i \in 1 .. n : /\ k + i \in 1 .. Len(a.msgs)
                           /\ all[Len(log) + i].msg = a.msgs[k + i] /\ all[Len(log) + i].label = c
      BY DoneLog
<1>4. /\ b.msgs = a.msgs /\ b.of = a.of /\ b.cur = a.cur /\ b.injected = a.injected
      /\ \A d \in Ctx : b.saved[d] = IF d = c THEN Len(a.msgs) ELSE a.saved[d]
      BY <1>1, SavedIs
<1>5. n \in Nat /\ (n = 0 => Len(a.msgs) <= k) /\ (k <= Len(a.msgs) => k + n = Len(a.msgs))
      BY <1>1
<1>6. Len(log) \in Nat
      BY LenProperties
<1>7. /\ \A d : d \in Grouped(log) => Logged(log, d) # <<>>
      /\ c \notin Grouped(log) => Len(g) = 0
      /\ c \in Grouped(all) => Len(h) >= 1
  <2>1. \A d : d \in Grouped(log) => Logged(log, d) # <<>>
        BY LoggedIs
  <2>2. c \notin Grouped(log) => Len(g) = 0
        BY LoggedNone
  <2>3. c \in Grouped(all) => h # <<>>
        BY <1>2, LoggedIs
  <2> HIDE DEF h, g, all
  <2>4. c \in Grouped(all) => Len(h) >= 1
        BY <2>3, <1>2, NotEmpty
  <2> QED BY <2>1, <2>2, <2>4
<1>8. Once(a, log) /\ (\A d \in Ctx : Distinct(Logged(log, d)))
         => Novel(b, all) /\ \A d \in Ctx : Distinct(Logged(all, d))
      BY DoneNovel DEF Once
<1> HIDE DEF k, all, g, h, n, b
<1>9. \A i \in 1 .. Len(all) : \/ i \in 1 .. Len(log) /\ all[i] = log[i]
                               \/ /\ all[i].label = c
                                  /\ \E j \in 1 .. Len(a.msgs) : all[i].msg = a.msgs[j]
  <2> SUFFICES ASSUME NEW i \in 1 .. Len(all), i \notin 1 .. Len(log)
               PROVE  all[i].label = c /\ \E j \in 1 .. Len(a.msgs) : all[i].msg = a.msgs[j]
      BY <1>3
  <2> DEFINE j == i - Len(log)
  <2>1. j \in 1 .. n /\ i = Len(log) + j
        BY <1>3, <1>5, <1>6
  <2> HIDE DEF j
  <2> QED BY <2>1, <1>3
<1>10. \A d \in Ctx : Hist(b, d) = Hist(a, d)
       BY <1>4 DEF Hist
<1>11. ASSUME NEW U, AgentWithin(a, U), LogWithin(log, U) PROVE LogWithin(all, U)
       BY <1>9, <1>11 DEF AgentWithin, LogWithin, Within
<1>12. ASSUME Once(a, log), \A d \in Ctx : Distinct(Logged(log, d))
       PROVE  Once(b, all) /\ \A d \in Ctx : Distinct(Logged(all, d))
  <2>1. LogWithin(all, Marked(a.injected)) /\ AgentWithin(b, Marked(a.injected))
        BY <1>4, <1>11, <1>12 DEF Once, AgentWithin
  <2> QED BY <2>1, <1>4, <1>8, <1>12 DEF Once
<1>13. ASSUME Remembered(a, log) PROVE Remembered(b, all)
  <2>1. ASSUME NEW i \in 1 .. Len(all), all[i].msg.kind \in Spoken
        PROVE  all[i].msg \in Items(Hist(b, all[i].label))
    <3>1. CASE i \in 1 .. Len(log) /\ all[i] = log[i]
      <4>1. log[i].msg \in Items(Hist(a, log[i].label)) /\ log[i] \in Entry
            BY <3>1, <2>1, <1>13, ElementOfSeq DEF Remembered, SpokenThere
      <4>2. log[i].label \in Ctx
            BY <4>1 DEF Entry
      <4> QED BY <4>1, <4>2, <3>1, <1>10
    <3>2. CASE all[i].label = c /\ \E j \in 1 .. Len(a.msgs) : all[i].msg = a.msgs[j]
      <4>1. all[i].msg \in Items(a.msgs)
            BY <3>2, <1>1, ItemsAre
      <4> QED BY <4>1, <3>2, <1>4 DEF Hist
    <3> QED BY <3>1, <3>2, <1>9
  <2>2. ASSUME NEW d \in Ctx, b.of[d] # <<>>, b.saved[d] > 0 PROVE d \in Grouped(all)
    <3>1. CASE d = c
      <4>1. n = 0 => k > 0
            BY <1>1, <1>5
      <4>2. k > 0 => c \in Grouped(log)
            BY <1>1, <1>13 DEF Remembered, k
      <4> QED BY <4>1, <4>2, <3>1, <1>2
    <3>2. CASE d # c
          BY <3>2, <2>2, <1>2, <1>4, <1>13 DEF Remembered
    <3> QED BY <3>1, <3>2
  <2> QED BY <2>1, <2>2 DEF Remembered, SpokenThere
<1>14. ASSUME SysFirst(a), Headed(log), Remembered(a, log) PROVE Headed(all)
  <2> SUFFICES ASSUME NEW d \in Ctx, d \in Grouped(all) PROVE Logged(all, d)[1] = Sys
      BY DEF Headed
  <2>1. CASE d # c
        BY <2>1, <1>2, <1>14 DEF Headed
  <2>2. CASE d = c
    <3>1. CASE Len(g) = 0
      <4>1. c \notin Grouped(log)
        <5>1. g = <<>>
              BY <3>1, <1>2, EmptySeq
        <5> QED BY <5>1, <1>7 DEF g
      <4>2. k = 0
        <5>1. ~ (k > 0)
              BY <4>1, <1>1, <1>14 DEF Remembered, k
        <5> QED BY <5>1, <1>1
      <4>3. 1 \in 1 .. n /\ Len(g) + 1 = 1 /\ k + 1 = 1
            BY <2>2, <3>1, <4>2, <1>2, <1>5, <1>7
      <4>4. h[1] = a.msgs[1]
            BY <4>3, <1>2
      <4> QED BY <4>4, <2>2, <1>14 DEF SysFirst, h
    <3>2. CASE Len(g) # 0
      <4>1. c \in Grouped(log) /\ 1 \in 1 .. Len(g)
            BY <3>2, <1>2, <1>7
      <4>2. g[1] = Sys
            BY <4>1, <1>1, <1>14 DEF Headed, g
      <4> QED BY <4>1, <4>2, <2>2, <1>2 DEF h
    <3> QED BY <3>1, <3>2
  <2> QED BY <2>1, <2>2
<1>15. ASSUME Agreed(a, log) PROVE Agreed(b, all)
  <2>1. ASSUME NEW d \in Ctx
        PROVE  /\ b.of[d] = <<>> => d \notin Grouped(all)
               /\ b.of[d] # <<>> =>
                     /\ b.saved[d] <= Len(Hist(b, d)) /\ Len(Logged(all, d)) = b.saved[d]
                     /\ \A i \in 1 .. Len(Logged(all, d)) : Logged(all, d)[i] = Hist(b, d)[i]
    <3>1. CASE d # c
      <4>1. b.saved[d] = a.saved[d] /\ b.of[d] = a.of[d] /\ Hist(b, d) = Hist(a, d)
            BY <3>1, <1>4, <1>10
      <4>2. Logged(all, d) = Logged(log, d) /\ (d \in Grouped(all) <=> d \in Grouped(log))
            BY <3>1, <1>2
      <4> QED BY <4>1, <4>2, <1>15 DEF Agreed, Mirrors
    <3>2. CASE d = c
      <4>1. k <= Len(a.msgs) /\ Len(g) = k /\ \A i \in 1 .. Len(g) : g[i] = a.msgs[i]
            BY <1>1, <1>15 DEF Agreed, Mirrors, Hist, g, k
      <4>2. Len(h) = Len(a.msgs)
            BY <4>1, <1>2, <1>5
      <4>3. ASSUME NEW i \in 1 .. Len(h) PROVE h[i] = a.msgs[i]
        <5>1. CASE i \in 1 .. Len(g)
              BY <5>1, <4>1, <1>2
        <5>2. CASE i \notin 1 .. Len(g)
          <6> DEFINE j == i - k
          <6>1. j \in 1 .. n /\ Len(g) + j = i /\ k + j = i
                BY <5>2, <4>1, <4>2, <1>1, <1>5
          <6> HIDE DEF j
          <6> QED BY <6>1, <1>2
        <5> QED BY <5>1, <5>2
      <4>4. b.saved[c] = Len(a.msgs) /\ Hist(b, c) = a.msgs /\ b.of[c] # <<>>
            BY <1>1, <1>4 DEF Hist
      <4>5. Len(a.msgs) <= Len(a.msgs)
            BY <1>1
      <4> QED BY <4>2, <4>3, <4>4, <4>5, <3>2 DEF h
    <3> QED BY <3>1, <3>2
  <2>2. MemoryThere(b)
        BY <1>4, <1>10, <1>15 DEF Agreed, MemoryThere
  <2> QED BY <2>1, <2>2 DEF Agreed, Mirrors
<1>16. ASSUME AtHome(a, log) PROVE AtHome(b, all)
  <2>1. MemoryHome(b)
    <3>1. \A d \in HotCtx : d \in Ctx
          BY ContextAssumption DEF Ctx
    <3> QED BY <3>1, <1>4, <1>10, <1>16 DEF AtHome, MemoryHome
  <2>2. AgentHome(b)
        BY <1>4, <1>16 DEF AtHome, AgentHome
  <2>3. LogHome(all)
        BY <1>9, <1>16 DEF AtHome, LogHome, AgentHome, Within
  <2> QED BY <2>1, <2>2, <2>3 DEF AtHome
<1>17. ASSUME NEW x \in Unsaved(a, c) PROVE \E i \in 1 .. Len(all) : all[i].msg = x
  <2>1. PICK i \in 1 .. Len(a.msgs) : i > k /\ x = a.msgs[i]
        BY DEF Unsaved, k
  <2> DEFINE j == i - k
  <2>2. j \in 1 .. n /\ k + j = i /\ Len(log) + j \in 1 .. Len(all)
    <3>1. j \in Nat /\ j >= 1 /\ j <= Len(a.msgs) - k /\ k + j = i /\ ~ (Len(a.msgs) <= k)
          BY <2>1, <1>1
    <3>2. n = Len(a.msgs) - k
          BY <3>1 DEF n
    <3> QED BY <3>1, <3>2, <1>3, <1>5, <1>6
  <2> HIDE DEF j
  <2> QED BY <2>1, <2>2, <1>3
<1>18. \A i \in 1 .. Len(log) : i \in 1 .. Len(all) /\ all[i] = log[i]
       BY <1>3, <1>5, <1>6
<1> QED BY <1>11, <1>12, <1>13, <1>14, <1>15, <1>16, <1>17, <1>18 DEF b, all

\* A summary repeats nothing.
LEMMA CompactKeeps ==
    ASSUME NEW a, NEW m \in Message, NEW U, NEW log \in Seq(Entry), Live(a), CanCompact(a),
           AgentWithin(a, U), m \notin U, m.kind # "hot", Once(a, log)
    PROVE  Once(Compacted(a, m), log)
<1> DEFINE b == Compacted(a, m)
<1>1. b.injected = a.injected
      BY CompactedIs
<1>2. Novel(b, log)
      BY CompactedNovel DEF Once
<1>3. \A V : AgentWithin(a, V) /\ m \in V => AgentWithin(b, V)
      BY CompactedWithin
<1> HIDE DEF b
<1>4. m \in Marked(a.injected)
      BY DEF Marked
<1> QED BY <1>1, <1>2, <1>3, <1>4 DEF Once, b

\* An agent that has just started, and an empty log.
LEMMA FreshKeeps ==
    ASSUME NEW a, NEW log \in Seq(Entry), Live(a), log = <<>>,
           \A d \in Ctx : d # a.cur => a.of[d] = <<>>,
           \A d \in Ctx : a.saved[d] = 0,
           Distinct(a.msgs), AgentWithin(a, Marked(a.injected))
    PROVE  /\ Once(a, log) /\ Remembered(a, log)
           /\ Headed(log) /\ \A d \in Ctx : Distinct(Logged(log, d))
           /\ MemoryThere(a) => Agreed(a, log)
           /\ MemoryHome(a) /\ AgentHome(a) => AtHome(a, log)
           /\ \A U : LogWithin(log, U)
<1>1. Len(log) = 0 /\ DOMAIN log = {}
      BY EmptySeq
<1>2. Grouped(log) = {}
      BY <1>1 DEF Grouped
<1>3. \A d : Len(Logged(log, d)) = 0
      BY <1>2, LoggedNone
<1>4. Novel(a, log)
      BY <1>2, <1>3 DEF Novel, Hist, NewAbove
<1>5. Once(a, log)
      BY <1>1, <1>4 DEF Once, LogWithin
<1>6. Remembered(a, log)
      BY <1>1 DEF Remembered, SpokenThere
<1>7. Headed(log) /\ \A d \in Ctx : Distinct(Logged(log, d))
      BY <1>2, <1>3 DEF Headed, Distinct
<1>8. Mirrors(a, log)
  <2>1. \A d \in Ctx : Len(Hist(a, d)) \in Nat
        BY HistIs
  <2> QED BY <2>1, <1>2, <1>3 DEF Mirrors
<1>9. LogHome(log) /\ \A U : LogWithin(log, U)
      BY <1>1 DEF LogHome, LogWithin
<1> QED BY <1>5, <1>6, <1>7, <1>8, <1>9 DEF Agreed, AtHome

\* After /restart.
LEMMA RestartedIs ==
    ASSUME NEW n \in Nat, NEW c \in Ctx
    PROVE  LET a == NewAgent(n, c) IN
           /\ Live(a) /\ a.cur = Main /\ a.injected = {}
           /\ \A d \in Ctx : d # Main => a.of[d] = <<>>
           /\ \A d \in Ctx : a.saved[d] = 0
           /\ Synced(a) /\ SysFirst(a) /\ Distinct(a.msgs)
           /\ \A U : Sys \in U /\ (\A i \in Nat : Msg("boot", Main, i) \in U) => AgentWithin(a, U)
<1> DEFINE a == NewAgent(n, c)
           h == Bootstrap(n)
<1>1. Live(a) /\ a.cur = Main /\ \A d \in Ctx : a.saved[d] = 0
      BY NewAgentFine
<1>2. /\ a.msgs = h /\ a.injected = {}
      /\ \A d \in Ctx : a.of[d] = IF d = Main THEN h ELSE <<>>
  <2> HIDE DEF h
  <2>1. a = [msgs |-> h, of |-> [d \in Ctx |-> IF d = Main THEN h ELSE <<>>],
             cur |-> Main, saved |-> [d \in Ctx |-> 0], boot |-> n + 1,
             injected |-> {}, scope |-> c, base |-> n]
        BY DEF NewAgent, h
  <2> HIDE DEF a
  <2> QED BY <2>1
<1>3. /\ h \in Seq(Message) /\ Len(h) = n + 1 /\ Distinct(h)
      /\ \A i \in 1 .. n + 1 : h[i] = BootMsg(i)
      BY BootstrapIs, BootstrapDistinct
<1> HIDE DEF a, h
<1>4. Main \in Ctx
      BY SysIs
<1>5. Synced(a)
  <2>1. \A d \in Ctx : a.saved[d] <= Len(a.of[d])
    <3>1. \A d \in Ctx : Len(a.of[d]) \in Nat
          BY <1>1, PartsAre
    <3> QED BY <3>1, <1>1
  <2> QED BY <2>1, <1>1, <1>2, <1>4, SyncedIs
<1>6. SysFirst(a)
  <2>1. 1 \in 1 .. n + 1 /\ BootMsg(1) = Sys
        BY DEF BootMsg
  <2> QED BY <2>1, <1>2, <1>3 DEF SysFirst
<1>7. ASSUME NEW U, Sys \in U, \A i \in Nat : Msg("boot", Main, i) \in U PROVE AgentWithin(a, U)
  <2>1. \A i \in 1 .. n + 1 : BootMsg(i) \in U
        BY <1>7 DEF BootMsg
  <2>2. Within(h, U)
        BY <2>1, <1>3 DEF Within
  <2> QED BY <2>2, <1>2, EmptyWithin DEF AgentWithin
<1>8. \A d \in Ctx : d # Main => a.of[d] = <<>>
      BY <1>2
<1> QED BY <1>1, <1>2, <1>3, <1>5, <1>6, <1>7, <1>8 DEF a

-----------------------------------------------------------------------------
(* The inductive invariant of the logs *)

\* The messages that can be somewhere: those of turns that got so far, of notes that were made.
Used ==
    {m \in Message :
        /\ m.kind = "user" => m.n \in Turn /\ phase[m.n] \notin {"none", "born"}
        /\ m.kind = "reply" => m.n \in Turn /\ phase[m.n] \notin {"none", "born", "run"}
        /\ m.kind \in {"note", "sum"} => m.n <= notes
        /\ m.kind = "hot" => m = Hot(m.ctx) /\ m.ctx \in HotCtx
        /\ m.kind = "sys" => m = Sys}

Known ==
    /\ AgentWithin(ag, Used) /\ SysFirst(ag)
    /\ \A s \in DOMAIN logs : LogWithin(logs[s], Used)

PhasesFit ==
    /\ \A t \in Turn : t > turns => phase[t] = "none"
    /\ \A t \in answered : phase[t] \in {"ending", "over"}
    /\ \A t \in finished : phase[t] \in {"ending", "over", "rejected"}
    /\ launches = 0 => Unless({"bare", "resume"})

\* The memory of the context of a streaming turn counts as injected.
TurnInjected == turn # NoTurn /\ turnCtx \in HotCtx => turnCtx \in ag.injected

\* Between a prompt and the end of its turn, contextMsgs is messages; a turn that was rejected
\* has added one memory at most.
TurnSynced ==
    /\ Synced(ag)
    /\ (\E u \in Turn : phase[u] \in {"run", "ending"}) \/ (turn # NoTurn /\ phase[turn] = "rejected")
          => Short(ag)
    /\ turn # NoTurn /\ phase[turn] \in {"run", "ending", "over"} => ag.msgs = ag.of[ag.cur]

\* What a streaming turn has said is above the watermark.
TurnUnsaved ==
    /\ turn # NoTurn /\ phase[turn] \in {"run", "ending", "over"} =>
          Msg("user", home[turn], turn) \in Unsaved(ag, turnCtx)
    /\ turn # NoTurn /\ turn \in answered => Msg("reply", home[turn], turn) \in Unsaved(ag, turnCtx)

NotesThere == \A m \in noted : m.kind = "note" /\ m \in Items(Hist(ag, m.ctx))

LogsDistinct == \A s \in DOMAIN logs : \A c \in Ctx : Distinct(Logged(logs[s], c))

Plain == Unless({"elsewhere", "bare", "note", "race", "compact", "resume"})

SyncedInv == Unless({"resume"}) => TurnSynced
UnsavedInv == Unless({"race", "resume"}) => TurnUnsaved /\ FinishedIsLogged
NotesInv == launches = 0 /\ Unless({"race", "compact"}) => NotesThere
OnceInv == Unless({"resume"}) /\ BootIsLogged => Once(ag, logs[sess]) /\ LogsDistinct
RememberedInv ==
    Unless({"compact", "resume"}) => Remembered(ag, logs[sess]) /\ \A s \in DOMAIN logs : Headed(logs[s])
AgreedInv == Unless({"note", "race", "compact", "resume"}) => Agreed(ag, logs[sess])
HomeInv == Plain => AtHome(ag, logs[sess]) /\ \A s \in DOMAIN logs : LogHome(logs[s])

LogIInv ==
    /\ Known /\ PhasesFit /\ TurnInjected
    /\ SyncedInv /\ UnsavedInv /\ NotesInv
    /\ OnceInv /\ RememberedInv /\ AgreedInv /\ HomeInv

-----------------------------------------------------------------------------
(* What every step does *)

\* The exceptions of the properties and the relaunches only grow.
LEMMA Weaker ==
    ASSUME TypeOK, Next
    PROVE  /\ \A S : Unless(S)' => Unless(S)
           /\ BootIsLogged' => BootIsLogged
           /\ launches' = 0 => launches = 0
<1>1. met \subseteq met' /\ (launches' = launches \/ launches' = launches + 1) /\ launches \in Nat
      BY OnlyMore DEF TypeOK
<1> QED BY <1>1 DEF Unless, BootIsLogged

\* What may have become of the phases and the notes.
Grown ==
    /\ \A t \in Turn : phase[t] \notin {"none", "born"} => phase'[t] \notin {"none", "born"}
    /\ \A t \in Turn : phase[t] \notin {"none", "born", "run"} => phase'[t] \notin {"none", "born", "run"}
    /\ notes' = notes \/ notes' = notes + 1

\* Phases go forward.
LEMMA PhasesGrow ==
    ASSUME TypeOK, PhasesFit, Next
    PROVE  Grown /\ notes \in Nat
<1>1. phase \in [Turn -> Phase] /\ notes \in Nat /\ turns \in 0 .. MaxTurns
      BY DEF TypeOK
<1>2. ASSUME NEW t \in Turn, Goroutine(t) \/ RacingNote(t) PROVE Grown
      BY <1>1, <1>2 DEF Goroutine, Reject, Begin, Reply, Fail, Release, RacingNote, Grown
<1>3. ASSUME NEW a, StartIn(a), notes' = notes PROVE Grown
  <2>1. turns < MaxTurns /\ turns' = turns + 1 /\ phase' = [phase EXCEPT ![turns'] = "born"]
        BY <1>3 DEF StartIn
  <2>2. turns + 1 \in Turn /\ turns + 1 > turns
        BY <2>1, <1>1, ContextAssumption DEF Turn
  <2>3. phase[turns + 1] = "none"
        BY <2>2 DEF PhasesFit
  <2>4. \A t \in Turn : t # turns + 1 => phase'[t] = phase[t]
        BY <2>1, <1>1
  <2> QED BY <2>3, <2>4, <1>3 DEF Grown
<1>4. ASSUME phase' = phase, notes' = notes \/ notes' = notes + 1 PROVE Grown
      BY <1>4 DEF Grown
<1>5. CASE Send
  <2>1. StartIn(ag) /\ notes' = notes
        BY <1>5 DEF Send
  <2> QED BY <2>1, <1>1, <1>3
<1>6. CASE Done
  <2>1. notes' = notes /\ (StartIn(Saved(ag, turnCtx)) \/ phase' = phase)
        BY <1>6 DEF Done
  <2> QED BY <2>1, <1>1, <1>3, <1>4
<1>7. CASE Relaunch
  <2>1. notes' = notes /\ phase' = [t \in Turn |-> IF phase[t] = "none" THEN "none" ELSE "over"]
        BY <1>7 DEF Relaunch
  <2>2. \A t \in Turn : phase[t] # "none" => phase'[t] = "over"
        BY <2>1
  <2> QED BY <2>1, <2>2, <1>1 DEF Grown
<1>8. CASE Cancel \/ Compact \/ Restart \/ Fork
  <2>1. phase' = phase /\ (notes' = notes \/ notes' = notes + 1)
        BY <1>8 DEF Cancel, Compact, Restart, Fork
  <2> QED BY <2>1, <1>1, <1>4
<1>9. ASSUME NEW c \in Ctx, Focus(c) \/ Note(c) PROVE Grown
  <2>1. phase' = phase /\ (notes' = notes \/ notes' = notes + 1)
        BY <1>9 DEF Focus, Note
  <2> QED BY <2>1, <1>1, <1>4
<1>10. ASSUME NEW s \in DOMAIN logs, Resume(s) PROVE Grown
  <2>1. phase' = phase /\ notes' = notes
        BY <1>10 DEF Resume
  <2> QED BY <2>1, <1>1, <1>4
<1> QED BY <1>1, <1>2, <1>5, <1>6, <1>7, <1>8, <1>9, <1>10 DEF Next

\* What can be somewhere only grows.
LEMMA UsedGrows ==
    ASSUME TypeOK, PhasesFit, Next
    PROVE  Used \subseteq Used'
<1> SUFFICES ASSUME NEW m \in Message, m \in Used PROVE m \in Used'
    BY DEF Used
<1>1. /\ \A t \in Turn : phase[t] \notin {"none", "born"} => phase'[t] \notin {"none", "born"}
      /\ \A t \in Turn : phase[t] \notin {"none", "born", "run"} => phase'[t] \notin {"none", "born", "run"}
      /\ notes \in Nat /\ (notes' = notes \/ notes' = notes + 1)
      BY PhasesGrow DEF Grown
<1>2. m.n \in Nat
      BY DEF Message
<1>3. m.kind \in {"note", "sum"} => m.n <= notes'
      BY <1>1, <1>2 DEF Used
<1>4. /\ m.kind = "user" => m.n \in Turn /\ phase'[m.n] \notin {"none", "born"}
      /\ m.kind = "reply" => m.n \in Turn /\ phase'[m.n] \notin {"none", "born", "run"}
      BY <1>1 DEF Used
<1>5. /\ m.kind = "hot" => m = Hot(m.ctx) /\ m.ctx \in HotCtx
      /\ m.kind = "sys" => m = Sys
      BY DEF Used
<1> QED BY <1>3, <1>4, <1>5 DEF Used

-----------------------------------------------------------------------------
(* Phases *)

\* A turn that starts is the next one; nothing else changes its phase.
LEMMA PhasesStart ==
    ASSUME TypeOK, PhasesFit, NEW a, StartIn(a)
    PROVE  /\ turns + 1 \in Turn /\ turn' = turns + 1 /\ phase[turns + 1] = "none"
           /\ phase'[turns + 1] = "born" /\ home' = [home EXCEPT ![turns + 1] = focus]
           /\ turnCtx' = focus /\ ag' = Enter(a, focus)
           /\ turns + 1 \notin answered /\ turns + 1 \notin finished
           /\ \A t \in Turn : t # turns + 1 => phase'[t] = phase[t] /\ home'[t] = home[t]
           /\ \A t \in Turn : t > turns' => phase'[t] = "none"
<1>1. phase \in [Turn -> Phase] /\ home \in [Turn -> Ctx] /\ turns \in 0 .. MaxTurns
      BY DEF TypeOK
<1>2. /\ turns < MaxTurns /\ turns' = turns + 1 /\ phase' = [phase EXCEPT ![turns'] = "born"]
      /\ home' = [home EXCEPT ![turns'] = focus] /\ turn' = turns' /\ turnCtx' = focus
      /\ ag' = Enter(a, focus)
      BY DEF StartIn
<1>3. turns + 1 \in Turn /\ turns + 1 > turns
      BY <1>2, <1>1, ContextAssumption DEF Turn
<1>4. phase[turns + 1] = "none"
      BY <1>3 DEF PhasesFit
<1>5. turns + 1 \notin answered /\ turns + 1 \notin finished
      BY <1>4 DEF PhasesFit
<1>6. \A t \in Turn : t # turns + 1 => phase'[t] = phase[t] /\ home'[t] = home[t]
      BY <1>2, <1>1
<1>7. phase'[turns + 1] = "born"
      BY <1>2, <1>1, <1>3
<1>8. ASSUME NEW t \in Turn, t > turns' PROVE phase'[t] = "none"
  <2>1. t > turns /\ t # turns + 1
        BY <1>8, <1>2, <1>1 DEF Turn
  <2> QED BY <2>1, <1>6 DEF PhasesFit
<1> QED BY <1>2, <1>3, <1>4, <1>5, <1>6, <1>7, <1>8

\* No turn is ahead of its number, and only what has ended is answered or finished.
LEMMA PhasesStep ==
    ASSUME TypeOK, PhasesFit, Next
    PROVE  PhasesFit'
<1> DEFINE Stays ==
        /\ \A t \in Turn : t > turns' => phase'[t] = "none"
        /\ \A t \in answered' : phase'[t] \in {"ending", "over"}
        /\ \A t \in finished' : phase'[t] \in {"ending", "over", "rejected"}
<1>1. phase \in [Turn -> Phase] /\ answered \subseteq Turn /\ finished \subseteq Turn /\ launches \in Nat
      BY DEF TypeOK
<1>2. /\ \A t \in Turn : t > turns => phase[t] = "none"
      /\ \A t \in answered : phase[t] \in {"ending", "over"}
      /\ \A t \in finished : phase[t] \in {"ending", "over", "rejected"}
      /\ launches = 0 => Unless({"bare", "resume"})
      BY DEF PhasesFit
<1>3. ASSUME NEW t \in Turn, Goroutine(t) \/ RacingNote(t)
      PROVE Stays /\ (launches' = 0 => Unless({"bare", "resume"})')
  <2>1. /\ turns' = turns /\ finished' = finished /\ launches' = launches
        /\ answered' = answered \/ (phase'[t] = "ending" /\ answered' = answered \cup {t})
        /\ \A u \in Turn : u # t => phase'[u] = phase[u]
        /\ phase[t] \in {"born", "run", "ending"}
        /\ phase[t] = "ending" => phase'[t] = "over"
        /\ met' = met \/ met' = met \cup {"race"}
        BY <1>3, <1>1 DEF Goroutine, Reject, Begin, Reply, Fail, Release, RacingNote
  <2>2. \A u \in Turn : u > turns' => phase'[u] = "none"
        BY <2>1, <1>2
  <2>3. \A u \in answered' : phase'[u] \in {"ending", "over"}
        BY <2>1, <1>1, <1>2
  <2>4. \A u \in finished' : phase'[u] \in {"ending", "over", "rejected"}
        BY <2>1, <1>1, <1>2
  <2>5. launches' = 0 => Unless({"bare", "resume"})'
        BY <2>1, <1>2 DEF Unless
  <2> QED BY <2>2, <2>3, <2>4, <2>5
<1>4. ASSUME NEW a, StartIn(a), answered' = answered,
             finished' = finished \/ (finished' = finished \cup {turn} /\ turn \in Turn
                                        /\ phase[turn] \in {"ending", "over", "rejected"})
      PROVE Stays
  <2>1. /\ turns + 1 \in Turn /\ phase[turns + 1] = "none"
        /\ turns + 1 \notin answered /\ turns + 1 \notin finished
        /\ \A t \in Turn : t # turns + 1 => phase'[t] = phase[t]
        /\ \A t \in Turn : t > turns' => phase'[t] = "none"
        BY <1>4, PhasesStart
  <2>2. \A u \in answered' : phase'[u] \in {"ending", "over"}
        BY <2>1, <1>1, <1>2, <1>4
  <2>3. \A u \in finished' : phase'[u] \in {"ending", "over", "rejected"}
        BY <2>1, <1>1, <1>2, <1>4
  <2> QED BY <2>1, <2>2, <2>3
<1>5. ASSUME phase' = phase, turns' = turns, answered' = answered,
             finished' = finished \/ (finished' = finished \cup {turn} /\ turn \in Turn
                                        /\ phase[turn] \in {"ending", "over", "rejected"})
      PROVE Stays
      BY <1>1, <1>2, <1>5
<1>6. CASE Send
  <2>1. StartIn(ag) /\ answered' = answered /\ finished' = finished /\ launches' = launches /\ met' = met
        BY <1>6 DEF Send
  <2>2. Stays
        BY <2>1, <1>4
  <2> HIDE DEF Stays
  <2> QED BY <2>1, <2>2, <1>2 DEF PhasesFit, Unless, Stays
<1>7. CASE Done
  <2>1. /\ answered' = answered /\ launches' = launches /\ met' = met
        /\ finished' = finished \cup {turn} /\ turn # NoTurn /\ phase[turn] \in {"ending", "over", "rejected"}
        /\ StartIn(Saved(ag, turnCtx)) \/ (phase' = phase /\ turns' = turns)
        BY <1>7 DEF Done
  <2>2. turn \in Turn
        BY <2>1 DEF TypeOK
  <2>3. Stays
        BY <2>1, <2>2, <1>4, <1>5
  <2> HIDE DEF Stays
  <2> QED BY <2>1, <2>3, <1>2 DEF PhasesFit, Unless, Stays
<1>8. CASE Cancel \/ Compact \/ Fork
  <2>1. /\ phase' = phase /\ turns' = turns /\ answered' = answered /\ finished' = finished
        /\ launches' = launches /\ (met' = met \/ met' = met \cup {"compact"})
        BY <1>8 DEF Cancel, Compact, Fork
  <2>2. Stays
        BY <2>1, <1>5
  <2> HIDE DEF Stays
  <2> QED BY <2>1, <2>2, <1>2 DEF PhasesFit, Unless, Stays
<1>9. ASSUME NEW c \in Ctx, Focus(c) \/ Note(c) PROVE PhasesFit'
  <2>1. /\ phase' = phase /\ turns' = turns /\ answered' = answered /\ finished' = finished
        /\ launches' = launches /\ (met' = met \/ met' = met \cup {"note"})
        BY <1>9 DEF Focus, Note
  <2>2. Stays
        BY <2>1, <1>5
  <2> HIDE DEF Stays
  <2> QED BY <2>1, <2>2, <1>2 DEF PhasesFit, Unless, Stays
<1>10. ASSUME Restart \/ \E s \in DOMAIN logs : Resume(s) PROVE PhasesFit'
  <2>1. /\ phase' = phase /\ turns' = turns /\ answered' = answered /\ finished' = finished
        /\ launches' = launches + 1
        BY <1>10 DEF Restart, Resume
  <2>2. Stays
        BY <2>1, <1>5
  <2>3. launches' # 0
        BY <2>1, <1>1
  <2> HIDE DEF Stays
  <2> QED BY <2>3, <2>2 DEF PhasesFit, Stays
<1>11. CASE Relaunch
  <2>1. /\ turns' = turns /\ answered' = answered /\ finished' = finished
        /\ launches' = launches + 1
        /\ phase' = [t \in Turn |-> IF phase[t] = "none" THEN "none" ELSE "over"]
        BY <1>11 DEF Relaunch
  <2>2. Stays
        BY <2>1, <1>1, <1>2
  <2>3. launches' # 0
        BY <2>1, <1>1
  <2> HIDE DEF Stays
  <2> QED BY <2>3, <2>2 DEF PhasesFit, Stays
<1>12. ASSUME NEW t \in Turn, Goroutine(t) \/ RacingNote(t) PROVE PhasesFit'
  <2>1. Stays /\ (launches' = 0 => Unless({"bare", "resume"})')
        BY <1>12, <1>3
  <2> QED BY <2>1 DEF PhasesFit
<1> HIDE DEF Stays
<1> QED BY <1>6, <1>7, <1>8, <1>9, <1>10, <1>11, <1>12 DEF Next

-----------------------------------------------------------------------------
(* Steps that leave the logs alone *)

\* Steps that leave the logs alone.
LEMMA SameLogsFit ==
    ASSUME LogIInv, ContextIInv, Next, UNCHANGED <<logs, sess>>,
           Unless({"resume"})' /\ Once(ag, logs[sess]) => Once(ag', logs[sess]),
           Unless({"compact", "resume"})' /\ Remembered(ag, logs[sess]) => Remembered(ag', logs[sess]),
           Unless({"note", "race", "compact", "resume"})' /\ Agreed(ag, logs[sess])
               => Agreed(ag', logs[sess]),
           Plain' /\ Booted(ag.msgs, ag.boot) /\ AtHome(ag, logs[sess]) => AtHome(ag', logs[sess])
    PROVE  OnceInv' /\ RememberedInv' /\ AgreedInv' /\ HomeInv'
<1>1. /\ OnceInv /\ RememberedInv /\ AgreedInv /\ HomeInv /\ TypeOK
      /\ Tame => AgentFine(ag, cancelled)
      BY DEF LogIInv, ContextIInv
<1>2. /\ \A S : Unless(S)' => Unless(S)
      /\ BootIsLogged' => BootIsLogged
      BY <1>1, Weaker
<1>3. logs' = logs /\ sess' = sess
      OBVIOUS
<1>4. OnceInv'
  <2>1. ASSUME Unless({"resume"})', BootIsLogged' PROVE Once(ag', logs[sess]) /\ LogsDistinct
        BY <2>1, <1>1, <1>2 DEF OnceInv
  <2> QED BY <2>1, <1>3 DEF OnceInv, LogsDistinct
<1>5. RememberedInv'
  <2>1. ASSUME Unless({"compact", "resume"})'
        PROVE  Remembered(ag', logs[sess]) /\ \A s \in DOMAIN logs : Headed(logs[s])
        BY <2>1, <1>1, <1>2 DEF RememberedInv
  <2> QED BY <2>1, <1>3 DEF RememberedInv
<1>6. AgreedInv'
  <2>1. ASSUME Unless({"note", "race", "compact", "resume"})' PROVE Agreed(ag', logs[sess])
        BY <2>1, <1>1, <1>2 DEF AgreedInv
  <2> QED BY <2>1, <1>3 DEF AgreedInv
<1>7. HomeInv'
  <2>1. ASSUME Plain' PROVE AtHome(ag', logs[sess]) /\ \A s \in DOMAIN logs : LogHome(logs[s])
    <3>1. Plain
          BY <2>1, <1>2 DEF Plain
    <3>2. Tame
          BY <3>1 DEF Plain, Tame, Unless, BootIsLogged
    <3>3. Booted(ag.msgs, ag.boot)
          BY <3>2, <1>1 DEF AgentFine, Fine
    <3> QED BY <3>1, <3>3, <1>1, <2>1 DEF HomeInv
  <2> QED BY <2>1, <1>3 DEF HomeInv
<1> QED BY <1>4, <1>5, <1>6, <1>7

\* What is somewhere stays there.
LEMMA KnownMore ==
    ASSUME TypeOK, PhasesFit, Known, Next
    PROVE  /\ Used \subseteq Used'
           /\ AgentWithin(ag, Used') /\ \A s \in DOMAIN logs : LogWithin(logs[s], Used')
<1>1. Used \subseteq Used'
      BY UsedGrows
<1>2. AgentWithin(ag, Used')
      BY <1>1, WithinMore DEF Known
<1>3. \A s \in DOMAIN logs : LogWithin(logs[s], Used')
      BY <1>1, WithinMore DEF Known
<1> QED BY <1>1, <1>2, <1>3

\* Every log continues in the next state.
LogsGrow ==
    \A s \in DOMAIN logs :
        s \in DOMAIN logs' /\ \A i \in 1 .. Len(logs[s]) : i \in 1 .. Len(logs'[s]) /\ logs'[s][i] = logs[s][i]

\* What is logged of finished turns stays logged.
LEMMA StillLogged ==
    ASSUME TypeOK, Next, FinishedIsLogged, LogsGrow, logs' \in Seq(Seq(Entry)),
           finished' \cap answered' \subseteq finished \cap answered,
           \A t \in finished : home'[t] = home[t]
    PROVE  FinishedIsLogged'
<1>1. Unless({"race", "resume"})' => Unless({"race", "resume"})
      BY Weaker
<1> SUFFICES ASSUME Unless({"race", "resume"})', NEW t \in finished' \cap answered'
             PROVE  \E s \in DOMAIN logs' :
                       {Msg("user", home'[t], t), Msg("reply", home'[t], t)}
                           \subseteq {e.msg : e \in Items(logs'[s])}
    BY DEF FinishedIsLogged
<1>2. PICK s \in DOMAIN logs :
          {Msg("user", home[t], t), Msg("reply", home[t], t)} \subseteq {e.msg : e \in Items(logs[s])}
      BY <1>1 DEF FinishedIsLogged
<1>3. home'[t] = home[t]
      OBVIOUS
<1>4. Items(logs[s]) \subseteq Items(logs'[s])
  <2>1. logs[s] \in Seq(Entry) /\ logs'[s] \in Seq(Entry)
        BY ElementOfSeq DEF TypeOK, LogsGrow
  <2> QED BY <2>1 DEF LogsGrow, Items
<1>5. s \in DOMAIN logs'
      BY DEF LogsGrow
<1> QED BY <1>2, <1>3, <1>4, <1>5

\* A message that is appended is above the watermark, with what was there.
LEMMA UnsavedMore ==
    ASSUME NEW a, NEW m \in Message, Live(a), Synced(a)
    PROVE  LET b == AppendMessage(a, m) IN
           Unsaved(a, a.cur) \subseteq Unsaved(b, a.cur) /\ m \in Unsaved(b, a.cur)
<1> DEFINE b == AppendMessage(a, m)
<1>1. /\ a.msgs \in Seq(Message) /\ Len(a.msgs) \in Nat
      /\ a.saved[a.cur] \in Nat /\ Len(a.of[a.cur]) \in Nat
      BY PartsAre
<1>2. b.msgs = Append(a.msgs, m) /\ b.saved = a.saved
      BY AppendMessageIs
<1>3. /\ Len(b.msgs) = Len(a.msgs) + 1
      /\ \A i \in 1 .. Len(a.msgs) : b.msgs[i] = a.msgs[i]
      /\ b.msgs[Len(a.msgs) + 1] = m
      BY <1>1, <1>2, AppendIs
<1>4. a.saved[a.cur] <= Len(a.msgs)
      BY <1>1 DEF Synced
<1> HIDE DEF b
<1>5. \A i \in 1 .. Len(a.msgs) : i \in 1 .. Len(b.msgs)
      BY <1>1, <1>3
<1>6. Len(a.msgs) + 1 \in 1 .. Len(b.msgs) /\ Len(a.msgs) + 1 > b.saved[a.cur]
      BY <1>1, <1>2, <1>3, <1>4
<1>7. m \in Unsaved(b, a.cur)
      BY <1>6, <1>3 DEF Unsaved
<1>8. Unsaved(a, a.cur) \subseteq Unsaved(b, a.cur)
      BY <1>5, <1>3, <1>2 DEF Unsaved
<1> QED BY <1>7, <1>8 DEF b

\* A note keeps what is above the watermark, except where messages is ahead of contextMsgs.
LEMMA NoteUnsaved ==
    ASSUME NEW a, NEW c \in Ctx, NEW m \in Message, Live(a), Synced(a),
           c # a.cur \/ a.of[c] = a.msgs
    PROVE  Unsaved(a, a.cur) \subseteq Unsaved(InjectNote(a, c, m), a.cur)
<1> DEFINE b == InjectNote(a, c, m)
           o == IF a.of[c] = <<>> THEN Prefix(a.msgs, a.boot) ELSE a.of[c]
<1>1. /\ a.msgs \in Seq(Message) /\ Len(a.msgs) \in Nat /\ a.cur \in Ctx /\ a.msgs # <<>>
      /\ a.of[a.cur] # <<>>
      BY PartsAre
<1>2. /\ b.msgs = IF c = a.cur THEN Append(o, m) ELSE a.msgs
      /\ \A d \in Ctx : b.saved[d] = IF d = c /\ a.of[c] = <<>> THEN 0 ELSE a.saved[d]
      BY InjectNoteIs
<1> HIDE DEF b
<1>3. b.saved[a.cur] = a.saved[a.cur]
      BY <1>1, <1>2
<1>4. CASE c # a.cur
      BY <1>2, <1>3, <1>4 DEF Unsaved, b
<1>5. CASE c = a.cur
  <2>1. b.msgs = Append(a.msgs, m)
        BY <1>5, <1>2, <1>1
  <2>2. /\ Len(b.msgs) = Len(a.msgs) + 1
        /\ \A i \in 1 .. Len(a.msgs) : b.msgs[i] = a.msgs[i]
        BY <2>1, <1>1, AppendIs
  <2>3. \A i \in 1 .. Len(a.msgs) : i \in 1 .. Len(b.msgs)
        BY <1>1, <2>2
  <2> QED BY <2>2, <2>3, <1>3 DEF Unsaved, b
<1> QED BY <1>4, <1>5

\* The histories that the watermark of a turn leaves in sync.
LEMMA SavedSynced ==
    ASSUME NEW a, Live(a), Synced(a), Short(a)
    PROVE  LET b == Saved(a, a.cur) IN Synced(b) /\ Short(b)
<1> DEFINE b == Saved(a, a.cur)
<1>1. /\ a.msgs \in Seq(Message) /\ Len(a.msgs) \in Nat /\ a.cur \in Ctx
      /\ \A c \in Ctx : Len(a.of[c]) \in Nat
      BY PartsAre
<1>2. /\ b.msgs = a.msgs /\ b.of = a.of /\ b.cur = a.cur /\ b.injected = a.injected
      /\ \A d \in Ctx : b.saved[d] = IF d = a.cur THEN Len(a.msgs) ELSE a.saved[d]
      BY <1>1, SavedIs
<1> HIDE DEF b
<1>3. OneHot(b) <=> OneHot(a)
      BY <1>2 DEF OneHot
<1>4. Short(b)
      BY <1>2, <1>3 DEF Short
<1>5. b.saved[b.cur] = Len(b.msgs) /\ \A c \in Ctx : c # b.cur => b.saved[c] = a.saved[c]
      BY <1>1, <1>2
<1>6. b.saved[b.cur] <= Len(b.of[b.cur]) \/ OneHot(b)
  <2>1. CASE a.msgs = a.of[a.cur]
        BY <2>1, <1>5, <1>2, <1>1
  <2>2. CASE OneHot(a)
        BY <2>2, <1>3
  <2> QED BY <2>1, <2>2 DEF Short
<1>7. Synced(b)
      BY <1>2, <1>5, <1>6 DEF Synced
<1> QED BY <1>4, <1>7 DEF b

\* After /restart contextMsgs holds messages.
LEMMA RestartedShort ==
    ASSUME NEW n \in Nat, NEW c \in Ctx
    PROVE  Short(NewAgent(n, c))
<1>1. Main \in Ctx
      BY SysIs
<1> QED BY <1>1 DEF NewAgent, Short

\* A session that begins finds the others.
LEMMA NewLogGrows ==
    ASSUME TypeOK, NewSession
    PROVE  LogsGrow
<1>1. logs \in Seq(Seq(Entry)) /\ Len(logs) \in Nat
      BY DEF TypeOK
<1>2. logs' = logs \/ logs' = Append(logs, <<>>)
      BY DEF NewSession
<1>3. <<>> \in Seq(Entry)
      OBVIOUS
<1>4. \A s \in DOMAIN logs : s \in DOMAIN logs' /\ logs'[s] = logs[s]
  <2>1. CASE logs' = logs
        BY <2>1
  <2>2. CASE logs' = Append(logs, <<>>)
        BY <2>2, <1>1, <1>3
  <2> QED BY <1>2, <2>1, <2>2
<1>5. \A s \in DOMAIN logs : \A i \in 1 .. Len(logs[s]) : i \in 1 .. Len(logs'[s])
      BY <1>4
<1> QED BY <1>4, <1>5 DEF LogsGrow

\* A message that is nowhere yet goes behind the current history.
LEMMA AppendStep ==
    ASSUME ContextIInv, LogIInv, Next, NEW m \in Message, m \notin Used, m \in Used', m.kind # "hot",
           ag' = AppendMessage(ag, m), UNCHANGED <<logs, sess, turn, turnCtx>>
    PROVE  /\ Known' /\ PhasesFit' /\ TurnInjected' /\ SyncedInv'
           /\ OnceInv' /\ RememberedInv' /\ AgreedInv' /\ HomeInv'
           /\ \A d \in Ctx : Items(Hist(ag, d)) \subseteq Items(Hist(ag', d))
           /\ Unless({"resume"}) =>
                Unsaved(ag, ag.cur) \subseteq Unsaved(ag', ag.cur) /\ m \in Unsaved(ag', ag.cur)
<1>1. /\ TypeOK /\ Live(ag) /\ Known /\ PhasesFit /\ TurnInjected /\ SyncedInv
      /\ logs[sess] \in Seq(Entry) /\ sess \in DOMAIN logs
  <2>1. TypeOK /\ Live(ag) /\ Known /\ PhasesFit /\ TurnInjected /\ SyncedInv
        BY DEF ContextIInv, LogIInv
  <2>2. logs \in Seq(Seq(Entry)) /\ sess \in DOMAIN logs
        BY <2>1 DEF TypeOK
  <2> QED BY <2>1, <2>2, ElementOfSeq
<1>2. \A S : Unless(S)' => Unless(S)
      BY <1>1, Weaker
<1>3. /\ Used \subseteq Used'
      /\ AgentWithin(ag, Used') /\ \A s \in DOMAIN logs : LogWithin(logs[s], Used')
      BY <1>1, KnownMore
<1>4. AgentWithin(ag, Used) /\ LogWithin(logs[sess], Used) /\ SysFirst(ag)
      BY <1>1 DEF Known
<1>5. AgentWithin(ag', Used') /\ SysFirst(ag')
      BY <1>1, <1>3, <1>4, AppendMessageWithin
<1>6. Known'
      BY <1>5, <1>3 DEF Known
<1>7. ag'.injected = ag.injected /\ ag'.cur = ag.cur
      BY <1>1, AppendMessageIs
<1>8. TurnInjected'
      BY <1>1, <1>7 DEF TurnInjected
<1>9. SyncedInv'
  <2>1. ASSUME Unless({"resume"})' PROVE Synced(ag') /\ Short(ag') /\ ag'.msgs = ag'.of[ag'.cur]
    <3>1. Synced(ag)
          BY <2>1, <1>2, <1>1 DEF SyncedInv, TurnSynced
    <3> QED BY <3>1, <1>1, AppendSynced
  <2> QED BY <2>1 DEF SyncedInv, TurnSynced
<1>10. /\ Once(ag, logs[sess]) => Once(ag', logs[sess])
       /\ Remembered(ag, logs[sess]) => Remembered(ag', logs[sess])
       /\ Agreed(ag, logs[sess]) => Agreed(ag', logs[sess])
       /\ AtHome(ag, logs[sess]) => AtHome(ag', logs[sess])
       /\ \A d \in Ctx : Items(Hist(ag, d)) \subseteq Items(Hist(ag', d))
       BY <1>1, <1>4, AppendKeeps
<1>11. OnceInv' /\ RememberedInv' /\ AgreedInv' /\ HomeInv'
       BY <1>10, SameLogsFit
<1>12. ASSUME Unless({"resume"})
       PROVE  Unsaved(ag, ag.cur) \subseteq Unsaved(ag', ag.cur) /\ m \in Unsaved(ag', ag.cur)
  <2>1. Synced(ag)
        BY <1>12, <1>1 DEF SyncedInv, TurnSynced
  <2> QED BY <2>1, <1>1, UnsavedMore
<1>13. PhasesFit'
       BY <1>1, PhasesStep
<1> QED BY <1>6, <1>8, <1>9, <1>10, <1>11, <1>12, <1>13

\* Steps after which the agent and the logs are what they were.
LEMMA StillKeeps ==
    ASSUME ContextIInv, LogIInv, Next, UNCHANGED <<ag, logs, sess, noted, finished, answered, home, turnCtx>>,
           turn' = turn \/ turn' = NoTurn,
           (\E u \in Turn : phase'[u] \in {"run", "ending"}) \/ (turn' # NoTurn /\ phase'[turn'] = "rejected")
              => (\E u \in Turn : phase[u] \in {"run", "ending"})
                 \/ (turn # NoTurn /\ phase[turn] = "rejected"),
           turn' # NoTurn /\ phase'[turn'] \in {"run", "ending", "over"}
              => phase[turn'] \in {"run", "ending", "over"}
    PROVE  LogIInv'
<1>1. /\ TypeOK /\ Live(ag) /\ Known /\ PhasesFit /\ TurnInjected /\ SyncedInv /\ UnsavedInv /\ NotesInv
      BY DEF ContextIInv, LogIInv
<1>2. \A S : Unless(S)' => Unless(S)
      BY <1>1, Weaker
<1>3. launches' = 0 => launches = 0
      BY <1>1, Weaker
<1>4. Known'
  <2>1. AgentWithin(ag, Used') /\ \A s \in DOMAIN logs : LogWithin(logs[s], Used')
        BY <1>1, KnownMore
  <2>2. SysFirst(ag)
        BY <1>1 DEF Known
  <2> QED BY <2>1, <2>2 DEF Known
<1>5. PhasesFit'
      BY <1>1, PhasesStep
<1>6. TurnInjected'
      BY <1>1 DEF TurnInjected
<1>7. SyncedInv'
  <2>1. ASSUME Unless({"resume"})' PROVE TurnSynced'
    <3>1. TurnSynced
          BY <2>1, <1>1, <1>2 DEF SyncedInv
    <3>2. Synced(ag')
          BY <3>1 DEF TurnSynced
    <3>3. (\E u \in Turn : phase'[u] \in {"run", "ending"}) \/ (turn' # NoTurn /\ phase'[turn'] = "rejected")
             => Short(ag')
          BY <3>1 DEF TurnSynced
    <3>4. turn' # NoTurn /\ phase'[turn'] \in {"run", "ending", "over"} => ag'.msgs = ag'.of[ag'.cur]
          BY <3>1 DEF TurnSynced
    <3> QED BY <3>2, <3>3, <3>4 DEF TurnSynced
  <2> QED BY <2>1 DEF SyncedInv
<1>8. UnsavedInv'
  <2>1. ASSUME Unless({"race", "resume"})' PROVE TurnUnsaved' /\ FinishedIsLogged'
    <3>1. TurnUnsaved /\ FinishedIsLogged
          BY <2>1, <1>1, <1>2 DEF UnsavedInv
    <3>2. TurnUnsaved'
          BY <3>1 DEF TurnUnsaved
    <3>3. FinishedIsLogged'
          BY <3>1, <2>1, <1>2 DEF FinishedIsLogged
    <3> QED BY <3>2, <3>3
  <2> QED BY <2>1 DEF UnsavedInv
<1>9. NotesInv'
      BY <1>1, <1>2, <1>3 DEF NotesInv, NotesThere
<1>10. OnceInv' /\ RememberedInv' /\ AgreedInv' /\ HomeInv'
       BY SameLogsFit
<1> QED BY <1>4, <1>5, <1>6, <1>7, <1>8, <1>9, <1>10 DEF LogIInv

-----------------------------------------------------------------------------
(* The steps of the goroutines *)

\* A prompt.
LEMMA BeginLogs ==
    ASSUME ContextIInv, LogIInv, Next, NEW t \in Turn, Begin(t)
    PROVE  LogIInv'
<1> DEFINE m == Msg("user", home[t], t)
<1>1. /\ TypeOK /\ TurnOwnsContext /\ Pending /\ Known /\ PhasesFit /\ UnsavedInv /\ NotesInv
      BY DEF ContextIInv, LogIInv
<1>2. /\ phase[t] = "born" /\ phase' = [phase EXCEPT ![t] = "run"] /\ ag' = AppendMessage(ag, m)
      /\ UNCHANGED <<focus, turn, turnCtx, turns, logs, sess, notes, launches,
                     home, cancelled, answered, finished, noted, met>>
      BY DEF Begin
<1>3. phase \in [Turn -> Phase] /\ home \in [Turn -> Ctx] /\ t \in Nat
      BY <1>1 DEF TypeOK, Turn
<1>4. phase'[t] = "run" /\ \A u \in Turn : u # t => phase'[u] = phase[u]
      BY <1>2, <1>3
<1>5. m \in Message /\ m.kind = "user" /\ m.n = t
      BY <1>3, MsgIs DEF Kind
<1> HIDE DEF m
<1>6. m \notin Used /\ m \in Used'
      BY <1>2, <1>4, <1>5 DEF Used
<1>7. \A S : Unless(S)' => Unless(S)
      BY <1>1, Weaker
<1>8. /\ Known' /\ PhasesFit' /\ TurnInjected' /\ SyncedInv'
      /\ OnceInv' /\ RememberedInv' /\ AgreedInv' /\ HomeInv'
      /\ \A d \in Ctx : Items(Hist(ag, d)) \subseteq Items(Hist(ag', d))
      /\ Unless({"resume"}) =>
           Unsaved(ag, ag.cur) \subseteq Unsaved(ag', ag.cur) /\ m \in Unsaved(ag', ag.cur)
      BY <1>2, <1>5, <1>6, AppendStep
<1>9. UnsavedInv'
  <2>1. ASSUME Unless({"race", "resume"})' PROVE TurnUnsaved' /\ FinishedIsLogged'
    <3>1. TurnUnsaved /\ FinishedIsLogged /\ Unless({"resume"})
          BY <2>1, <1>1, <1>7 DEF UnsavedInv, Unless
    <3>2. FinishedIsLogged'
          BY <3>1, <2>1, <1>2, <1>7 DEF FinishedIsLogged
    <3>3. turn # NoTurn => Unsaved(ag, turnCtx) \subseteq Unsaved(ag', turnCtx) /\ m \in Unsaved(ag', turnCtx)
          BY <3>1, <1>8, <1>1 DEF TurnOwnsContext
    <3>4. ASSUME turn # NoTurn, phase'[turn] \in {"run", "ending", "over"}
          PROVE  Msg("user", home[turn], turn) \in Unsaved(ag', turnCtx)
      <4>1. CASE turn = t
            BY <4>1, <3>4, <3>3 DEF m
      <4>2. CASE turn # t
        <5>1. turn \in Turn
              BY <3>4, <1>1 DEF TypeOK
        <5>2. phase[turn] \in {"run", "ending", "over"}
              BY <5>1, <4>2, <3>4, <1>4
        <5> QED BY <5>2, <3>4, <3>1, <3>3 DEF TurnUnsaved
      <4> QED BY <4>1, <4>2
    <3>5. ASSUME turn # NoTurn, turn \in answered
          PROVE  Msg("reply", home[turn], turn) \in Unsaved(ag', turnCtx)
          BY <3>5, <3>1, <3>3 DEF TurnUnsaved
    <3> QED BY <3>2, <3>4, <3>5, <1>2 DEF TurnUnsaved
  <2> QED BY <2>1 DEF UnsavedInv
<1>10. NotesInv'
  <2>1. ASSUME launches' = 0, Unless({"race", "compact"})' PROVE NotesThere'
    <3>1. NotesThere
          BY <2>1, <1>1, <1>2, <1>7 DEF NotesInv
    <3>2. \A x \in noted : x.ctx \in Ctx
          BY <1>1 DEF TypeOK, Message
    <3> QED BY <3>1, <3>2, <1>2, <1>8 DEF NotesThere
  <2> QED BY <2>1 DEF NotesInv
<1> QED BY <1>8, <1>9, <1>10 DEF LogIInv

\* An answer.
LEMMA ReplyLogs ==
    ASSUME ContextIInv, LogIInv, Next, NEW t \in Turn, Reply(t)
    PROVE  LogIInv'
<1> DEFINE m == Msg("reply", home[t], t)
<1>1. /\ TypeOK /\ TurnOwnsContext /\ Pending /\ Known /\ PhasesFit /\ UnsavedInv /\ NotesInv
      BY DEF ContextIInv, LogIInv
<1>2. /\ phase[t] = "run" /\ phase' = [phase EXCEPT ![t] = "ending"] /\ ag' = AppendMessage(ag, m)
      /\ answered' = answered \cup {t}
      /\ UNCHANGED <<focus, turn, turnCtx, turns, logs, sess, notes, launches,
                     home, cancelled, finished, noted, met>>
      BY DEF Reply
<1>3. phase \in [Turn -> Phase] /\ home \in [Turn -> Ctx] /\ t \in Nat
      BY <1>1 DEF TypeOK, Turn
<1>4. phase'[t] = "ending" /\ \A u \in Turn : u # t => phase'[u] = phase[u]
      BY <1>2, <1>3
<1>5. m \in Message /\ m.kind = "reply" /\ m.n = t
      BY <1>3, MsgIs DEF Kind
<1> HIDE DEF m
<1>6. m \notin Used /\ m \in Used'
      BY <1>2, <1>4, <1>5 DEF Used
<1>7. \A S : Unless(S)' => Unless(S)
      BY <1>1, Weaker
<1>8. /\ Known' /\ PhasesFit' /\ TurnInjected' /\ SyncedInv'
      /\ OnceInv' /\ RememberedInv' /\ AgreedInv' /\ HomeInv'
      /\ \A d \in Ctx : Items(Hist(ag, d)) \subseteq Items(Hist(ag', d))
      /\ Unless({"resume"}) =>
           Unsaved(ag, ag.cur) \subseteq Unsaved(ag', ag.cur) /\ m \in Unsaved(ag', ag.cur)
      BY <1>2, <1>5, <1>6, AppendStep
<1>9. UnsavedInv'
  <2>1. ASSUME Unless({"race", "resume"})' PROVE TurnUnsaved' /\ FinishedIsLogged'
    <3>1. TurnUnsaved /\ FinishedIsLogged /\ Unless({"resume"})
          BY <2>1, <1>1, <1>7 DEF UnsavedInv, Unless
    <3>2. FinishedIsLogged'
      <4>1. LogsGrow
            BY <1>2 DEF LogsGrow
      <4>2. t \notin finished
            BY <1>1, <1>2 DEF PhasesFit
      <4>3. logs' \in Seq(Seq(Entry))
            BY <1>1, <1>2 DEF TypeOK
      <4>4. finished' \cap answered' \subseteq finished \cap answered
            BY <4>2, <1>2
      <4> QED BY <4>1, <4>3, <4>4, <3>1, <1>1, <1>2, StillLogged
    <3>3. turn # NoTurn => Unsaved(ag, turnCtx) \subseteq Unsaved(ag', turnCtx) /\ m \in Unsaved(ag', turnCtx)
          BY <3>1, <1>8, <1>1 DEF TurnOwnsContext
    <3>4. ASSUME turn # NoTurn, phase'[turn] \in {"run", "ending", "over"}
          PROVE  Msg("user", home[turn], turn) \in Unsaved(ag', turnCtx)
      <4>1. turn \in Turn
            BY <3>4, <1>1 DEF TypeOK
      <4>2. phase[turn] \in {"run", "ending", "over"}
            BY <4>1, <3>4, <1>4, <1>2
      <4> QED BY <4>2, <3>4, <3>1, <3>3 DEF TurnUnsaved
    <3>5. ASSUME turn # NoTurn, turn \in answered'
          PROVE  Msg("reply", home[turn], turn) \in Unsaved(ag', turnCtx)
      <4>1. CASE turn = t
            BY <4>1, <3>5, <3>3 DEF m
      <4>2. CASE turn # t
        <5>1. turn \in answered
              BY <4>2, <3>5, <1>2
        <5> QED BY <5>1, <3>5, <3>1, <3>3 DEF TurnUnsaved
      <4> QED BY <4>1, <4>2
    <3> QED BY <3>2, <3>4, <3>5, <1>2 DEF TurnUnsaved
  <2> QED BY <2>1 DEF UnsavedInv
<1>10. NotesInv'
  <2>1. ASSUME launches' = 0, Unless({"race", "compact"})' PROVE NotesThere'
    <3>1. NotesThere
          BY <2>1, <1>1, <1>2, <1>7 DEF NotesInv
    <3>2. \A x \in noted : x.ctx \in Ctx
          BY <1>1 DEF TypeOK, Message
    <3> QED BY <3>1, <3>2, <1>2, <1>8 DEF NotesThere
  <2> QED BY <2>1 DEF NotesInv
<1> QED BY <1>8, <1>9, <1>10 DEF LogIInv

\* An answer and a note, of which one is lost.
LEMMA RacingLogs ==
    ASSUME ContextIInv, LogIInv, Next, NEW t \in Turn, RacingNote(t)
    PROVE  LogIInv'
<1>1. /\ TypeOK /\ Live(ag) /\ Known /\ PhasesFit
      BY DEF ContextIInv, LogIInv
<1>2. /\ phase[t] = "run" /\ phase' = [phase EXCEPT ![t] = "ending"]
      /\ notes' = notes + 1 /\ met' = met \cup {"race"}
      /\ UNCHANGED <<focus, turn, turnCtx, turns, logs, sess, launches,
                     home, cancelled, finished>>
      BY DEF RacingNote
<1>3. PICK m \in {Msg("note", ag.cur, notes'), Msg("reply", home[t], t)} : ag' = AppendMessage(ag, m)
      BY DEF RacingNote
<1>4. phase \in [Turn -> Phase] /\ home \in [Turn -> Ctx] /\ t \in Nat /\ ag.cur \in Ctx /\ notes \in Nat
      BY <1>1, PartsAre DEF TypeOK, Turn
<1>5. phase'[t] = "ending"
      BY <1>2, <1>4
<1>6. m \in Message /\ m.kind # "hot" /\ m \notin Used /\ m \in Used'
  <2>1. CASE m = Msg("note", ag.cur, notes')
    <3>1. m \in Message /\ m.kind = "note" /\ m.n = notes + 1
          BY <2>1, <1>2, <1>4, MsgIs DEF Kind
    <3> QED BY <3>1, <1>2, <1>4 DEF Used
  <2>2. CASE m = Msg("reply", home[t], t)
    <3>1. m \in Message /\ m.kind = "reply" /\ m.n = t
          BY <2>2, <1>4, MsgIs DEF Kind
    <3> QED BY <3>1, <1>2, <1>5 DEF Used
  <2> QED BY <2>1, <2>2, <1>3
<1>7. /\ Known' /\ PhasesFit' /\ TurnInjected' /\ SyncedInv'
      /\ OnceInv' /\ RememberedInv' /\ AgreedInv' /\ HomeInv'
      BY <1>2, <1>3, <1>6, AppendStep
<1>8. UnsavedInv' /\ NotesInv'
      BY <1>2 DEF UnsavedInv, NotesInv, Unless
<1> QED BY <1>7, <1>8 DEF LogIInv

\* A goroutine whose step touches no history.
LEMMA QuietLogs ==
    ASSUME ContextIInv, LogIInv, Next, NEW t \in Turn, Reject(t) \/ Fail(t) \/ Release(t)
    PROVE  LogIInv'
<1>1. UNCHANGED <<ag, logs, sess, noted, finished, answered, home, turnCtx, turn>>
      BY DEF Reject, Fail, Release
<1>2. phase \in [Turn -> Phase] /\ (turn # NoTurn => turn \in Turn)
      BY DEF ContextIInv, TypeOK
<1>3. CASE Reject(t)
  <2>1. /\ \E u \in Turn : phase[u] \in {"run", "ending"}
        /\ phase' = [phase EXCEPT ![t] = "rejected"]
        BY <1>3 DEF Reject
  <2>2. turn' # NoTurn /\ phase'[turn'] \in {"run", "ending", "over"} => phase[turn'] \in {"run", "ending", "over"}
        BY <2>1, <1>1, <1>2
  <2> QED BY <2>1, <2>2, <1>1, StillKeeps
<1>4. CASE Fail(t) \/ Release(t)
  <2>1. /\ phase[t] \in {"run", "ending"} /\ phase'[t] \in {"ending", "over"}
        /\ \A u \in Turn : u # t => phase'[u] = phase[u]
        BY <1>4, <1>2 DEF Fail, Release
  <2>2. turn' # NoTurn /\ phase'[turn'] \in {"run", "ending", "over"} => phase[turn'] \in {"run", "ending", "over"}
        BY <2>1, <1>1, <1>2
  <2>3. (\E u \in Turn : phase'[u] \in {"run", "ending"}) \/ (turn' # NoTurn /\ phase'[turn'] = "rejected")
            => (\E u \in Turn : phase[u] \in {"run", "ending"})
               \/ (turn # NoTurn /\ phase[turn] = "rejected")
        BY <2>1, <1>1, <1>2
  <2> QED BY <2>2, <2>3, <1>1, StillKeeps
<1> QED BY <1>3, <1>4

\* An interrupt.
LEMMA CancelLogs ==
    ASSUME ContextIInv, LogIInv, Next, Cancel
    PROVE  LogIInv'
<1>1. turn' = NoTurn /\ UNCHANGED <<ag, logs, sess, noted, finished, answered, home, turnCtx, phase>>
      BY DEF Cancel
<1> QED BY <1>1, StillKeeps

\* Nothing.
LEMMA StutterLogs ==
    ASSUME LogIInv, UNCHANGED vars
    PROVE  LogIInv'
<1>1. UNCHANGED <<ag, focus, turn, turnCtx, phase, turns, logs, sess, notes, launches,
                  home, cancelled, answered, finished, noted, met>>
      BY DEF vars
<1>2. \A S : Unless(S)' <=> Unless(S)
      BY <1>1 DEF Unless
<1>3. Known' /\ PhasesFit' /\ TurnInjected'
      BY <1>1, <1>2 DEF LogIInv, Known, PhasesFit, TurnInjected, Used, Unless
<1>4. SyncedInv' /\ NotesInv'
      BY <1>1, <1>2 DEF LogIInv, SyncedInv, TurnSynced, NotesInv, NotesThere
<1>5. UnsavedInv'
      BY <1>1, <1>2 DEF LogIInv, UnsavedInv, TurnUnsaved, FinishedIsLogged
<1>6. OnceInv' /\ RememberedInv' /\ AgreedInv' /\ HomeInv'
      BY <1>1, <1>2 DEF LogIInv, OnceInv, BootIsLogged, LogsDistinct, RememberedInv, AgreedInv, HomeInv, Plain
<1> QED BY <1>3, <1>4, <1>5, <1>6 DEF LogIInv

-----------------------------------------------------------------------------
(* The steps of the event loop *)

\* What the lemmas below take from the invariants.
LEMMA LogFacts ==
    ASSUME ContextIInv, LogIInv, Next
    PROVE  /\ TypeOK /\ Live(ag) /\ Known /\ PhasesFit /\ PhasesFit'
           /\ logs \in Seq(Seq(Entry)) /\ sess \in DOMAIN logs /\ logs[sess] \in Seq(Entry)
           /\ AgentWithin(ag, Used) /\ LogWithin(logs[sess], Used) /\ SysFirst(ag)
           /\ Used \subseteq Used' /\ AgentWithin(ag, Used')
           /\ \A s \in DOMAIN logs : LogWithin(logs[s], Used')
           /\ \A S : Unless(S)' => Unless(S)
           /\ launches' = 0 => launches = 0 /\ Unless({"resume"})
           /\ Unless({"resume"}) => TurnSynced
<1>1. TypeOK /\ Live(ag) /\ Known /\ PhasesFit /\ SyncedInv
      BY DEF ContextIInv, LogIInv
<1>2. logs \in Seq(Seq(Entry)) /\ sess \in DOMAIN logs
      BY <1>1 DEF TypeOK
<1>3. logs[sess] \in Seq(Entry)
      BY <1>2, ElementOfSeq
<1>4. /\ \A S : Unless(S)' => Unless(S)
      /\ launches' = 0 => launches = 0
      BY <1>1, Weaker
<1>5. launches' = 0 => launches = 0 /\ Unless({"resume"})
      BY <1>1, <1>4 DEF PhasesFit, Unless
<1>6. Unless({"resume"}) => TurnSynced
      BY <1>1 DEF SyncedInv
<1>7. PhasesFit'
      BY <1>1, PhasesStep
<1>8. /\ Used \subseteq Used' /\ AgentWithin(ag, Used')
      /\ \A s \in DOMAIN logs : LogWithin(logs[s], Used')
      BY <1>1, KnownMore
<1>9. AgentWithin(ag, Used) /\ LogWithin(logs[sess], Used) /\ SysFirst(ag)
      BY <1>1, <1>2 DEF Known
<1> QED BY <1>1, <1>2, <1>3, <1>4, <1>5, <1>6, <1>7, <1>8, <1>9

\* The memory that a step brings in is that of a context with a HOT.md.
LEMMA HotUsed ==
    ASSUME NEW a, NEW c \in Ctx
    PROVE  NewHot(a, c) \subseteq Used'
<1> SUFFICES ASSUME NEW d \in HotCtx, d \in Ctx PROVE Hot(d) \in Used'
    BY DEF NewHot
<1>1. Hot(d) \in Message /\ Hot(d).kind = "hot" /\ Hot(d).ctx = d
      BY HotIs
<1> QED BY <1>1 DEF Used

\* The agent goes to a context.
LEMMA EnterStep ==
    ASSUME ContextIInv, LogIInv, Next, NEW c \in Ctx, ag' = Enter(ag, c), UNCHANGED <<logs, sess>>
    PROVE  /\ Known'
           /\ OnceInv' /\ RememberedInv' /\ AgreedInv' /\ HomeInv'
           /\ \A d \in Ctx : Items(Hist(ag, d)) \subseteq Items(Hist(ag', d))
           /\ Unless({"resume"}) => Synced(ag') /\ (Short(ag) => Short(ag'))
           /\ c \in HotCtx => c \in ag'.injected
<1>1. /\ TypeOK /\ Live(ag) /\ logs[sess] \in Seq(Entry)
      /\ SysFirst(ag)
      /\ AgentWithin(ag, Used')
      /\ \A s \in DOMAIN logs : LogWithin(logs[s], Used')
      /\ Unless({"resume"}) => TurnSynced
      BY LogFacts
<1>2. NewHot(ag, c) \subseteq Used'
      BY HotUsed
<1>3. AgentWithin(ag', Used') /\ SysFirst(ag')
      BY <1>1, <1>2, EnterWithin
<1>4. Known'
      BY <1>3, <1>1 DEF Known
<1>5. /\ Once(ag, logs[sess]) => Once(ag', logs[sess])
      /\ Remembered(ag, logs[sess]) => Remembered(ag', logs[sess])
      /\ Agreed(ag, logs[sess]) => Agreed(ag', logs[sess])
      /\ AtHome(ag, logs[sess]) /\ Booted(ag.msgs, ag.boot) => AtHome(ag', logs[sess])
      /\ \A d \in Ctx : Items(Hist(ag, d)) \subseteq Items(Hist(ag', d))
      BY <1>1, EnterKeeps
<1>6. OnceInv' /\ RememberedInv' /\ AgreedInv' /\ HomeInv'
      BY <1>5, SameLogsFit
<1>7. Unless({"resume"}) => Synced(ag') /\ (Short(ag) => Short(ag'))
      BY <1>1, EnterSynced DEF TurnSynced
<1>8. c \in HotCtx => c \in ag'.injected
      BY <1>1, EnterIs
<1> QED BY <1>4, <1>5, <1>6, <1>7, <1>8

\* Notes stay.
LEMMA NotesStay ==
    ASSUME ContextIInv, LogIInv, Next, noted' = noted,
           launches' = 0 /\ Unless({"race", "compact"})' =>
              \A d \in Ctx : Items(Hist(ag, d)) \subseteq Items(Hist(ag', d))
    PROVE  NotesInv'
<1>1. /\ TypeOK
      /\ \A S : Unless(S)' => Unless(S)
      /\ launches' = 0 => launches = 0 /\ Unless({"resume"})
      BY LogFacts
<1>2. NotesInv
      BY DEF LogIInv
<1>3. ASSUME launches' = 0, Unless({"race", "compact"})' PROVE NotesThere'
  <2>1. NotesThere
        BY <1>1, <1>2, <1>3 DEF NotesInv
  <2>2. \A x \in noted : x.ctx \in Ctx
        BY <1>1 DEF TypeOK, Message
  <2> QED BY <2>1, <2>2, <1>3 DEF NotesThere
<1> QED BY <1>3 DEF NotesInv

\* A turn starts.
LEMMA SendLogs ==
    ASSUME ContextIInv, LogIInv, Next, Send
    PROVE  LogIInv'
<1>1. /\ TypeOK /\ PhasesFit /\ PhasesFit'
      /\ \A S : Unless(S)' => Unless(S)
      /\ Unless({"resume"}) => TurnSynced
      BY LogFacts
<1>2. /\ turn = NoTurn /\ StartIn(ag)
      /\ UNCHANGED <<focus, logs, sess, notes, launches, cancelled, answered, finished, noted, met>>
      BY DEF Send
<1>3. /\ turns + 1 \in Turn /\ turn' = turns + 1
      /\ phase'[turns + 1] = "born"
      /\ turnCtx' = focus /\ ag' = Enter(ag, focus)
      /\ turns + 1 \notin answered /\ turns + 1 \notin finished
      /\ \A t \in Turn : t # turns + 1 => phase'[t] = phase[t] /\ home'[t] = home[t]
      BY <1>1, <1>2, PhasesStart
<1>4. focus \in Ctx /\ finished \subseteq Turn
      BY <1>1 DEF TypeOK
<1>5. /\ Known'
      /\ OnceInv' /\ RememberedInv' /\ AgreedInv' /\ HomeInv'
      /\ \A d \in Ctx : Items(Hist(ag, d)) \subseteq Items(Hist(ag', d))
      /\ Unless({"resume"}) => Synced(ag') /\ (Short(ag) => Short(ag'))
      /\ focus \in HotCtx => focus \in ag'.injected
      BY <1>2, <1>3, <1>4, EnterStep
<1>6. TurnInjected'
      BY <1>3, <1>5 DEF TurnInjected
<1>7. SyncedInv'
  <2>1. ASSUME Unless({"resume"})' PROVE TurnSynced'
    <3>1. TurnSynced /\ Synced(ag') /\ (Short(ag) => Short(ag'))
          BY <2>1, <1>1, <1>5
    <3>2. ASSUME NEW u \in Turn, phase'[u] \in {"run", "ending"} PROVE Short(ag')
      <4>1. phase[u] \in {"run", "ending"}
            BY <3>2, <1>3
      <4> QED BY <4>1, <3>1 DEF TurnSynced
    <3> QED BY <3>1, <3>2, <1>3 DEF TurnSynced
  <2> QED BY <2>1 DEF SyncedInv
<1>8. UnsavedInv'
  <2>1. ASSUME Unless({"race", "resume"})' PROVE TurnUnsaved' /\ FinishedIsLogged'
    <3>1. FinishedIsLogged
          BY <2>1, <1>1 DEF LogIInv, UnsavedInv
    <3>2. FinishedIsLogged'
      <4>1. LogsGrow
            BY <1>2 DEF LogsGrow
      <4>2. logs' \in Seq(Seq(Entry))
            BY <1>1, <1>2 DEF TypeOK
      <4>3. \A t \in finished : home'[t] = home[t]
            BY <1>3, <1>4
      <4> QED BY <4>1, <4>2, <4>3, <3>1, <1>1, <1>2, StillLogged
    <3>3. TurnUnsaved'
          BY <1>2, <1>3 DEF TurnUnsaved
    <3> QED BY <3>2, <3>3
  <2> QED BY <2>1 DEF UnsavedInv
<1>9. NotesInv'
      BY <1>2, <1>5, NotesStay
<1> QED BY <1>1, <1>5, <1>6, <1>7, <1>8, <1>9 DEF LogIInv

\* The focus moves, and the agent with it when it is idle.
LEMMA FocusLogs ==
    ASSUME ContextIInv, LogIInv, Next, NEW c \in Ctx, Focus(c)
    PROVE  LogIInv'
<1>1. /\ TypeOK /\ PhasesFit'
      /\ \A S : Unless(S)' => Unless(S)
      /\ Unless({"resume"}) => TurnSynced
      BY LogFacts
<1>2. /\ ag' = IF turn = NoTurn THEN Enter(ag, c) ELSE ag
      /\ UNCHANGED <<turn, turnCtx, phase, turns, logs, sess, notes, launches,
                     home, cancelled, answered, finished, noted, met>>
      BY DEF Focus
<1>3. CASE turn # NoTurn
  <2>1. ag' = ag
        BY <1>2, <1>3
  <2> QED BY <2>1, <1>2, StillKeeps
<1>4. CASE turn = NoTurn
  <2>1. ag' = Enter(ag, c)
        BY <1>2, <1>4
  <2>2. /\ Known'
        /\ OnceInv' /\ RememberedInv' /\ AgreedInv' /\ HomeInv'
        /\ \A d \in Ctx : Items(Hist(ag, d)) \subseteq Items(Hist(ag', d))
        /\ Unless({"resume"}) => Synced(ag') /\ (Short(ag) => Short(ag'))
        BY <1>2, <2>1, EnterStep
  <2>3. TurnInjected'
        BY <1>2, <1>4 DEF TurnInjected
  <2>4. SyncedInv'
    <3>1. ASSUME Unless({"resume"})' PROVE TurnSynced'
          BY <3>1, <1>1, <1>2, <1>4, <2>2 DEF TurnSynced
    <3> QED BY <3>1 DEF SyncedInv
  <2>5. UnsavedInv'
    <3>1. ASSUME Unless({"race", "resume"})' PROVE TurnUnsaved' /\ FinishedIsLogged'
      <4>1. FinishedIsLogged
            BY <3>1, <1>1 DEF LogIInv, UnsavedInv
      <4>2. FinishedIsLogged'
            BY <4>1, <3>1, <1>1, <1>2 DEF FinishedIsLogged
      <4>3. TurnUnsaved'
            BY <1>2, <1>4 DEF TurnUnsaved
      <4> QED BY <4>2, <4>3
    <3> QED BY <3>1 DEF UnsavedInv
  <2>6. NotesInv'
        BY <1>2, <2>2, NotesStay
  <2> QED BY <1>1, <2>2, <2>3, <2>4, <2>5, <2>6 DEF LogIInv
<1> QED BY <1>3, <1>4

\* A note injects no memory.
LEMMA NoteInjected ==
    ASSUME NEW a, NEW c \in Ctx, NEW m \in Message, Live(a)
    PROVE  InjectNote(a, c, m).injected = a.injected
<1> DEFINE b == InjectNote(a, c, m)
           o == IF a.of[c] = <<>> THEN Prefix(a.msgs, a.boot) ELSE a.of[c]
<1>1. /\ b.cur = a.cur /\ b.boot = a.boot /\ b.injected = a.injected
      /\ b.msgs = IF c = a.cur THEN Append(o, m) ELSE a.msgs
      BY InjectNoteIs
<1> QED BY <1>1

\* A note.
LEMMA NoteLogs ==
    ASSUME ContextIInv, LogIInv, Next, NEW c \in Ctx, Note(c)
    PROVE  LogIInv'
<1> DEFINE m == Msg("note", c, notes + 1)
<1>1. /\ TypeOK /\ Live(ag) /\ PhasesFit /\ PhasesFit'
      /\ logs[sess] \in Seq(Entry)
      /\ AgentWithin(ag, Used) /\ LogWithin(logs[sess], Used) /\ SysFirst(ag)
      /\ AgentWithin(ag, Used')
      /\ \A s \in DOMAIN logs : LogWithin(logs[s], Used')
      /\ \A S : Unless(S)' => Unless(S)
      /\ launches' = 0 => launches = 0 /\ Unless({"resume"})
      /\ Unless({"resume"}) => TurnSynced
      BY LogFacts
<1>2. /\ notes' = notes + 1 /\ ag' = InjectNote(ag, c, m) /\ noted' = noted \cup {m}
      /\ met' = met \cup (IF c = ag.cur /\ ag.of[c] # ag.msgs THEN {"note"} ELSE {})
      /\ UNCHANGED <<focus, turn, turnCtx, phase, turns, logs, sess, launches,
                     home, cancelled, answered, finished>>
      BY DEF Note
<1>3. notes \in Nat
      BY <1>1 DEF TypeOK
<1>4. m \in Message /\ m.kind = "note" /\ m.n = notes + 1 /\ m.ctx = c
      BY <1>3, MsgIs DEF Kind
<1> HIDE DEF m
<1>5. m \notin Used /\ m \in Used'
      BY <1>2, <1>3, <1>4 DEF Used
<1>6. Known'
  <2>1. AgentWithin(ag', Used') /\ SysFirst(ag')
        BY <1>1, <1>2, <1>4, <1>5, NoteWithin
  <2> QED BY <2>1, <1>1, <1>2 DEF Known
<1>7. TurnInjected'
  <2>1. InjectNote(ag, c, m).injected = ag.injected
        BY <1>1, <1>4, NoteInjected
  <2> QED BY <2>1, <1>2 DEF LogIInv, TurnInjected
<1>8. SyncedInv'
  <2>1. ASSUME Unless({"resume"})' PROVE TurnSynced'
    <3>1. TurnSynced
          BY <2>1, <1>1
    <3>2. Synced(ag)
          BY <3>1 DEF TurnSynced
    <3>3. /\ Synced(ag')
          /\ Short(ag) => Short(ag')
          /\ ag.msgs = ag.of[ag.cur] => ag'.msgs = ag'.of[ag'.cur]
          BY <3>2, <1>1, <1>2, <1>4, NoteSynced
    <3> QED BY <3>1, <3>3, <1>2 DEF TurnSynced
  <2> QED BY <2>1 DEF SyncedInv
<1>9. ASSUME Unless({"resume"})
      PROVE  /\ Once(ag, logs[sess]) => Once(ag', logs[sess])
             /\ Remembered(ag, logs[sess]) => Remembered(ag', logs[sess])
             /\ c # ag.cur \/ ag.of[c] = ag.msgs =>
                   /\ Agreed(ag, logs[sess]) => Agreed(ag', logs[sess])
                   /\ AtHome(ag, logs[sess]) /\ Booted(ag.msgs, ag.boot) => AtHome(ag', logs[sess])
             /\ m \in Items(Hist(ag', c))
             /\ \A d \in Ctx : \A x \in Items(Hist(ag, d)) : x.kind # "hot" => x \in Items(Hist(ag', d))
  <2>1. Synced(ag)
        BY <1>9, <1>1 DEF TurnSynced
  <2> QED BY <2>1, <1>1, <1>2, <1>4, <1>5, NoteKeeps
<1>10. OnceInv' /\ RememberedInv' /\ AgreedInv' /\ HomeInv'
  <2>1. \A S : "resume" \in S /\ Unless(S)' => Unless({"resume"})
        BY <1>1 DEF Unless
  <2>2. Unless({"resume"})' /\ Once(ag, logs[sess]) => Once(ag', logs[sess])
        BY <2>1, <1>9
  <2>3. Unless({"compact", "resume"})' /\ Remembered(ag, logs[sess]) => Remembered(ag', logs[sess])
        BY <2>1, <1>9
  <2>4. \A S : "note" \in S /\ Unless(S)' => c # ag.cur \/ ag.of[c] = ag.msgs
        BY <1>2 DEF Unless
  <2>5. Unless({"note", "race", "compact", "resume"})' /\ Agreed(ag, logs[sess]) => Agreed(ag', logs[sess])
        BY <2>1, <2>4, <1>9
  <2>6. Plain' /\ Booted(ag.msgs, ag.boot) /\ AtHome(ag, logs[sess]) => AtHome(ag', logs[sess])
        BY <2>1, <2>4, <1>9 DEF Plain
  <2> QED BY <2>2, <2>3, <2>5, <2>6, <1>2, SameLogsFit
<1>11. UnsavedInv'
  <2>1. ASSUME Unless({"race", "resume"})' PROVE TurnUnsaved' /\ FinishedIsLogged'
    <3>1. TurnUnsaved /\ FinishedIsLogged /\ Unless({"resume"}) /\ TurnSynced
      <4>1. TurnUnsaved /\ FinishedIsLogged
            BY <2>1, <1>1 DEF LogIInv, UnsavedInv
      <4>2. Unless({"resume"})
            BY <2>1, <1>1 DEF Unless
      <4> QED BY <4>1, <4>2, <1>1
    <3>2. FinishedIsLogged'
          BY <3>1, <2>1, <1>1, <1>2 DEF FinishedIsLogged
    <3>3. ASSUME turn # NoTurn, phase[turn] \in {"run", "ending", "over"}
          PROVE  Unsaved(ag, turnCtx) \subseteq Unsaved(ag', turnCtx)
      <4>1. ag.msgs = ag.of[ag.cur] /\ Synced(ag)
            BY <3>1, <3>3 DEF TurnSynced
      <4>2. Unsaved(ag, ag.cur) \subseteq Unsaved(ag', ag.cur)
            BY <4>1, <1>1, <1>2, <1>4, NoteUnsaved
      <4> QED BY <4>2, <3>3 DEF ContextIInv, TurnOwnsContext
    <3>4. turn # NoTurn /\ turn \in answered => phase[turn] \in {"run", "ending", "over"}
          BY <1>1 DEF PhasesFit
    <3>5. TurnUnsaved'
          BY <3>1, <3>3, <3>4, <1>2 DEF TurnUnsaved
    <3> QED BY <3>2, <3>5
  <2> QED BY <2>1 DEF UnsavedInv
<1>12. NotesInv'
  <2>1. ASSUME launches' = 0, Unless({"race", "compact"})' PROVE NotesThere'
    <3>1. NotesThere /\ Unless({"resume"})
          BY <2>1, <1>1 DEF LogIInv, NotesInv
    <3>2. \A x \in noted : x.ctx \in Ctx
          BY <1>1 DEF TypeOK, Message
    <3>3. \A x \in noted : x.kind = "note" /\ x \in Items(Hist(ag', x.ctx))
          BY <3>1, <3>2, <1>9 DEF NotesThere
    <3> QED BY <3>1, <3>3, <1>2, <1>4, <1>9 DEF NotesThere
  <2> QED BY <2>1 DEF NotesInv
<1> QED BY <1>1, <1>6, <1>7, <1>8, <1>10, <1>11, <1>12 DEF LogIInv

\* A summary.
LEMMA CompactLogs ==
    ASSUME ContextIInv, LogIInv, Next, Compact
    PROVE  LogIInv'
<1> DEFINE m == Msg("sum", ag.cur, notes + 1)
<1>1. /\ TypeOK /\ Live(ag) /\ PhasesFit /\ PhasesFit'
      /\ logs[sess] \in Seq(Entry)
      /\ AgentWithin(ag, Used) /\ LogWithin(logs[sess], Used) /\ SysFirst(ag)
      /\ AgentWithin(ag, Used')
      /\ \A s \in DOMAIN logs : LogWithin(logs[s], Used')
      /\ \A S : Unless(S)' => Unless(S)
      /\ Unless({"resume"}) => TurnSynced
      BY LogFacts
<1>2. /\ turn = NoTurn /\ CanCompact(ag)
      /\ notes' = notes + 1 /\ ag' = Compacted(ag, m)
      /\ met' = met \cup {"compact"}
      /\ UNCHANGED <<focus, turn, turnCtx, phase, turns, logs, sess, launches,
                     home, cancelled, answered, finished, noted>>
      BY DEF Compact
<1>3. notes \in Nat /\ ag.cur \in Ctx
      BY <1>1, PartsAre DEF TypeOK
<1>4. m \in Message /\ m.kind = "sum" /\ m.n = notes + 1
      BY <1>3, MsgIs DEF Kind
<1> HIDE DEF m
<1>5. m \notin Used /\ m \in Used'
      BY <1>2, <1>3, <1>4 DEF Used
<1>6. /\ AgentWithin(ag', Used') /\ SysFirst(ag')
      /\ Synced(ag) => Synced(ag') /\ Short(ag')
      BY <1>1, <1>2, <1>4, <1>5, CompactedWithin
<1>7. Known'
      BY <1>6, <1>1, <1>2 DEF Known
<1>8. TurnInjected'
      BY <1>2 DEF TurnInjected
<1>9. SyncedInv'
  <2>1. ASSUME Unless({"resume"})' PROVE TurnSynced'
    <3>1. Synced(ag)
          BY <2>1, <1>1 DEF TurnSynced
    <3> QED BY <3>1, <1>2, <1>6 DEF TurnSynced
  <2> QED BY <2>1 DEF SyncedInv
<1>10. OnceInv' /\ RememberedInv' /\ AgreedInv' /\ HomeInv'
  <2>1. Once(ag, logs[sess]) => Once(ag', logs[sess])
        BY <1>1, <1>2, <1>4, <1>5, CompactKeeps
  <2>2. \A S : "compact" \in S => ~Unless(S)'
        BY <1>2 DEF Unless
  <2>3. ~Unless({"compact", "resume"})' /\ ~Unless({"note", "race", "compact", "resume"})' /\ ~Plain'
        BY <2>2 DEF Plain
  <2> QED BY <2>1, <2>3, <1>2, SameLogsFit
<1>11. UnsavedInv'
  <2>1. ASSUME Unless({"race", "resume"})' PROVE TurnUnsaved' /\ FinishedIsLogged'
    <3>1. FinishedIsLogged
          BY <2>1, <1>1 DEF LogIInv, UnsavedInv
    <3>2. FinishedIsLogged'
          BY <3>1, <2>1, <1>1, <1>2 DEF FinishedIsLogged
    <3>3. TurnUnsaved'
          BY <1>2 DEF TurnUnsaved
    <3> QED BY <3>2, <3>3
  <2> QED BY <2>1 DEF UnsavedInv
<1>12. NotesInv'
      BY <1>2 DEF NotesInv, Unless
<1> QED BY <1>1, <1>7, <1>8, <1>9, <1>10, <1>11, <1>12 DEF LogIInv

\* The log goes on in another file.
LEMMA ForkLogs ==
    ASSUME ContextIInv, LogIInv, Next, Fork
    PROVE  LogIInv'
<1>1. /\ TypeOK /\ PhasesFit'
      /\ logs \in Seq(Seq(Entry)) /\ sess \in DOMAIN logs /\ logs[sess] \in Seq(Entry)
      /\ AgentWithin(ag, Used') /\ SysFirst(ag)
      /\ \A s \in DOMAIN logs : LogWithin(logs[s], Used')
      BY LogFacts
<1>2. /\ logs' = Append(logs, logs[sess]) /\ sess' = Len(logs')
      /\ UNCHANGED <<ag, focus, turn, turnCtx, phase, turns, notes, launches,
                     home, cancelled, answered, finished, noted, met>>
      BY DEF Fork
<1>3. /\ logs' \in Seq(Seq(Entry)) /\ logs'[sess'] = logs[sess]
      /\ \A s \in DOMAIN logs : s \in DOMAIN logs' /\ logs'[s] = logs[s]
      /\ \A s \in DOMAIN logs' : \E r \in DOMAIN logs : logs'[s] = logs[r]
  <2>1. Len(logs) \in Nat /\ DOMAIN logs = 1 .. Len(logs)
        BY <1>1
  <2>2. logs' \in Seq(Seq(Entry)) /\ Len(logs') = Len(logs) + 1 /\ DOMAIN logs' = 1 .. Len(logs')
        BY <1>1, <1>2, <2>1
  <2>3. \A s \in 1 .. Len(logs) : s \in DOMAIN logs' /\ logs'[s] = logs[s]
        BY <1>1, <1>2, <2>1, <2>2
  <2>4. logs'[Len(logs) + 1] = logs[sess]
        BY <1>1, <1>2, <2>1, <2>2
  <2>5. ASSUME NEW s \in DOMAIN logs' PROVE \E r \in DOMAIN logs : logs'[s] = logs[r]
    <3>1. s \in 1 .. Len(logs) \/ s = Len(logs) + 1
          BY <2>1, <2>2
    <3> QED BY <3>1, <2>1, <2>3, <2>4, <1>1
  <2> QED BY <2>1, <2>2, <2>3, <2>4, <2>5, <1>2
<1>4. \A S : Unless(S)' <=> Unless(S)
      BY <1>2 DEF Unless
<1>5. Known'
      BY <1>1, <1>2, <1>3 DEF Known
<1>6. TurnInjected'
      BY <1>2 DEF LogIInv, TurnInjected
<1>7. SyncedInv' /\ NotesInv'
      BY <1>2, <1>4 DEF LogIInv, SyncedInv, TurnSynced, NotesInv, NotesThere
<1>8. UnsavedInv'
  <2>1. ASSUME Unless({"race", "resume"})' PROVE TurnUnsaved' /\ FinishedIsLogged'
    <3>1. TurnUnsaved /\ FinishedIsLogged
          BY <2>1, <1>4 DEF LogIInv, UnsavedInv
    <3>2. LogsGrow
          BY <1>3 DEF LogsGrow
    <3>3. FinishedIsLogged'
          BY <3>1, <3>2, <1>1, <1>2, <1>3, StillLogged
    <3> QED BY <3>1, <3>3, <1>2 DEF TurnUnsaved
  <2> QED BY <2>1 DEF UnsavedInv
<1>9. OnceInv'
  <2>1. ASSUME Unless({"resume"})', BootIsLogged' PROVE Once(ag, logs[sess]) /\ LogsDistinct
        BY <2>1, <1>2, <1>4 DEF LogIInv, OnceInv, BootIsLogged
  <2>2. ASSUME LogsDistinct PROVE LogsDistinct'
        BY <2>2, <1>3 DEF LogsDistinct
  <2> QED BY <2>1, <2>2, <1>2, <1>3 DEF OnceInv
<1>10. RememberedInv'
  <2>1. ASSUME Unless({"compact", "resume"})'
        PROVE  Remembered(ag, logs[sess]) /\ \A s \in DOMAIN logs : Headed(logs[s])
        BY <2>1, <1>4 DEF LogIInv, RememberedInv
  <2> QED BY <2>1, <1>2, <1>3 DEF RememberedInv
<1>11. AgreedInv'
      BY <1>2, <1>3, <1>4 DEF LogIInv, AgreedInv
<1>12. HomeInv'
  <2>1. ASSUME Plain' PROVE AtHome(ag, logs[sess]) /\ \A s \in DOMAIN logs : LogHome(logs[s])
        BY <2>1, <1>4 DEF LogIInv, HomeInv, Plain
  <2> QED BY <2>1, <1>2, <1>3 DEF HomeInv
<1> QED BY <1>1, <1>5, <1>6, <1>7, <1>8, <1>9, <1>10, <1>11, <1>12 DEF LogIInv

\* The agent after a turn, with its new watermark, in the context of the next turn if there is one.
LEMMA DoneAgent ==
    ASSUME NEW a, NEW x, NEW c \in Ctx, NEW log \in Seq(Entry), Live(a),
           x = Saved(a, a.cur) \/ x = Enter(Saved(a, a.cur), c)
    PROVE  LET all == log \o NewEntries(a, a.cur) IN
           /\ Once(a, log) /\ (\A d \in Ctx : Distinct(Logged(log, d))) => Once(x, all)
           /\ Remembered(a, log) => Remembered(x, all)
           /\ Agreed(a, log) => Agreed(x, all)
           /\ AtHome(a, log) /\ Booted(a.msgs, a.boot) => AtHome(x, all)
           /\ \A d \in Ctx : Items(Hist(a, d)) \subseteq Items(Hist(x, d))
           /\ \A U : AgentWithin(a, U) /\ NewHot(a, c) \subseteq U => AgentWithin(x, U)
           /\ SysFirst(a) => SysFirst(x)
           /\ Synced(a) /\ Short(a) => Synced(x) /\ Short(x)
           /\ all \in Seq(Entry)
<1> DEFINE b == Saved(a, a.cur)
           all == log \o NewEntries(a, a.cur)
<1>1. a.cur \in Ctx
      BY PartsAre
<1>2. /\ b.msgs = a.msgs /\ b.of = a.of /\ b.cur = a.cur /\ b.boot = a.boot
      /\ b.injected = a.injected
      BY <1>1, SavedIs
<1>3. Live(b)
      BY <1>1, SavedFine
<1>4. all \in Seq(Entry)
      BY <1>1, NewEntriesAre
<1>5. /\ Once(a, log) /\ (\A d \in Ctx : Distinct(Logged(log, d))) => Once(b, all)
      /\ Remembered(a, log) => Remembered(b, all)
      /\ Agreed(a, log) => Agreed(b, all)
      /\ AtHome(a, log) => AtHome(b, all)
      BY DoneKeeps
<1>6. Synced(a) /\ Short(a) => Synced(b) /\ Short(b)
      BY SavedSynced
<1> HIDE DEF b, all
<1>7. \A d \in Ctx : Hist(b, d) = Hist(a, d)
      BY <1>2 DEF Hist
<1>8. /\ \A U : AgentWithin(a, U) => AgentWithin(b, U)
      /\ SysFirst(a) => SysFirst(b)
      /\ Booted(a.msgs, a.boot) => Booted(b.msgs, b.boot)
      BY <1>2 DEF AgentWithin, SysFirst
<1>9. NewHot(b, c) = NewHot(a, c)
      BY <1>2 DEF NewHot
<1>10. CASE x = b
       BY <1>10, <1>4, <1>5, <1>6, <1>7, <1>8 DEF all
<1>11. CASE x = Enter(b, c)
  <2>1. /\ Once(b, all) => Once(x, all)
        /\ Remembered(b, all) => Remembered(x, all)
        /\ Agreed(b, all) => Agreed(x, all)
        /\ AtHome(b, all) /\ Booted(b.msgs, b.boot) => AtHome(x, all)
        /\ \A d \in Ctx : Items(Hist(b, d)) \subseteq Items(Hist(x, d))
        BY <1>11, <1>3, <1>4, EnterKeeps
  <2>2. /\ \A U : AgentWithin(b, U) /\ NewHot(b, c) \subseteq U => AgentWithin(x, U)
        /\ SysFirst(b) => SysFirst(x)
        BY <1>11, <1>3, EnterWithin
  <2>3. Synced(b) /\ Short(b) => Synced(x) /\ Short(x)
        BY <1>11, <1>3, EnterSynced
  <2> QED BY <2>1, <2>2, <2>3, <1>4, <1>5, <1>6, <1>7, <1>8, <1>9 DEF all
<1> QED BY <1>10, <1>11 DEF b

\* The end of a turn.
LEMMA DoneLogs ==
    ASSUME ContextIInv, LogIInv, Next, Done
    PROVE  LogIInv'
<1> DEFINE log == logs[sess]
           all == log \o NewEntries(ag, ag.cur)
<1>1. /\ TypeOK /\ Live(ag) /\ PhasesFit /\ PhasesFit'
      /\ logs \in Seq(Seq(Entry)) /\ sess \in DOMAIN logs /\ log \in Seq(Entry)
      /\ AgentWithin(ag, Used') /\ SysFirst(ag)
      /\ \A s \in DOMAIN logs : LogWithin(logs[s], Used')
      /\ \A S : Unless(S)' => Unless(S)
      /\ Unless({"resume"}) => TurnSynced
      BY LogFacts
<1>2. /\ turn # NoTurn /\ phase[turn] \in {"ending", "over", "rejected"} /\ turn \in Turn
      /\ turnCtx = ag.cur /\ ag.cur \in Ctx /\ focus \in Ctx /\ finished \subseteq Turn
  <2>1. turn # NoTurn /\ phase[turn] \in {"ending", "over", "rejected"}
        BY DEF Done
  <2>2. turn \in Turn /\ focus \in Ctx /\ finished \subseteq Turn
        BY <2>1, <1>1 DEF TypeOK
  <2>3. turnCtx = ag.cur
        BY <2>1 DEF ContextIInv, TurnOwnsContext
  <2>4. ag.cur \in Ctx
        BY <1>1, PartsAre
  <2> QED BY <2>1, <2>2, <2>3, <2>4
<1>3. /\ logs' = [logs EXCEPT ![sess] = all] /\ finished' = finished \cup {turn}
      /\ UNCHANGED <<focus, sess, notes, launches, cancelled, answered, noted, met>>
      /\ \/ StartIn(Saved(ag, ag.cur))
         \/ ag' = Saved(ag, ag.cur) /\ turn' = NoTurn /\ UNCHANGED <<turnCtx, phase, turns, home>>
      BY <1>2 DEF Done
<1>4. ASSUME StartIn(Saved(ag, ag.cur))
      PROVE  /\ turn' # NoTurn /\ phase'[turn'] = "born" /\ turnCtx' = focus /\ turn' \notin answered
             /\ ag' = Enter(Saved(ag, ag.cur), focus)
             /\ \A t \in finished' : home'[t] = home[t]
             /\ \A u \in Turn : phase'[u] \in {"run", "ending"} => phase[u] \in {"run", "ending"}
  <2>1. /\ turns + 1 \in Turn /\ turn' = turns + 1 /\ phase[turns + 1] = "none"
        /\ phase'[turns + 1] = "born"
        /\ turnCtx' = focus /\ ag' = Enter(Saved(ag, ag.cur), focus)
        /\ turns + 1 \notin answered /\ turns + 1 \notin finished
        /\ \A t \in Turn : t # turns + 1 => phase'[t] = phase[t] /\ home'[t] = home[t]
        BY <1>1, <1>4, PhasesStart
  <2>2. turn' # NoTurn
        BY <2>1 DEF Turn, NoTurn
  <2>3. turns + 1 # turn
        BY <2>1, <1>2
  <2>4. \A t \in finished' : home'[t] = home[t]
        BY <2>1, <2>3, <1>2, <1>3
  <2>5. \A u \in Turn : phase'[u] \in {"run", "ending"} => phase[u] \in {"run", "ending"}
        BY <2>1
  <2> QED BY <2>1, <2>2, <2>4, <2>5
<1>5. /\ turn' # NoTurn => phase'[turn'] = "born" /\ turn' \notin answered
      /\ \A t \in finished' : home'[t] = home[t]
      BY <1>3, <1>4
<1>6. ag' = Saved(ag, ag.cur) \/ ag' = Enter(Saved(ag, ag.cur), focus)
      BY <1>3, <1>4
<1>7. /\ Once(ag, log) /\ (\A d \in Ctx : Distinct(Logged(log, d))) => Once(ag', all)
      /\ Remembered(ag, log) => Remembered(ag', all)
      /\ Agreed(ag, log) => Agreed(ag', all)
      /\ AtHome(ag, log) /\ Booted(ag.msgs, ag.boot) => AtHome(ag', all)
      /\ \A d \in Ctx : Items(Hist(ag, d)) \subseteq Items(Hist(ag', d))
      /\ \A U : AgentWithin(ag, U) /\ NewHot(ag, focus) \subseteq U => AgentWithin(ag', U)
      /\ SysFirst(ag) => SysFirst(ag')
      /\ Synced(ag) /\ Short(ag) => Synced(ag') /\ Short(ag')
      /\ all \in Seq(Entry)
      BY <1>6, <1>1, <1>2, DoneAgent
<1>8. /\ Once(ag, log) /\ (\A d \in Ctx : Distinct(Logged(log, d))) => \A d \in Ctx : Distinct(Logged(all, d))
      /\ SysFirst(ag) /\ Headed(log) /\ Remembered(ag, log) => Headed(all)
      /\ \A U : AgentWithin(ag, U) /\ LogWithin(log, U) => LogWithin(all, U)
      /\ \A x \in Unsaved(ag, ag.cur) : \E i \in 1 .. Len(all) : all[i].msg = x
      /\ \A i \in 1 .. Len(log) : i \in 1 .. Len(all) /\ all[i] = log[i]
      BY <1>1, DoneKeeps
<1> HIDE DEF all, log
<1>9. /\ logs' \in Seq(Seq(Entry)) /\ DOMAIN logs' = DOMAIN logs /\ sess' = sess
      /\ logs'[sess] = all
      /\ \A s \in DOMAIN logs : s # sess => logs'[s] = logs[s]
  <2>1. Len(logs) \in Nat /\ DOMAIN logs = 1 .. Len(logs)
        BY <1>1
  <2>2. DOMAIN logs' = DOMAIN logs /\ logs'[sess] = all /\ \A s \in DOMAIN logs : s # sess => logs'[s] = logs[s]
        BY <1>1, <1>3
  <2>3. logs' \in Seq(Seq(Entry))
        BY <1>1, <1>3, <1>7
  <2> QED BY <2>2, <2>3, <1>3
<1>10. Known'
  <2>1. NewHot(ag, focus) \subseteq Used'
        BY <1>2, HotUsed
  <2>2. AgentWithin(ag', Used') /\ SysFirst(ag')
        BY <2>1, <1>1, <1>7
  <2>3. LogWithin(all, Used')
        BY <1>1, <1>8 DEF log
  <2>4. \A s \in DOMAIN logs' : LogWithin(logs'[s], Used')
        BY <2>3, <1>1, <1>9
  <2> QED BY <2>2, <2>4 DEF Known
<1>11. TurnInjected'
  <2>1. CASE StartIn(Saved(ag, ag.cur))
    <3>1. Live(Saved(ag, ag.cur))
          BY <1>1, <1>2, SavedFine
    <3>2. focus \in HotCtx => focus \in ag'.injected
          BY <3>1, <2>1, <1>4, <1>2, EnterIs
    <3> QED BY <3>2, <2>1, <1>4 DEF TurnInjected
  <2>2. CASE turn' = NoTurn
        BY <2>2 DEF TurnInjected
  <2> QED BY <2>1, <2>2, <1>3
<1>12. SyncedInv'
  <2>1. ASSUME Unless({"resume"})' PROVE TurnSynced'
    <3>1. TurnSynced
          BY <2>1, <1>1
    <3>2. Synced(ag) /\ Short(ag)
          BY <3>1, <1>2 DEF TurnSynced, Short
    <3> QED BY <3>2, <1>5, <1>7 DEF TurnSynced
  <2> QED BY <2>1 DEF SyncedInv
<1>13. UnsavedInv'
  <2>1. ASSUME Unless({"race", "resume"})' PROVE TurnUnsaved' /\ FinishedIsLogged'
    <3>1. TurnUnsaved /\ FinishedIsLogged /\ Unless({"race", "resume"})
          BY <2>1, <1>1 DEF LogIInv, UnsavedInv
    <3>2. TurnUnsaved'
          BY <1>3, <1>5 DEF TurnUnsaved
    <3>3. \A s \in DOMAIN logs : Items(logs[s]) \subseteq Items(logs'[s])
      <4>1. Items(log) \subseteq Items(all)
            BY <1>8, <1>1, <1>7 DEF Items
      <4> QED BY <4>1, <1>9 DEF log
    <3>4. ASSUME NEW t \in finished' \cap answered'
          PROVE  \E s \in DOMAIN logs' :
                    {Msg("user", home'[t], t), Msg("reply", home'[t], t)}
                        \subseteq {e.msg : e \in Items(logs'[s])}
      <4>1. home'[t] = home[t]
            BY <1>5
      <4>2. CASE t \in finished
        <5>1. PICK s \in DOMAIN logs :
                 {Msg("user", home[t], t), Msg("reply", home[t], t)} \subseteq {e.msg : e \in Items(logs[s])}
              BY <4>2, <3>1, <1>3 DEF FinishedIsLogged
        <5>2. s \in DOMAIN logs' /\ Items(logs[s]) \subseteq Items(logs'[s])
              BY <3>3, <1>9
        <5> QED BY <5>1, <5>2, <4>1
      <4>3. CASE t = turn
        <5>1. turn \in answered
              BY <4>3, <1>3
        <5>2. phase[turn] \in {"ending", "over"}
              BY <5>1, <1>1 DEF PhasesFit
        <5>3. /\ Msg("user", home[turn], turn) \in Unsaved(ag, ag.cur)
              /\ Msg("reply", home[turn], turn) \in Unsaved(ag, ag.cur)
              BY <5>1, <5>2, <3>1, <1>2 DEF TurnUnsaved
        <5>4. \A x \in Unsaved(ag, ag.cur) : x \in {e.msg : e \in Items(all)}
              BY <1>8, <1>7 DEF Items
        <5>5. sess \in DOMAIN logs' /\ logs'[sess] = all
              BY <1>9, <1>1
        <5> QED BY <5>3, <5>4, <5>5, <4>1, <4>3
      <4> QED BY <4>2, <4>3, <1>3
    <3>5. FinishedIsLogged'
          BY <3>4 DEF FinishedIsLogged
    <3> QED BY <3>2, <3>5
  <2> QED BY <2>1 DEF UnsavedInv
<1>14. NotesInv'
       BY <1>3, <1>7, NotesStay
<1>15. BootIsLogged' => BootIsLogged
       BY <1>1, Weaker
<1>16. OnceInv'
  <2>1. ASSUME Unless({"resume"})', BootIsLogged' PROVE Once(ag', all) /\ LogsDistinct'
    <3>1. Once(ag, log) /\ LogsDistinct
          BY <2>1, <1>1, <1>15 DEF LogIInv, OnceInv, log
    <3>2. \A d \in Ctx : Distinct(Logged(log, d))
          BY <3>1, <1>1 DEF LogsDistinct, log
    <3>3. \A d \in Ctx : Distinct(Logged(all, d))
          BY <3>1, <3>2, <1>8
    <3>4. LogsDistinct'
          BY <3>1, <3>3, <1>9 DEF LogsDistinct
    <3> QED BY <3>1, <3>2, <3>4, <1>7
  <2> QED BY <2>1, <1>9 DEF OnceInv
<1>17. RememberedInv'
  <2>1. ASSUME Unless({"compact", "resume"})'
        PROVE  Remembered(ag', all) /\ \A s \in DOMAIN logs' : Headed(logs'[s])
    <3>1. Remembered(ag, log) /\ \A s \in DOMAIN logs : Headed(logs[s])
          BY <2>1, <1>1 DEF LogIInv, RememberedInv, log
    <3>2. Headed(all)
          BY <3>1, <1>1, <1>8 DEF log
    <3> QED BY <3>1, <3>2, <1>7, <1>9
  <2> QED BY <2>1, <1>9 DEF RememberedInv
<1>18. AgreedInv'
  <2>1. ASSUME Unless({"note", "race", "compact", "resume"})' PROVE Agreed(ag', all)
        BY <2>1, <1>1, <1>7 DEF LogIInv, AgreedInv, log
  <2> QED BY <2>1, <1>9 DEF AgreedInv
<1>19. HomeInv'
  <2>1. ASSUME Plain' PROVE AtHome(ag', all) /\ \A s \in DOMAIN logs' : LogHome(logs'[s])
    <3>1. Plain
          BY <2>1, <1>1 DEF Plain
    <3>2. AtHome(ag, log) /\ \A s \in DOMAIN logs : LogHome(logs[s])
          BY <3>1 DEF LogIInv, HomeInv, log
    <3>3. Tame
          BY <3>1 DEF Plain, Tame, Unless, BootIsLogged
    <3>4. Booted(ag.msgs, ag.boot)
          BY <3>3 DEF ContextIInv, AgentFine, Fine
    <3>5. AtHome(ag', all)
          BY <3>2, <3>4, <1>7
    <3>6. LogHome(all)
          BY <3>5 DEF AtHome
    <3> QED BY <3>2, <3>5, <3>6, <1>9
  <2> QED BY <2>1, <1>9 DEF HomeInv
<1> QED BY <1>1, <1>10, <1>11, <1>12, <1>13, <1>14, <1>16, <1>17, <1>18, <1>19 DEF LogIInv

-----------------------------------------------------------------------------
(* Starts *)

\* What is somewhere in any case.
LEMMA UsedHas ==
    /\ Sys \in Used' /\ \A i \in Nat : Msg("boot", Main, i) \in Used'
    /\ \A f \in Ctx : f \in HotCtx => Hot(f) \in Used'
    /\ Used' \subseteq SysOnly /\ Used' \subseteq HotOnly
<1>1. Sys \in Message /\ Sys.kind = "sys" /\ Main \in Ctx
      BY SysIs
<1>2. \A i \in Nat : Msg("boot", Main, i) \in Message /\ Msg("boot", Main, i).kind = "boot"
      BY <1>1, MsgIs DEF Kind
<1>3. \A f \in Ctx : f \in HotCtx => Hot(f) \in Used'
  <2> SUFFICES ASSUME NEW f \in Ctx, f \in HotCtx PROVE Hot(f) \in Used'
      OBVIOUS
  <2>1. Hot(f) \in Message /\ Hot(f).kind = "hot" /\ Hot(f).ctx = f
        BY HotIs
  <2> QED BY <2>1 DEF Used
<1>4. Sys \in Used' /\ \A i \in Nat : Msg("boot", Main, i) \in Used'
      BY <1>1, <1>2 DEF Used
<1>5. Used' \subseteq SysOnly /\ Used' \subseteq HotOnly
      BY DEF Used, SysOnly, HotOnly
<1> QED BY <1>3, <1>4, <1>5

\* An agent that has just started, with a log that has no entry yet.
LEMMA FreshStep ==
    ASSUME ContextIInv, LogIInv, Next, NewSession, Live(ag'),
           \A d \in Ctx : d # ag'.cur => ag'.of[d] = <<>>,
           \A d \in Ctx : ag'.saved[d] = 0,
           Distinct(ag'.msgs), AgentWithin(ag', Marked(ag'.injected)),
           AgentWithin(ag', Used'), SysFirst(ag'),
           MemoryThere(ag'), Plain' => MemoryHome(ag') /\ AgentHome(ag')
    PROVE  Known' /\ OnceInv' /\ RememberedInv' /\ AgreedInv' /\ HomeInv'
<1>1. /\ TypeOK /\ logs \in Seq(Seq(Entry))
      /\ \A s \in DOMAIN logs : LogWithin(logs[s], Used')
      /\ \A S : Unless(S)' => Unless(S)
      /\ BootIsLogged' => BootIsLogged
      BY LogFacts, Weaker
<1>2. /\ logs'[sess'] = <<>>
      /\ \A s \in DOMAIN logs' : \/ s \in DOMAIN logs /\ logs'[s] = logs[s]
                                 \/ logs'[s] = <<>>
      BY <1>1, NewLog
<1>3. <<>> \in Seq(Entry)
      OBVIOUS
<1>4. /\ Once(ag', <<>>) /\ Remembered(ag', <<>>)
      /\ Headed(<<>>) /\ \A d \in Ctx : Distinct(Logged(<<>>, d))
      /\ MemoryThere(ag') => Agreed(ag', <<>>)
      /\ MemoryHome(ag') /\ AgentHome(ag') => AtHome(ag', <<>>)
      /\ \A U : LogWithin(<<>>, U)
      BY <1>3, FreshKeeps
<1>5. Known'
  <2>1. \A s \in DOMAIN logs' : LogWithin(logs'[s], Used')
        BY <1>1, <1>2, <1>4
  <2> QED BY <2>1 DEF Known
<1>6. OnceInv'
  <2>1. ASSUME Unless({"resume"})', BootIsLogged' PROVE LogsDistinct'
    <3>1. LogsDistinct
          BY <2>1, <1>1 DEF LogIInv, OnceInv
    <3> QED BY <3>1, <1>2, <1>4 DEF LogsDistinct
  <2> QED BY <2>1, <1>2, <1>4 DEF OnceInv
<1>7. RememberedInv'
  <2>1. ASSUME Unless({"compact", "resume"})' PROVE \A s \in DOMAIN logs' : Headed(logs'[s])
    <3>1. \A s \in DOMAIN logs : Headed(logs[s])
          BY <2>1, <1>1 DEF LogIInv, RememberedInv
    <3> QED BY <3>1, <1>2, <1>4
  <2> QED BY <2>1, <1>2, <1>4 DEF RememberedInv
<1>8. AgreedInv'
      BY <1>2, <1>4 DEF AgreedInv
<1>9. HomeInv'
  <2>1. ASSUME Plain' PROVE AtHome(ag', <<>>) /\ \A s \in DOMAIN logs' : LogHome(logs'[s])
    <3>1. Plain
          BY <2>1, <1>1 DEF Plain
    <3>2. \A s \in DOMAIN logs : LogHome(logs[s])
          BY <3>1 DEF LogIInv, HomeInv
    <3>3. AtHome(ag', <<>>)
          BY <2>1, <1>4
    <3>4. LogHome(<<>>)
          BY <3>3 DEF AtHome
    <3> QED BY <3>2, <3>3, <3>4, <1>2
  <2> QED BY <2>1, <1>2 DEF HomeInv
<1> QED BY <1>5, <1>6, <1>7, <1>8, <1>9

\* What is logged of finished turns, when no turn streams.
LEMMA IdleUnsaved ==
    ASSUME ContextIInv, LogIInv, Next, turn' = NoTurn, LogsGrow, logs' \in Seq(Seq(Entry)),
           finished' = finished, answered' = answered, home' = home
    PROVE  UnsavedInv' /\ TurnInjected'
<1>1. /\ TypeOK
      /\ \A S : Unless(S)' => Unless(S)
      BY LogFacts
<1>2. ASSUME Unless({"race", "resume"})' PROVE FinishedIsLogged'
  <2>1. FinishedIsLogged
        BY <1>1, <1>2 DEF LogIInv, UnsavedInv
  <2> QED BY <2>1, <1>1, StillLogged
<1>3. TurnUnsaved' /\ TurnInjected'
      BY DEF TurnUnsaved, TurnInjected
<1> QED BY <1>2, <1>3 DEF UnsavedInv

\* /restart.
LEMMA RestartLogs ==
    ASSUME ContextIInv, LogIInv, Next, Restart
    PROVE  LogIInv'
<1>1. TypeOK /\ PhasesFit' /\ Live(ag)
      BY LogFacts
<1>2. /\ launches' = launches + 1 /\ turn' = NoTurn /\ ag' = NewAgent(ag.base, ag.scope) /\ NewSession
      /\ UNCHANGED <<focus, turnCtx, phase, turns, notes, home, answered, finished, noted, met>>
      BY DEF Restart
<1>3. ag.base \in Nat /\ ag.scope \in Ctx
      BY <1>1, AgentIs DEF TypeOK
<1>4. launches' # 0
      BY <1>1, <1>2 DEF TypeOK
<1>5. /\ Live(ag') /\ ag'.cur = Main /\ ag'.injected = {}
      /\ \A d \in Ctx : d # Main => ag'.of[d] = <<>>
      /\ \A d \in Ctx : ag'.saved[d] = 0
      /\ Synced(ag') /\ SysFirst(ag') /\ Distinct(ag'.msgs)
      /\ \A U : Sys \in U /\ (\A i \in Nat : Msg("boot", Main, i) \in U) => AgentWithin(ag', U)
      BY <1>2, <1>3, RestartedIs
<1>6. Short(ag')
      BY <1>2, <1>3, RestartedShort
<1>7. /\ AgentWithin(ag', Used')
      /\ AgentWithin(ag', Marked(ag'.injected))
      /\ \A d : AgentWithin(ag', At(d))
  <2>1. AgentWithin(ag', Used')
        BY <1>5, UsedHas
  <2>2. AgentWithin(ag', Marked(ag'.injected))
        BY <1>5, BootIsCold DEF Marked
  <2>3. ASSUME NEW d PROVE AgentWithin(ag', At(d))
        BY <1>5, BootIsCold DEF At
  <2> QED BY <2>1, <2>2, <2>3
<1>8. MemoryThere(ag') /\ MemoryHome(ag') /\ AgentHome(ag')
  <2>1. MemoryThere(ag') /\ MemoryHome(ag')
        BY <1>5 DEF MemoryThere, MemoryHome
  <2>2. AgentHome(ag')
        BY <1>7 DEF AgentHome, AgentWithin
  <2> QED BY <2>1, <2>2
<1>9. Known' /\ OnceInv' /\ RememberedInv' /\ AgreedInv' /\ HomeInv'
      BY <1>2, <1>5, <1>7, <1>8, FreshStep
<1>10. UnsavedInv' /\ TurnInjected'
  <2>1. LogsGrow /\ logs' \in Seq(Seq(Entry))
        BY <1>1, <1>2, NewLog, NewLogGrows
  <2> QED BY <2>1, <1>2, IdleUnsaved
<1>11. SyncedInv'
       BY <1>2, <1>5, <1>6 DEF SyncedInv, TurnSynced
<1>12. NotesInv'
       BY <1>4 DEF NotesInv
<1> QED BY <1>1, <1>9, <1>10, <1>11, <1>12 DEF LogIInv

\* /resume of a session in the running program.
LEMMA ResumeLogs ==
    ASSUME ContextIInv, LogIInv, Next, NEW s \in DOMAIN logs, Resume(s)
    PROVE  LogIInv'
<1>1. /\ TypeOK /\ PhasesFit' /\ Live(ag) /\ logs \in Seq(Seq(Entry))
      /\ AgentWithin(ag, Used') /\ SysFirst(ag)
      /\ \A r \in DOMAIN logs : LogWithin(logs[r], Used')
      BY LogFacts
<1>2. /\ launches' = launches + 1 /\ turn' = NoTurn /\ ag' = Resumed(ag, logs[s])
      /\ met' = met \cup {"resume"} /\ logs' = logs
      BY DEF Resume
<1>3. launches' # 0
      BY <1>1, <1>2 DEF TypeOK
<1>4. logs[s] \in Seq(Entry)
      BY <1>1, ElementOfSeq
<1>5. LogWithin(logs[s], SysOnly)
      BY <1>1, UsedHas, WithinMore
<1>6. AgentWithin(ag', Used') /\ SysFirst(ag')
      BY <1>1, <1>2, <1>4, <1>5, UsedHas, ResumedWithin
<1>7. Known'
      BY <1>1, <1>2, <1>6 DEF Known
<1>8. \A S : "resume" \in S => ~Unless(S)'
      BY <1>2 DEF Unless
<1>9. SyncedInv' /\ UnsavedInv' /\ OnceInv' /\ RememberedInv' /\ AgreedInv' /\ HomeInv'
      BY <1>8 DEF SyncedInv, UnsavedInv, OnceInv, RememberedInv, AgreedInv, HomeInv, Plain
<1>10. TurnInjected' /\ NotesInv'
       BY <1>2, <1>3 DEF TurnInjected, NotesInv
<1> QED BY <1>1, <1>7, <1>9, <1>10 DEF LogIInv

\* What a program starts with.
LEMMA LaunchKeeps ==
    ASSUME NEW n \in Nat, NEW f \in Ctx
    PROVE  LET a == SetScope(NewAgent(n, f), f) IN
           /\ Live(a) /\ Synced(a) /\ SysFirst(a)
           /\ \A d \in Ctx : d # a.cur => a.of[d] = <<>>
           /\ \A d \in Ctx : a.saved[d] = 0
           /\ Distinct(a.msgs) /\ AgentWithin(a, Marked(a.injected))
           /\ MemoryThere(a)
           /\ f = Main => MemoryHome(a) /\ AgentHome(a)
           /\ \A U : /\ Sys \in U
                     /\ f \in HotCtx => Hot(f) \in U
                     /\ \A i \in Nat : Msg("boot", Main, i) \in U
                     => AgentWithin(a, U)
<1> DEFINE a == SetScope(NewAgent(n, f), f)
           h == Bootstrap(n)
<1>1. /\ Live(a) /\ a.cur = Main /\ a.boot = n + 1
      /\ a.injected = {f} \cap HotCtx
      /\ a.msgs = IF f \in HotCtx THEN Append(h, Hot(f)) ELSE h
      /\ \A d \in Ctx : a.of[d] = IF d = Main THEN h ELSE <<>>
      /\ \A d \in Ctx : a.saved[d] = 0
      BY LaunchIs
<1>2. /\ Synced(a)
      /\ SysFirst(a)
      /\ \A U : /\ Sys \in U
                /\ f \in HotCtx => Hot(f) \in U
                /\ \A i \in Nat : Msg("boot", Main, i) \in U
                => AgentWithin(a, U)
      /\ \A log : Grouped(log) = {} => Novel(a, log)
      /\ Distinct(a.msgs) /\ \A c \in Ctx : c # Main => a.of[c] = <<>>
      BY LaunchFits
<1>3. /\ AgentWithin(a, Marked({f} \cap HotCtx))
      /\ f \in HotCtx => Hot(f) \in Items(a.msgs)
      /\ f = Main => AgentHome(a)
      BY LaunchWithin
<1>4. Main \in Ctx
      BY SysIs
<1> HIDE DEF a, h
<1>5. f \in HotCtx => Hot(f) \in Items(Hist(a, Main))
      BY <1>1, <1>3 DEF Hist
<1>6. MemoryThere(a)
      BY <1>1, <1>4, <1>5 DEF MemoryThere
<1>7. f = Main => MemoryHome(a)
      BY <1>1, <1>5 DEF MemoryHome
<1> QED BY <1>1, <1>2, <1>3, <1>6, <1>7 DEF a

\* The program starts again.
LEMMA RelaunchLogs ==
    ASSUME ContextIInv, LogIInv, Next, Relaunch
    PROVE  LogIInv'
<1>1. /\ TypeOK /\ PhasesFit' /\ logs \in Seq(Seq(Entry))
      /\ \A r \in DOMAIN logs : LogWithin(logs[r], Used')
      /\ \A S : Unless(S)' => Unless(S)
      /\ BootIsLogged' => BootIsLogged
      BY LogFacts, Weaker
<1>2. /\ launches' = launches + 1 /\ turn' = NoTurn
      /\ phase' = [t \in Turn |-> IF phase[t] = "none" THEN "none" ELSE "over"]
      /\ UNCHANGED <<focus, turns, notes, home, answered, finished, noted>>
      BY DEF Relaunch
<1>3. PICK n \in Boots :
         /\ met' = met \cup (IF focus = Main THEN {} ELSE {"elsewhere"})
                       \cup (IF n = ag.base THEN {} ELSE {"bare"})
         /\ \/ ag' = SetScope(NewAgent(n, focus), focus) /\ NewSession
            \/ \E s \in DOMAIN logs :
                  /\ logs[s] # <<>>
                  /\ ag' = Resumed(SetScope(NewAgent(n, focus), focus), logs[s])
                  /\ sess' = s
                  /\ UNCHANGED logs
      BY DEF Relaunch
<1>4. n \in Nat /\ focus \in Ctx /\ launches \in Nat
      BY <1>1, ContextAssumption DEF TypeOK
<1>5. launches' # 0
      BY <1>2, <1>4
<1>6. /\ Sys \in Used' /\ \A i \in Nat : Msg("boot", Main, i) \in Used'
      /\ focus \in HotCtx => Hot(focus) \in Used'
      /\ Used' \subseteq SysOnly /\ Used' \subseteq HotOnly
      BY <1>4, UsedHas
<1>7. Plain' => focus = Main
      BY <1>3 DEF Plain, Unless
<1>8. NotesInv'
      BY <1>5 DEF NotesInv
<1>9. \A u \in Turn : phase'[u] \notin {"run", "ending"}
      BY <1>2
<1> DEFINE a == SetScope(NewAgent(n, focus), focus)
<1>10. /\ Live(a) /\ Synced(a) /\ SysFirst(a)
       /\ \A d \in Ctx : d # a.cur => a.of[d] = <<>>
       /\ \A d \in Ctx : a.saved[d] = 0
       /\ Distinct(a.msgs) /\ AgentWithin(a, Marked(a.injected))
       /\ MemoryThere(a)
       /\ focus = Main => MemoryHome(a) /\ AgentHome(a)
       /\ AgentWithin(a, Used')
       BY <1>4, <1>6, LaunchKeeps
<1>11. CASE ag' = a /\ NewSession
  <2>1. Plain' => MemoryHome(ag') /\ AgentHome(ag')
        BY <1>7, <1>10, <1>11
  <2>2. Known' /\ OnceInv' /\ RememberedInv' /\ AgreedInv' /\ HomeInv'
        BY <1>10, <1>11, <2>1, FreshStep
  <2>3. UnsavedInv' /\ TurnInjected'
    <3>1. LogsGrow /\ logs' \in Seq(Seq(Entry))
          BY <1>1, <1>11, NewLog, NewLogGrows
    <3> QED BY <3>1, <1>2, IdleUnsaved
  <2>4. SyncedInv'
        BY <1>2, <1>9, <1>10, <1>11 DEF SyncedInv, TurnSynced
  <2> QED BY <1>1, <1>8, <2>2, <2>3, <2>4 DEF LogIInv
<1>12. ASSUME NEW s \in DOMAIN logs, ag' = Resumed(a, logs[s]), sess' = s, logs' = logs
       PROVE  LogIInv'
  <2> DEFINE log == logs[s]
             G == Grouped(log)
  <2>1. log \in Seq(Entry) /\ LogWithin(log, Used')
        BY <1>1, ElementOfSeq
  <2>2. LogWithin(log, SysOnly) /\ LogWithin(log, HotOnly)
        BY <2>1, <1>6, WithinMore
  <2>3. logs'[sess'] = log
        BY <1>12
  <2> HIDE DEF log
  <2>4. AgentWithin(ag', Used') /\ SysFirst(ag')
    <3>1. ag' = Resumed(a, log)
          BY <1>12 DEF log
    <3> QED BY <3>1, <1>6, <1>10, <2>1, <2>2, ResumedWithin
  <2>5. Known'
        BY <2>4, <1>1, <1>12 DEF Known
  <2>6. Synced(ag') /\ \A c \in Ctx : ag'.saved[c] = IF c \in G THEN Len(Logged(log, c)) ELSE 0
    <3>1. ag' = Resumed(SetScope(NewAgent(n, focus), focus), log)
          BY <1>12 DEF log
    <3> QED BY <3>1, <1>4, <2>1, RelaunchedIs
  <2>7. ASSUME Headed(log)
        PROVE  /\ SpokenThere(ag', log) /\ Mirrors(ag', log)
               /\ (\A c \in Ctx : Distinct(Logged(log, c))) => Novel(ag', log)
               /\ AgentWithin(ag', Marked(ag'.injected)) /\ LogWithin(log, Marked(ag'.injected))
               /\ LogWithin(log, HotOnly) => MemoryThere(ag')
               /\ LogWithin(log, HotOnly) /\ LogHome(log) /\ focus = Main => MemoryHome(ag') /\ AgentHome(ag')
    <3>1. ag' = Resumed(SetScope(NewAgent(n, focus), focus), log)
          BY <1>12 DEF log
    <3> QED BY <3>1, <1>4, <2>1, <2>7, RelaunchedFits
  <2>8. SyncedInv'
        BY <1>2, <1>9, <2>6 DEF SyncedInv, TurnSynced
  <2>9. UnsavedInv' /\ TurnInjected'
    <3>1. LogsGrow /\ logs' \in Seq(Seq(Entry))
          BY <1>1, <1>12 DEF LogsGrow
    <3> QED BY <3>1, <1>2, IdleUnsaved
  <2>10. \A S : {"compact", "resume"} \subseteq S /\ Unless(S)' => Headed(log)
    <3>1. \A S : {"compact", "resume"} \subseteq S /\ Unless(S)' => Unless({"compact", "resume"})
          BY <1>1 DEF Unless
    <3> QED BY <3>1 DEF LogIInv, RememberedInv, log
  <2>11. OnceInv'
    <3>1. ASSUME Unless({"resume"})', BootIsLogged' PROVE Once(ag', log) /\ LogsDistinct'
      <4>1. Unless({"compact", "resume"})'
            BY <3>1, <1>5 DEF BootIsLogged, Unless
      <4>2. Headed(log)
            BY <4>1, <2>10
      <4>3. LogsDistinct
            BY <3>1, <1>1 DEF LogIInv, OnceInv
      <4>4. \A c \in Ctx : Distinct(Logged(log, c))
            BY <4>3 DEF LogsDistinct, log
      <4>5. LogsDistinct'
            BY <4>3, <1>12 DEF LogsDistinct
      <4> QED BY <4>2, <4>4, <4>5, <2>7 DEF Once
    <3> QED BY <3>1, <2>3 DEF OnceInv
  <2>12. RememberedInv'
    <3>1. ASSUME Unless({"compact", "resume"})'
          PROVE  Remembered(ag', log) /\ \A r \in DOMAIN logs : Headed(logs[r])
      <4>1. \A r \in DOMAIN logs : Headed(logs[r])
            BY <3>1, <1>1 DEF LogIInv, RememberedInv
      <4>2. SpokenThere(ag', log)
            BY <4>1, <2>7 DEF log
      <4>3. \A c \in Ctx : ag'.of[c] # <<>> /\ ag'.saved[c] > 0 => c \in Grouped(log)
            BY <2>6
      <4> QED BY <4>1, <4>2, <4>3 DEF Remembered
    <3> QED BY <3>1, <2>3, <1>12 DEF RememberedInv
  <2>13. AgreedInv'
    <3>1. ASSUME Unless({"note", "race", "compact", "resume"})' PROVE Agreed(ag', log)
      <4>1. Headed(log)
            BY <3>1, <2>10
      <4> QED BY <4>1, <2>2, <2>7 DEF Agreed
    <3> QED BY <3>1, <2>3 DEF AgreedInv
  <2>14. HomeInv'
    <3>1. ASSUME Plain' PROVE AtHome(ag', log) /\ \A r \in DOMAIN logs : LogHome(logs[r])
      <4>1. Headed(log)
            BY <3>1, <2>10 DEF Plain
      <4>2. \A r \in DOMAIN logs : LogHome(logs[r])
            BY <3>1, <1>1 DEF LogIInv, HomeInv, Plain
      <4>3. LogHome(log)
            BY <4>2 DEF log
      <4> QED BY <3>1, <4>1, <4>2, <4>3, <1>7, <2>2, <2>7 DEF AtHome
    <3> QED BY <3>1, <2>3, <1>12 DEF HomeInv
  <2> QED BY <1>1, <1>8, <2>5, <2>8, <2>9, <2>11, <2>12, <2>13, <2>14 DEF LogIInv
<1> QED BY <1>3, <1>11, <1>12

\* A start.
LEMMA LogInit == Init => LogIInv
<1> SUFFICES ASSUME Init PROVE LogIInv
    OBVIOUS
<1>1. PICK n \in Boots, f \in StartFocus :
        /\ ag = SetScope(NewAgent(n, f), f)
        /\ met = IF f = Main THEN {} ELSE {"elsewhere"}
      BY DEF Init
<1>2. /\ turn = NoTurn /\ phase = [t \in Turn |-> "none"] /\ logs = <<<<>>>> /\ sess = 1
      /\ notes = 0 /\ launches = 0 /\ answered = {} /\ finished = {} /\ noted = {} /\ turns = 0
      BY DEF Init
<1>3. n \in Nat /\ f \in Ctx
      BY ContextAssumption DEF Ctx
<1>4. DOMAIN logs = {1} /\ logs[1] = <<>> /\ <<>> \in Seq(Entry)
      BY <1>2
<1>5. /\ Sys \in Used /\ \A i \in Nat : Msg("boot", Main, i) \in Used
      /\ f \in HotCtx => Hot(f) \in Used
  <2>1. Sys \in Message /\ Sys.kind = "sys" /\ Main \in Ctx
        BY SysIs
  <2>2. \A i \in Nat : Msg("boot", Main, i) \in Message /\ Msg("boot", Main, i).kind = "boot"
        BY <2>1, MsgIs DEF Kind
  <2>3. Hot(f) \in Message /\ Hot(f).kind = "hot" /\ Hot(f).ctx = f
        BY <1>3, HotIs
  <2> QED BY <2>1, <2>2, <2>3 DEF Used
<1>6. /\ Live(ag) /\ Synced(ag) /\ SysFirst(ag)
      /\ \A d \in Ctx : d # ag.cur => ag.of[d] = <<>>
      /\ \A d \in Ctx : ag.saved[d] = 0
      /\ Distinct(ag.msgs) /\ AgentWithin(ag, Marked(ag.injected))
      /\ MemoryThere(ag)
      /\ f = Main => MemoryHome(ag) /\ AgentHome(ag)
      /\ AgentWithin(ag, Used)
      BY <1>1, <1>3, <1>5, LaunchKeeps
<1>7. /\ Once(ag, <<>>) /\ Remembered(ag, <<>>)
      /\ Headed(<<>>) /\ \A d \in Ctx : Distinct(Logged(<<>>, d))
      /\ MemoryThere(ag) => Agreed(ag, <<>>)
      /\ MemoryHome(ag) /\ AgentHome(ag) => AtHome(ag, <<>>)
      /\ \A U : LogWithin(<<>>, U)
      BY <1>4, <1>6, FreshKeeps
<1>8. Known
      BY <1>4, <1>6, <1>7 DEF Known
<1>9. PhasesFit /\ TurnInjected /\ SyncedInv
  <2>1. Unless({"bare", "resume"})
        BY <1>1 DEF Unless
  <2>2. PhasesFit
        BY <1>2, <2>1 DEF PhasesFit
  <2>3. TurnInjected
        BY <1>2 DEF TurnInjected
  <2>4. SyncedInv
        BY <1>2, <1>6 DEF SyncedInv, TurnSynced
  <2> QED BY <2>2, <2>3, <2>4
<1>10. UnsavedInv /\ NotesInv
       BY <1>2 DEF UnsavedInv, TurnUnsaved, FinishedIsLogged, NotesInv, NotesThere
<1>11. OnceInv /\ RememberedInv /\ AgreedInv
       BY <1>2, <1>4, <1>6, <1>7 DEF OnceInv, LogsDistinct, RememberedInv, AgreedInv
<1>12. HomeInv
  <2>1. Plain => f = Main
        BY <1>1 DEF Plain, Unless
  <2> QED BY <2>1, <1>2, <1>4, <1>6, <1>7 DEF HomeInv, AtHome
<1> QED BY <1>8, <1>9, <1>10, <1>11, <1>12 DEF LogIInv

\* Every step keeps it.
LEMMA LogStep == ContextIInv /\ LogIInv /\ [Next]_vars => LogIInv'
<1> SUFFICES ASSUME ContextIInv, LogIInv, [Next]_vars PROVE LogIInv'
    OBVIOUS
<1>1. ASSUME Next, NEW t \in Turn, Goroutine(t) \/ RacingNote(t) PROVE LogIInv'
      BY <1>1, BeginLogs, ReplyLogs, RacingLogs, QuietLogs DEF Goroutine
<1>2. ASSUME Next, NEW c \in Ctx, Focus(c) \/ Note(c) PROVE LogIInv'
      BY <1>2, FocusLogs, NoteLogs
<1>3. ASSUME Next, NEW s \in DOMAIN logs, Resume(s) PROVE LogIInv'
      BY <1>3, ResumeLogs
<1>4. ASSUME Next, Send \/ Done \/ Cancel \/ Compact \/ Restart \/ Fork \/ Relaunch PROVE LogIInv'
      BY <1>4, SendLogs, DoneLogs, CancelLogs, CompactLogs, RestartLogs, ForkLogs, RelaunchLogs
<1>5. ASSUME UNCHANGED vars PROVE LogIInv'
      BY <1>5, StutterLogs
<1> QED BY <1>1, <1>2, <1>3, <1>4, <1>5 DEF Next

-----------------------------------------------------------------------------
(* What follows *)

\* The property's name for a context's history.
LEMMA HistoryIs == \A c : History(c) = Hist(ag, c)
BY DEF History, Hist

\* Two entries of one context are two messages.
LEMMA EntriesDiffer ==
    ASSUME NEW log \in Seq(Entry), \A c \in Ctx : Distinct(Logged(log, c)),
           NEW i \in DOMAIN log, NEW j \in DOMAIN log, i < j, log[i].label = log[j].label
    PROVE  log[i].msg # log[j].msg
<1> DEFINE c == log[i].label
           P == Places(log, c)
           g == Logged(log, c)
<1>1. DOMAIN log = 1 .. Len(log) /\ Len(log) \in Nat
      OBVIOUS
<1>2. log[i] \in Entry
      BY <1>1, ElementOfSeq
<1>3. c \in Ctx
      BY <1>2 DEF Entry
<1>4. Distinct(g)
      BY <1>3
<1>5. i \in P /\ Rank(P, i) \in 1 .. Len(g) /\ g[Rank(P, i)] = log[i].msg
      BY <1>1, LoggedHas
<1>6. j \in P /\ Rank(P, j) \in 1 .. Len(g) /\ g[Rank(P, j)] = log[j].msg
      BY <1>1, LoggedHas
<1>7. P \subseteq 1 .. Len(log)
      BY LoggedIs
<1> HIDE DEF P, g, c
<1>8. Rank(P, i) < Rank(P, j)
      BY <1>1, <1>5, <1>6, <1>7, RankGrows
<1> QED BY <1>4, <1>5, <1>6, <1>8 DEF Distinct

\* What the logs are held to follows from the invariant,
LEMMA LogFollows == ContextIInv /\ LogIInv => LogIsTrue
<1> SUFFICES ASSUME ContextIInv, LogIInv PROVE LogIsTrue
    OBVIOUS
<1>1. TypeOK /\ Live(ag) /\ logs \in Seq(Seq(Entry)) /\ sess \in DOMAIN logs
      BY DEF ContextIInv, TypeOK
<1>2. logs[sess] \in Seq(Entry)
      BY <1>1, ElementOfSeq
<1>3. LogOnce
  <2>1. ASSUME Unless({"resume"}), BootIsLogged, NEW s \in DOMAIN logs,
               NEW i \in DOMAIN logs[s], NEW j \in DOMAIN logs[s],
               i < j, logs[s][i].label = logs[s][j].label
        PROVE  logs[s][i].msg # logs[s][j].msg
    <3>1. logs[s] \in Seq(Entry)
          BY <1>1, ElementOfSeq
    <3>2. \A c \in Ctx : Distinct(Logged(logs[s], c))
          BY <2>1 DEF LogIInv, OnceInv, LogsDistinct
    <3> QED BY <2>1, <3>1, <3>2, EntriesDiffer
  <2> QED BY <2>1 DEF LogOnce
<1>4. FinishedIsLogged
      BY DEF LogIInv, UnsavedInv, FinishedIsLogged
<1>5. NotePersists
      BY HistoryIs DEF LogIInv, NotesInv, NotesThere, NotePersists
<1>6. LogMirrors
  <2>1. ASSUME Unless({"note", "race", "compact", "resume"}), NEW c \in Ctx, ag.of[c] # <<>>
        PROVE  /\ ag.saved[c] <= Len(Hist(ag, c))
               /\ Logged(logs[sess], c) = SubSeq(Hist(ag, c), 1, ag.saved[c])
    <3> DEFINE h == Hist(ag, c)
               g == Logged(logs[sess], c)
               k == ag.saved[c]
    <3>1. Mirrors(ag, logs[sess])
          BY <2>1 DEF LogIInv, AgreedInv, Agreed
    <3>2. k <= Len(h) /\ Len(g) = k /\ \A i \in 1 .. Len(g) : g[i] = h[i]
          BY <2>1, <3>1 DEF Mirrors
    <3>3. h \in Seq(Message) /\ Len(h) \in Nat /\ k \in Nat
          BY <1>1, HistIs, PartsAre
    <3>4. g \in Seq(Message)
          BY <1>2, LoggedIs
    <3> HIDE DEF h, g, k
    <3>5. SubSeq(h, 1, k) \in Seq(Message) /\ Len(SubSeq(h, 1, k)) = k
          BY <3>2, <3>3, SubSeqProperties
    <3>6. \A i \in 1 .. k : SubSeq(h, 1, k)[i] = h[i]
          BY <3>2, <3>3, SubSeqProperties
    <3>7. g = SubSeq(h, 1, k)
          BY <3>2, <3>4, <3>5, <3>6, SeqEqual
    <3> QED BY <3>2, <3>7 DEF h, g, k
  <2> QED BY <2>1, HistoryIs DEF LogMirrors, Exists
<1>7. ResumedWhereSaid
  <2>1. ASSUME Unless({"compact", "resume"}), NEW e \in Items(logs[sess]), e.msg.kind \in Spoken
        PROVE  e.msg \in Items(Hist(ag, e.label))
    <3>1. SpokenThere(ag, logs[sess])
          BY <2>1 DEF LogIInv, RememberedInv, Remembered
    <3>2. PICK i \in 1 .. Len(logs[sess]) : e = logs[sess][i]
          BY <1>2, <2>1 DEF Items
    <3> QED BY <2>1, <3>1, <3>2 DEF SpokenThere
  <2> QED BY <2>1, HistoryIs DEF ResumedWhereSaid
<1> QED BY <1>3, <1>4, <1>5, <1>6, <1>7 DEF LogIsTrue

\* and so does what memory is held to.
LEMMA MemoryFollows == ContextIInv /\ LogIInv => MemoryInPlace
<1> SUFFICES ASSUME ContextIInv, LogIInv PROVE MemoryInPlace
    OBVIOUS
<1>1. TypeOK /\ Live(ag) /\ TurnOwnsContext
      BY DEF ContextIInv
<1>2. HotOnce
  <2>1. ASSUME Unless({"resume"}), BootIsLogged, NEW c \in Ctx,
               NEW i \in DOMAIN Hist(ag, c), NEW j \in DOMAIN Hist(ag, c), i < j
        PROVE  Hist(ag, c)[i] # Hist(ag, c)[j]
    <3>1. Novel(ag, logs[sess])
          BY <2>1 DEF LogIInv, OnceInv, Once
    <3>2. Hist(ag, c) \in Seq(Message) /\ DOMAIN Hist(ag, c) = 1 .. Len(Hist(ag, c))
          BY <1>1, HistIs
    <3>3. ag.of[c] # <<>>
          BY <1>1, <2>1, PartsAre DEF Hist
    <3>4. Distinct(Hist(ag, c))
          BY <3>1, <3>3 DEF Novel
    <3> QED BY <2>1, <3>2, <3>4 DEF Distinct
  <2> QED BY <2>1, HistoryIs DEF HotOnce
<1>3. TurnSeesMemory
  <2>1. ASSUME Unless({"elsewhere", "bare", "note", "race", "compact", "resume"}),
               turn # NoTurn, turnCtx \in HotCtx
        PROVE  Hot(turnCtx) \in Items(ag.msgs)
    <3>1. MemoryHome(ag)
          BY <2>1 DEF LogIInv, HomeInv, Plain, AtHome
    <3>2. turnCtx \in ag.injected
          BY <2>1 DEF LogIInv, TurnInjected
    <3>3. turnCtx = ag.cur
          BY <2>1, <1>1 DEF TurnOwnsContext
    <3>4. Hot(turnCtx) \in Items(Hist(ag, turnCtx))
          BY <2>1, <3>1, <3>2 DEF MemoryHome
    <3> QED BY <3>3, <3>4 DEF Hist
  <2> QED BY <2>1 DEF TurnSeesMemory
<1>4. InjectedIsThere
      BY HistoryIs DEF LogIInv, AgreedInv, Agreed, MemoryThere, InjectedIsThere
<1> QED BY <1>2, <1>3, <1>4 DEF MemoryInPlace

\* What is said, by a turn or as a note, is in a log, once, under its context; the log and the
\* histories say the same, before and after a resume (agentDoneMsg, ResumeSession).
THEOREM LogsAreTrue == Spec => []LogIsTrue
<1>1. Init => ContextIInv /\ LogIInv
      BY ContextInit, LogInit
<1>2. ContextIInv /\ LogIInv /\ [Next]_vars => (ContextIInv /\ LogIInv)'
      BY ContextStep, LogStep
<1>3. ContextIInv /\ LogIInv => LogIsTrue
      BY LogFollows
<1> QED BY <1>1, <1>2, <1>3, PTL DEF Spec

\* A context's memory is in its history, once, whenever a turn runs there (SetScope and
\* RestoreMessages).
THEOREM MemoryStaysInPlace == Spec => []MemoryInPlace
<1>1. Init => ContextIInv /\ LogIInv
      BY ContextInit, LogInit
<1>2. ContextIInv /\ LogIInv /\ [Next]_vars => (ContextIInv /\ LogIInv)'
      BY ContextStep, LogStep
<1>3. ContextIInv /\ LogIInv => MemoryInPlace
      BY MemoryFollows
<1> QED BY <1>1, <1>2, <1>3, PTL DEF Spec
=============================================================================

------------------------------- MODULE UiProofs -------------------------------
(***************************************************************************)
(* What holds of parts of the chat window for every bound: the panel of    *)
(* tool calls (ToolPanel), the mp3 player (Mp3), the ladders of Esc,       *)
(* Ctrl+C and the queued prompts (KeyLadder), the open conversations with  *)
(* their members and their two files (Focus), and the streamed answer on   *)
(* the screen and in the daily log (StreamView).                           *)
(***************************************************************************)
EXTENDS ToolPanel, Mp3, KeyLadder, Focus, StreamView, FiniteSetTheorems, SequenceTheorems, TLAPS

\* A set of numbers with a bound has a greatest: the member with the fewest above it.
LEMMA GreatestOf ==
    ASSUME NEW n \in Nat, NEW S \in SUBSET (1 .. n), S # {}
    PROVE  \E m \in S : \A k \in S : k <= m
<1> DEFINE Above(k) == {h \in S : h >= k}
           All == FiniteSubsetsOf(1 .. n)
           Aboves == {T \in All : \E k \in S : T = Above(k)}
           R == StrictSubsetOrdering(1 .. n)
<1>1. All = SUBSET (1 .. n)
  <2>1. IsFiniteSet(1 .. n)
        BY FS_Interval, 1 \in Int, n \in Int
  <2> QED BY <2>1, FS_FiniteSubsetsOfFinite
<1>2. \A k \in S : Above(k) \in Aboves
      BY <1>1
<1>3. IsWellFoundedOn(R, All) /\ Aboves \subseteq All /\ Aboves # {}
      BY <1>2, FS_StrictSubsetOrderingWellFounded
<1>4. PICK U \in Aboves : \A V \in Aboves : ~(<<V, U>> \in R)
  <2> HIDE DEF All, R, Aboves
  <2> QED BY <1>3, WFMin
<1>5. PICK m \in S : U = Above(m)
      BY <1>4
<1>6. ASSUME NEW k \in S, ~(k <= m) PROVE FALSE
  <2>1. Above(k) \subseteq Above(m) /\ m \in Above(m) /\ m \notin Above(k)
    <3>1. \A h \in S : h \in Int
          OBVIOUS
    <3>2. k > m
          BY <1>6, <3>1
    <3>3. \A h \in S : h >= k => h >= m
          BY <3>1, <3>2
    <3>4. ~(m >= k) /\ m >= m
          BY <3>1, <3>2
    <3> QED BY <3>3, <3>4
  <2>2. Above(k) \in SUBSET (1 .. n) /\ Above(m) \in SUBSET (1 .. n)
        OBVIOUS
  <2>3. <<Above(k), Above(m)>> \in R
        BY <2>1, <2>2 DEF StrictSubsetOrdering
  <2> HIDE DEF R, Aboves, Above
  <2> QED BY <1>2, <1>4, <1>5, <2>3
<1> QED BY <1>6

-----------------------------------------------------------------------------
(* The panel of tool calls (ToolPanel) *)

Row == [name : PanelTools, status : {"running", "done", "error"}, result : 0 .. MaxRows]

PanelRows ==
    /\ rows \in Seq(Row)
    /\ turnOf \in Seq(Nat) /\ Len(turnOf) = Len(rows) /\ Len(rows) <= MaxRows
    /\ stats \in [PanelTools -> Nat] /\ task \in Nat /\ busy \in BOOLEAN
    /\ answered \subseteq Calls /\ crossed \subseteq Calls

\* Calls are numbered as the turns went by.
TurnsInOrder ==
    /\ \A c \in Calls : turnOf[c] <= task
    /\ \A c, d \in Calls : c < d => turnOf[c] <= turnOf[d]

\* A row runs until a result that has arrived is put into it.
ResultsInRows ==
    /\ \A c \in Calls : rows[c].status = "running" <=> rows[c].result = NoResult
    /\ \A c \in Calls : rows[c].result # NoResult => rows[c].result \in answered

\* A call whose result went into another row was crossed.
StrayIsCrossed == Running \cap answered \subseteq crossed

\* The rows of a name, and the calls of it, that the turn has still to finish after call c.
RunningAfter(n, c) == {d \in Running : d > c /\ Named(d, n) /\ turnOf[d] = task}
PendingAfter(n, c) == {d \in Calls : d > c /\ Named(d, n) /\ Pending(d)}

\* There are as many of the former as of the latter, of the whole turn, and after each call
\* that was started and neither finished nor crossed.
Balanced ==
    \A n \in PanelTools, c \in Calls \cup {0} :
        c = 0 \/ (c \in Running \ crossed /\ Named(c, n) /\ Pending(c)) =>
            Cardinality(RunningAfter(n, c)) = Cardinality(PendingAfter(n, c))

PanelIInv ==
    /\ PanelRows /\ TurnsInOrder /\ ResultsInRows /\ StrayIsCrossed /\ Balanced
    /\ OwnResult /\ RowsAddUp

\* What the types say of one row.
LEMMA RowFacts ==
    ASSUME PanelRows
    PROVE  /\ Len(rows) \in Nat /\ Len(rows) \in Int /\ Calls = 1 .. Len(rows)
           /\ DOMAIN turnOf = Calls
           /\ \A c \in Calls :
                 /\ c \in Nat /\ c \in Int /\ turnOf[c] \in Nat /\ rows[c] \in Row
                 /\ rows[c].name \in PanelTools /\ rows[c].result \in Nat
<1> USE DEF PanelRows, Calls
<1>1. Len(rows) \in Nat /\ Len(rows) \in Int /\ Calls = 1 .. Len(rows) /\ DOMAIN turnOf = Calls
      OBVIOUS
<1>2. \A c \in Calls : rows[c] \in Row /\ turnOf[c] \in Nat
      BY <1>1
<1>3. \A row \in Row : row.name \in PanelTools /\ row.result \in Nat
      BY DEF Row
<1> QED BY <1>1, <1>2, <1>3

LEMMA PanelInitInv == PanelInit => PanelIInv
<1> SUFFICES ASSUME PanelInit PROVE PanelIInv
    OBVIOUS
<1> USE PanelAssumption DEF PanelInit, Calls, Running
<1>1. Calls = {} /\ Running = {}
      OBVIOUS
<1>2. PanelRows
  <2>1. rows \in Seq(Row) /\ turnOf \in Seq(Nat) /\ Len(rows) = 0 /\ Len(turnOf) = 0
        OBVIOUS
  <2>2. 0 <= MaxRows
        OBVIOUS
  <2>3. stats \in [PanelTools -> Nat] /\ task \in Nat /\ busy \in BOOLEAN
        OBVIOUS
  <2>4. answered \subseteq Calls /\ crossed \subseteq Calls
        OBVIOUS
  <2> QED BY <2>1, <2>2, <2>3, <2>4 DEF PanelRows
<1>5. TurnsInOrder /\ ResultsInRows /\ StrayIsCrossed /\ OwnResult
      BY <1>1 DEF TurnsInOrder, ResultsInRows, StrayIsCrossed, OwnResult
<1>3. Balanced
  <2>1. \A n, c : RunningAfter(n, c) = {} /\ PendingAfter(n, c) = {}
        BY <1>1 DEF RunningAfter, PendingAfter
  <2> QED BY <2>1 DEF Balanced
<1>4. RowsAddUp
  <2>1. Cardinality({}) = 0
        BY FS_EmptySet
  <2>2. \A n : {c \in Calls : Named(c, n)} = {}
        BY <1>1
  <2> QED BY <1>1, <2>1, <2>2 DEF RowsAddUp
<1> QED BY <1>2, <1>3, <1>4, <1>5 DEF PanelIInv

\* The calls are finitely many, and so is every part of them.
LEMMA CallsFinite ==
    ASSUME PanelRows, NEW S \in SUBSET Calls
    PROVE  IsFiniteSet(S)
<1>1. Calls = 1 .. Len(rows) /\ Len(rows) \in Nat
      BY DEF PanelRows, Calls
<1>2. IsFiniteSet(Calls)
      BY <1>1, FS_Interval, 1 \in Int, Len(rows) \in Int
<1> QED BY <1>2, FS_Subset

\* A call that is pending has a running row to go to: the last of its name, of its turn.
LEMMA RowToFinish ==
    ASSUME PanelIInv, NEW call \in Calls, Pending(call)
    PROVE  \E r \in Running :
              /\ Finished(rows[call].name) = {r}
              /\ Named(r, rows[call].name) /\ turnOf[r] = task
              /\ \A d \in Running : Named(d, rows[call].name) => d <= r
<1> DEFINE n == rows[call].name
<1> USE DEF PanelIInv
<1>0. Calls = 1 .. Len(rows) /\ Len(rows) \in Nat /\ n \in PanelTools
      BY RowFacts
<1>1. RunningAfter(n, 0) # {}
  <2>1. call \in PendingAfter(n, 0)
        BY <1>0 DEF PendingAfter, Named
  <2>2. Cardinality(RunningAfter(n, 0)) = Cardinality(PendingAfter(n, 0))
        BY <1>0 DEF Balanced
  <2>3. IsFiniteSet(PendingAfter(n, 0)) /\ IsFiniteSet(RunningAfter(n, 0))
        BY CallsFinite DEF PendingAfter, RunningAfter, Running
  <2> QED BY <2>1, <2>2, <2>3, FS_EmptySet
<1> DEFINE Of == {c \in Running : Named(c, n)}
<1>2. PICK r \in Of : \A d \in Of : d <= r
  <2>1. Of \subseteq 1 .. Len(rows) /\ Of # {}
        BY <1>0, <1>1 DEF RunningAfter, Running
  <2> QED BY <1>0, <2>1, GreatestOf
<1>3. Finished(n) = {r}
  <2>1. Finished(n) = {c \in Of : \A d \in Of : d <= c}
        BY DEF Finished
  <2>2. \A c \in Of : c \in Int
        BY <1>0 DEF Running
  <2>3. \A c \in Of : c <= r /\ r <= c => c = r
        BY <2>2
  <2>4. \A c \in Of : (\A d \in Of : d <= c) <=> c = r
        BY <1>2, <2>3
  <2> HIDE DEF Of
  <2> QED BY <1>2, <2>1, <2>4
<1>4. turnOf[r] = task
  <2>1. PICK d \in RunningAfter(n, 0) : TRUE
        BY <1>1
  <2>2. d \in Of /\ turnOf[d] = task /\ d \in Calls /\ r \in Calls /\ d <= r
        BY <1>2, <2>1 DEF RunningAfter, Running
  <2>3. d = r \/ turnOf[d] <= turnOf[r]
        BY <1>0, <2>2 DEF TurnsInOrder
  <2>4. turnOf[r] <= task /\ turnOf[r] \in Nat /\ task \in Nat
        BY <2>2 DEF TurnsInOrder, PanelRows, Calls
  <2> QED BY <2>2, <2>3, <2>4
<1> QED BY <1>2, <1>3, <1>4

\* A turn that begins has no calls; one that ends leaves the panel as it is.
LEMMA TaskStep ==
    ASSUME PanelIInv, StartTask \/ EndTask
    PROVE  PanelIInv'
<1> USE DEF PanelIInv
<1>1. UNCHANGED <<rows, stats, turnOf, answered, crossed>> /\ task' \in {task, task + 1} /\ busy' \in BOOLEAN
      BY DEF StartTask, EndTask
<1>2. Calls' = Calls /\ Running' = Running /\ \A c, n : Named(c, n)' = Named(c, n)
      BY <1>1 DEF Calls, Running, Named
<1>3. PanelRows'
      BY <1>1, <1>2 DEF PanelRows
<1>4. TurnsInOrder'
      BY <1>1, <1>2, RowFacts DEF TurnsInOrder, PanelRows
<1>5. ResultsInRows' /\ StrayIsCrossed' /\ OwnResult'
      BY <1>1, <1>2 DEF ResultsInRows, StrayIsCrossed, OwnResult
<1>6. RowsAddUp'
      BY <1>1, <1>2 DEF RowsAddUp
<1>7. Balanced'
  <2>1. CASE task' = task
    <3>1. \A c : Pending(c)' = Pending(c)
          BY <1>1, <2>1 DEF Pending
    <3>2. \A n, c : RunningAfter(n, c)' = RunningAfter(n, c) /\ PendingAfter(n, c)' = PendingAfter(n, c)
          BY <1>1, <1>2, <2>1, <3>1 DEF RunningAfter, PendingAfter
    <3> QED BY <1>1, <1>2, <3>1, <3>2 DEF Balanced
  <2>2. CASE task' = task + 1
    <3>1. \A d \in Calls : turnOf[d] # task'
          BY <2>2, RowFacts DEF TurnsInOrder, PanelRows
    <3>2. \A n, c : RunningAfter(n, c)' = {} /\ PendingAfter(n, c)' = {}
          BY <1>1, <1>2, <3>1 DEF RunningAfter, PendingAfter, Pending, Running
    <3> QED BY <3>2 DEF Balanced
  <2> QED BY <1>1, <2>1, <2>2
<1> QED BY <1>3, <1>4, <1>5, <1>6, <1>7

\* A call that starts has a running row, pends, and comes after all others.
LEMMA StartToolStep ==
    ASSUME PanelIInv, NEW name \in PanelTools, StartTool(name)
    PROVE  PanelIInv'
<1> DEFINE row == [name |-> name, status |-> "running", result |-> NoResult]
<1> USE DEF PanelIInv
<1>1. /\ rows' = Append(rows, row) /\ turnOf' = Append(turnOf, task)
      /\ UNCHANGED <<task, answered, crossed>>
      BY DEF StartTool
<1>0. PICK new \in Nat \ {0} : new = Len(rows) + 1
      BY RowFacts
<1>2. /\ Len(rows) \in Nat /\ Calls = 1 .. Len(rows) /\ new \notin Calls
      /\ \A c \in Calls : c \in Nat /\ c < new
      BY <1>0, RowFacts
<1>3. PanelRows'
  <2>1. row \in Row
        BY PanelAssumption DEF Row, NoResult
  <2>2. rows' \in Seq(Row) /\ Len(rows') = new /\ turnOf' \in Seq(Nat) /\ Len(turnOf') = new
        BY <1>0, <1>1, <2>1 DEF PanelRows
  <2>3. Calls \subseteq Calls'
        BY <1>2, <2>2 DEF Calls
  <2>4. stats' \in [PanelTools -> Nat] /\ busy' \in BOOLEAN /\ new <= MaxRows
        BY <1>0, <1>2, PanelAssumption DEF StartTool, PanelRows
  <2> QED BY <1>1, <2>2, <2>3, <2>4 DEF PanelRows
<1>4. /\ Calls' = Calls \cup {new}
      /\ rows'[new] = row /\ turnOf'[new] = task
      /\ \A c \in Calls : rows'[c] = rows[c] /\ turnOf'[c] = turnOf[c]
  <2>1. Len(rows') = new /\ Calls' = 1 .. new
        BY <1>0, <1>1, <1>2 DEF PanelRows, Calls
  <2> QED BY <1>0, <1>1, <1>2, <2>1 DEF PanelRows
<1>12. rows'[new].name = name /\ rows'[new].status = "running" /\ rows'[new].result = NoResult
      BY <1>4
<1> HIDE DEF row
<1>5. Running' = Running \cup {new} /\ new \notin Running
      BY <1>2, <1>4, <1>12 DEF Running
<1>6. TurnsInOrder'
  <2>1. task \in Nat /\ \A c \in Calls : turnOf[c] <= task
        BY DEF TurnsInOrder, PanelRows
  <2>2. \A c \in Calls' : turnOf'[c] <= task
        BY <1>4, <2>1
  <2>3. ASSUME NEW c \in Calls', NEW d \in Calls', c < d PROVE turnOf'[c] <= turnOf'[d]
    <3>1. c \in Calls
          BY <1>2, <1>4, <2>3
    <3>2. CASE d = new
          BY <1>4, <2>1, <3>1, <3>2
    <3>3. CASE d \in Calls
          BY <1>4, <2>3, <3>1, <3>3 DEF TurnsInOrder
    <3> QED BY <1>4, <3>2, <3>3
  <2> QED BY <1>1, <2>2, <2>3 DEF TurnsInOrder
<1>7. new \notin answered
      BY <1>2 DEF PanelRows
<1>8. ResultsInRows' /\ StrayIsCrossed' /\ OwnResult'
  <2>1. ResultsInRows'
        BY <1>1, <1>4, <1>12 DEF ResultsInRows
  <2>2. StrayIsCrossed'
        BY <1>1, <1>5, <1>7 DEF StrayIsCrossed
  <2>3. OwnResult'
        BY <1>1, <1>4, <1>12 DEF OwnResult
  <2> QED BY <2>1, <2>2, <2>3
<1>10. RowsAddUp'
  <2>1. /\ \A c, d \in Calls' : c # d /\ rows'[c].result # NoResult => rows'[c].result # rows'[d].result
        /\ {rows'[c].result : c \in Calls' \ Running'} = answered'
    <3>1. Calls' \ Running' = Calls \ Running
          BY <1>2, <1>4, <1>5
    <3>2. \A c, d \in Calls' : c # d /\ rows'[c].result # NoResult => rows'[c].result # rows'[d].result
          BY <1>4, <1>12 DEF RowsAddUp
    <3>3. {rows'[c].result : c \in Calls \ Running} = {rows[c].result : c \in Calls \ Running}
          BY <1>4
    <3> QED BY <1>1, <3>1, <3>2, <3>3 DEF RowsAddUp
  <2>2. \A c \in Calls' : rows'[c].result # NoResult => turnOf'[rows'[c].result] = turnOf'[c]
    <3>1. \A c \in Calls : rows[c].result # NoResult => rows[c].result \in Calls
          BY DEF ResultsInRows, PanelRows
    <3> QED BY <1>4, <1>12, <3>1 DEF RowsAddUp
  <2>3. \A n \in PanelTools : stats'[n] = Cardinality({c \in Calls' : rows'[c].name = n})
    <3> TAKE n \in PanelTools
    <3> DEFINE Old == {c \in Calls : Named(c, n)}
    <3>1. IsFiniteSet(Old) /\ new \notin Old
          BY <1>2, CallsFinite
    <3>2. stats[n] = Cardinality(Old) /\ stats[n] \in Nat
          BY DEF RowsAddUp, PanelRows
    <3>3. {c \in Calls' : rows'[c].name = n} = IF n = name THEN Old \cup {new} ELSE Old
          BY <1>4, <1>12 DEF Named
    <3>4. stats'[n] = IF n = name THEN stats[n] + 1 ELSE stats[n]
          BY DEF StartTool, PanelRows
    <3> HIDE DEF Old
    <3> QED BY <3>1, <3>2, <3>3, <3>4, FS_AddElement
  <2> QED BY <2>1, <2>2, <2>3 DEF RowsAddUp, Named
<1>11. Balanced'
  <2> SUFFICES ASSUME NEW n \in PanelTools, NEW c \in Calls' \cup {0},
                      c = 0 \/ (c \in Running' \ crossed' /\ Named(c, n)' /\ Pending(c)')
               PROVE  Cardinality(RunningAfter(n, c)') = Cardinality(PendingAfter(n, c)')
      BY DEF Balanced
  <2>1. \A d \in Calls : Pending(d)' <=> Pending(d)
        BY <1>1, <1>4 DEF Pending
  <2>2. \A d \in Calls : Named(d, n)' <=> Named(d, n)
        BY <1>4 DEF Named
  <2>3. Pending(new)' /\ (Named(new, n)' <=> n = name)
        BY <1>1, <1>4, <1>7, <1>12 DEF Pending, Named
  <2>4. CASE c = new
    <3>1. RunningAfter(n, c)' = {} /\ PendingAfter(n, c)' = {}
          BY <1>2, <1>4, <1>5, <2>4 DEF RunningAfter, PendingAfter, Running
    <3> QED BY <3>1
  <2>5. CASE c # new
    <3>1. c \in Calls \cup {0} /\ new > c
          BY <1>2, <1>4, <2>5
    <3>2. c = 0 \/ (c \in Running \ crossed /\ Named(c, n) /\ Pending(c))
          BY <1>1, <1>2, <1>5, <2>1, <2>2, <2>5, <3>1
    <3>3. Cardinality(RunningAfter(n, c)) = Cardinality(PendingAfter(n, c))
          BY <3>1, <3>2 DEF Balanced
    <3>4. IsFiniteSet(RunningAfter(n, c)) /\ IsFiniteSet(PendingAfter(n, c))
          BY CallsFinite DEF RunningAfter, PendingAfter, Running
    <3>5. new \notin RunningAfter(n, c) /\ new \notin PendingAfter(n, c)
          BY <1>2 DEF RunningAfter, PendingAfter, Running
    <3>6. RunningAfter(n, c)' = IF n = name THEN RunningAfter(n, c) \cup {new} ELSE RunningAfter(n, c)
      <4>1. \A d \in Running : d \in Calls
            BY DEF Running
      <4>2. \A d : d \in RunningAfter(n, c)' <=>
                      d \in RunningAfter(n, c) \/ (d = new /\ n = name)
            BY <1>1, <1>4, <1>5, <2>2, <2>3, <3>1, <4>1 DEF RunningAfter
      <4> QED BY <4>2
    <3>7. PendingAfter(n, c)' = IF n = name THEN PendingAfter(n, c) \cup {new} ELSE PendingAfter(n, c)
      <4>1. \A d : d \in PendingAfter(n, c)' <=>
                      d \in PendingAfter(n, c) \/ (d = new /\ n = name)
            BY <1>4, <2>1, <2>2, <2>3, <3>1 DEF PendingAfter
      <4> QED BY <4>1
    <3>8. Cardinality(RunningAfter(n, c)') = IF n = name THEN Cardinality(RunningAfter(n, c)) + 1
                                                        ELSE Cardinality(RunningAfter(n, c))
          BY <3>4, <3>5, <3>6, FS_AddElement
    <3>9. Cardinality(PendingAfter(n, c)') = IF n = name THEN Cardinality(PendingAfter(n, c)) + 1
                                                        ELSE Cardinality(PendingAfter(n, c))
          BY <3>4, <3>5, <3>7, FS_AddElement
    <3> QED BY <3>3, <3>8, <3>9
  <2> QED BY <2>4, <2>5
<1> QED BY <1>3, <1>6, <1>8, <1>10, <1>11

\* A result goes to the last running row of its name.  If that is not its own call's, both are
\* crossed: one was pending behind the other, or the balance between them would not hold.
LEMMA OtherIsCrossed ==
    ASSUME PanelIInv, NEW call \in Calls, Pending(call), NEW r \in Running,
           Named(r, rows[call].name), turnOf[r] = task, r # call,
           \A d \in Running : Named(d, rows[call].name) => d <= r
    PROVE  LET later == PendingAfter(rows[call].name, call)
               both == IF later = {} THEN crossed ELSE crossed \cup {call} \cup later
           IN  r \in both /\ (call \in Running => call \in both)
<1> DEFINE n == rows[call].name
           later == PendingAfter(n, call)
           both == IF later = {} THEN crossed ELSE crossed \cup {call} \cup later
<1> USE DEF PanelIInv
<1>0. r \in Calls /\ r \in Int /\ call \in Int /\ n \in PanelTools /\ \A c \in Calls : c \in Int /\ c > 0
      BY RowFacts DEF Running
<1>1. Named(call, n)
      BY DEF Named
<1>2. IsFiniteSet(RunningAfter(n, r)) /\ IsFiniteSet(RunningAfter(n, call))
      /\ IsFiniteSet(PendingAfter(n, r)) /\ IsFiniteSet(later)
      BY CallsFinite DEF PendingAfter, RunningAfter, Running
<1>3. CASE r > call /\ r \notin answered
  <2>1. r \in later
        BY <1>0, <1>3 DEF PendingAfter, Pending
  <2> QED BY <2>1
<1>4. CASE r > call /\ r \in answered
  <2>1. r \in crossed
        BY <1>4 DEF StrayIsCrossed
  <2>2. ASSUME call \in Running, call \notin crossed PROVE later # {}
    <3>1. Cardinality(RunningAfter(n, call)) = Cardinality(later)
          BY <1>0, <1>1, <2>2 DEF Balanced
    <3>2. r \in RunningAfter(n, call)
          BY <1>4 DEF RunningAfter
    <3> HIDE DEF later
    <3> QED BY <1>2, <3>1, <3>2, FS_EmptySet
  <2> QED BY <2>1, <2>2
<1>5. CASE r < call
  <2>1. call \notin Running
        BY <1>0, <1>1, <1>5
  <2>2. CASE r \in answered
        BY <2>1, <2>2 DEF StrayIsCrossed
  <2>3. CASE r \notin answered
    <3>1. RunningAfter(n, r) = {}
      <4>1. \A d \in Running : d \in Int
            BY <1>0 DEF Running
      <4>2. \A d \in Running : Named(d, n) => ~(d > r)
            BY <1>0, <4>1
      <4> HIDE DEF n
      <4> QED BY <4>2 DEF RunningAfter
    <3>2. call \in PendingAfter(n, r)
          BY <1>1, <1>5 DEF PendingAfter
    <3>3. r \in crossed
      <4> SUFFICES ASSUME r \notin crossed PROVE FALSE
          OBVIOUS
      <4>1. Cardinality(RunningAfter(n, r)) = Cardinality(PendingAfter(n, r))
            BY <1>0, <2>3 DEF Balanced, Pending
      <4> QED BY <1>2, <3>1, <3>2, <4>1, FS_EmptySet
    <3> QED BY <2>1, <3>3
  <2> QED BY <2>2, <2>3
<1> QED BY <1>0, <1>3, <1>4, <1>5

\* A result ends one running row and one pending call.
LEMMA FinishToolStep ==
    ASSUME PanelIInv, NEW call \in Calls, NEW status \in {"done", "error"}, FinishTool(call, status)
    PROVE  PanelIInv'
<1> USE DEF PanelIInv
<1>1. Pending(call)
      BY DEF FinishTool
<1>2. PICK n \in PanelTools : n = rows[call].name
      BY RowFacts
<1>3. PICK r \in Running :
          /\ Finished(n) = {r} /\ Named(r, n) /\ turnOf[r] = task
          /\ \A d \in Running : Named(d, n) => d <= r
      BY <1>1, <1>2, RowToFinish
<1>4. /\ Calls = 1 .. Len(rows) /\ Len(rows) \in Nat /\ r \in Calls
      /\ \A c \in Calls : c \in Int /\ c > 0 /\ rows[c] \in Row
      BY RowFacts DEF Running
<1>5. /\ rows' = [c \in Calls |-> IF c = r THEN [rows[c] EXCEPT !.status = status, !.result = call]
                                           ELSE rows[c]]
      /\ answered' = answered \cup {call} /\ call \notin answered
      /\ UNCHANGED <<stats, task, busy, turnOf>>
      BY <1>2, <1>3 DEF FinishTool, Pending
<1>6. /\ crossed \subseteq crossed'
      /\ PendingAfter(n, call) # {} => PendingAfter(n, call) \cup {call} \subseteq crossed'
      /\ crossed' \subseteq crossed \cup Calls
      /\ r # call => r \in crossed'
      /\ r # call /\ call \in Running => call \in crossed'
  <2>1. {d \in Calls : d > call /\ Named(d, n) /\ Pending(d)} = PendingAfter(n, call)
        BY DEF PendingAfter
  <2>2. crossed' = IF PendingAfter(n, call) = {} THEN crossed
                   ELSE crossed \cup {call} \cup PendingAfter(n, call)
        BY <1>2, <2>1 DEF FinishTool
  <2>3. PendingAfter(n, call) \subseteq Calls
        BY DEF PendingAfter
  <2> QED BY <1>1, <1>2, <1>3, <2>2, <2>3, OtherIsCrossed
<1>7. /\ rows' \in Seq(Row) /\ Len(rows') = Len(rows) /\ Calls' = Calls
      /\ rows'[r].name = rows[r].name /\ rows'[r].status = status /\ rows'[r].result = call
      /\ \A c \in Calls \ {r} : rows'[c] = rows[c]
  <2>1. call \in 0 .. MaxRows
        BY <1>4, PanelAssumption DEF PanelRows
  <2>2. \A row \in Row : [row EXCEPT !.status = status, !.result = call] \in Row
        BY <2>1 DEF Row
  <2>3. \A row \in Row : LET new == [row EXCEPT !.status = status, !.result = call]
                         IN  new.name = row.name /\ new.status = status /\ new.result = call
        BY DEF Row
  <2>4. \A c \in Calls : rows'[c] \in Row
        BY <1>4, <1>5, <2>2
  <2>7. rows' \in [1 .. Len(rows) -> Row] /\ DOMAIN rows' = 1 .. Len(rows)
        BY <1>4, <1>5, <2>4
  <2>5. rows' \in Seq(Row)
        BY <1>4, <2>7, SeqDef
  <2>6. Len(rows') = Len(rows)
    <3>1. Len(rows') \in Nat /\ DOMAIN rows' = 1 .. Len(rows')
          BY <2>5, LenProperties
    <3> QED BY <1>4, <2>7, <3>1
  <2> QED BY <1>4, <1>5, <2>3, <2>5, <2>6 DEF Calls
<1>8. Running' = Running \ {r}
      BY <1>7 DEF Running
<1>9. \A c \in Calls : \A m : Named(c, m)' = Named(c, m)
      BY <1>7 DEF Named
<1>10. \A c \in Calls : Pending(c)' <=> Pending(c) /\ c # call
      BY <1>5 DEF Pending
<1>11. PanelRows' /\ TurnsInOrder'
      BY <1>5, <1>6, <1>7 DEF PanelRows, TurnsInOrder
<1>12. ResultsInRows' /\ StrayIsCrossed' /\ OwnResult'
  <2>1. ResultsInRows'
    <3>0. status # "running" /\ call # 0
          BY <1>4
    <3>1. rows'[r].status # "running" /\ rows'[r].result # NoResult /\ rows'[r].result \in answered'
      <4>1. call \in answered'
            BY <1>5
      <4>2. rows'[r].status = status /\ rows'[r].result = call
            BY <1>7
      <4> QED BY <3>0, <4>1, <4>2 DEF NoResult
    <3>2. \A c \in Calls \ {r} :
             /\ rows'[c].status = "running" <=> rows'[c].result = NoResult
             /\ rows'[c].result # NoResult => rows'[c].result \in answered'
          BY <1>5, <1>7 DEF ResultsInRows
    <3> QED BY <1>7, <3>1, <3>2 DEF ResultsInRows
  <2>2. StrayIsCrossed'
        BY <1>5, <1>6, <1>8 DEF StrayIsCrossed
  <2>3. OwnResult'
        BY <1>6, <1>7 DEF OwnResult
  <2> QED BY <2>1, <2>2, <2>3
<1>13. RowsAddUp'
  <2>1. \A c, d \in Calls : c # d /\ rows'[c].result # NoResult => rows'[c].result # rows'[d].result
    <3>1. \A c \in Calls \ {r} : rows'[c].result # call
          BY <1>1, <1>4, <1>7 DEF ResultsInRows, Pending, NoResult
    <3>2. \A c, d \in Calls \ {r} : c # d /\ rows'[c].result # NoResult => rows'[c].result # rows'[d].result
          BY <1>7 DEF RowsAddUp
    <3> QED BY <1>7, <3>1, <3>2
  <2>2. {rows'[c].result : c \in Calls \ Running'} = answered'
    <3>1. {rows'[c].result : c \in Calls \ Running} = {rows[c].result : c \in Calls \ Running}
          BY <1>7
    <3>2. Calls \ Running' = (Calls \ Running) \cup {r}
          BY <1>4, <1>8
    <3>3. {rows'[c].result : c \in Calls \ Running'} = {rows'[c].result : c \in Calls \ Running} \cup {rows'[r].result}
          BY <3>2
    <3>4. {rows[c].result : c \in Calls \ Running} = answered
          BY DEF RowsAddUp
    <3> QED BY <1>5, <1>7, <3>1, <3>3, <3>4
  <2>3. \A c \in Calls : rows'[c].result # NoResult => turnOf'[rows'[c].result] = turnOf'[c]
        BY <1>1, <1>3, <1>5, <1>7 DEF RowsAddUp, Pending
  <2>4. \A m \in PanelTools : {c \in Calls' : Named(c, m)'} = {c \in Calls : Named(c, m)}
        BY <1>7, <1>9
  <2>5. \A m \in PanelTools : stats'[m] = Cardinality({c \in Calls' : Named(c, m)'})
        BY <1>5, <2>4 DEF RowsAddUp
  <2> QED BY <1>7, <2>1, <2>2, <2>3, <2>5 DEF RowsAddUp
<1>14. Balanced'
  <2> SUFFICES ASSUME NEW m \in PanelTools, NEW c \in Calls \cup {0},
                      c = 0 \/ (c \in Running' \ crossed' /\ Named(c, m)' /\ Pending(c)')
               PROVE  Cardinality(RunningAfter(m, c)') = Cardinality(PendingAfter(m, c)')
      BY <1>7 DEF Balanced
  <2>1. Cardinality(RunningAfter(m, c)) = Cardinality(PendingAfter(m, c))
        BY <1>6, <1>8, <1>9, <1>10 DEF Balanced
  <2>2. \A d : d \in RunningAfter(m, c)' <=> d \in RunningAfter(m, c) /\ d # r
    <3>1. Running \subseteq Calls
          BY DEF Running
    <3> QED BY <1>5, <1>8, <1>9, <3>1 DEF RunningAfter
  <2>3. \A d : d \in PendingAfter(m, c)' <=> d \in PendingAfter(m, c) /\ d # call
        BY <1>7, <1>9, <1>10 DEF PendingAfter
  <2>4. IsFiniteSet(RunningAfter(m, c)) /\ IsFiniteSet(PendingAfter(m, c))
        BY CallsFinite DEF RunningAfter, PendingAfter, Running
  <2>5. CASE m # n
    <3>1. r \notin RunningAfter(m, c) /\ call \notin PendingAfter(m, c)
          BY <1>2, <1>3, <2>5 DEF RunningAfter, PendingAfter, Named
    <3>2. RunningAfter(m, c)' = RunningAfter(m, c) /\ PendingAfter(m, c)' = PendingAfter(m, c)
          BY <2>2, <2>3, <3>1
    <3> QED BY <2>1, <3>2
  <2>6. CASE m = n
    <3>1. c < r /\ c < call
      <4>1. CASE c = 0
            BY <1>4, <4>1
      <4>2. CASE c # 0
        <5>1. c \in Running /\ c # r /\ c # call /\ Named(c, n) /\ Pending(c) /\ c \in Calls
              BY <1>8, <1>9, <1>10, <2>6, <4>2
        <5>2. c <= r
              BY <1>3, <5>1
        <5>3. ~(c > call)
              BY <1>6, <4>2, <5>1 DEF PendingAfter
        <5> QED BY <1>4, <5>1, <5>2, <5>3
      <4> QED BY <4>1, <4>2
    <3>2. r \in RunningAfter(m, c) /\ call \in PendingAfter(m, c)
          BY <1>1, <1>2, <1>3, <2>6, <3>1 DEF RunningAfter, PendingAfter, Named
    <3>3. RunningAfter(m, c)' = RunningAfter(m, c) \ {r} /\ PendingAfter(m, c)' = PendingAfter(m, c) \ {call}
          BY <2>2, <2>3
    <3>4. /\ Cardinality(RunningAfter(m, c)') = Cardinality(RunningAfter(m, c)) - 1
          /\ Cardinality(PendingAfter(m, c)') = Cardinality(PendingAfter(m, c)) - 1
          BY <2>4, <3>2, <3>3, FS_RemoveElement
    <3> QED BY <2>1, <3>4
  <2> QED BY <2>5, <2>6
<1> QED BY <1>11, <1>12, <1>13, <1>14

\* The panel's rows are the calls, each with what came of it, whatever the tools, the turns
\* and the order in which results arrive (ui/toolpanel.go, StartTool and FinishTool).
THEOREM PanelShowsTheCalls == PanelSpec => []PanelIsTrue
<1>1. PanelIInv /\ [PanelNext]_panelVars => PanelIInv'
  <2> SUFFICES ASSUME PanelIInv, [PanelNext]_panelVars PROVE PanelIInv'
      OBVIOUS
  <2>1. CASE UNCHANGED panelVars
    <3> USE <2>1 DEF panelVars, PanelIInv, Calls, Running, Named, Pending
    <3>1. PanelRows' /\ TurnsInOrder' /\ ResultsInRows'
          BY DEF PanelRows, TurnsInOrder, ResultsInRows
    <3>2. StrayIsCrossed' /\ OwnResult' /\ RowsAddUp'
          BY DEF StrayIsCrossed, OwnResult, RowsAddUp
    <3>3. Balanced'
          BY DEF Balanced, RunningAfter, PendingAfter
    <3> QED BY <3>1, <3>2, <3>3
  <2> QED BY <2>1, TaskStep, StartToolStep, FinishToolStep DEF PanelNext
<1>2. PanelIInv => PanelIsTrue
      BY RowFacts DEF PanelIInv, PanelIsTrue, PanelTypeOK, PanelRows, Row
<1> QED BY <1>1, <1>2, PanelInitInv, PTL DEF PanelSpec

-----------------------------------------------------------------------------
(* The MP3 player (Mp3) *)

\* The controller's fields fit together: it plays while it has a process, something of the list,
\* and the process is stopped exactly while it is paused; later processes are of later
\* generations, and none of one to come.
PlayerFits ==
    /\ playing <=> process # NoProcess
    /\ paused => playing
    /\ playing => ~Empty
    /\ process # NoProcess /\ Alive(process) => (paused <=> procs[process].state = "stopped")
    /\ \A p \in DOMAIN procs : procs[p].gen <= generation
    /\ \A p, q \in DOMAIN procs : p < q => procs[p].gen < procs[q].gen

Mp3IInv == PlayerInSight /\ PlayerFits

\* Every finite set of numbers, and so every library, can be listed in order.
LEMMA SortedExists ==
    ASSUME NEW n \in Nat, NEW files \in SUBSET (1 .. n)
    PROVE  \E list \in SetToSeqs(files) : \A i, j \in DOMAIN list : i < j => list[i] < list[j]
<1> DEFINE Listed(T) == \E list \in [1 .. Cardinality(T) -> T] :
                            \A i, j \in 1 .. Cardinality(T) : i < j => list[i] < list[j]
           All == FiniteSubsetsOf(1 .. n)
           Bad == {T \in All : ~Listed(T)}
           R == StrictSubsetOrdering(1 .. n)
<1>1. All = SUBSET (1 .. n) /\ IsFiniteSet(1 .. n)
  <2>1. IsFiniteSet(1 .. n)
        BY FS_Interval, 1 \in Int, n \in Int
  <2> QED BY <2>1, FS_FiniteSubsetsOfFinite
<1>2. ASSUME Bad # {} PROVE FALSE
  <2>1. IsWellFoundedOn(R, All) /\ Bad \subseteq All
        BY FS_StrictSubsetOrderingWellFounded
  <2>2. PICK T \in Bad : \A V \in Bad : ~(<<V, T>> \in R)
    <3> HIDE DEF All, R, Bad
    <3> QED BY <1>2, <2>1, WFMin
  <2>3. T \in SUBSET (1 .. n) /\ IsFiniteSet(T) /\ ~Listed(T)
        BY <1>1, FS_Subset
  <2>4. CASE T = {}
    <3>1. Cardinality(T) = 0
          BY <2>4, FS_EmptySet
    <3>2. 1 .. 0 = {}
          OBVIOUS
    <3>3. [x \in {} |-> x] \in [{} -> T]
          OBVIOUS
    <3>4. Listed(T)
          BY <3>1, <3>2, <3>3
    <3> QED BY <2>3, <3>4
  <2>5. CASE T # {}
    <3>1. PICK m \in T : \A k \in T : k <= m
          BY <2>3, <2>5, GreatestOf
    <3>2. PICK U \in SUBSET (1 .. n) : U = T \ {m}
          BY <2>3
    <3>3. <<U, T>> \in R
          BY <2>3, <3>1, <3>2 DEF StrictSubsetOrdering
    <3>4. Listed(U)
      <4> HIDE DEF Listed, R
      <4> QED BY <1>1, <2>2, <3>2, <3>3
    <3>5. PICK c \in Nat : c = Cardinality(U) /\ Cardinality(T) = c + 1
      <4>1. Cardinality(T) \in Nat /\ Cardinality(U) \in Nat /\ Cardinality(U) = Cardinality(T) - 1
            BY <2>3, <3>2, FS_RemoveElement, FS_CardinalityType
      <4> QED BY <4>1
    <3>6. PICK list \in [1 .. c -> U] : \A i, j \in 1 .. c : i < j => list[i] < list[j]
          BY <3>4, <3>5
    <3> DEFINE more == [i \in 1 .. c + 1 |-> IF i = c + 1 THEN m ELSE list[i]]
    <3>7. \A k \in U : k < m
      <4>1. \A k \in T : k \in Int
            BY <2>3
      <4> QED BY <3>1, <3>2, <4>1
    <3>8. more \in [1 .. c + 1 -> T]
          BY <3>2, <3>6
    <3>9. \A i, j \in 1 .. c + 1 : i < j => more[i] < more[j]
      <4> TAKE i \in 1 .. c + 1, j \in 1 .. c + 1
      <4> HAVE i < j
      <4>1. i \in 1 .. c /\ more[i] = list[i] /\ list[i] \in U
            BY <3>6
      <4>2. CASE j = c + 1
            BY <3>7, <4>1, <4>2
      <4>3. CASE j # c + 1
            BY <3>6, <4>1, <4>3
      <4> QED BY <4>2, <4>3
    <3> HIDE DEF more
    <3>10. Listed(T)
          BY <3>5, <3>8, <3>9
    <3> QED BY <2>3, <3>10
  <2> QED BY <2>4, <2>5
<1>3. Listed(files)
  <2>1. files \in All /\ files \notin Bad
        BY <1>1, <1>2
  <2> HIDE DEF Listed, All
  <2> QED BY <2>1
<1>4. PICK list \in [1 .. Cardinality(files) -> files] :
          \A i, j \in 1 .. Cardinality(files) : i < j => list[i] < list[j]
      BY <1>3
<1>5. Cardinality(files) \in Nat
      BY <1>1, FS_Subset, FS_CardinalityType
<1>6. \A i, j \in 1 .. Cardinality(files) : i # j => list[i] # list[j]
  <2> TAKE i \in 1 .. Cardinality(files), j \in 1 .. Cardinality(files)
  <2>1. i \in Int /\ j \in Int
        BY <1>5
  <2>2. list[i] \in 1 .. n /\ list[j] \in 1 .. n
        BY <1>4
  <2>3. i < j => list[i] < list[j]
        BY <1>4
  <2>4. j < i => list[j] < list[i]
        BY <1>4
  <2> QED BY <2>1, <2>2, <2>3, <2>4
<1> QED BY <1>4, <1>6 DEF SetToSeqs

\* A scan lists every file of the library, and each once.
LEMMA SortedFacts ==
    ASSUME NEW files \in SUBSET File
    PROVE  /\ Sorted(files) \in Seq(File) /\ IsInjective(Sorted(files))
           /\ Sorted(files) = <<>> <=> files = {}
           /\ Len(Sorted(files)) \in Nat /\ DOMAIN Sorted(files) = 1 .. Len(Sorted(files))
           /\ \A f \in files : \E i \in DOMAIN Sorted(files) : Sorted(files)[i] = f
<1> DEFINE list == Sorted(files)
           c == Cardinality(files)
<1>1. files \in SUBSET (1 .. MaxFile) /\ MaxFile \in Nat /\ IsFiniteSet(files)
  <2>1. MaxFile \in Nat /\ IsFiniteSet(1 .. MaxFile)
        BY Mp3Assumption, FS_Interval
  <2> QED BY <2>1, FS_Subset DEF File
<1>2. list \in SetToSeqs(files)
      BY <1>1, SortedExists DEF Sorted
<1>3. list \in [1 .. c -> files] /\ c \in Nat /\ \A i, j \in 1 .. c : i # j => list[i] # list[j]
      BY <1>1, <1>2, FS_CardinalityType DEF SetToSeqs
<1> HIDE DEF list, c
<1>4. list \in Seq(File) /\ Len(list) \in Nat /\ DOMAIN list = 1 .. Len(list) /\ Len(list) = c
  <2>1. list \in [1 .. c -> File]
        BY <1>1, <1>3 DEF File
  <2>2. list \in Seq(File)
        BY <1>3, <2>1, SeqDef
  <2>3. Len(list) \in Nat /\ DOMAIN list = 1 .. Len(list) /\ DOMAIN list = 1 .. c
        BY <2>1, <2>2, LenProperties
  <2> QED BY <1>3, <2>2, <2>3
<1>5. IsInjective(list)
      BY <1>3, <1>4 DEF IsInjective
<1>6. list = <<>> <=> files = {}
  <2>1. list = <<>> <=> Len(list) = 0
        BY <1>4
  <2>2. c = 0 <=> files = {}
        BY <1>1, FS_EmptySet DEF c
  <2> QED BY <1>4, <2>1, <2>2
<1>7. \A f \in files : \E i \in DOMAIN list : list[i] = f
  <2>1. list \in Injection(1 .. c, files)
        BY <1>3 DEF Injection, IsInjective
  <2>2. Cardinality(1 .. c) = c /\ IsFiniteSet(1 .. c)
        BY <1>3, FS_Interval
  <2>3. list \in Surjection(1 .. c, files)
        BY <1>1, <2>1, <2>2, FS_Injection DEF c
  <2> QED BY <1>3, <2>3 DEF Surjection
<1> QED BY <1>4, <1>5, <1>6, <1>7 DEF list

Process == [file : File, gen : Nat, state : ProcState]

\* What the types say of one process.
LEMMA ProcessFacts ==
    ASSUME Mp3TypeOK
    PROVE  /\ Len(procs) \in Nat /\ DOMAIN procs = 1 .. Len(procs)
           /\ \A p \in DOMAIN procs :
                 /\ p \in Nat /\ p > 0 /\ procs[p] \in Process
                 /\ procs[p].file \in File /\ procs[p].gen \in Nat /\ procs[p].state \in ProcState
<1>1. procs \in Seq(Process)
      BY DEF Mp3TypeOK, Process
<1>2. Len(procs) \in Nat /\ DOMAIN procs = 1 .. Len(procs)
      BY <1>1, LenProperties
<1>3. \A p \in DOMAIN procs : p \in Nat /\ p > 0 /\ procs[p] \in Process
      BY <1>1, <1>2
<1>4. \A x \in Process : x.file \in File /\ x.gen \in Nat /\ x.state \in ProcState
      BY DEF Process
<1> QED BY <1>2, <1>3, <1>4

\* Stopping the current process stops the last one that lives, and changes nothing else.
LEMMA KilledFacts ==
    ASSUME Mp3IInv
    PROVE  /\ Killed \in Seq(Process) /\ Len(Killed) = Len(procs) /\ DOMAIN Killed = DOMAIN procs
           /\ \A p \in DOMAIN procs :
                 /\ Killed[p].state \notin {"running", "stopped"}
                 /\ Killed[p].gen = procs[p].gen /\ Killed[p].file = procs[p].file
<1> USE DEF Mp3IInv, PlayerInSight
<1>1. \A x \in Process : LET y == [x EXCEPT !.state = "killed"]
                         IN  /\ y \in Process /\ y.state = "killed"
                             /\ y.gen = x.gen /\ y.file = x.file
      BY DEF Process, ProcState
<1>2. \A p \in DOMAIN procs :
         /\ Killed[p] \in Process
         /\ Killed[p].state \notin {"running", "stopped"}
         /\ Killed[p].gen = procs[p].gen /\ Killed[p].file = procs[p].file
      BY <1>1, ProcessFacts DEF Killed, OnePlayer, Alive
<1>3. DOMAIN Killed = 1 .. Len(procs) /\ Len(procs) \in Nat /\ Killed \in [1 .. Len(procs) -> Process]
      BY <1>2, ProcessFacts DEF Killed
<1>4. Killed \in Seq(Process)
      BY <1>3, SeqDef
<1>5. Len(Killed) = Len(procs)
  <2>1. Len(Killed) \in Nat /\ DOMAIN Killed = 1 .. Len(Killed)
        BY <1>4, LenProperties
  <2> QED BY <1>3, <2>1
<1> QED BY <1>2, <1>3, <1>4, <1>5, ProcessFacts

\* What holds of the list by its type.
ListOK ==
    /\ library \subseteq File /\ tracks \in Seq(File) /\ IsInjective(tracks)
    /\ current \in 1 .. (IF Empty THEN 1 ELSE Len(tracks))
    /\ visible \in BOOLEAN /\ missed \in BOOLEAN

\* stop leaves no process alive, and none that the controller waits to hear of.
LEMMA StopPlayerStep ==
    ASSUME Mp3IInv, NEW waits \in SUBSET waiting, StopPlayer(waits), ListOK'
    PROVE  Mp3IInv'
<1> USE DEF Mp3IInv, PlayerInSight
<1>1. /\ generation' = generation + 1 /\ generation \in Nat
      /\ procs' = Killed /\ process' = NoProcess /\ playing' = FALSE /\ paused' = FALSE
      /\ offset' = 0 /\ since' = 0 /\ played' = 0 /\ waiting' = waits
      BY DEF StopPlayer, Silence, Mp3TypeOK
<1>2. Mp3TypeOK'
  <2>1. procs' \in Seq(Process) /\ DOMAIN procs' = DOMAIN procs
        BY <1>1, KilledFacts
  <2>2. waiting' \subseteq DOMAIN procs' /\ process' \in DOMAIN procs' \cup {NoProcess}
        BY <1>1, <2>1 DEF Mp3TypeOK
  <2>5. 0 \in 0 .. MaxTicks
        BY Mp3Assumption
  <2>6. playing' \in BOOLEAN /\ paused' \in BOOLEAN
        BY <1>1
  <2>3. generation' \in Nat /\ offset' \in Nat /\ since' \in 0 .. MaxTicks /\ played' \in 0 .. MaxTicks
        BY <1>1, <2>5
  <2>4. procs' \in Seq([file : File, gen : Nat, state : ProcState])
        BY <2>1 DEF Process
  <2> QED BY <2>2, <2>3, <2>4, <2>6 DEF Mp3TypeOK, ListOK
<1>3. OnePlayer' /\ EndIsNoticed' /\ ShownIsPlaying' /\ ElapsedIsPlayed'
      BY <1>1, KilledFacts DEF OnePlayer, EndIsNoticed, ShownIsPlaying, ElapsedIsPlayed, Alive
<1>4. PlayerFits'
  <2>1. \A p \in DOMAIN procs : procs[p].gen <= generation /\ procs[p].gen \in Nat
        BY ProcessFacts DEF PlayerFits
  <2>2. \A p \in DOMAIN procs' : procs'[p].gen <= generation'
        BY <1>1, <2>1, KilledFacts
  <2>3. \A p, q \in DOMAIN procs' : p < q => procs'[p].gen < procs'[q].gen
        BY <1>1, KilledFacts DEF PlayerFits
  <2> QED BY <1>1, <2>2, <2>3 DEF PlayerFits
<1> QED BY <1>2, <1>3, <1>4

\* A start leaves one process alive, of a generation of its own.
LEMMA PlayIndexStep ==
    ASSUME Mp3IInv, NEW list \in Seq(File), IsInjective(list), list # <<>>,
           NEW i \in 1 .. Len(list), NEW stay \in 1 .. Len(list), NEW waits \in SUBSET waiting,
           PlayIndex(list, i, stay, waits), tracks' = list, library' \subseteq File, visible' \in BOOLEAN
    PROVE  Mp3IInv'
<1> USE DEF Mp3IInv, PlayerInSight
<1>0. Len(list) \in Nat /\ Len(list) > 0 /\ list[i] \in File
      BY EmptySeq
<1>1. CASE StopPlayer(waits) /\ current' = stay /\ UNCHANGED missed
  <2>1. ListOK'
        BY <1>0, <1>1 DEF ListOK, Mp3TypeOK, Empty
  <2> QED BY <1>1, <2>1, StopPlayerStep
<1>2. CASE /\ generation' = generation + 2
           /\ procs' = Started(list[i])
           /\ process' = Len(procs')
           /\ waiting' = waits \cup {process'}
           /\ playing' = TRUE /\ paused' = FALSE
           /\ offset' = 0 /\ since' = 0 /\ played' = 0 /\ missed' = FALSE
           /\ current' = i
  <2> DEFINE one == [file |-> list[i], gen |-> generation + 2, state |-> "running"]
  <2>1. generation \in Nat /\ generation' \in Nat
        BY <1>2 DEF Mp3TypeOK
  <2>2. one \in Process /\ one.gen = generation + 2 /\ one.state = "running" /\ one.file = list[i]
        BY <1>0, <2>1 DEF Process, ProcState
  <2>3. procs' = Append(Killed, one)
        BY <1>2 DEF Started
  <2> HIDE DEF one
  <2>4. PICK n \in Nat \ {0} : n = Len(procs) + 1
        BY ProcessFacts
  <2>5. /\ procs' \in Seq(Process) /\ Len(procs') = n /\ DOMAIN procs' = (DOMAIN procs) \cup {n}
        /\ procs'[n] = one /\ \A p \in DOMAIN procs : procs'[p] = Killed[p] /\ p < n
    <3>1. procs' \in Seq(Process) /\ Len(procs') = n
          BY <2>2, <2>3, <2>4, KilledFacts
    <3>2. DOMAIN procs = 1 .. Len(procs) /\ Len(procs) \in Nat
          BY ProcessFacts
    <3>3. DOMAIN procs' = 1 .. n
          BY <3>1, LenProperties
    <3>4. procs'[n] = one /\ \A p \in 1 .. Len(procs) : procs'[p] = Killed[p]
          BY <2>2, <2>3, <2>4, <3>2, KilledFacts
    <3> QED BY <2>4, <3>1, <3>2, <3>3, <3>4
  <2>6. Mp3TypeOK'
    <3>1. waiting' \subseteq DOMAIN procs' /\ process' \in DOMAIN procs'
          BY <1>2, <2>5 DEF Mp3TypeOK
    <3>2. procs' \in Seq([file : File, gen : Nat, state : ProcState])
          BY <2>5 DEF Process
    <3>3. offset' \in Nat /\ since' \in 0 .. MaxTicks /\ played' \in 0 .. MaxTicks
          BY <1>2, Mp3Assumption
    <3>4. current' \in 1 .. (IF Empty' THEN 1 ELSE Len(tracks'))
          BY <1>2 DEF Empty
    <3>5. playing' \in BOOLEAN /\ paused' \in BOOLEAN /\ missed' \in BOOLEAN
          BY <1>2
    <3> QED BY <2>1, <3>1, <3>2, <3>3, <3>4, <3>5 DEF Mp3TypeOK
  <2>7. process' = n /\ process' # NoProcess /\ process' \in waiting' /\ playing' = TRUE /\ paused' = FALSE
        BY <1>2, <2>4, <2>5 DEF NoProcess
  <2>8. OnePlayer' /\ EndIsNoticed'
        BY <1>2, <2>2, <2>5, <2>7, KilledFacts DEF OnePlayer, EndIsNoticed, Alive
  <2>9. ShownIsPlaying'
        BY <1>2, <2>2, <2>5, <2>7 DEF ShownIsPlaying
  <2>10. ElapsedIsPlayed'
        BY <1>2, <2>7 DEF ElapsedIsPlayed, Elapsed
  <2>11. PlayerFits'
    <3>1. \A p \in DOMAIN procs : procs'[p].gen = procs[p].gen /\ procs[p].gen <= generation /\ procs[p].gen \in Nat
          BY <2>5, KilledFacts, ProcessFacts DEF PlayerFits
    <3>2. \A p \in DOMAIN procs' : procs'[p].gen <= generation'
          BY <1>2, <2>1, <2>2, <2>5, <3>1
    <3>3. \A p, q \in DOMAIN procs' : p < q => procs'[p].gen < procs'[q].gen
          BY <2>1, <2>2, <2>4, <2>5, <3>1, ProcessFacts DEF PlayerFits
    <3>4. ~Empty'
          BY DEF Empty
    <3> QED BY <2>2, <2>5, <2>7, <3>2, <3>3, <3>4 DEF PlayerFits, Alive
  <2> QED BY <2>6, <2>8, <2>9, <2>10, <2>11
<1> QED BY <1>1, <1>2 DEF PlayIndex

\* The index of the current track survives a scan that finds it.
LEMMA ScanFacts ==
    ASSUME Mp3IInv, library' = library
    PROVE  LET list == Sorted(library)
           IN  /\ list \in Seq(File) /\ IsInjective(list) /\ (list = <<>> <=> library = {})
               /\ IndexIn(list) \in 1 .. (IF list = <<>> THEN 1 ELSE Len(list))
               /\ ~Empty /\ tracks[current] \in library => list[IndexIn(list)] = tracks[current]
<1> DEFINE list == Sorted(library)
<1> USE DEF Mp3IInv, PlayerInSight
<1>1. /\ list \in Seq(File) /\ IsInjective(list) /\ (list = <<>> <=> library = {})
      /\ Len(list) \in Nat /\ DOMAIN list = 1 .. Len(list)
      /\ \A f \in library : \E i \in DOMAIN list : list[i] = f
      BY SortedFacts DEF Mp3TypeOK
<1>2. list # <<>> => Len(list) > 0
      BY <1>1, EmptySeq
<1>3. CASE ~Empty /\ Contains(list, tracks[current])
  <2>1. \E i \in DOMAIN list : list[i] = tracks[current]
        BY <1>1, <1>3 DEF Contains
  <2>2. IndexIn(list) \in DOMAIN list /\ list[IndexIn(list)] = tracks[current]
        BY <1>3, <2>1 DEF IndexIn
  <2>3. list # <<>>
        BY <1>1, <2>1, EmptySeq
  <2> QED BY <1>1, <2>2, <2>3
<1>4. CASE ~(~Empty /\ Contains(list, tracks[current]))
  <2>1. IndexIn(list) = 1
        BY <1>4 DEF IndexIn
  <2>2. ~(~Empty /\ tracks[current] \in library)
        BY <1>1, <1>4 DEF Contains
  <2> QED BY <1>1, <1>2, <2>1, <2>2
<1> QED BY <1>3, <1>4

LEMMA Mp3InitInv == Mp3Init => Mp3IInv
<1> SUFFICES ASSUME Mp3Init PROVE Mp3IInv
    OBVIOUS
<1>1. Len(procs) = 0 /\ DOMAIN procs = {} /\ procs \in Seq(Process) /\ tracks \in Seq(File) /\ DOMAIN tracks = {}
      BY DEF Mp3Init
<1>2. Mp3TypeOK
  <2>1. 0 \in 0 .. MaxTicks
        BY Mp3Assumption
  <2>2. IsInjective(tracks)
        BY <1>1 DEF IsInjective
  <2>3. procs \in Seq([file : File, gen : Nat, state : ProcState])
        BY <1>1 DEF Process
  <2>4. current \in 1 .. (IF Empty THEN 1 ELSE Len(tracks))
        BY DEF Mp3Init, Empty
  <2>5. /\ process \in DOMAIN procs \cup {NoProcess} /\ waiting \subseteq DOMAIN procs
        /\ library \subseteq File /\ tracks \in Seq(File)
        BY <1>1 DEF Mp3Init
  <2>6. /\ visible \in BOOLEAN /\ playing \in BOOLEAN /\ paused \in BOOLEAN /\ missed \in BOOLEAN
        /\ offset \in Nat /\ since \in 0 .. MaxTicks /\ played \in 0 .. MaxTicks /\ generation \in Nat
        BY <2>1 DEF Mp3Init
  <2> QED BY <2>2, <2>3, <2>4, <2>5, <2>6 DEF Mp3TypeOK
<1>3. PlayerInSight
      BY <1>1, <1>2 DEF Mp3Init, PlayerInSight, OnePlayer, EndIsNoticed, ShownIsPlaying, ElapsedIsPlayed
<1>4. PlayerFits
      BY <1>1 DEF Mp3Init, PlayerFits
<1> QED BY <1>3, <1>4 DEF Mp3IInv

\* The world outside: the library changes, time passes, a process ends.
LEMMA OutsideStep ==
    ASSUME Mp3IInv, LibraryChanges \/ Mp3Tick \/ \E p \in DOMAIN procs : ProcessEnds(p)
    PROVE  Mp3IInv'
<1> USE DEF Mp3IInv, PlayerInSight
<1>1. CASE LibraryChanges
  <2>1. Mp3TypeOK'
        BY <1>1 DEF LibraryChanges, Mp3TypeOK, Empty, clockVars
  <2>2. OnePlayer' /\ EndIsNoticed' /\ ShownIsPlaying' /\ ElapsedIsPlayed'
        BY <1>1 DEF LibraryChanges, OnePlayer, EndIsNoticed, ShownIsPlaying, ElapsedIsPlayed, Elapsed,
                    Alive, clockVars
  <2>3. PlayerFits'
        BY <1>1 DEF LibraryChanges, PlayerFits, Empty, Alive
  <2> QED BY <2>1, <2>2, <2>3
<1>2. CASE Mp3Tick
  <2>1. process \in DOMAIN procs /\ process # NoProcess
        BY <1>2 DEF Mp3Tick, PlayerFits, Mp3TypeOK
  <2>2. since \in Nat /\ played \in Nat /\ offset \in Nat
        BY DEF Mp3TypeOK
  <2>3. Mp3TypeOK'
        BY <1>2, <2>2, Mp3Assumption DEF Mp3Tick, Mp3TypeOK, Empty, listVars
  <2>4. OnePlayer' /\ EndIsNoticed' /\ ShownIsPlaying'
        BY <1>2 DEF Mp3Tick, OnePlayer, EndIsNoticed, ShownIsPlaying, Alive, listVars
  <2>5. ElapsedIsPlayed'
        BY <1>2, <2>1, <2>2 DEF Mp3Tick, ElapsedIsPlayed, Elapsed, Alive, PlayerFits
  <2>6. PlayerFits'
        BY <1>2 DEF Mp3Tick, PlayerFits, Empty, Alive, listVars
  <2> QED BY <2>3, <2>4, <2>5, <2>6
<1>3. ASSUME NEW p \in DOMAIN procs, ProcessEnds(p) PROVE Mp3IInv'
  <2>1. PICK how \in {"ended", "failed"} : procs' = [procs EXCEPT ![p].state = how]
        BY <1>3 DEF ProcessEnds
  <2>2. \A x \in Process : LET y == [x EXCEPT !.state = how]
                           IN  y \in Process /\ y.state = how /\ y.gen = x.gen /\ y.file = x.file
        BY DEF Process, ProcState
  <2>3. /\ procs' \in Seq(Process) /\ DOMAIN procs' = DOMAIN procs
        /\ procs'[p].state = how
        /\ \A q \in DOMAIN procs : /\ procs'[q].gen = procs[q].gen /\ procs'[q].file = procs[q].file
                                   /\ q # p => procs'[q] = procs[q]
    <3>1. procs \in Seq(Process) /\ p \in 1 .. Len(procs) /\ DOMAIN procs = 1 .. Len(procs)
          BY ProcessFacts DEF Mp3TypeOK, Process
    <3>2. procs' = [procs EXCEPT ![p] = [procs[p] EXCEPT !.state = how]]
          BY <2>1
    <3>3. /\ procs' \in Seq(Process) /\ Len(procs') = Len(procs)
          /\ \A j \in 1 .. Len(procs) : procs'[j] = IF j = p THEN [procs[p] EXCEPT !.state = how] ELSE procs[j]
          BY <2>2, <3>1, <3>2, ProcessFacts, ExceptSeq
    <3> QED BY <2>2, <3>1, <3>3, LenProperties, ProcessFacts
  <2>4. how \notin {"running", "stopped"} /\ procs[p].state = "running"
        BY <1>3 DEF ProcessEnds
  <2>5. Mp3TypeOK'
        BY <1>3, <2>3 DEF ProcessEnds, Mp3TypeOK, Process, Empty, listVars, clockVars
  <2>6. OnePlayer' /\ EndIsNoticed' /\ ShownIsPlaying' /\ ElapsedIsPlayed'
        BY <1>3, <2>3, <2>4
        DEF ProcessEnds, OnePlayer, EndIsNoticed, ShownIsPlaying, ElapsedIsPlayed, Elapsed, Alive,
            Mp3TypeOK, listVars, clockVars
  <2>7. PlayerFits'
        BY <1>3, <2>3, <2>4 DEF ProcessEnds, PlayerFits, Empty, Alive, listVars, Mp3TypeOK
  <2> QED BY <2>5, <2>6, <2>7
<1> QED BY <1>1, <1>2, <1>3

LEMMA PlayStep ==
    ASSUME Mp3IInv, Play
    PROVE  Mp3IInv'
<1> USE DEF Mp3IInv, PlayerInSight
<1>1. PICK i \in {current, NextTrack(current), PreviousTrack(current)} : PlayIndex(tracks, i, current, waiting)
      BY DEF Play
<1>2. /\ tracks \in Seq(File) /\ IsInjective(tracks) /\ tracks # <<>> /\ Len(tracks) \in Nat
      /\ current \in 1 .. Len(tracks)
      BY DEF Play, Mp3TypeOK, Empty
<1>3. i \in 1 .. Len(tracks)
      BY <1>2 DEF NextTrack, PreviousTrack
<1>4. tracks' = tracks /\ library' \subseteq File /\ visible' \in BOOLEAN
      BY DEF Play, Mp3TypeOK
<1> QED BY <1>1, <1>2, <1>3, <1>4, PlayIndexStep

\* A scan that leaves the player alone: what is marked is what plays, or it was missed.
LEMMA ScanStep ==
    ASSUME Mp3IInv, Scan, ScanMisses, library # {}, visible' \in BOOLEAN,
           UNCHANGED <<playing, paused, clockVars, process, generation, procs, waiting>>
    PROVE  Mp3IInv'
<1> USE DEF Mp3IInv, PlayerInSight
<1>1. /\ tracks' = Sorted(library) /\ current' = IndexIn(Sorted(library)) /\ library' = library
      /\ playing' = playing /\ paused' = paused /\ offset' = offset /\ since' = since
      /\ played' = played /\ process' = process /\ generation' = generation /\ procs' = procs
      /\ waiting' = waiting
      /\ missed' = (missed \/ (playing /\ procs[process].file \notin library))
      BY DEF Scan, ScanMisses, clockVars
<1>2. /\ tracks' \in Seq(File) /\ IsInjective(tracks') /\ tracks' # <<>>
      /\ current' \in 1 .. Len(tracks')
      /\ ~Empty /\ tracks[current] \in library => tracks'[current'] = tracks[current]
      BY <1>1, ScanFacts
<1>3. ~Empty'
      BY <1>2 DEF Empty
<1>4. Mp3TypeOK'
  <2>1. /\ library' \subseteq File /\ tracks' \in Seq(File) /\ IsInjective(tracks')
        /\ current' \in 1 .. (IF Empty' THEN 1 ELSE Len(tracks')) /\ missed' \in BOOLEAN
        BY <1>1, <1>2, <1>3 DEF Mp3TypeOK
  <2> QED BY <1>1, <2>1 DEF Mp3TypeOK
<1>5. OnePlayer' /\ EndIsNoticed' /\ ElapsedIsPlayed'
      BY <1>1 DEF OnePlayer, EndIsNoticed, ElapsedIsPlayed, Elapsed, Alive
<1>6. ShownIsPlaying'
  <2>1. CASE playing /\ procs[process].file \in library /\ ~missed
    <3>1. tracks[current] = procs[process].file /\ ~Empty /\ process # NoProcess
          BY <2>1 DEF ShownIsPlaying, PlayerFits
    <3> QED BY <1>1, <1>2, <2>1, <3>1 DEF ShownIsPlaying
  <2>2. CASE ~(playing /\ procs[process].file \in library /\ ~missed)
    <3>1. /\ missed' = (missed \/ (playing /\ procs[process].file \notin library))
          /\ missed \in BOOLEAN /\ playing \in BOOLEAN /\ playing' = playing
          BY <1>1 DEF Mp3TypeOK
    <3>2. CASE playing /\ ~missed
          BY <1>1, <2>2, <3>1, <3>2 DEF ShownIsPlaying
    <3>3. CASE missed
      <4>1. missed'
            BY <3>1, <3>3
      <4>2. playing' => process' # NoProcess
            BY <1>1 DEF ShownIsPlaying
      <4> QED BY <4>1, <4>2 DEF ShownIsPlaying
    <3>4. CASE ~playing
          BY <3>1, <3>4 DEF ShownIsPlaying
    <3> QED BY <3>1, <3>2, <3>3, <3>4
  <2> QED BY <2>1, <2>2
<1>7. PlayerFits'
      BY <1>1, <1>3 DEF PlayerFits, Alive
<1> QED BY <1>4, <1>5, <1>6, <1>7

LEMMA StopAtScanStep ==
    ASSUME Mp3IInv, Scan, ScanMisses, StopPlayer(waiting), visible' \in BOOLEAN
    PROVE  Mp3IInv'
<1> USE DEF Mp3IInv, PlayerInSight
<1>1. /\ tracks' \in Seq(File) /\ IsInjective(tracks') /\ library' \subseteq File
      /\ current' \in 1 .. (IF tracks' = <<>> THEN 1 ELSE Len(tracks'))
      BY ScanFacts DEF Scan, Mp3TypeOK
<1>2. missed' \in BOOLEAN
      BY DEF ScanMisses, Mp3TypeOK
<1> QED BY <1>1, <1>2, StopPlayerStep DEF ListOK, Empty

LEMMA UntouchedStep ==
    ASSUME Mp3IInv, visible' \in BOOLEAN,
           UNCHANGED <<listVars, playing, paused, clockVars, process, generation, procs, waiting>>
    PROVE  Mp3IInv'
<1> USE DEF Mp3IInv, PlayerInSight, listVars, clockVars
<1>1. Mp3TypeOK'
      BY DEF Mp3TypeOK, Empty
<1>2. OnePlayer' /\ EndIsNoticed' /\ ShownIsPlaying' /\ ElapsedIsPlayed'
      BY DEF OnePlayer, EndIsNoticed, ShownIsPlaying, ElapsedIsPlayed, Elapsed, Alive
<1>3. PlayerFits'
      BY DEF PlayerFits, Empty, Alive
<1> QED BY <1>1, <1>2, <1>3

LEMMA ToggleStep ==
    ASSUME Mp3IInv, Toggle
    PROVE  Mp3IInv'
<1> USE DEF Mp3IInv, PlayerInSight
<1>0. visible' \in BOOLEAN
      BY DEF Toggle, Mp3TypeOK
<1>1. CASE UNCHANGED <<listVars, playing, paused, clockVars, process, generation, procs, waiting>>
      BY <1>0, <1>1, UntouchedStep
<1>2. CASE Scan /\ StopPlayer(waiting) /\ ScanMisses
      BY <1>0, <1>2, StopAtScanStep
<1>3. CASE /\ library # {} /\ Scan /\ ScanMisses
           /\ UNCHANGED <<playing, paused, clockVars, process, generation, procs, waiting>>
      BY <1>0, <1>3, ScanStep
<1>4. CASE /\ library # {} /\ Scan
           /\ PlayIndex(Sorted(library), IndexIn(Sorted(library)), IndexIn(Sorted(library)), waiting)
  <2>1. PICK list \in Seq(File) : list = Sorted(library) /\ IsInjective(list) /\ list # <<>>
                                  /\ IndexIn(list) \in 1 .. Len(list)
        BY <1>4, ScanFacts DEF Scan
  <2>2. PICK i \in 1 .. Len(list) : i = IndexIn(list)
        BY <2>1
  <2>3. PlayIndex(list, i, i, waiting)
        BY <1>4, <2>1, <2>2
  <2>4. tracks' = list /\ library' \subseteq File
        BY <1>4, <2>1 DEF Scan, Mp3TypeOK
  <2> QED BY <1>0, <2>1, <2>3, <2>4, PlayIndexStep
<1> QED BY <1>1, <1>2, <1>3, <1>4 DEF Toggle

LEMMA RescanStep ==
    ASSUME Mp3IInv, Rescan
    PROVE  Mp3IInv'
<1>1. visible' \in BOOLEAN
      BY DEF Rescan, Mp3IInv, PlayerInSight, Mp3TypeOK
<1> QED BY <1>1, ScanStep, StopAtScanStep DEF Rescan

\* A pause or a resumption touches the state of the current process alone.
LEMMA SwitchFacts ==
    ASSUME Mp3IInv, process # NoProcess, NEW new \in ProcState,
           procs' = [procs EXCEPT ![process].state = new]
    PROVE  /\ procs' \in Seq(Process) /\ DOMAIN procs' = DOMAIN procs /\ process \in DOMAIN procs
           /\ procs'[process].state = new
           /\ \A q \in DOMAIN procs : /\ procs'[q].gen = procs[q].gen /\ procs'[q].file = procs[q].file
                                      /\ q # process => procs'[q] = procs[q]
<1>1. Mp3TypeOK /\ process \in DOMAIN procs
      BY DEF Mp3IInv, PlayerInSight, Mp3TypeOK
<1>2. PICK p \in DOMAIN procs : p = process
      BY <1>1
<1>3. \A x \in Process : LET y == [x EXCEPT !.state = new]
                         IN  y \in Process /\ y.state = new /\ y.gen = x.gen /\ y.file = x.file
      BY DEF Process
<1>4. procs \in Seq(Process) /\ p \in 1 .. Len(procs) /\ DOMAIN procs = 1 .. Len(procs)
      BY <1>1, ProcessFacts DEF Mp3TypeOK, Process
<1>5. procs' = [procs EXCEPT ![p] = [procs[p] EXCEPT !.state = new]]
      BY <1>2
<1>6. /\ procs' \in Seq(Process) /\ Len(procs') = Len(procs)
      /\ \A j \in 1 .. Len(procs) : procs'[j] = IF j = p THEN [procs[p] EXCEPT !.state = new] ELSE procs[j]
      BY <1>1, <1>3, <1>4, <1>5, ProcessFacts, ExceptSeq
<1>7. DOMAIN procs' = DOMAIN procs
      BY <1>4, <1>6, LenProperties
<1> QED BY <1>1, <1>2, <1>3, <1>4, <1>6, <1>7, ProcessFacts

LEMMA ResumeStep ==
    ASSUME Mp3IInv, Resume
    PROVE  Mp3IInv'
<1> USE DEF Mp3IInv, PlayerInSight
<1>1. process \in DOMAIN procs /\ process # NoProcess /\ paused /\ procs[process].state \in ProcState
      BY ProcessFacts DEF Resume, Mp3TypeOK
<1>2. PICK new \in ProcState : new = IF procs[process].state = "stopped" THEN "running" ELSE procs[process].state
      BY <1>1 DEF ProcState
<1>3. procs' = [procs EXCEPT ![process].state = new]
      BY <1>2 DEF Resume
<1>4. /\ procs' \in Seq(Process) /\ DOMAIN procs' = DOMAIN procs
      /\ procs'[process].state = new
      /\ \A q \in DOMAIN procs : /\ procs'[q].gen = procs[q].gen /\ procs'[q].file = procs[q].file
                                 /\ q # process => procs'[q] = procs[q]
      BY <1>1, <1>3, SwitchFacts
<1>5. /\ paused' = FALSE /\ since' = 0 /\ library' = library /\ tracks' = tracks /\ current' = current
      /\ missed' = missed /\ visible' = visible /\ playing' = playing /\ offset' = offset
      /\ played' = played /\ process' = process /\ generation' = generation /\ waiting' = waiting
      BY DEF Resume, listVars
<1>6. new = "stopped" => FALSE
      BY <1>2
<1>7. new = "running" => procs[process].state = "stopped"
      BY <1>1, <1>2 DEF PlayerFits, Alive
<1>8. Mp3TypeOK'
  <2>1. procs' \in Seq([file : File, gen : Nat, state : ProcState])
        BY <1>4 DEF Process
  <2>2. since' \in 0 .. MaxTicks /\ paused' \in BOOLEAN
    <3>1. since' \in 0 .. MaxTicks
          BY <1>5, Mp3Assumption
    <3>2. paused' \in BOOLEAN
          BY <1>5
    <3> QED BY <3>1, <3>2
  <2>3. current' \in 1 .. (IF Empty' THEN 1 ELSE Len(tracks'))
        BY <1>5 DEF Empty, Mp3TypeOK
  <2> QED BY <1>4, <1>5, <2>1, <2>2, <2>3 DEF Mp3TypeOK
<1>9. OnePlayer'
      BY <1>4, <1>5 DEF OnePlayer, Alive
<1>10. EndIsNoticed' /\ ShownIsPlaying'
      BY <1>1, <1>4, <1>5 DEF EndIsNoticed, ShownIsPlaying
<1>11. ElapsedIsPlayed'
  <2>1. CASE new = "running"
    <3>1. Elapsed = played /\ Elapsed = offset /\ offset \in Nat
          BY <1>1, <1>7, <2>1 DEF ElapsedIsPlayed, Elapsed, Alive, PlayerFits, Mp3TypeOK
    <3> QED BY <1>1, <1>5, <3>1 DEF ElapsedIsPlayed, Elapsed, PlayerFits
  <2>2. CASE new # "running"
        BY <1>4, <1>5, <1>6, <2>2 DEF ElapsedIsPlayed, Alive
  <2> QED BY <2>1, <2>2
<1>12. PlayerFits'
  <2>1. Alive(process)' => procs'[process].state # "stopped"
        BY <1>4, <1>5, <1>6
  <2> QED BY <1>4, <1>5, <2>1 DEF PlayerFits, Empty
<1> QED BY <1>8, <1>9, <1>10, <1>11, <1>12

LEMMA PauseStep ==
    ASSUME Mp3IInv, Pause
    PROVE  Mp3IInv'
<1> USE DEF Mp3IInv, PlayerInSight
<1>1. process \in DOMAIN procs /\ process # NoProcess /\ ~paused /\ procs[process].state \in ProcState
      BY ProcessFacts DEF Pause, Mp3TypeOK
<1>2. PICK new \in ProcState : new = IF procs[process].state = "running" THEN "stopped" ELSE procs[process].state
      BY <1>1 DEF ProcState
<1>3. procs' = [procs EXCEPT ![process].state = new]
      BY <1>2 DEF Pause
<1>4. /\ procs' \in Seq(Process) /\ DOMAIN procs' = DOMAIN procs
      /\ procs'[process].state = new
      /\ \A q \in DOMAIN procs : /\ procs'[q].gen = procs[q].gen /\ procs'[q].file = procs[q].file
                                 /\ q # process => procs'[q] = procs[q]
      BY <1>1, <1>3, SwitchFacts
<1>5. /\ offset' = Elapsed /\ since' = since /\ library' = library /\ tracks' = tracks
      /\ current' = current /\ missed' = missed /\ visible' = visible /\ playing' = playing
      /\ played' = played /\ process' = process /\ generation' = generation /\ waiting' = waiting
      BY DEF Pause, listVars
<1>6. paused' \in BOOLEAN /\ (Alive(process) => paused' = TRUE)
      BY DEF Pause
<1>7. new # "running" /\ (new \in {"running", "stopped"} => Alive(process) /\ new = "stopped")
      BY <1>2 DEF Alive
<1>8. Mp3TypeOK'
  <2>1. procs' \in Seq([file : File, gen : Nat, state : ProcState])
        BY <1>4 DEF Process
  <2>2. offset \in Nat /\ since \in Nat
        BY DEF Mp3TypeOK
  <2>3. offset' \in Nat
        BY <1>5, <2>2 DEF Elapsed
  <2>4. current' \in 1 .. (IF Empty' THEN 1 ELSE Len(tracks'))
        BY <1>5 DEF Empty, Mp3TypeOK
  <2> QED BY <1>4, <1>5, <1>6, <2>1, <2>3, <2>4 DEF Mp3TypeOK
<1>9. OnePlayer'
      BY <1>4, <1>5 DEF OnePlayer, Alive
<1>10. EndIsNoticed' /\ ShownIsPlaying'
      BY <1>1, <1>4, <1>5 DEF EndIsNoticed, ShownIsPlaying
<1>11. ElapsedIsPlayed'
      BY <1>1, <1>4, <1>5, <1>6, <1>7 DEF ElapsedIsPlayed, Elapsed, Alive, PlayerFits
<1>12. PlayerFits'
      BY <1>1, <1>4, <1>5, <1>6, <1>7 DEF PlayerFits, Empty, Alive
<1> QED BY <1>8, <1>9, <1>10, <1>11, <1>12

\* The late message of a stopped process is told from that of the one that plays.
LEMMA HandleDoneStep ==
    ASSUME Mp3IInv, NEW p \in DOMAIN procs, HandleDone(p)
    PROVE  Mp3IInv'
<1> USE DEF Mp3IInv, PlayerInSight
<1>0. p \in waiting /\ ~Alive(p) /\ library' = library /\ tracks' = tracks /\ visible' = visible
      BY DEF HandleDone
<1>1. CASE /\ procs[p].gen # generation /\ waiting' = waiting \ {p}
           /\ UNCHANGED <<current, missed, playing, paused, clockVars, process, generation, procs>>
  <2> USE <1>0, <1>1 DEF clockVars
  <2>1. Mp3TypeOK'
        BY DEF Mp3TypeOK, Empty
  <2>2. EndIsNoticed'
        BY DEF EndIsNoticed
  <2>3. OnePlayer' /\ ShownIsPlaying' /\ ElapsedIsPlayed'
        BY DEF OnePlayer, ShownIsPlaying, ElapsedIsPlayed, Elapsed, Alive
  <2>4. PlayerFits'
        BY DEF PlayerFits, Empty, Alive
  <2> QED BY <2>1, <2>2, <2>3, <2>4
<1>2. CASE /\ procs[p].gen = generation /\ waiting' = waiting \ {p} /\ Silence /\ offset' = 0
           /\ UNCHANGED <<current, missed, generation, procs>>
  <2> USE <1>0, <1>2 DEF Silence
  <2>1. \A q \in DOMAIN procs : ~Alive(q)
    <3>1. CASE process = NoProcess
          BY <3>1, ProcessFacts DEF OnePlayer, NoProcess
    <3>2. CASE process # NoProcess
      <4>1. process \in DOMAIN procs /\ procs[process].gen = procs[p].gen
            BY <3>2 DEF EndIsNoticed, Mp3TypeOK
      <4>2. \A q \in DOMAIN procs : q \in Nat /\ procs[q].gen \in Nat
            BY ProcessFacts
      <4>3. ~(process < p) /\ ~(p < process)
            BY <4>1, <4>2 DEF PlayerFits
      <4>4. p = process
            BY <4>1, <4>2, <4>3
      <4> QED BY <4>4 DEF OnePlayer
    <3> QED BY <3>1, <3>2
  <2>2. Mp3TypeOK'
    <3>1. since' \in 0 .. MaxTicks /\ played' \in 0 .. MaxTicks /\ offset' \in Nat
          BY Mp3Assumption
    <3>2. playing' \in BOOLEAN /\ paused' \in BOOLEAN
          OBVIOUS
    <3>3. process' \in DOMAIN procs' \cup {NoProcess} /\ waiting' \subseteq DOMAIN procs'
          BY DEF Mp3TypeOK
    <3>4. current' \in 1 .. (IF Empty' THEN 1 ELSE Len(tracks'))
          BY DEF Mp3TypeOK, Empty
    <3> QED BY <3>1, <3>2, <3>3, <3>4 DEF Mp3TypeOK
  <2>3. OnePlayer' /\ EndIsNoticed' /\ ShownIsPlaying' /\ ElapsedIsPlayed'
        BY <2>1 DEF OnePlayer, EndIsNoticed, ShownIsPlaying, ElapsedIsPlayed, Alive
  <2>4. PlayerFits'
        BY DEF PlayerFits
  <2> QED BY <2>2, <2>3, <2>4
<1>3. CASE Len(tracks) > 1 /\ PlayIndex(tracks, NextTrack(current), current, waiting \ {p})
  <2>1. /\ tracks \in Seq(File) /\ IsInjective(tracks) /\ tracks # <<>> /\ Len(tracks) \in Nat
        /\ current \in 1 .. Len(tracks)
        BY <1>3 DEF Mp3TypeOK, Empty
  <2>2. NextTrack(current) \in 1 .. Len(tracks)
        BY <2>1 DEF NextTrack
  <2>3. library' \subseteq File /\ visible' \in BOOLEAN /\ waiting \ {p} \in SUBSET waiting
        BY <1>0 DEF Mp3TypeOK
  <2> QED BY <1>0, <1>3, <2>1, <2>2, <2>3, PlayIndexStep
<1> QED BY <1>1, <1>2, <1>3 DEF HandleDone

\* The controller knows the one player there is: that it plays, what, for how long, and that
\* it ended, whatever ends, starts, changes and is said late (ui/mp3.go).
THEOREM PlayerStaysInSight == Mp3Spec => []PlayerInSight
<1>1. Mp3IInv /\ [Mp3Next]_mp3Vars => Mp3IInv'
  <2> SUFFICES ASSUME Mp3IInv, [Mp3Next]_mp3Vars PROVE Mp3IInv'
      OBVIOUS
  <2>1. CASE UNCHANGED mp3Vars \/ HidePanel
    <3>1. visible' \in BOOLEAN /\ UNCHANGED <<listVars, playing, paused, clockVars, process, generation, procs, waiting>>
          BY <2>1 DEF mp3Vars, listVars, clockVars, HidePanel, Mp3IInv, PlayerInSight, Mp3TypeOK
    <3> QED BY <3>1, UntouchedStep
  <2>2. CASE StopAtQuit
    <3>1. StopPlayer(waiting) /\ ListOK'
          BY <2>2 DEF StopAtQuit, ListOK, listVars, Mp3IInv, PlayerInSight, Mp3TypeOK, Empty
    <3> QED BY <3>1, StopPlayerStep
  <2> QED BY <2>1, <2>2, OutsideStep, HandleDoneStep, PlayStep, RescanStep, ToggleStep, ResumeStep,
             PauseStep DEF Mp3Next
<1>2. Mp3IInv => PlayerInSight
      BY DEF Mp3IInv
<1> QED BY <1>1, <1>2, Mp3InitInv, PTL DEF Mp3Spec

-----------------------------------------------------------------------------
(* The key ladders (KeyLadder) *)

\* What the ladders keep between the keys: the stage of Ctrl+C is the number of presses the user
\* would count and its clock is theirs, a warning is standing at the second stage of Esc, and
\* only the Esc that cut a turn short has armed the next one.
LadderKnows ==
    /\ ctrlCStage = presses
    /\ presses = 0 => ctrlCSince = Unset
    /\ presses # 0 => ctrlCSince = ctrlCGap
    /\ ~quit => presses < 3
    /\ escStage = 1 => escWarned
    /\ escStage = 1 => escSince # Unset
    /\ escSince # Unset => escSince = escGap
    /\ armed => escCut

KeyIInv == LadderTypeOK /\ ArmedOnlyIdle /\ LadderKnows

\* A clock that is read stays a clock, and two that agree go on agreeing.
LEMMA ClockFacts ==
    ASSUME NEW window \in Nat, NEW clock \in Since(window)
    PROVE  /\ Older(clock, window) \in Since(window) /\ 0 \in Since(window) /\ Unset \in Since(window)
           /\ Older(clock, window) = Unset <=> clock = Unset
BY DEF Since, Older, Unset

LEMMA KeyInitInv == KeyInit => KeyIInv
<1> SUFFICES ASSUME KeyInit PROVE KeyIInv
    OBVIOUS
<1>1. Unset \in Since(EscWindow) /\ Unset \in Since(CtrlCWindow)
      BY DEF Since
<1>2. LadderTypeOK
  <2>1. queued \in 0 .. MaxQueue
        BY LadderAssumption DEF KeyInit
  <2>2. /\ streaming \in BOOLEAN /\ tool \in BOOLEAN /\ armed \in BOOLEAN /\ picker \in BOOLEAN
        /\ quit \in BOOLEAN /\ escWarned \in BOOLEAN /\ escCut \in BOOLEAN
        BY DEF KeyInit
  <2>3. /\ escStage \in 0 .. 1 /\ ctrlCStage \in 0 .. 3 /\ presses \in 0 .. 3
        /\ panels \subseteq {"tool", "mp3"} /\ last \in Input
        BY DEF KeyInit, Input
  <2>4. /\ escSince \in Since(EscWindow) /\ escGap \in Since(EscWindow)
        /\ ctrlCSince \in Since(CtrlCWindow) /\ ctrlCGap \in Since(CtrlCWindow)
        BY <1>1 DEF KeyInit
  <2> QED BY <2>1, <2>2, <2>3, <2>4 DEF LadderTypeOK
<1>3. ArmedOnlyIdle /\ LadderKnows
      BY DEF KeyInit, ArmedOnlyIdle, LadderKnows, Unset
<1> QED BY <1>2, <1>3 DEF KeyIInv

LEMMA TickStep ==
    ASSUME KeyIInv, Tick
    PROVE  KeyIInv'
<1> USE DEF KeyIInv, Tick, ladderVars, screenVars
<1>1. EscWindow \in Nat /\ CtrlCWindow \in Nat
      BY LadderAssumption
<1>2. LadderTypeOK'
  <2>1. /\ escSince' \in Since(EscWindow) /\ escGap' \in Since(EscWindow)
        /\ ctrlCSince' \in Since(CtrlCWindow) /\ ctrlCGap' \in Since(CtrlCWindow)
        BY <1>1, ClockFacts DEF LadderTypeOK
  <2> QED BY <2>1 DEF LadderTypeOK, Input
<1>3. /\ escSince' = Unset <=> escSince = Unset
      /\ ctrlCSince' = Unset <=> ctrlCSince = Unset
      BY <1>1, ClockFacts DEF LadderTypeOK
<1>4. ArmedOnlyIdle'
      BY DEF ArmedOnlyIdle
<1>5. LadderKnows'
  <2>1. escSince' # Unset => escSince' = escGap'
        BY <1>3 DEF LadderKnows
  <2>2. presses # 0 => ctrlCSince' = ctrlCGap'
    <3>1. CASE presses # 0
      <4>1. ctrlCSince = ctrlCGap
            BY <3>1 DEF LadderKnows
      <4> QED BY <4>1
    <3> QED BY <3>1
  <2> QED BY <1>3, <2>1, <2>2 DEF LadderKnows
<1> QED BY <1>2, <1>4, <1>5

\* Taking the ladders down is remembering nothing.
LEMMA TurnStep ==
    ASSUME KeyIInv, ToolEvent \/ Done \/ Enter \/ Up \/ Screen
    PROVE  KeyIInv'
<1> USE DEF KeyIInv, ladderVars, screenVars, LaddersDown, StartTurn
<1>0. Unset \in Since(EscWindow) /\ Unset \in Since(CtrlCWindow) /\ MaxQueue \in Nat /\ queued \in 0 .. MaxQueue
      BY LadderAssumption DEF Since, LadderTypeOK
<1>1. CASE ToolEvent
  <2>1. LadderTypeOK'
        BY <1>1 DEF ToolEvent, LadderTypeOK, Input
  <2>2. ArmedOnlyIdle' /\ LadderKnows'
        BY <1>1 DEF ToolEvent, ArmedOnlyIdle, LadderKnows
  <2> QED BY <2>1, <2>2
<1>2. CASE Done
  <2>1. LadderTypeOK'
    <3>1. queued' \in 0 .. MaxQueue
          BY <1>0, <1>2 DEF Done
    <3>2. /\ streaming' \in BOOLEAN /\ tool' \in BOOLEAN /\ armed' \in BOOLEAN
          /\ escWarned' \in BOOLEAN /\ escCut' \in BOOLEAN
          BY <1>2 DEF Done, LadderTypeOK
    <3>3. escStage' = 0 /\ escSince' = Unset /\ ctrlCStage' = 0 /\ ctrlCSince' = Unset /\ presses' = 0
          BY <1>2 DEF Done
    <3>4. UNCHANGED <<panels, picker, quit, escGap, ctrlCGap>> /\ last' \in Input
          BY <1>2 DEF Done, Input
    <3> QED BY <1>0, <3>1, <3>2, <3>3, <3>4 DEF LadderTypeOK
  <2>2. ArmedOnlyIdle' /\ LadderKnows'
        BY <1>2 DEF Done, ArmedOnlyIdle, LadderKnows, Unset
  <2> QED BY <2>1, <2>2
<1>3. CASE Enter
  <2>1. LadderTypeOK'
    <3>1. queued' \in 0 .. MaxQueue
          BY <1>0, <1>3 DEF Enter
    <3>2. /\ streaming' \in BOOLEAN /\ tool' \in BOOLEAN /\ armed' \in BOOLEAN
          /\ escWarned' \in BOOLEAN /\ escCut' \in BOOLEAN
          BY <1>3 DEF Enter, LadderTypeOK
    <3>3. /\ escStage' \in {0, escStage} /\ escSince' \in {Unset, escSince}
          /\ ctrlCStage' \in {0, ctrlCStage} /\ ctrlCSince' \in {Unset, ctrlCSince}
          /\ presses' \in {0, presses}
          BY <1>3 DEF Enter
    <3>4. UNCHANGED <<panels, picker, quit, escGap, ctrlCGap>> /\ last' \in Input
          BY <1>3 DEF Enter, Input
    <3> QED BY <1>0, <3>1, <3>2, <3>3, <3>4 DEF LadderTypeOK
  <2>2. ArmedOnlyIdle' /\ LadderKnows'
        BY <1>3 DEF Enter, ArmedOnlyIdle, LadderKnows, Unset
  <2> QED BY <2>1, <2>2
<1>4. CASE Up
  <2>1. LadderTypeOK'
    <3>1. queued' \in 0 .. MaxQueue
          BY <1>0, <1>4 DEF Up
    <3> QED BY <1>4, <3>1 DEF Up, LadderTypeOK, Input
  <2>2. ArmedOnlyIdle' /\ LadderKnows'
        BY <1>4 DEF Up, ArmedOnlyIdle, LadderKnows
  <2> QED BY <2>1, <2>2
<1>5. CASE Screen
  <2>1. LadderTypeOK'
        BY <1>5 DEF Screen, LadderTypeOK, Input
  <2>2. ArmedOnlyIdle' /\ LadderKnows'
        BY <1>5 DEF Screen, ArmedOnlyIdle, LadderKnows
  <2> QED BY <2>1, <2>2
<1> QED BY <1>1, <1>2, <1>3, <1>4, <1>5

\* A press of Ctrl+C counts as the user counts it.
LEMMA CtrlCFacts ==
    ASSUME KeyIInv, ~quit
    PROVE  CtrlCStage = Presses /\ Presses \in 1 .. 3
<1>1. ctrlCStage = presses /\ presses \in 0 .. 2
      BY DEF KeyIInv, LadderKnows, LadderTypeOK
<1>2. CtrlCWindow \in Nat /\ ctrlCSince \in Int /\ ctrlCGap \in Int
      BY LadderAssumption DEF KeyIInv, LadderTypeOK, Since, Unset
<1>3. presses = 0 => ctrlCSince # CtrlCWindow + 1
      BY <1>2 DEF KeyIInv, LadderKnows, Unset
<1>4. presses # 0 => ctrlCSince = ctrlCGap
      BY DEF KeyIInv, LadderKnows
<1> QED BY <1>1, <1>3, <1>4 DEF CtrlCStage, Presses

LEMMA CtrlCStep ==
    ASSUME KeyIInv, CtrlC, ~quit
    PROVE  KeyIInv'
<1> USE DEF KeyIInv, screenVars
<1>1. /\ ctrlCStage' = presses' /\ presses' \in 1 .. 3 /\ ctrlCSince' = 0 /\ ctrlCGap' = 0
      /\ ctrlCStage' = CtrlCStage
      BY CtrlCFacts DEF CtrlC
<1>2. /\ 0 \in Since(CtrlCWindow) /\ Unset \in Since(EscWindow)
      /\ MaxQueue \in Nat /\ queued \in 0 .. MaxQueue /\ 0 \in 0 .. MaxQueue
      BY LadderAssumption DEF Since, LadderTypeOK
<1>3. last' = "ctrl+c" /\ UNCHANGED <<panels, picker, escGap>>
      BY DEF CtrlC
<1>4. \/ CancelTurn(FALSE, armed) /\ streaming /\ UNCHANGED quit /\ presses' = 1
      \/ CancelTurn(TRUE, FALSE) /\ quit' = TRUE
      \/ /\ queued' \in {0, queued} /\ armed' \in BOOLEAN /\ (armed' => armed)
         /\ quit' \in BOOLEAN /\ (quit' \/ presses' < 3)
         /\ UNCHANGED <<streaming, tool, escStage, escSince, escWarned, escCut>>
  <2>0. armed \in BOOLEAN /\ quit = FALSE
        BY DEF LadderTypeOK
  <2>1. CASE CtrlCInterrupts
        BY <1>1, <2>1 DEF CtrlCInterrupts
  <2>2. CASE CtrlCAsks
    <3>1. armed' = armed /\ quit' = quit /\ presses' = 1 /\ queued' = queued
          BY <1>1, <2>2 DEF CtrlCAsks
    <3>2. UNCHANGED <<streaming, tool, escStage, escSince, escWarned, escCut>>
          BY <2>2 DEF CtrlCAsks
    <3>3. armed' \in BOOLEAN /\ (armed' => armed)
          BY <2>0, <3>1
    <3>4. quit' \in BOOLEAN
          BY <2>0, <3>1
    <3>5. queued' \in {0, queued} /\ presses' < 3
          BY <3>1
    <3> QED BY <3>2, <3>3, <3>4, <3>5
  <2>3. CASE CtrlCClearsQueue
    <3>1. armed' = (armed /\ queued = 0) /\ quit' = quit /\ presses' = 2 /\ queued' = 0
          BY <1>1, <2>3 DEF CtrlCClearsQueue
    <3>2. UNCHANGED <<streaming, tool, escStage, escSince, escWarned, escCut>>
          BY <2>3 DEF CtrlCClearsQueue
    <3>3. armed' \in BOOLEAN /\ (armed' => armed)
          BY <2>0, <3>1
    <3>4. quit' \in BOOLEAN
          BY <2>0, <3>1
    <3>5. queued' \in {0, queued} /\ presses' < 3
          BY <3>1
    <3> QED BY <3>2, <3>3, <3>4, <3>5
  <2>4. CASE CtrlCQuits
        BY <2>0, <2>4 DEF CtrlCQuits
  <2> QED BY <2>1, <2>2, <2>3, <2>4 DEF CtrlC
<1>5. LadderTypeOK'
  <2>1. queued' \in 0 .. MaxQueue /\ streaming' \in BOOLEAN /\ tool' \in BOOLEAN
        BY <1>2, <1>4 DEF CancelTurn, LadderTypeOK
  <2>2. escStage' \in 0 .. 1 /\ escSince' \in Since(EscWindow)
        BY <1>2, <1>4 DEF CancelTurn, LadderTypeOK
  <2>3. escWarned' \in BOOLEAN /\ escCut' \in BOOLEAN /\ armed' \in BOOLEAN
        BY <1>4 DEF CancelTurn, LadderTypeOK
  <2>4. ctrlCStage' \in 0 .. 3 /\ presses' \in 0 .. 3 /\ quit' \in BOOLEAN
    <3>1. quit' \in BOOLEAN
          BY <1>4 DEF LadderTypeOK
    <3> QED BY <1>1, <3>1
  <2> QED BY <1>1, <1>2, <1>3, <2>1, <2>2, <2>3, <2>4 DEF LadderTypeOK, Input
<1>6. ArmedOnlyIdle'
      BY <1>4 DEF CancelTurn, ArmedOnlyIdle
<1>7. LadderKnows'
      BY <1>1, <1>3, <1>4 DEF CancelTurn, LadderKnows, ArmedOnlyIdle, Unset
<1> QED BY <1>5, <1>6, <1>7

\* When the ladder has a clock, it is the user's.
LEMMA EscFacts ==
    ASSUME KeyIInv
    PROVE  /\ EscExpired => EscLapsed
           /\ escSince # Unset => (EscExpired <=> EscLapsed)
BY LadderAssumption DEF KeyIInv, LadderKnows, EscExpired, EscLapsed, Unset

LEMMA EscStep ==
    ASSUME KeyIInv, Esc
    PROVE  KeyIInv'
<1> USE DEF KeyIInv
<1>1. /\ last' = "esc" /\ escGap' = 0 /\ presses' = presses /\ quit' = quit
      /\ ctrlCStage' = ctrlCStage /\ ctrlCSince' = ctrlCSince /\ ctrlCGap' = ctrlCGap /\ picker' = picker
      BY DEF Esc
<1>2. /\ 0 \in Since(EscWindow) /\ Unset \in Since(EscWindow)
      /\ MaxQueue \in Nat /\ queued \in 0 .. MaxQueue /\ 0 \in 0 .. MaxQueue
      BY LadderAssumption DEF Since, LadderTypeOK
<1>3. escSince' = 0 \/ CancelTurn(FALSE, armed \/ queued # 0)
      BY DEF Esc, EscClosesPanel, EscClearsQueue, EscIdle, EscFirst, EscSecond
<1>4. LadderTypeOK'
  <2>1. queued' \in 0 .. MaxQueue /\ escSince' \in Since(EscWindow)
        BY <1>2, <1>3 DEF CancelTurn, Esc, EscClosesPanel, EscClearsQueue, EscIdle, EscFirst, EscSecond,
                          LadderTypeOK
  <2>2. /\ streaming' \in BOOLEAN /\ tool' \in BOOLEAN /\ armed' \in BOOLEAN
        /\ escWarned' \in BOOLEAN /\ escCut' \in BOOLEAN /\ escStage' \in 0 .. 1
    <3> USE DEF LadderTypeOK
    <3>1. CASE EscClosesPanel
          BY <3>1 DEF EscClosesPanel
    <3>2. CASE EscClearsQueue \/ EscIdle
      <4>1. armed' = FALSE /\ escStage' = 0 /\ escWarned' = escWarned /\ escCut' \in {FALSE, escCut}
            BY <3>2 DEF EscClearsQueue, EscIdle
      <4>2. streaming' = streaming /\ tool' = tool
            BY <3>2 DEF EscClearsQueue, EscIdle
      <4>3. escCut' \in BOOLEAN
            BY <4>1
      <4>4. streaming' \in BOOLEAN /\ tool' \in BOOLEAN
            BY <4>2
      <4>5. escStage' \in 0 .. 1
            BY <4>1
      <4>6. armed' \in BOOLEAN /\ escWarned' \in BOOLEAN
            BY <4>1
      <4> QED BY <4>3, <4>4, <4>5, <4>6
    <3>3. CASE EscFirst
          BY <3>3 DEF EscFirst
    <3>4. CASE EscSecond
      <4>1. streaming' = FALSE /\ tool' = FALSE /\ escStage' = 0 /\ escWarned' = FALSE
            BY <3>4 DEF EscSecond, CancelTurn
      <4>2. armed' = (armed \/ queued # 0) /\ escCut' = (last' = "esc" /\ queued # 0)
            BY <3>4 DEF EscSecond, CancelTurn
      <4>3. armed' \in BOOLEAN /\ escCut' \in BOOLEAN
            BY <4>2
      <4>4. streaming' \in BOOLEAN /\ tool' \in BOOLEAN /\ escWarned' \in BOOLEAN
            BY <4>1
      <4>5. escStage' \in 0 .. 1
            BY <4>1
      <4> QED BY <4>3, <4>4, <4>5
    <3> QED BY <3>1, <3>2, <3>3, <3>4 DEF Esc
  <2>3. panels' \subseteq {"tool", "mp3"}
        BY DEF Esc, EscClosesPanel, EscClearsQueue, EscIdle, EscFirst, EscSecond, LadderTypeOK
  <2> QED BY <1>1, <1>2, <2>1, <2>2, <2>3 DEF LadderTypeOK, Input
<1>5. ArmedOnlyIdle'
      BY DEF CancelTurn, Esc, EscClosesPanel, EscClearsQueue, EscIdle, EscFirst, EscSecond, ArmedOnlyIdle
<1>6. LadderKnows'
  <2>1. /\ ctrlCStage' = presses' /\ (presses' = 0 => ctrlCSince' = Unset)
        /\ (presses' # 0 => ctrlCSince' = ctrlCGap') /\ (~quit' => presses' < 3)
        BY <1>1 DEF LadderKnows
  <2>2. escSince' # Unset => escSince' = escGap'
        BY <1>1, <1>3 DEF CancelTurn
  <2>3. armed' => escCut'
    <3> USE DEF ArmedOnlyIdle, LadderKnows
    <3>1. CASE EscClosesPanel
          BY <3>1 DEF EscClosesPanel
    <3>2. CASE EscClearsQueue \/ EscIdle
          BY <3>2 DEF EscClearsQueue, EscIdle
    <3>3. CASE EscFirst
          BY <3>3 DEF EscFirst
    <3>4. CASE EscSecond
          BY <1>1, <3>4 DEF EscSecond, CancelTurn
    <3> QED BY <3>1, <3>2, <3>3, <3>4 DEF Esc
  <2>4. escStage' = 1 => escWarned' /\ escSince' # Unset
    <3>1. CASE EscClosesPanel
      <4>1. escStage' = 1 => ~EscExpired /\ escStage = 1
            BY <3>1 DEF EscClosesPanel
      <4>2. escStage' = 1 => ~EscLapsed /\ escWarned
            BY <4>1, EscFacts DEF LadderKnows
      <4>3. escSince' = 0 /\ 0 # Unset
            BY <3>1 DEF EscClosesPanel, Unset
      <4>4. escWarned' = (escWarned /\ ~EscLapsed)
            BY <3>1 DEF EscClosesPanel
      <4> QED BY <4>2, <4>3, <4>4
    <3>2. CASE EscClearsQueue \/ EscIdle \/ EscSecond
          BY <3>2 DEF EscClearsQueue, EscIdle, EscSecond, CancelTurn
    <3>3. CASE EscFirst
      <4>1. escStage' = (IF tool THEN 0 ELSE 1) /\ escWarned' = ~tool
            BY <3>3 DEF EscFirst
      <4>2. escSince' = 0 /\ 0 # Unset
            BY <3>3 DEF EscFirst, Unset
      <4>3. CASE tool
            BY <4>1, <4>3
      <4>4. CASE ~tool
            BY <4>1, <4>2, <4>4
      <4> QED BY <4>3, <4>4
    <3> QED BY <3>1, <3>2, <3>3 DEF Esc
  <2> QED BY <2>1, <2>2, <2>3, <2>4 DEF LadderKnows
<1> QED BY <1>4, <1>5, <1>6

LEMMA EndStep ==
    ASSUME KeyIInv, Signal \/ QuitMsg
    PROVE  KeyIInv'
<1> USE DEF KeyIInv, ladderVars, screenVars
<1>1. Unset \in Since(EscWindow) /\ queued \in 0 .. MaxQueue /\ 0 \in 0 .. MaxQueue
      BY LadderAssumption DEF Since, LadderTypeOK
<1>2. LadderTypeOK'
  <2>1. queued' \in 0 .. MaxQueue /\ escSince' \in Since(EscWindow) /\ escStage' \in 0 .. 1
        BY <1>1 DEF Signal, QuitMsg, CancelTurn, LadderTypeOK
  <2>2. /\ streaming' \in BOOLEAN /\ tool' \in BOOLEAN /\ armed' \in BOOLEAN /\ quit' \in BOOLEAN
        /\ escWarned' \in BOOLEAN /\ escCut' \in BOOLEAN
        BY DEF Signal, QuitMsg, CancelTurn, LadderTypeOK
  <2> QED BY <2>1, <2>2 DEF Signal, QuitMsg, LadderTypeOK, Input
<1>3. ArmedOnlyIdle'
      BY DEF Signal, QuitMsg, CancelTurn, ArmedOnlyIdle
<1>4. LadderKnows'
      BY DEF Signal, QuitMsg, CancelTurn, LadderKnows, Unset
<1> QED BY <1>2, <1>3, <1>4

\* What one step may take from the queue, the turn and the program.
StepOnPurpose ==
    /\ last' = "ctrl+c" => (quit' <=> presses' = 3)
    /\ last' = "esc" /\ streaming /\ ~streaming' => escWarned /\ ~EscLapsed
    /\ queued' < queued /\ ~quit' =>
          \/ last' = "up" /\ queued' = queued - 1
          \/ last' = "turn" /\ queued' = 0
          \/ last' = "signal" /\ streaming
          \/ last' = "ctrl+c" /\ presses' = 2
          \/ last' = "esc" /\ escCut
    /\ last' = "esc" /\ EscLapsed /\ queued' < queued => escCut /\ escSince = Unset

LEMMA KeyStepOnPurpose ==
    ASSUME KeyIInv, KeyNext
    PROVE  StepOnPurpose
<1>0. queued \in Int /\ ~quit
      BY LadderAssumption DEF KeyIInv, LadderTypeOK, KeyNext
<1>1. CASE Tick \/ ToolEvent \/ Screen
      BY <1>0, <1>1 DEF Tick, ToolEvent, Screen, StepOnPurpose
<1>2. CASE Done
      BY <1>0, <1>2 DEF Done, StepOnPurpose
<1>3. CASE Enter
      BY <1>0, <1>3 DEF Enter, StepOnPurpose
<1>4. CASE Up
      BY <1>0, <1>4 DEF Up, StepOnPurpose
<1>5. CASE CtrlC
  <2>1. ctrlCStage' = presses' /\ presses' \in 1 .. 3 /\ presses' = CtrlCStage /\ last' = "ctrl+c"
        BY <1>0, <1>5, CtrlCFacts DEF CtrlC
  <2>2. quit' <=> presses' = 3
    <3>1. CASE CtrlCQuits
          BY <2>1, <3>1 DEF CtrlCQuits
    <3>2. CASE CtrlCInterrupts \/ CtrlCAsks \/ CtrlCClearsQueue
      <4>1. quit' = quit /\ presses' \in {1, 2}
            BY <2>1, <3>2 DEF CtrlCInterrupts, CtrlCAsks, CtrlCClearsQueue
      <4> QED BY <1>0, <4>1
    <3> QED BY <1>5, <3>1, <3>2 DEF CtrlC
  <2>3. presses' = 1 => queued' = queued
        BY <1>5, <2>1 DEF CtrlC, CtrlCInterrupts, CtrlCAsks, CtrlCClearsQueue, CtrlCQuits, CancelTurn
  <2> QED BY <1>0, <2>1, <2>2, <2>3 DEF StepOnPurpose
<1>6. CASE Esc
  <2>1. last' = "esc"
        BY <1>6 DEF Esc
  <2>2. streaming /\ ~streaming' => escWarned /\ ~EscLapsed
    <3>1. streaming /\ ~streaming' => EscSecond
          BY <1>6 DEF Esc, EscClosesPanel, EscClearsQueue, EscIdle, EscFirst
    <3>2. EscSecond => escWarned /\ ~EscLapsed
          BY EscFacts DEF EscSecond, KeyIInv, LadderKnows
    <3> QED BY <3>1, <3>2
  <2>3. queued' < queued => EscClearsQueue
        BY <1>0, <1>6 DEF Esc, EscClosesPanel, EscIdle, EscFirst, EscSecond, CancelTurn
  <2>4. EscClearsQueue => escCut /\ (EscLapsed => escSince = Unset)
        BY EscFacts DEF EscClearsQueue, EscArmed, KeyIInv, LadderKnows
  <2> QED BY <2>1, <2>2, <2>3, <2>4 DEF StepOnPurpose
<1>7. CASE Signal
      BY <1>0, <1>7 DEF Signal, StepOnPurpose
<1>8. CASE QuitMsg
      BY <1>8 DEF QuitMsg, StepOnPurpose
<1> QED BY <1>1, <1>2, <1>3, <1>4, <1>5, <1>6, <1>7, <1>8 DEF KeyNext

\* No key cancels, clears or quits by accident: each does so at its step of the ladder, in
\* time, and for the turn it was pressed in (ui/model.go, handleEscKey and handleCtrlCKey).
THEOREM KeysActOnPurpose == KeySpec => KeysOnPurpose
<1>1. KeyIInv /\ [KeyNext]_keyVars => KeyIInv'
  <2> SUFFICES ASSUME KeyIInv, [KeyNext]_keyVars PROVE KeyIInv'
      OBVIOUS
  <2>1. CASE UNCHANGED keyVars
    <3> USE <2>1 DEF keyVars, ladderVars, screenVars, ghostVars, KeyIInv
    <3>1. LadderTypeOK'
          BY DEF LadderTypeOK
    <3>2. ArmedOnlyIdle' /\ LadderKnows'
          BY DEF ArmedOnlyIdle, LadderKnows
    <3> QED BY <3>1, <3>2
  <2> QED BY <2>1, TickStep, TurnStep, CtrlCStep, EscStep, EndStep DEF KeyNext
<1>2. KeyIInv => LadderTypeOK /\ ArmedOnlyIdle
      BY DEF KeyIInv
<1>3. KeyIInv /\ [KeyNext]_keyVars =>
          /\ [last' = "ctrl+c" => (quit' <=> presses' = 3)]_keyVars
          /\ [last' = "esc" /\ streaming /\ ~streaming' => escWarned /\ ~EscLapsed]_keyVars
          /\ [queued' < queued /\ ~quit' =>
                 \/ last' = "up" /\ queued' = queued - 1
                 \/ last' = "turn" /\ queued' = 0
                 \/ last' = "signal" /\ streaming
                 \/ last' = "ctrl+c" /\ presses' = 2
                 \/ last' = "esc" /\ escCut]_keyVars
          /\ [last' = "esc" /\ EscLapsed /\ queued' < queued => escCut /\ escSince = Unset]_keyVars
      BY KeyStepOnPurpose DEF StepOnPurpose
<1> QED BY <1>1, <1>2, <1>3, KeyInitInv, PTL
        DEF KeySpec, KeysOnPurpose, CtrlCQuitsOnThird, EscCancelsAfterWarning, QueueGoesOnPurpose,
            LateEscClearsNothing

-----------------------------------------------------------------------------

\* A file holds a state that the window could have; while its save is kept it holds the state
\* that the window has or was loaded from, or there was nothing to save yet.
Apart(list, less) == less \/ IsInjective(list)
FileFits(file, less) ==
    \/ file = Nothing
    \/ \E list \in Seq(Context), i \in Nat :
          /\ file = Whole([contexts |-> list, active |-> i])
          /\ Apart(list, less) /\ i \in 1 .. Len(list)

LoadedFrom(file) ==
    file # Nothing /\ contexts = Restored(file[1]).contexts /\ active = Restored(file[1]).active

RosterFileFits == rosterFile = Nothing \/ \E r \in Rosters : rosterFile = Whole(r)

WindowFits ==
    /\ contexts \in Seq(Context) /\ Apart(contexts, shortened) /\ active \in 1 .. Len(contexts)
    /\ FileFits(focusFile, shortened) /\ focusKept \in BOOLEAN /\ shortened \in BOOLEAN
    /\ focusKept =>
        \/ focusFile = Nothing /\ contexts = <<Channel(MainChannel)>> /\ active = 1
        \/ focusFile = Whole([contexts |-> contexts, active |-> active])
        \/ LoadedFrom(focusFile)

MembersFit ==
    /\ roster \in Rosters /\ RosterFileFits /\ rosterKept \in BOOLEAN
    /\ rosterKept => (rosterFile = Nothing /\ roster = Nobody) \/ rosterFile = Whole(roster)
    /\ notes \in [Channels -> [Nicks -> {"none", "joined", "left"}]]
    /\ misspelt \subseteq Channels \X Nicks
    /\ NotesFollowRoster

FocusIInv == running \in BOOLEAN /\ faults \in 0 .. MaxFaults /\ WindowFits /\ MembersFit

\* What is left of a sequence without its i-th element.
LEMMA RemoveAtFits ==
    ASSUME NEW S, NEW s \in Seq(S), NEW i \in 1 .. Len(s)
    PROVE  /\ RemoveAt(s, i) \in Seq(S) /\ Len(RemoveAt(s, i)) = Len(s) - 1
           /\ \A j \in 1 .. Len(s) - 1 : RemoveAt(s, i)[j] = IF j < i THEN s[j] ELSE s[j + 1]
<1> DEFINE a == SubSeq(s, 1, i - 1)
           b == SubSeq(s, i + 1, Len(s))
<1>1. Len(s) \in Nat /\ i \in Nat
      OBVIOUS
<1>2. a \in Seq(S) /\ Len(a) = i - 1 /\ \A j \in 1 .. i - 1 : a[j] = s[j]
      BY <1>1
<1>3. b \in Seq(S) /\ Len(b) = Len(s) - i /\ \A j \in 1 .. Len(s) - i : b[j] = s[i + j]
      BY <1>1
<1>4. RemoveAt(s, i) = a \o b
      BY DEF RemoveAt
<1> HIDE DEF a, b
<1>5. a \o b \in Seq(S) /\ Len(a \o b) = Len(s) - 1
  <2>0. a \in Seq(S) /\ b \in Seq(S)
        BY <1>2, <1>3
  <2>1. a \o b \in Seq(S) /\ Len(a \o b) = Len(a) + Len(b)
        BY <2>0, ConcatProperties
  <2>2. (i - 1) + (Len(s) - i) = Len(s) - 1
        BY <1>1
  <2> QED BY <1>2, <1>3, <2>1, <2>2
<1>6. ASSUME NEW j \in 1 .. Len(s) - 1
      PROVE  (a \o b)[j] = IF j < i THEN s[j] ELSE s[j + 1]
  <2>1. CASE j < i
    <3>1. j \in 1 .. Len(a)
          BY <1>1, <1>2, <2>1
    <3> QED BY <1>2, <1>3, <2>1, <3>1
  <2>2. CASE ~(j < i)
    <3>1. j - (i - 1) \in 1 .. Len(s) - i /\ i + (j - (i - 1)) = j + 1
          BY <1>1, <2>2
    <3>2. (a \o b)[j] = b[j - Len(a)]
          BY <1>1, <1>2, <1>3, <2>2
    <3> QED BY <1>2, <1>3, <2>2, <3>1, <3>2
  <2> QED BY <2>1, <2>2
<1> QED BY <1>4, <1>5, <1>6

LEMMA WholeIsNoNothing ==
    ASSUME NEW x PROVE Whole(x) # Nothing /\ Whole(x)[1] = x
BY DEF Whole, Nothing

\* A save of the focus keeps what the handler has made of the window.
LEMMA SaveFocusKeeps ==
    ASSUME FocusIInv, contexts' \in Seq(Context), Apart(contexts, shortened)',
           active' \in 1 .. Len(contexts'), SaveFocus(faults'), UNCHANGED shortened
    PROVE  WindowFits' /\ faults' \in 0 .. MaxFaults
<1> DEFINE now == [contexts |-> contexts', active |-> active']
<1>1. PICK w \in Written(focusFile, now) :
        /\ w.ok \/ faults < MaxFaults
        /\ focusFile' = w.file
        /\ focusKept' = w.ok
        /\ faults' = IF w.ok THEN faults ELSE faults + 1
      BY DEF SaveFocus
<1>2. \/ focusFile' = Whole(now) /\ focusKept' = TRUE /\ faults' = faults
      \/ focusFile' \in {focusFile, Nothing} /\ focusKept' = FALSE /\ faults < MaxFaults /\ faults' = faults + 1
      BY <1>1 DEF Written
<1>3. active' \in Nat
      OBVIOUS
<1>4. FileFits(Whole(now), shortened')
      BY <1>3 DEF FileFits
<1> HIDE DEF now
<1>5. FileFits(focusFile', shortened')
  <2>1. FileFits(focusFile, shortened) /\ shortened' = shortened
        BY DEF FocusIInv, WindowFits
  <2>2. FileFits(Nothing, shortened')
        BY DEF FileFits
  <2>3. CASE focusFile' = Whole(now)
        BY <2>3, <1>4
  <2>4. CASE focusFile' = focusFile
        BY <2>1, <2>4
  <2>5. CASE focusFile' = Nothing
        BY <2>2, <2>5
  <2> QED BY <1>2, <2>3, <2>4, <2>5
<1>6. faults' \in 0 .. MaxFaults
      BY <1>2, FocusAssumption DEF FocusIInv
<1> QED BY <1>2, <1>5, <1>6 DEF WindowFits, FocusIInv, now

LEMMA OpenKeeps ==
    ASSUME FocusIInv, NEW ctx \in Context, Open(ctx)
    PROVE  FocusIInv' /\ Len(contexts') >= Len(contexts)
<1>1. SetFocus(ctx) /\ SaveFocus(faults') /\ running /\ UNCHANGED <<running, memberVars, shortened>>
      BY DEF Open
<1>2. contexts \in Seq(Context) /\ Len(contexts) \in Nat /\ active \in 1 .. Len(contexts)
      BY DEF FocusIInv, WindowFits
<1>3. shortened \/ \A i, j \in 1 .. Len(contexts) : contexts[i] = contexts[j] => i = j
      BY <1>2 DEF FocusIInv, WindowFits, Apart, IsInjective
<1>4. /\ contexts' \in Seq(Context) /\ (shortened \/ IsInjective(contexts)') /\ active' \in 1 .. Len(contexts')
      /\ Len(contexts') >= Len(contexts)
  <2>1. CASE Contains(contexts, ctx)
    <3>1. contexts' = contexts /\ active' \in DOMAIN contexts
          BY <1>1, <2>1 DEF SetFocus
    <3> QED BY <1>2, <1>3, <3>1 DEF IsInjective
  <2>2. CASE ~Contains(contexts, ctx)
    <3>1. contexts' = Append(contexts, ctx) /\ active' = Len(contexts')
          BY <1>1, <2>2 DEF SetFocus
    <3>2. /\ contexts' \in Seq(Context) /\ Len(contexts') = Len(contexts) + 1
          /\ \A i \in 1 .. Len(contexts) : contexts'[i] = contexts[i]
          /\ contexts'[Len(contexts) + 1] = ctx
          BY <1>2, <3>1
    <3>3. \A i \in 1 .. Len(contexts) : contexts[i] # ctx
          BY <2>2 DEF Contains
    <3>4. shortened \/ \A i, j \in 1 .. Len(contexts) + 1 : contexts'[i] = contexts'[j] => i = j
      <4> SUFFICES ASSUME ~shortened, NEW i \in 1 .. Len(contexts) + 1, NEW j \in 1 .. Len(contexts) + 1,
                          contexts'[i] = contexts'[j]
                   PROVE  i = j
          OBVIOUS
      <4>1. i \in 1 .. Len(contexts) \/ i = Len(contexts) + 1
            BY <1>2
      <4>2. j \in 1 .. Len(contexts) \/ j = Len(contexts) + 1
            BY <1>2
      <4> QED BY <1>3, <3>2, <3>3, <4>1, <4>2
    <3>5. DOMAIN contexts' = 1 .. Len(contexts) + 1
          BY <3>2
    <3> QED BY <1>2, <3>1, <3>2, <3>4, <3>5 DEF IsInjective
  <2> QED BY <2>1, <2>2
<1>5. WindowFits' /\ faults' \in 0 .. MaxFaults
  <2>1. Apart(contexts, shortened)'
        BY <1>1, <1>4 DEF Apart
  <2> QED BY <1>1, <1>4, <2>1, SaveFocusKeeps
<1>6. MembersFit'
      BY <1>1 DEF memberVars, FocusIInv, MembersFit, RosterFileFits, NotesFollowRoster, Members
<1> QED BY <1>1, <1>4, <1>5, <1>6 DEF FocusIInv

LEMMA PartKeeps ==
    ASSUME FocusIInv, NEW ctx \in Context, Part(ctx)
    PROVE  /\ FocusIInv'
           /\ \A i \in DOMAIN contexts :
                 ~Contains(contexts', contexts[i]) /\ i > active => contexts'[active'] = Active
<1>1. RemoveContext(ctx) /\ SaveFocus(faults') /\ UNCHANGED <<running, memberVars, shortened>>
      BY DEF Part
<1> DEFINE n == Len(contexts)
<1>2. contexts \in Seq(Context) /\ n \in Nat /\ active \in 1 .. n /\ DOMAIN contexts = 1 .. n
      BY DEF FocusIInv, WindowFits
<1>3. shortened \/ \A i, j \in 1 .. n : contexts[i] = contexts[j] => i = j
      BY <1>2 DEF FocusIInv, WindowFits, Apart, IsInjective
<1>4. PICK k \in 1 .. n : contexts[k] = ctx /\ contexts' = RemoveAt(contexts, k)
      BY <1>1, <1>2 DEF RemoveContext
<1>5. n > 1 /\ active' = IF active > Len(contexts') THEN Len(contexts') ELSE active
      BY <1>1 DEF RemoveContext
<1>6. /\ contexts' \in Seq(Context) /\ Len(contexts') = n - 1
      /\ \A j \in 1 .. n - 1 : contexts'[j] = IF j < k THEN contexts[j] ELSE contexts[j + 1]
      BY <1>2, <1>4, RemoveAtFits
<1> HIDE DEF n
<1>7. active' \in 1 .. Len(contexts')
      BY <1>2, <1>5, <1>6
<1>8. Apart(contexts, shortened)'
  <2> SUFFICES ASSUME ~shortened PROVE IsInjective(contexts)'
      BY <1>1 DEF Apart
  <2>1. DOMAIN contexts' = 1 .. n - 1
        BY <1>6
  <2> DEFINE from(j) == IF j < k THEN j ELSE j + 1
  <2>2. \A j \in 1 .. n - 1 : from(j) \in 1 .. n /\ contexts'[j] = contexts[from(j)]
        BY <1>2, <1>6
  <2>3. \A i, j \in 1 .. n - 1 : from(i) = from(j) => i = j
        BY <1>2
  <2> HIDE DEF from
  <2>4. \A i, j \in 1 .. n - 1 : contexts'[i] = contexts'[j] => i = j
        BY <1>3, <2>2, <2>3
  <2> QED BY <2>1, <2>4 DEF IsInjective
<1>9. WindowFits' /\ faults' \in 0 .. MaxFaults
      BY <1>1, <1>6, <1>7, <1>8, SaveFocusKeeps
<1>10. MembersFit'
      BY <1>1 DEF memberVars, FocusIInv, MembersFit, RosterFileFits, NotesFollowRoster, Members
<1>11. ASSUME NEW i \in DOMAIN contexts, ~Contains(contexts', contexts[i]), i > active
       PROVE  contexts'[active'] = Active
  <2>1. i = k
    <3> SUFFICES ASSUME i # k PROVE FALSE
        OBVIOUS
    <3>1. i \in 1 .. n
          BY <1>2
    <3>2. CASE i < k
      <4>1. i \in 1 .. n - 1 /\ contexts'[i] = contexts[i]
            BY <1>2, <1>6, <3>1, <3>2
      <4> QED BY <1>6, <1>11, <4>1 DEF Contains
    <3>3. CASE i > k
      <4>1. i - 1 \in 1 .. n - 1 /\ ~(i - 1 < k) /\ (i - 1) + 1 = i
            BY <1>2, <3>1, <3>3
      <4>2. contexts'[i - 1] = contexts[i]
            BY <1>6, <4>1
      <4> QED BY <1>6, <1>11, <4>1, <4>2 DEF Contains
    <3> QED BY <1>2, <3>1, <3>2, <3>3
  <2>2. active < k /\ active \in 1 .. n - 1
        BY <1>2, <1>11, <2>1
  <2>3. active' = active
        BY <1>2, <1>5, <1>6, <2>2
  <2> QED BY <1>6, <2>2, <2>3 DEF Active
<1> QED BY <1>1, <1>9, <1>10, <1>11 DEF FocusIInv

LEMMA TurnEndsKeeps ==
    ASSUME FocusIInv, TurnEnds
    PROVE  FocusIInv' /\ contexts' = contexts
<1>1. SaveFocus(faults') /\ UNCHANGED <<contexts, active, running, memberVars, shortened>>
      BY DEF TurnEnds
<1>2. contexts' \in Seq(Context) /\ Apart(contexts, shortened)' /\ active' \in 1 .. Len(contexts')
      BY <1>1 DEF FocusIInv, WindowFits, Apart, IsInjective
<1>3. WindowFits' /\ faults' \in 0 .. MaxFaults
      BY <1>1, <1>2, SaveFocusKeeps
<1>4. MembersFit'
      BY <1>1 DEF memberVars, FocusIInv, MembersFit, RosterFileFits, NotesFollowRoster, Members
<1> QED BY <1>1, <1>3, <1>4 DEF FocusIInv

\* A save of the membership, kept or not, is of the roster that the handler has made.
LEMMA SaveMembershipKeeps ==
    ASSUME FocusIInv, roster' \in Rosters, SaveMembership(faults')
    PROVE  /\ RosterFileFits' /\ rosterKept' \in BOOLEAN /\ faults' \in 0 .. MaxFaults
           /\ rosterKept' => rosterFile' = Whole(roster')
<1>1. PICK w \in Written(rosterFile, roster') :
        /\ w.ok \/ faults < MaxFaults
        /\ rosterFile' = w.file
        /\ rosterKept' = w.ok
        /\ faults' = IF w.ok THEN faults ELSE faults + 1
      BY DEF SaveMembership
<1>2. \/ rosterFile' = Whole(roster') /\ rosterKept' = TRUE /\ faults' = faults
      \/ rosterFile' \in {rosterFile, Nothing} /\ rosterKept' = FALSE /\ faults < MaxFaults /\ faults' = faults + 1
      BY <1>1 DEF Written
<1>3. faults' \in 0 .. MaxFaults
      BY <1>2, FocusAssumption DEF FocusIInv
<1> QED BY <1>2, <1>3 DEF RosterFileFits, FocusIInv, MembersFit

\* Of one persona in one channel the roster and the newest note change together, and the other
\* spellings of the channel are set down as not told.
LEMMA NoteChanges ==
    ASSUME FocusIInv, NEW c \in Channels, NEW n \in Nicks, NEW stays \in BOOLEAN, NEW capitals \in BOOLEAN,
           \/ roster' = [roster EXCEPT ![Bare[c]] = IF stays THEN @ \cup {n} ELSE @ \ {n}]
           \/ roster' = roster /\ Bare[c] = Nameless,
           SaveMembership(faults'),
           UNCHANGED <<running, contextVars>>,
           Tell(n, c, IF stays THEN "joined" ELSE "left", capitals)
    PROVE  FocusIInv'
<1>1. /\ roster \in [Channels -> SUBSET Nicks] /\ Bare \in [Channels -> Channels]
      /\ notes \in [Channels -> [Nicks -> {"none", "joined", "left"}]]
      /\ misspelt \subseteq Channels \X Nicks
      BY FocusAssumption DEF FocusIInv, MembersFit, Rosters
<1>2. /\ roster' \in [Channels -> SUBSET Nicks]
      /\ \A d \in Channels, m \in Nicks : d # Bare[c] \/ m # n => (m \in roster'[d] <=> m \in roster[d])
      /\ Bare[c] # Nameless => (n \in roster'[Bare[c]] <=> stays)
      BY <1>1
<1>3. /\ notes' = IF capitals THEN notes ELSE [notes EXCEPT ![c][n] = IF stays THEN "joined" ELSE "left"]
      /\ misspelt' \subseteq Channels \X Nicks
      /\ \A d \in Channels, m \in Nicks :
            <<d, m>> \in misspelt' <=> IF m = n /\ Bare[d] = Bare[c]
                                       THEN d # c \/ capitals \/ Bare[c] = Nameless
                                       ELSE <<d, m>> \in misspelt
      BY DEF Tell
<1>4. notes' \in [Channels -> [Nicks -> {"none", "joined", "left"}]]
      BY <1>1, <1>3
<1>5. NotesFollowRoster'
  <2> SUFFICES ASSUME NEW d \in Channels, NEW m \in Nicks, notes'[d][m] # "none", <<d, m>> \notin misspelt'
               PROVE  notes'[d][m] = "joined" <=> m \in roster'[Bare[d]]
      BY DEF NotesFollowRoster, Members
  <2>1. notes[d][m] # "none" /\ <<d, m>> \notin misspelt => (notes[d][m] = "joined" <=> m \in roster[Bare[d]])
        BY DEF FocusIInv, MembersFit, NotesFollowRoster, Members
  <2>2. CASE m = n /\ Bare[d] = Bare[c]
    <3>1. d = c /\ ~capitals /\ Bare[c] # Nameless
          BY <1>3, <2>2
    <3>2. notes'[d][m] = IF stays THEN "joined" ELSE "left"
          BY <1>1, <1>3, <2>2, <3>1
    <3>3. m \in roster'[Bare[d]] <=> stays
          BY <1>2, <2>2, <3>1
    <3>4. CASE stays
          BY <3>2, <3>3, <3>4
    <3>5. CASE ~stays
          BY <3>2, <3>3, <3>5
    <3> QED BY <3>4, <3>5
  <2>3. CASE ~(m = n /\ Bare[d] = Bare[c])
    <3>1. <<d, m>> \notin misspelt
          BY <1>3, <2>3
    <3>2. notes'[d][m] = notes[d][m]
          BY <1>1, <1>3, <2>3
    <3>3. m \in roster'[Bare[d]] <=> m \in roster[Bare[d]]
          BY <1>1, <1>2, <2>3
    <3> QED BY <2>1, <3>1, <3>2, <3>3
  <2> QED BY <2>2, <2>3
<1>6. /\ RosterFileFits' /\ rosterKept' \in BOOLEAN /\ faults' \in 0 .. MaxFaults
      /\ rosterKept' => rosterFile' = Whole(roster')
      BY <1>2, SaveMembershipKeeps DEF Rosters
<1>7. MembersFit'
      BY <1>2, <1>3, <1>4, <1>5, <1>6 DEF MembersFit, Rosters
<1>8. WindowFits'
      BY DEF contextVars, FocusIInv, WindowFits, FileFits, LoadedFrom, Apart, IsInjective
<1> QED BY <1>6, <1>7, <1>8 DEF FocusIInv

LEMMA MembersKeep ==
    ASSUME FocusIInv, NEW n \in Nicks, Kick(n) \/ \E c \in Channels, capitals \in BOOLEAN : Invite(n, c, capitals)
    PROVE  FocusIInv' /\ contexts' = contexts
<1>1. CASE Kick(n)
  <2> DEFINE c == KickedFrom
  <2>1. c \in Channels
    <3>1. Active \in Context
          BY DEF FocusIInv, WindowFits, Active
    <3>2. Active.kind = "channel" => Active.name \in Channels
          BY <3>1, FocusAssumption DEF Context, Channel, Direct
    <3> QED BY <3>2, FocusAssumption DEF KickedFrom
  <2>2. /\ roster' = [roster EXCEPT ![Bare[c]] = @ \ {n}] /\ SaveMembership(faults')
        /\ Tell(n, c, "left", FALSE)
        /\ UNCHANGED <<running, contextVars>>
        BY <1>1 DEF Kick, Without
  <2> HIDE DEF c
  <2>3. FALSE \in BOOLEAN
        OBVIOUS
  <2>4. FocusIInv'
        BY <2>1, <2>2, <2>3, NoteChanges
  <2> QED BY <2>2, <2>4 DEF contextVars
<1>2. CASE \E c \in Channels, capitals \in BOOLEAN : Invite(n, c, capitals)
  <2>1. PICK c \in Channels, capitals \in BOOLEAN : Invite(n, c, capitals)
        BY <1>2
  <2>2. /\ \/ roster' = [roster EXCEPT ![Bare[c]] = @ \cup {n}]
           \/ roster' = roster /\ Bare[c] = Nameless
        /\ SaveMembership(faults') /\ Tell(n, c, "joined", capitals)
        /\ UNCHANGED <<running, contextVars>>
        BY <2>1 DEF Invite
  <2>3. TRUE \in BOOLEAN
        OBVIOUS
  <2>4. FocusIInv'
        BY <2>2, <2>3, NoteChanges
  <2> QED BY <2>2, <2>4 DEF contextVars
<1> QED BY <1>1, <1>2

\* Stopped or killed, nothing but the files remains; a start takes what they hold.
LEMMA StopKeeps ==
    ASSUME FocusIInv, Stop \/ KilledInSave
    PROVE  FocusIInv' /\ contexts' = contexts
<1>1. /\ running' = FALSE /\ UNCHANGED <<contexts, active, roster, notes, misspelt, shortened>>
      /\ \/ UNCHANGED <<focusFile, focusKept>>
         \/ focusFile' = Nothing /\ focusKept' = FALSE
      /\ \/ UNCHANGED <<rosterFile, rosterKept>>
         \/ rosterFile' = Nothing /\ rosterKept' = FALSE
      BY DEF Stop, KilledInSave, contextVars, memberVars
<1>2. faults' \in 0 .. MaxFaults
      BY FocusAssumption DEF Stop, KilledInSave, FocusIInv
<1>3. WindowFits'
  <2>1. FileFits(focusFile', shortened')
    <3>1. CASE focusFile' = focusFile
          BY <1>1, <3>1 DEF FocusIInv, WindowFits
    <3>2. CASE focusFile' = Nothing
          BY <3>2 DEF FileFits
    <3> QED BY <1>1, <3>1, <3>2
  <2>2. Apart(contexts', shortened') /\ shortened' \in BOOLEAN
        BY <1>1 DEF FocusIInv, WindowFits
  <2>3. contexts' \in Seq(Context) /\ active' \in 1 .. Len(contexts')
        BY <1>1 DEF FocusIInv, WindowFits
  <2>4. CASE UNCHANGED <<focusFile, focusKept>>
        BY <1>1, <2>1, <2>2, <2>3, <2>4 DEF FocusIInv, WindowFits, LoadedFrom
  <2>5. CASE focusKept' = FALSE
        BY <2>1, <2>2, <2>3, <2>5 DEF WindowFits
  <2> QED BY <1>1, <2>4, <2>5
<1>4. MembersFit'
  <2>1. RosterFileFits'
    <3>1. CASE rosterFile' = rosterFile
          BY <3>1 DEF FocusIInv, MembersFit, RosterFileFits
    <3>2. CASE rosterFile' = Nothing
          BY <3>2 DEF RosterFileFits
    <3> QED BY <1>1, <3>1, <3>2
  <2>2. NotesFollowRoster'
        BY <1>1 DEF FocusIInv, MembersFit, NotesFollowRoster, Members
  <2>3. CASE UNCHANGED <<rosterFile, rosterKept>>
        BY <1>1, <2>1, <2>2, <2>3 DEF FocusIInv, MembersFit
  <2>4. CASE rosterKept' = FALSE
        BY <1>1, <2>1, <2>2, <2>4 DEF FocusIInv, MembersFit
  <2> QED BY <1>1, <2>3, <2>4
<1> QED BY <1>1, <1>2, <1>3, <1>4 DEF FocusIInv

LEMMA StartsFit ==
    ASSUME NEW S, NEW a \in S PROVE <<a>> \in Seq(S) /\ Len(<<a>>) = 1 /\ IsInjective(<<a>>)
BY DEF IsInjective

\* What a load makes of a context: another one for a channel whose name has a '#' too many.
LEMMA ReloadedFits ==
    ASSUME NEW ctx \in Context
    PROVE  Reloaded(ctx) \in Context /\ (Reloaded(ctx) = ctx \/ Hashed(ctx))
<1>1. CASE \E n \in Nicks : ctx = Direct(n)
      BY <1>1 DEF Reloaded, Direct
<1>2. CASE \E c \in Channels : ctx = Channel(c)
  <2>1. PICK name \in Channels \ {Nameless} : ctx = [kind |-> "channel", name |-> name]
        BY <1>2, FocusAssumption DEF Channel
  <2>2. ctx.kind = "channel" /\ ctx.name = name
        BY <2>1
  <2>3. Reloaded(ctx) = Channel(name)
        BY <2>2 DEF Reloaded
  <2>4. Bare[name] = name => Channel(name) = ctx
        BY <2>1 DEF Channel
  <2> QED BY <2>2, <2>3, <2>4 DEF Context, Hashed
<1> QED BY <1>1, <1>2 DEF Context

LEMMA RestoredFits ==
    ASSUME NEW list \in Seq(Context), NEW i \in 1 .. Len(list)
    PROVE  LET r == Restored([contexts |-> list, active |-> i]) IN
           /\ r.contexts \in Seq(Context) /\ Len(r.contexts) = Len(list) /\ r.active = i
           /\ \A k \in 1 .. Len(list) : r.contexts[k] = list[k] \/ Hashed(list[k])
<1> DEFINE more == [k \in 1 .. Len(list) |-> Reloaded(list[k])]
           state == [contexts |-> list, active |-> i]
<1>1. Len(list) \in Nat /\ DOMAIN list = 1 .. Len(list) /\ ~(i > Len(list))
      OBVIOUS
<1>2. Restored(state).contexts = more /\ Restored(state).active = i
      BY <1>1 DEF Restored
<1>3. \A k \in 1 .. Len(list) : more[k] \in Context /\ (more[k] = list[k] \/ Hashed(list[k]))
      BY ReloadedFits
<1>4. more \in Seq(Context) /\ Len(more) = Len(list)
      BY <1>1, <1>3
<1> HIDE DEF more
<1> QED BY <1>2, <1>3, <1>4

LEMMA StartKeeps ==
    ASSUME FocusIInv, Start
    PROVE  /\ FocusIInv'
           /\ focusKept =>
                /\ Len(contexts') = Len(contexts) /\ active' = active
                /\ \A i \in DOMAIN contexts : contexts'[i] = contexts[i] \/ Hashed(contexts[i])
           /\ rosterKept => roster' = roster
<1>1. /\ running' = TRUE /\ faults' = faults
      /\ IF focusFile = Nothing
         THEN contexts' = <<Channel(MainChannel)>> /\ active' = 1
         ELSE contexts' = Restored(focusFile[1]).contexts /\ active' = Restored(focusFile[1]).active
      /\ roster' = IF rosterFile = Nothing THEN Nobody ELSE rosterFile[1]
      /\ focusKept' = TRUE /\ rosterKept' = TRUE
      /\ shortened' = (shortened \/ (focusFile # Nothing /\ contexts' # focusFile[1].contexts))
      /\ notes' = NoNotes /\ misspelt' = {}
      /\ UNCHANGED <<focusFile, rosterFile>>
      BY DEF Start
<1>2. /\ contexts' \in Seq(Context) /\ Apart(contexts', shortened') /\ active' \in 1 .. Len(contexts')
      /\ FileFits(focusFile', shortened') /\ shortened' \in BOOLEAN
      /\ \/ focusFile = Nothing /\ contexts' = <<Channel(MainChannel)>> /\ active' = 1
         \/ LoadedFrom(focusFile)'
  <2>1. CASE focusFile = Nothing
    <3>1. contexts' = <<Channel(MainChannel)>> /\ active' = 1 /\ focusFile' = Nothing
          BY <1>1, <2>1
    <3>2. Channel(MainChannel) \in Context
          BY FocusAssumption DEF Context
    <3>3. contexts' \in Seq(Context) /\ Len(contexts') = 1 /\ IsInjective(contexts')
      <4> DEFINE c == Channel(MainChannel)
      <4> HIDE DEF c
      <4>1. <<c>> \in Seq(Context) /\ Len(<<c>>) = 1 /\ IsInjective(<<c>>)
            BY <3>2, StartsFit DEF c
      <4> QED BY <3>1, <4>1 DEF c
    <3>4. shortened' \in BOOLEAN
          BY <1>1
    <3> QED BY <2>1, <3>1, <3>3, <3>4 DEF Apart, FileFits
  <2>2. CASE focusFile # Nothing
    <3>1. PICK list \in Seq(Context), i \in Nat :
              /\ focusFile = Whole([contexts |-> list, active |-> i])
              /\ Apart(list, shortened) /\ i \in 1 .. Len(list)
          BY <2>2 DEF FocusIInv, WindowFits, FileFits
    <3> DEFINE state == [contexts |-> list, active |-> i]
    <3>2. focusFile[1] = state /\ state.contexts = list
          BY <3>1, WholeIsNoNothing
    <3>3. contexts' = Restored(state).contexts /\ active' = Restored(state).active
          BY <1>1, <2>2, <3>2
    <3>4. contexts' \in Seq(Context) /\ Len(contexts') = Len(list) /\ active' = i
          BY <3>1, <3>3, RestoredFits
    <3>5. shortened' \in BOOLEAN /\ (shortened => shortened') /\ (shortened' \/ contexts' = list)
          BY <1>1, <2>2, <3>2 DEF FocusIInv, WindowFits
    <3>6. Apart(contexts', shortened') /\ Apart(list, shortened')
          BY <3>1, <3>5 DEF Apart
    <3>7. FileFits(focusFile', shortened')
          BY <1>1, <3>1, <3>6 DEF FileFits
    <3>8. LoadedFrom(focusFile)'
          BY <1>1, <2>2 DEF LoadedFrom
    <3> QED BY <3>1, <3>4, <3>5, <3>6, <3>7, <3>8
  <2> QED BY <2>1, <2>2
<1>3. ASSUME focusKept
      PROVE  /\ Len(contexts') = Len(contexts) /\ active' = active
             /\ \A i \in DOMAIN contexts : contexts'[i] = contexts[i] \/ Hashed(contexts[i])
  <2>1. CASE focusFile = Nothing /\ contexts = <<Channel(MainChannel)>> /\ active = 1
    <3>1. contexts' = contexts /\ active' = active
          BY <1>1, <2>1
    <3> QED BY <3>1
  <2>2. CASE focusFile = Whole([contexts |-> contexts, active |-> active])
    <3>1. focusFile # Nothing /\ focusFile[1] = [contexts |-> contexts, active |-> active]
          BY <2>2, WholeIsNoNothing
    <3>2. /\ contexts' = Restored([contexts |-> contexts, active |-> active]).contexts
          /\ active' = Restored([contexts |-> contexts, active |-> active]).active
          BY <1>1, <3>1
    <3>3. contexts \in Seq(Context) /\ active \in 1 .. Len(contexts)
          BY DEF FocusIInv, WindowFits
    <3> QED BY <3>2, <3>3, RestoredFits
  <2>3. CASE LoadedFrom(focusFile)
    <3>1. contexts' = contexts /\ active' = active
          BY <1>1, <2>3 DEF LoadedFrom
    <3> QED BY <3>1
  <2> QED BY <1>3, <2>1, <2>2, <2>3 DEF FocusIInv, WindowFits
<1>4. WindowFits'
      BY <1>1, <1>2 DEF WindowFits
<1>5. /\ roster' \in Rosters
      /\ (rosterFile = Nothing /\ roster' = Nobody) \/ rosterFile = Whole(roster')
      /\ rosterKept => roster' = roster
  <2>1. CASE rosterFile = Nothing
    <3>1. Nobody \in Rosters
          BY DEF Nobody, Rosters
    <3>2. Whole(roster) # Nothing
          BY WholeIsNoNothing
    <3> QED BY <1>1, <2>1, <3>1, <3>2 DEF FocusIInv, MembersFit
  <2>2. CASE rosterFile # Nothing
    <3>1. PICK r \in Rosters : rosterFile = Whole(r)
          BY <2>2 DEF FocusIInv, MembersFit, RosterFileFits
    <3>2. roster' = r
          BY <1>1, <2>2, <3>1 DEF Whole
    <3>3. ASSUME rosterKept PROVE roster' = roster
      <4>1. rosterFile = Whole(roster)
            BY <2>2, <3>3 DEF FocusIInv, MembersFit
      <4> QED BY <3>1, <3>2, <4>1 DEF Whole
    <3> QED BY <3>1, <3>2, <3>3
  <2> QED BY <2>1, <2>2
<1>6. MembersFit'
  <2>1. notes' \in [Channels -> [Nicks -> {"none", "joined", "left"}]] /\ NotesFollowRoster'
        BY <1>1 DEF NoNotes, NotesFollowRoster
  <2> QED BY <1>1, <1>5, <2>1 DEF FocusIInv, MembersFit, RosterFileFits
<1> QED BY <1>1, <1>3, <1>4, <1>5, <1>6 DEF FocusIInv

LEMMA FocusStarts == FocusInit => FocusIInv
<1> SUFFICES ASSUME FocusInit PROVE FocusIInv
    OBVIOUS
<1> DEFINE c == Channel(MainChannel)
<1>1. c \in Context
      BY FocusAssumption DEF Context
<1>2. contexts = <<c>> /\ active = 1 /\ focusFile = Nothing /\ focusKept = TRUE
      BY DEF FocusInit
<1> HIDE DEF c
<1>3. contexts \in Seq(Context) /\ Len(contexts) = 1 /\ IsInjective(contexts)
      BY <1>1, <1>2, StartsFit
<1>4. WindowFits
  <2>1. shortened = FALSE
        BY DEF FocusInit
  <2>2. Apart(contexts, shortened)
        BY <1>3 DEF Apart
  <2>3. FileFits(focusFile, shortened)
        BY <1>2 DEF FileFits
  <2>4. active \in 1 .. Len(contexts)
        BY <1>2, <1>3
  <2>5. contexts = <<Channel(MainChannel)>>
        BY <1>2 DEF c
  <2> QED BY <1>2, <1>3, <2>1, <2>2, <2>3, <2>4, <2>5 DEF WindowFits
<1>5. MembersFit
  <2>1. roster = Nobody /\ notes = NoNotes /\ misspelt = {} /\ rosterFile = Nothing /\ rosterKept = TRUE
        BY DEF FocusInit
  <2> QED BY <2>1 DEF MembersFit, RosterFileFits, NotesFollowRoster, Nobody, NoNotes, Rosters
<1> QED BY <1>4, <1>5, FocusAssumption DEF FocusIInv, FocusInit

LEMMA FocusTypes == FocusIInv => FocusTypeOK /\ NotesFollowRoster
<1> SUFFICES ASSUME FocusIInv PROVE FocusTypeOK
    BY DEF FocusIInv, MembersFit
<1>1. Len(focusFile) <= 1 /\ Range(focusFile) \subseteq FocusState
  <2>1. CASE focusFile = Nothing
        BY <2>1 DEF Nothing, Range
  <2>2. CASE focusFile # Nothing
    <3>1. PICK list \in Seq(Context), i \in Nat : focusFile = Whole([contexts |-> list, active |-> i])
          BY <2>2 DEF FocusIInv, WindowFits, FileFits
    <3> DEFINE state == [contexts |-> list, active |-> i]
    <3>2. state \in FocusState
          BY DEF FocusState
    <3> HIDE DEF state
    <3>3. focusFile = <<state>>
          BY <3>1 DEF Whole, state
    <3> QED BY <3>2, <3>3 DEF Range
  <2> QED BY <2>1, <2>2
<1>2. Len(rosterFile) <= 1 /\ Range(rosterFile) \subseteq Rosters
  <2>1. CASE rosterFile = Nothing
        BY <2>1 DEF Nothing, Range
  <2>2. CASE rosterFile # Nothing
    <3>1. PICK r \in Rosters : rosterFile = <<r>>
          BY <2>2 DEF FocusIInv, MembersFit, RosterFileFits, Whole
    <3> QED BY <3>1 DEF Range
  <2> QED BY <2>1, <2>2
<1> QED BY <1>1, <1>2 DEF FocusTypeOK, FocusIInv, WindowFits, MembersFit, Apart

\* The user is where they were, after a /part and after a restart, among those they invited and
\* the agent was told of (ui/context.go, ui/membership.go).
THEOREM PlacesStay == FocusSpec => PlacesAreKept
<1> DEFINE FocusBack == ~running /\ running' /\ focusKept =>
                /\ Len(contexts') = Len(contexts) /\ active' = active
                /\ \A i \in DOMAIN contexts : contexts'[i] = contexts[i] \/ Hashed(contexts[i])
           RosterBack == ~running /\ running' /\ rosterKept => roster' = roster
           StaysPut == Len(contexts') < Len(contexts) /\ running /\ running' =>
               \A i \in DOMAIN contexts :
                  ~Contains(contexts', contexts[i]) /\ i > active => contexts'[active'] = Active
<1>1. FocusIInv /\ [FocusNext]_focusVars
        => FocusIInv' /\ [FocusBack]_focusVars /\ [RosterBack]_focusVars /\ [StaysPut]_focusVars
  <2> SUFFICES ASSUME FocusIInv, [FocusNext]_focusVars
               PROVE  /\ FocusIInv'
                      /\ focusVars' = focusVars \/ (FocusBack /\ RosterBack /\ StaysPut)
      OBVIOUS
  <2>0. Len(contexts) \in Nat /\ running \in BOOLEAN
        BY DEF FocusIInv, WindowFits
  <2>1. CASE UNCHANGED focusVars
    <3>1. UNCHANGED <<running, contexts, active, roster, focusFile, rosterFile, faults, focusKept,
                      rosterKept, notes, misspelt, shortened>>
          BY <2>1 DEF focusVars
    <3>2. WindowFits'
          BY <3>1 DEF FocusIInv, WindowFits, LoadedFrom
    <3>3. MembersFit'
          BY <3>1 DEF FocusIInv, MembersFit, RosterFileFits, NotesFollowRoster, Members
    <3> QED BY <2>1, <3>1, <3>2, <3>3 DEF FocusIInv
  <2>2. ASSUME NEW ctx \in Context, Open(ctx)
        PROVE  FocusIInv' /\ FocusBack /\ RosterBack /\ StaysPut
    <3>1. running /\ FocusIInv' /\ Len(contexts') >= Len(contexts)
          BY <2>2, OpenKeeps DEF Open
    <3>2. Len(contexts') \in Nat
          BY <3>1 DEF FocusIInv, WindowFits
    <3> QED BY <2>0, <3>1, <3>2
  <2>3. ASSUME NEW ctx \in Context, Part(ctx)
        PROVE  FocusIInv' /\ FocusBack /\ RosterBack /\ StaysPut
        BY <2>3, PartKeeps DEF Part
  <2>4. ASSUME \/ TurnEnds
               \/ \E n \in Nicks : Kick(n) \/ \E c \in Channels, capitals \in BOOLEAN : Invite(n, c, capitals)
        PROVE  FocusIInv' /\ FocusBack /\ RosterBack /\ StaysPut
    <3>1. running /\ FocusIInv' /\ contexts' = contexts
          BY <2>4, TurnEndsKeeps, MembersKeep DEF TurnEnds, Kick, Invite
    <3> QED BY <2>0, <3>1
  <2>5. CASE Stop \/ KilledInSave
    <3>1. ~running' /\ FocusIInv'
          BY <2>5, StopKeeps DEF Stop, KilledInSave
    <3> QED BY <3>1
  <2>6. CASE Start
    <3>1. ~running /\ FocusIInv'
          BY <2>6, StartKeeps DEF Start
    <3> QED BY <2>6, <3>1, StartKeeps
  <2> QED BY <2>1, <2>2, <2>3, <2>4, <2>5, <2>6 DEF FocusNext
<1> QED BY <1>1, FocusStarts, FocusTypes, PTL
       DEF FocusSpec, PlacesAreKept, RestartKeepsFocus, RestartKeepsRoster, PartKeepsPlace

-----------------------------------------------------------------------------
\* The lines that a write gets: no more than two.
LEMMA FlatOfOne ==
    ASSUME NEW S, NEW a \in S
    PROVE  FlattenSeq(<<a>>) = a
<1> DEFINE f == CHOOSE g : g = [i \in 1 .. Len(<<a>>) |-> IF i = 1 THEN <<a>>[i] ELSE g[i - 1] \o <<a>>[i]]
           h == [i \in 1 .. 1 |-> a]
<1>1. Len(<<a>>) = 1 /\ 1 .. 1 = {1}
      OBVIOUS
<1>2. h = [i \in 1 .. Len(<<a>>) |-> IF i = 1 THEN <<a>>[i] ELSE h[i - 1] \o <<a>>[i]]
      BY <1>1
<1>3. f = [i \in 1 .. Len(<<a>>) |-> IF i = 1 THEN <<a>>[i] ELSE f[i - 1] \o <<a>>[i]]
  <2> HIDE DEF h
  <2> QED BY <1>2
<1>4. FlattenSeq(<<a>>) = f[Len(<<a>>)]
      BY <1>1 DEF FlattenSeq
<1> HIDE DEF f
<1>5. f[1] = a
      BY <1>1, <1>3
<1> QED BY <1>1, <1>4, <1>5

LEMMA FlatOfTwo ==
    ASSUME NEW S, NEW a \in S, NEW b \in S
    PROVE  FlattenSeq(<<a, b>>) = a \o b
<1> DEFINE s == <<a, b>>
           f == CHOOSE g : g = [i \in 1 .. Len(s) |-> IF i = 1 THEN s[i] ELSE g[i - 1] \o s[i]]
           h == [i \in 1 .. 2 |-> IF i = 1 THEN a ELSE a \o b]
<1>1. Len(s) = 2 /\ s[1] = a /\ s[2] = b
      OBVIOUS
<1>2. \A i \in 1 .. 2 : i = 1 \/ (i = 2 /\ i - 1 = 1)
      OBVIOUS
<1>3. h[1] = a /\ h[2] = a \o b
      OBVIOUS
<1>4. h = [i \in 1 .. 2 |-> h[i]]
      OBVIOUS
<1>5. FlattenSeq(s) = f[Len(s)]
      BY <1>1 DEF FlattenSeq
<1> HIDE DEF h, s
<1>6. h = [i \in 1 .. Len(s) |-> IF i = 1 THEN s[i] ELSE h[i - 1] \o s[i]]
      BY <1>1, <1>2, <1>3, <1>4
<1>7. f = [i \in 1 .. Len(s) |-> IF i = 1 THEN s[i] ELSE f[i - 1] \o s[i]]
      BY <1>6
<1> HIDE DEF f
<1>8. f[1] = a
      BY <1>1, <1>7
<1>9. f[2] = f[1] \o b
      BY <1>1, <1>7
<1> QED BY <1>1, <1>5, <1>8, <1>9 DEF s

LEMMA ShortCuts ==
    ASSUME NEW S, NEW a \in S, NEW b \in S
    PROVE  /\ SubSeq(<<>>, 1, 0) = <<>> /\ SubSeq(<<>>, 0 + 1, 0) = <<>>
           /\ SubSeq(<<a>>, 1, 0) = <<>> /\ SubSeq(<<a>>, 1, 1) = <<a>>
           /\ SubSeq(<<a>>, 0 + 1, 1) = <<a>> /\ SubSeq(<<a>>, 1 + 1, 1) = <<>>
           /\ SubSeq(<<a, b>>, 1, 0) = <<>> /\ SubSeq(<<a, b>>, 1, 1) = <<a>>
           /\ SubSeq(<<a, b>>, 1, 2) = <<a, b>> /\ SubSeq(<<a, b>>, 0 + 1, 2) = <<a, b>>
           /\ SubSeq(<<a, b>>, 1 + 1, 2) = <<b>> /\ SubSeq(<<a, b>>, 2 + 1, 2) = <<>>
<1>1. /\ SubSeq(<<>>, 1, 0) = <<>> /\ SubSeq(<<>>, 0 + 1, 0) = <<>>
      /\ SubSeq(<<a>>, 1, 0) = <<>> /\ SubSeq(<<a>>, 1 + 1, 1) = <<>>
      /\ SubSeq(<<a, b>>, 1, 0) = <<>> /\ SubSeq(<<a, b>>, 2 + 1, 2) = <<>>
      BY SubSeqEmpty
<1>2. <<a>> \in Seq(S) /\ <<a, b>> \in Seq(S) /\ Len(<<a>>) = 1 /\ Len(<<a, b>>) = 2
      OBVIOUS
<1>3. SubSeq(<<a>>, 1, 1) = <<a>> /\ SubSeq(<<a, b>>, 1, 2) = <<a, b>>
      BY <1>2, SubSeqFull
<1>4. SubSeq(<<a, b>>, 1, 1) = <<a>> /\ SubSeq(<<a, b>>, 1 + 1, 2) = <<b>>
  <2> DEFINE s == <<a, b>>
  <2>1. s[1] = a /\ s[2] = b
        OBVIOUS
  <2> HIDE DEF s
  <2>2. \A i \in 1 .. 1 : s[i] \in S
        BY <2>1
  <2>3. \A i \in 2 .. 2 : s[i] \in S
        BY <2>1
  <2>4. SubSeq(s, 1, 1) \in Seq(S) /\ Len(SubSeq(s, 1, 1)) = 1 /\ SubSeq(s, 1, 1)[1] = a
        BY <2>1, <2>2, SubSeqProperties
  <2>5. SubSeq(s, 2, 2) \in Seq(S) /\ Len(SubSeq(s, 2, 2)) = 1 /\ SubSeq(s, 2, 2)[1] = b
        BY <2>1, <2>3, SubSeqProperties
  <2>6. <<a>> \in Seq(S) /\ <<b>> \in Seq(S) /\ Len(<<a>>) = 1 /\ Len(<<b>>) = 1 /\ <<a>>[1] = a /\ <<b>>[1] = b
        OBVIOUS
  <2>7. \A i \in 1 .. 1 : i = 1
        OBVIOUS
  <2>8. SubSeq(s, 1, 1) = <<a>>
        BY <2>4, <2>6, <2>7, SeqEqual
  <2>9. SubSeq(s, 2, 2) = <<b>>
        BY <2>5, <2>6, <2>7, SeqEqual
  <2> QED BY <2>8, <2>9 DEF s
<1> QED BY <1>1, <1>3, <1>4

LEMMA ToSetOf ==
    ASSUME NEW S, NEW a \in Seq(S), NEW b \in Seq(S)
    PROVE  ToSet(a \o b) = ToSet(a) \cup ToSet(b)
<1>1. /\ a \o b \in Seq(S) /\ Len(a \o b) = Len(a) + Len(b)
      /\ \A i \in 1 .. Len(a) + Len(b) : (a \o b)[i] = IF i <= Len(a) THEN a[i] ELSE b[i - Len(a)]
      BY ConcatProperties
<1>2. Len(a) \in Nat /\ Len(b) \in Nat /\ DOMAIN a = 1 .. Len(a) /\ DOMAIN b = 1 .. Len(b)
      BY LenProperties
<1>3. DOMAIN (a \o b) = 1 .. Len(a) + Len(b)
      BY <1>1, LenProperties
<1> DEFINE c == a \o b
<1> HIDE DEF c
<1>4. ASSUME NEW i \in 1 .. Len(a) + Len(b) PROVE c[i] \in ToSet(a) \cup ToSet(b)
  <2>1. CASE i <= Len(a)
    <3>1. i \in DOMAIN a /\ c[i] = a[i]
          BY <1>1, <1>2, <2>1 DEF c
    <3> QED BY <3>1 DEF ToSet
  <2>2. CASE ~(i <= Len(a))
    <3>1. i - Len(a) \in DOMAIN b /\ c[i] = b[i - Len(a)]
          BY <1>1, <1>2, <2>2 DEF c
    <3> QED BY <3>1 DEF ToSet
  <2> QED BY <2>1, <2>2
<1>5. ASSUME NEW i \in DOMAIN a PROVE a[i] \in ToSet(c)
  <2>1. i \in DOMAIN c /\ c[i] = a[i]
        BY <1>1, <1>2, <1>3 DEF c
  <2> QED BY <2>1 DEF ToSet
<1>6. ASSUME NEW i \in DOMAIN b PROVE b[i] \in ToSet(c)
  <2>1. i + Len(a) \in DOMAIN c /\ c[i + Len(a)] = b[i]
    <3>1. i + Len(a) \in 1 .. Len(a) + Len(b) /\ ~(i + Len(a) <= Len(a)) /\ (i + Len(a)) - Len(a) = i
          BY <1>2
    <3> QED BY <1>1, <1>3, <3>1 DEF c
  <2> QED BY <2>1 DEF ToSet
<1>7. ToSet(c) \subseteq ToSet(a) \cup ToSet(b)
      BY <1>3, <1>4 DEF ToSet, c
<1>8. ToSet(a) \subseteq ToSet(c) /\ ToSet(b) \subseteq ToSet(c)
      BY <1>5, <1>6 DEF ToSet
<1> QED BY <1>7, <1>8 DEF c

LEMMA ToSetOfFew ==
    ASSUME NEW a
    PROVE  ToSet(<<>>) = {} /\ ToSet(<<a>>) = {a}
<1>1. DOMAIN <<>> = {} /\ DOMAIN <<a>> = {1} /\ <<a>>[1] = a
      OBVIOUS
<1> QED BY <1>1 DEF ToSet

LEMMA ToSetIn ==
    ASSUME NEW S, NEW a \in Seq(S)
    PROVE  ToSet(a) \subseteq S
BY DEF ToSet

\* What a write leaves out is lost, and the rest is in the log.
Wrote(text) ==
    \E w, r \in Text : w \o r = text /\ log' = log \o w /\ lost' = lost \cup ToSet(r)

LEMMA WriteSplits ==
    ASSUME NEW a \in Text, NEW b \in Text, log \in Text
    PROVE  /\ Write(<<>>) => Wrote(<<>>)
           /\ Write(<<a>>) => Wrote(a)
           /\ Write(<<a, b>>) => Wrote(a \o b)
<1>0. Len(<<>>) = 0 /\ Len(<<a>>) = 1 /\ Len(<<a, b>>) = 2 /\ 0 .. 0 = {0} /\ 0 .. 1 = {0, 1} /\ 0 .. 2 = {0, 1, 2}
      OBVIOUS
<1>1. /\ FlattenSeq(<<>>) = <<>> /\ FlattenSeq(<<a>>) = a /\ FlattenSeq(<<b>>) = b
      /\ FlattenSeq(<<a, b>>) = a \o b
  <2>1. FlattenSeq(<<>>) = <<>>
        BY <1>0 DEF FlattenSeq
  <2> QED BY <2>1, FlatOfOne, FlatOfTwo
<1>2. /\ SubSeq(<<>>, 1, 0) = <<>> /\ SubSeq(<<>>, 0 + 1, 0) = <<>>
      /\ SubSeq(<<a>>, 1, 0) = <<>> /\ SubSeq(<<a>>, 1, 1) = <<a>>
      /\ SubSeq(<<a>>, 0 + 1, 1) = <<a>> /\ SubSeq(<<a>>, 1 + 1, 1) = <<>>
      /\ SubSeq(<<a, b>>, 1, 0) = <<>> /\ SubSeq(<<a, b>>, 1, 1) = <<a>>
      /\ SubSeq(<<a, b>>, 1, 2) = <<a, b>> /\ SubSeq(<<a, b>>, 0 + 1, 2) = <<a, b>>
      /\ SubSeq(<<a, b>>, 1 + 1, 2) = <<b>> /\ SubSeq(<<a, b>>, 2 + 1, 2) = <<>>
      BY ShortCuts
<1>3. <<>> \in Text /\ a \o b \in Text
      BY EmptySeq, ConcatProperties DEF Text
<1>4. /\ <<>> \o <<>> = <<>> /\ a \o <<>> = a /\ <<>> \o a = a
      /\ (a \o b) \o <<>> = a \o b /\ <<>> \o (a \o b) = a \o b
      BY <1>3, ConcatEmptySeq DEF Text
<1>5. ASSUME Write(<<>>) PROVE Wrote(<<>>)
  <2>1. log' = log \o <<>> /\ lost' = lost \cup ToSet(<<>>)
        BY <1>0, <1>1, <1>2, <1>5 DEF Write
  <2> QED BY <1>3, <1>4, <2>1 DEF Wrote
<1>6. ASSUME Write(<<a>>) PROVE Wrote(a)
  <2>1. PICK k \in {0, 1} : /\ log' = log \o FlattenSeq(SubSeq(<<a>>, 1, k))
                            /\ lost' = lost \cup ToSet(FlattenSeq(SubSeq(<<a>>, k + 1, 1)))
        BY <1>0, <1>6 DEF Write
  <2>2. \/ log' = log \o <<>> /\ lost' = lost \cup ToSet(a)
        \/ log' = log \o a /\ lost' = lost \cup ToSet(<<>>)
        BY <1>1, <1>2, <2>1
  <2> QED BY <1>3, <1>4, <2>2 DEF Wrote
<1>7. ASSUME Write(<<a, b>>) PROVE Wrote(a \o b)
  <2>1. PICK k \in {0, 1, 2} :
            /\ log' = log \o FlattenSeq(SubSeq(<<a, b>>, 1, k))
            /\ lost' = lost \cup ToSet(FlattenSeq(SubSeq(<<a, b>>, k + 1, 2)))
        BY <1>0, <1>7 DEF Write
  <2>2. \/ log' = log \o <<>> /\ lost' = lost \cup ToSet(a \o b)
        \/ log' = log \o a /\ lost' = lost \cup ToSet(b)
        \/ log' = log \o (a \o b) /\ lost' = lost \cup ToSet(<<>>)
        BY <1>1, <1>2, <2>1
  <2> QED BY <1>3, <1>4, <2>2 DEF Wrote
<1> QED BY <1>5, <1>6, <1>7

LEMMA PairOf ==
    ASSUME NEW S, NEW a \in S, NEW b \in S
    PROVE  <<a>> \o <<b>> = <<a, b>>
<1> DEFINE c == <<a>> \o <<b>>
           d == <<a, b>>
<1>1. <<a>> \in Seq(S) /\ <<b>> \in Seq(S) /\ Len(<<a>>) = 1 /\ Len(<<b>>) = 1 /\ <<a>>[1] = a /\ <<b>>[1] = b
      OBVIOUS
<1>2. c \in Seq(S) /\ Len(c) = 1 + 1 /\ \A i \in 1 .. 1 + 1 : c[i] = IF i <= 1 THEN <<a>>[i] ELSE <<b>>[i - 1]
      BY <1>1, ConcatProperties
<1>3. d \in Seq(S) /\ Len(d) = 2 /\ d[1] = a /\ d[2] = b
      OBVIOUS
<1> HIDE DEF c, d
<1>4. c[1] = <<a>>[1] /\ c[2] = <<b>>[1] /\ Len(c) = 2
      BY <1>2
<1>5. \A i \in 1 .. Len(c) : i = 1 \/ i = 2
      BY <1>4
<1>6. c = d
      BY <1>1, <1>2, <1>3, <1>4, <1>5, SeqEqual
<1> QED BY <1>6 DEF c, d

LogFits ==
    /\ log \in Text /\ logBuf \in Text
    /\ streamActive \in BOOLEAN /\ (streamActive <=> logBuf # <<>>)
    /\ arrivals \in 0 .. MaxArrivals /\ unseen \subseteq 1 .. MaxArrivals /\ lost \subseteq 1 .. MaxArrivals
    /\ LogInOrder /\ LogIsComplete

\* The buffered answer goes first, and then the message.
LEMMA FlushSplits ==
    ASSUME LogFits, NEW new \in Text, NEW lines,
           (lines = <<>> /\ new = <<>>) \/ lines = <<new>>, Flush(lines)
    PROVE  Wrote(logBuf \o new) /\ logBuf' = <<>> /\ streamActive' = FALSE
<1>1. log \in Text /\ logBuf \in Text /\ (streamActive <=> logBuf # <<>>)
      BY DEF LogFits
<1>2. logBuf' = <<>> /\ streamActive' = FALSE
      BY DEF Flush
<1>3. CASE streamActive /\ lines = <<new>>
  <2>1. <<logBuf>> \o <<new>> = <<logBuf, new>>
        BY <1>1, PairOf
  <2>2. Write(<<logBuf, new>>)
        BY <1>3, <2>1 DEF Flush
  <2> QED BY <1>1, <1>2, <2>2, WriteSplits
<1>4. CASE streamActive /\ lines = <<>> /\ new = <<>>
  <2>1. <<logBuf>> \o <<>> = <<logBuf>>
        OBVIOUS
  <2>2. Write(<<logBuf>>)
        BY <1>4, <2>1 DEF Flush
  <2>3. logBuf \o new = logBuf
        BY <1>1, <1>4, ConcatEmptySeq DEF Text
  <2> QED BY <1>1, <1>2, <2>2, <2>3, WriteSplits
<1>5. CASE ~streamActive /\ lines = <<new>>
  <2>1. Write(<<new>>)
        BY <1>5 DEF Flush
  <2>2. logBuf \o new = new
        BY <1>1, <1>5, ConcatEmptySeq DEF Text
  <2> QED BY <1>1, <1>2, <2>1, <2>2, WriteSplits
<1>6. CASE ~streamActive /\ lines = <<>> /\ new = <<>>
  <2>1. Write(<<>>)
        BY <1>6 DEF Flush
  <2>2. logBuf \o new = <<>>
        BY <1>1, <1>6, ConcatEmptySeq DEF Text
  <2> QED BY <1>1, <1>2, <2>1, <2>2, WriteSplits
<1> QED BY <1>3, <1>4, <1>5, <1>6

InOrder(s) == \A i, j \in DOMAIN s : i < j => s[i] < s[j]

LEMMA BeginningInOrder ==
    ASSUME NEW a \in Text, NEW b \in Text, InOrder(a \o b)
    PROVE  InOrder(a)
<1>1. /\ a \o b \in Text /\ Len(a \o b) = Len(a) + Len(b)
      /\ \A i \in 1 .. Len(a) + Len(b) : (a \o b)[i] = IF i <= Len(a) THEN a[i] ELSE b[i - Len(a)]
      BY ConcatProperties DEF Text
<1>2. Len(a) \in Nat /\ Len(b) \in Nat /\ DOMAIN a = 1 .. Len(a) /\ DOMAIN (a \o b) = 1 .. Len(a \o b)
      BY <1>1, LenProperties DEF Text
<1> SUFFICES ASSUME NEW i \in DOMAIN a, NEW j \in DOMAIN a, i < j PROVE a[i] < a[j]
    BY DEF InOrder
<1>3. i \in DOMAIN (a \o b) /\ j \in DOMAIN (a \o b)
      BY <1>1, <1>2
<1>4. (a \o b)[i] = a[i] /\ (a \o b)[j] = a[j]
      BY <1>1, <1>2
<1> QED BY <1>3, <1>4 DEF InOrder

LEMMA NextInOrder ==
    ASSUME NEW a \in Text, NEW n \in 0 .. MaxArrivals, InOrder(a), \A x \in ToSet(a) : x < n
    PROVE  InOrder(a \o <<n>>) /\ a \o <<n>> \in Text
<1> DEFINE c == Append(a, n)
<1>1. /\ c \in Text /\ Len(c) = Len(a) + 1 /\ c[Len(a) + 1] = n
      /\ \A i \in 1 .. Len(a) : c[i] = a[i]
      BY AppendProperties DEF Text
<1>2. c = a \o <<n>>
      BY AppendIsConcat DEF Text
<1>3. Len(a) \in Nat /\ DOMAIN a = 1 .. Len(a) /\ DOMAIN c = 1 .. Len(c)
      BY <1>1, LenProperties DEF Text
<1> HIDE DEF c
<1>4. ASSUME NEW i \in DOMAIN c, NEW j \in DOMAIN c, i < j PROVE c[i] < c[j]
  <2>1. i \in 1 .. Len(a) /\ (j \in 1 .. Len(a) \/ j = Len(a) + 1)
        BY <1>1, <1>3, <1>4
  <2>2. CASE j \in 1 .. Len(a)
    <3>1. a[i] < a[j]
          BY <1>3, <1>4, <2>1, <2>2 DEF InOrder
    <3> QED BY <1>1, <2>1, <2>2, <3>1
  <2>3. CASE j = Len(a) + 1
    <3>1. a[i] \in ToSet(a)
          BY <1>3, <2>1 DEF ToSet
    <3> QED BY <1>1, <2>1, <2>3, <3>1
  <2> QED BY <2>1, <2>2, <2>3
<1> QED BY <1>1, <1>2, <1>4 DEF InOrder

LEMMA JoinedTexts ==
    ASSUME NEW a \in Text, NEW b \in Text
    PROVE  a \o b \in Text /\ ToSet(a \o b) = ToSet(a) \cup ToSet(b)
BY ConcatProperties, ToSetOf DEF Text

LEMMA ThreeTexts ==
    ASSUME NEW a \in Text, NEW b \in Text, NEW c \in Text
    PROVE  (a \o b) \o c = a \o (b \o c)
BY ConcatAssociative DEF Text

\* What the log and the buffer hold, with the next message.
LEMMA LoggedWith ==
    ASSUME LogFits, NEW new \in Text,
           \/ new = <<>> /\ arrivals' = arrivals
           \/ arrivals' = arrivals + 1 /\ arrivals' <= MaxArrivals /\ new = <<arrivals'>>
    PROVE  /\ arrivals' \in 0 .. MaxArrivals
           /\ Logged \in Text /\ Logged \o new \in Text /\ InOrder(Logged \o new)
           /\ ToSet(Logged \o new) \subseteq 1 .. arrivals'
           /\ 1 .. arrivals' = ToSet(Logged \o new) \cup unseen \cup lost
<1>0. MaxArrivals \in Nat /\ arrivals \in 0 .. MaxArrivals
      BY ViewAssumption DEF LogFits
<1>1. Logged \in Text
      BY ConcatProperties DEF LogFits, Logged, Text
<1>2. InOrder(Logged)
      BY DEF LogFits, LogInOrder, InOrder
<1>3. 1 .. arrivals = ToSet(Logged) \cup unseen \cup lost
      BY DEF LogFits, LogIsComplete
<1>4. CASE new = <<>> /\ arrivals' = arrivals
  <2>1. Logged \o new = Logged
        BY <1>1, <1>4, ConcatEmptySeq DEF Text
  <2> QED BY <1>0, <1>1, <1>2, <1>3, <1>4, <2>1
<1>5. CASE arrivals' = arrivals + 1 /\ arrivals' <= MaxArrivals /\ new = <<arrivals'>>
  <2>0. arrivals' \in 0 .. MaxArrivals
        BY <1>0, <1>5
  <2>1. \A x \in ToSet(Logged) : x < arrivals'
    <3>1. \A x \in 1 .. arrivals : x < arrivals'
          BY <1>0, <1>5
    <3> QED BY <1>3, <3>1
  <2>2. InOrder(Logged \o <<arrivals'>>) /\ Logged \o <<arrivals'>> \in Text
        BY <1>1, <1>2, <2>0, <2>1, NextInOrder
  <2>3. ToSet(Logged \o new) = ToSet(Logged) \cup {arrivals'}
    <3>1. ToSet(Logged \o new) = ToSet(Logged) \cup ToSet(new)
          BY <1>1, JoinedTexts
    <3>2. ToSet(new) = {arrivals'}
          BY <1>5, ToSetOfFew
    <3> QED BY <3>1, <3>2
  <2>4. 1 .. arrivals' = 1 .. arrivals \cup {arrivals'}
        BY <1>0, <1>5
  <2>5. 1 .. arrivals' = ToSet(Logged \o new) \cup unseen \cup lost
        BY <1>3, <2>3, <2>4
  <2> QED BY <1>1, <1>5, <2>0, <2>2, <2>5
<1> QED BY <1>4, <1>5

LEMMA LogFlushed ==
    ASSUME LogFits, NEW new \in Text,
           \/ new = <<>> /\ arrivals' = arrivals
           \/ arrivals' = arrivals + 1 /\ arrivals' <= MaxArrivals /\ new = <<arrivals'>>,
           Wrote(logBuf \o new), logBuf' = <<>>, streamActive' = FALSE, unseen' = unseen
    PROVE  LogFits'
<1> DEFINE all == Logged \o new
<1>1. /\ arrivals' \in 0 .. MaxArrivals /\ all \in Text /\ InOrder(all)
      /\ ToSet(all) \subseteq 1 .. arrivals' /\ 1 .. arrivals' = ToSet(all) \cup unseen \cup lost
      BY LoggedWith
<1>2. PICK w \in Text, r \in Text :
          w \o r = logBuf \o new /\ log' = log \o w /\ lost' = lost \cup ToSet(r)
      BY DEF Wrote
<1>3. log \in Text /\ logBuf \in Text
      BY DEF LogFits
<1>4. all = log' \o r /\ log' \in Text
  <2>1. (log \o logBuf) \o new = log \o (logBuf \o new)
        BY <1>3, ThreeTexts
  <2>2. (log \o w) \o r = log \o (w \o r)
        BY <1>2, <1>3, ThreeTexts
  <2>3. log \o w \in Text
        BY <1>2, <1>3, JoinedTexts
  <2> QED BY <1>2, <2>1, <2>2, <2>3 DEF Logged
<1> HIDE DEF all
<1>5. InOrder(log')
      BY <1>1, <1>2, <1>4, BeginningInOrder
<1>6. ToSet(all) = ToSet(log') \cup ToSet(r)
      BY <1>2, <1>4, JoinedTexts
<1>7. <<>> \in Text /\ Logged' = log'
  <2>1. <<>> \in Text
        BY EmptySeq DEF Text
  <2>2. log' \o <<>> = log'
        BY <1>4, ConcatEmptySeq DEF Text
  <2> QED BY <2>1, <2>2 DEF Logged
<1>8. LogInOrder'
  <2>1. \A i, j \in DOMAIN log' : i < j => (log')[i] < (log')[j]
        BY <1>5 DEF InOrder
  <2> QED BY <1>7, <2>1 DEF LogInOrder
<1>9. LogIsComplete'
      BY <1>1, <1>2, <1>6, <1>7 DEF LogIsComplete
<1>10. lost' \subseteq 1 .. MaxArrivals
  <2>1. 1 .. arrivals' \subseteq 1 .. MaxArrivals
        BY <1>1, ViewAssumption
  <2> QED BY <1>1, <1>2, <1>6, <2>1 DEF LogFits
<1> QED BY <1>1, <1>4, <1>7, <1>8, <1>9, <1>10 DEF LogFits

\* A chunk goes to the buffer, or no message takes it in.
LEMMA LogChunk ==
    ASSUME LogFits, arrivals' = arrivals + 1, arrivals' <= MaxArrivals,
           \/ AppendAgentChunk(arrivals') /\ UNCHANGED unseen
           \/ unseen' = unseen \cup {arrivals'} /\ UNCHANGED logVars
    PROVE  LogFits'
<1> DEFINE new == <<arrivals'>>
<1>0. arrivals' \in 0 .. MaxArrivals /\ arrivals' \in 1 .. MaxArrivals
      BY ViewAssumption DEF LogFits
<1>1. new \in Text
      BY <1>0, AppendProperties, EmptySeq DEF Text
<1>2. /\ Logged \in Text /\ Logged \o new \in Text /\ InOrder(Logged \o new)
      /\ ToSet(Logged \o new) \subseteq 1 .. arrivals'
      /\ 1 .. arrivals' = ToSet(Logged \o new) \cup unseen \cup lost
      BY <1>1, LoggedWith
<1>3. log \in Text /\ logBuf \in Text
      BY DEF LogFits
<1>4. CASE AppendAgentChunk(arrivals') /\ UNCHANGED unseen
  <2>1. /\ logBuf' = Append(logBuf, arrivals') /\ streamActive' = TRUE
        /\ UNCHANGED <<log, lost>>
        BY <1>4 DEF AppendAgentChunk
  <2>2. logBuf' \in Text /\ logBuf' # <<>> /\ logBuf' = logBuf \o new
        BY <1>0, <1>3, <2>1, AppendProperties, AppendIsConcat DEF Text
  <2>3. (log \o logBuf) \o new = log \o (logBuf \o new)
        BY <1>1, <1>3, ThreeTexts
  <2>4. Logged' = Logged \o new
        BY <2>1, <2>2, <2>3 DEF Logged
  <2>5. LogInOrder'
    <3> DEFINE all == Logged \o new
    <3>1. InOrder(all) /\ Logged' = all
          BY <1>2, <2>4
    <3> HIDE DEF all
    <3> QED BY <3>1 DEF LogInOrder, InOrder
  <2>6. LogIsComplete'
        BY <1>2, <1>4, <2>1, <2>4 DEF LogIsComplete
  <2> QED BY <1>0, <1>4, <2>1, <2>2, <2>5, <2>6 DEF LogFits
<1>5. CASE unseen' = unseen \cup {arrivals'} /\ UNCHANGED logVars
  <2>1. UNCHANGED <<log, logBuf, streamActive, lost>>
        BY <1>5 DEF logVars
  <2>2. Logged' = Logged
        BY <2>1 DEF Logged
  <2>3. LogInOrder'
        BY <2>2 DEF LogFits, LogInOrder
  <2>4. LogIsComplete'
    <3>1. ToSet(Logged \o new) = ToSet(Logged) \cup {arrivals'}
      <4>1. ToSet(Logged \o new) = ToSet(Logged) \cup ToSet(new)
            BY <1>1, <1>2, JoinedTexts
      <4>2. ToSet(new) = {arrivals'}
            BY ToSetOfFew
      <4> QED BY <4>1, <4>2
    <3> QED BY <1>2, <1>5, <2>1, <2>2, <3>1 DEF LogIsComplete
  <2> QED BY <1>0, <1>5, <2>1, <2>3, <2>4 DEF LogFits
<1> QED BY <1>4, <1>5

LEMMA LogStays ==
    ASSUME LogFits, UNCHANGED <<logVars, arrivals, unseen>>
    PROVE  LogFits'
<1>1. UNCHANGED <<log, logBuf, streamActive, lost, arrivals, unseen>>
      BY DEF logVars
<1>2. Logged' = Logged
      BY <1>1 DEF Logged
<1>3. LogInOrder' /\ LogIsComplete'
      BY <1>1, <1>2 DEF LogFits, LogInOrder, LogIsComplete
<1> QED BY <1>1, <1>3 DEF LogFits

Bubble == [kind : Kind, text : Text]

\* While the model is thinking or answers, its placeholder or its answer is at the end of the
\* list; the buffer holds all chunks of the step.
ScreenFits ==
    /\ turnRuns \in BOOLEAN /\ begun \in BOOLEAN /\ disturbed \in BOOLEAN
    /\ messages \in Seq(Bubble)
    /\ {streamBuffer, answer, stepText, turnText} \subseteq Text
    /\ turnStart \in 1 .. Len(messages) + 1
    /\ turnRuns => turnStart \in 1 .. Len(messages)
    /\ turnRuns /\ ~begun => stepText = <<>>
    /\ turnRuns /\ begun => ToSet(stepText) \subseteq ToSet(streamBuffer)
    /\ turnRuns /\ begun /\ ~disturbed => LastIs("think") \/ LastIs("agent")
    /\ StepIsShown

ViewIInv == LogFits /\ ScreenFits

\* The rows above those of the turn stay.
AboveStays ==
    Agents(messages) \cap turnStart .. Len(messages) # {} =>
        \A i \in 1 .. turnStart - 1 : messages'[i] = messages[i]

LEMMA BubblesOf ==
    ASSUME NEW kind \in Kind, NEW text \in Text
    PROVE  Message(kind, text) \in Bubble /\ Message(kind, text).kind = kind /\ Message(kind, text).text = text
BY DEF Message, Bubble

LEMMA KindsAre == "think" \in Kind /\ "agent" \in Kind /\ "other" \in Kind /\ "think" # "agent"
BY DEF Kind

LEMMA ShortTexts ==
    ASSUME NEW n \in 0 .. MaxArrivals
    PROVE  <<>> \in Text /\ <<n>> \in Text /\ \A t \in Text : Append(t, n) \in Text
BY EmptySeq, AppendProperties DEF Text

LEMMA BubbleAdded ==
    ASSUME NEW s \in Seq(Bubble), NEW b \in Bubble
    PROVE  /\ Append(s, b) \in Seq(Bubble) /\ Len(Append(s, b)) = Len(s) + 1 /\ Append(s, b) # <<>>
           /\ \A i \in 1 .. Len(s) : Append(s, b)[i] = s[i]
           /\ Append(s, b)[Len(s) + 1] = b
           /\ Last(Append(s, b)) = b /\ Len(s) \in Nat
<1>1. /\ Append(s, b) \in Seq(Bubble) /\ Len(Append(s, b)) = Len(s) + 1 /\ Append(s, b) # <<>>
      /\ \A i \in 1 .. Len(s) : Append(s, b)[i] = s[i]
      /\ Append(s, b)[Len(s) + 1] = b
      BY AppendProperties
<1>2. Last(Append(s, b)) = b
      BY <1>1 DEF Last
<1> QED BY <1>1, <1>2, LenProperties

EndingIn(s, b) == Front(s) \o <<b>>

LEMMA LastReplaced ==
    ASSUME NEW s \in Seq(Bubble), s # <<>>, NEW b \in Bubble
    PROVE  /\ EndingIn(s, b) \in Seq(Bubble) /\ Len(EndingIn(s, b)) = Len(s)
           /\ EndingIn(s, b) # <<>> /\ Len(s) \in Nat \ {0}
           /\ \A i \in 1 .. Len(s) - 1 : EndingIn(s, b)[i] = s[i]
           /\ EndingIn(s, b)[Len(s)] = b /\ Last(EndingIn(s, b)) = b
<1> DEFINE f == Front(s)
           n == Len(s)
<1>1. n \in Nat \ {0}
      BY EmptySeq
<1>2. f \in Seq(Bubble) /\ Len(f) = n - 1 /\ \A i \in 1 .. n - 1 : f[i] = s[i]
  <2>1. \A i \in 1 .. n - 1 : s[i] \in Bubble
        BY <1>1, ElementOfSeq
  <2>2. SubSeq(s, 1, n - 1) \in Seq(Bubble) /\ Len(SubSeq(s, 1, n - 1)) = IF 1 <= n - 1 THEN n - 1 - 1 + 1 ELSE 0
        BY <1>1, <2>1, SubSeqProperties
  <2>3. \A i \in 1 .. n - 1 - 1 + 1 : SubSeq(s, 1, n - 1)[i] = s[1 + i - 1]
        BY <1>1, <2>1, SubSeqProperties
  <2> DEFINE g == SubSeq(s, 1, n - 1)
  <2>4. g \in Seq(Bubble) /\ Len(g) = n - 1
    <3>1. (IF 1 <= n - 1 THEN n - 1 - 1 + 1 ELSE 0) = n - 1
      <4> HIDE DEF n
      <4> QED BY <1>1
    <3> HIDE DEF n
    <3> QED BY <2>2, <3>1
  <2>5. \A i \in 1 .. n - 1 : g[i] = s[i]
    <3>1. n - 1 - 1 + 1 = n - 1 /\ \A i \in 1 .. n - 1 : 1 + i - 1 = i
          BY <1>1
    <3> HIDE DEF n
    <3> QED BY <2>3, <3>1
  <2> QED BY <2>4, <2>5 DEF Front
<1> HIDE DEF f, n
<1>3. <<b>> \in Seq(Bubble) /\ Len(<<b>>) = 1 /\ <<b>>[1] = b
      OBVIOUS
<1> DEFINE c == <<b>>
           t == EndingIn(s, b)
<1>4. t = f \o c /\ c \in Seq(Bubble) /\ Len(c) = 1 /\ c[1] = b
      BY <1>3 DEF f, EndingIn
<1> HIDE DEF c, t
<1>4a. /\ f \o c \in Seq(Bubble) /\ Len(f \o c) = Len(f) + Len(c)
       /\ \A i \in 1 .. Len(f) + Len(c) : (f \o c)[i] = IF i <= Len(f) THEN f[i] ELSE c[i - Len(f)]
      BY <1>2, <1>4, ConcatProperties
<1>5. /\ t \in Seq(Bubble) /\ Len(t) = (n - 1) + 1
      /\ \A i \in 1 .. (n - 1) + 1 : t[i] = IF i <= n - 1 THEN f[i] ELSE c[i - (n - 1)]
      BY <1>2, <1>4, <1>4a
<1>6. (n - 1) + 1 = n /\ \A i \in 1 .. n - 1 : i \in 1 .. n /\ i <= n - 1
      BY <1>1
<1>7. n \in 1 .. n /\ ~(n <= n - 1) /\ n - (n - 1) = 1
      BY <1>1
<1>8. Len(t) = n /\ \A i \in 1 .. n - 1 : t[i] = s[i]
      BY <1>2, <1>5, <1>6
<1>9. t[n] = b
      BY <1>4, <1>5, <1>6, <1>7
<1>10. Last(t) = b
      BY <1>8, <1>9 DEF Last
<1>11. t # <<>>
      BY <1>1, <1>8, EmptySeq
<1> QED BY <1>1, <1>5, <1>8, <1>9, <1>10, <1>11 DEF n, t

\* The list with a message added and nothing else, and what it does to a turn.
LEMMA AddedAbove ==
    ASSUME ScreenFits, NEW b \in Bubble, messages' = Append(messages, b)
    PROVE  AboveStays
<1>1. \A i \in 1 .. Len(messages) : messages'[i] = messages[i]
      BY BubbleAdded DEF ScreenFits
<1>2. turnStart \in 1 .. Len(messages) + 1 /\ Len(messages) \in Nat
      BY LenProperties DEF ScreenFits
<1>3. \A i \in 1 .. turnStart - 1 : i \in 1 .. Len(messages)
      BY <1>2
<1> QED BY <1>1, <1>3 DEF AboveStays

\* A message of another kind.
LEMMA OtherAdded ==
    ASSUME ViewIInv, Arrives, AddOther, unseen' = unseen
    PROVE  /\ LogFits' /\ AboveStays /\ disturbed' = TRUE
           /\ messages' \in Seq(Bubble) /\ Len(messages') = Len(messages) + 1
<1>1. arrivals' = arrivals + 1 /\ arrivals' <= MaxArrivals /\ arrivals' \in 0 .. MaxArrivals
      BY ViewAssumption DEF Arrives, ViewIInv, LogFits
<1>2. <<arrivals'>> \in Text
      BY <1>1, ShortTexts
<1>3. Message("other", <<arrivals'>>) \in Bubble
      BY <1>2, KindsAre, BubblesOf
<1>4. messages' = Append(messages, Message("other", <<arrivals'>>))
      BY DEF AddOther
<1>5. messages' \in Seq(Bubble) /\ Len(messages') = Len(messages) + 1
      BY <1>3, <1>4, BubbleAdded DEF ViewIInv, ScreenFits
<1>6. AboveStays
      BY <1>3, <1>4, AddedAbove DEF ViewIInv
<1>7. Flush(<<<<arrivals'>>>>) /\ disturbed' = TRUE
      BY DEF AddOther
<1>8. Wrote(logBuf \o <<arrivals'>>) /\ logBuf' = <<>> /\ streamActive' = FALSE
      BY <1>2, <1>7, FlushSplits DEF ViewIInv
<1>9. LogFits'
      BY <1>1, <1>2, <1>8, LogFlushed DEF ViewIInv
<1> QED BY <1>5, <1>6, <1>7, <1>9

LEMMA SendKeeps ==
    ASSUME ViewIInv, Send
    PROVE  ViewIInv' /\ AboveStays
<1>1. /\ LogFits' /\ AboveStays /\ disturbed' = TRUE
      /\ messages' \in Seq(Bubble) /\ Len(messages') = Len(messages) + 1
      BY OtherAdded DEF Send
<1>2. /\ turnRuns' = TRUE /\ begun' = FALSE /\ turnStart' = Len(messages) + 1
      /\ stepText' = <<>> /\ turnText' = <<>>
      /\ UNCHANGED <<streamBuffer, answer>>
      BY DEF Send
<1>3. <<>> \in Text /\ Len(messages) \in Nat
      BY EmptySeq, LenProperties DEF Text, ViewIInv, ScreenFits
<1>4. turnStart' \in 1 .. Len(messages')
      BY <1>1, <1>2, <1>3
<1>5. turnStart' \in 1 .. Len(messages') + 1
      BY <1>1, <1>2, <1>3
<1>6. StepIsShown'
      BY <1>2 DEF StepIsShown
<1>7. {streamBuffer, answer, stepText, turnText}' \subseteq Text
      BY <1>2, <1>3 DEF ViewIInv, ScreenFits
<1> QED BY <1>1, <1>2, <1>4, <1>5, <1>6, <1>7 DEF ViewIInv, ScreenFits

LEMMA OtherKeeps ==
    ASSUME ViewIInv, Other \/ InterruptTurn
    PROVE  ViewIInv' /\ AboveStays
<1>1. /\ LogFits' /\ AboveStays /\ disturbed' = TRUE
      /\ messages' \in Seq(Bubble) /\ Len(messages') = Len(messages) + 1
      BY OtherAdded DEF Other, InterruptTurn
<1>2. /\ turnRuns' = turnRuns \/ turnRuns' = FALSE
      /\ UNCHANGED <<begun, turnStart, stepText, turnText, streamBuffer, answer>>
      BY DEF Other, InterruptTurn
<1>3. Len(messages) \in Nat /\ turnStart \in 1 .. Len(messages) + 1
      BY LenProperties DEF ViewIInv, ScreenFits
<1>4. turnStart' \in 1 .. Len(messages')
      BY <1>1, <1>2, <1>3
<1>5. turnStart' \in 1 .. Len(messages') + 1
      BY <1>1, <1>2, <1>3
<1>6. StepIsShown'
      BY <1>1 DEF StepIsShown
<1>7. {streamBuffer, answer, stepText, turnText}' \subseteq Text
      BY <1>2 DEF ViewIInv, ScreenFits
<1>8. turnRuns' \in BOOLEAN /\ begun' \in BOOLEAN
      BY <1>2 DEF ViewIInv, ScreenFits
<1>9. /\ turnRuns' /\ ~begun' => stepText' = <<>>
      /\ turnRuns' /\ begun' => ToSet(stepText') \subseteq ToSet(streamBuffer')
      BY <1>2 DEF ViewIInv, ScreenFits
<1> QED BY <1>1, <1>4, <1>5, <1>6, <1>7, <1>8, <1>9 DEF ViewIInv, ScreenFits

\* The placeholder at the end of the list.
LEMMA ThinkAdded ==
    ASSUME ScreenFits,
           messages' = Append(messages, Message("think", <<>>)) \/ (LastIs("think") /\ messages' = messages)
    PROVE  /\ messages' \in Seq(Bubble) /\ Len(messages) \in Nat
           /\ Len(messages') = Len(messages) \/ Len(messages') = Len(messages) + 1
           /\ \A i \in 1 .. Len(messages) : messages'[i] = messages[i]
           /\ LastIs("think")' /\ AboveStays
<1>1. <<>> \in Text /\ Message("think", <<>>) \in Bubble /\ Message("think", <<>>).kind = "think"
  <2>1. <<>> \in Text
        BY EmptySeq DEF Text
  <2> QED BY <2>1, KindsAre, BubblesOf
<1>2. CASE messages' = Append(messages, Message("think", <<>>))
  <2>1. /\ messages' \in Seq(Bubble) /\ Len(messages') = Len(messages) + 1 /\ messages' # <<>>
        /\ \A i \in 1 .. Len(messages) : messages'[i] = messages[i]
        /\ Last(messages') = Message("think", <<>>) /\ Len(messages) \in Nat
        BY <1>1, <1>2, BubbleAdded DEF ScreenFits
  <2>2. AboveStays
        BY <1>1, <1>2, AddedAbove
  <2> QED BY <1>1, <2>1, <2>2 DEF LastIs
<1>3. CASE LastIs("think") /\ messages' = messages
  <2>1. LastIs("think")'
        BY <1>3 DEF LastIs
  <2>2. AboveStays
        BY <1>3 DEF AboveStays
  <2> QED BY <1>3, <2>1, <2>2, LenProperties DEF ScreenFits
<1> QED BY <1>2, <1>3

LEMMA ThinkKeeps ==
    ASSUME ViewIInv, Thinking \/ NextStep
    PROVE  ViewIInv' /\ AboveStays
<1>1. /\ UNCHANGED <<turnRuns, logVars, answer, arrivals, turnStart, turnText, unseen>>
      /\ turnRuns /\ begun' = TRUE /\ disturbed' = FALSE /\ stepText' = <<>>
      /\ streamBuffer' = <<>> \/ streamBuffer' = streamBuffer
  <2>1. CASE Thinking
    <3>1. stepText = <<>>
          BY <2>1 DEF Thinking, ViewIInv, ScreenFits
    <3> QED BY <2>1, <3>1 DEF Thinking
  <2>2. CASE NextStep
    <3>1. begun = TRUE
          BY <2>2 DEF NextStep, ViewIInv, ScreenFits
    <3> QED BY <2>2, <3>1 DEF NextStep
  <2> QED BY <2>1, <2>2
<1>2. messages' = Append(messages, Message("think", <<>>)) \/ (LastIs("think") /\ messages' = messages)
      BY DEF Thinking, NextStep, AddThink
<1>3. /\ messages' \in Seq(Bubble) /\ Len(messages) \in Nat
      /\ Len(messages') = Len(messages) \/ Len(messages') = Len(messages) + 1
      /\ LastIs("think")' /\ AboveStays
      BY <1>2, ThinkAdded DEF ViewIInv
<1>4. turnStart \in 1 .. Len(messages)
      BY <1>1 DEF ViewIInv, ScreenFits
<1>5. turnStart' \in 1 .. Len(messages') /\ turnStart' \in 1 .. Len(messages') + 1
      BY <1>1, <1>3, <1>4
<1>6. LogFits'
      BY <1>1, LogStays DEF ViewIInv
<1>7. <<>> \in Text /\ ToSet(<<>>) = {}
      BY EmptySeq, ToSetOfFew DEF Text
<1>8. {streamBuffer, answer, stepText, turnText}' \subseteq Text
      BY <1>1, <1>7 DEF ViewIInv, ScreenFits
<1>9. StepIsShown'
      BY <1>1 DEF StepIsShown
<1>10. ToSet(stepText') \subseteq ToSet(streamBuffer')
      BY <1>1, <1>7
<1>11. turnRuns' \in BOOLEAN
      BY <1>1 DEF ViewIInv, ScreenFits
<1> QED BY <1>1, <1>3, <1>5, <1>6, <1>8, <1>9, <1>10, <1>11 DEF ViewIInv, ScreenFits

LEMMA ReasoningKeeps ==
    ASSUME ViewIInv, Reasoning
    PROVE  ViewIInv' /\ AboveStays
<1>1. /\ turnRuns /\ begun
      /\ UNCHANGED <<turnRuns, begun, streamBuffer, logVars, answer, arrivals, turnStart,
                     stepText, turnText, disturbed, unseen>>
      BY DEF Reasoning
<1>2. messages' = Append(messages, Message("think", <<>>)) \/ (LastIs("think") /\ messages' = messages)
      BY DEF Reasoning, AddThink
<1>3. /\ messages' \in Seq(Bubble) /\ Len(messages) \in Nat
      /\ Len(messages') = Len(messages) \/ Len(messages') = Len(messages) + 1
      /\ \A i \in 1 .. Len(messages) : messages'[i] = messages[i]
      /\ LastIs("think")' /\ AboveStays
      BY <1>2, ThinkAdded DEF ViewIInv
<1>4. turnStart \in 1 .. Len(messages)
      BY <1>1 DEF ViewIInv, ScreenFits
<1>5. turnStart' \in 1 .. Len(messages') /\ turnStart' \in 1 .. Len(messages') + 1
      BY <1>1, <1>3, <1>4
<1>6. LogFits'
      BY <1>1, LogStays DEF ViewIInv
<1>7. StepIsShown'
  <2> SUFFICES ASSUME stepText # <<>>, ~disturbed
               PROVE  /\ unseen \cap ToSet(stepText) = {}
                      /\ \E i \in turnStart .. Len(messages') :
                            messages'[i].kind = "agent" /\ ToSet(stepText) \subseteq ToSet(messages'[i].text)
      BY <1>1 DEF StepIsShown
  <2>1. /\ unseen \cap ToSet(stepText) = {}
        /\ \E i \in turnStart .. Len(messages) :
              messages[i].kind = "agent" /\ ToSet(stepText) \subseteq ToSet(messages[i].text)
        BY <1>1 DEF ViewIInv, ScreenFits, StepIsShown
  <2>2. PICK i \in turnStart .. Len(messages) :
              messages[i].kind = "agent" /\ ToSet(stepText) \subseteq ToSet(messages[i].text)
        BY <2>1
  <2>3. i \in 1 .. Len(messages) /\ i \in turnStart .. Len(messages')
        BY <1>3, <1>4
  <2>4. messages'[i] = messages[i]
        BY <1>3, <2>3
  <2> QED BY <2>1, <2>2, <2>3, <2>4
<1>8. /\ {streamBuffer, answer, stepText, turnText}' \subseteq Text
      /\ turnRuns' \in BOOLEAN /\ begun' \in BOOLEAN /\ disturbed' \in BOOLEAN
      BY <1>1 DEF ViewIInv, ScreenFits
<1>9. /\ turnRuns' /\ ~begun' => stepText' = <<>>
      /\ turnRuns' /\ begun' => ToSet(stepText') \subseteq ToSet(streamBuffer')
      BY <1>1 DEF ViewIInv, ScreenFits
<1> QED BY <1>3, <1>5, <1>6, <1>7, <1>8, <1>9 DEF ViewIInv, ScreenFits

LEMMA ShownIs ==
    ASSUME ScreenFits, turnRuns
    PROVE  /\ Shown \in Seq(Bubble) /\ Len(Shown) = Len(messages) /\ Shown # <<>>
           /\ Len(messages) \in Nat \ {0}
           /\ \A i \in 1 .. Len(messages) - 1 : Shown[i] = messages[i]
           /\ LastIs("think") => Last(Shown).kind = "agent"
           /\ ~LastIs("think") => Shown = messages
<1>1. messages \in Seq(Bubble) /\ Len(messages) \in Nat /\ turnStart \in 1 .. Len(messages)
      BY LenProperties DEF ScreenFits
<1>2. messages # <<>> /\ Len(messages) \in Nat \ {0}
      BY <1>1, EmptySeq
<1>3. <<>> \in Text /\ Message("agent", <<>>) \in Bubble /\ Message("agent", <<>>).kind = "agent"
  <2>1. <<>> \in Text
        BY EmptySeq DEF Text
  <2> QED BY <2>1, KindsAre, BubblesOf
<1>4. CASE LastIs("think")
  <2> DEFINE b == Message("agent", <<>>)
  <2>1. Shown = EndingIn(messages, b) /\ b \in Bubble
        BY <1>3, <1>4 DEF Shown, EndingIn
  <2> HIDE DEF b
  <2>2. /\ Shown \in Seq(Bubble) /\ Len(Shown) = Len(messages) /\ Shown # <<>>
        /\ \A i \in 1 .. Len(messages) - 1 : Shown[i] = messages[i]
        /\ Last(Shown) = b
        BY <1>1, <1>2, <2>1, LastReplaced
  <2> QED BY <1>2, <1>3, <1>4, <2>2 DEF b
<1>5. CASE ~LastIs("think")
  <2>1. Shown = messages
        BY <1>5 DEF Shown
  <2> QED BY <1>1, <1>2, <1>5, <2>1
<1> QED BY <1>4, <1>5

LEMMA TextKeeps ==
    ASSUME ViewIInv, TextEvent
    PROVE  ViewIInv' /\ AboveStays
<1>1. /\ turnRuns /\ begun /\ arrivals' = arrivals + 1 /\ arrivals' <= MaxArrivals
      /\ streamBuffer' = Append(streamBuffer, arrivals')
      /\ stepText' = Append(stepText, arrivals') /\ turnText' = stepText'
      /\ UNCHANGED <<turnRuns, begun, answer, turnStart, disturbed>>
      /\ \/ /\ Last(Shown).kind = "agent"
            /\ messages' = Front(Shown) \o <<Message("agent", streamBuffer')>>
            /\ AppendAgentChunk(arrivals') /\ UNCHANGED unseen
         \/ /\ Last(Shown).kind # "agent" /\ messages' = Shown
            /\ unseen' = unseen \cup {arrivals'} /\ UNCHANGED logVars
  <2>1. /\ turnRuns /\ begun /\ Arrives
        /\ streamBuffer' = Append(streamBuffer, arrivals')
        /\ stepText' = Append(stepText, arrivals') /\ turnText' = stepText'
        /\ UNCHANGED <<turnRuns, begun, answer, turnStart, disturbed>>
        BY DEF TextEvent
  <2>2. \/ /\ Last(Shown).kind = "agent"
           /\ messages' = Front(Shown) \o <<Message("agent", streamBuffer')>>
           /\ AppendAgentChunk(arrivals') /\ UNCHANGED unseen
        \/ /\ Last(Shown).kind # "agent" /\ messages' = Shown
           /\ unseen' = unseen \cup {arrivals'} /\ UNCHANGED logVars
        BY DEF TextEvent
  <2>3. arrivals' = arrivals + 1 /\ arrivals' <= MaxArrivals
        BY <2>1, ViewAssumption DEF Arrives, ViewIInv, LogFits
  <2> QED BY <2>1, <2>2, <2>3
<1>2. arrivals' \in 0 .. MaxArrivals /\ arrivals' \in Nat
      BY <1>1, ViewAssumption DEF ViewIInv, LogFits
<1>3. /\ streamBuffer \in Text /\ stepText \in Text
      /\ streamBuffer' \in Text /\ stepText' \in Text /\ turnText' \in Text /\ answer' \in Text
      BY <1>1, <1>2, ShortTexts DEF ViewIInv, ScreenFits
<1>4. ToSet(stepText') = ToSet(stepText) \cup {arrivals'} /\ ToSet(streamBuffer') = ToSet(streamBuffer) \cup {arrivals'}
  <2>1. <<arrivals'>> \in Text /\ ToSet(<<arrivals'>>) = {arrivals'}
        BY <1>2, ShortTexts, ToSetOfFew
  <2>2. \A t \in Text : Append(t, arrivals') = t \o <<arrivals'>>
        BY <1>2, AppendIsConcat DEF Text
  <2>3. \A t \in Text : ToSet(t \o <<arrivals'>>) = ToSet(t) \cup {arrivals'}
        BY <2>1, JoinedTexts
  <2> QED BY <1>1, <1>3, <2>2, <2>3
<1>5. LogFits'
      BY <1>1, LogChunk DEF ViewIInv
<1>6. /\ Shown \in Seq(Bubble) /\ Len(Shown) = Len(messages) /\ Shown # <<>>
      /\ Len(messages) \in Nat \ {0}
      /\ \A i \in 1 .. Len(messages) - 1 : Shown[i] = messages[i]
      /\ LastIs("think") => Last(Shown).kind = "agent"
      /\ ~LastIs("think") => Shown = messages
      BY <1>1, ShownIs DEF ViewIInv
<1>7. turnStart \in 1 .. Len(messages) /\ messages \in Seq(Bubble)
      BY <1>1 DEF ViewIInv, ScreenFits
<1>8. ToSet(stepText') \subseteq ToSet(streamBuffer')
      BY <1>1, <1>4 DEF ViewIInv, ScreenFits
<1>9. /\ messages' \in Seq(Bubble) /\ Len(messages') = Len(messages)
      /\ \A i \in 1 .. Len(messages) - 1 : messages'[i] = messages[i]
      /\ ~disturbed =>
            /\ messages'[Len(messages)] = Message("agent", streamBuffer')
            /\ LastIs("agent")' /\ unseen' = unseen
  <2>1. CASE /\ Last(Shown).kind = "agent"
             /\ messages' = Front(Shown) \o <<Message("agent", streamBuffer')>>
             /\ AppendAgentChunk(arrivals') /\ UNCHANGED unseen
    <3>1. Message("agent", streamBuffer') \in Bubble /\ Message("agent", streamBuffer').kind = "agent"
          BY <1>3, KindsAre, BubblesOf
    <3> DEFINE b == Message("agent", streamBuffer')
               s == Shown
    <3>0. messages' = EndingIn(s, b) /\ b \in Bubble /\ s \in Seq(Bubble) /\ s # <<>>
          BY <1>6, <2>1, <3>1 DEF EndingIn
    <3> HIDE DEF b, s
    <3>a. /\ messages' \in Seq(Bubble) /\ Len(messages') = Len(s) /\ messages' # <<>>
          /\ \A i \in 1 .. Len(s) - 1 : messages'[i] = s[i]
          /\ messages'[Len(s)] = b /\ Last(messages') = b
          BY <3>0, LastReplaced
    <3>2. /\ messages' \in Seq(Bubble) /\ Len(messages') = Len(Shown) /\ messages' # <<>>
          /\ \A i \in 1 .. Len(Shown) - 1 : messages'[i] = Shown[i]
          /\ messages'[Len(Shown)] = Message("agent", streamBuffer')
          /\ Last(messages') = Message("agent", streamBuffer')
          BY <3>a DEF b, s
    <3>3. LastIs("agent")'
          BY <3>1, <3>2 DEF LastIs
    <3> QED BY <1>6, <2>1, <3>2, <3>3
  <2>2. CASE Last(Shown).kind # "agent" /\ messages' = Shown
    <3>1. disturbed
      <4>1. ~LastIs("think") /\ Shown = messages
            BY <1>6, <2>2
      <4>2. ~LastIs("agent")
            BY <2>2, <4>1 DEF LastIs
      <4> QED BY <1>1, <4>1, <4>2 DEF ViewIInv, ScreenFits
    <3> QED BY <1>6, <2>2, <3>1
  <2> QED BY <1>1, <2>1, <2>2
<1>10. turnStart' \in 1 .. Len(messages') /\ turnStart' \in 1 .. Len(messages') + 1
       BY <1>1, <1>7, <1>9, <1>6
<1>11. AboveStays
  <2>1. \A i \in 1 .. turnStart - 1 : i \in 1 .. Len(messages) - 1
        BY <1>6, <1>7
  <2> QED BY <1>9, <2>1 DEF AboveStays
<1>12. StepIsShown'
  <2> SUFFICES ASSUME ~disturbed
               PROVE  /\ unseen' \cap ToSet(stepText') = {}
                      /\ \E i \in turnStart .. Len(messages') :
                            messages'[i].kind = "agent" /\ ToSet(stepText') \subseteq ToSet(messages'[i].text)
      BY <1>1 DEF StepIsShown
  <2>1. /\ messages'[Len(messages)] = Message("agent", streamBuffer') /\ unseen' = unseen
        /\ Len(messages') = Len(messages)
        BY <1>9
  <2>2. /\ Message("agent", streamBuffer').kind = "agent"
        /\ Message("agent", streamBuffer').text = streamBuffer'
        BY <1>3, KindsAre, BubblesOf
  <2>3. Len(messages) \in turnStart .. Len(messages')
        BY <1>6, <1>7, <2>1
  <2>4. unseen \cap ToSet(stepText) = {}
    <3>1. CASE stepText # <<>>
          BY <1>1, <3>1 DEF ViewIInv, ScreenFits, StepIsShown
    <3>2. CASE stepText = <<>>
          BY <3>2, ToSetOfFew
    <3> QED BY <3>1, <3>2
  <2>5. arrivals' \notin unseen
    <3>1. unseen \subseteq 1 .. arrivals /\ arrivals \in Nat
          BY ViewAssumption DEF ViewIInv, LogFits, LogIsComplete
    <3>2. arrivals' \notin 1 .. arrivals
          BY <1>1, <3>1
    <3> QED BY <3>1, <3>2
  <2> QED BY <1>4, <1>8, <2>1, <2>2, <2>3, <2>4, <2>5
<1>13. /\ {streamBuffer, answer, stepText, turnText}' \subseteq Text
       /\ turnRuns' \in BOOLEAN /\ begun' \in BOOLEAN /\ disturbed' \in BOOLEAN
       BY <1>1, <1>3 DEF ViewIInv, ScreenFits
<1>14. /\ turnRuns' /\ ~begun' => stepText' = <<>>
       /\ turnRuns' /\ begun' => ToSet(stepText') \subseteq ToSet(streamBuffer')
       /\ turnRuns' /\ begun' /\ ~disturbed' => (LastIs("think") \/ LastIs("agent"))'
       BY <1>1, <1>8, <1>9
<1> QED BY <1>5, <1>9, <1>10, <1>11, <1>12, <1>13, <1>14 DEF ViewIInv, ScreenFits

LEMMA SyncedIs ==
    ASSUME ScreenFits, NEW content \in Text
    PROVE  /\ Synced(content) \in Seq(Bubble) /\ Len(Synced(content)) = Len(messages)
           /\ Agents(messages) \cap turnStart .. Len(messages) # {} =>
                 \A i \in 1 .. turnStart - 1 : Synced(content)[i] = messages[i]
<1>1. messages \in Seq(Bubble) /\ Len(messages) \in Nat /\ DOMAIN messages = 1 .. Len(messages)
      /\ turnStart \in 1 .. Len(messages) + 1
      BY LenProperties DEF ScreenFits
<1>2. CASE content = <<>> \/ Agents(messages) = {}
      BY <1>1, <1>2 DEF Synced
<1>3. CASE ~(content = <<>> \/ Agents(messages) = {})
  <2> DEFINE A == Agents(messages)
             n == Len(messages)
  <2>1. A \in SUBSET (1 .. n) /\ A # {}
        BY <1>1, <1>3 DEF Agents
  <2> HIDE DEF A, n
  <2>2. n \in Nat
        BY <1>1 DEF n
  <2>3. \E m \in A : \A k \in A : k <= m
        BY <2>1, <2>2, GreatestOf
  <2>4. \E m \in A : \A k \in A : m >= k
    <3>1. PICK m \in A : \A k \in A : k <= m
          BY <2>3
    <3>2. \A k \in A : m >= k
          BY <2>1, <2>2, <3>1
    <3> QED BY <3>2
  <2>5. Max(A) \in A /\ \A k \in A : Max(A) >= k
        BY <2>4 DEF Max
  <2> DEFINE top == Max(A)
             b == [messages[top] EXCEPT !.text = content]
  <2>6. top \in 1 .. n /\ top \in 1 .. Len(messages)
        BY <2>1, <2>5 DEF n
  <2>7. Synced(content) = [messages EXCEPT ![top] = b]
        BY <1>3 DEF Synced, A
  <2>8. b \in Bubble
    <3>1. messages[top] \in Bubble
          BY <1>1, <2>6, ElementOfSeq
    <3> QED BY <3>1 DEF Bubble
  <2> HIDE DEF top, b
  <2>9. /\ [messages EXCEPT ![top] = b] \in Seq(Bubble)
        /\ Len([messages EXCEPT ![top] = b]) = Len(messages)
        /\ \A j \in 1 .. Len(messages) : [messages EXCEPT ![top] = b][j] = IF j = top THEN b ELSE messages[j]
        BY <1>1, <2>6, <2>8, ExceptSeq
  <2>10. ASSUME A \cap turnStart .. Len(messages) # {}, NEW i \in 1 .. turnStart - 1
         PROVE  Synced(content)[i] = messages[i]
    <3>1. PICK k \in A : k \in turnStart .. Len(messages)
          BY <2>10
    <3>2. top >= k
          BY <2>5, <3>1 DEF top
    <3>3. i \in 1 .. Len(messages) /\ i # top
          BY <1>1, <2>6, <3>1, <3>2
    <3> QED BY <2>7, <2>9, <3>3
  <2> QED BY <2>7, <2>9, <2>10 DEF A
<1> QED BY <1>2, <1>3

LEMMA DoneKeeps ==
    ASSUME ViewIInv, DoneMsg
    PROVE  ViewIInv' /\ AboveStays
<1>1. /\ turnRuns' = FALSE /\ messages' = Synced(answer')
      /\ answer' = answer \/ answer' = turnText
      /\ UNCHANGED <<begun, streamBuffer, arrivals, turnStart, stepText, turnText, disturbed, unseen>>
      BY DEF DoneMsg
<1>2. answer' \in Text
      BY <1>1 DEF ViewIInv, ScreenFits
<1>3. messages' \in Seq(Bubble) /\ Len(messages') = Len(messages) /\ AboveStays
      BY <1>1, <1>2, SyncedIs DEF ViewIInv, AboveStays
<1>4. LogFits'
  <2>1. <<>> \in Text /\ Flush(<<>>)
        BY EmptySeq DEF Text, DoneMsg
  <2>2. Wrote(logBuf \o <<>>) /\ logBuf' = <<>> /\ streamActive' = FALSE
        BY <2>1, FlushSplits DEF ViewIInv
  <2> QED BY <1>1, <2>1, <2>2, LogFlushed DEF ViewIInv
<1>5. turnStart' \in 1 .. Len(messages') + 1
      BY <1>1, <1>3 DEF ViewIInv, ScreenFits
<1>6. StepIsShown'
      BY <1>1 DEF StepIsShown
<1>7. /\ {streamBuffer, answer, stepText, turnText}' \subseteq Text
      /\ turnRuns' \in BOOLEAN /\ begun' \in BOOLEAN /\ disturbed' \in BOOLEAN
      BY <1>1, <1>2 DEF ViewIInv, ScreenFits
<1> QED BY <1>1, <1>3, <1>4, <1>5, <1>6, <1>7 DEF ViewIInv, ScreenFits

LEMMA ViewStarts == ViewInit => ViewIInv
<1> SUFFICES ASSUME ViewInit PROVE ViewIInv
    OBVIOUS
<1>0. MaxArrivals \in Nat /\ 0 \in 0 .. MaxArrivals /\ 1 .. 0 = {}
      BY ViewAssumption
<1>1. <<>> \in Text /\ <<0>> \in Text /\ ToSet(<<>>) = {}
      BY <1>0, ShortTexts, ToSetOfFew
<1>2. <<>> \in Seq(Bubble) /\ Len(<<>>) = 0
      BY EmptySeq
<1>3. Logged = <<>>
      BY <1>1, ConcatEmptySeq DEF ViewInit, Logged, Text
<1>4. LogInOrder
  <2>1. DOMAIN Logged = {}
        BY <1>3
  <2> QED BY <2>1 DEF LogInOrder
<1>5. LogIsComplete
      BY <1>0, <1>1, <1>3 DEF ViewInit, LogIsComplete
<1>6. LogFits
      BY <1>0, <1>1, <1>4, <1>5 DEF ViewInit, LogFits
<1>7. StepIsShown
      BY DEF ViewInit, StepIsShown
<1>8. {streamBuffer, answer, stepText, turnText} \subseteq Text
      BY <1>1 DEF ViewInit
<1>9. messages \in Seq(Bubble) /\ turnStart \in 1 .. Len(messages) + 1
      BY <1>2 DEF ViewInit
<1> QED BY <1>6, <1>7, <1>8, <1>9 DEF ViewInit, ViewIInv, ScreenFits

\* What streams in is on the screen and in the log, in order and for good (AnswersAreKept):
\* for every number of chunks and failing writes.
THEOREM AnswersStay == ViewSpec => AnswersAreKept
<1>1. ASSUME ViewIInv PROVE ViewTypeOK /\ LogInOrder /\ LogIsComplete /\ StepIsShown
  <2>1. turnStart \in Nat
    <3>1. Len(messages) \in Nat /\ turnStart \in 1 .. Len(messages) + 1
          BY <1>1, LenProperties DEF ViewIInv, ScreenFits
    <3> QED BY <3>1
  <2> QED BY <1>1, <2>1 DEF ViewIInv, LogFits, ScreenFits, ViewTypeOK, Bubble
<1>2. ASSUME ViewIInv, ViewNext PROVE ViewIInv' /\ AboveStays
      BY <1>2, SendKeeps, OtherKeeps, ThinkKeeps, ReasoningKeeps, TextKeeps, DoneKeeps DEF ViewNext
<1>3. ASSUME ViewIInv, UNCHANGED viewVars PROVE ViewIInv'
  <2>1. /\ UNCHANGED <<turnRuns, begun, messages, streamBuffer, logBuf, streamActive, log, answer>>
        /\ UNCHANGED <<arrivals, turnStart, stepText, turnText, disturbed, unseen, lost>>
        BY <1>3 DEF viewVars
  <2>2. UNCHANGED logVars
        BY <2>1 DEF logVars
  <2>3. LogFits'
        BY <1>3, <2>1, <2>2, LogStays DEF ViewIInv
  <2>4. ScreenFits'
    <3>1. StepIsShown' /\ (LastIs("think") \/ LastIs("agent") => (LastIs("think") \/ LastIs("agent"))')
          BY <1>3, <2>1 DEF ViewIInv, ScreenFits, StepIsShown, LastIs
    <3> QED BY <1>3, <2>1, <3>1 DEF ViewIInv, ScreenFits
  <2> QED BY <2>3, <2>4 DEF ViewIInv
<1>4. ASSUME ViewIInv, [ViewNext]_viewVars
      PROVE  [Agents(messages) \cap turnStart .. Len(messages) # {} =>
                 \A i \in 1 .. turnStart - 1 : messages'[i] = messages[i]]_viewVars
      BY <1>2, <1>4 DEF AboveStays
<1> QED BY <1>1, <1>2, <1>3, <1>4, ViewStarts, PTL DEF ViewSpec, AnswersAreKept, EarlierAnswersStay
=============================================================================

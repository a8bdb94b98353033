----------------------------- MODULE ToolProofs -----------------------------
(***************************************************************************)
(* What the tools of a turn are held to, for every number of turns, calls, *)
(* files and names: Esc, cancelled turns and attempts that are over stop   *)
(* the tools they mean (ToolCancel), no call changes a file behind the     *)
(* model's back (ToolRegistry), calls of MCP tools meet the servers they   *)
(* name, which Stop ends (McpManager), and a terminal session that was     *)
(* closed has ended, where the limit bounds those that have not            *)
(* (Terminals).                                                            *)
(***************************************************************************)
EXTENDS ToolCancel, ToolRegistry, McpManager, Terminals, FiniteSetTheorems,
        SequenceTheorems, WellFoundedInduction, TLAPS

-----------------------------------------------------------------------------
(* Reading before changing (ToolRegistry) *)

CallRecord == [at : Steps, tool : {"read", "write", "edit"}, f : Files, turn : Nat,
               new : BOOLEAN, wrote : Outcomes]

\* What a call has written when it ends: nothing before, all of it when it ends well, not all
\* of it when it fails.
WroteFits(r) ==
    /\ r.at \in {"read", "mark"} => r.tool = "read"
    /\ r.at \notin {"end", "failed"} => r.wrote = "no"
    /\ r.at = "failed" => r.wrote # "whole"
    /\ r.at = "end" /\ r.tool # "read" => r.wrote = "whole"

\* What holds of one call: it is nobody's, or it belongs to a turn, marks what it has read in
\* that turn, changes what was read in it, and has written what it will answer.
CallFits(c) ==
    \/ call[c] = Idle /\ ctx[c] = "live"
    \/ /\ call[c] \in CallRecord
       /\ call[c].turn \in 1 .. current
       /\ call[c].turn < current => ctx[c] # "live"
       /\ call[c].at = "mark" => call[c].turn \in readIn[call[c].f]
       /\ WroteFits(call[c])
       /\ /\ call[c].at \in {"load", "put"} /\ call[c].turn = current
          /\ ~call[c].new /\ call[c].f \notin late
          => current \in readIn[call[c].f]

RegistryShape ==
    /\ current \in 0 .. Turns /\ version \in 0 .. MaxVersion
    /\ filesRead \subseteq Files /\ late \subseteq Files
    /\ file \in [Files -> 0 .. version]
    /\ call \in [Callers -> CallRecord \cup {Idle}]
    /\ ctx \in [Callers -> {"live", "cancelled", "expired"}]
    /\ readIn \in [Files -> SUBSET (1 .. current)]

\* A path in filesRead was marked by a straggler or read in this turn.
MarksAreTrue == \A f \in filesRead : f \in late \/ current \in readIn[f]

OneCallATurn ==
    \A c, d \in Callers : /\ Running(c) /\ call[c].turn = current
                          /\ Running(d) /\ call[d].turn = current
                          => c = d

RegistryIInv ==
    /\ RegistryShape /\ MarksAreTrue /\ OneCallATurn /\ AnswersAreTrue
    /\ \A c \in Callers : CallFits(c)

LEMMA FreeCall ==
    /\ Idle \notin CallRecord
    /\ \A r \in CallRecord : r # Idle /\ r.at # "idle"
<1>1. \A r \in CallRecord : r.at # "idle"
      BY DEF CallRecord, Steps
<1> QED BY <1>1 DEF Idle

\* A step of one call leaves the others as they were: their turns do not change, what is read
\* stays read, and the marks of stragglers stay known.
LEMMA OthersFit ==
    ASSUME RegistryIInv, NEW d \in Callers, UNCHANGED current,
           call'[d] = call[d], ctx'[d] = ctx[d],
           \A f \in Files : readIn[f] \subseteq readIn'[f], late \subseteq late'
    PROVE  CallFits(d)'
<1>1. CallFits(d)
      BY DEF RegistryIInv
<1>2. CASE call[d] = Idle
      BY <1>1, <1>2, FreeCall DEF CallFits
<1>3. CASE call[d] # Idle
  <2>1. call[d].f \in Files
        BY <1>1, <1>3 DEF CallFits, CallRecord
  <2> QED BY <1>1, <1>3, <2>1 DEF CallFits
<1> QED BY <1>2, <1>3

\* One call taking a step of its own: the invariant needs to be looked at for it alone.
LEMMA CallStep ==
    ASSUME RegistryIInv, NEW c \in Callers, NEW r \in CallRecord \cup {Idle},
           call' = [call EXCEPT ![c] = r], CallFits(c)', AnswersAreTrue',
           UNCHANGED current,
           \A d \in Callers \ {c} : ctx'[d] = ctx[d],
           ctx' \in [Callers -> {"live", "cancelled", "expired"}],
           r # Idle => Running(c) /\ r.turn = call[c].turn,
           version' \in 0 .. MaxVersion, file' \in [Files -> 0 .. version'],
           filesRead' \subseteq Files, late' \subseteq Files, late \subseteq late',
           readIn' \in [Files -> SUBSET (1 .. current)],
           \A f \in Files : readIn[f] \subseteq readIn'[f],
           \A f \in filesRead' : f \in filesRead \/ f \in late' \/ current \in readIn'[f]
    PROVE  RegistryIInv'
<1> USE DEF RegistryIInv
<1>1. /\ call' \in [Callers -> CallRecord \cup {Idle}]
      /\ call'[c] = r /\ \A d \in Callers \ {c} : call'[d] = call[d]
      BY DEF RegistryShape
<1>2. RegistryShape'
      BY <1>1 DEF RegistryShape
<1>3. MarksAreTrue'
      BY DEF MarksAreTrue, RegistryShape
<1>4. OneCallATurn'
  <2>1. \A d \in Callers : Running(d)' => Running(d) /\ call'[d].turn = call[d].turn
        BY <1>1 DEF Running, Idle
  <2> QED BY <2>1 DEF OneCallATurn
<1>5. \A d \in Callers : CallFits(d)'
  <2> TAKE d \in Callers
  <2>1. CASE d = c
        BY <2>1
  <2>2. CASE d # c
        BY <1>1, <2>2, OthersFit
  <2> QED BY <2>1, <2>2
<1> QED BY <1>2, <1>3, <1>4, <1>5

LEMMA RegistryInitInv == RegistryInit => RegistryIInv
<1> SUFFICES ASSUME RegistryInit PROVE RegistryIInv
    OBVIOUS
<1>1. RegistryShape
  <2>1. /\ current \in 0 .. Turns /\ version \in 0 .. MaxVersion
        BY RegistryAssumption DEF RegistryInit
  <2>2. file \in [Files -> 0 .. version]
        BY DEF RegistryInit, Absent
  <2> QED BY <2>1, <2>2 DEF RegistryInit, RegistryShape
<1>2. \A c \in Callers : call[c] = Idle /\ ctx[c] = "live"
      BY DEF RegistryInit
<1>3. MarksAreTrue /\ OneCallATurn /\ AnswersAreTrue
      BY <1>2 DEF RegistryInit, MarksAreTrue, OneCallATurn, Running, Idle, AnswersAreTrue, NoLast
<1> QED BY <1>1, <1>2, <1>3 DEF RegistryIInv, CallFits

\* A new turn begins with an empty set and without a live call.
LEMMA NewTurnStep ==
    ASSUME RegistryIInv, NewTurn
    PROVE  RegistryIInv'
<1> USE DEF RegistryIInv
<1>1. /\ current \in Nat /\ current' = current + 1 /\ current' \in 0 .. Turns
      /\ filesRead' = {} /\ late' = {} /\ call' = call /\ readIn' = readIn
      /\ file' = file /\ version' = version /\ last' = last
      BY RegistryAssumption DEF NewTurn, RegistryShape
<1>2. \A c \in Callers : ctx'[c] = IF Running(c) /\ ctx[c] = "live" THEN "cancelled" ELSE ctx[c]
      BY DEF NewTurn
<1>3. ctx' \in [Callers -> {"live", "cancelled", "expired"}]
      BY DEF NewTurn, RegistryShape
<1>4. RegistryShape'
  <2>1. 1 .. current \subseteq 1 .. current'
        BY <1>1
  <2>2. readIn' \in [Files -> SUBSET (1 .. current')]
        BY <1>1, <2>1 DEF RegistryShape
  <2> QED BY <1>1, <1>3, <2>2 DEF RegistryShape
<1>5. \A c \in Callers : Running(c) => call[c].turn \in 1 .. current
      BY DEF CallFits, Running, Idle
<1>6. MarksAreTrue' /\ OneCallATurn' /\ AnswersAreTrue'
  <2>1. \A c \in Callers : Running(c)' => call'[c].turn # current'
        BY <1>1, <1>5 DEF Running
  <2> QED BY <1>1, <2>1 DEF MarksAreTrue, OneCallATurn, AnswersAreTrue
<1>7. ASSUME NEW c \in Callers PROVE CallFits(c)'
  <2>1. CASE call[c] = Idle
        BY <1>1, <1>2, <2>1 DEF CallFits, Running, Idle, RegistryShape
  <2>2. CASE call[c] # Idle
    <3>1. call[c] \in CallRecord /\ call[c].turn \in 1 .. current /\ Running(c)
          BY <2>2, FreeCall DEF CallFits, Running
    <3>2. ctx'[c] # "live"
          BY <1>2, <3>1
    <3>3. call'[c].turn \in 1 .. current' /\ call'[c].turn # current'
          BY <1>1, <3>1
    <3>4. /\ call'[c].at = "mark" => call'[c].turn \in readIn'[call'[c].f]
          /\ WroteFits(call'[c])
          BY <1>1, <2>2 DEF CallFits
    <3> QED BY <1>1, <3>1, <3>2, <3>3, <3>4 DEF CallFits
  <2> QED BY <2>1, <2>2
<1> QED BY <1>4, <1>6, <1>7

\* A call begins when no other call of the turn runs.
LEMMA BeginStep ==
    ASSUME RegistryIInv, NEW c \in Callers, Begin(c)
    PROVE  RegistryIInv'
<1> USE DEF RegistryIInv
<1>1. PICK tool \in {"read", "write", "edit"}, f \in Files :
          call' = [call EXCEPT ![c] = [at |-> "enter", tool |-> tool, f |-> f, turn |-> current,
                                       new |-> FALSE, wrote |-> "no"]]
      BY DEF Begin
<1> DEFINE r == [at |-> "enter", tool |-> tool, f |-> f, turn |-> current, new |-> FALSE, wrote |-> "no"]
<1>2. /\ current \in 1 .. Turns /\ current \in Nat /\ call[c] = Idle
      /\ UNCHANGED <<current, filesRead, file, version, ctx, late, readIn, last>>
      /\ \A d \in Callers : ~(Running(d) /\ call[d].turn = current)
      BY RegistryAssumption DEF Begin, RegistryShape
<1>3. r \in CallRecord /\ r.turn = current /\ r.at = "enter" /\ WroteFits(r)
      BY <1>2 DEF CallRecord, Steps, Outcomes, WroteFits
<1> HIDE DEF r
<1>4. /\ call' \in [Callers -> CallRecord \cup {Idle}] /\ call'[c] = r
      /\ \A d \in Callers \ {c} : call'[d] = call[d]
      BY <1>1, <1>3 DEF RegistryShape, r
<1>5. RegistryShape'
      BY <1>2, <1>4 DEF RegistryShape
<1>6. MarksAreTrue' /\ AnswersAreTrue'
      BY <1>2 DEF MarksAreTrue, AnswersAreTrue
<1>7. OneCallATurn'
      BY <1>2, <1>4 DEF OneCallATurn, Running
<1>8. \A d \in Callers : CallFits(d)'
  <2> TAKE d \in Callers
  <2>1. CASE d = c
    <3>1. CallFits(c)'
          BY <1>2, <1>3, <1>4 DEF CallFits
    <3> QED BY <2>1, <3>1
  <2>2. CASE d # c
        BY <1>2, <1>4, <2>2, OthersFit
  <2> QED BY <2>1, <2>2
<1> QED BY <1>5, <1>6, <1>7, <1>8

\* A context that ends, and a file somebody else writes, change no call.
LEMMA AsideStep ==
    ASSUME RegistryIInv, (\E c \in Callers : Stop(c)) \/ (\E f \in Files : Outside(f))
    PROVE  RegistryIInv'
<1> USE DEF RegistryIInv
<1>1. UNCHANGED <<current, filesRead, call, late, readIn, last>>
      BY DEF Stop, Outside
<1>2. RegistryShape'
  <2>1. ASSUME NEW c \in Callers, Stop(c) PROVE RegistryShape'
    <3>1. ctx' \in [Callers -> {"live", "cancelled", "expired"}] /\ version' = version /\ file' = file
          BY <2>1 DEF Stop, RegistryShape
    <3> QED BY <1>1, <3>1 DEF RegistryShape
  <2>2. ASSUME NEW f \in Files, Outside(f) PROVE RegistryShape'
    <3>1. version' \in 0 .. MaxVersion /\ 0 .. version \subseteq 0 .. version' /\ version' \in 0 .. version'
          BY <2>2, RegistryAssumption DEF Outside, RegistryShape
    <3>2. file' \in [Files -> 0 .. version']
          BY <2>2, <3>1 DEF Outside, RegistryShape
    <3>3. ctx' = ctx
          BY <2>2 DEF Outside
    <3> QED BY <1>1, <3>1, <3>2, <3>3 DEF RegistryShape
  <2> QED BY <2>1, <2>2
<1>3. MarksAreTrue' /\ OneCallATurn' /\ AnswersAreTrue'
      BY <1>1 DEF MarksAreTrue, OneCallATurn, Running, AnswersAreTrue
<1>4. \A d \in Callers : ctx'[d] = ctx[d] \/ (call[d] # Idle /\ ctx'[d] # "live")
  <2>1. ASSUME NEW c \in Callers, Stop(c) PROVE \A d \in Callers : ctx'[d] = ctx[d] \/ (call[d] # Idle /\ ctx'[d] # "live")
        BY <2>1 DEF Stop, Running, Idle, RegistryShape
  <2> QED BY <2>1 DEF Outside
<1>5. \A d \in Callers : CallFits(d)'
  <2> TAKE d \in Callers
  <2>1. CallFits(d)
        OBVIOUS
  <2> QED BY <1>1, <1>4, <2>1 DEF CallFits
<1> QED BY <1>2, <1>3, <1>5

\* The steps of a call that only move it on: the context it is entered with, what the guard
\* finds, what an edit loads.
LEMMA EnterStep ==
    ASSUME RegistryIInv, NEW c \in Callers, Enter(c) \/ Guard(c) \/ Load(c)
    PROVE  RegistryIInv'
<1> USE DEF RegistryIInv
<1>1. /\ UNCHANGED <<current, filesRead, file, version, ctx, late, readIn, last>>
      /\ call[c].at \in {"enter", "guard", "load"}
      BY DEF Enter, Guard, Load
<1>2. /\ call[c] \in CallRecord /\ call[c] # Idle /\ Running(c) /\ CallFits(c)
      BY <1>1, FreeCall DEF CallFits, Idle, Running
<1>3. PICK step \in {"failed", "read", "guard", "load", "put"}, new \in BOOLEAN :
          /\ call' = [call EXCEPT ![c] = [call[c] EXCEPT !.at = step, !.new = new]]
          /\ step \in {"load", "put"} /\ ~new =>
                \/ call[c].f \in filesRead
                \/ call[c].at = "load" /\ ~call[c].new
          /\ step = "read" => call[c].tool = "read"
  <2>1. CASE Enter(c)
    <3>1. PICK step \in {"failed", "read", "guard"} :
              Go(c, step) /\ (step = "read" => call[c].tool = "read")
          BY <2>1 DEF Enter
    <3>2. call' = [call EXCEPT ![c] = [call[c] EXCEPT !.at = step, !.new = call[c].new]]
          BY <1>2, <3>1 DEF Go, CallRecord
    <3> QED BY <1>2, <3>1, <3>2 DEF CallRecord
  <2>2. CASE Guard(c)
    <3>1. PICK new \in BOOLEAN, step \in {"failed", "load", "put"} :
              /\ call' = [call EXCEPT ![c].at = step, ![c].new = new]
              /\ step # "failed" => call[c].f \in filesRead \/ new
          BY <2>2 DEF Guard
    <3>2. call' = [call EXCEPT ![c] = [call[c] EXCEPT !.at = step, !.new = new]]
          BY <1>2, <3>1 DEF CallRecord
    <3> QED BY <3>1, <3>2
  <2>3. CASE Load(c)
    <3>1. PICK step \in {"failed", "put"} : Go(c, step)
          BY <2>3 DEF Load
    <3>2. call' = [call EXCEPT ![c] = [call[c] EXCEPT !.at = step, !.new = call[c].new]]
          BY <1>2, <3>1 DEF Go, CallRecord
    <3>3. call[c].at = "load" /\ call[c].new \in BOOLEAN
          BY <1>2, <2>3 DEF Load, CallRecord
    <3> QED BY <3>1, <3>2, <3>3
  <2> QED BY <2>1, <2>2, <2>3
<1> DEFINE r == [call[c] EXCEPT !.at = step, !.new = new]
<1>4. /\ r \in CallRecord /\ r.at = step /\ r.new = new /\ r.turn = call[c].turn
      /\ r.f = call[c].f /\ r.wrote = call[c].wrote /\ r.tool = call[c].tool
      BY <1>2 DEF CallRecord, Steps
<1> HIDE DEF r
<1>5. call' = [call EXCEPT ![c] = r] /\ call'[c] = r
      BY <1>3 DEF r, RegistryShape
<1>6. CallFits(c)'
  <2>1. step # "mark" /\ WroteFits(r)
        BY <1>1, <1>2, <1>3, <1>4 DEF CallFits, WroteFits
  <2>2. step \in {"load", "put"} /\ call[c].turn = current /\ ~new /\ call[c].f \notin late
            => current \in readIn[call[c].f]
        BY <1>2, <1>3 DEF MarksAreTrue, CallFits
  <2> QED BY <1>1, <1>2, <1>4, <1>5, <2>1, <2>2 DEF CallFits
<1>7. AnswersAreTrue'
      BY <1>1 DEF AnswersAreTrue
<1> QED BY <1>1, <1>2, <1>4, <1>5, <1>6, <1>7, CallStep DEF RegistryShape

\* A read is remembered for the turn of its call.
LEMMA ReadStep ==
    ASSUME RegistryIInv, NEW c \in Callers, Read(c)
    PROVE  RegistryIInv'
<1> USE DEF RegistryIInv
<1>1. /\ UNCHANGED <<current, filesRead, file, version, ctx, late, last>>
      /\ call[c].at = "read"
      BY DEF Read
<1>2. /\ call[c] \in CallRecord /\ call[c] # Idle /\ Running(c) /\ CallFits(c)
      /\ call[c].f \in Files /\ call[c].turn \in 1 .. current
      BY <1>1, FreeCall DEF CallFits, Idle, Running, CallRecord
<1>3. PICK step \in {"failed", "mark"} :
          /\ call' = [call EXCEPT ![c] = [call[c] EXCEPT !.at = step]]
          /\ step = "mark" => file[call[c].f] # Absent
      BY DEF Read, Go
<1> DEFINE r == [call[c] EXCEPT !.at = step]
<1>4. /\ r \in CallRecord /\ r.at = step /\ r.new = call[c].new /\ r.turn = call[c].turn
      /\ r.f = call[c].f /\ r.wrote = call[c].wrote /\ r.tool = call[c].tool
      BY <1>2 DEF CallRecord, Steps
<1> HIDE DEF r
<1>5. call' = [call EXCEPT ![c] = r] /\ call'[c] = r
      BY <1>3 DEF r, RegistryShape
<1>6. /\ readIn' \in [Files -> SUBSET (1 .. current)]
      /\ \A f \in Files : readIn[f] \subseteq readIn'[f]
      /\ file[call[c].f] # Absent => call[c].turn \in readIn'[call[c].f]
      BY <1>2 DEF Read, RegistryShape
<1>7. CallFits(c)'
  <2>1. WroteFits(r)
        BY <1>1, <1>2, <1>3, <1>4 DEF CallFits, WroteFits
  <2> QED BY <1>1, <1>2, <1>3, <1>4, <1>5, <1>6, <2>1 DEF CallFits
<1>8. AnswersAreTrue'
      BY <1>1 DEF AnswersAreTrue
<1> QED BY <1>1, <1>2, <1>4, <1>5, <1>6, <1>7, <1>8, CallStep DEF RegistryShape

\* A mark is a straggler's or stands for a read of this turn.
LEMMA MarkStep ==
    ASSUME RegistryIInv, NEW c \in Callers, Mark(c)
    PROVE  RegistryIInv'
<1> USE DEF RegistryIInv
<1>1. /\ UNCHANGED <<current, file, version, ctx, readIn, last>>
      /\ call[c].at = "mark"
      /\ filesRead' = filesRead \cup {call[c].f}
      /\ late' = IF call[c].turn < current THEN late \cup {call[c].f} ELSE late
      BY DEF Mark
<1>2. /\ call[c] \in CallRecord /\ call[c] # Idle /\ Running(c) /\ CallFits(c)
      /\ call[c].f \in Files /\ call[c].turn \in 1 .. current
      BY <1>1, FreeCall DEF CallFits, Idle, Running, CallRecord
<1>3. PICK step \in {"failed", "end"} : call' = [call EXCEPT ![c] = [call[c] EXCEPT !.at = step]]
      BY DEF Mark, Go
<1> DEFINE r == [call[c] EXCEPT !.at = step]
<1>4. /\ r \in CallRecord /\ r.at = step /\ r.new = call[c].new /\ r.turn = call[c].turn
      /\ r.f = call[c].f /\ r.wrote = call[c].wrote /\ r.tool = call[c].tool
      BY <1>2 DEF CallRecord, Steps
<1> HIDE DEF r
<1>5. call' = [call EXCEPT ![c] = r] /\ call'[c] = r
      BY <1>3 DEF r, RegistryShape
<1>6. call[c].turn = current => current \in readIn[call[c].f]
      BY <1>1, <1>2 DEF CallFits
<1>7. \A f \in filesRead' : f \in filesRead \/ f \in late' \/ current \in readIn'[f]
  <2>1. call[c].turn < current \/ call[c].turn = current
        BY <1>2 DEF RegistryShape
  <2> QED BY <1>1, <1>6, <2>1
<1>8. CallFits(c)'
  <2>1. WroteFits(r)
        BY <1>1, <1>2, <1>3, <1>4 DEF CallFits, WroteFits
  <2> QED BY <1>1, <1>2, <1>3, <1>4, <1>5, <2>1 DEF CallFits
<1>9. AnswersAreTrue'
      BY <1>1 DEF AnswersAreTrue
<1>10. filesRead' \subseteq Files /\ late' \subseteq Files /\ late \subseteq late'
       BY <1>1, <1>2 DEF RegistryShape
<1> QED BY <1>1, <1>2, <1>4, <1>5, <1>7, <1>8, <1>9, <1>10, CallStep DEF RegistryShape

\* A write is the last thing its call does, whatever comes of it.
LEMMA PutStep ==
    ASSUME RegistryIInv, NEW c \in Callers, Put(c)
    PROVE  RegistryIInv'
<1> USE DEF RegistryIInv
<1>1. /\ UNCHANGED <<current, filesRead, ctx, late, readIn, last>> /\ call[c].at = "put"
      BY DEF Put
<1>2. /\ call[c] \in CallRecord /\ call[c] # Idle /\ Running(c) /\ CallFits(c)
      /\ call[c].f \in Files /\ call[c].turn \in 1 .. current
      BY <1>1, FreeCall DEF CallFits, Idle, Running, CallRecord
<1>3. PICK outcome \in Outcomes :
          /\ Writes(c, outcome)
          /\ call' = [call EXCEPT ![c].at = IF outcome = "whole" THEN "end" ELSE "failed",
                                  ![c].wrote = outcome]
      BY DEF Put
<1> DEFINE to == IF outcome = "whole" THEN "end" ELSE "failed"
           r == [call[c] EXCEPT !.at = to, !.wrote = outcome]
<1>4. call' = [call EXCEPT ![c] = r] /\ to \in {"end", "failed"} /\ (to = "end" <=> outcome = "whole")
      BY <1>2, <1>3
<1> HIDE DEF to
<1>5. /\ r \in CallRecord /\ r.at = to /\ r.turn = call[c].turn /\ r.wrote = outcome
      BY <1>2, <1>4 DEF CallRecord, Steps
<1> HIDE DEF r
<1>6. call'[c] = r
      BY <1>4 DEF RegistryShape
<1>7. CallFits(c)'
  <2>1. WroteFits(r)
        BY <1>4, <1>5 DEF WroteFits
  <2> QED BY <1>1, <1>2, <1>4, <1>5, <1>6, <2>1 DEF CallFits
<1>8. AnswersAreTrue'
      BY <1>1 DEF AnswersAreTrue
<1>9. version' \in 0 .. MaxVersion /\ file' \in [Files -> 0 .. version']
  <2>1. CASE outcome = "no"
        BY <1>3, <2>1 DEF Writes, RegistryShape
  <2>2. CASE outcome # "no"
    <3>1. version < MaxVersion /\ version' = version + 1 /\ file' = [file EXCEPT ![call[c].f] = version + 1]
          BY <1>3, <2>2 DEF Writes
    <3>2. version' \in 0 .. MaxVersion /\ 0 .. version \subseteq 0 .. version' /\ version' \in 0 .. version'
          BY <3>1, RegistryAssumption DEF RegistryShape
    <3> QED BY <3>1, <3>2 DEF RegistryShape
  <2> QED BY <2>1, <2>2
<1> QED BY <1>1, <1>2, <1>4, <1>5, <1>7, <1>8, <1>9, CallStep DEF RegistryShape

\* The answer is true to what the call has written.
LEMMA AnswerStep ==
    ASSUME RegistryIInv, NEW c \in Callers, Answer(c)
    PROVE  RegistryIInv'
<1> USE DEF RegistryIInv
<1>1. /\ UNCHANGED <<current, filesRead, file, version, late, readIn>>
      /\ call[c].at \in {"end", "failed"}
      /\ call' = [call EXCEPT ![c] = Idle]
      /\ ctx' = [ctx EXCEPT ![c] = "live"]
      BY DEF Answer
<1>2. AnswersAreTrue'
  <2>1. WroteFits(call[c])
        BY <1>1, FreeCall DEF CallFits, Idle
  <2>2. /\ last'.wrote = call[c].wrote /\ last'.tool = call[c].tool
        /\ last'.what = "error" => call[c].at # "end"
        /\ last'.what = "result" => call[c].at = "end"
        BY <1>1 DEF Answer
  <2> QED BY <1>1, <2>1, <2>2 DEF AnswersAreTrue, WroteFits
<1>3. /\ ctx' \in [Callers -> {"live", "cancelled", "expired"}]
      /\ ctx'[c] = "live" /\ call'[c] = Idle
      /\ \A d \in Callers \ {c} : ctx'[d] = ctx[d]
      BY <1>1 DEF RegistryShape
<1>4. CallFits(c)'
      BY <1>3 DEF CallFits
<1> QED BY <1>1, <1>2, <1>3, <1>4, CallStep DEF RegistryShape

\* The invariant holds the property: no call changes a file behind the model's back.
LEMMA RegistryFacts == RegistryIInv => FilesGuarded
<1> SUFFICES ASSUME RegistryIInv PROVE FilesGuarded
    OBVIOUS
<1> USE DEF RegistryIInv
<1>1. \A c \in Callers :
        \/ call[c] = Idle /\ ctx[c] = "live"
        \/ /\ call[c].at \in Steps /\ call[c].tool \in {"read", "write", "edit"}
           /\ call[c].f \in Files /\ call[c].turn \in 1 .. current /\ call[c].new \in BOOLEAN
           /\ call[c].turn < current => ctx[c] # "live"
      BY DEF CallFits, CallRecord
<1>2. Cardinality({c \in Callers : Running(c) /\ call[c].turn = current}) <= 1
  <2> DEFINE live == {c \in Callers : Running(c) /\ call[c].turn = current}
  <2>1. live = {} \/ \E c \in Callers : live = {c}
        BY DEF OneCallATurn
  <2>2. Cardinality(live) = 0 \/ Cardinality(live) = 1
    <3> HIDE DEF live
    <3> QED BY <2>1, FS_EmptySet, FS_Singleton
  <2> QED BY <2>2
<1>3. RegistryTypeOK
      BY <1>1, <1>2 DEF RegistryTypeOK, RegistryShape
<1>4. ChangedWasRead
      BY FreeCall DEF ChangedWasRead, CallFits, Idle
<1> QED BY <1>3, <1>4 DEF FilesGuarded

\* No call changes a file behind the model's back, unread or otherwise than it answers, however
\* turns are cancelled and calls outlive them (tools/tools.go, Execute and the guard filesRead).
THEOREM FilesAreGuarded == RegistrySpec => []FilesGuarded
<1>1. RegistryIInv /\ [RegistryNext]_registryVars => RegistryIInv'
  <2> SUFFICES ASSUME RegistryIInv, [RegistryNext]_registryVars PROVE RegistryIInv'
      OBVIOUS
  <2>1. CASE UNCHANGED registryVars
    <3> USE <2>1 DEF registryVars, RegistryIInv
    <3>1. RegistryShape'
          BY DEF RegistryShape
    <3>2. MarksAreTrue' /\ OneCallATurn' /\ AnswersAreTrue'
          BY DEF MarksAreTrue, OneCallATurn, AnswersAreTrue, Running
    <3>3. \A c \in Callers : CallFits(c)'
          BY DEF CallFits
    <3> QED BY <3>1, <3>2, <3>3
  <2> QED BY <2>1, NewTurnStep, BeginStep, AsideStep, EnterStep, ReadStep, MarkStep, PutStep, AnswerStep
          DEF RegistryNext
<1> QED BY <1>1, RegistryInitInv, RegistryFacts, PTL DEF RegistrySpec

-----------------------------------------------------------------------------
(* Cancelling one tool (ToolCancel) *)

Posted == [kind : {"start", "result"}, call : Call] \cup {Event("end", NoCall)}

CancelShape ==
    /\ turn \in Turn \cup {NoTurn} /\ turns \in 0 .. MaxTurns /\ toolCtx \in Turn \cup {NoTurn}
    /\ slot \in Call \cup {NoCall} /\ events \in Seq(Posted)
    /\ pc \in [Turn -> {"none", "begin", "stream", "backoff", "closed"}]
    /\ attempt \in [Turn -> 0 .. MaxAttempts] /\ made \in [Turn -> 0 .. MaxCalls]
    /\ pending \in [Turn -> Seq(Call)]
    /\ running \in [Turn -> SUBSET Call] /\ tools \in [Turn -> SUBSET Call]
    /\ cancelled \subseteq Turn /\ stopped \subseteq Call /\ ends \in [Turn -> Nat]

\* The calls of t that have been run or told to stop, and how many the attempt has run.
Known(t) == running[t] \cup {c \in stopped : c.turn = t}
Ran(t) == made[t] - Len(pending[t])

\* What the stream of t has run and what waits to run are told apart by their numbers.
CallsInOrder(t) ==
    /\ \A c \in Known(t) :
          /\ c.turn = t /\ c.att <= attempt[t]
          /\ pc[t] \in {"none", "begin"} => c.att < attempt[t]
          /\ pc[t] = "stream" /\ c.att = attempt[t] => c.n <= Ran(t)
    /\ \A i \in DOMAIN pending[t] :
          /\ pending[t][i].turn = t /\ pending[t][i].att = attempt[t]
          /\ pending[t][i].n = Ran(t) + i
    /\ pending[t] # <<>> => pc[t] = "stream"

\* The attempts of t are counted, and end once.
AttemptsCounted(t) ==
    /\ pc[t] = "none" <=> t > turns
    /\ IF pc[t] = "none" THEN attempt[t] = 0 ELSE attempt[t] > 0
    /\ pc[t] = "backoff" => attempt[t] < MaxAttempts
    /\ ends[t] <= 1 /\ (ends[t] = 1 => pc[t] = "closed")

\* The tools of t that run are known to its manager, or have been told to stop.
ToolsAccounted(t) ==
    /\ tools[t] \subseteq Live(t)
    /\ t \notin cancelled => Live(t) \subseteq tools[t] /\ running[t] \ Live(t) \subseteq stopped
    /\ Live(t) \cap stopped \subseteq esc.named

TurnFits(t) == CallsInOrder(t) /\ AttemptsCounted(t) /\ ToolsAccounted(t)

\* What the UI listens to is the newest turn, and nothing it shows or reads is of another.
UiFits ==
    /\ turn # NoTurn => turn = turns /\ turn \notin cancelled
    /\ cancelled \subseteq 1 .. turns
    /\ turn # NoTurn => \A i \in DOMAIN events : events[i].kind # "end" => events[i].call.turn = turn

\* A turn that began alone goes on alone.
AloneStaysAlone == \A t \in alone : t \in 1 .. turns /\ \A s \in 1 .. t - 1 : pc[s] = "closed"

EscFits ==
    /\ CancelledWasRunning /\ EscReachesActiveTool
    /\ esc.outcome = "missed" => esc.call.turn \in 1 .. turns

CancelIInv ==
    /\ CancelShape /\ UiFits /\ SlotOfTurn /\ AloneStaysAlone /\ ManagerOfActiveStream /\ EscFits
    /\ \A t \in Turn : TurnFits(t)

LEMMA CallFacts ==
    /\ \A c \in Call : c.turn \in Turn /\ c.turn \in Nat /\ c.att \in Nat /\ c.att > 0
                       /\ c.n \in Nat /\ c.name \in Names
    /\ NoCall \notin Call /\ NoTurn \notin Turn /\ \A t \in Turn : t \in Nat /\ t > 0
<1>1. \A c \in Call : c.turn \in Turn /\ c.att \in 1 .. MaxAttempts /\ c.n \in 1 .. MaxCalls /\ c.name \in Names
      BY DEF Call
<1>2. MaxTurns \in Nat /\ MaxAttempts \in Nat /\ MaxCalls \in Nat
      BY ToolAssumption
<1>3. NoTurn \notin Turn /\ \A t \in Turn : t \in Nat /\ t > 0
      BY <1>2 DEF Turn, NoTurn
<1>4. NoCall.turn = NoTurn
      BY DEF NoCall
<1> QED BY <1>1, <1>2, <1>3, <1>4

LEMMA CancelInitInv == CancelInit => CancelIInv
<1> SUFFICES ASSUME CancelInit PROVE CancelIInv
    OBVIOUS
<1>1. CancelShape
  <2>1. 0 \in 0 .. MaxTurns /\ 0 \in 0 .. MaxAttempts /\ 0 \in 0 .. MaxCalls
        BY ToolAssumption
  <2>2. events \in Seq(Posted) /\ pending \in [Turn -> Seq(Call)]
        BY DEF CancelInit
  <2>3. /\ running \in [Turn -> SUBSET Call] /\ tools \in [Turn -> SUBSET Call]
        /\ attempt \in [Turn -> 0 .. MaxAttempts] /\ made \in [Turn -> 0 .. MaxCalls]
        /\ ends \in [Turn -> Nat]
        BY <2>1 DEF CancelInit
  <2>4. pc \in [Turn -> {"none", "begin", "stream", "backoff", "closed"}]
        BY DEF CancelInit
  <2> QED BY <2>1, <2>2, <2>3, <2>4 DEF CancelInit, CancelShape
<1>2. ASSUME NEW t \in Turn PROVE TurnFits(t)
  <2>1. /\ pc[t] = "none" /\ attempt[t] = 0 /\ made[t] = 0 /\ pending[t] = <<>> /\ running[t] = {}
        /\ tools[t] = {} /\ stopped = {} /\ ends[t] = 0 /\ turns = 0
        BY DEF CancelInit
  <2>2. t > turns
        BY <2>1, CallFacts
  <2> QED BY <2>1, <2>2 DEF TurnFits, CallsInOrder, AttemptsCounted, ToolsAccounted, Known, Live
<1>3. UiFits /\ SlotOfTurn /\ AloneStaysAlone /\ ManagerOfActiveStream /\ EscFits
      BY DEF CancelInit, UiFits, SlotOfTurn, AloneStaysAlone, ManagerOfActiveStream, EscFits,
             CancelledWasRunning, EscReachesActiveTool, NoEsc
<1> QED BY <1>1, <1>2, <1>3 DEF CancelIInv

\* A turn is disturbed by none of the others': calls are told to stop by their own turn's stream,
\* or by the Esc that names them.
LEMMA TurnLeftAlone ==
    ASSUME CancelIInv, NEW t \in Turn,
           pc'[t] = pc[t], attempt'[t] = attempt[t], made'[t] = made[t], pending'[t] = pending[t],
           running'[t] = running[t], tools'[t] = tools[t], ends'[t] = ends[t],
           (t > turns') <=> (t > turns), cancelled \subseteq cancelled', stopped \subseteq stopped',
           esc.named \subseteq (esc.named)',
           \A c \in stopped' \ stopped :
               c.turn = t => c \in running[t] /\ (c \notin Live(t) \/ c \in (esc.named)')
    PROVE  TurnFits(t)'
<1>1. TurnFits(t)
      BY DEF CancelIInv
<1>2. Known(t)' \subseteq Known(t)
      BY DEF Known
<1>3. Live(t)' = Live(t) /\ Ran(t)' = Ran(t)
      BY DEF Live, OfAttempt, Ran
<1>4. CallsInOrder(t)'
      BY <1>1, <1>2, <1>3 DEF TurnFits, CallsInOrder
<1>5. AttemptsCounted(t)'
      BY <1>1 DEF TurnFits, AttemptsCounted
<1>6. ToolsAccounted(t)'
  <2>1. \A c \in Live(t) : c.turn = t
        BY <1>1 DEF Live, OfAttempt, TurnFits, CallsInOrder, Known
  <2>2. Live(t) \cap stopped' \subseteq (esc.named)'
        BY <1>1, <2>1 DEF TurnFits, ToolsAccounted
  <2> QED BY <1>1, <1>3, <2>2 DEF TurnFits, ToolsAccounted
<1> QED BY <1>4, <1>5, <1>6 DEF TurnFits

\* While the UI listens to a turn that began alone, no other stream is open or will be.
LEMMA AloneFacts ==
    ASSUME CancelIInv, turn \in alone, NEW t \in Turn, t # turn
    PROVE  pc[t] \in {"none", "closed"}
<1>1. turn \in Turn /\ turn = turns /\ turns \in Nat
      BY ToolAssumption, CallFacts DEF CancelIInv, CancelShape, UiFits, AloneStaysAlone, NoTurn
<1>2. CASE t > turns
      BY <1>2 DEF CancelIInv, TurnFits, AttemptsCounted
<1>3. CASE t < turns
  <2>1. t \in 1 .. turn - 1
        BY <1>1, <1>3, CallFacts
  <2> QED BY <2>1 DEF CancelIInv, AloneStaysAlone
<1> QED BY <1>1, <1>2, <1>3, CallFacts

\* A step of the stream of t: what the UI has is not disturbed.
LEMMA StreamStep ==
    ASSUME CancelIInv, NEW t \in Turn, CancelShape', TurnFits(t)',
           UNCHANGED <<turn, slot, turns, cancelled, alone, esc>>,
           \A s \in Turn \ {t} :
               /\ pc'[s] = pc[s] /\ attempt'[s] = attempt[s] /\ made'[s] = made[s]
               /\ pending'[s] = pending[s] /\ running'[s] = running[s] /\ tools'[s] = tools[s]
               /\ ends'[s] = ends[s],
           stopped \subseteq stopped', \A c \in stopped' \ stopped : c.turn = t,
           pc'[t] = "closed" \/ pc[t] # "closed",
           \/ toolCtx' = toolCtx /\ pc'[t] \in {pc[t], "begin", "closed"}
           \/ pc[t] \notin {"none", "closed"} /\ (toolCtx' = t \/ pc'[t] # "stream"),
           \/ events' = events
           \/ \E e \in Posted : /\ events' = IF t = turn THEN Append(events, e) ELSE events
                                /\ e.kind # "end" => e.call.turn = t
    PROVE  CancelIInv'
<1> USE DEF CancelIInv
<1>1. \A s \in Turn : TurnFits(s)'
  <2> TAKE s \in Turn
  <2>1. CASE s = t
        BY <2>1
  <2>2. CASE s # t
        BY <2>2, TurnLeftAlone
  <2> QED BY <2>1, <2>2
<1>2. UiFits'
  <2>1. CASE events' = events
        BY <2>1 DEF UiFits
  <2>2. ASSUME NEW e \in Posted, t = turn, events' = Append(events, e),
               e.kind # "end" => e.call.turn = t
        PROVE  UiFits'
    <3>1. events \in Seq(Posted) /\ Len(events) \in Nat
          BY DEF CancelShape
    <3>2. /\ DOMAIN events' = 1 .. Len(events) + 1 /\ events'[Len(events) + 1] = e
          /\ \A i \in 1 .. Len(events) : events'[i] = events[i]
          BY <2>2, <3>1, AppendProperties, LenProperties
    <3>3. \A i \in DOMAIN events' : i = Len(events) + 1 \/ i \in 1 .. Len(events)
          BY <3>1, <3>2
    <3>4. DOMAIN events = 1 .. Len(events)
          BY <3>1, LenProperties
    <3> QED BY <2>2, <3>2, <3>3, <3>4 DEF UiFits
  <2> QED BY <2>1, <2>2
<1>3. SlotOfTurn' /\ EscFits'
      BY DEF SlotOfTurn, EscFits, CancelledWasRunning, EscReachesActiveTool
<1>4. AloneStaysAlone'
  <2>1. \A s \in Turn : pc[s] = "closed" => pc'[s] = "closed"
        OBVIOUS
  <2>2. \A a \in alone : \A s \in 1 .. a - 1 : s \in Turn
        BY ToolAssumption DEF AloneStaysAlone, CancelShape, Turn
  <2> QED BY <2>1, <2>2 DEF AloneStaysAlone
<1>5. ManagerOfActiveStream'
  <2> SUFFICES ASSUME turn \in alone, pc'[turn] = "stream" PROVE toolCtx' = turn
      BY DEF ManagerOfActiveStream
  <2>1. turn \in Turn
        BY ToolAssumption DEF AloneStaysAlone, CancelShape, Turn
  <2>2. CASE t = turn
        BY <2>2 DEF ManagerOfActiveStream
  <2>3. CASE t # turn
    <3>1. pc[t] \in {"none", "closed"} /\ pc[turn] = "stream"
          BY <2>1, <2>3, AloneFacts
    <3> QED BY <3>1 DEF ManagerOfActiveStream
  <2> QED BY <2>2, <2>3
<1> QED BY <1>1, <1>2, <1>3, <1>4, <1>5

\* What a stream posts is well formed, and the terminal event goes out once.
LEMMA PostFacts ==
    ASSUME CancelIInv, NEW t \in Turn, NEW e \in Posted, Post(t, e)
    PROVE  events' \in Seq(Posted) /\ events' = IF t = turn THEN Append(events, e) ELSE events
<1>1. events \in Seq(Posted)
      BY DEF CancelIInv, CancelShape
<1>2. Append(events, e) \in Seq(Posted)
      BY <1>1, AppendProperties
<1> QED BY <1>1, <1>2 DEF Post

LEMMA TerminalFacts ==
    ASSUME CancelIInv, NEW t \in Turn, pc[t] # "closed", Terminal(t)
    PROVE  /\ events' \in Seq(Posted)
           /\ \/ events' = events
              \/ \E e \in Posted : /\ events' = IF t = turn THEN Append(events, e) ELSE events
                                   /\ e.kind # "end" => e.call.turn = t
           /\ ends' \in [Turn -> Nat] /\ ends'[t] <= 1
           /\ \A s \in Turn \ {t} : ends'[s] = ends[s]
<1>1. ends \in [Turn -> Nat] /\ ends[t] \in Nat /\ ends[t] = 0
  <2>1. ends \in [Turn -> Nat] /\ ends[t] <= 1 /\ ends[t] # 1
        BY DEF CancelIInv, CancelShape, TurnFits, AttemptsCounted
  <2> QED BY <2>1
<1>2. CASE Post(t, Event("end", NoCall)) /\ ends' = [ends EXCEPT ![t] = @ + 1]
  <2>1. Event("end", NoCall) \in Posted /\ Event("end", NoCall).kind = "end"
        BY DEF Posted, Event
  <2>2. /\ events' \in Seq(Posted)
        /\ events' = IF t = turn THEN Append(events, Event("end", NoCall)) ELSE events
        BY <1>2, <2>1, PostFacts
  <2>3. ends' \in [Turn -> Nat] /\ ends'[t] = 1 /\ \A s \in Turn \ {t} : ends'[s] = ends[s]
        BY <1>1, <1>2
  <2> QED BY <2>1, <2>2, <2>3
<1>3. CASE UNCHANGED <<events, ends>>
      BY <1>1, <1>3 DEF CancelIInv, CancelShape
<1> QED BY <1>2, <1>3 DEF Terminal

\* An attempt begins with no call of its own known.
LEMMA OpenStep ==
    ASSUME CancelIInv, NEW t \in Turn, Open(t)
    PROVE  CancelIInv'
<1>1. /\ pc[t] = "begin" /\ pc' = [pc EXCEPT ![t] = "stream"] /\ toolCtx' = t
      /\ made' = [made EXCEPT ![t] = 0]
      /\ UNCHANGED <<turn, slot, turns, events, attempt, pending, running, tools,
                     cancelled, stopped, ends, esc, alone>>
      BY DEF Open
<1>2. CancelShape /\ TurnFits(t)
      BY DEF CancelIInv
<1>3. CancelShape'
  <2>1. pc' \in [Turn -> {"none", "begin", "stream", "backoff", "closed"}]
        BY <1>1, <1>2 DEF CancelShape
  <2>2. made' \in [Turn -> 0 .. MaxCalls]
        BY <1>1, <1>2, ToolAssumption DEF CancelShape
  <2> QED BY <1>1, <1>2, <2>1, <2>2 DEF CancelShape
<1>4. pc'[t] = "stream" /\ made'[t] = 0 /\ \A s \in Turn \ {t} : pc'[s] = pc[s] /\ made'[s] = made[s]
      BY <1>1, <1>2 DEF CancelShape
<1>5. pending[t] = <<>> /\ Known(t)' = Known(t) /\ \A c \in Known(t) : c.turn = t /\ c.att < attempt[t] /\ c \in Call
      BY <1>1, <1>2 DEF TurnFits, CallsInOrder, Known, CancelShape
<1>6. Live(t) = {} /\ Live(t)' = {}
  <2>1. attempt[t] \in Nat
        BY <1>2, ToolAssumption DEF CancelShape
  <2>2. \A c \in running[t] : c.att # attempt[t]
        BY <1>5, <2>1, CallFacts DEF Known
  <2> QED BY <1>1, <1>4, <2>2 DEF Live, OfAttempt
<1>7. TurnFits(t)'
  <2>1. attempt[t] \in Nat /\ attempt[t] > 0
        BY <1>1, <1>2, ToolAssumption DEF CancelShape, TurnFits, AttemptsCounted
  <2>2. CallsInOrder(t)'
    <3>1. \A c \in Known(t)' : c.turn = t /\ c.att <= attempt[t] /\ c.att # attempt[t]
          BY <1>5, <2>1, CallFacts
    <3>2. pending'[t] = <<>> /\ DOMAIN pending'[t] = {}
          BY <1>1, <1>5
    <3> QED BY <1>1, <1>4, <3>1, <3>2 DEF CallsInOrder
  <2>3. AttemptsCounted(t)'
        BY <1>1, <1>2, <1>4 DEF TurnFits, AttemptsCounted
  <2>4. ToolsAccounted(t)'
        BY <1>1, <1>2, <1>6 DEF TurnFits, ToolsAccounted
  <2> QED BY <2>2, <2>3, <2>4 DEF TurnFits
<1> QED BY <1>1, <1>3, <1>4, <1>7, StreamStep

\* A new call waits behind those announced before it.
LEMMA AnnounceStep ==
    ASSUME CancelIInv, NEW t \in Turn, NEW name \in Names, Announce(t, name)
    PROVE  CancelIInv'
<1> DEFINE new == [turn |-> t, att |-> attempt[t], n |-> made[t] + 1, name |-> name]
<1>1. CancelShape /\ TurnFits(t)
      BY DEF CancelIInv
<1>2. /\ pc[t] = "stream" /\ made[t] < MaxCalls
      /\ made' = [made EXCEPT ![t] = @ + 1]
      /\ pending' = [pending EXCEPT ![t] = Append(@, new)]
      /\ Post(t, Event("start", new))
      /\ UNCHANGED <<turn, slot, turns, pc, attempt, running, tools, toolCtx, cancelled, stopped,
                     ends, esc, alone>>
      BY DEF Announce
<1>3. /\ attempt[t] \in 1 .. MaxAttempts /\ made[t] + 1 \in 1 .. MaxCalls /\ made[t] \in Nat
      /\ made[t] + 1 \in 0 .. MaxCalls
  <2>1. attempt[t] \in 0 .. MaxAttempts /\ attempt[t] > 0
        BY <1>1, <1>2 DEF CancelShape, TurnFits, AttemptsCounted
  <2>2. made[t] \in 0 .. MaxCalls
        BY <1>1 DEF CancelShape
  <2> QED BY <1>2, <2>1, <2>2, ToolAssumption
<1>4. PICK c \in Call : c = new
      BY <1>3 DEF Call
<1>5. c.turn = t /\ c.att = attempt[t] /\ c.n = made[t] + 1
      BY <1>4
<1> HIDE DEF new
<1>6. Event("start", c) \in Posted /\ Event("start", c).call = c
      BY DEF Event, Posted
<1>7. /\ events' \in Seq(Posted)
      /\ events' = IF t = turn THEN Append(events, Event("start", c)) ELSE events
      BY <1>2, <1>4, <1>6, PostFacts
<1>8. PICK p \in Seq(Call) : p = pending[t]
      BY <1>1 DEF CancelShape
<1>9. /\ pending'[t] = Append(p, c) /\ Append(p, c) \in Seq(Call) /\ Len(p) \in Nat
      /\ Len(Append(p, c)) = Len(p) + 1 /\ DOMAIN p = 1 .. Len(p)
      /\ \A i \in 1 .. Len(p) : Append(p, c)[i] = p[i]
      /\ Append(p, c)[Len(p) + 1] = c
      /\ DOMAIN Append(p, c) = 1 .. Len(p) + 1
  <2>1. pending'[t] = Append(p, c)
        BY <1>1, <1>2, <1>4, <1>8 DEF CancelShape
  <2> QED BY <2>1, AppendProperties, LenProperties
<1>10. made'[t] = made[t] + 1 /\ \A s \in Turn \ {t} : made'[s] = made[s] /\ pending'[s] = pending[s]
      BY <1>1, <1>2 DEF CancelShape
<1>11. CancelShape'
  <2>1. made' \in [Turn -> 0 .. MaxCalls]
        BY <1>1, <1>2, <1>3 DEF CancelShape
  <2>2. pending' \in [Turn -> Seq(Call)]
        BY <1>1, <1>2, <1>4, <1>8, <1>9 DEF CancelShape
  <2> QED BY <1>1, <1>2, <1>7, <2>1, <2>2 DEF CancelShape
<1>12. Ran(t)' = Ran(t) /\ Ran(t) = made[t] - Len(p) /\ Ran(t) \in Int
      BY <1>3, <1>8, <1>9, <1>10 DEF Ran
<1>13. TurnFits(t)'
  <2>1. CallsInOrder(t)'
    <3>1. \A i \in DOMAIN pending'[t] :
             /\ pending'[t][i].turn = t /\ pending'[t][i].att = attempt[t]
             /\ pending'[t][i].n = Ran(t) + i
      <4> TAKE i \in DOMAIN pending'[t]
      <4>1. CASE i = Len(p) + 1
            BY <1>3, <1>5, <1>9, <1>12, <4>1
      <4>2. CASE i # Len(p) + 1
        <5>1. i \in 1 .. Len(p)
              BY <1>9, <4>2
        <5> QED BY <1>1, <1>8, <1>9, <5>1 DEF TurnFits, CallsInOrder
      <4> QED BY <4>1, <4>2
    <3>2. Known(t)' = Known(t)
          BY <1>2 DEF Known
    <3> QED BY <1>1, <1>2, <1>12, <3>1, <3>2 DEF TurnFits, CallsInOrder
  <2>2. AttemptsCounted(t)'
        BY <1>1, <1>2 DEF TurnFits, AttemptsCounted
  <2>3. ToolsAccounted(t)'
        BY <1>1, <1>2 DEF TurnFits, ToolsAccounted, Live, OfAttempt
  <2> QED BY <2>1, <2>2, <2>3 DEF TurnFits
<1>14. \E e \in Posted : /\ events' = IF t = turn THEN Append(events, e) ELSE events
                         /\ e.kind # "end" => e.call.turn = t
       BY <1>5, <1>6, <1>7
<1> QED BY <1>2, <1>10, <1>11, <1>13, <1>14, StreamStep

\* The call that is run next has not been told to stop: nobody could name it to its manager.
LEMMA RunStep ==
    ASSUME CancelIInv, NEW t \in Turn, Run(t)
    PROVE  CancelIInv'
<1>1. CancelShape /\ TurnFits(t)
      BY DEF CancelIInv
<1>2. PICK p \in Seq(Call) : p = pending[t]
      BY <1>1 DEF CancelShape
<1>3. PICK c \in Call : c = Head(p)
      BY <1>2, EmptySeq DEF Run
<1>4. /\ pc[t] = "stream" /\ p # <<>> /\ OfAttempt(t) = {}
      /\ pending' = [pending EXCEPT ![t] = Tail(@)]
      /\ running' = [running EXCEPT ![t] = @ \cup {c}]
      /\ tools' = [tools EXCEPT ![t] = IF t \in cancelled THEN @ ELSE @ \cup {c}]
      /\ UNCHANGED <<turn, slot, turns, events, pc, attempt, made, toolCtx,
                     cancelled, stopped, ends, esc, alone>>
      BY <1>2, <1>3 DEF Run
<1>5. /\ pending'[t] = Tail(p) /\ Tail(p) \in Seq(Call) /\ Len(p) \in Nat /\ Len(p) > 0
      /\ Len(Tail(p)) = Len(p) - 1 /\ DOMAIN p = 1 .. Len(p)
      /\ \A i \in 1 .. Len(p) - 1 : Tail(p)[i] = p[i + 1]
      /\ DOMAIN Tail(p) = 1 .. Len(p) - 1 /\ p[1] = c
  <2>1. pending'[t] = Tail(p)
        BY <1>1, <1>2, <1>4 DEF CancelShape
  <2>2. Len(p) \in Nat /\ Len(p) > 0 /\ DOMAIN p = 1 .. Len(p)
        BY <1>4, EmptySeq, LenProperties
  <2>3. Tail(p) \in Seq(Call) /\ Len(Tail(p)) = Len(p) - 1 /\ \A i \in 1 .. Len(p) - 1 : Tail(p)[i] = p[i + 1]
        BY <1>4, <2>2, HeadTailProperties
  <2>4. p[1] = c
        BY <1>3, <1>4
  <2> QED BY <2>1, <2>2, <2>3, <2>4, LenProperties
<1>6. /\ running'[t] = running[t] \cup {c}
      /\ tools'[t] = IF t \in cancelled THEN tools[t] ELSE tools[t] \cup {c}
      /\ \A s \in Turn \ {t} : running'[s] = running[s] /\ tools'[s] = tools[s] /\ pending'[s] = pending[s]
      BY <1>1, <1>4 DEF CancelShape
<1>7. CancelShape'
  <2>1. pending' \in [Turn -> Seq(Call)]
        BY <1>1, <1>2, <1>4, <1>5 DEF CancelShape
  <2>2. running' \in [Turn -> SUBSET Call] /\ tools' \in [Turn -> SUBSET Call]
        BY <1>1, <1>4 DEF CancelShape
  <2> QED BY <1>1, <1>4, <2>1, <2>2 DEF CancelShape
<1>8. made[t] \in Nat /\ Ran(t)' = Ran(t) + 1 /\ Ran(t) = made[t] - Len(p) /\ Ran(t) \in Int
      BY <1>1, <1>2, <1>4, <1>5, ToolAssumption DEF Ran, CancelShape
<1>9. c.turn = t /\ c.att = attempt[t] /\ c.n = Ran(t) + 1
  <2>1. 1 \in DOMAIN pending[t]
        BY <1>2, <1>5
  <2> QED BY <1>1, <1>2, <1>5, <2>1 DEF TurnFits, CallsInOrder
<1>10. c \notin stopped
  <2>1. c \in stopped => c.n <= Ran(t)
        BY <1>1, <1>4, <1>9 DEF TurnFits, CallsInOrder, Known
  <2> QED BY <1>8, <1>9, <2>1
<1>11. Live(t) = {} /\ Live(t)' = {c}
      BY <1>4, <1>6, <1>9 DEF Live, OfAttempt
<1>12. TurnFits(t)'
  <2>1. CallsInOrder(t)'
    <3>1. \A i \in DOMAIN pending'[t] :
             /\ pending'[t][i].turn = t /\ pending'[t][i].att = attempt[t]
             /\ pending'[t][i].n = Ran(t) + 1 + i
      <4> TAKE i \in DOMAIN pending'[t]
      <4>1. i \in 1 .. Len(p) - 1 /\ i + 1 \in DOMAIN pending[t] /\ pending'[t][i] = pending[t][i + 1]
            BY <1>2, <1>5
      <4>2. /\ pending[t][i + 1].turn = t /\ pending[t][i + 1].att = attempt[t]
            /\ pending[t][i + 1].n = Ran(t) + (i + 1)
            BY <1>1, <4>1 DEF TurnFits, CallsInOrder
      <4>3. Ran(t) + (i + 1) = Ran(t) + 1 + i
        <5>1. i \in Int /\ Ran(t) \in Int
              BY <1>5, <1>8, <4>1
        <5> QED BY <5>1
      <4> QED BY <4>1, <4>2, <4>3
    <3>2. \A d \in Known(t)' : d.turn = t /\ d.att <= attempt[t] /\ (d.att = attempt[t] => d.n <= Ran(t) + 1)
      <4> TAKE d \in Known(t)'
      <4>1. CASE d = c
        <5>1. attempt[t] \in Nat
              BY <1>1, ToolAssumption DEF CancelShape
        <5> QED BY <1>8, <1>9, <4>1, <5>1
      <4>2. CASE d # c
        <5>1. d \in Known(t) /\ d \in Call
              BY <1>1, <1>4, <1>6, <4>2 DEF Known, CancelShape
        <5>2. d.turn = t /\ d.att <= attempt[t] /\ (d.att = attempt[t] => d.n <= Ran(t))
              BY <1>1, <1>4, <5>1 DEF TurnFits, CallsInOrder
        <5> QED BY <1>8, <5>1, <5>2, CallFacts
      <4> QED BY <4>1, <4>2
    <3> QED BY <1>4, <1>8, <3>1, <3>2 DEF CallsInOrder
  <2>2. AttemptsCounted(t)'
        BY <1>1, <1>4 DEF TurnFits, AttemptsCounted
  <2>3. ToolsAccounted(t)'
    <3>1. tools[t] = {} /\ (t \notin cancelled => running[t] \subseteq stopped)
          BY <1>1, <1>11 DEF TurnFits, ToolsAccounted
    <3> QED BY <1>4, <1>6, <1>10, <1>11, <3>1 DEF ToolsAccounted
  <2> QED BY <2>1, <2>2, <2>3 DEF TurnFits
<1>13. /\ toolCtx' = toolCtx /\ pc'[t] = pc[t] /\ pc[t] # "closed" /\ stopped' = stopped
       /\ \A s \in Turn \ {t} : pc'[s] = pc[s] /\ attempt'[s] = attempt[s] /\ made'[s] = made[s]
                                /\ ends'[s] = ends[s]
       BY <1>4
<1> QED BY <1>4, <1>6, <1>7, <1>12, <1>13, StreamStep

\* A tool that is through leaves the manager that knew it.
LEMMA FinishStep ==
    ASSUME CancelIInv, NEW t \in Turn, NEW c \in running[t], Finish(t, c)
    PROVE  CancelIInv'
<1>1. CancelShape /\ TurnFits(t)
      BY DEF CancelIInv
<1>2. /\ running' = [running EXCEPT ![t] = @ \ {c}]
      /\ tools' = [tools EXCEPT ![t] = @ \ {c}]
      /\ stopped' = stopped \cup {c}
      /\ Post(t, Event("result", c)) \/ events' = events
      /\ UNCHANGED <<turn, slot, turns, pc, attempt, made, pending, toolCtx, cancelled, ends, esc, alone>>
      BY DEF Finish
<1>3. c \in Call /\ c \in Known(t) /\ c.turn = t
      BY <1>1 DEF CancelShape, TurnFits, CallsInOrder, Known
<1>4. Event("result", c) \in Posted /\ Event("result", c).call = c
      BY <1>3 DEF Event, Posted
<1>5. /\ events' \in Seq(Posted)
      /\ \/ events' = events
         \/ events' = IF t = turn THEN Append(events, Event("result", c)) ELSE events
      BY <1>1, <1>2, <1>4, PostFacts DEF CancelShape
<1>6. /\ running'[t] = running[t] \ {c} /\ tools'[t] = tools[t] \ {c}
      /\ \A s \in Turn \ {t} : running'[s] = running[s] /\ tools'[s] = tools[s]
      BY <1>1, <1>2 DEF CancelShape
<1>7. CancelShape'
  <2>1. running' \in [Turn -> SUBSET Call] /\ tools' \in [Turn -> SUBSET Call]
        BY <1>1, <1>2 DEF CancelShape
  <2> QED BY <1>1, <1>2, <1>3, <1>5, <2>1 DEF CancelShape
<1>8. TurnFits(t)'
  <2>1. Known(t)' = Known(t)
        BY <1>2, <1>3, <1>6 DEF Known
  <2>2. Live(t)' = Live(t) \ {c}
        BY <1>2, <1>6 DEF Live, OfAttempt
  <2>3. CallsInOrder(t)'
        BY <1>1, <1>2, <2>1 DEF TurnFits, CallsInOrder, Ran
  <2>4. AttemptsCounted(t)'
        BY <1>1, <1>2 DEF TurnFits, AttemptsCounted
  <2>5. ToolsAccounted(t)'
        BY <1>1, <1>2, <1>6, <2>2 DEF TurnFits, ToolsAccounted
  <2> QED BY <2>3, <2>4, <2>5 DEF TurnFits
<1>9. \/ events' = events
      \/ \E e \in Posted : /\ events' = IF t = turn THEN Append(events, e) ELSE events
                           /\ e.kind # "end" => e.call.turn = t
      BY <1>3, <1>4, <1>5
<1>10. /\ toolCtx' = toolCtx /\ pc'[t] = pc[t] /\ \A d \in stopped' \ stopped : d.turn = t
       /\ \A s \in Turn \ {t} : pc'[s] = pc[s] /\ attempt'[s] = attempt[s] /\ made'[s] = made[s]
                                /\ pending'[s] = pending[s] /\ ends'[s] = ends[s]
       BY <1>2, <1>3
<1> QED BY <1>2, <1>6, <1>7, <1>8, <1>9, <1>10, StreamStep

\* The end of an attempt tells every tool it leaves behind to stop.
LEMMA OverStep ==
    ASSUME CancelIInv, NEW t \in Turn, Succeed(t) \/ Break(t) \/ GiveUp(t)
    PROVE  CancelIInv'
<1>1. CancelShape /\ TurnFits(t)
      BY DEF CancelIInv
<1>2. /\ pc[t] = "stream" /\ Deferred(t)
      /\ UNCHANGED <<turn, slot, turns, attempt, made, running, cancelled, esc, alone>>
      BY DEF Succeed, Break, GiveUp
<1>3. PICK to \in {"closed", "backoff"} :
          /\ pc' = [pc EXCEPT ![t] = to]
          /\ to = "backoff" => attempt[t] < MaxAttempts /\ UNCHANGED <<events, ends>>
          /\ to = "closed" => Terminal(t)
      BY DEF Succeed, Break, GiveUp
<1>4. pending' \in [Turn -> Seq(Call)] /\ pending'[t] = <<>> /\ \A s \in Turn \ {t} : pending'[s] = pending[s]
  <2>1. pending \in [Turn -> Seq(Call)] /\ <<>> \in Seq(Call)
        BY <1>1 DEF CancelShape
  <2> QED BY <2>1 DEF Succeed, Break, GiveUp
<1>5. /\ stopped' = stopped \cup tools[t] /\ toolCtx' = NoTurn /\ tools'[t] = {}
      /\ tools' \in [Turn -> SUBSET Call] /\ \A s \in Turn \ {t} : tools'[s] = tools[s]
      BY <1>1, <1>2 DEF Deferred, CancelShape
<1>6. /\ events' \in Seq(Posted)
      /\ \/ events' = events
         \/ \E e \in Posted : /\ events' = IF t = turn THEN Append(events, e) ELSE events
                              /\ e.kind # "end" => e.call.turn = t
      /\ ends' \in [Turn -> Nat] /\ ends'[t] <= 1 /\ \A s \in Turn \ {t} : ends'[s] = ends[s]
      /\ to = "backoff" => ends'[t] = ends[t]
  <2>1. CASE to = "closed"
        BY <1>2, <1>3, <2>1, TerminalFacts
  <2>2. CASE to = "backoff"
        BY <1>1, <1>3, <2>2 DEF CancelShape, TurnFits, AttemptsCounted
  <2> QED BY <2>1, <2>2
<1>7. pc'[t] = to /\ \A s \in Turn \ {t} : pc'[s] = pc[s]
      BY <1>1, <1>3 DEF CancelShape
<1>8. tools[t] \subseteq Call /\ tools[t] \subseteq Live(t) /\ Live(t) \subseteq running[t]
      BY <1>1 DEF CancelShape, TurnFits, ToolsAccounted, Live, OfAttempt
<1>9. CancelShape'
  <2>1. pc' \in [Turn -> {"none", "begin", "stream", "backoff", "closed"}]
        BY <1>1, <1>3 DEF CancelShape
  <2> QED BY <1>1, <1>2, <1>4, <1>5, <1>6, <1>8, <2>1 DEF CancelShape
<1>10. \A c \in running[t] : c.turn = t
      BY <1>1 DEF TurnFits, CallsInOrder, Known
<1>11. TurnFits(t)'
  <2>1. Known(t)' = Known(t)
        BY <1>2, <1>5, <1>8, <1>10 DEF Known
  <2>2. CallsInOrder(t)'
        BY <1>1, <1>2, <1>4, <1>7, <2>1 DEF TurnFits, CallsInOrder
  <2>3. AttemptsCounted(t)'
        BY <1>1, <1>2, <1>3, <1>6, <1>7 DEF TurnFits, AttemptsCounted
  <2>4. ToolsAccounted(t)'
    <3>1. Live(t)' = {}
          BY <1>3, <1>7 DEF Live
    <3> QED BY <1>1, <1>2, <1>5, <3>1 DEF TurnFits, ToolsAccounted
  <2> QED BY <2>2, <2>3, <2>4 DEF TurnFits
<1>12. \A c \in stopped' \ stopped : c.turn = t
      BY <1>5, <1>8, <1>10
<1> QED BY <1>2, <1>3, <1>4, <1>5, <1>6, <1>7, <1>9, <1>11, <1>12, StreamStep

\* Between two attempts nothing of either is running under a manager.
LEMMA WaitStep ==
    ASSUME CancelIInv, NEW t \in Turn, NoModel(t) \/ Retry(t) \/ GiveUpWaiting(t)
    PROVE  CancelIInv'
<1>1. CancelShape /\ TurnFits(t)
      BY DEF CancelIInv
<1>2. /\ pc[t] \in {"begin", "backoff"}
      /\ UNCHANGED <<turn, slot, turns, made, pending, running, tools, toolCtx, cancelled,
                     stopped, esc, alone>>
      BY DEF NoModel, Retry, GiveUpWaiting
<1>3. PICK to \in {"closed", "begin"} :
          /\ pc' = [pc EXCEPT ![t] = to]
          /\ to = "begin" => /\ pc[t] = "backoff" /\ attempt' = [attempt EXCEPT ![t] = @ + 1]
                             /\ UNCHANGED <<events, ends>>
          /\ to = "closed" => Terminal(t) /\ attempt' = attempt
      BY DEF NoModel, Retry, GiveUpWaiting
<1>4. /\ events' \in Seq(Posted)
      /\ \/ events' = events
         \/ \E e \in Posted : /\ events' = IF t = turn THEN Append(events, e) ELSE events
                              /\ e.kind # "end" => e.call.turn = t
      /\ ends' \in [Turn -> Nat] /\ ends'[t] <= 1 /\ \A s \in Turn \ {t} : ends'[s] = ends[s]
      /\ to = "begin" => ends'[t] = ends[t]
  <2>1. CASE to = "closed"
        BY <1>2, <1>3, <2>1, TerminalFacts
  <2>2. CASE to = "begin"
        BY <1>1, <1>3, <2>2 DEF CancelShape, TurnFits, AttemptsCounted
  <2> QED BY <2>1, <2>2
<1>5. attempt[t] \in Nat /\ attempt[t] > 0 /\ (pc[t] = "backoff" => attempt[t] < MaxAttempts)
      BY <1>1, <1>2, ToolAssumption DEF CancelShape, TurnFits, AttemptsCounted
<1>6. /\ attempt' \in [Turn -> 0 .. MaxAttempts]
      /\ attempt'[t] = (IF to = "begin" THEN attempt[t] + 1 ELSE attempt[t])
      /\ \A s \in Turn \ {t} : attempt'[s] = attempt[s]
  <2>1. CASE to = "closed"
        BY <1>1, <1>3, <2>1 DEF CancelShape
  <2>2. CASE to = "begin"
    <3>1. attempt[t] + 1 \in 0 .. MaxAttempts
          BY <1>3, <1>5, <2>2, ToolAssumption
    <3> QED BY <1>1, <1>3, <2>2, <3>1 DEF CancelShape
  <2> QED BY <2>1, <2>2
<1>7. pc'[t] = to /\ \A s \in Turn \ {t} : pc'[s] = pc[s]
      BY <1>1, <1>3 DEF CancelShape
<1>8. CancelShape'
  <2>1. pc' \in [Turn -> {"none", "begin", "stream", "backoff", "closed"}]
        BY <1>1, <1>3 DEF CancelShape
  <2> QED BY <1>1, <1>2, <1>4, <1>6, <2>1 DEF CancelShape
<1>9. TurnFits(t)'
  <2>1. Known(t)' = Known(t) /\ pending[t] = <<>> /\ DOMAIN pending[t] = {}
        BY <1>1, <1>2 DEF Known, TurnFits, CallsInOrder
  <2>2. \A c \in Known(t) : c.turn = t /\ c.att <= attempt[t] /\ c.att \in Nat
        BY <1>1, CallFacts DEF TurnFits, CallsInOrder, Known, CancelShape
  <2>3. \A c \in Known(t) : c.att <= attempt'[t] /\ (to = "begin" => c.att < attempt'[t])
        BY <1>5, <1>6, <2>2
  <2>4. CallsInOrder(t)'
        BY <1>2, <1>7, <2>1, <2>2, <2>3 DEF CallsInOrder
  <2>5. AttemptsCounted(t)'
    <3>1. attempt'[t] > 0 /\ to # "none" /\ ~(t > turns')
          BY <1>1, <1>2, <1>5, <1>6 DEF TurnFits, AttemptsCounted
    <3>2. to = "begin" => ends'[t] # 1
          BY <1>1, <1>2, <1>4 DEF TurnFits, AttemptsCounted
    <3> QED BY <1>3, <1>4, <1>7, <3>1, <3>2 DEF AttemptsCounted
  <2>6. ToolsAccounted(t)'
    <3>1. Live(t)' = {} /\ Live(t) = {}
          BY <1>2, <1>7 DEF Live
    <3> QED BY <1>1, <1>2, <3>1 DEF TurnFits, ToolsAccounted
  <2> QED BY <2>4, <2>5, <2>6 DEF TurnFits
<1> QED BY <1>2, <1>3, <1>4, <1>6, <1>7, <1>8, <1>9, StreamStep

LEMMA StartTurnStep ==
    ASSUME CancelIInv, StartTurn
    PROVE  CancelIInv'
<1> USE DEF CancelIInv
<1>1. PICK n \in Turn : n = turns + 1
      BY ToolAssumption DEF StartTurn, CancelShape, Turn
<1>2. /\ turn = NoTurn /\ turns' = n /\ turn' = n /\ slot' = NoCall /\ events' = <<>>
      /\ pc' = [pc EXCEPT ![n] = "begin"] /\ attempt' = [attempt EXCEPT ![n] = 1]
      /\ alone' = IF \A t \in 1 .. turns : pc[t] = "closed" THEN alone \cup {n} ELSE alone
      /\ UNCHANGED <<made, pending, running, tools, toolCtx, cancelled, stopped, ends, esc>>
      BY <1>1 DEF StartTurn
<1>3. turns \in Nat /\ n \in Nat /\ n > turns /\ n \in 0 .. MaxTurns
      BY <1>1, ToolAssumption DEF CancelShape, Turn
<1>4. /\ pc'[n] = "begin" /\ attempt'[n] = 1
      /\ \A t \in Turn \ {n} : pc'[t] = pc[t] /\ attempt'[t] = attempt[t]
      BY <1>2 DEF CancelShape
<1>5. CancelShape'
  <2>1. pc' \in [Turn -> {"none", "begin", "stream", "backoff", "closed"}]
        BY <1>2 DEF CancelShape
  <2>2. 1 \in 0 .. MaxAttempts
        BY ToolAssumption
  <2>3. attempt' \in [Turn -> 0 .. MaxAttempts]
        BY <1>2, <2>2 DEF CancelShape
  <2>4. events' \in Seq(Posted)
        BY <1>2
  <2> QED BY <1>2, <1>3, <2>1, <2>3, <2>4 DEF CancelShape
<1>6. ASSUME NEW t \in Turn PROVE TurnFits(t)'
  <2>1. CASE t = n
    <3>1. pc[n] = "none" /\ attempt[n] = 0 /\ ends[n] # 1 /\ ends[n] <= 1 /\ TurnFits(n)
          BY <1>3 DEF TurnFits, AttemptsCounted
    <3>2. Known(n)' = {} /\ Known(n) = {}
      <4>1. \A c \in Known(n) : c.att < 0 /\ c \in Call
            BY <3>1 DEF TurnFits, CallsInOrder, CancelShape, Known
      <4>2. Known(n) = {}
            BY <4>1, CallFacts
      <4> QED BY <1>2, <4>2 DEF Known
    <3>3. pending[n] = <<>> /\ DOMAIN pending[n] = {}
          BY <3>1 DEF TurnFits, CallsInOrder
    <3>4. CallsInOrder(n)'
          BY <1>2, <3>2, <3>3 DEF CallsInOrder
    <3>5. AttemptsCounted(n)'
      <4>1. ~(n > turns') /\ attempt'[n] > 0
            BY <1>2, <1>3, <1>4
      <4> QED BY <1>2, <1>4, <3>1, <4>1 DEF AttemptsCounted
    <3>6. ToolsAccounted(n)'
      <4>1. Live(n)' = {} /\ Live(n) = {}
            BY <1>4, <3>1 DEF Live
      <4> QED BY <1>2, <3>1, <4>1 DEF TurnFits, ToolsAccounted
    <3> QED BY <2>1, <3>4, <3>5, <3>6 DEF TurnFits
  <2>2. CASE t # n
    <3>1. (t > turns') <=> (t > turns)
          BY <1>1, <1>2, <1>3, <2>2, CallFacts
    <3> QED BY <1>2, <1>4, <2>2, <3>1, TurnLeftAlone
  <2> QED BY <2>1, <2>2
<1>7. UiFits'
  <2>1. n \notin cancelled /\ cancelled \subseteq 1 .. n
        BY <1>3 DEF UiFits
  <2> QED BY <1>2, <2>1 DEF UiFits
<1>8. SlotOfTurn'
      BY <1>2 DEF SlotOfTurn
<1>9. AloneStaysAlone'
  <2> SUFFICES ASSUME NEW t \in alone' PROVE t \in 1 .. n /\ \A s \in 1 .. t - 1 : pc'[s] = "closed"
      BY <1>2 DEF AloneStaysAlone
  <2>1. CASE t \in alone
    <3>1. t \in 1 .. turns /\ \A s \in 1 .. t - 1 : pc[s] = "closed"
          BY <2>1 DEF AloneStaysAlone
    <3>2. \A s \in 1 .. t - 1 : s \in Turn \ {n}
          BY <1>3, <3>1, ToolAssumption DEF Turn
    <3> QED BY <1>3, <1>4, <3>1, <3>2
  <2>2. CASE t \notin alone
    <3>1. t = n /\ \A s \in 1 .. turns : pc[s] = "closed"
          BY <1>2, <2>2
    <3>2. 1 .. t - 1 = 1 .. turns /\ \A s \in 1 .. turns : s \in Turn \ {n}
          BY <1>1, <1>3, <3>1, ToolAssumption DEF Turn
    <3> QED BY <1>3, <1>4, <3>1, <3>2
  <2> QED BY <2>1, <2>2
<1>10. ManagerOfActiveStream'
      BY <1>2, <1>4 DEF ManagerOfActiveStream
<1>11. EscFits'
  <2>1. esc.outcome = "missed" => esc.call.turn \in 1 .. turns /\ esc.call.turn # n /\ esc.call.turn \in 1 .. n
        BY <1>3 DEF EscFits
  <2> QED BY <1>2, <2>1 DEF EscFits, CancelledWasRunning, EscReachesActiveTool
<1> QED BY <1>5, <1>6, <1>7, <1>8, <1>9, <1>10, <1>11

\* An event the UI handles is of the turn it listens to, and so is what it then shows.
LEMMA HandleStep ==
    ASSUME CancelIInv, Handle
    PROVE  CancelIInv'
<1> USE DEF CancelIInv
<1>1. /\ turn # NoTurn /\ events # <<>> /\ events \in Seq(Posted)
      /\ UNCHANGED <<turns, pc, attempt, made, pending, running, tools, toolCtx,
                     cancelled, stopped, ends, esc, alone>>
      BY DEF Handle, CancelShape
<1>2. PICK e \in Posted : e = Head(events) /\ e = events[1]
      BY <1>1, EmptySeq
<1>3. /\ events' = Tail(events) /\ events' \in Seq(Posted) /\ Len(events) \in Nat /\ Len(events) > 0
      /\ DOMAIN events = 1 .. Len(events) /\ DOMAIN events' = 1 .. Len(events) - 1
      /\ \A i \in 1 .. Len(events) - 1 : events'[i] = events[i + 1]
  <2>1. events' = Tail(events) /\ Len(events) \in Nat /\ Len(events) > 0 /\ DOMAIN events = 1 .. Len(events)
        BY <1>1, EmptySeq, LenProperties DEF Handle
  <2>2. /\ events' \in Seq(Posted) /\ Len(events') = Len(events) - 1
        /\ \A i \in 1 .. Len(events) - 1 : events'[i] = events[i + 1]
        BY <1>1, <2>1, HeadTailProperties
  <2> QED BY <2>1, <2>2, LenProperties
<1>4. e.kind \in {"start", "result", "end"} /\ (e.kind = "start" => e.call \in Call /\ e.call.turn = turn)
  <2>1. e.kind \in {"start", "result", "end"} /\ (e.kind = "start" => e.call \in Call)
        BY DEF Posted, Event
  <2>2. 1 \in DOMAIN events
        BY <1>3
  <2> QED BY <1>1, <1>2, <2>1, <2>2 DEF UiFits
<1>5. \/ turn' = turn /\ slot' \in {slot, NoCall}
      \/ turn' = turn /\ slot' \in Call /\ slot'.turn = turn
      \/ turn' = NoTurn /\ slot' = NoCall
  <2>1. CASE e.kind = "start"
        BY <1>2, <1>4, <2>1 DEF Handle
  <2>2. CASE e.kind = "result"
        BY <1>2, <2>2 DEF Handle
  <2>3. CASE e.kind = "end"
        BY <1>2, <2>3 DEF Handle
  <2> QED BY <1>4, <2>1, <2>2, <2>3
<1>6. CancelShape'
      BY <1>1, <1>3, <1>5 DEF CancelShape
<1>7. \A t \in Turn : TurnFits(t)'
      BY <1>1, TurnLeftAlone
<1>8. UiFits'
  <2>1. \A i \in DOMAIN events' : i + 1 \in DOMAIN events /\ events'[i] = events[i + 1]
        BY <1>3
  <2> QED BY <1>1, <1>5, <2>1 DEF UiFits
<1>9. SlotOfTurn'
      BY <1>5 DEF SlotOfTurn
<1>10. ManagerOfActiveStream'
  <2>1. NoTurn \notin alone
        BY DEF AloneStaysAlone, NoTurn
  <2> QED BY <1>1, <1>5, <2>1 DEF ManagerOfActiveStream
<1>11. AloneStaysAlone' /\ EscFits'
      BY <1>1 DEF AloneStaysAlone, EscFits, CancelledWasRunning, EscReachesActiveTool
<1> QED BY <1>6, <1>7, <1>8, <1>9, <1>10, <1>11

\* Esc names the call the slot shows, of the turn the UI listens to: what a manager has of
\* that name runs in that turn, and a manager published by a turn that began alone is its own.
LEMMA EscToolStep ==
    ASSUME CancelIInv, EscTool
    PROVE  CancelIInv'
<1> USE DEF CancelIInv
<1> DEFINE found == toolCtx # NoTurn /\ slot \in tools[toolCtx]
<1>1. /\ turn # NoTurn /\ slot # NoCall
      /\ stopped' = IF found THEN stopped \cup {slot} ELSE stopped
      /\ esc' = [call |-> slot, outcome |-> IF found THEN "ok" ELSE "missed",
                 running |-> Live(turn), named |-> esc.named \cup {slot}]
      /\ UNCHANGED <<turn, slot, turns, events, pc, attempt, made, pending, running, tools,
                     toolCtx, cancelled, ends, alone>>
      BY DEF EscTool
<1>2. /\ (esc.call)' = slot /\ (esc.running)' = Live(turn) /\ (esc.named)' = esc.named \cup {slot}
      /\ (esc.outcome)' = IF found THEN "ok" ELSE "missed"
      BY <1>1
<1>3. slot \in Call /\ slot.turn = turn /\ turn = turns /\ turn \in Turn /\ turn \notin cancelled
      BY <1>1 DEF CancelShape, SlotOfTurn, UiFits
<1>4. found => toolCtx = turn /\ slot \in Live(turn)
  <2> SUFFICES ASSUME found PROVE toolCtx = turn /\ slot \in Live(turn)
      OBVIOUS
  <2>1. toolCtx \in Turn /\ slot \in Live(toolCtx)
        BY DEF CancelShape, TurnFits, ToolsAccounted
  <2>2. slot.turn = toolCtx
        BY <2>1 DEF Live, OfAttempt, TurnFits, CallsInOrder, Known
  <2> QED BY <1>3, <2>1, <2>2
<1>5. CancelShape'
      BY <1>1, <1>3 DEF CancelShape
<1>6. ASSUME NEW t \in Turn PROVE TurnFits(t)'
  <2>1. \A c \in stopped' \ stopped : c = slot /\ c \in Live(turn) /\ c.turn = turn /\ c \in (esc.named)'
        BY <1>1, <1>2, <1>3, <1>4
  <2>2. \A c \in stopped' \ stopped :
            c.turn = t => c \in running[t] /\ (c \notin Live(t) \/ c \in (esc.named)')
        BY <2>1 DEF Live, OfAttempt
  <2> QED BY <1>1, <1>2, <2>2, TurnLeftAlone
<1>7. UiFits' /\ SlotOfTurn' /\ AloneStaysAlone' /\ ManagerOfActiveStream'
      BY <1>1 DEF UiFits, SlotOfTurn, AloneStaysAlone, ManagerOfActiveStream
<1>8. EscFits'
  <2>1. CancelledWasRunning'
        BY <1>2, <1>4 DEF CancelledWasRunning
  <2>2. EscReachesActiveTool'
    <3> SUFFICES ASSUME ~found, turn \in alone, slot \in Live(turn) PROVE FALSE
        BY <1>1, <1>2, <1>3 DEF EscReachesActiveTool
    <3>1. pc[turn] = "stream" /\ toolCtx = turn
          BY DEF Live, ManagerOfActiveStream
    <3>2. slot \in tools[turn]
          BY <1>3 DEF TurnFits, ToolsAccounted
    <3> QED BY <1>1, <3>1, <3>2
  <2>3. slot.turn \in 1 .. turns
        BY <1>3, CallFacts
  <2> QED BY <1>1, <1>2, <2>1, <2>2, <2>3 DEF EscFits
<1> QED BY <1>5, <1>6, <1>7, <1>8

LEMMA EscTurnStep ==
    ASSUME CancelIInv, EscTurn
    PROVE  CancelIInv'
<1> USE DEF CancelIInv
<1>1. /\ turn # NoTurn /\ cancelled' = cancelled \cup {turn} /\ turn' = NoTurn /\ slot' = NoCall
      /\ events' = <<>>
      /\ UNCHANGED <<turns, pc, attempt, made, pending, running, tools, toolCtx,
                     stopped, ends, esc, alone>>
      BY DEF EscTurn
<1>2. turn \in Turn /\ turn = turns /\ turn \in 1 .. turns
      BY <1>1, CallFacts DEF CancelShape, UiFits
<1>3. CancelShape'
  <2>1. events' \in Seq(Posted)
        BY <1>1
  <2> QED BY <1>1, <1>2, <2>1 DEF CancelShape
<1>4. \A t \in Turn : TurnFits(t)'
      BY <1>1, TurnLeftAlone
<1>5. UiFits' /\ SlotOfTurn'
      BY <1>1, <1>2 DEF UiFits, SlotOfTurn
<1>6. AloneStaysAlone' /\ EscFits'
      BY <1>1 DEF AloneStaysAlone, EscFits, CancelledWasRunning, EscReachesActiveTool
<1>7. ManagerOfActiveStream'
  <2>1. NoTurn \notin alone
        BY DEF AloneStaysAlone, NoTurn
  <2> QED BY <1>1, <2>1 DEF ManagerOfActiveStream
<1> QED BY <1>3, <1>4, <1>5, <1>6, <1>7

LEMMA CancelFacts == CancelIInv => ToolsStopAsMeant
<1> SUFFICES ASSUME CancelIInv PROVE ToolsStopAsMeant
    OBVIOUS
<1> USE DEF CancelIInv
<1>1. CancelTypeOK
  <2>1. \A e \in Posted : e.kind \in {"start", "result", "end"}
        BY DEF Posted, Event
  <2>2. \A i \in DOMAIN events : events[i] \in Posted
        BY LenProperties DEF CancelShape
  <2> QED BY <2>1, <2>2 DEF CancelTypeOK, CancelShape
<1>2. OnlyNamedIsStopped /\ RegisteredIsRunning /\ EndsOnce
      BY DEF OnlyNamedIsStopped, RegisteredIsRunning, EndsOnce, TurnFits, ToolsAccounted, AttemptsCounted
<1>3. OldToolsToldToStop
      BY DEF OldToolsToldToStop, TurnFits, ToolsAccounted
<1> QED BY <1>1, <1>2, <1>3 DEF ToolsStopAsMeant, EscHitsItsTool, AttemptsEndClean, EscFits

\* By Esc, by a cancelled turn or by the end of an attempt, the tools that stop are those meant:
\* Esc hits the tool it names or says it missed, nothing outlives its attempt unasked, and a turn
\* ends once (llm/tool_context.go, llm/stream.go and the slot of ui/model.go).
THEOREM CancellingIsExact == CancelSpec => []ToolsStopAsMeant
<1>1. CancelIInv /\ [CancelNext]_cancelVars => CancelIInv'
  <2> SUFFICES ASSUME CancelIInv, [CancelNext]_cancelVars PROVE CancelIInv'
      OBVIOUS
  <2>1. CASE UNCHANGED cancelVars
    <3> USE <2>1 DEF cancelVars, CancelIInv
    <3>1. CancelShape'
          BY DEF CancelShape
    <3>2. \A t \in Turn : TurnFits(t)'
          BY TurnLeftAlone
    <3>3. UiFits' /\ SlotOfTurn' /\ AloneStaysAlone' /\ ManagerOfActiveStream' /\ EscFits'
          BY DEF UiFits, SlotOfTurn, AloneStaysAlone, ManagerOfActiveStream, EscFits,
                 CancelledWasRunning, EscReachesActiveTool
    <3> QED BY <3>1, <3>2, <3>3
  <2>2. ASSUME NEW t \in Turn, StreamChat(t) PROVE CancelIInv'
        BY <2>2, OpenStep, AnnounceStep, RunStep, FinishStep, OverStep, WaitStep DEF StreamChat
  <2> QED BY <2>1, <2>2, StartTurnStep, HandleStep, EscToolStep, EscTurnStep DEF CancelNext
<1> QED BY <1>1, CancelInitInv, CancelFacts, PTL DEF CancelSpec

-----------------------------------------------------------------------------
(* The names of MCP tools (McpManager) *)

\* A set of naturals that is not empty has a least one.
LEMMA LeastOf ==
    ASSUME NEW T \in SUBSET Nat, T # {}
    PROVE  \E x \in T : \A y \in T : x <= y
<1> DEFINE R == OpToRel(<, Nat)
<1>1. IsWellFoundedOn(R, Nat)
      BY NatLessThanWellFounded
<1>2. \A x, y \in Nat : <<y, x>> \in R <=> y < x
      BY DEF OpToRel
<1> HIDE DEF R
<1>3. PICK x \in T : \A y \in T : ~(<<y, x>> \in R)
      BY <1>1, WFMin
<1>4. \A y \in T : ~(y < x) /\ y \in Nat /\ x \in Nat
      BY <1>2, <1>3
<1>5. \A y \in T : x <= y
  <2> TAKE y \in T
  <2> QED BY <1>4
<1> QED BY <1>5

\* The characters of a name; the provers do not know that "u" is a string.
Chars == STRING \cup {"u"}

LEMMA SepIs == Sep \in Seq(Chars) /\ Len(Sep) = 2 /\ Sep[1] = "u" /\ Sep[2] = "u"
<1>1. ASSUME NEW T, NEW c \in T PROVE <<c, c>> \in Seq(T)
      OBVIOUS
<1>2. "u" \in Chars
      BY DEF Chars
<1>3. Sep \in Seq(Chars)
      BY <1>1, <1>2 DEF Sep
<1>4. Len(Sep) = 2 /\ Sep[1] = "u" /\ Sep[2] = "u"
      BY DEF Sep
<1> QED BY <1>3, <1>4

\* Where a name that was put together has its characters.
LEMMA NamespacedIs ==
    ASSUME NEW s \in Seq(Chars), NEW t \in Seq(Chars)
    PROVE  LET n == Namespaced(s, t)
           IN  /\ n \in Seq(Chars) /\ Len(n) = Len(s) + 2 + Len(t)
               /\ \A i \in 1 .. Len(s) : n[i] = s[i]
               /\ n[Len(s) + 1] = "u" /\ n[Len(s) + 2] = "u"
               /\ \A i \in 1 .. Len(t) : n[Len(s) + 2 + i] = t[i]
<1> DEFINE a == s \o Sep
           n == a \o t
<1>1. Sep \in Seq(Chars) /\ Len(Sep) = 2 /\ Sep[1] = "u" /\ Sep[2] = "u"
      BY SepIs
<1>2. Len(s) \in Nat /\ Len(t) \in Nat
      OBVIOUS
<1>0. /\ a \in Seq(Chars) /\ Len(a) = Len(s) + Len(Sep)
      /\ \A i \in 1 .. Len(s) + Len(Sep) : a[i] = IF i <= Len(s) THEN s[i] ELSE Sep[i - Len(s)]
      BY <1>1, ConcatProperties, Zenon
<1>3. a \in Seq(Chars) /\ Len(a) = Len(s) + 2
  <2> HIDE DEF a
  <2> QED BY <1>0, <1>1
<1>4. (\A i \in 1 .. Len(s) : a[i] = s[i]) /\ a[Len(s) + 1] = "u" /\ a[Len(s) + 2] = "u"
  <2>1. \A i \in 1 .. Len(s) + 2 : a[i] = IF i <= Len(s) THEN s[i] ELSE Sep[i - Len(s)]
        BY <1>0, <1>1
  <2>2. /\ \A i \in 1 .. Len(s) : i \in 1 .. Len(s) + 2 /\ i <= Len(s)
        /\ Len(s) + 1 \in 1 .. Len(s) + 2 /\ ~(Len(s) + 1 <= Len(s)) /\ Len(s) + 1 - Len(s) = 1
        /\ Len(s) + 2 \in 1 .. Len(s) + 2 /\ ~(Len(s) + 2 <= Len(s)) /\ Len(s) + 2 - Len(s) = 2
        BY <1>2
  <2> HIDE DEF a
  <2> QED BY <1>1, <2>1, <2>2
<1> HIDE DEF a
<1>5. n \in Seq(Chars) /\ Len(n) = Len(s) + 2 + Len(t)
      BY <1>2, <1>3
<1>6. \A i \in 1 .. Len(s) + 2 : n[i] = a[i]
      BY <1>2, <1>3
<1>7. \A i \in 1 .. Len(t) : n[Len(s) + 2 + i] = t[i]
      BY <1>2, <1>3
<1> HIDE DEF n
<1>8. /\ \A i \in 1 .. Len(s) : n[i] = s[i]
      /\ n[Len(s) + 1] = "u" /\ n[Len(s) + 2] = "u"
      BY <1>2, <1>4, <1>6
<1>9. n = Namespaced(s, t)
  <2>1. n = (s \o Sep) \o t
        BY DEF n, a
  <2> QED BY <2>1 DEF Namespaced
<1> QED BY <1>5, <1>7, <1>8, <1>9

LEMMA BreaksAre ==
    ASSUME NEW x \in Seq(Chars)
    PROVE  /\ Breaks(x) \subseteq Nat
           /\ \A i \in Nat :
                 i \in Breaks(x) <=> i \in 1 .. Len(x) - 1 /\ x[i] = "u" /\ x[i + 1] = "u"
<1>1. ASSUME NEW i \in 1 .. Len(x) - 1
      PROVE  SubSeq(x, i, i + 1) = Sep <=> x[i] = "u" /\ x[i + 1] = "u"
  <2> DEFINE y == SubSeq(x, i, i + 1)
  <2>1. i \in Nat /\ i + 1 \in Nat /\ 1 <= i /\ i + 1 <= Len(x) /\ i + 1 - i + 1 = 2
        BY <1>1
  <2>2. y \in Seq(Chars) /\ Len(y) = 2
        BY <2>1, SubSeqProperties
  <2>3. y[1] = x[i] /\ y[2] = x[i + 1]
        BY <2>1, SubSeqProperties
  <2> HIDE DEF y
  <2>4. Sep \in Seq(Chars) /\ Len(Sep) = 2 /\ Sep[1] = "u" /\ Sep[2] = "u"
        BY SepIs
  <2>5. y = Sep <=> y[1] = Sep[1] /\ y[2] = Sep[2]
    <3>1. ASSUME y[1] = Sep[1] /\ y[2] = Sep[2] PROVE y = Sep
      <4>1. \A k \in 1 .. 2 : y[k] = Sep[k]
            BY <3>1
      <4> QED BY <2>2, <2>4, <4>1, SeqEqual
    <3> QED BY <3>1
  <2> QED BY <2>3, <2>4, <2>5 DEF y
<1>2. Len(x) \in Nat /\ 1 .. Len(x) - 1 \subseteq Nat
      OBVIOUS
<1> QED BY <1>1, <1>2 DEF Breaks

\* A name comes apart as it was put together exactly when the server's name neither holds a
\* separator nor ends in an underscore.
LEMMA SplitUndoes ==
    ASSUME NEW s \in Seq(Chars), NEW t \in Seq(Chars), s # <<>>, t # <<>>
    PROVE  Split(Namespaced(s, t)) = [server |-> s, tool |-> t]
           <=> Breaks(s) = {} /\ s[Len(s)] # "u"
<1> DEFINE n == Namespaced(s, t)
           L == Len(s)
           i == CHOOSE i \in Breaks(n) : \A k \in Breaks(n) : i <= k
<1>1. L \in Nat \ {0} /\ Len(t) \in Nat \ {0}
      BY EmptySeq
<1>2. /\ n \in Seq(Chars) /\ Len(n) = L + 2 + Len(t)
      /\ \A j \in 1 .. L : n[j] = s[j]
      /\ n[L + 1] = "u" /\ n[L + 2] = "u"
      /\ \A j \in 1 .. Len(t) : n[L + 2 + j] = t[j]
      BY NamespacedIs
<1> HIDE DEF n, L
<1>3. L + 1 \in Breaks(n) /\ Breaks(n) \subseteq Nat
  <2>1. L + 1 \in 1 .. Len(n) - 1 /\ L + 1 \in Nat /\ L + 1 + 1 = L + 2
        BY <1>1, <1>2
  <2> QED BY <1>2, <2>1, BreaksAre
<1>4. i \in Breaks(n) /\ i \in Nat /\ \A k \in Breaks(n) : i <= k
  <2>1. PICK x \in Breaks(n) : \A k \in Breaks(n) : x <= k
        BY <1>3, LeastOf
  <2> QED BY <1>3, <2>1
<1>5. i \in 1 .. Len(n) - 1 /\ n[i] = "u" /\ n[i + 1] = "u" /\ i <= L + 1
      BY <1>2, <1>3, <1>4, BreaksAre
<1>6. Split(n) = IF i = 1 \/ i = Len(n) - 1 THEN NotAName
                 ELSE [server |-> SubSeq(n, 1, i - 1), tool |-> SubSeq(n, i + 2, Len(n))]
      BY <1>3 DEF Split
<1> HIDE DEF i
<1>7. CASE Breaks(s) = {} /\ s[L] # "u"
  <2>1. i = L + 1
    <3> SUFFICES ASSUME i # L + 1 PROVE FALSE
        OBVIOUS
    <3>1. i \in 1 .. L
          BY <1>1, <1>2, <1>5
    <3>2. s[i] = "u"
          BY <1>2, <1>5, <3>1
    <3>3. i # L
          BY <1>7, <3>2
    <3>4. i \in 1 .. L - 1 /\ i + 1 \in 1 .. L
          BY <1>1, <3>1, <3>3
    <3>5. s[i + 1] = "u"
          BY <1>2, <1>5, <3>4
    <3>6. i \in Breaks(s)
          BY <1>4, <3>2, <3>4, <3>5, BreaksAre DEF L
    <3> QED BY <1>7, <3>6
  <2>2. Split(n) = [server |-> SubSeq(n, 1, L), tool |-> SubSeq(n, L + 3, Len(n))]
    <3>1. i # 1 /\ i # Len(n) - 1 /\ i - 1 = L /\ i + 2 = L + 3
          BY <1>1, <1>2, <2>1
    <3> QED BY <1>6, <3>1
  <2>3. SubSeq(n, 1, L) = s
    <3> DEFINE y == SubSeq(n, 1, L)
    <3>1. 1 \in Nat /\ L \in Nat /\ 1 <= L + 1 /\ L <= Len(n) /\ L - 1 + 1 = L
          BY <1>1, <1>2
    <3>2. y \in Seq(Chars) /\ Len(y) = L
          BY <1>1, <1>2, <3>1, SubSeqProperties
    <3>3. \A j \in 1 .. L : y[j] = s[j]
      <4> TAKE j \in 1 .. L
      <4>1. y[j] = n[1 + j - 1] /\ 1 + j - 1 = j
            BY <1>1, <1>2, <3>1, SubSeqProperties
      <4> QED BY <1>2, <4>1
    <3> HIDE DEF y
    <3>4. y = s
          BY <3>2, <3>3, SeqEqual DEF L
    <3> QED BY <3>4 DEF y
  <2>4. SubSeq(n, L + 3, Len(n)) = t
    <3> DEFINE y == SubSeq(n, L + 3, Len(n))
    <3>1. /\ L + 3 \in Nat /\ Len(n) \in Nat /\ 1 <= L + 3 /\ L + 3 <= Len(n) + 1
          /\ Len(n) - (L + 3) + 1 = Len(t)
          BY <1>1, <1>2
    <3>2. y \in Seq(Chars) /\ Len(y) = Len(t)
          BY <1>1, <1>2, <3>1, SubSeqProperties
    <3>3. \A j \in 1 .. Len(t) : y[j] = t[j]
      <4> TAKE j \in 1 .. Len(t)
      <4>1. y[j] = n[(L + 3) + j - 1] /\ (L + 3) + j - 1 = L + 2 + j
            BY <1>1, <1>2, <3>1, SubSeqProperties
      <4> QED BY <1>2, <4>1
    <3> HIDE DEF y
    <3>4. y = t
          BY <3>2, <3>3, SeqEqual
    <3> QED BY <3>4 DEF y
  <2> QED BY <1>7, <2>2, <2>3, <2>4 DEF n, L
<1>8. CASE ~(Breaks(s) = {} /\ s[L] # "u")
  <2>1. i <= L
    <3>1. PICK k \in 1 .. L : k \in Breaks(n)
      <4>1. CASE Breaks(s) # {}
        <5>1. PICK k \in Breaks(s) : k \in Nat /\ k \in 1 .. L - 1 /\ s[k] = "u" /\ s[k + 1] = "u"
              BY <4>1, BreaksAre DEF L
        <5>2. k \in 1 .. L /\ k + 1 \in 1 .. L /\ k \in 1 .. Len(n) - 1
              BY <1>1, <1>2, <5>1
        <5>3. k \in Breaks(n)
              BY <1>2, <5>1, <5>2, BreaksAre
        <5> QED BY <5>2, <5>3
      <4>2. CASE s[L] = "u"
        <5>1. L \in 1 .. L /\ L \in 1 .. Len(n) - 1 /\ L \in Nat
              BY <1>1, <1>2
        <5>2. L \in Breaks(n)
              BY <1>2, <4>2, <5>1, BreaksAre
        <5> QED BY <5>1, <5>2
      <4> QED BY <1>8, <4>1, <4>2
    <3>2. i <= k
          BY <1>4, <3>1
    <3> QED BY <1>1, <1>4, <3>1, <3>2
  <2>2. Split(n).server # s
    <3>1. CASE i = 1 \/ i = Len(n) - 1
      <4>1. Split(n) = NotAName
            BY <1>6, <3>1
      <4> QED BY <4>1 DEF NotAName
    <3>2. CASE ~(i = 1 \/ i = Len(n) - 1)
      <4> DEFINE y == SubSeq(n, 1, i - 1)
      <4>0. Split(n) = [server |-> y, tool |-> SubSeq(n, i + 2, Len(n))]
            BY <1>6, <3>2
      <4> HIDE DEF y
      <4>1. Split(n).server = y
            BY <4>0
      <4>2. /\ 1 \in Nat /\ i - 1 \in Nat /\ 1 <= (i - 1) + 1 /\ i - 1 <= Len(n)
            /\ (i - 1) - 1 + 1 = i - 1 /\ i - 1 # L
            BY <1>1, <1>2, <1>4, <1>5, <2>1
      <4>3. Len(y) = i - 1
        <5>1. \A j \in 1 .. i - 1 : n[j] \in Chars
          <6> TAKE j \in 1 .. i - 1
          <6>1. j \in 1 .. Len(n)
                BY <1>1, <1>2, <1>4, <1>5
          <6> QED BY <1>2, <6>1
        <5>2. Len(y) = IF 1 <= i - 1 THEN (i - 1) - 1 + 1 ELSE 0
              BY <4>2, <5>1, SubSeqProperties DEF y
        <5> QED BY <1>4, <1>5, <3>2, <4>2, <5>2
      <4> QED BY <4>1, <4>2, <4>3 DEF L
    <3> QED BY <3>1, <3>2
  <2>3. Split(n) # [server |-> s, tool |-> t]
        BY <2>2
  <2> QED BY <1>8, <2>3 DEF n, L
<1> QED BY <1>7, <1>8

-----------------------------------------------------------------------------
(* The MCP manager *)

Entry == {NoEntry} \cup [state : {"running", "unhealthy"}, gen : 1 .. MaxStarts]
ListRecord == [of : SUBSET Obj, asked : SUBSET Obj, left : SUBSET Obj, failed : BOOLEAN]
CacheRecord == [of : SUBSET Obj, from : SUBSET Obj, clean : BOOLEAN]

OwnerShape ==
    /\ configured \subseteq Servers
    /\ mgr \in {"fresh", "starting", "started", "stopping", "stopped"}
    /\ starts \in 0 .. MaxStarts /\ (mgr # "fresh" => starts # 0)
    /\ entries \in [Servers -> Entry]
    /\ dial \in [Obj -> {"none", "dialing", "up", "down", "marked", "over"}]
    /\ done \subseteq 1 .. MaxStarts
    /\ session \in [Obj -> {"none", "open", "closed"}]
    /\ killed \subseteq Obj /\ tardy \subseteq Obj
    /\ closing \in [Obj -> {"none", "wanted", "closing", "over"}]

\* Whom Stop will find: an object whose entry stands, and those it has found already.
Named(o) == mgr \in {"starting", "started"} /\ o[2] = starts /\ entries[o[1]].state # "none"
            /\ entries[o[1]].gen = o[2]
Hidden(o) == \E p \in tardy : p[1] = o[1] /\ p[2] < o[2]

\* An object that was made is named by its entry, was found by a Stop, or is hidden behind a
\* late one; once its Stop is over it is not dialing and has no session that is open.
ObjFits(o) ==
    /\ dial[o] # "none" => o[2] <= starts /\ (closing[o] # "none" \/ Hidden(o) \/ Named(o))
    /\ dial[o] = "none" => session[o] = "none" /\ closing[o] = "none"
    /\ dial[o] = "up" => session[o] # "none"
    /\ closing[o] \in {"closing", "over"} => dial[o] # "dialing"
    /\ closing[o] = "over" => session[o] # "open"

EntryFits(s) ==
    entries[s].state # "none" =>
        /\ entries[s].gen \in 1 .. starts
        /\ dial[<<s, entries[s].gen>>] # "none"
        /\ entries[s].state = "running" => session[<<s, entries[s].gen>>] # "none"

OwnerIInv ==
    OwnerShape /\ (\A o \in Obj : ObjFits(o)) /\ \A s \in Servers : EntryFits(s)

ListIInv ==
    /\ cache \in CacheRecord /\ CacheIsWhole
    /\ lister \in [Listers -> {"idle", "asking", "hit", "listed", "partial"}]
    /\ list \in [Listers -> ListRecord]
    /\ \A c \in Listers : lister[c] = "asking" /\ ~list[c].failed
                          => list[c].asked \cup list[c].left = list[c].of

CallIInv ==
    /\ caller \in [Clients -> {"idle", "found", "called"}]
    /\ target \in [Clients -> Obj \cup {NoTarget}]
    /\ \A c \in Clients : caller[c] # "idle" => target[c] \in Obj /\ session[target[c]] # "none"

McpIInv == OwnerIInv /\ ListIInv /\ CallIInv

LEMMA ObjIs ==
    /\ \A o \in Obj : o[1] \in Servers /\ o[2] \in 1 .. MaxStarts /\ o[2] \in Nat /\ o = <<o[1], o[2]>>
    /\ \A s \in Servers, g \in 1 .. MaxStarts : <<s, g>> \in Obj /\ <<s, g>>[1] = s /\ <<s, g>>[2] = g
<1>1. \A o \in Obj : o[1] \in Servers /\ o[2] \in 1 .. MaxStarts /\ o = <<o[1], o[2]>>
      BY DEF Obj
<1>2. 1 .. MaxStarts \subseteq Nat
      BY McpAssumption
<1>3. \A s \in Servers, g \in 1 .. MaxStarts : <<s, g>> \in Obj
      BY DEF Obj
<1> QED BY <1>1, <1>2, <1>3

LEMMA EntryIs ==
    /\ NoEntry \in Entry /\ NoEntry.state = "none"
    /\ \A e \in Entry : \/ e = NoEntry
                        \/ e.state \in {"running", "unhealthy"} /\ e.gen \in 1 .. MaxStarts
    /\ \A st \in {"running", "unhealthy"}, g \in 1 .. MaxStarts :
          /\ [state |-> st, gen |-> g] \in Entry
          /\ [state |-> st, gen |-> g].state = st /\ [state |-> st, gen |-> g].gen = g
BY DEF Entry, NoEntry

LEMMA OwnerParts ==
    ASSUME OwnerIInv
    PROVE  /\ OwnerShape
           /\ \A o \in Obj : ObjFits(o)
           /\ \A s \in Servers : EntryFits(s) /\ entries[s] \in Entry
           /\ starts \in Nat /\ MaxStarts \in Nat
BY McpAssumption DEF OwnerIInv, OwnerShape

LEMMA InServiceIs ==
    ASSUME OwnerIInv
    PROVE  /\ InService \subseteq Obj /\ Entered \subseteq Obj
           /\ \A o \in Obj :
                 o \in Entered <=> entries[o[1]].state # "none" /\ entries[o[1]].gen = o[2]
<1>1. \A s \in Servers : entries[s].state # "none" => entries[s].gen \in 1 .. MaxStarts
      BY OwnerParts, EntryIs
<1>2. InService \subseteq Obj /\ Entered \subseteq Obj
      BY <1>1, ObjIs DEF InService, Entered
<1>3. ASSUME NEW o \in Obj
      PROVE  o \in Entered <=> entries[o[1]].state # "none" /\ entries[o[1]].gen = o[2]
  <2>1. ASSUME o \in Entered
        PROVE  entries[o[1]].state # "none" /\ entries[o[1]].gen = o[2]
    <3>1. PICK s \in Servers : entries[s].state # "none" /\ o = <<s, entries[s].gen>>
          BY <2>1 DEF Entered
    <3> QED BY <3>1
  <2>2. ASSUME entries[o[1]].state # "none" /\ entries[o[1]].gen = o[2]
        PROVE  o \in Entered
    <3>1. o[1] \in Servers /\ o = <<o[1], entries[o[1]].gen>>
          BY <2>2, ObjIs
    <3> QED BY <2>2, <3>1 DEF Entered
  <2> QED BY <2>1, <2>2
<1> QED BY <1>2, <1>3

LEMMA StartStep ==
    ASSUME OwnerIInv, Start, UNCHANGED configured
    PROVE  OwnerIInv' /\ session' = session
<1>1. /\ mgr \in {"fresh", "stopped"} /\ starts < MaxStarts /\ starts' = starts + 1 /\ mgr' = "starting"
      /\ entries' = [s \in Servers |->
             IF s \in configured THEN [state |-> "unhealthy", gen |-> starts + 1] ELSE NoEntry]
      /\ dial' = [o \in Obj |-> IF o[1] \in configured /\ o[2] = starts + 1 THEN "dialing" ELSE dial[o]]
      /\ UNCHANGED <<done, session, killed, tardy, closing>>
      BY DEF Start
<1>2. starts + 1 \in 1 .. MaxStarts /\ starts + 1 \in 0 .. MaxStarts /\ starts + 1 \in 1 .. starts + 1
      BY <1>1, OwnerParts
<1>3. OwnerShape'
  <2>1. entries' \in [Servers -> Entry]
        BY <1>1, <1>2, EntryIs
  <2>2. dial' \in [Obj -> {"none", "dialing", "up", "down", "marked", "over"}]
        BY <1>1, OwnerParts DEF OwnerShape
  <2> QED BY <1>1, <1>2, <2>1, <2>2, OwnerParts DEF OwnerShape
<1>4. ASSUME NEW o \in Obj PROVE ObjFits(o)'
  <2>1. ObjFits(o) /\ o[1] \in Servers /\ o[2] \in Nat
        BY OwnerParts, ObjIs
  <2>2. CASE o[1] \in configured /\ o[2] = starts + 1
    <3>1. dial[o] = "none"
          BY <2>1, <2>2, OwnerParts DEF ObjFits
    <3>2. dial'[o] = "dialing" /\ closing'[o] = "none"
          BY <1>1, <2>1, <2>2, <3>1 DEF ObjFits
    <3>3. Named(o)'
          BY <1>1, <2>1, <2>2, EntryIs, <1>2 DEF Named
    <3> QED BY <1>1, <2>2, <3>2, <3>3, OwnerParts DEF ObjFits
  <2>3. CASE ~(o[1] \in configured /\ o[2] = starts + 1)
    <3>1. dial'[o] = dial[o] /\ closing'[o] = closing[o] /\ session'[o] = session[o]
          BY <1>1, <2>3
    <3>2. ~Named(o) /\ Hidden(o)' = Hidden(o)
          BY <1>1 DEF Named, Hidden
    <3>3. o[2] <= starts => o[2] <= starts'
          BY <1>1, <2>1, OwnerParts
    <3> QED BY <2>1, <3>1, <3>2, <3>3 DEF ObjFits
  <2> QED BY <2>2, <2>3
<1>5. ASSUME NEW s \in Servers PROVE EntryFits(s)'
  <2>1. CASE s \in configured
    <3>1. entries'[s] = [state |-> "unhealthy", gen |-> starts + 1]
          BY <1>1, <2>1
    <3>2. <<s, starts + 1>> \in Obj /\ <<s, starts + 1>>[1] = s /\ <<s, starts + 1>>[2] = starts + 1
          BY <1>2, ObjIs
    <3>3. dial'[<<s, starts + 1>>] = "dialing"
          BY <1>1, <2>1, <3>2
    <3> QED BY <1>1, <1>2, <3>1, <3>3 DEF EntryFits
  <2>2. CASE s \notin configured
        BY <1>1, <2>2, EntryIs DEF EntryFits
  <2> QED BY <2>1, <2>2
<1> QED BY <1>1, <1>3, <1>4, <1>5 DEF OwnerIInv

LEMMA ConnectStep ==
    ASSUME OwnerIInv, NEW o \in Obj, Connect(o) \/ PerCancel(o), UNCHANGED configured
    PROVE  OwnerIInv' /\ \A p \in Obj : session[p] # "none" => session'[p] # "none"
<1>1. /\ UNCHANGED <<mgr, starts, entries, done, tardy, closing>>
      /\ killed' \subseteq Obj
      BY OwnerParts DEF Connect, PerCancel, OwnerShape
<1>2. PICK to \in {"up", "down", "over"} : dial' = [dial EXCEPT ![o] = to]
      BY DEF Connect, PerCancel
<1>3. /\ dial[o] \in {"dialing", "marked"}
      /\ \/ session' = session /\ to # "up"
         \/ session' = [session EXCEPT ![o] = "open"] /\ dial[o] = "dialing"
  <2>1. CASE Connect(o)
    <3>1. \/ dial' = [dial EXCEPT ![o] = "up"] /\ session' = [session EXCEPT ![o] = "open"]
          \/ dial' = [dial EXCEPT ![o] = "down"] /\ session' = session
          BY <2>1 DEF Connect
    <3>2. dial'[o] = to /\ (\A x : dial' = [dial EXCEPT ![o] = x] => dial'[o] = x)
          BY <1>2, OwnerParts DEF OwnerShape
    <3> QED BY <2>1, <3>1, <3>2 DEF Connect
  <2>2. CASE PerCancel(o)
    <3>1. dial' = [dial EXCEPT ![o] = "over"] /\ session' = session /\ dial[o] = "marked"
          BY <2>2 DEF PerCancel
    <3>2. dial'[o] = to /\ dial'[o] = "over"
          BY <1>2, <3>1, OwnerParts DEF OwnerShape
    <3> QED BY <3>1, <3>2
  <2> QED BY <2>1, <2>2
<1>4. /\ dial'[o] = to /\ \A p \in Obj : p # o => dial'[p] = dial[p] /\ session'[p] = session[p]
      /\ session'[o] = session[o] \/ session'[o] = "open"
      /\ to = "up" => session'[o] = "open"
      /\ session'[o] # session[o] => dial[o] = "dialing"
      BY <1>2, <1>3, OwnerParts DEF OwnerShape
<1>5. OwnerShape'
  <2>1. dial' \in [Obj -> {"none", "dialing", "up", "down", "marked", "over"}]
        BY <1>2, OwnerParts DEF OwnerShape
  <2>2. session' \in [Obj -> {"none", "open", "closed"}]
        BY <1>3, OwnerParts DEF OwnerShape
  <2> QED BY <1>1, <2>1, <2>2, OwnerParts DEF OwnerShape
<1>6. ASSUME NEW p \in Obj PROVE ObjFits(p)'
  <2>1. ObjFits(p) /\ Named(p)' = Named(p) /\ Hidden(p)' = Hidden(p)
        BY <1>1, OwnerParts DEF Named, Hidden
  <2>2. CASE p # o
        BY <1>1, <1>4, <2>1, <2>2 DEF ObjFits
  <2>3. CASE p = o
        BY <1>1, <1>3, <1>4, <2>1, <2>3 DEF ObjFits
  <2> QED BY <2>2, <2>3
<1>7. \A p \in Obj : session[p] # "none" => session'[p] # "none"
      BY <1>4
<1>8. ASSUME NEW s \in Servers PROVE EntryFits(s)'
  <2> SUFFICES ASSUME entries[s].state # "none"
               PROVE  /\ entries[s].gen \in 1 .. starts
                      /\ dial'[<<s, entries[s].gen>>] # "none"
                      /\ (entries[s].state = "running" => session'[<<s, entries[s].gen>>] # "none")
      BY <1>1 DEF EntryFits
  <2>1. <<s, entries[s].gen>> \in Obj
        BY OwnerParts, EntryIs, ObjIs
  <2>2. dial'[<<s, entries[s].gen>>] = dial[<<s, entries[s].gen>>] \/ dial'[<<s, entries[s].gen>>] = to
        BY <1>4, <2>1
  <2> QED BY <1>7, <2>1, <2>2, OwnerParts DEF EntryFits
<1> QED BY <1>5, <1>6, <1>7, <1>8 DEF OwnerIInv

\* A late goroutine may hide the object of a later Start, and is tardy then.
LEMMA MarkServerStep ==
    ASSUME OwnerIInv, NEW o \in Obj, MarkServer(o), UNCHANGED configured
    PROVE  OwnerIInv' /\ session' = session
<1> DEFINE st == IF dial[o] = "up" THEN "running" ELSE "unhealthy"
           e == [state |-> st, gen |-> o[2]]
<1>1. /\ dial[o] \in {"up", "down"} /\ entries' = [entries EXCEPT ![o[1]] = e]
      /\ dial' = [dial EXCEPT ![o] = "marked"]
      /\ tardy' = (IF mgr = "starting" /\ starts = o[2] THEN tardy ELSE tardy \cup {o})
      /\ UNCHANGED <<mgr, starts, done, session, killed, closing>>
      BY DEF MarkServer
<1>2. /\ o[1] \in Servers /\ o[2] \in 1 .. MaxStarts /\ o[2] \in Nat /\ o = <<o[1], o[2]>>
      /\ st \in {"running", "unhealthy"} /\ (st = "running" <=> dial[o] = "up")
      BY ObjIs
<1>3. e \in Entry /\ e.state = st /\ e.gen = o[2]
      BY <1>2, EntryIs
<1> HIDE DEF e
<1>4. /\ entries'[o[1]] = e /\ (\A s \in Servers : s # o[1] => entries'[s] = entries[s])
      /\ dial'[o] = "marked" /\ (\A p \in Obj : p # o => dial'[p] = dial[p])
      BY <1>1, <1>2, OwnerParts DEF OwnerShape
<1>5. OwnerShape'
  <2>1. entries' \in [Servers -> Entry]
        BY <1>1, <1>3, OwnerParts DEF OwnerShape
  <2>2. dial' \in [Obj -> {"none", "dialing", "up", "down", "marked", "over"}] /\ tardy' \subseteq Obj
        BY <1>1, OwnerParts DEF OwnerShape
  <2> QED BY <1>1, <2>1, <2>2, OwnerParts DEF OwnerShape
<1>6. ASSUME NEW p \in Obj PROVE ObjFits(p)'
  <2>1. ObjFits(p) /\ ObjFits(o) /\ p[1] \in Servers /\ p[2] \in Nat /\ p = <<p[1], p[2]>>
        BY OwnerParts, ObjIs
  <2>2. Hidden(p) => Hidden(p)'
        BY <1>1 DEF Hidden
  <2>3. Named(p) => Named(p)' \/ Hidden(p)'
    <3> SUFFICES ASSUME Named(p) PROVE Named(p)' \/ Hidden(p)'
        OBVIOUS
    <3>1. CASE p[1] # o[1]
          BY <1>1, <1>4, <2>1, <3>1 DEF Named
    <3>2. CASE p[1] = o[1] /\ p[2] = o[2]
      <4>1. entries'[p[1]].state # "none" /\ entries'[p[1]].gen = p[2]
            BY <1>2, <1>3, <1>4, <3>2
      <4> QED BY <1>1, <4>1 DEF Named
    <3>3. CASE p[1] = o[1] /\ p[2] # o[2]
      <4>1. p[2] = starts
            BY DEF Named
      <4>2. o \in tardy'
            BY <1>1, <3>3, <4>1
      <4>3. o[2] <= starts /\ o[2] < p[2]
            BY <1>1, <1>2, <2>1, <3>3, <4>1, OwnerParts DEF ObjFits
      <4> QED BY <3>3, <4>2, <4>3 DEF Hidden
    <3> QED BY <3>1, <3>2, <3>3
  <2>4. CASE p # o
        BY <1>1, <1>4, <2>1, <2>2, <2>3, <2>4 DEF ObjFits
  <2>5. CASE p = o
        BY <1>1, <1>4, <2>1, <2>2, <2>3, <2>5 DEF ObjFits
  <2> QED BY <2>4, <2>5
<1>7. ASSUME NEW s \in Servers PROVE EntryFits(s)'
  <2>1. CASE s = o[1]
    <3>1. o[2] \in 1 .. starts /\ (dial[o] = "up" => session[o] # "none")
      <4>1. o[2] <= starts /\ (dial[o] = "up" => session[o] # "none")
            BY <1>1, OwnerParts DEF ObjFits
      <4> QED BY <1>2, <4>1, OwnerParts
    <3> QED BY <1>1, <1>2, <1>3, <1>4, <2>1, <3>1 DEF EntryFits
  <2>2. CASE s # o[1]
    <3>1. entries'[s] = entries[s] /\ EntryFits(s)
          BY <1>4, <2>2, OwnerParts
    <3>2. ASSUME entries[s].state # "none"
          PROVE  dial'[<<s, entries[s].gen>>] = dial[<<s, entries[s].gen>>]
      <4>1. <<s, entries[s].gen>> \in Obj /\ <<s, entries[s].gen>>[1] = s
            BY <3>2, OwnerParts, EntryIs, ObjIs
      <4> QED BY <1>4, <2>2, <4>1
    <3> QED BY <1>1, <3>1, <3>2 DEF EntryFits
  <2> QED BY <2>1, <2>2
<1> QED BY <1>1, <1>5, <1>6, <1>7 DEF OwnerIInv

\* Start and Stop return; the objects are left as they are.
LEMMA ReturnsStep ==
    ASSUME OwnerIInv, StartReturns \/ StopReturns, UNCHANGED configured
    PROVE  OwnerIInv' /\ session' = session
<1>1. UNCHANGED <<starts, dial, session, killed, tardy, closing>>
      BY DEF StartReturns, StopReturns
<1>2. \/ mgr = "starting" /\ mgr' = "started" /\ entries' = entries /\ done' = done \cup {starts}
      \/ mgr = "stopping" /\ mgr' = "stopped" /\ entries' = [s \in Servers |-> NoEntry] /\ done' = done
      BY DEF StartReturns, StopReturns
<1>3. starts \in 1 .. MaxStarts
  <2>1. starts \in 0 .. MaxStarts /\ starts # 0
        BY <1>2, OwnerParts DEF OwnerShape
  <2> QED BY <2>1, OwnerParts
<1>4. OwnerShape'
      BY <1>1, <1>2, <1>3, OwnerParts, EntryIs DEF OwnerShape
<1>5. ASSUME NEW o \in Obj PROVE ObjFits(o)'
  <2>1. ObjFits(o) /\ Hidden(o)' = Hidden(o) /\ (Named(o) => Named(o)')
        BY <1>1, <1>2, OwnerParts DEF Hidden, Named
  <2> QED BY <1>1, <2>1 DEF ObjFits
<1>6. ASSUME NEW s \in Servers PROVE EntryFits(s)'
  <2>1. entries'[s] = entries[s] \/ entries'[s] = NoEntry
        BY <1>2
  <2> QED BY <1>1, <2>1, OwnerParts, EntryIs DEF EntryFits
<1> QED BY <1>1, <1>4, <1>5, <1>6 DEF OwnerIInv

\* Stop finds every object an entry names.
LEMMA StopAllStep ==
    ASSUME OwnerIInv, StopAll, UNCHANGED configured
    PROVE  OwnerIInv' /\ session' = session
<1>1. /\ mgr = "started" /\ mgr' = "stopping"
      /\ closing' = [o \in Obj |-> IF o \in Entered THEN "wanted" ELSE closing[o]]
      /\ UNCHANGED <<starts, entries, dial, done, session, killed, tardy>>
      BY DEF StopAll
<1>2. OwnerShape'
      BY <1>1, OwnerParts DEF OwnerShape
<1>3. ASSUME NEW o \in Obj PROVE ObjFits(o)'
  <2>1. ObjFits(o) /\ Hidden(o)' = Hidden(o) /\ ~Named(o)'
        BY <1>1, OwnerParts DEF Hidden, Named
  <2>2. CASE o \in Entered
    <3>1. closing'[o] = "wanted"
          BY <1>1, <2>2
    <3>2. dial[o] # "none"
      <4>1. entries[o[1]].state # "none" /\ entries[o[1]].gen = o[2]
            BY <2>2, InServiceIs
      <4>2. o[1] \in Servers /\ o = <<o[1], entries[o[1]].gen>>
            BY <4>1, ObjIs
      <4> QED BY <4>1, <4>2, OwnerParts DEF EntryFits
    <3> QED BY <1>1, <2>1, <3>1, <3>2 DEF ObjFits
  <2>3. CASE o \notin Entered
    <3>1. closing'[o] = closing[o] /\ ~Named(o)
          BY <1>1, <2>3, InServiceIs DEF Named
    <3> QED BY <1>1, <2>1, <3>1 DEF ObjFits
  <2> QED BY <2>2, <2>3
<1>4. \A s \in Servers : EntryFits(s)'
      BY <1>1, OwnerParts DEF EntryFits
<1> QED BY <1>1, <1>2, <1>3, <1>4 DEF OwnerIInv

LEMMA CloseObjectStep ==
    ASSUME OwnerIInv, NEW o \in Obj, CloseBegins(o) \/ CloseEnds(o), UNCHANGED configured
    PROVE  OwnerIInv' /\ \A p \in Obj : session[p] # "none" => session'[p] # "none"
<1>1. UNCHANGED <<mgr, starts, entries, dial, done, killed, tardy>>
      BY DEF CloseBegins, CloseEnds
<1>2. PICK to \in {"closing", "over"} : closing' = [closing EXCEPT ![o] = to]
      BY DEF CloseBegins, CloseEnds
<1>3. /\ closing'[o] = to /\ \A p \in Obj : p # o => closing'[p] = closing[p]
      BY <1>2, OwnerParts DEF OwnerShape
<1>4. CASE CloseBegins(o)
  <2>1. closing[o] = "wanted" /\ dial[o] # "dialing" /\ session' = session
        /\ (to = "over" => session[o] # "open")
        BY <1>3, <1>4, OwnerParts DEF CloseBegins, OwnerShape
  <2>2. OwnerShape'
        BY <1>1, <1>2, <2>1, OwnerParts DEF OwnerShape
  <2>3. ASSUME NEW p \in Obj PROVE ObjFits(p)'
    <3>1. ObjFits(p) /\ Named(p)' = Named(p) /\ Hidden(p)' = Hidden(p)
          BY <1>1, OwnerParts DEF Named, Hidden
    <3> QED BY <1>1, <1>3, <2>1, <3>1 DEF ObjFits
  <2>4. \A s \in Servers : EntryFits(s)'
        BY <1>1, <2>1, OwnerParts DEF EntryFits
  <2> QED BY <1>1, <2>1, <2>2, <2>3, <2>4 DEF OwnerIInv
<1>5. CASE CloseEnds(o)
  <2>1. closing[o] = "closing" /\ session' = [session EXCEPT ![o] = "closed"]
        BY <1>5 DEF CloseEnds
  <2>2. session'[o] = "closed" /\ \A p \in Obj : p # o => session'[p] = session[p]
        BY <2>1, OwnerParts DEF OwnerShape
  <2>3. OwnerShape'
        BY <1>1, <1>2, <2>1, OwnerParts DEF OwnerShape
  <2>4. ASSUME NEW p \in Obj PROVE ObjFits(p)'
    <3>1. ObjFits(p) /\ Named(p)' = Named(p) /\ Hidden(p)' = Hidden(p)
          BY <1>1, OwnerParts DEF Named, Hidden
    <3> QED BY <1>1, <1>3, <2>1, <2>2, <3>1 DEF ObjFits
  <2>5. \A p \in Obj : session[p] # "none" => session'[p] # "none"
        BY <2>2
  <2>6. ASSUME NEW s \in Servers PROVE EntryFits(s)'
    <3>1. entries[s].state # "none" => <<s, entries[s].gen>> \in Obj
          BY OwnerParts, EntryIs, ObjIs
    <3> QED BY <1>1, <2>5, <3>1, OwnerParts DEF EntryFits
  <2> QED BY <1>1, <2>3, <2>4, <2>5, <2>6 DEF OwnerIInv
<1> QED BY <1>4, <1>5

\* What the owner's steps change, a list and a call do not look at, but for sessions, which
\* never go back to none.
LEMMA OwnerStep ==
    ASSUME McpIInv, OwnerIInv', UNCHANGED <<listVars, callVars>>,
           \A o \in Obj : session[o] # "none" => session'[o] # "none"
    PROVE  McpIInv'
<1>1. ListIInv'
      BY DEF McpIInv, ListIInv, listVars, CacheIsWhole
<1>2. CallIInv'
      BY DEF McpIInv, CallIInv, callVars
<1> QED BY <1>1, <1>2 DEF McpIInv

LEMMA ListStep ==
    ASSUME McpIInv, NEW c \in Listers, UNCHANGED configured,
           ListBegins(c) \/ ListEnds(c) \/ ListReturned(c) \/ (\E o \in Obj : ListServer(c, o))
    PROVE  McpIInv'
<1>1. UNCHANGED <<ownerVars, callVars>>
      BY DEF ListBegins, ListEnds, ListReturned, ListServer
<1>2. OwnerIInv' /\ CallIInv'
  <2>1. OwnerIInv'
        BY <1>1 DEF McpIInv, OwnerIInv, OwnerShape, ObjFits, EntryFits, Named, Hidden, ownerVars
  <2>2. CallIInv'
        BY <1>1 DEF McpIInv, CallIInv, callVars, ownerVars
  <2> QED BY <2>1, <2>2
<1>3. /\ list[c] \in ListRecord /\ cache \in CacheRecord /\ CacheIsWhole
      /\ lister \in [Listers -> {"idle", "asking", "hit", "listed", "partial"}]
      /\ list \in [Listers -> ListRecord]
      /\ \A d \in Listers : lister[d] = "asking" /\ ~list[d].failed
                            => list[d].asked \cup list[d].left = list[d].of
      BY DEF McpIInv, ListIInv
<1>4. NoList \in ListRecord
      BY DEF NoList, ListRecord
<1>5. ASSUME NEW l \in ListRecord, list' = [list EXCEPT ![c] = l],
             NEW at \in {"idle", "asking", "hit", "listed", "partial"}, lister' = [lister EXCEPT ![c] = at],
             at = "asking" /\ ~l.failed => l.asked \cup l.left = l.of, UNCHANGED cache
      PROVE  McpIInv'
  <2>1. list'[c] = l /\ lister'[c] = at
        /\ \A d \in Listers : d # c => list'[d] = list[d] /\ lister'[d] = lister[d]
        BY <1>3, <1>5
  <2>2. /\ list' \in [Listers -> ListRecord]
        /\ lister' \in [Listers -> {"idle", "asking", "hit", "listed", "partial"}]
        BY <1>3, <1>5
  <2>3. CacheIsWhole' /\ cache' \in CacheRecord
        BY <1>3, <1>5 DEF CacheIsWhole
  <2>4. ListIInv'
        BY <1>3, <1>5, <2>1, <2>2, <2>3 DEF ListIInv
  <2> QED BY <1>2, <2>4 DEF McpIInv
<1>6. CASE ListBegins(c)
  <2> DEFINE l == [NoList EXCEPT !.of = InService, !.left = InService]
  <2>1. \/ lister' = [lister EXCEPT ![c] = "hit"] /\ list' = list /\ cache' = cache
        \/ lister' = [lister EXCEPT ![c] = "asking"] /\ list' = [list EXCEPT ![c] = l] /\ cache' = cache
        BY <1>6 DEF ListBegins
  <2>2. l \in ListRecord /\ l.asked \cup l.left = l.of
    <3>1. InService \subseteq Obj
          BY InServiceIs DEF McpIInv
    <3> QED BY <3>1 DEF NoList, ListRecord
  <2>3. list = [list EXCEPT ![c] = list[c]]
        BY <1>3
  <2> HIDE DEF l
  <2> QED BY <1>3, <1>5, <2>1, <2>2, <2>3
<1>7. CASE ListReturned(c)
      BY <1>4, <1>5, <1>7 DEF ListReturned
<1>8. CASE \E o \in Obj : ListServer(c, o)
  <2>1. PICK o \in Obj : ListServer(c, o)
        BY <1>8
  <2> DEFINE r == list[c]
             l1 == [r EXCEPT !.left = r.left \ {o}, !.asked = r.asked \cup {o}]
             l2 == [r EXCEPT !.left = r.left \ {o}, !.failed = TRUE]
  <2>2. /\ lister[c] = "asking" /\ o \in r.left /\ cache' = cache /\ lister' = lister
        /\ list' = [list EXCEPT ![c] = l1] \/ list' = [list EXCEPT ![c] = l2]
        BY <2>1 DEF ListServer
  <2>3. lister' = [lister EXCEPT ![c] = "asking"]
        BY <1>3, <2>2
  <2>4. ~r.failed => r.asked \cup r.left = r.of
        BY <1>3, <2>2
  <2>5. r \in ListRecord
        BY <1>3
  <2> HIDE DEF r
  <2>6. l1 \in ListRecord /\ (~l1.failed => l1.asked \cup l1.left = l1.of)
    <3>1. r.asked \cup {o} \subseteq Obj /\ r.left \ {o} \subseteq Obj
          /\ (r.asked \cup {o}) \cup (r.left \ {o}) = r.asked \cup r.left
          BY <2>2, <2>5 DEF ListRecord
    <3>2. l1.asked = r.asked \cup {o} /\ l1.left = r.left \ {o} /\ l1.of = r.of /\ l1.failed = r.failed
          BY <2>5 DEF ListRecord
    <3>3. l1 \in ListRecord
          BY <2>5, <3>1 DEF ListRecord
    <3> HIDE DEF l1
    <3> QED BY <2>4, <3>1, <3>2, <3>3
  <2>7. l2 \in ListRecord /\ l2.failed
        BY <2>5 DEF ListRecord
  <2> HIDE DEF l1, l2
  <2> QED BY <1>5, <2>2, <2>3, <2>6, <2>7
<1>9. CASE ListEnds(c)
  <2> DEFINE k == [of |-> list[c].of, from |-> list[c].asked, clean |-> TRUE]
  <2>1. /\ lister[c] = "asking" /\ list[c].left = {} /\ list' = list
        /\ \/ lister' = [lister EXCEPT ![c] = "partial"] /\ cache' = cache
           \/ lister' = [lister EXCEPT ![c] = "listed"] /\ cache' = k /\ ~list[c].failed
        BY <1>9 DEF ListEnds
  <2>2. list' = [list EXCEPT ![c] = list[c]]
        BY <1>3, <2>1
  <2>3. CASE lister' = [lister EXCEPT ![c] = "partial"] /\ cache' = cache
        BY <1>3, <1>5, <2>2, <2>3
  <2>4. CASE lister' = [lister EXCEPT ![c] = "listed"] /\ cache' = k /\ ~list[c].failed
    <3>1. list[c].asked = list[c].of
          BY <1>3, <2>1, <2>4
    <3>2. k \in CacheRecord /\ k.from = k.of
          BY <1>3, <3>1 DEF CacheRecord, ListRecord
    <3>3. CacheIsWhole' /\ cache' \in CacheRecord
          BY <2>4, <3>2 DEF CacheIsWhole
    <3>4. lister' \in [Listers -> {"idle", "asking", "hit", "listed", "partial"}]
          /\ \A d \in Listers : lister'[d] = "asking" => lister[d] = "asking"
          BY <1>3, <2>4
    <3>5. ListIInv'
          BY <1>3, <2>1, <3>3, <3>4 DEF ListIInv
    <3> QED BY <1>2, <3>5 DEF McpIInv
  <2> QED BY <2>1, <2>3, <2>4
<1> QED BY <1>6, <1>7, <1>8, <1>9

LEMMA CallOfToolStep ==
    ASSUME McpIInv, NEW c \in Clients, UNCHANGED configured,
           Authorize(c) \/ CallReturns(c) \/ (\E s \in Servers : Lookup(c, s))
    PROVE  McpIInv'
<1>1. UNCHANGED <<ownerVars, listVars>>
      BY DEF Authorize, CallReturns, Lookup
<1>2. OwnerIInv' /\ ListIInv' /\ session' = session
  <2>1. OwnerIInv'
        BY <1>1 DEF McpIInv, OwnerIInv, OwnerShape, ObjFits, EntryFits, Named, Hidden, ownerVars
  <2>2. ListIInv' /\ session' = session
        BY <1>1 DEF McpIInv, ListIInv, listVars, CacheIsWhole, ownerVars
  <2> QED BY <2>1, <2>2
<1>3. /\ caller \in [Clients -> {"idle", "found", "called"}]
      /\ target \in [Clients -> Obj \cup {NoTarget}]
      /\ \A d \in Clients : caller[d] # "idle" => target[d] \in Obj /\ session[target[d]] # "none"
      BY DEF McpIInv, CallIInv
<1>4. CallIInv'
  <2>1. CASE Authorize(c)
        BY <1>2, <1>3, <2>1 DEF Authorize, CallIInv
  <2>2. CASE CallReturns(c)
        BY <1>2, <1>3, <2>2 DEF CallReturns, CallIInv
  <2>3. CASE \E s \in Servers : Lookup(c, s)
    <3>1. PICK s \in Servers : Lookup(c, s)
          BY <2>3
    <3> DEFINE o == <<s, entries[s].gen>>
    <3>2. /\ entries[s].state = "running" /\ caller' = [caller EXCEPT ![c] = "found"]
          /\ target' = [target EXCEPT ![c] = o]
          BY <3>1 DEF Lookup
    <3>3. o \in Obj
          BY <3>2, OwnerParts, EntryIs, ObjIs DEF McpIInv
    <3>4. session[o] # "none"
          BY <3>2, OwnerParts DEF McpIInv, EntryFits
    <3> HIDE DEF o
    <3> QED BY <1>2, <1>3, <3>2, <3>3, <3>4 DEF CallIInv
  <2> QED BY <2>1, <2>2, <2>3
<1> QED BY <1>2, <1>4 DEF McpIInv

LEMMA McpStarts == McpInit => McpIInv
<1> SUFFICES ASSUME McpInit PROVE McpIInv
    OBVIOUS
<1>1. OwnerShape
  <2>1. 0 \in 0 .. MaxStarts
        BY McpAssumption
  <2> QED BY <2>1, EntryIs DEF McpInit, OwnerShape
<1>2. (\A o \in Obj : ObjFits(o)) /\ \A s \in Servers : EntryFits(s)
      BY EntryIs DEF McpInit, ObjFits, EntryFits
<1>3. ListIInv
      BY DEF McpInit, ListIInv, NoCache, NoList, CacheRecord, ListRecord, CacheIsWhole
<1>4. CallIInv
      BY DEF McpInit, CallIInv
<1> QED BY <1>1, <1>2, <1>3, <1>4 DEF McpIInv, OwnerIInv

LEMMA McpSteps == McpIInv /\ [McpNext]_mcpVars => McpIInv'
<1>1. CASE UNCHANGED mcpVars
      BY <1>1 DEF mcpVars, ownerVars, listVars, callVars, McpIInv, OwnerIInv, OwnerShape, ObjFits,
                  EntryFits, Named, Hidden, ListIInv, CallIInv, CacheIsWhole
<1>2. ASSUME McpIInv, McpNext PROVE McpIInv'
  <2>1. UNCHANGED configured /\ OwnerIInv
        BY <1>2 DEF McpNext, McpIInv
  <2>2. CASE Start \/ StartReturns \/ StopAll \/ StopReturns
    <3>1. UNCHANGED <<listVars, callVars>>
          BY <2>2 DEF Start, StartReturns, StopAll, StopReturns
    <3>2. OwnerIInv' /\ session' = session
          BY <2>1, <2>2, StartStep, ReturnsStep, StopAllStep
    <3> QED BY <1>2, <3>1, <3>2, OwnerStep
  <2>3. CASE Invalidate
    <3>1. UNCHANGED <<ownerVars, lister, list, callVars>> /\ cache' = NoCache
          BY <2>3 DEF Invalidate
    <3>2. OwnerIInv'
          BY <2>1, <3>1 DEF OwnerIInv, OwnerShape, ObjFits, EntryFits, Named, Hidden, ownerVars
    <3>3. CallIInv'
          BY <1>2, <3>1 DEF McpIInv, CallIInv, callVars, ownerVars
    <3>4. ListIInv'
          BY <1>2, <3>1 DEF McpIInv, ListIInv, CacheIsWhole, NoCache, CacheRecord
    <3> QED BY <3>2, <3>3, <3>4 DEF McpIInv
  <2>4. CASE \E o \in Obj :
                Connect(o) \/ MarkServer(o) \/ PerCancel(o) \/ CloseBegins(o) \/ CloseEnds(o)
    <3>1. PICK o \in Obj :
              Connect(o) \/ MarkServer(o) \/ PerCancel(o) \/ CloseBegins(o) \/ CloseEnds(o)
          BY <2>4
    <3>2. UNCHANGED <<listVars, callVars>>
          BY <3>1 DEF Connect, MarkServer, PerCancel, CloseBegins, CloseEnds
    <3>3. OwnerIInv' /\ \A p \in Obj : session[p] # "none" => session'[p] # "none"
          BY <2>1, <3>1, ConnectStep, MarkServerStep, CloseObjectStep
    <3> QED BY <1>2, <3>2, <3>3, OwnerStep
  <2>5. CASE \E c \in Listers :
                ListBegins(c) \/ ListEnds(c) \/ ListReturned(c) \/ \E o \in Obj : ListServer(c, o)
        BY <1>2, <2>1, <2>5, ListStep
  <2>6. CASE \E c \in Clients : Authorize(c) \/ CallReturns(c) \/ \E s \in Servers : Lookup(c, s)
        BY <1>2, <2>1, <2>6, CallOfToolStep
  <2> QED BY <1>2, <2>2, <2>3, <2>4, <2>5, <2>6 DEF McpNext
<1> QED BY <1>1, <1>2

LEMMA McpHolds == McpIInv => ServersAccounted
<1> SUFFICES ASSUME McpIInv PROVE ServersAccounted
    OBVIOUS
<1> USE DEF McpIInv
<1>1. McpTypeOK
  <2>1. \A s \in Servers :
            \/ entries[s] = NoEntry
            \/ entries[s].state \in {"running", "unhealthy"} /\ entries[s].gen \in 1 .. MaxStarts
        BY OwnerParts, EntryIs
  <2>2. cache.from \subseteq Obj /\ \A c \in Listers : list[c].left \subseteq Obj /\ list[c].asked \subseteq Obj
        BY DEF ListIInv, CacheRecord, ListRecord
  <2>3. /\ lister \in [Listers -> {"idle", "asking", "hit", "listed", "partial"}]
        /\ caller \in [Clients -> {"idle", "found", "called"}]
        /\ target \in [Clients -> Obj \cup {NoTarget}]
        BY DEF ListIInv, CallIInv
  <2> QED BY <2>1, <2>2, <2>3, OwnerParts DEF McpTypeOK, OwnerShape
<1>2. DispatchedWasOpen /\ CacheIsWhole
      BY DEF DispatchedWasOpen, CallIInv, ListIInv
<1>3. NoLeak
  <2> SUFFICES ASSUME mgr = "stopped", Quiet, NEW o \in Obj, session[o] = "open"
               PROVE  \E p \in tardy : p[1] = o[1] /\ p[2] < o[2]
      BY DEF NoLeak
  <2>1. ObjFits(o) /\ closing[o] \in {"none", "over"}
        BY OwnerParts DEF Quiet
  <2>2. closing[o] = "none" /\ dial[o] # "none" /\ ~Named(o)
        BY <2>1 DEF ObjFits, Named
  <2> QED BY <2>1, <2>2 DEF ObjFits, Hidden
<1> QED BY <1>1, <1>2, <1>3 DEF ServersAccounted

-----------------------------------------------------------------------------
(* The names, and both together *)

NamesIInv ==
    /\ \A e \in exposed : \E s \in ServerNames, t \in ToolNames :
          e = [name |-> Namespaced(s, t), server |-> s, tool |-> t]
    /\ NamesAreUnique

LEMMA NamesSteps == NamesIInv /\ [NamesNext]_nameVars => NamesIInv'
<1>1. CASE UNCHANGED nameVars
      BY <1>1 DEF nameVars, NamesIInv, NamesAreUnique
<1>2. ASSUME NamesIInv, NEW s \in ServerNames, NEW t \in ToolNames, Offer(s, t)
      PROVE  NamesIInv'
  <2> DEFINE x == [name |-> Namespaced(s, t), server |-> s, tool |-> t]
  <2>1. \/ exposed' = exposed
        \/ exposed' = exposed \cup {x} /\ \A e \in exposed : e.name # Namespaced(s, t)
        BY <1>2 DEF Offer
  <2>2. x.name = Namespaced(s, t)
        OBVIOUS
  <2>3. \A e \in exposed' : \E q \in ServerNames, r \in ToolNames :
            e = [name |-> Namespaced(q, r), server |-> q, tool |-> r]
        BY <1>2, <2>1 DEF NamesIInv
  <2> HIDE DEF x
  <2>4. NamesAreUnique'
        BY <1>2, <2>1, <2>2 DEF NamesIInv, NamesAreUnique
  <2> QED BY <2>3, <2>4 DEF NamesIInv
<1> QED BY <1>1, <1>2 DEF NamesNext

LEMMA NamesHold == NamesIInv => NamesAreTrue
<1> SUFFICES ASSUME NamesIInv PROVE RoutedUnlessAmbiguous
    BY DEF NamesAreTrue, NamesIInv
<1> SUFFICES ASSUME NEW e \in exposed
             PROVE  Split(e.name) = [server |-> e.server, tool |-> e.tool]
                    <=> Breaks(e.server) = {} /\ e.server[Len(e.server)] # "u"
    BY DEF RoutedUnlessAmbiguous
<1>1. PICK s \in ServerNames, t \in ToolNames :
          e = [name |-> Namespaced(s, t), server |-> s, tool |-> t]
      BY DEF NamesIInv
<1>2. e.name = Namespaced(s, t) /\ e.server = s /\ e.tool = t
      BY <1>1
<1>3. s \in Seq(Chars) /\ t \in Seq(Chars) /\ s # <<>> /\ t # <<>>
  <2>1. s \in Seq(STRING) /\ t \in Seq(STRING) /\ s # <<>> /\ t # <<>>
        BY NamesAssumption
  <2>2. STRING \subseteq Chars
        BY DEF Chars
  <2> QED BY <2>1, <2>2, SeqMonotonic
<1> QED BY <1>2, <1>3, SplitUndoes

\* Whatever deadline passes and whoever is late, calls and lists meet servers that were
\* running and Stop ends them all; a tool's name is its own, and routes to it exactly when its
\* server's name is not ambiguous (McpManager.McpIsTrue).
THEOREM McpAccounted == McpSpec => []McpIsTrue
<1>1. McpInit /\ NamesInit => McpIInv /\ NamesIInv
      BY McpStarts DEF NamesInit, NamesIInv, NamesAreUnique
<1>2. McpIInv /\ NamesIInv /\ [McpStep]_<<mcpVars, nameVars>> => (McpIInv /\ NamesIInv)'
      BY McpSteps, NamesSteps DEF McpStep
<1>3. McpIInv /\ NamesIInv => McpIsTrue
      BY McpHolds, NamesHold DEF McpIsTrue
<1> QED BY <1>1, <1>2, <1>3, PTL DEF McpSpec

-----------------------------------------------------------------------------
(* Closing a session, and the limit of sessions (Terminals) *)

TermSteps == {"idle", "spawn", "send", "keys", "text", "refused", "look", "resize", "resizing",
          "wait", "unmatched", "mark", "grace", "kill", "wake", "drain"}
Place == [at : TermSteps, s : 0 .. MaxTerms, due : BOOLEAN]
Session ==
    [proc : {"none", "up", "told", "shot", "dead"}, pty : BOOLEAN, done : BOOLEAN,
     closing : BOOLEAN, emu : {"none", "open", "closed"},
     reader : {"top", "read", "has", "gone"},
     copier : {"read", "text", "query", "reply", "gone"},
     mu : TermCallers \cup {"free", "copier"},
     out : Seq({"text", "query"}), said : SUBSET {"text", "query"}, shown : BOOLEAN]

TermShape ==
    /\ raced \in BOOLEAN /\ up \in BOOLEAN /\ next \in 0 .. MaxTerms /\ terms \subseteq 1 .. next
    /\ ses \in [Ids -> Session] /\ callAt \in [TermCallers -> Place]

\* What a session's fields say of each other: the waiter is through with a dead process, the
\* emulator is closed last, and who is held by the pipe.
Fits(r) ==
    /\ r.done => ~r.pty /\ r.proc = "dead"
    /\ r.copier = "reply" <=> r.mu = "copier"
    /\ r.emu = "closed" => r.reader = "gone" /\ r.copier = "gone"

Finished(r) == r.proc = "dead" /\ ~r.pty /\ r.done

\* A call that is held by a session's pipe is there to send it text.
HeldSends ==
    \A s \in Ids : \A c \in TermCallers :
        ses[s].mu = c => callAt[c].s = s /\ callAt[c].at \in {"text", "wake"}

\* A call has a session that was started, a close one that no call finds any more.
CallsFit ==
    \A c \in TermCallers :
        /\ callAt[c].at \notin {"idle", "spawn"} => callAt[c].s \in 1 .. next
        /\ callAt[c].at \in Closing => callAt[c].s \notin terms

\* Without a race one start at most is on its way, and there is room for it.
Roomy ==
    MaxSessions > 0 /\ ~raced =>
        /\ Cardinality(terms) <= MaxSessions
        /\ \A c \in TermCallers : callAt[c].at = "spawn" => Cardinality(terms) < MaxSessions
        /\ \A c, d \in TermCallers : callAt[c].at = "spawn" /\ callAt[d].at = "spawn" => c = d

TermIInv ==
    /\ TermShape
    /\ \A s \in Ids : Fits(ses[s])
    /\ HeldSends /\ CallsFit /\ ClosedIsDead /\ Roomy

LEMMA TermParts ==
    ASSUME TermIInv
    PROVE  /\ TermShape /\ HeldSends /\ CallsFit /\ ClosedIsDead /\ Roomy
           /\ \A s \in Ids : Fits(ses[s]) /\ ses[s] \in Session
           /\ \A c \in TermCallers : callAt[c] \in Place
           /\ next \in Nat /\ \A s \in 1 .. next : s \in Ids
           /\ \A c \in TermCallers : c # "free" /\ c # "copier"
BY TerminalAssumption DEF TermIInv, TermShape, Ids

LEMMA TermStarts == Init => TermIInv
<1> SUFFICES ASSUME Init PROVE TermIInv
    OBVIOUS
<1> USE TerminalAssumption DEF Init
<1>1. NotStarted \in Session /\ Fits(NotStarted) /\ NotStarted.mu = "free"
  <2>1. <<>> \in Seq({"text", "query"})
        OBVIOUS
  <2> QED BY <2>1 DEF NotStarted, Session, Fits
<1>2. AtRest \in Place /\ AtRest.at = "idle"
      BY DEF AtRest, Place, TermSteps
<1>3. TermShape
  <2>1. 0 \in 0 .. MaxTerms
        OBVIOUS
  <2>2. ses \in [Ids -> Session] /\ callAt \in [TermCallers -> Place]
        BY <1>1, <1>2
  <2> QED BY <2>1, <2>2 DEF TermShape
<1>4. HeldSends /\ CallsFit /\ ClosedIsDead
      BY <1>1, <1>2 DEF HeldSends, CallsFit, ClosedIsDead, Closing, Ids
<1>5. Roomy
      BY <1>2, FS_EmptySet DEF Roomy
<1> QED BY <1>1, <1>3, <1>4, <1>5 DEF TermIInv, Ids

-----------------------------------------------------------------------------
(* Steps of a session and of a call *)

\* Goroutines and calls change one session r, whose fields still fit, and what has ended stays so.
LEMMA SessionMoves ==
    ASSUME TermIInv, NEW s \in Ids, UNCHANGED <<raced, up, next, terms>>,
           ses'[s] \in Session, Fits(ses'[s]), ses' = [ses EXCEPT ![s] = ses'[s]],
           Finished(ses[s]) => Finished(ses'[s]),
           callAt' \in [TermCallers -> Place], HeldSends', CallsFit',
           \A c \in TermCallers :
               /\ callAt'[c].at = "spawn" => callAt[c].at = "spawn"
               /\ callAt[c].at \in Closing => \/ callAt'[c].s = callAt[c].s /\ callAt'[c].at \in Closing
                                          \/ Finished(ses'[callAt[c].s])
    PROVE  TermIInv'
<1>1. \A u \in Ids : u # s => ses'[u] = ses[u]
      BY TermParts DEF TermShape
<1>2. TermShape'
      BY TermParts DEF TermShape
<1>3. \A u \in Ids : Fits(ses'[u])
      BY <1>1, TermParts
<1>4. ClosedIsDead'
  <2> SUFFICES ASSUME up, NEW u \in 1 .. next, u \notin terms, ~BeingClosed(u)'
               PROVE  Finished(ses'[u])
      BY DEF ClosedIsDead, Finished
  <2>1. u \in Ids
        BY TermParts
  <2>2. CASE BeingClosed(u)
        BY <2>2 DEF BeingClosed
  <2>3. CASE ~BeingClosed(u)
        BY <1>1, <2>1, <2>3, TermParts DEF ClosedIsDead, Finished
  <2> QED BY <2>2, <2>3
<1>5. Roomy'
      BY TermParts DEF Roomy
<1> QED BY <1>2, <1>3, <1>4, <1>5 DEF TermIInv

\* A call that starts nothing and closes nothing goes on, with the sessions as they are.
LEMMA CallMoves ==
    ASSUME TermIInv, NEW c \in TermCallers, NEW q \in Place, callAt' = [callAt EXCEPT ![c] = q],
           UNCHANGED <<raced, up, next, terms, ses>>,
           callAt[c].at \notin {"text", "wake"}, q.at # "spawn",
           q.at # "idle" => q.s \in 1 .. next,
           q.at \in Closing => q.s \notin terms,
           callAt[c].at \in Closing => q.at \in Closing /\ q.s = callAt[c].s
    PROVE  TermIInv'
<1>1. callAt'[c] = q /\ \A d \in TermCallers : d # c => callAt'[d] = callAt[d]
      BY TermParts DEF TermShape
<1>2. TermShape'
      BY TermParts DEF TermShape
<1>3. HeldSends'
      BY <1>1, TermParts DEF HeldSends
<1>4. CallsFit'
      BY <1>1, TermParts DEF CallsFit
<1>5. ClosedIsDead'
      BY <1>1, TermParts DEF ClosedIsDead, BeingClosed
<1>6. Roomy'
      BY <1>1, TermParts DEF Roomy
<1> QED BY <1>2, <1>3, <1>4, <1>5, <1>6, TermParts DEF TermIInv

\* As long as no call moves: the goroutines of a session, its program, and the kernel.
LEMMA SessionAlone ==
    ASSUME TermIInv, NEW s \in Ids, UNCHANGED <<raced, up, next, terms, callAt>>,
           NEW r \in Session, ses' = [ses EXCEPT ![s] = r], Fits(r),
           Finished(ses[s]) => Finished(r), r.mu \in {ses[s].mu, "free", "copier"}
    PROVE  TermIInv'
<1>1. ses'[s] = r /\ \A u \in Ids : u # s => ses'[u] = ses[u]
      BY TermParts DEF TermShape
<1>2. HeldSends'
      BY <1>1, TermParts DEF HeldSends
<1>3. CallsFit' /\ callAt' \in [TermCallers -> Place]
      BY TermParts DEF CallsFit, TermShape
<1> QED BY <1>1, <1>2, <1>3, SessionMoves

LEMMA OutIs ==
    ASSUME NEW r \in Session
    PROVE  /\ r.out # <<>> => Head(r.out) \in {"text", "query"} /\ Tail(r.out) \in Seq({"text", "query"})
           /\ \A k \in {"text", "query"} : Append(r.out, k) \in Seq({"text", "query"})
<1>1. r.out \in Seq({"text", "query"})
      BY DEF Session
<1> QED BY <1>1

LEMMA GoroutineStep ==
    ASSUME TermIInv, UNCHANGED raced, NEW s \in Ids,
           ReaderTop(s) \/ ReaderWrites(s) \/ CopierReads(s) \/ CopierWrites(s) \/ Reap(s) \/ Done(s)
           \/ Prints(s) \/ Ends(s)
    PROVE  TermIInv'
<1> DEFINE r == ses[s]
<1>1. r \in Session /\ Fits(r)
      BY TermParts
<1>2. r.out # <<>> => Head(r.out) \in {"text", "query"} /\ Tail(r.out) \in Seq({"text", "query"})
      BY <1>1, OutIs
<1>3. UNCHANGED <<raced, up, next, terms, callAt>>
      BY DEF ReaderTop, ReaderWrites, CopierReads, CopierWrites, Reap, Done, Prints, Ends
<1>4. ASSUME NEW q \in Session, ses' = [ses EXCEPT ![s] = q], Fits(q), Finished(r) => Finished(q),
             q.mu \in {r.mu, "free", "copier"}
      PROVE  TermIInv'
      BY <1>3, <1>4, SessionAlone
<1>5. CASE ReaderTop(s)
  <2>1. PICK to \in {"read", "gone"} : ses' = [ses EXCEPT ![s] = [r EXCEPT !.reader = to]]
        BY <1>5 DEF ReaderTop
  <2>2. r.reader = "top"
        BY <1>5 DEF ReaderTop
  <2> DEFINE q == [r EXCEPT !.reader = to]
  <2> HIDE DEF r
  <2>3. q \in Session /\ Fits(q) /\ (Finished(r) => Finished(q)) /\ q.mu = r.mu
        BY <1>1, <2>2 DEF Session, Fits, Finished
  <2> QED BY <1>4, <2>1, <2>3
<1>6. CASE ReaderWrites(s)
  <2> DEFINE q == [r EXCEPT !.reader = "top"]
  <2>1. ses' = [ses EXCEPT ![s] = q] /\ r.reader = "has"
        BY <1>6 DEF ReaderWrites
  <2> HIDE DEF r
  <2>2. q \in Session /\ Fits(q) /\ (Finished(r) => Finished(q)) /\ q.mu = r.mu
        BY <1>1, <2>1 DEF Session, Fits, Finished
  <2> QED BY <1>4, <2>1, <2>2
<1>7. CASE CopierReads(s)
  <2> DEFINE q1 == [r EXCEPT !.copier = "gone"]
             q2 == [r EXCEPT !.copier = Head(r.out), !.out = Tail(r.out)]
  <2>1. /\ r.copier = "read"
        /\ ses' = [ses EXCEPT ![s] = q1] \/ (r.out # <<>> /\ ses' = [ses EXCEPT ![s] = q2])
        BY <1>7 DEF CopierReads
  <2> HIDE DEF r
  <2>2. q1 \in Session /\ Fits(q1) /\ (Finished(r) => Finished(q1)) /\ q1.mu = r.mu
        BY <1>1, <2>1 DEF Session, Fits, Finished
  <2>3. ASSUME r.out # <<>>
        PROVE  q2 \in Session /\ Fits(q2) /\ (Finished(r) => Finished(q2)) /\ q2.mu = r.mu
    <3> DEFINE h == Head(r.out)
               tl == Tail(r.out)
    <3>1. h \in {"text", "query"} /\ tl \in Seq({"text", "query"})
          BY <1>2, <2>3
    <3> HIDE DEF h, tl
    <3>2. [r EXCEPT !.copier = h, !.out = tl] \in Session
          BY <1>1, <3>1 DEF Session
    <3>3. LET z == [r EXCEPT !.copier = h, !.out = tl]
          IN  Fits(z) /\ (Finished(r) => Finished(z)) /\ z.mu = r.mu
          BY <1>1, <2>1, <3>1 DEF Session, Fits, Finished
    <3> QED BY <3>2, <3>3 DEF h, tl
  <2> QED BY <1>4, <2>1, <2>2, <2>3
<1>8. CASE CopierWrites(s)
  <2> DEFINE q1 == [r EXCEPT !.copier = "read", !.shown = TRUE]
             q2 == [r EXCEPT !.copier = "reply", !.mu = "copier"]
  <2>1. /\ r.mu = "free" /\ r.copier \in {"text", "query"}
        /\ \E q \in {q1, q2} : ses' = [ses EXCEPT ![s] = q]
        BY <1>8 DEF CopierWrites
  <2> HIDE DEF r
  <2>2. q1 \in Session /\ Fits(q1) /\ (Finished(r) => Finished(q1)) /\ q1.mu = r.mu
        BY <1>1, <2>1 DEF Session, Fits, Finished
  <2>3. q2 \in Session /\ Fits(q2) /\ (Finished(r) => Finished(q2)) /\ q2.mu = "copier"
        BY <1>1, <2>1 DEF Session, Fits, Finished
  <2> HIDE DEF q1, q2
  <2> QED BY <1>4, <2>1, <2>2, <2>3
<1>9. CASE Reap(s)
  <2> DEFINE q == [r EXCEPT !.pty = FALSE]
  <2>1. ses' = [ses EXCEPT ![s] = q]
        BY <1>9 DEF Reap
  <2> HIDE DEF r
  <2>2. q \in Session /\ Fits(q) /\ (Finished(r) => Finished(q)) /\ q.mu = r.mu
        BY <1>1, <2>1 DEF Session, Fits, Finished
  <2> QED BY <1>4, <2>1, <2>2
<1>10. CASE Done(s)
  <2> DEFINE q == [r EXCEPT !.done = TRUE]
  <2>1. ses' = [ses EXCEPT ![s] = q] /\ r.proc = "dead" /\ ~r.pty
        BY <1>10 DEF Done
  <2> HIDE DEF r
  <2>2. q \in Session /\ Fits(q) /\ (Finished(r) => Finished(q)) /\ q.mu = r.mu
        BY <1>1, <2>1 DEF Session, Fits, Finished
  <2> QED BY <1>4, <2>1, <2>2
<1>11. CASE Prints(s)
  <2>1. PICK k \in {"text", "query"} :
            ses' = [ses EXCEPT ![s] = [r EXCEPT !.out = Append(r.out, k), !.said = r.said \cup {k}]]
        BY <1>11, TerminalAssumption DEF Prints
  <2> DEFINE o == Append(r.out, k)
             q == [r EXCEPT !.out = o, !.said = r.said \cup {k}]
  <2>2. o \in Seq({"text", "query"})
        BY <1>1, OutIs
  <2> HIDE DEF r, o
  <2>3. q \in Session
        BY <1>1, <2>2 DEF Session
  <2>4. Fits(q) /\ (Finished(r) => Finished(q)) /\ q.mu = r.mu
        BY <1>1 DEF Session, Fits, Finished
  <2> QED BY <1>4, <2>1, <2>3, <2>4 DEF o
<1>12. CASE Ends(s)
  <2> DEFINE q == [r EXCEPT !.proc = "dead"]
  <2>1. ses' = [ses EXCEPT ![s] = q]
        BY <1>12 DEF Ends
  <2> HIDE DEF r
  <2>2. q \in Session /\ Fits(q) /\ (Finished(r) => Finished(q)) /\ q.mu = r.mu
        BY <1>1, <2>1 DEF Session, Fits, Finished
  <2> QED BY <1>4, <2>1, <2>2
<1> QED BY <1>5, <1>6, <1>7, <1>8, <1>9, <1>10, <1>11, <1>12

\* Read lets go of who was held: a call that sent goes on to look, a close to drain.
LEMMA ReaderTakesStep ==
    ASSUME TermIInv, UNCHANGED raced, NEW s \in Ids, ReaderTakes(s)
    PROVE  TermIInv'
<1> DEFINE r == ses[s]
           q == [r EXCEPT !.reader = "has", !.mu = "free",
                          !.copier = IF r.copier = "reply" THEN "read" ELSE r.copier]
<1>1. r \in Session /\ Fits(r)
      BY TermParts
<1>2. UNCHANGED <<up, next, terms>> /\ r.reader = "read"
      BY DEF ReaderTakes
<1>3. /\ ses' = [ses EXCEPT ![s] = q]
      /\ callAt' = [c \in TermCallers |-> IF ses[s].mu = c
                                  THEN [callAt[c] EXCEPT !.at = AfterText(@)] ELSE callAt[c]]
      BY DEF ReaderTakes
<1>4. /\ \A u \in Ids : u # s => ses'[u] = ses[u]
      /\ ses'[s] = q /\ ses' = [ses EXCEPT ![s] = ses'[s]]
      BY <1>3, TermParts DEF TermShape
<1>5. ASSUME NEW c \in TermCallers
      PROVE  /\ callAt'[c] \in Place /\ callAt'[c].s = callAt[c].s
             /\ r.mu # c => callAt'[c] = callAt[c]
             /\ r.mu = c => \/ (callAt[c].at = "text" /\ callAt'[c].at = "look")
                           \/ (callAt[c].at = "wake" /\ callAt'[c].at = "drain")
  <2>1. callAt[c] \in Place /\ (r.mu = c => callAt[c].at \in {"text", "wake"})
        BY TermParts DEF HeldSends
  <2>2. callAt'[c] = IF r.mu = c THEN [callAt[c] EXCEPT !.at = AfterText(callAt[c].at)] ELSE callAt[c]
        BY <1>3
  <2> HIDE DEF r
  <2>3. CASE r.mu # c
        BY <2>1, <2>2, <2>3
  <2>4. CASE r.mu = c
    <3> DEFINE k == AfterText(callAt[c].at)
    <3>1. callAt'[c] = [callAt[c] EXCEPT !.at = k] /\ k \in {"look", "drain"}
          BY <2>2, <2>4 DEF AfterText
    <3>2. (callAt[c].at = "text" => k = "look") /\ (callAt[c].at = "wake" => k = "drain")
          BY DEF AfterText
    <3> HIDE DEF k
    <3>3. callAt'[c] \in Place /\ callAt'[c].s = callAt[c].s /\ callAt'[c].at = k
          BY <2>1, <3>1 DEF Place, TermSteps
    <3> QED BY <2>1, <2>4, <3>2, <3>3
  <2> QED BY <2>3, <2>4
<1>6. callAt' \in [TermCallers -> Place]
      BY <1>3, <1>5
<1>7. ASSUME NEW c \in TermCallers PROVE q.mu # c
  <2>1. q.mu = "free"
        BY <1>1 DEF Session
  <2> QED BY <2>1, TermParts
<1>8. HeldSends'
  <2> SUFFICES ASSUME NEW u \in Ids, NEW c \in TermCallers, ses'[u].mu = c
               PROVE  callAt'[c].s = u /\ callAt'[c].at \in {"text", "wake"}
      BY DEF HeldSends
  <2>1. u # s /\ ses[u].mu = c
        BY <1>4, <1>7
  <2>2. r.mu # c
        BY <2>1, TermParts DEF HeldSends
  <2> QED BY <1>5, <2>1, <2>2, TermParts DEF HeldSends
<1>9. CallsFit'
  <2> SUFFICES ASSUME NEW c \in TermCallers
               PROVE  /\ callAt'[c].at \notin {"idle", "spawn"} => callAt'[c].s \in 1 .. next'
                      /\ callAt'[c].at \in Closing => callAt'[c].s \notin terms'
      BY DEF CallsFit
  <2> HIDE DEF r
  <2> QED BY <1>2, <1>5, TermParts DEF CallsFit, Closing
<1>10. \A c \in TermCallers :
          /\ callAt'[c].at = "spawn" => callAt[c].at = "spawn"
          /\ callAt[c].at \in Closing => callAt'[c].s = callAt[c].s /\ callAt'[c].at \in Closing
  <2> HIDE DEF r
  <2> QED BY <1>5 DEF Closing
<1>11. q \in Session /\ Fits(q) /\ (Finished(r) => Finished(q))
  <2> DEFINE k == IF r.copier = "reply" THEN "read" ELSE r.copier
  <2>1. k \in {"read", "text", "query", "gone"} /\ (r.copier = "gone" => k = "gone")
        BY <1>1 DEF Session
  <2> HIDE DEF r, k
  <2>2. LET z == [r EXCEPT !.reader = "has", !.mu = "free", !.copier = k]
        IN  z \in Session /\ Fits(z) /\ (Finished(r) => Finished(z))
        BY <1>1, <1>2, <2>1 DEF Session, Fits, Finished
  <2> QED BY <2>2 DEF k
<1> HIDE DEF q
<1> QED BY <1>2, <1>4, <1>6, <1>8, <1>9, <1>10, <1>11, SessionMoves

\* A call c of session s changes it, and itself: what is left to show of either.
LEMMA CallerMoves ==
    ASSUME TermIInv, UNCHANGED <<raced, up, next, terms>>, NEW c \in TermCallers,
           NEW s \in Ids, callAt[c].s = s, callAt[c].at \notin {"idle", "spawn"},
           NEW r \in Session, ses' = [ses EXCEPT ![s] = r], Fits(r),
           Finished(ses[s]) => Finished(r), NEW q \in Place, callAt' = [callAt EXCEPT ![c] = q],
           q.at # "spawn", q.at # "idle" => q.s = s,
           \/ r.mu = ses[s].mu /\ callAt[c].at \notin {"text", "wake"}
           \/ r.mu = ses[s].mu /\ r.mu = "free"
           \/ r.mu = c /\ q = callAt[c] /\ q.at \in {"text", "wake"},
           q.at \in Closing => callAt[c].at \in Closing,
           callAt[c].at \in Closing => q.at \in Closing \/ Finished(r)
    PROVE  TermIInv'
<1>1. /\ callAt'[c] = q /\ \A d \in TermCallers : d # c => callAt'[d] = callAt[d]
      /\ ses'[s] = r /\ \A u \in Ids : u # s => ses'[u] = ses[u]
      /\ callAt' \in [TermCallers -> Place]
      BY TermParts DEF TermShape
<1>2. "idle" \notin Closing
      BY DEF Closing
<1>3. HeldSends'
  <2> SUFFICES ASSUME NEW u \in Ids, NEW d \in TermCallers, ses'[u].mu = d
               PROVE  callAt'[d].s = u /\ callAt'[d].at \in {"text", "wake"}
      BY DEF HeldSends
  <2>1. CASE u = s /\ d = c
    <3>1. ses[s].mu = c => callAt[c].at \in {"text", "wake"}
          BY TermParts DEF HeldSends
    <3>2. r.mu = c /\ c # "free"
          BY <1>1, <2>1, TermParts
    <3>3. q = callAt[c] /\ q.at \in {"text", "wake"}
          BY <3>1, <3>2
    <3> QED BY <1>1, <2>1, <3>3
  <2>2. CASE u = s /\ d # c
    <3>1. ses[s].mu = d
          BY <1>1, <2>2
    <3> QED BY <1>1, <2>2, <3>1, TermParts DEF HeldSends
  <2>3. CASE u # s
    <3>1. ses[u].mu = d
          BY <1>1, <2>3
    <3>2. d # c
          BY <2>3, <3>1, TermParts DEF HeldSends
    <3> QED BY <1>1, <2>3, <3>1, <3>2, TermParts DEF HeldSends
  <2> QED BY <2>1, <2>2, <2>3
<1>4. CallsFit'
  <2>1. s \in 1 .. next /\ (callAt[c].at \in Closing => s \notin terms)
        BY TermParts DEF CallsFit
  <2> QED BY <1>1, <1>2, <2>1, TermParts DEF CallsFit
<1>5. \A d \in TermCallers :
          /\ callAt'[d].at = "spawn" => callAt[d].at = "spawn"
          /\ callAt[d].at \in Closing => \/ callAt'[d].s = callAt[d].s /\ callAt'[d].at \in Closing
                                     \/ Finished(ses'[callAt[d].s])
      BY <1>1, <1>2
<1> QED BY <1>1, <1>3, <1>4, <1>5, SessionMoves

\* What a call is when it has a session: where it is, and what Goes and Return make of it.
LEMMA CallIs ==
    ASSUME TermIInv, NEW c \in TermCallers, callAt[c].at \notin {"idle", "spawn"}
    PROVE  /\ callAt[c].s \in Ids /\ callAt[c].s \in 1 .. next /\ callAt[c] \in Place
           /\ AtRest \in Place /\ AtRest.at = "idle"
           /\ \A step \in TermSteps :
                 /\ [callAt[c] EXCEPT !.at = step] \in Place
                 /\ [callAt[c] EXCEPT !.at = step].at = step /\ [callAt[c] EXCEPT !.at = step].s = callAt[c].s
                 /\ Goes(c, step) <=> callAt' = [callAt EXCEPT ![c] = [callAt[c] EXCEPT !.at = step]]
<1>1. callAt[c].s \in Ids /\ callAt[c].s \in 1 .. next /\ callAt[c] \in Place
      BY TermParts DEF CallsFit
<1>2. AtRest \in Place /\ AtRest.at = "idle"
      BY TerminalAssumption DEF AtRest, Place, TermSteps
<1>3. ASSUME NEW step \in TermSteps
      PROVE  /\ [callAt[c] EXCEPT !.at = step] \in Place
             /\ [callAt[c] EXCEPT !.at = step].at = step /\ [callAt[c] EXCEPT !.at = step].s = callAt[c].s
      BY <1>1 DEF Place
<1>4. ASSUME NEW step \in TermSteps
      PROVE  Goes(c, step) <=> callAt' = [callAt EXCEPT ![c] = [callAt[c] EXCEPT !.at = step]]
      BY DEF Goes
<1> QED BY <1>1, <1>2, <1>3, <1>4

LEMMA SendTextStep ==
    ASSUME TermIInv, UNCHANGED raced, NEW c \in TermCallers, SendText(c)
    PROVE  TermIInv'
<1> DEFINE s == callAt[c].s
           r == ses[s]
           q == [r EXCEPT !.mu = c]
<1>1. /\ callAt[c].at \in {"text", "wake"} /\ r.mu = "free" /\ UNCHANGED <<up, next, terms>>
      /\ ses' = [ses EXCEPT ![s] = q] /\ callAt' = callAt
      BY DEF SendText, Puts
<1>2. s \in Ids /\ callAt[c] \in Place
      BY <1>1, CallIs
<1>3. r \in Session /\ Fits(r) /\ callAt \in [TermCallers -> Place]
      BY <1>2, TermParts DEF TermShape
<1>4. ses' = [ses EXCEPT ![s] = q] /\ callAt' = [callAt EXCEPT ![c] = callAt[c]]
      BY <1>1, <1>3
<1>5. c # "copier" /\ r.copier # "reply"
      BY <1>1, <1>3, TermParts DEF Fits
<1> HIDE DEF r
<1>6. q \in Session /\ Fits(q) /\ (Finished(r) => Finished(q)) /\ q.mu = c
      BY <1>3, <1>5 DEF Session, Fits, Finished
<1>7. /\ callAt[c].at \notin {"idle", "spawn"} /\ callAt[c].at \in {"text", "wake"}
      /\ UNCHANGED <<up, next, terms>> /\ callAt[c].s = s
      BY <1>1 DEF r
<1> HIDE DEF q, s
<1> QED BY <1>2, <1>4, <1>6, <1>7, CallerMoves DEF r

LEMMA CloseStep ==
    ASSUME TermIInv, UNCHANGED raced, NEW c \in TermCallers,
           CloseMark(c) \/ CloseKill(c) \/ CloseDrain(c)
    PROVE  TermIInv'
<1> DEFINE s == callAt[c].s
           r == ses[s]
<1>1. callAt[c].at \in {"mark", "kill", "drain"} /\ UNCHANGED <<up, next, terms>>
      BY DEF CloseMark, CloseKill, CloseDrain
<1>2. s \in Ids /\ callAt[c] \in Place /\ AtRest \in Place /\ AtRest.at = "idle"
      BY <1>1, CallIs
<1>3. r \in Session /\ Fits(r)
      BY <1>2, TermParts
<1>4. ASSUME NEW q \in Session, ses' = [ses EXCEPT ![s] = q], Fits(q), Finished(r) => Finished(q),
             q.mu = r.mu, NEW step \in {"grace", "kill", "wake"}, Goes(c, step)
      PROVE  TermIInv'
  <2> DEFINE z == [callAt[c] EXCEPT !.at = step]
  <2>0. step \in TermSteps
        BY DEF TermSteps
  <2>1. z \in Place /\ z.at = step /\ z.s = s /\ callAt' = [callAt EXCEPT ![c] = z]
        BY <1>1, <1>4, <2>0, CallIs
  <2> HIDE DEF z
  <2>2. /\ z.at \in Closing /\ callAt[c].at \in Closing /\ z.at # "spawn"
        /\ callAt[c].at \notin {"idle", "spawn", "text", "wake"}
        BY <1>1, <2>1 DEF Closing
  <2> HIDE DEF s
  <2> QED BY <1>1, <1>2, <1>4, <2>1, <2>2, CallerMoves DEF s
<1>5. CASE CloseMark(c)
  <2> DEFINE p == IF r.proc = "up" THEN "told" ELSE r.proc
             q == [r EXCEPT !.closing = TRUE, !.proc = p]
  <2>1. ses' = [ses EXCEPT ![s] = q] /\ (Goes(c, "kill") \/ Goes(c, "grace"))
        BY <1>5 DEF CloseMark
  <2>2. p \in {"none", "told", "shot", "dead"} /\ (r.proc = "dead" => p = "dead")
        BY <1>3 DEF Session
  <2> HIDE DEF r, p
  <2>3. q \in Session /\ Fits(q) /\ (Finished(r) => Finished(q)) /\ q.mu = r.mu
        BY <1>3, <2>2 DEF Session, Fits, Finished
  <2> HIDE DEF q, s
  <2> QED BY <1>4, <2>1, <2>3
<1>6. CASE CloseKill(c)
  <2> DEFINE p == IF Alive(s) THEN "shot" ELSE r.proc
             q == [r EXCEPT !.proc = p]
  <2>1. /\ ses' = [ses EXCEPT ![s] = q] /\ Goes(c, "wake")
        BY <1>6 DEF CloseKill
  <2>2. p \in {"none", "shot", "dead"} /\ (r.proc = "dead" => p = "dead")
        BY <1>3 DEF Session, Alive
  <2> HIDE DEF r, p
  <2>3. q \in Session /\ Fits(q) /\ (Finished(r) => Finished(q)) /\ q.mu = r.mu
        BY <1>3, <2>2 DEF Session, Fits, Finished
  <2> HIDE DEF q, s
  <2> QED BY <1>4, <2>1, <2>3
<1>7. CASE CloseDrain(c)
  <2> DEFINE q == [r EXCEPT !.emu = "closed"]
  <2>1. /\ ses' = [ses EXCEPT ![s] = q] /\ callAt' = [callAt EXCEPT ![c] = AtRest]
        /\ r.done /\ r.reader = "gone" /\ r.copier = "gone"
        BY <1>7 DEF CloseDrain, Return
  <2> HIDE DEF r
  <2>2. q \in Session /\ Fits(q) /\ Finished(q) /\ q.mu = r.mu
        BY <1>3, <2>1 DEF Session, Fits, Finished
  <2>3. "idle" \notin Closing /\ callAt[c].at \notin {"idle", "spawn", "text", "wake"} /\ AtRest.at # "spawn"
        BY <1>1, <1>2 DEF Closing
  <2> HIDE DEF q, s
  <2> QED BY <1>1, <1>2, <2>1, <2>2, <2>3, CallerMoves DEF r, s
<1> QED BY <1>5, <1>6, <1>7

\* The calls that look, resize, wait, give up or begin to close, each in its session.
LEMMA TermCallStep ==
    ASSUME TermIInv, UNCHANGED raced, NEW c \in TermCallers,
           Send(c) \/ Keys(c) \/ Refused(c) \/ Look(c) \/ Resize(c) \/ WaitLooks(c)
           \/ WaitGoesOn(c) \/ Deadline(c) \/ CloseGrace(c)
    PROVE  TermIInv'
<1>1. /\ UNCHANGED <<up, next, terms, ses>>
      /\ callAt[c].at \in {"send", "keys", "refused", "look", "resize", "resizing", "wait",
                       "unmatched", "grace"}
      BY DEF Send, Keys, Refused, Look, Resize, WaitLooks, WaitGoesOn, Deadline, CloseGrace
<1>2. /\ callAt[c].at \notin {"idle", "spawn", "text", "wake"} /\ callAt[c] \in Place
      /\ callAt[c].s \in 1 .. next /\ AtRest \in Place /\ AtRest.at = "idle"
      BY <1>1, CallIs
<1>3. ASSUME NEW step \in {"text", "look", "refused", "resizing", "unmatched", "wait"}, Goes(c, step),
             callAt[c].at # "grace"
      PROVE  TermIInv'
  <2> DEFINE z == [callAt[c] EXCEPT !.at = step]
  <2>1. step \in TermSteps /\ step \notin Closing \cup {"spawn"} /\ callAt[c].at \notin Closing
        BY <1>1, <1>3 DEF TermSteps, Closing
  <2>2. z \in Place /\ z.at = step /\ z.s = callAt[c].s /\ callAt' = [callAt EXCEPT ![c] = z]
        BY <1>2, <1>3, <2>1, CallIs
  <2> HIDE DEF z
  <2> QED BY <1>1, <1>2, <2>1, <2>2, CallMoves
<1>4. ASSUME Return(c), callAt[c].at # "grace" PROVE TermIInv'
  <2>1. callAt' = [callAt EXCEPT ![c] = AtRest]
        BY <1>4 DEF Return
  <2>2. callAt[c].at \notin Closing /\ AtRest.at \notin Closing /\ AtRest.at # "spawn"
        BY <1>1, <1>2, <1>4 DEF Closing
  <2> QED BY <1>1, <1>2, <2>1, <2>2, CallMoves
<1>5. CASE Deadline(c)
  <2> DEFINE z == [callAt[c] EXCEPT !.due = TRUE]
  <2>1. callAt' = [callAt EXCEPT ![c] = z] /\ callAt[c].at \in {"wait", "unmatched"}
        BY <1>5 DEF Deadline
  <2>2. z \in Place /\ z.at = callAt[c].at /\ z.s = callAt[c].s
        BY <1>2 DEF Place
  <2>3. callAt[c].at \notin Closing
        BY <2>1 DEF Closing
  <2> HIDE DEF z
  <2> QED BY <1>1, <1>2, <2>1, <2>2, <2>3, CallMoves
<1>6. CASE CloseGrace(c)
  <2> DEFINE z == [callAt[c] EXCEPT !.at = "kill"]
  <2>1. "kill" \in TermSteps /\ "kill" \in Closing /\ callAt[c].at \in Closing /\ Goes(c, "kill")
        BY <1>6 DEF TermSteps, Closing, CloseGrace
  <2>2. z \in Place /\ z.at = "kill" /\ z.s = callAt[c].s /\ callAt' = [callAt EXCEPT ![c] = z]
        BY <1>2, <2>1, CallIs
  <2>3. callAt[c].s \notin terms
        BY <2>1, TermParts DEF CallsFit
  <2> HIDE DEF z
  <2> QED BY <1>1, <1>2, <2>1, <2>2, <2>3, CallMoves
<1>7. CASE Send(c) \/ Keys(c)
      BY <1>3, <1>7 DEF Send, Keys
<1>8. CASE Refused(c) \/ Look(c)
      BY <1>4, <1>8 DEF Refused, Look
<1>9. CASE Resize(c)
      BY <1>3, <1>4, <1>9 DEF Resize
<1>10. CASE WaitLooks(c) \/ WaitGoesOn(c)
      BY <1>3, <1>4, <1>10 DEF WaitLooks, WaitGoesOn
<1> QED BY <1>5, <1>6, <1>7, <1>8, <1>9, <1>10

LEMMA IdleIs ==
    ASSUME TermIInv
    PROVE  /\ AtRest \in Place /\ AtRest.at = "idle"
           /\ \A step \in TermSteps, s \in 0 .. MaxTerms :
                 At(step, s) \in Place /\ At(step, s).at = step /\ At(step, s).s = s
           /\ IsFiniteSet(terms) /\ Cardinality(terms) \in Nat
<1>1. AtRest \in Place /\ AtRest.at = "idle"
      BY TerminalAssumption DEF AtRest, Place, TermSteps
<1>2. \A step \in TermSteps, s \in 0 .. MaxTerms :
          At(step, s) \in Place /\ At(step, s).at = step /\ At(step, s).s = s
      BY DEF At, Place
<1>3. IsFiniteSet(1 .. next)
      BY TermParts, FS_Interval
<1>4. IsFiniteSet(terms) /\ Cardinality(terms) \in Nat
      BY <1>3, TermParts, FS_Subset, FS_CardinalityType DEF TermShape
<1> QED BY <1>1, <1>2, <1>4

LEMMA GetStep ==
    ASSUME TermIInv, UNCHANGED raced, NEW c \in TermCallers, Get(c)
    PROVE  TermIInv'
<1>1. PICK s \in terms, op \in {"send", "keys", "look", "resize", "wait"} :
          callAt' = [callAt EXCEPT ![c] = At(op, s)]
      BY DEF Get
<1>2. callAt[c] = AtRest /\ UNCHANGED <<up, next, terms, ses>>
      BY DEF Get
<1>3. op \in TermSteps /\ op \notin Closing \cup {"spawn"} /\ "idle" \notin Closing
      BY DEF TermSteps, Closing
<1>4. s \in 0 .. MaxTerms /\ s \in 1 .. next
  <2>1. s \in 1 .. next /\ next \in 0 .. MaxTerms
        BY TermParts DEF TermShape
  <2> QED BY <2>1, TerminalAssumption
<1>5. At(op, s) \in Place /\ At(op, s).at = op /\ At(op, s).s = s /\ AtRest.at = "idle"
      BY <1>3, <1>4, IdleIs
<1> QED BY <1>1, <1>2, <1>3, <1>4, <1>5, CallMoves

LEMMA SpawnFailsStep ==
    ASSUME TermIInv, UNCHANGED raced, NEW c \in TermCallers, SpawnFails(c)
    PROVE  TermIInv'
<1>1. /\ callAt[c].at = "spawn" /\ callAt' = [callAt EXCEPT ![c] = AtRest] /\ UNCHANGED <<up, next, terms, ses>>
      BY DEF SpawnFails, Return
<1>2. AtRest \in Place /\ AtRest.at = "idle" /\ {"idle", "spawn"} \cap Closing = {}
      BY IdleIs DEF Closing
<1> QED BY <1>1, <1>2, CallMoves

\* The limit is looked at; another start that has looked and not registered is a race.
LEMMA StartCheckStep ==
    ASSUME TermIInv, NEW c \in TermCallers, StartCheck(c)
    PROVE  TermIInv'
<1> DEFINE z == [callAt[c] EXCEPT !.at = "spawn"]
<1>1. /\ callAt[c] = AtRest
      /\ (MaxSessions > 0 => Cardinality(terms) < MaxSessions)
      /\ callAt' = [callAt EXCEPT ![c] = z]
      /\ raced' = (raced \/ \E d \in TermCallers : callAt[d].at = "spawn")
      /\ UNCHANGED <<up, next, terms, ses>>
      BY DEF StartCheck, Goes
<1>2. z \in Place /\ z.at = "spawn" /\ callAt[c].at = "idle" /\ {"idle", "spawn"} \cap Closing = {}
  <2>1. callAt[c].at = "idle"
        BY <1>1, IdleIs
  <2>2. {"idle", "spawn"} \cap Closing = {}
        BY DEF Closing
  <2> QED BY <2>1, <2>2, TermParts DEF Place, TermSteps
<1> HIDE DEF z
<1>3. callAt'[c] = z /\ \A d \in TermCallers : d # c => callAt'[d] = callAt[d]
      BY <1>1, TermParts DEF TermShape
<1>4. TermShape'
      BY <1>1, <1>2, TermParts DEF TermShape
<1>5. HeldSends'
      BY <1>1, <1>2, <1>3, TermParts DEF HeldSends
<1>6. CallsFit'
      BY <1>1, <1>2, <1>3, TermParts DEF CallsFit
<1>7. ClosedIsDead'
      BY <1>1, <1>2, <1>3, TermParts DEF ClosedIsDead, BeingClosed
<1>8. Roomy'
  <2> SUFFICES ASSUME MaxSessions > 0, ~raced'
               PROVE  /\ Cardinality(terms) <= MaxSessions
                      /\ \A d \in TermCallers : callAt'[d].at = "spawn" => Cardinality(terms) < MaxSessions
                      /\ \A d, e \in TermCallers : callAt'[d].at = "spawn" /\ callAt'[e].at = "spawn" => d = e
      BY <1>1 DEF Roomy
  <2>1. ~raced /\ \A d \in TermCallers : callAt[d].at # "spawn"
        BY <1>1, TermParts DEF TermShape
  <2>2. Cardinality(terms) <= MaxSessions
        BY <2>1, TermParts DEF Roomy
  <2>3. Cardinality(terms) < MaxSessions
        BY <1>1
  <2>4. \A d \in TermCallers : callAt'[d].at = "spawn" => d = c
        BY <1>3, <2>1
  <2> QED BY <2>2, <2>3, <2>4
<1> QED BY <1>1, <1>4, <1>5, <1>6, <1>7, <1>8, TermParts DEF TermIInv

\* A session is registered when its process runs, under a number nothing was given before.
LEMMA SpawnStep ==
    ASSUME TermIInv, UNCHANGED raced, NEW c \in TermCallers, Spawn(c)
    PROVE  TermIInv'
<1> DEFINE n == next + 1
           z == At("look", n)
<1>1. /\ callAt[c].at = "spawn" /\ next < MaxTerms /\ next' = n /\ terms' = terms \cup {n}
      /\ ses' = [ses EXCEPT ![n] = Fresh]
      /\ callAt' = [callAt EXCEPT ![c] = z] /\ up' = up
      BY DEF Spawn
<1>2. /\ n \in Ids /\ n \in 0 .. MaxTerms /\ n \in 1 .. n /\ next \in 0 .. MaxTerms
      /\ \A u \in 1 .. next : u \in 1 .. n /\ u # n
      /\ \A u \in 1 .. n : u = n \/ u \in 1 .. next
  <2>1. next \in Nat /\ next \in 0 .. MaxTerms
        BY TermParts DEF TermShape
  <2> QED BY <1>1, <2>1, TerminalAssumption DEF Ids
<1>3. z \in Place /\ z.at = "look" /\ z.s = n
  <2>1. "look" \in TermSteps
        BY DEF TermSteps
  <2> QED BY <1>2, <2>1, IdleIs
<1> HIDE DEF z
<1>4. callAt'[c] = z /\ \A d \in TermCallers : d # c => callAt'[d] = callAt[d]
      BY <1>1, TermParts DEF TermShape
<1>5. Fresh \in Session /\ Fits(Fresh) /\ Fresh.mu = "free"
  <2>1. <<>> \in Seq({"text", "query"})
        OBVIOUS
  <2> QED BY <2>1 DEF Fresh, NotStarted, Session, Fits
<1>6. ses'[n] = Fresh /\ \A u \in Ids : u # n => ses'[u] = ses[u]
      BY <1>1, <1>2, TermParts DEF TermShape
<1>7. n \notin terms /\ terms \subseteq 1 .. next
      BY <1>2, TermParts DEF TermShape
<1> HIDE DEF n
<1>8. TermShape'
  <2>1. next' \in 0 .. MaxTerms /\ terms' \subseteq 1 .. next'
        BY <1>1, <1>2, <1>7
  <2>2. ses' \in [Ids -> Session] /\ callAt' \in [TermCallers -> Place]
        BY <1>1, <1>2, <1>3, <1>5, TermParts DEF TermShape
  <2>3. raced' \in BOOLEAN /\ up' \in BOOLEAN
        BY <1>1, TermParts DEF TermShape
  <2> QED BY <2>1, <2>2, <2>3 DEF TermShape
<1>9. \A u \in Ids : Fits(ses'[u])
      BY <1>5, <1>6, TermParts
<1>10. HeldSends'
      BY <1>1, <1>4, <1>5, <1>6, TermParts DEF HeldSends
<1>11. CallsFit'
  <2> SUFFICES ASSUME NEW d \in TermCallers
               PROVE  /\ (callAt'[d].at \notin {"idle", "spawn"} => callAt'[d].s \in 1 .. n)
                      /\ (callAt'[d].at \in Closing => callAt'[d].s \notin terms')
      BY <1>1 DEF CallsFit
  <2>1. CASE d = c
        BY <1>2, <1>3, <1>4, <2>1 DEF Closing
  <2>2. CASE d # c
    <3>1. callAt'[d] = callAt[d]
          BY <1>4, <2>2
    <3>2. /\ (callAt[d].at \notin {"idle", "spawn"} => callAt[d].s \in 1 .. next)
          /\ (callAt[d].at \in Closing => callAt[d].s \notin terms)
          BY TermParts DEF CallsFit
    <3>3. callAt[d].at \in Closing => callAt[d].at \notin {"idle", "spawn"}
          BY DEF Closing
    <3> QED BY <1>1, <1>2, <3>1, <3>2, <3>3
  <2> QED BY <2>1, <2>2
<1>12. ClosedIsDead'
  <2> SUFFICES ASSUME up, NEW u \in 1 .. n, u \notin terms', ~BeingClosed(u)'
               PROVE  Finished(ses'[u])
      BY <1>1 DEF ClosedIsDead, Finished
  <2>1. u # n /\ u \in 1 .. next /\ u \notin terms
        BY <1>1, <1>2
  <2>2. ses'[u] = ses[u]
        BY <1>6, <2>1, TermParts
  <2>3. ~BeingClosed(u)
    <3>1. callAt[c].at \notin Closing
          BY <1>1 DEF Closing
    <3> QED BY <1>4, <3>1 DEF BeingClosed
  <2> QED BY <2>1, <2>2, <2>3, TermParts DEF ClosedIsDead, Finished
<1>13. Roomy'
  <2> SUFFICES ASSUME MaxSessions > 0, ~raced
               PROVE  /\ Cardinality(terms') <= MaxSessions
                      /\ \A d \in TermCallers : callAt'[d].at # "spawn"
      BY DEF Roomy
  <2>1. /\ Cardinality(terms) < MaxSessions
        /\ \A d \in TermCallers : callAt[d].at = "spawn" => d = c
        BY <1>1, TermParts DEF Roomy
  <2>2. Cardinality(terms') = Cardinality(terms) + 1
        BY <1>1, <1>7, IdleIs, FS_AddElement
  <2>3. Cardinality(terms') <= MaxSessions
        BY <2>1, <2>2, IdleIs, TerminalAssumption
  <2>4. \A d \in TermCallers : callAt'[d].at # "spawn"
        BY <1>3, <1>4, <2>1
  <2> QED BY <2>3, <2>4
<1> QED BY <1>8, <1>9, <1>10, <1>11, <1>12, <1>13 DEF TermIInv

\* A close takes the session out of the map first.
LEMMA BeginCloseStep ==
    ASSUME TermIInv, UNCHANGED raced, NEW c \in TermCallers, Close(c)
    PROVE  TermIInv'
<1>1. PICK s \in terms : terms' = terms \ {s} /\ callAt' = [callAt EXCEPT ![c] = At("mark", s)]
      BY DEF Close
<1>2. callAt[c] = AtRest /\ UNCHANGED <<up, next, ses>>
      BY DEF Close
<1> DEFINE z == At("mark", s)
<1>3. s \in 1 .. next /\ s \in 0 .. MaxTerms
  <2>1. s \in 1 .. next /\ next \in 0 .. MaxTerms
        BY TermParts DEF TermShape
  <2> QED BY <2>1, TerminalAssumption
<1>4. z \in Place /\ z.at = "mark" /\ z.s = s /\ callAt[c].at = "idle"
  <2>1. "mark" \in TermSteps
        BY DEF TermSteps
  <2> QED BY <1>2, <1>3, <2>1, IdleIs
<1> HIDE DEF z
<1>5. callAt'[c] = z /\ \A d \in TermCallers : d # c => callAt'[d] = callAt[d]
      BY <1>1, TermParts DEF TermShape, z
<1>6. TermShape'
      BY <1>1, <1>2, <1>4, TermParts DEF TermShape, z
<1>7. HeldSends'
      BY <1>2, <1>4, <1>5, TermParts DEF HeldSends
<1>8. CallsFit'
      BY <1>1, <1>2, <1>3, <1>4, <1>5, TermParts DEF CallsFit
<1>9. ClosedIsDead'
  <2> SUFFICES ASSUME up, NEW u \in 1 .. next, u \notin terms', ~BeingClosed(u)'
               PROVE  Finished(ses[u])
      BY <1>2 DEF ClosedIsDead, Finished
  <2>1. "mark" \in Closing /\ callAt[c].at \notin Closing
        BY <1>4 DEF Closing
  <2>2. u # s
        BY <1>4, <1>5, <2>1 DEF BeingClosed
  <2>3. ~BeingClosed(u)
        BY <1>5, <2>1 DEF BeingClosed
  <2> QED BY <1>1, <2>2, <2>3, TermParts DEF ClosedIsDead, Finished
<1>10. Roomy'
  <2>1. Cardinality(terms') <= Cardinality(terms) /\ Cardinality(terms') \in Nat
    <3>1. terms' \subseteq terms
          BY <1>1
    <3> QED BY <3>1, IdleIs, FS_Subset, FS_CardinalityType
  <2>2. \A d \in TermCallers : callAt'[d].at = "spawn" => callAt[d].at = "spawn"
        BY <1>4, <1>5
  <2> SUFFICES ASSUME MaxSessions > 0, ~raced
               PROVE  /\ Cardinality(terms') <= MaxSessions
                      /\ \A d \in TermCallers : callAt'[d].at = "spawn" => Cardinality(terms') < MaxSessions
                      /\ \A d, e \in TermCallers : callAt'[d].at = "spawn" /\ callAt'[e].at = "spawn" => d = e
      BY DEF Roomy
  <2>3. /\ Cardinality(terms) <= MaxSessions
        /\ \A d \in TermCallers : callAt[d].at = "spawn" => Cardinality(terms) < MaxSessions
        /\ \A d, e \in TermCallers : callAt[d].at = "spawn" /\ callAt[e].at = "spawn" => d = e
        BY TermParts DEF Roomy
  <2>4. Cardinality(terms') <= MaxSessions
        BY <2>1, <2>3, IdleIs, TerminalAssumption
  <2>5. ASSUME NEW d \in TermCallers, callAt'[d].at = "spawn" PROVE Cardinality(terms') < MaxSessions
    <3>1. Cardinality(terms) < MaxSessions
          BY <2>2, <2>3, <2>5
    <3> QED BY <2>1, <3>1, IdleIs, TerminalAssumption
  <2> QED BY <2>2, <2>3, <2>4, <2>5
<1> QED BY <1>2, <1>6, <1>7, <1>8, <1>9, <1>10, TermParts DEF TermIInv

LEMMA ExitStep ==
    ASSUME TermIInv, UNCHANGED raced, Exit
    PROVE  TermIInv'
<1>1. /\ up' = FALSE /\ terms' = {} /\ next' = next
      /\ \A c \in TermCallers : callAt'[c] = AtRest
      /\ \A s \in Ids : ses'[s] = NotStarted
      BY DEF Exit
<1>2. NotStarted \in Session /\ Fits(NotStarted) /\ NotStarted.mu = "free"
  <2>1. <<>> \in Seq({"text", "query"})
        OBVIOUS
  <2> QED BY <2>1, TerminalAssumption DEF NotStarted, Session, Fits
<1>3. TermShape'
  <2>1. ses' \in [Ids -> Session] /\ callAt' \in [TermCallers -> Place]
        BY <1>2, IdleIs DEF Exit
  <2> QED BY <1>1, <2>1, TermParts DEF TermShape
<1>4. HeldSends' /\ CallsFit' /\ ClosedIsDead'
      BY <1>1, <1>2, IdleIs, TermParts DEF HeldSends, CallsFit, ClosedIsDead, Closing
<1>5. Roomy'
  <2>1. Cardinality(terms') = 0
        BY <1>1, FS_EmptySet
  <2>2. \A c \in TermCallers : callAt'[c].at # "spawn"
        BY <1>1, IdleIs
  <2> QED BY <2>1, <2>2, TerminalAssumption DEF Roomy
<1> QED BY <1>1, <1>2, <1>3, <1>4, <1>5 DEF TermIInv

\* The program has left nothing behind that counts.
Left == ~up => terms = {} /\ \A s \in Ids : ~ses[s].pty

LEMMA TermKeeps == TermIInv /\ Left /\ [Next]_vars => (TermIInv /\ Left)'
<1>1. CASE UNCHANGED vars
  <2> SUFFICES ASSUME TermIInv, Left PROVE (TermIInv /\ Left)'
      OBVIOUS
  <2> QED BY <1>1 DEF vars, TermIInv, TermShape, HeldSends, CallsFit, ClosedIsDead, BeingClosed,
                     Roomy, Left
<1>2. ASSUME TermIInv, Next PROVE (TermIInv /\ Left)'
  <2>1. up
        BY <1>2 DEF Next
  <2>2. CASE Starting
    <3>1. PICK c \in TermCallers : StartCheck(c)
          BY <2>2 DEF Starting
    <3>2. up'
          BY <2>1, <3>1 DEF StartCheck
    <3> QED BY <1>2, <2>1, <3>1, <3>2, StartCheckStep DEF Left
  <2>3. CASE UNCHANGED raced /\ \E c \in TermCallers : CallSteps(c) \/ Get(c) \/ Close(c) \/ Deadline(c)
    <3>1. PICK c \in TermCallers : CallSteps(c) \/ Get(c) \/ Close(c) \/ Deadline(c)
          BY <2>3
    <3>2. up'
          BY <2>1, <3>1 DEF CallSteps, Get, Close, Deadline, Spawn, SpawnFails, Send, Keys, Refused,
                            SendText, Look, Resize, WaitLooks, WaitGoesOn, CloseMark, CloseGrace,
                            CloseKill, CloseDrain
    <3>3. TermIInv'
          BY <1>2, <2>1, <2>3, <3>1, SpawnStep, SpawnFailsStep, TermCallStep, SendTextStep, CloseStep,
             GetStep, BeginCloseStep
             DEF CallSteps
    <3> QED BY <3>2, <3>3 DEF Left
  <2>4. CASE UNCHANGED raced /\ \E s \in Ids : Goroutines(s) \/ Prints(s) \/ Ends(s)
    <3>1. PICK s \in Ids : Goroutines(s) \/ Prints(s) \/ Ends(s)
          BY <2>4
    <3>2. up'
          BY <2>1, <3>1 DEF Goroutines, Prints, Ends, ReaderTop, ReaderTakes, ReaderWrites,
                            CopierReads, CopierWrites, Reap, Done
    <3>3. TermIInv'
          BY <1>2, <2>1, <2>4, <3>1, GoroutineStep, ReaderTakesStep DEF Goroutines
    <3> QED BY <3>2, <3>3 DEF Left
  <2>5. CASE UNCHANGED raced /\ Exit
    <3>1. TermIInv'
          BY <1>2, <2>1, <2>5, ExitStep
    <3>2. Left'
          BY <2>5 DEF Exit, Left, NotStarted
    <3> QED BY <3>1, <3>2
  <2> QED BY <1>2, <2>2, <2>3, <2>4, <2>5 DEF Next
<1> QED BY <1>1, <1>2

\* A session that was closed has ended, its emulator last; without a race between two starts
\* the limit bounds those that have not (Terminals.SessionsEnd).
THEOREM ClosedSessionsEnd == Spec => []SessionsEnd
<1>1. Init => TermIInv /\ Left
      BY TermStarts DEF Init, Left
<1>2. TermIInv /\ Left => SessionsEnd
  <2> SUFFICES ASSUME TermIInv, Left PROVE SessionsEnd
      OBVIOUS
  <2>1. TypeOK
    <3>1. ASSUME NEW s \in Ids
          PROVE  /\ ses[s].proc \in {"none", "up", "told", "shot", "dead"}
                 /\ ses[s].reader \in {"top", "read", "has", "gone"}
                 /\ ses[s].copier \in {"read", "text", "query", "reply", "gone"}
                 /\ ses[s].mu \in TermCallers \cup {"free", "copier"}
                 /\ ses[s].emu \in {"none", "open", "closed"}
                 /\ (ses[s].done => ~ses[s].pty)
                 /\ (ses[s].copier = "reply" <=> ses[s].mu = "copier")
          BY TermParts DEF Session, Fits
    <3>2. ASSUME NEW c \in TermCallers
          PROVE  /\ callAt[c].at \in {"idle", "spawn", "send", "keys", "text", "refused", "look",
                                  "resize", "resizing", "wait", "unmatched", "mark", "grace",
                                  "kill", "wake", "drain"}
                 /\ (callAt[c].at \notin {"idle", "spawn"} => callAt[c].s \in 1 .. next)
          BY TermParts DEF Place, TermSteps, CallsFit
    <3> QED BY <3>1, <3>2, TermParts DEF TypeOK, TermShape
  <2>2. ClosedAlone
        BY TermParts DEF ClosedAlone, Fits
  <2>3. CapHolds
    <3> SUFFICES ASSUME MaxSessions > 0, ~raced
                 PROVE  Cardinality({s \in 1 .. next : (s \in terms \/ ses[s].pty) /\ ~BeingClosed(s)})
                            <= MaxSessions
        BY DEF CapHolds
    <3> DEFINE Counted == {s \in 1 .. next : (s \in terms \/ ses[s].pty) /\ ~BeingClosed(s)}
    <3>1. Counted \subseteq terms
      <4>1. CASE up
            BY <4>1, TermParts DEF ClosedIsDead
      <4>2. CASE ~up
            BY <4>2, TermParts DEF Left
      <4> QED BY <4>1, <4>2, TermParts DEF TermShape
    <3> HIDE DEF Counted
    <3>2. Cardinality(Counted) <= Cardinality(terms) /\ Cardinality(Counted) \in Nat
          BY <3>1, IdleIs, FS_Subset, FS_CardinalityType
    <3>3. Cardinality(terms) <= MaxSessions
          BY TermParts DEF Roomy
    <3>4. Cardinality(Counted) <= MaxSessions
          BY <3>2, <3>3, IdleIs, TerminalAssumption
    <3> QED BY <3>4 DEF Counted
  <2> QED BY <2>1, <2>2, <2>3, TermParts DEF SessionsEnd
<1> QED BY <1>1, <1>2, TermKeeps, PTL DEF Spec
=============================================================================

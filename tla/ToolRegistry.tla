---------------------------- MODULE ToolRegistry ----------------------------
(***************************************************************************)
(* Registry.Execute and the file tools (tools/tools.go, llm/typed_*.go):   *)
(* the guard that a file be read in the turn before it is changed, the     *)
(* context of a call and its timeout.                                      *)
(*                                                                         *)
(* sendMessage empties filesRead and runs the turn's calls one at a time,  *)
(* but returns on cancellation without waiting for the call that runs: it  *)
(* may go on into the next turn.  Somebody else (an editor, a command of   *)
(* the bash tool) may change files at any time.  Contents are versions.    *)
(***************************************************************************)
EXTENDS Naturals, FiniteSets

CONSTANTS
    Files,      \* paths
    Callers,    \* calls that may run at the same time
    Turns,      \* bound: turns
    MaxVersion  \* bound: changes to files

ASSUME RegistryAssumption == Turns \in Nat /\ MaxVersion \in Nat \ {0}

Absent == 0
Idle == [at |-> "idle"]

VARIABLES
    current,   \* turns begun
    filesRead, \* Registry.filesRead
    file,      \* version of each file, or Absent
    version,   \* the last version written by anyone
    call,      \* each call: step, tool, file, turn, was the file new, what its WriteFile
               \* has done: nothing, cut the file, or written the whole of it
    ctx,       \* the context of each call: "live", "cancelled" or "expired"
    late,      \* history: files marked in this turn by a call of an earlier one
    readIn,    \* history: the turns whose own calls have read a file
    last       \* history: the last answer

registryVars == <<current, filesRead, file, version, call, ctx, late, readIn, last>>

NoLast == [what |-> "none", tool |-> "read", wrote |-> "no"]

Steps == {"enter", "read", "mark", "guard", "load", "put", "end", "failed"}
Running(c) == call[c].at # "idle"

RegistryTypeOK ==
    /\ current \in 0 .. Turns /\ version \in 0 .. MaxVersion
    /\ filesRead \subseteq Files
    /\ file \in [Files -> 0 .. version]
    /\ \A c \in Callers :
        \/ call[c] = Idle /\ ctx[c] = "live"
        \/ /\ call[c].at \in Steps /\ call[c].tool \in {"read", "write", "edit"}
           /\ call[c].f \in Files /\ call[c].turn \in 1 .. current /\ call[c].new \in BOOLEAN
           /\ call[c].turn < current => ctx[c] # "live"
    /\ ctx \in [Callers -> {"live", "cancelled", "expired"}]
    /\ \A f \in Files : readIn[f] \subseteq 1 .. current
    \* A turn has one live call at a time.
    /\ Cardinality({c \in Callers : Running(c) /\ call[c].turn = current}) <= 1

RegistryInit ==
    /\ current = 0 /\ filesRead = {} /\ version = 1
    /\ file \in [Files -> {Absent, 1}]
    /\ call = [c \in Callers |-> Idle]
    /\ ctx = [c \in Callers |-> "live"]
    /\ late = {}
    /\ readIn = [f \in Files |-> {}]
    /\ last = NoLast

-----------------------------------------------------------------------------
(* Turns *)

\* Fault: the set is kept from turn to turn.
FaultNewTurn ==
    /\ current < Turns
    /\ current' = current + 1
    /\ ctx' = [c \in Callers |-> IF Running(c) /\ ctx[c] = "live" THEN "cancelled" ELSE ctx[c]]
    /\ late' = {}
    /\ UNCHANGED <<filesRead, file, version, call, readIn, last>>

\* A call that still runs belongs to a turn that was cancelled.
NewTurn ==
    /\ current < Turns
    /\ current' = current + 1
    /\ filesRead' = {}
    /\ late' = {}
    /\ ctx' = [c \in Callers |-> IF Running(c) /\ ctx[c] = "live" THEN "cancelled" ELSE ctx[c]]
    /\ UNCHANGED <<file, version, call, readIn, last>>

\* Fault: nothing keeps a turn to one call.
FaultBegin(c) ==
    /\ current > 0 /\ call[c] = Idle
    /\ \E tool \in {"read", "write", "edit"}, f \in Files :
        call' = [call EXCEPT ![c] = [at |-> "enter", tool |-> tool, f |-> f, turn |-> current,
                                     new |-> FALSE, wrote |-> "no"]]
    /\ UNCHANGED <<current, filesRead, file, version, ctx, late, readIn, last>>

\* The model calls a tool; its tools run one at a time.
Begin(c) ==
    /\ current > 0 /\ call[c] = Idle
    /\ ~\E d \in Callers : Running(d) /\ call[d].turn = current
    /\ \E tool \in {"read", "write", "edit"}, f \in Files :
        call' = [call EXCEPT ![c] = [at |-> "enter", tool |-> tool, f |-> f, turn |-> current,
                                     new |-> FALSE, wrote |-> "no"]]
    /\ UNCHANGED <<current, filesRead, file, version, ctx, late, readIn, last>>

\* Esc, Ctrl+C, or the timeout of the call.
Stop(c) ==
    /\ Running(c) /\ ctx[c] = "live"
    /\ \E how \in {"cancelled", "expired"} : ctx' = [ctx EXCEPT ![c] = how]
    /\ UNCHANGED <<current, filesRead, file, version, call, late, readIn, last>>

\* Somebody else writes or creates a file.
Outside(f) ==
    /\ version < MaxVersion
    /\ version' = version + 1
    /\ file' = [file EXCEPT ![f] = version + 1]
    /\ UNCHANGED <<current, filesRead, call, ctx, late, readIn, last>>

-----------------------------------------------------------------------------
(* One call *)

Go(c, step) == call' = [call EXCEPT ![c].at = step]

\* A cancelled context ends the call before the tool runs.
Enter(c) ==
    /\ call[c].at = "enter"
    /\ Go(c, IF ctx[c] = "cancelled" THEN "failed"
             ELSE IF call[c].tool = "read" THEN "read" ELSE "guard")
    /\ UNCHANGED <<current, filesRead, file, version, ctx, late, readIn, last>>

\* execRead: the file, then the mark, then the range that was asked for.
Read(c) ==
    /\ call[c].at = "read"
    /\ Go(c, IF file[call[c].f] = Absent THEN "failed" ELSE "mark")
    /\ readIn' = [readIn EXCEPT ![call[c].f] =
                    IF file[call[c].f] = Absent THEN @ ELSE @ \cup {call[c].turn}]
    /\ UNCHANGED <<current, filesRead, file, version, ctx, late, last>>

Mark(c) ==
    /\ call[c].at = "mark"
    /\ filesRead' = filesRead \cup {call[c].f}
    /\ late' = IF call[c].turn < current THEN late \cup {call[c].f} ELSE late
    /\ \E inRange \in BOOLEAN : Go(c, IF inRange THEN "end" ELSE "failed")
    /\ UNCHANGED <<current, file, version, ctx, readIn, last>>

\* execWrite asks for the mark only of a file that exists now; execEdit always.
Guard(c) ==
    LET read == call[c].f \in filesRead
        new == call[c].tool = "write" /\ file[call[c].f] = Absent
    IN
    /\ call[c].at = "guard"
    /\ call' = [call EXCEPT ![c].at = IF ~read /\ ~new THEN "failed"
                                      ELSE IF call[c].tool = "edit" THEN "load" ELSE "put",
                            ![c].new = new]
    /\ UNCHANGED <<current, filesRead, file, version, ctx, late, readIn, last>>

\* Fault: the replacements before the one that does not fit are written.
FaultLoad(c) ==
    /\ call[c].at = "load" /\ version < MaxVersion
    /\ \E fits \in BOOLEAN, some \in BOOLEAN :
        /\ call' = [call EXCEPT ![c].wrote = IF some /\ file[call[c].f] # Absent /\ ~fits
                                             THEN "whole" ELSE "no",
                                ![c].at = IF file[call[c].f] # Absent /\ fits
                                          THEN "put" ELSE "failed"]
        /\ file' = [file EXCEPT ![call[c].f] = IF @ # Absent /\ some /\ ~fits
                                              THEN version + 1 ELSE @]
    /\ version' = version + 1
    /\ UNCHANGED <<current, filesRead, ctx, late, readIn, last>>

\* execEdit: every replacement is made on the text read here; one that does not fit ends
\* the call with nothing written.
Load(c) ==
    /\ call[c].at = "load"
    /\ \E fits \in BOOLEAN :
        Go(c, IF file[call[c].f] # Absent /\ fits THEN "put" ELSE "failed")
    /\ UNCHANGED <<current, filesRead, file, version, ctx, late, readIn, last>>

\* The outcomes of os.WriteFile, which truncates the file before it writes: it fails before
\* it has touched the file, or after, or it writes everything.
Outcomes == {"no", "cut", "whole"}

Writes(c, done) ==
    /\ done # "no" => version < MaxVersion
    /\ version' = IF done = "no" THEN version ELSE version + 1
    /\ file' = IF done = "no" THEN file ELSE [file EXCEPT ![call[c].f] = version + 1]

\* Fault: the error of WriteFile is dropped.
FaultPut(c) ==
    /\ call[c].at = "put"
    /\ \E done \in Outcomes :
        Writes(c, done) /\ call' = [call EXCEPT ![c].at = "end", ![c].wrote = done]
    /\ UNCHANGED <<current, filesRead, ctx, late, readIn, last>>

\* MkdirAll and os.WriteFile, whatever the context has become.
Put(c) ==
    /\ call[c].at = "put"
    /\ \E done \in Outcomes :
        /\ Writes(c, done)
        /\ call' = [call EXCEPT ![c].at = IF done = "whole" THEN "end" ELSE "failed",
                                ![c].wrote = done]
    /\ UNCHANGED <<current, filesRead, ctx, late, readIn, last>>

\* Execute: a result is replaced when the context has ended, an error when the deadline
\* passed; both then say that the tool exceeded its timeout.
Answer(c) ==
    /\ call[c].at \in {"end", "failed"}
    /\ LET timeout == \/ call[c].at = "end" /\ ctx[c] # "live"
                      \/ call[c].at = "failed" /\ ctx[c] = "expired"
       IN last' = [what |-> IF timeout THEN "timeout"
                            ELSE IF call[c].at = "end" THEN "result" ELSE "error",
                   tool |-> call[c].tool, wrote |-> call[c].wrote]
    /\ call' = [call EXCEPT ![c] = Idle]
    /\ ctx' = [ctx EXCEPT ![c] = "live"]
    /\ UNCHANGED <<current, filesRead, file, version, late, readIn>>

RegistryNext ==
    \/ NewTurn
    \/ \E f \in Files : Outside(f)
    \/ \E c \in Callers :
        \/ Begin(c) \/ Stop(c) \/ Enter(c) \/ Read(c) \/ Mark(c) \/ Guard(c) \/ Load(c)
        \/ Put(c) \/ Answer(c)

RegistrySpec == RegistryInit /\ [][RegistryNext]_registryVars

-----------------------------------------------------------------------------
(* Properties *)

\* A call changes a file that was there when it looked only if a call of its own turn has
\* read it: filesRead holds the paths "that were read in the current turn".  Two things
\* get around the guard: a call of a cancelled turn that marks its file in the next one's
\* set, and a file that appears after a write found none ("the guard only fires when the
\* file already exists").
ChangedWasRead ==
    \A c \in Callers :
        /\ call[c].at \in {"load", "put"} /\ call[c].turn = current
        /\ ~call[c].new /\ call[c].f \notin late
        => current \in readIn[call[c].f]

\* What a call answers is what it has done.  The result of a write or an edit means that all
\* of it is in the file.  An error of its own means that no write went through: an edit with
\* one replacement that does not fit leaves the others out too.  The file may have changed
\* all the same when the error is that of os.WriteFile, which has truncated it by then;
\* nothing puts the old text back.  (A call said to have exceeded its timeout may have done
\* anything: any ended context counts as one, and a write looks at its context only before
\* it begins.)
AnswersAreTrue ==
    /\ last.what = "result" /\ last.tool # "read" => last.wrote = "whole"
    /\ last.what = "error" => last.wrote # "whole"

\* No call changes a file behind the model's back: unread, or otherwise than it answers.
FilesGuarded == RegistryTypeOK /\ ChangedWasRead /\ AnswersAreTrue
=============================================================================

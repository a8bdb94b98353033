------------------------------ MODULE Checkpoint ------------------------------
(***************************************************************************)
(* The checkpoint of a session directory (session.go SaveCheckpoint): one  *)
(* file of a fixed name, written without a lock by every program at the    *)
(* end of its turn, from the agent's counters, and by the daemon's job     *)
(* session-checkpoint (daemon/jobs/checkpoint.go), from the session file,  *)
(* which the program asks for right after (ui/model.go).                   *)
(*                                                                         *)
(* A session is the numbers of user entries, of calls and of bootstrap     *)
(* entries of its file.  The checkpoint is a sequence of pieces: os.       *)
(* WriteFile truncates when it opens and writes from the start, so a       *)
(* writer that opened beside another may write over the beginning of it.   *)
(***************************************************************************)
EXTENDS Integers, Sequences, SequencesExt, FiniteSets

CONSTANTS
    Programs,    \* programs that share the directory; each begins with a session of its own
    BootEntries, \* user entries of a bootstrap
    MaxTurnsRun, \* bound: turns
    MaxUsed,     \* bound: calls of tools
    MaxExtras,   \* bound: user entries that are no turn's prompt
    MaxResets,   \* bound: sessions resumed and histories cleared
    MaxFailures  \* bound: failed appends and writes, programs and daemons killed

ASSUME CheckpointAssumption ==
    /\ {BootEntries, MaxTurnsRun, MaxUsed, MaxExtras, MaxResets, MaxFailures} \subseteq Nat
    /\ IsFiniteSet(Programs) /\ "daemon" \notin Programs

VARIABLES
    held,       \* program -> the session it holds
    counters,   \* program -> TurnCount and ToolCalls of its agent
    unsaved,    \* program -> the entries of the turn, not yet in the session
    step,       \* program -> where it stands; the daemon has its own in work
    logged,     \* session -> [users, used, boot] of its file
    asked,      \* commands that the daemon's lock is yet to be probed for
    jobs,       \* jobs in the mailbox
    work,       \* the daemon: [at, session, owed, data, mid]
    checkpoint, \* the pieces of the file
    last,       \* history: what was written last
    alone,      \* history: was it written by one who was alone at it, and whole?
    owed,       \* history: program -> user entries its session has after the turn
    ends,       \* history: session -> the counters at the ends of its turns
    plain,      \* history: the sessions of one program from the start, whose every entry is a
                \* turn's own and was saved
    turnsRun, used, extras, resets, failures

checkpointVars == <<held, counters, unsaved, step, logged, asked, jobs, work, checkpoint, last,
                    alone, owed, ends, plain, turnsRun, used, extras, resets, failures>>

Zero == [turns |-> 0, used |-> 0]
NoLog == [users |-> 0, used |-> 0, boot |-> 0]
NoWork == [at |-> "idle", session |-> 0, owed |-> 0, data |-> Zero, mid |-> FALSE]
Down == [NoWork EXCEPT !.at = "down"]

\* Who has the file open.
Opened == {p \in Programs : step[p] = "open"} \cup (IF work.at = "open" THEN {"daemon"} ELSE {})

Written(d, whole) == [data |-> d, whole |-> whole]
-----------------------------------------------------------------------------

CheckpointInit ==
    /\ held = [p \in Programs |-> p] /\ counters = [p \in Programs |-> Zero]
    /\ unsaved = counters /\ step = [p \in Programs |-> "idle"]
    /\ logged = [s \in Programs |-> NoLog] /\ asked = {} /\ jobs = {} /\ work = Down
    /\ checkpoint = <<>> /\ last = Zero /\ alone = FALSE
    /\ owed = [p \in Programs |-> 0] /\ ends = [s \in Programs |-> {}] /\ plain = Programs
    /\ turnsRun = 0 /\ used = 0 /\ extras = 0 /\ resets = 0 /\ failures = 0

fileVars == <<checkpoint, last, alone>>
daemonVars == <<jobs, work>>
bounds == <<turnsRun, used, extras, resets, failures>>

\* sendMessage
BeginTurn(p) ==
    /\ step[p] = "idle" /\ turnsRun < MaxTurnsRun /\ turnsRun' = turnsRun + 1
    /\ step' = [step EXCEPT ![p] = "turn"]
    /\ counters' = [counters EXCEPT ![p].turns = @ + 1]
    /\ unsaved' = [unsaved EXCEPT ![p].turns = @ + 1]
    /\ UNCHANGED <<held, logged, asked, daemonVars, fileVars, owed, ends, plain, used, extras,
                   resets, failures>>

\* A call is counted when it is announced; the step it is of may fail, and leave no message.
UseTool(p, kept) ==
    /\ step[p] = "turn" /\ used < MaxUsed /\ used' = used + 1
    /\ counters' = [counters EXCEPT ![p].used = @ + 1]
    /\ unsaved' = [unsaved EXCEPT ![p].used = IF kept THEN @ + 1 ELSE @]
    /\ plain' = IF kept THEN plain ELSE plain \ {held[p]}
    /\ UNCHANGED <<held, step, logged, asked, daemonVars, fileVars, owed, ends, turnsRun, extras,
                   resets, failures>>

\* A queued prompt that is drained into the turn, a note, memory of a context.
ExtraEntry(p) ==
    /\ step[p] \in {"idle", "turn"} /\ extras < MaxExtras /\ extras' = extras + 1
    /\ unsaved' = [unsaved EXCEPT ![p].turns = @ + 1]
    /\ plain' = plain \ {held[p]}
    /\ UNCHANGED <<held, counters, step, logged, asked, daemonVars, fileVars, owed, ends, turnsRun,
                   used, resets, failures>>

\* Reset by /restart, which keeps the session if it cannot make another, and RestoreMessages by
\* /resume and at the start; a session without messages of #main resets nothing.
ResetCounters(p, s) ==
    /\ step[p] = "idle" /\ resets < MaxResets /\ resets' = resets + 1
    /\ held' = [held EXCEPT ![p] = s] /\ plain' = plain \ {held[p], s}
    /\ counters' \in {[counters EXCEPT ![p] = Zero]} \cup (IF s = held[p] THEN {} ELSE {counters})
    /\ unsaved' = [unsaved EXCEPT ![p] = Zero]
    /\ UNCHANGED <<step, logged, asked, daemonVars, fileVars, owed, ends, turnsRun, used, extras,
                   failures>>

-----------------------------------------------------------------------------
(* agentDoneMsg *)

\* Fault: the turn's prompts are taken for saved, and stay behind until the next is.
FaultSavePrompts(p) ==
    /\ step[p] = "turn" /\ step' = [step EXCEPT ![p] = "saving"]
    /\ owed' = [owed EXCEPT ![p] = logged[held[p]].users + unsaved[p].turns]
    /\ UNCHANGED <<held, counters, unsaved, logged, asked, daemonVars, fileVars, ends, plain, bounds>>

\* The turn ends, and its entries go to the session, the first time with the bootstrap's; a
\* reader may come between a turn's prompt and its calls.
SavePrompts(p) ==
    /\ step[p] = "turn" /\ step' = [step EXCEPT ![p] = "saving"]
    /\ logged' = [logged EXCEPT ![held[p]] =
                    [users |-> @.users + unsaved[p].turns, used |-> @.used,
                     boot |-> IF @.boot = 0 THEN BootEntries ELSE @.boot]]
    /\ unsaved' = [unsaved EXCEPT ![p].turns = 0]
    /\ owed' = [owed EXCEPT ![p] = logged[held[p]].users + unsaved[p].turns]
    /\ UNCHANGED <<held, counters, asked, daemonVars, fileVars, ends, plain, bounds>>

SaveCalls(p) ==
    /\ step[p] = "saving" /\ step' = [step EXCEPT ![p] = "saved"]
    /\ logged' = [logged EXCEPT ![held[p]].used = @ + unsaved[p].used]
    /\ unsaved' = [unsaved EXCEPT ![p].used = 0]
    /\ ends' = [ends EXCEPT ![held[p]] = @ \cup {counters[p]}]
    /\ UNCHANGED <<held, counters, asked, daemonVars, fileVars, owed, plain, bounds>>

\* An append that fails is ignored, and its entries are not tried again.
SaveFails(p) ==
    /\ step[p] = "turn" /\ step' = [step EXCEPT ![p] = "saved"]
    /\ failures < MaxFailures /\ failures' = failures + 1
    /\ unsaved' = [unsaved EXCEPT ![p] = Zero]
    /\ owed' = [owed EXCEPT ![p] = logged[held[p]].users] /\ plain' = plain \ {held[p]}
    /\ UNCHANGED <<held, counters, logged, asked, daemonVars, fileVars, ends, turnsRun, used,
                   extras, resets>>

\* Fault: what was there is kept, and written over.
FaultOpenFile == alone' = (Opened = {}) /\ UNCHANGED <<checkpoint, last>>

\* os.WriteFile opens ...
OpenFile == checkpoint' = <<>> /\ alone' = (Opened = {}) /\ UNCHANGED last

\* ... and writes from the start of the file: what another has put there stands behind, if it
\* is longer.
Overlaid(d, whole) ==
    {<<Written(d, whole)>>}
    \cup {<<Written(d, whole), Written(checkpoint[i].data, FALSE)>>
             \o SubSeq(checkpoint, i + 1, Len(checkpoint)) : i \in DOMAIN checkpoint}

WriteOver(d) == checkpoint' \in Overlaid(d, TRUE) /\ last' = d /\ UNCHANGED alone

\* The disk is full, or the writer is killed: part of it, or none.
WriteCut(d) ==
    /\ failures < MaxFailures /\ failures' = failures + 1
    /\ checkpoint' \in {checkpoint} \cup Overlaid(d, FALSE)
    /\ alone' = FALSE /\ UNCHANGED last

OpenInline(p) ==
    /\ step[p] = "saved" /\ step' = [step EXCEPT ![p] = "open"] /\ OpenFile
    /\ UNCHANGED <<held, counters, unsaved, logged, asked, daemonVars, owed, ends, plain, bounds>>

\* submitDaemonCheckpointCmd: what it will ask for is settled now.
Submitted(p) == asked \cup {[session |-> held[p], owed |-> owed[p]]}

WriteInline(p) ==
    /\ step[p] = "open" /\ step' = [step EXCEPT ![p] = "idle"] /\ WriteOver(counters[p])
    /\ asked' = Submitted(p)
    /\ UNCHANGED <<held, counters, unsaved, logged, daemonVars, owed, ends, plain, bounds>>

\* The write fails, which is told, or the program is killed.
CutInline(p, dies) ==
    /\ step[p] = "open" /\ WriteCut(counters[p])
    /\ step' = [step EXCEPT ![p] = IF dies THEN "dead" ELSE "idle"]
    /\ asked' = IF dies THEN asked ELSE Submitted(p)
    /\ UNCHANGED <<held, counters, unsaved, logged, daemonVars, owed, ends, plain, turnsRun, used,
                   extras, resets>>

\* The command: a job if a daemon holds the lock.
Probe(c) ==
    /\ c \in asked /\ asked' = asked \ {c}
    /\ jobs' = IF work.at = "down" THEN jobs ELSE jobs \cup {c}
    /\ UNCHANGED <<held, counters, unsaved, step, logged, work, fileVars, owed, ends, plain, bounds>>

-----------------------------------------------------------------------------
(* handleSessionCheckpoint *)

programVars == <<held, counters, unsaved, step, logged, asked, owed, ends, plain, turnsRun, used,
                 extras, resets>>

DaemonUp == work.at = "down" /\ work' = NoWork /\ UNCHANGED <<jobs, fileVars, programVars, failures>>

\* Fault: what the bootstrap says for the user is counted too.
FaultCounted(log) == [turns |-> log.users + log.boot, used |-> log.used]

Counted(log) == [turns |-> log.users, used |-> log.used]

LoadSession(c) ==
    /\ c \in jobs /\ work.at = "idle" /\ jobs' = jobs \ {c}
    /\ work' = [at |-> "loaded", session |-> c.session, owed |-> c.owed,
                data |-> Counted(logged[c.session]),
                mid |-> \E p \in Programs : held[p] = c.session /\ step[p] = "saving"]
    /\ UNCHANGED <<fileVars, programVars, failures>>

\* Its 30 seconds pass, or the daemon is told to stop, before it writes.
JobGivesUp == work.at = "loaded" /\ work' = NoWork /\ UNCHANGED <<jobs, fileVars, programVars, failures>>

OpenByJob ==
    /\ work.at = "loaded" /\ work' = [work EXCEPT !.at = "open"] /\ OpenFile
    /\ UNCHANGED <<jobs, programVars, failures>>

WriteByJob ==
    /\ work.at = "open" /\ work' = NoWork /\ WriteOver(work.data)
    /\ UNCHANGED <<jobs, programVars, failures>>

\* A write that fails fails the job; a daemon that is killed fails, when it is started again,
\* all that it left.
CutByJob(dies) ==
    /\ work.at = "open" /\ WriteCut(work.data)
    /\ work' = (IF dies THEN Down ELSE NoWork) /\ jobs' = IF dies THEN {} ELSE jobs
    /\ UNCHANGED programVars

CheckpointNext ==
    \/ \E p \in Programs :
        \/ BeginTurn(p) \/ ExtraEntry(p) \/ SavePrompts(p) \/ SaveCalls(p) \/ SaveFails(p)
        \/ OpenInline(p) \/ WriteInline(p)
        \/ \E kept \in BOOLEAN : UseTool(p, kept)
        \/ \E s \in Programs : ResetCounters(p, s)
        \/ \E dies \in BOOLEAN : CutInline(p, dies)
    \/ \E c \in asked : Probe(c)
    \/ \E c \in jobs : LoadSession(c)
    \/ DaemonUp \/ JobGivesUp \/ OpenByJob \/ WriteByJob
    \/ \E dies \in BOOLEAN : CutByJob(dies)

CheckpointSpec == CheckpointInit /\ [][CheckpointNext]_checkpointVars

-----------------------------------------------------------------------------
(* Properties *)

\* No writer adds more than a piece to what the last that opened the file has left.
CheckpointTypeOK ==
    /\ held \in [Programs -> Programs] /\ plain \subseteq Programs
    /\ \A p \in Programs : step[p] \in {"idle", "turn", "saving", "saved", "open", "dead"}
    /\ work.at \in {"down", "idle", "loaded", "open"}
    /\ Len(checkpoint) + Cardinality(Opened) <= Cardinality(Programs) + 1
    /\ \A c \in asked \cup jobs : c.session \in Programs

\* Whatever happened to the file before, the next writer that is alone at it makes it whole:
\* exactly what it wrote.
WriteHeals == alone /\ Opened = {} => checkpoint = <<Written(last, TRUE)>>

\* A job has read the turn that asked for it, whole, and invents none.
JobSeesItsTurn ==
    work.at \in {"loaded", "open"} =>
        work.owed <= work.data.turns /\ work.data.turns <= logged[work.session].users

\* In a session whose every entry is a turn's own, the daemon counts what the program counted at
\* the end of one of its turns, unless it read in the middle of one being saved.
SameCounts ==
    work.at \in {"loaded", "open"} /\ ~work.mid /\ work.session \in plain =>
        work.data \in ends[work.session]

\* The checkpoint of a directory can be read, and says what a session came to.
CheckpointHolds == CheckpointTypeOK /\ WriteHeals /\ JobSeesItsTurn /\ SameCounts
=============================================================================

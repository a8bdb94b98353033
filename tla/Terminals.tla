----------------------------- MODULE Terminals ------------------------------
(***************************************************************************)
(* The persistent terminals of the tool registry (tools/terminal.go).      *)
(*                                                                         *)
(* A session is a child process on a pty, an emulator of the screen, and   *)
(* three goroutines: a copier (pty to emulator), a reader (the emulator's  *)
(* answers to the pty) and a waiter (reaps the process).  Tool calls reach *)
(* it through the manager's map; two run at once when a cancelled turn's   *)
(* call outlives the turn.                                                 *)
(*                                                                         *)
(* The emulator is the library charmbracelet/x/vt.  As the comments of     *)
(* terminal.go have it: SendText, and Write when the program asks the      *)
(* terminal something, put bytes on an internal pipe under a mutex of the  *)
(* emulator; Read blocks on that pipe; Close wakes nobody.  The pipe is an *)
(* io.Pipe, which keeps no bytes: a write returns when they are read.      *)
(* Delays, sizes and the text of the screen are left out.                  *)
(***************************************************************************)
EXTENDS Naturals, Sequences, FiniteSets

CONSTANTS
    TermCallers, \* tool calls that may run at the same time
    MaxSessions, \* the manager's limit, 0 when there is none
    MaxTerms,    \* bound: sessions ever started
    Outputs      \* what a program may print: "text" and "query"

ASSUME TerminalAssumption ==
    /\ MaxSessions \in Nat /\ MaxTerms \in Nat \ {0}
    /\ Outputs \subseteq {"text", "query"}
    /\ TermCallers \cap {"free", "copier"} = {}

VARIABLES
    raced, \* history: has a start read the map while another was between reading
           \* and registering?
    up,    \* has the program not exited?
    next,  \* the last number given to a session
    terms, \* the manager's map: sessions a call can find
    ses,   \* the state of each session
    callAt \* where each call is, in which session, and is its deadline over?

vars == <<raced, up, next, terms, ses, callAt>>

Ids == 1 .. MaxTerms
AtRest == [at |-> "idle", s |-> 0, due |-> FALSE]
At(step, s) == [at |-> step, s |-> s, due |-> FALSE]

NotStarted ==
    [proc |-> "none", pty |-> FALSE, done |-> FALSE, closing |-> FALSE, emu |-> "none",
     reader |-> "gone", copier |-> "gone", mu |-> "free",
     out |-> <<>>, said |-> {}, shown |-> FALSE]
Fresh == [NotStarted EXCEPT !.proc = "up", !.pty = TRUE, !.emu = "open",
                            !.reader = "top", !.copier = "read"]

TypeOK ==
    /\ raced \in BOOLEAN /\ up \in BOOLEAN /\ next \in 0 .. MaxTerms /\ terms \subseteq 1 .. next
    /\ \A s \in Ids :
        /\ ses[s].proc \in {"none", "up", "told", "shot", "dead"}
        /\ ses[s].reader \in {"top", "read", "has", "gone"}
        /\ ses[s].copier \in {"read", "text", "query", "reply", "gone"}
        /\ ses[s].mu \in TermCallers \cup {"free", "copier"}
        /\ ses[s].emu \in {"none", "open", "closed"}
        /\ ses[s].done => ~ses[s].pty
        /\ ses[s].copier = "reply" <=> ses[s].mu = "copier"
    /\ \A c \in TermCallers :
        /\ callAt[c].at \in {"idle", "spawn", "send", "keys", "text", "refused", "look", "resize",
                         "resizing", "wait", "unmatched", "mark", "grace", "kill", "wake", "drain"}
        /\ callAt[c].at \notin {"idle", "spawn"} => callAt[c].s \in 1 .. next

Init ==
    /\ raced = FALSE /\ up = TRUE /\ next = 0 /\ terms = {}
    /\ ses = [s \in Ids |-> NotStarted]
    /\ callAt = [c \in TermCallers |-> AtRest]

Alive(s) == ses[s].proc \in {"up", "told", "shot"}
\* emuMu: held by the copier while it is inside emu.Write.
EmuMuFree(s) == ses[s].copier \in {"read", "gone"}
Goes(c, step) == callAt' = [callAt EXCEPT ![c].at = step]
Return(c) == callAt' = [callAt EXCEPT ![c] = AtRest]

-----------------------------------------------------------------------------
(* terminal_start *)

\* Fault: the limit is off by one.
FaultStartCheck(c) ==
    /\ callAt[c] = AtRest
    /\ MaxSessions > 0 => Cardinality(terms) <= MaxSessions
    /\ Goes(c, "spawn")
    /\ raced' = (raced \/ \E d \in TermCallers : callAt[d].at = "spawn")
    /\ UNCHANGED <<up, next, terms, ses>>

\* The limit is read under the manager's lock, and the lock released.
StartCheck(c) ==
    /\ callAt[c] = AtRest
    /\ MaxSessions > 0 => Cardinality(terms) < MaxSessions
    /\ Goes(c, "spawn")
    /\ raced' = (raced \/ \E d \in TermCallers : callAt[d].at = "spawn")
    /\ UNCHANGED <<up, next, terms, ses>>

\* The session is registered only once its process runs; the call ends with a snapshot.
Spawn(c) ==
    /\ callAt[c].at = "spawn" /\ next < MaxTerms
    /\ next' = next + 1
    /\ terms' = terms \cup {next + 1}
    /\ ses' = [ses EXCEPT ![next + 1] = Fresh]
    /\ callAt' = [callAt EXCEPT ![c] = At("look", next + 1)]
    /\ UNCHANGED up

SpawnFails(c) ==
    /\ callAt[c].at = "spawn"
    /\ Return(c)
    /\ UNCHANGED <<up, next, terms, ses>>

-----------------------------------------------------------------------------
(* The emulator's pipe *)

\* w puts bytes on the pipe of s, and is held until they are read.
Puts(s, w) == ses[s].mu = "free" /\ ses' = [ses EXCEPT ![s].mu = w]

ReaderTop(s) ==
    /\ ses[s].reader = "top"
    /\ ses' = [ses EXCEPT ![s].reader = IF ses[s].closing THEN "gone" ELSE "read"]
    /\ UNCHANGED <<up, next, terms, callAt>>

\* Read returns what was put, and lets go of whoever was held.
AfterText(at) == IF at = "text" THEN "look" ELSE "drain"

\* Fault: Read lets go of a caller, never of the copier.
FaultReaderTakes(s) ==
    /\ ses[s].reader = "read" /\ ses[s].mu # "free"
    /\ ses' = [ses EXCEPT ![s].reader = "has", ![s].mu = "free"]
    /\ callAt' = [c \in TermCallers |-> IF ses[s].mu = c
                                       THEN [callAt[c] EXCEPT !.at = AfterText(@)] ELSE callAt[c]]
    /\ UNCHANGED <<up, next, terms>>

ReaderTakes(s) ==
    /\ ses[s].reader = "read" /\ ses[s].mu # "free"
    /\ ses' = [ses EXCEPT ![s].reader = "has", ![s].mu = "free",
                          ![s].copier = IF @ = "reply" THEN "read" ELSE @]
    /\ callAt' = [c \in TermCallers |-> IF ses[s].mu = c
                                       THEN [callAt[c] EXCEPT !.at = AfterText(@)] ELSE callAt[c]]
    /\ UNCHANGED <<up, next, terms>>

\* The bytes go to the pty unless the session is closing; the loop begins again.
ReaderWrites(s) ==
    /\ ses[s].reader = "has"
    /\ ses' = [ses EXCEPT ![s].reader = "top"]
    /\ UNCHANGED <<up, next, terms, callAt>>

-----------------------------------------------------------------------------
(* The process, its output, and the goroutine that waits for it *)

Prints(s) ==
    /\ ses[s].proc \in {"up", "told"}
    /\ \E k \in Outputs \ ses[s].said :
        ses' = [ses EXCEPT ![s].out = Append(@, k), ![s].said = @ \cup {k}]
    /\ UNCHANGED <<up, next, terms, callAt>>

\* A program ends by itself, on SIGTERM if it likes, and always on SIGKILL.
Ends(s) ==
    /\ Alive(s)
    /\ ses' = [ses EXCEPT ![s].proc = "dead"]
    /\ UNCHANGED <<up, next, terms, callAt>>

\* wait(): the pty is closed as soon as the process is reaped, whatever it still holds.
Reap(s) ==
    /\ ses[s].proc = "dead" /\ ses[s].pty
    /\ ses' = [ses EXCEPT ![s].pty = FALSE]
    /\ UNCHANGED <<up, next, terms, callAt>>

Done(s) ==
    /\ ses[s].proc = "dead" /\ ~ses[s].pty /\ ~ses[s].done
    /\ ses' = [ses EXCEPT ![s].done = TRUE]
    /\ UNCHANGED <<up, next, terms, callAt>>

\* pty.Read: some output and emuMu, or the error of a closed pty.
CopierReads(s) ==
    /\ ses[s].copier = "read"
    /\ \/ /\ ~ses[s].pty
          /\ ses' = [ses EXCEPT ![s].copier = "gone"]
       \/ /\ ses[s].pty /\ ses[s].out # <<>>
          /\ ses' = [ses EXCEPT ![s].copier = Head(ses[s].out), ![s].out = Tail(@)]
    /\ UNCHANGED <<up, next, terms, callAt>>

\* emu.Write: text reaches the screen; a question is answered on the pipe.
CopierWrites(s) ==
    /\ ses[s].mu = "free"
    /\ \/ /\ ses[s].copier = "text"
          /\ ses' = [ses EXCEPT ![s].copier = "read", ![s].shown = TRUE]
       \/ /\ ses[s].copier = "query"
          /\ ses' = [ses EXCEPT ![s].copier = "reply", ![s].mu = "copier"]
    /\ UNCHANGED <<up, next, terms, callAt>>

-----------------------------------------------------------------------------
(* The other tools: get, then the session without the manager's lock *)

Get(c) ==
    /\ callAt[c] = AtRest
    /\ \E s \in terms, op \in {"send", "keys", "look", "resize", "wait"} :
        callAt' = [callAt EXCEPT ![c] = At(op, s)]
    /\ UNCHANGED <<up, next, terms, ses>>

\* terminal_send and terminal_keys only look when the process has ended.
Send(c) ==
    /\ callAt[c].at = "send"
    /\ Goes(c, IF ses[callAt[c].s].done THEN "look" ELSE "text")
    /\ UNCHANGED <<up, next, terms, ses>>

\* terminal_keys: one name the table lacks, and the whole call is an error.
Keys(c) ==
    /\ callAt[c].at = "keys"
    /\ IF ses[callAt[c].s].done THEN Goes(c, "look")
       ELSE \E known \in BOOLEAN : Goes(c, IF known THEN "text" ELSE "refused")
    /\ UNCHANGED <<up, next, terms, ses>>

Refused(c) == callAt[c].at = "refused" /\ Return(c) /\ UNCHANGED <<up, next, terms, ses>>

\* SendText, of a call or of the close that wakes the reader.
SendText(c) ==
    /\ callAt[c].at \in {"text", "wake"}
    /\ Puts(callAt[c].s, c)
    /\ UNCHANGED <<up, next, terms, callAt>>

\* snapshot: the screen under emuMu.
Look(c) ==
    /\ callAt[c].at = "look" /\ EmuMuFree(callAt[c].s)
    /\ Return(c)
    /\ UNCHANGED <<up, next, terms, ses>>

\* pty.Resize fails on a closed pty; emu.Resize takes no lock of the session.
Resize(c) ==
    /\ \/ callAt[c].at = "resize" /\ (IF ses[callAt[c].s].pty THEN Goes(c, "resizing") ELSE Return(c))
       \/ callAt[c].at = "resizing" /\ Goes(c, "look")
    /\ UNCHANGED <<up, next, terms, ses>>

\* One round of terminal_wait: the screen, the process, the deadline, in this order.
WaitLooks(c) ==
    /\ callAt[c].at = "wait" /\ EmuMuFree(callAt[c].s)
    /\ IF ses[callAt[c].s].shown THEN Return(c) ELSE Goes(c, "unmatched")
    /\ UNCHANGED <<up, next, terms, ses>>

WaitGoesOn(c) ==
    /\ callAt[c].at = "unmatched"
    /\ IF ses[callAt[c].s].done \/ callAt[c].due THEN Return(c) ELSE Goes(c, "wait")
    /\ UNCHANGED <<up, next, terms, ses>>

\* The timeout passes, or the call's context is cancelled.
Deadline(c) ==
    /\ callAt[c].at \in {"wait", "unmatched"} /\ ~callAt[c].due
    /\ callAt' = [callAt EXCEPT ![c].due = TRUE]
    /\ UNCHANGED <<up, next, terms, ses>>

-----------------------------------------------------------------------------
(* terminal_close *)

Close(c) ==
    /\ callAt[c] = AtRest
    /\ \E s \in terms :
        /\ terms' = terms \ {s}
        /\ callAt' = [callAt EXCEPT ![c] = At("mark", s)]
    /\ UNCHANGED <<up, next, ses>>

\* The reader is told to stop, then a running process gets SIGTERM.
CloseMark(c) ==
    LET s == callAt[c].s IN
    /\ callAt[c].at = "mark"
    /\ ses' = [ses EXCEPT ![s].closing = TRUE, ![s].proc = IF @ = "up" THEN "told" ELSE @]
    /\ Goes(c, IF ses[s].done THEN "kill" ELSE "grace")
    /\ UNCHANGED <<up, next, terms>>

\* The process ends within the grace time, or the time is over.
CloseGrace(c) ==
    /\ callAt[c].at = "grace"
    /\ Goes(c, "kill")
    /\ UNCHANGED <<up, next, terms, ses>>

\* Fault: close() does not wake the reader.
FaultCloseKill(c) ==
    /\ callAt[c].at = "kill"
    /\ ses' = [ses EXCEPT ![callAt[c].s].proc = IF Alive(callAt[c].s) THEN "shot" ELSE @]
    /\ Goes(c, "drain")
    /\ UNCHANGED <<up, next, terms>>

CloseKill(c) ==
    /\ callAt[c].at = "kill"
    /\ ses' = [ses EXCEPT ![callAt[c].s].proc = IF Alive(callAt[c].s) THEN "shot" ELSE @]
    /\ Goes(c, "wake")
    /\ UNCHANGED <<up, next, terms>>

\* Fault: close() does not wait for the copying goroutines.
FaultCloseDrain(c) ==
    /\ callAt[c].at = "drain" /\ ses[callAt[c].s].done
    /\ ses' = [ses EXCEPT ![callAt[c].s].emu = "closed"]
    /\ Return(c)
    /\ UNCHANGED <<up, next, terms>>

\* Fault: close() does not wait for the waiter.
FaultCloseEarly(c) ==
    /\ callAt[c].at = "drain" /\ ses[callAt[c].s].reader = "gone" /\ ses[callAt[c].s].copier = "gone"
    /\ ses' = [ses EXCEPT ![callAt[c].s].emu = "closed"]
    /\ Return(c)
    /\ UNCHANGED <<up, next, terms>>

\* done and both copying goroutines, then emu.Close.
CloseDrain(c) ==
    LET s == callAt[c].s IN
    /\ callAt[c].at = "drain"
    /\ ses[s].done /\ ses[s].reader = "gone" /\ ses[s].copier = "gone"
    /\ ses' = [ses EXCEPT ![s].emu = "closed"]
    /\ Return(c)
    /\ UNCHANGED <<up, next, terms>>

-----------------------------------------------------------------------------

\* The program exits, and takes its calls and goroutines with it.  CloseAll has no caller:
\* a child gets the kernel's hangup and may outlive the program.
Exit ==
    /\ up' = FALSE
    /\ terms' = {}
    /\ callAt' = [c \in TermCallers |-> AtRest]
    /\ ses' = [s \in Ids |-> NotStarted]
    /\ UNCHANGED next

CallSteps(c) ==
    \/ Spawn(c) \/ SpawnFails(c) \/ Send(c) \/ Keys(c) \/ Refused(c) \/ SendText(c) \/ Look(c)
    \/ Resize(c) \/ WaitLooks(c) \/ WaitGoesOn(c)
    \/ CloseMark(c) \/ CloseGrace(c) \/ CloseKill(c) \/ CloseDrain(c)

Goroutines(s) ==
    \/ ReaderTop(s) \/ ReaderTakes(s) \/ ReaderWrites(s)
    \/ CopierReads(s) \/ CopierWrites(s) \/ Reap(s) \/ Done(s)

Starting == \E c \in TermCallers : StartCheck(c)

Next ==
    /\ up
    /\ \/ Starting
       \/ /\ UNCHANGED raced
          /\ \/ \E c \in TermCallers : CallSteps(c) \/ Get(c) \/ Close(c) \/ Deadline(c)
             \/ \E s \in Ids : Goroutines(s) \/ Prints(s) \/ Ends(s)
             \/ Exit

Spec == Init /\ [][Next]_vars

Runs(A) == up /\ A /\ UNCHANGED raced

\* Goroutines run, deadlines pass, and SIGKILL ends a process.  Nothing makes a program
\* end by itself or answer SIGTERM.  Who waits for the emulator's mutex gets it in the end
\* when it is free again and again: a Go mutex hands itself to a waiter that starves.
Fairness ==
    /\ \A c \in TermCallers :
        WF_vars(Runs(CallSteps(c))) /\ SF_vars(Runs(SendText(c))) /\ WF_vars(Runs(Deadline(c)))
    /\ \A s \in Ids :
        /\ WF_vars(Runs(ReaderTop(s) \/ ReaderTakes(s) \/ ReaderWrites(s)))
        /\ WF_vars(Runs(CopierReads(s))) /\ SF_vars(Runs(CopierWrites(s)))
        /\ WF_vars(Runs(Reap(s) \/ Done(s)))
        /\ WF_vars(Runs(ses[s].proc = "shot" /\ Ends(s)))

LiveSpec == Spec /\ Fairness

-----------------------------------------------------------------------------
(* Properties *)

\* The emulator is closed only after both goroutines that use it have ended: close() waits
\* on copyWg before emu.Close (the race the closing flag is there for).
ClosedAlone ==
    \A s \in Ids : ses[s].emu = "closed" => ses[s].reader = "gone" /\ ses[s].copier = "gone"

Closing == {"mark", "grace", "kill", "wake", "drain"}
BeingClosed(s) == \E c \in TermCallers : callAt[c].s = s /\ callAt[c].at \in Closing

\* terminal_close has returned: the process is reaped, the pty closed, the waiter finished.
ClosedIsDead ==
    up => \A s \in 1 .. next :
        s \in terms \/ BeingClosed(s)
        \/ (ses[s].proc = "dead" /\ ~ses[s].pty /\ ses[s].done)

\* MaxSessions bounds the sessions that have a pty or a place in the map, but for those
\* being closed at the moment ("so a runaway terminal_start loop can't exhaust file
\* descriptors"), as long as no start reads the map while another is on its way to register.
CapHolds ==
    MaxSessions > 0 /\ ~raced =>
        Cardinality({s \in 1 .. next : (s \in terms \/ ses[s].pty) /\ ~BeingClosed(s)})
            <= MaxSessions

\* Bytes on the pipe of a session whose reader has left, as it does when it sees closing
\* before it reads again: whoever put them there is held for good.
LeftOnPipe(s) == s \in Ids /\ ses[s].reader = "gone" /\ ses[s].mu # "free"

\* Every terminal tool returns, terminal_close among them, unless the program exits or bytes
\* are left on the pipe of its session: nothing else keeps a call waiting for ever, neither
\* emuMu, nor the grace time, nor a program that ignores SIGTERM, nor an answer of the
\* emulator that nobody has read yet.
CallsReturn ==
    \A c \in TermCallers :
        callAt[c].at # "idle" ~> (callAt[c].at = "idle" \/ ~up \/ LeftOnPipe(callAt[c].s))

\* terminal_close returns ("sends a wake byte via SendText to unblock our pending emu.Read,
\* then waits for us to exit before calling emu.Close").  The code does not keep this: a
\* reader that was not in emu.Read leaves on its own, and the wake byte is left on the pipe.
CloseReturns ==
    \A c \in TermCallers : callAt[c].at \in Closing ~> (callAt[c].at = "idle" \/ ~up)

\* A session that was closed has ended, its emulator last, and those that have not stay
\* within the limit.
SessionsEnd == TypeOK /\ ClosedAlone /\ ClosedIsDead /\ CapHolds
=============================================================================

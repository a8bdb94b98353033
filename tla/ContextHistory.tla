--------------------------- MODULE ContextHistory ---------------------------
(***************************************************************************)
(* The per-context conversations of bitchtea and their logs on disk.       *)
(*                                                                         *)
(* The agent keeps one message history per IRC context (a channel or a     *)
(* query), of which one is current (agent/context_switch.go, agent.go).    *)
(* The UI moves the focus, freezes a context for each turn, and at the end *)
(* of the turn appends what is new of that history to the session log      *)
(* (ui/model.go).  /join, /part, /query, /invite, /kick, /compact,         *)
(* /restart, /resume and /fork, interrupts and a relaunch of the program   *)
(* interleave with the turns' goroutines, which outlive an interrupt.      *)
(*                                                                         *)
(* TurnEngine has the channels and events of a turn; here a goroutine is   *)
(* reduced to the steps at which it touches a history.                     *)
(***************************************************************************)
EXTENDS Naturals, Sequences, FiniteSets

CONSTANTS
    Main,        \* agent.DefaultContextKey, "#main"
    Others,      \* the other contexts
    StartFocus,  \* what the focus file may name at the first start
    HotCtx,      \* the contexts whose scope has a non-empty HOT.md
    Boots,       \* bootstrap messages after the system prompt: 0 under --bare
    Keep,        \* messages /compact keeps at the end (4 in the code)
    MaxTurns,    \* bound: turns started
    MaxNotes,    \* bound: /invite and /kick notes, and summaries
    MaxSessions, \* bound: session logs
    MaxLaunches  \* bound: relaunches of the program

ASSUME ContextAssumption ==
    /\ Main \notin Others
    /\ StartFocus \subseteq Others \cup {Main}
    /\ HotCtx \subseteq Others \cup {Main}
    /\ Boots \subseteq Nat
    /\ Keep \in Nat
    /\ MaxTurns \in Nat /\ MaxNotes \in Nat /\ MaxLaunches \in Nat
    /\ MaxSessions \in Nat \ {0}

Ctx == Others \cup {Main}
Turn == 1 .. MaxTurns
NoTurn == 0

VARIABLES
    ag,        \* the Agent's conversation state, see AgentState
    focus,     \* m.focus.Active(), also what .bitchtea_focus.json holds
    turn,      \* the turn whose channel is m.eventCh; m.streaming when not NoTurn
    turnCtx,   \* m.turnContext
    phase,     \* how far the goroutine of each turn is
    turns,     \* turns started so far
    logs,      \* the session files, oldest first
    sess,      \* m.session: the log the UI appends to
    notes,     \* notes and summaries made so far
    launches,  \* relaunches so far
  (* history variables *)
    home,      \* the context each turn was started in
    cancelled, \* turns whose context was cancelled or whose process is gone
    answered,  \* turns whose reply was appended to a history
    finished,  \* turns whose end the UI has acted on
    noted,     \* the notes made by /invite and /kick
    met        \* which exceptions of the properties have happened

vars == <<ag, focus, turn, turnCtx, phase, turns, logs, sess, notes, launches,
          home, cancelled, answered, finished, noted, met>>

-----------------------------------------------------------------------------
(* Messages.  The user/assistant exchange of a memory or a note is one     *)
(* message; a turn has its prompt ("user") and, in one, all it answered.    *)

Kind == {"sys", "boot", "hot", "user", "reply", "note", "sum"}
Message == [kind : Kind, ctx : Ctx, n : Nat]
Msg(k, c, i) == [kind |-> k, ctx |-> c, n |-> i]
Entry == [msg : Message, label : Ctx, boot : BOOLEAN]

Sys == Msg("sys", Main, 0)
Hot(c) == Msg("hot", c, 0)
Bootstrap(b) == [i \in 1 .. b + 1 |-> IF i = 1 THEN Sys ELSE Msg("boot", Main, i)]
Items(s) == {s[i] : i \in DOMAIN s}
Prefix(s, n) == SubSeq(s, 1, IF n < Len(s) THEN n ELSE Len(s))
Spoken == {"user", "reply", "note", "sum"}

(* The fields of Agent: messages, contextMsgs (<<>> for a missing key),    *)
(* currentContext, contextSavedIdx, bootstrapMsgCount, injectedPaths,      *)
(* scope, and the length of the bootstrap its configuration yields.        *)
AgentState ==
    [msgs : Seq(Message), of : [Ctx -> Seq(Message)], cur : Ctx,
     saved : [Ctx -> Nat], boot : Nat, injected : SUBSET Ctx, scope : Ctx, base : Nat]

Phase == {"none", "born", "run", "ending", "over", "rejected"}

TypeOK ==
    /\ ag \in AgentState
    /\ focus \in Ctx /\ turnCtx \in Ctx
    /\ turn \in Turn \cup {NoTurn}
    /\ phase \in [Turn -> Phase]
    /\ home \in [Turn -> Ctx]
    /\ turns \in 0 .. MaxTurns
    /\ logs \in Seq(Seq(Entry))
    /\ sess \in DOMAIN logs
    /\ notes \in Nat /\ launches \in Nat
    /\ cancelled \subseteq Turn /\ answered \subseteq Turn /\ finished \subseteq Turn
    /\ noted \subseteq Message
    /\ met \subseteq {"elsewhere", "bare", "note", "race", "compact", "resume"}

-----------------------------------------------------------------------------
(* The Agent's methods, as functions of its state.                         *)

\* NewAgentWithStreamer and Reset: only the default context exists.
NewAgent(b, scope) ==
    [msgs |-> Bootstrap(b), of |-> [c \in Ctx |-> IF c = Main THEN Bootstrap(b) ELSE <<>>],
     cur |-> Main, saved |-> [c \in Ctx |-> 0], boot |-> b + 1,
     injected |-> {}, scope |-> scope, base |-> b]

\* Fault: a new context starts with the whole current history.
FaultInitContext(a, c) ==
    IF a.of[c] # <<>> THEN a
    ELSE [a EXCEPT !.of[c] = a.msgs, !.saved[c] = 0]

\* A new context starts with the bootstrap prefix of the current one.  (Go
\* reads up to the slice's capacity and panics beyond; here the prefix ends.)
InitContext(a, c) ==
    IF a.of[c] # <<>> THEN a
    ELSE [a EXCEPT !.of[c] = Prefix(a.msgs, a.boot), !.saved[c] = 0]

\* Fault: the context that is left is not kept.
FaultSetContext(a, c) == [a EXCEPT !.cur = c, !.msgs = a.of[c]]

\* Every caller calls InitContext first, so the key is never missing here.
SetContext(a, c) ==
    IF c = a.cur THEN a
    ELSE [a EXCEPT !.of[a.cur] = a.msgs, !.cur = c, !.msgs = a.of[c]]

\* Fault: injectedPaths is not asked.
FaultSetScope(a, c) ==
    IF c \in HotCtx
    THEN [a EXCEPT !.scope = c, !.injected = @ \cup {c}, !.msgs = Append(@, Hot(c))]
    ELSE [a EXCEPT !.scope = c]

\* The memory of scope c goes into the current history, once per process, and
\* not into contextMsgs.
SetScope(a, c) ==
    IF c \in HotCtx \ a.injected
    THEN [a EXCEPT !.scope = c, !.injected = @ \cup {c}, !.msgs = Append(@, Hot(c))]
    ELSE [a EXCEPT !.scope = c]

\* Fault: the scope is set before the context is switched.
FaultEnter(a, c) == SetContext(InitContext(SetScope(a, c), c), c)

\* startAgentTurn and syncAgentContextIfIdle.
Enter(a, c) == SetScope(SetContext(InitContext(a, c), c), c)

\* Fault: a.messages keeps its old header.
FaultInjectNote(a, c, m) ==
    LET b == InitContext(a, c) IN [b EXCEPT !.of[c] = Append(@, m)]

\* InitContext and InjectNoteInContext, as /invite and /kick call them.
InjectNote(a, c, m) ==
    LET b == InitContext(a, c)
        h == Append(b.of[c], m)
    IN [b EXCEPT !.of[c] = h, !.msgs = IF c = b.cur THEN h ELSE @]

\* appendMessagesLocked.
AppendMessage(a, m) ==
    [a EXCEPT !.msgs = Append(@, m), !.of[a.cur] = Append(a.msgs, m)]

CanCompact(a) == Len(a.msgs) >= Keep + 2 /\ a.boot <= Len(a.msgs) - Keep

\* Fault: the bootstrap is summarised too.
FaultNoBootstrap(a, m) ==
    LET h == <<m>> \o SubSeq(a.msgs, Len(a.msgs) - Keep + 1, Len(a.msgs))
    IN [a EXCEPT !.msgs = h, !.of[a.cur] = h, !.saved[a.cur] = Len(h)]

\* Compact: the bootstrap, a summary, and the last Keep messages.
Compacted(a, m) ==
    LET h == Prefix(a.msgs, a.boot) \o <<m>>
                 \o SubSeq(a.msgs, Len(a.msgs) - Keep + 1, Len(a.msgs))
    IN [a EXCEPT !.msgs = h, !.of[a.cur] = h, !.saved[a.cur] = Len(h)]

\* Restored messages begin with the system prompt, replaced or put in front.
Forced(h) == IF h # <<>> /\ Head(h).kind = "sys" THEN h ELSE <<Sys>> \o h
HotIn(h) == {m.ctx : m \in {x \in Items(h) : x.kind = "hot"}}

RestoreMessages(a, h) ==
    [a EXCEPT !.msgs = Forced(h), !.of[a.cur] = Forced(h), !.boot = 1, !.injected = HotIn(h)]

\* The messages a log holds for context c, in the order of the log
\* (FantasyFromEntries of one group).
Logged(log, c) ==
    LET P == {i \in DOMAIN log : log[i].label = c}
        Nth(k) == CHOOSE i \in P : Cardinality({j \in P : j <= i}) = k
    IN [k \in 1 .. Cardinality(P) |-> log[Nth(k)].msg]

\* Fault: the group of the default context only.
FaultGrouped(log) == {log[i].label : i \in DOMAIN log} \cap {Main}

Grouped(log) == {log[i].label : i \in DOMAIN log}

\* Fault: only the default context gets its watermark.
FaultResumed(a, log) ==
    LET m == IF Main \in Grouped(log)
             THEN [RestoreMessages(a, Logged(log, Main)) EXCEPT
                       !.saved[Main] = Len(Logged(log, Main))]
             ELSE a
        R == Grouped(log) \ {Main}
    IN [m EXCEPT
          !.of = [c \in Ctx |-> IF c \in R THEN Forced(Logged(log, c)) ELSE m.of[c]],
          !.injected = @ \cup UNION {HotIn(Logged(log, c)) : c \in R}]

\* ResumeSession: the main group by RestoreMessages, into whatever context is
\* current; each other group by RestoreContextMessages; then the watermarks.
Resumed(a, log) ==
    LET m == IF Main \in Grouped(log)
             THEN [RestoreMessages(a, Logged(log, Main)) EXCEPT
                       !.saved[Main] = Len(Logged(log, Main))]
             ELSE a
        R == Grouped(log) \ {Main}
    IN [m EXCEPT
          !.of = [c \in Ctx |-> IF c \in R THEN Forced(Logged(log, c)) ELSE m.of[c]],
          !.saved = [c \in Ctx |-> IF c \in R THEN Len(Logged(log, c)) ELSE m.saved[c]],
          !.injected = @ \cup UNION {HotIn(Logged(log, c)) : c \in R}]

\* Faults: stamped with the focus; the last message is left out.
FaultLabel(a, c) ==
    [i \in 1 .. Len(a.msgs) - a.saved[c] |->
       [msg |-> a.msgs[a.saved[c] + i], label |-> focus, boot |-> FALSE]]
FaultLastLost(a, c) ==
    [i \in 1 .. Len(a.msgs) - a.saved[c] - 1 |->
       [msg |-> a.msgs[a.saved[c] + i], label |-> c, boot |-> FALSE]]

\* What the end of a turn in context c adds to the log.
NewEntries(a, c) ==
    LET k == a.saved[c] IN
    IF Len(a.msgs) <= k THEN <<>>
    ELSE [i \in 1 .. Len(a.msgs) - k |->
            [msg |-> a.msgs[k + i], label |-> c, boot |-> k + i <= a.boot]]

-----------------------------------------------------------------------------
Init ==
    \E b \in Boots, f \in StartFocus :
      /\ ag = SetScope(NewAgent(b, f), f)
      /\ focus = f
      /\ turn = NoTurn
      /\ turnCtx = Main
      /\ phase = [t \in Turn |-> "none"]
      /\ turns = 0
      /\ logs = <<<<>>>>
      /\ sess = 1
      /\ notes = 0
      /\ launches = 0
      /\ home = [t \in Turn |-> Main]
      /\ cancelled = {}
      /\ answered = {}
      /\ finished = {}
      /\ noted = {}
      /\ met = IF f = Main THEN {} ELSE {"elsewhere"}

(* The turns' goroutines. *)

\* sendMessage loses the compare-and-swap: nothing is appended.
Reject(t) ==
    /\ phase[t] = "born"
    /\ \E u \in Turn : phase[u] \in {"run", "ending"}
    /\ phase' = [phase EXCEPT ![t] = "rejected"]
    /\ UNCHANGED <<ag, focus, turn, turnCtx, turns, logs, sess, notes, launches,
                   home, cancelled, answered, finished, noted, met>>

\* sendMessage appends the prompt to the current history.
Begin(t) ==
    /\ phase[t] = "born"
    /\ \A u \in Turn : phase[u] \notin {"run", "ending"}
    /\ phase' = [phase EXCEPT ![t] = "run"]
    /\ ag' = AppendMessage(ag, Msg("user", home[t], t))
    /\ UNCHANGED <<focus, turn, turnCtx, turns, logs, sess, notes, launches,
                   home, cancelled, answered, finished, noted, met>>

\* The stream is done: its messages are appended, then "done" is sent.  A
\* cancelled turn may still get here: select picks among what is ready.
Reply(t) ==
    /\ phase[t] = "run"
    /\ phase' = [phase EXCEPT ![t] = "ending"]
    /\ ag' = AppendMessage(ag, Msg("reply", home[t], t))
    /\ answered' = answered \cup {t}
    /\ UNCHANGED <<focus, turn, turnCtx, turns, logs, sess, notes, launches,
                   home, cancelled, finished, noted, met>>

\* An error, or the cancelled context, ends the turn with nothing appended.
Fail(t) ==
    /\ phase[t] = "run"
    /\ phase' = [phase EXCEPT ![t] = "ending"]
    /\ UNCHANGED <<ag, focus, turn, turnCtx, turns, logs, sess, notes, launches,
                   home, cancelled, answered, finished, noted, met>>

\* turnActive is released, after "done" was sent.
Release(t) ==
    /\ phase[t] = "ending"
    /\ phase' = [phase EXCEPT ![t] = "over"]
    /\ UNCHANGED <<ag, focus, turn, turnCtx, turns, logs, sess, notes, launches,
                   home, cancelled, answered, finished, noted, met>>

-----------------------------------------------------------------------------
(* The event loop. *)

\* startAgentTurn in the focused context, from agent state a.  The turn that
\* m.cancel still names is over when the UI gets here.
StartIn(a) ==
    /\ turns < MaxTurns
    /\ turns' = turns + 1
    /\ turn' = turns'
    /\ turnCtx' = focus
    /\ ag' = Enter(a, focus)
    /\ phase' = [phase EXCEPT ![turns'] = "born"]
    /\ home' = [home EXCEPT ![turns'] = focus]

\* Enter with a prompt while idle.
Send ==
    /\ turn = NoTurn
    /\ StartIn(ag)
    /\ UNCHANGED <<focus, logs, sess, notes, launches, cancelled, answered, finished, noted, met>>

\* Fault: the watermark of #main moves, whatever the turn's context.
FaultSaved(a, c) == [a EXCEPT !.saved[Main] = Len(a.msgs)]

\* The persistence half of agentDoneMsg: the context's watermark.
Saved(a, c) == [a EXCEPT !.saved[c] = Len(a.msgs)]

\* agentDoneMsg of the current channel: log what is new under the turn's
\* context, then start the queued batch or a follow-up, if there is one, in the
\* context focused now.
Done ==
    /\ turn # NoTurn
    /\ phase[turn] \in {"ending", "over", "rejected"}
    /\ logs' = [logs EXCEPT ![sess] = @ \o NewEntries(ag, turnCtx)]
    /\ finished' = finished \cup {turn}
    /\ \/ StartIn(Saved(ag, turnCtx))
       \/ /\ ag' = Saved(ag, turnCtx)
          /\ turn' = NoTurn
          /\ UNCHANGED <<turnCtx, phase, turns, home>>
    /\ UNCHANGED <<focus, sess, notes, launches, cancelled, answered, noted, met>>

\* cancelActiveTurn: the goroutine goes on, the UI forgets the turn.
Cancel ==
    /\ turn # NoTurn
    /\ turn' = NoTurn
    /\ cancelled' = cancelled \cup {turn}
    /\ UNCHANGED <<ag, focus, turnCtx, phase, turns, logs, sess, notes, launches,
                   home, answered, finished, noted, met>>

\* Fault: the agent follows the focus in the middle of a turn.
FaultFocus(c) ==
    /\ focus' = c
    /\ ag' = Enter(ag, c)
    /\ UNCHANGED <<turn, turnCtx, phase, turns, logs, sess, notes, launches,
                   home, cancelled, answered, finished, noted, met>>

\* /join, /query, and /part of the focused context: the focus moves at once,
\* the agent only while no turn is streaming (syncAgentContextIfIdle).
Focus(c) ==
    /\ focus' = c
    /\ ag' = IF turn = NoTurn THEN Enter(ag, c) ELSE ag
    /\ UNCHANGED <<turn, turnCtx, phase, turns, logs, sess, notes, launches,
                   home, cancelled, answered, finished, noted, met>>

\* /invite and /kick: a note for channel c, whatever the agent is doing.
Note(c) ==
    /\ notes < MaxNotes
    /\ notes' = notes + 1
    /\ ag' = InjectNote(ag, c, Msg("note", c, notes'))
    /\ noted' = noted \cup {Msg("note", c, notes')}
    /\ met' = met \cup (IF c = ag.cur /\ ag.of[c] # ag.msgs THEN {"note"} ELSE {})
    /\ UNCHANGED <<focus, turn, turnCtx, phase, turns, logs, sess, launches,
                   home, cancelled, answered, finished>>

\* The same for the current context, racing with the reply of the turn that
\* runs in it: InjectNoteInContext holds no lock, and either append is lost.
RacingNote(t) ==
    /\ notes < MaxNotes
    /\ phase[t] = "run"
    /\ notes' = notes + 1
    /\ phase' = [phase EXCEPT ![t] = "ending"]
    /\ answered' = answered \cup {t}
    /\ noted' = noted \cup {Msg("note", ag.cur, notes')}
    /\ met' = met \cup {"race"}
    /\ \E m \in {Msg("note", ag.cur, notes'), Msg("reply", home[t], t)} :
          ag' = AppendMessage(ag, m)
    /\ UNCHANGED <<focus, turn, turnCtx, turns, logs, sess, launches,
                   home, cancelled, finished>>

\* /compact of the current context, refused while a turn is streaming.
Compact ==
    /\ turn = NoTurn
    /\ notes < MaxNotes
    /\ CanCompact(ag)
    /\ notes' = notes + 1
    /\ ag' = Compacted(ag, Msg("sum", ag.cur, notes'))
    /\ met' = met \cup {"compact"}
    /\ UNCHANGED <<focus, turn, turnCtx, phase, turns, logs, sess, launches,
                   home, cancelled, answered, finished, noted>>

\* session.New: no file is made before the first entry is appended.
NewSession ==
    IF logs[Len(logs)] = <<>>
    THEN logs' = logs /\ sess' = Len(logs)
    ELSE /\ Len(logs) < MaxSessions
         /\ logs' = Append(logs, <<>>)
         /\ sess' = Len(logs')

\* Fault: the cancel function is called without the nil check.
FaultInterrupted == cancelled \cup {turn}

Interrupted == cancelled \cup ({turn} \ {NoTurn})

\* /restart: cancel, Reset, a fresh log; focus and scope stay.
Restart ==
    /\ launches < MaxLaunches
    /\ launches' = launches + 1
    /\ cancelled' = Interrupted
    /\ turn' = NoTurn
    /\ ag' = NewAgent(ag.base, ag.scope)
    /\ NewSession
    /\ UNCHANGED <<focus, turnCtx, phase, turns, notes, home, answered, finished, noted, met>>

\* /resume of a listed session, inside the running program.
Resume(s) ==
    /\ launches < MaxLaunches
    /\ launches' = launches + 1
    /\ logs[s] # <<>>
    /\ cancelled' = Interrupted
    /\ turn' = NoTurn
    /\ ag' = Resumed(ag, logs[s])
    /\ sess' = s
    /\ met' = met \cup {"resume"}
    /\ UNCHANGED <<focus, turnCtx, phase, turns, logs, notes, home, answered, finished, noted>>

\* /fork: the log so far continues in a new file.
Fork ==
    /\ logs[sess] # <<>>
    /\ Len(logs) < MaxSessions
    /\ logs' = Append(logs, logs[sess])
    /\ sess' = Len(logs')
    /\ UNCHANGED <<ag, focus, turn, turnCtx, phase, turns, notes, launches,
                   home, cancelled, answered, finished, noted, met>>

\* The process ends, at any point, and the program is started again, with or
\* without --bare, with --resume or a new session.
Relaunch ==
    /\ launches < MaxLaunches
    /\ launches' = launches + 1
    /\ turn' = NoTurn
    /\ turnCtx' = Main
    /\ cancelled' = cancelled \cup {t \in Turn : phase[t] \in {"born", "run", "ending"}}
    /\ phase' = [t \in Turn |-> IF phase[t] = "none" THEN "none" ELSE "over"]
    /\ \E b \in Boots :
         LET a == SetScope(NewAgent(b, focus), focus) IN
         /\ met' = met \cup (IF focus = Main THEN {} ELSE {"elsewhere"})
                       \cup (IF b = ag.base THEN {} ELSE {"bare"})
         /\ \/ ag' = a /\ NewSession
            \/ \E s \in DOMAIN logs :
                  /\ logs[s] # <<>>
                  /\ ag' = Resumed(a, logs[s])
                  /\ sess' = s
                  /\ UNCHANGED logs
    /\ UNCHANGED <<focus, turns, notes, home, answered, finished, noted>>

Goroutine(t) == Reject(t) \/ Begin(t) \/ Reply(t) \/ Fail(t) \/ Release(t)

Next ==
    \/ \E t \in Turn : Goroutine(t) \/ RacingNote(t)
    \/ Send \/ Done \/ Cancel
    \/ \E c \in Ctx : Focus(c) \/ Note(c)
    \/ Compact \/ Restart \/ Fork \/ Relaunch
    \/ \E s \in DOMAIN logs : Resume(s)

Spec == Init /\ [][Next]_vars

-----------------------------------------------------------------------------
(* What the component promises. *)

History(c) == IF c = ag.cur THEN ag.msgs ELSE ag.of[c]
Exists(c) == ag.of[c] # <<>>
Foreign(m, c) == m.kind \in Spoken /\ m.ctx # c
LateAppend(m) == m.kind \in {"user", "reply"} /\ m.n \in cancelled

(* What the code does not keep them through, each recorded in met:         *)
(*   elsewhere  the program starts with a focus other than #main: the      *)
(*              memory of that context goes into #main's history, and is   *)
(*              marked as injected (NewModel calls SetScope before any     *)
(*              SetContext);                                               *)
(*   bare       a session of a --bare run is resumed without it, or the    *)
(*              other way: bootstrapMsgCount is that of other histories;   *)
(*   note       /invite or /kick rebuilds a.messages from contextMsgs      *)
(*              without memory that /join has just put into it;            *)
(*   race       the same without a lock, while a reply is appended;        *)
(*   compact    /compact drops memory and notes, and moves the watermark   *)
(*              past what was never logged: when that is the bootstrap, a  *)
(*              relaunch resumes a history without it, and the next new    *)
(*              context is given what was said there;                      *)
(*   resume     /resume in a running program restores #main into whatever  *)
(*              context is current, forgets which memory the others hold,  *)
(*              and keeps their histories and watermarks next to the log.  *)
Unless(things) == met \cap things = {}

\* /compact sets the watermark past a bootstrap that no turn has logged yet.
BootIsLogged == launches = 0 \/ Unless({"compact"})

\* While a turn streams, the agent stays in the turn's context and scope,
\* whatever the user joins, parts, invites or queries meanwhile ("The active
\* turn owns the agent's current message slice and tool scope", model.go:984).
TurnOwnsContext == turn # NoTurn => ag.cur = turnCtx /\ ag.scope = turnCtx

\* Nothing said in one context is in the history of another, except what a
\* turn appends after it was interrupted.  With a bootstrap that /compact kept from the log,
\* InitContext copies as many messages of the resumed history as the bootstrap would have.
HistoriesApart ==
    Unless({"bare", "resume"}) /\ BootIsLogged =>
        \A c \in Ctx : Exists(c) =>
            \A m \in Items(History(c)) : Foreign(m, c) => LateAppend(m)

\* The label of a log entry is the context its message was said in, with the
\* same exception: agentDoneMsg stamps the frozen m.turnContext.
LabelsTrue ==
    Unless({"bare", "resume"}) /\ BootIsLogged =>
        \A s \in DOMAIN logs : \A e \in Items(logs[s]) :
            Foreign(e.msg, e.label) => LateAppend(e.msg)

\* No message is logged twice: the watermark of every context moves past what
\* was saved, across context switches, forks, restarts and relaunches.
LogOnce ==
    Unless({"resume"}) /\ BootIsLogged =>
        \A s \in DOMAIN logs : \A i, j \in DOMAIN logs[s] :
            i < j /\ logs[s][i].label = logs[s][j].label => logs[s][i].msg # logs[s][j].msg

\* When the UI has acted on the end of a turn, what the turn said is in a log.
FinishedIsLogged ==
    Unless({"race", "resume"}) =>
        \A t \in finished \cap answered :
            \E s \in DOMAIN logs :
                {Msg("user", home[t], t), Msg("reply", home[t], t)}
                    \subseteq {e.msg : e \in Items(logs[s])}

\* For each context, the current log is the history up to the watermark: what
\* a later --resume restores is what the agent remembers now, in its order.
LogMirrors ==
    Unless({"note", "race", "compact", "resume"}) =>
        \A c \in Ctx : Exists(c) =>
            /\ ag.saved[c] <= Len(History(c))
            /\ Logged(logs[sess], c) = SubSeq(History(c), 1, ag.saved[c])

\* Every history begins with exactly the bootstrap messages the agent counts,
\* so that a new context inherits no conversation (InitContext).
BootIsBootstrap ==
    Unless({"bare", "resume"}) /\ BootIsLogged =>
        \A c \in Ctx : Exists(c) =>
            /\ ag.boot <= Len(History(c))
            /\ SubSeq(History(c), 1, ag.boot) = Bootstrap(ag.boot - 1)

\* A context's memory goes into no history twice (injectedPaths, rebuilt by
\* RestoreMessages from the restored slice).  Of a log that /compact kept from beginning with
\* the system prompt, the watermark of a relaunch leaves the last message to be logged again,
\* and that may be memory.
HotOnce ==
    Unless({"resume"}) /\ BootIsLogged =>
        \A c \in Ctx : \A i, j \in DOMAIN History(c) :
            i < j /\ History(c)[i].kind = "hot" => History(c)[i] # History(c)[j]

\* A turn that streams has its context's memory in its history.  (After a change of --bare the
\* prefix given to a new context may hold the memory of another, which counts as injected when
\* only that copy was logged.)
TurnSeesMemory ==
    Unless({"elsewhere", "bare", "note", "race", "compact", "resume"}) =>
        (turn # NoTurn /\ turnCtx \in HotCtx => Hot(turnCtx) \in Items(ag.msgs))

\* Memory that is marked as injected is in a history.
InjectedIsThere ==
    Unless({"note", "race", "compact", "resume"}) =>
        \A c \in ag.injected \cap HotCtx :
            \E d \in Ctx : Hot(c) \in Items(History(d))

\* Resume restores each group of the log into its context: what is logged is in
\* the history its label names.
ResumedWhereSaid ==
    Unless({"compact", "resume"}) =>
        \A e \in Items(logs[sess]) :
            e.msg.kind \in Spoken => e.msg \in Items(History(e.label))

\* The notes of /invite and /kick persist: a note is in the log or in the
\* history from which the next turn logs it.
NotePersists ==
    launches = 0 /\ Unless({"race", "compact"}) =>
        \A m \in noted :
            \/ m \in Items(History(m.ctx))
            \/ \E s \in DOMAIN logs : m \in {e.msg : e \in Items(logs[s])}

\* Contexts keep to themselves: in their histories, in the labels of the log, and in what
\* a new context begins with.
Isolation == TypeOK /\ HistoriesApart /\ LabelsTrue /\ BootIsBootstrap

\* What is said, by a turn or as a note, is logged, once, and the log and the histories say
\* the same, before and after a resume.
LogIsTrue ==
    /\ LogOnce /\ FinishedIsLogged /\ NotePersists
    /\ LogMirrors /\ ResumedWhereSaid

\* The memory of a context is in its history, once, whenever a turn runs there.
MemoryInPlace == HotOnce /\ TurnSeesMemory /\ InjectedIsThere
=============================================================================

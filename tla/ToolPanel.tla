----------------------------- MODULE ToolPanel ------------------------------
(***************************************************************************)
(* The panel of tool calls (ui/toolpanel.go) and what feeds it: the        *)
(* tool_start and tool_result events of the turn that the window listens   *)
(* to (ui/model.go).  A row is found by its tool's name alone.             *)
(*                                                                         *)
(* A call is a number, in the order of the rows; a result has the number   *)
(* of the call that it belongs to.                                         *)
(***************************************************************************)
EXTENDS Naturals, Sequences, FiniteSets, SequencesExt

CONSTANTS
    PanelTools, \* names of tools
    MaxRows,  \* bound: calls
    MaxTasks   \* bound: turns

ASSUME PanelAssumption == MaxRows \in Nat /\ MaxTasks \in Nat

NoResult == 0

VARIABLES
    rows,      \* p.Tools: [name, status, result]
    stats,     \* p.Stats
    task,      \* the turns so far; the last is the one that the window shows
    busy,      \* the window listens to it
    turnOf,    \* history: the turn of each call
    answered,  \* history: calls whose result has arrived
    crossed    \* history: calls whose result came while a later one of that name ran

panelVars == <<rows, stats, task, busy, turnOf, answered, crossed>>

Calls == DOMAIN rows
Running == {c \in Calls : rows[c].status = "running"}
Named(c, n) == rows[c].name = n
Pending(c) == turnOf[c] = task /\ c \notin answered

PanelTypeOK ==
    /\ Len(rows) <= MaxRows /\ Len(turnOf) = Len(rows)
    /\ \A c \in Calls : rows[c].status \in {"running", "done", "error"} /\ rows[c].name \in PanelTools
    /\ stats \in [PanelTools -> Nat] /\ busy \in BOOLEAN

PanelInit ==
    /\ rows = <<>> /\ stats = [n \in PanelTools |-> 0] /\ task = 0 /\ busy = FALSE
    /\ turnOf = <<>> /\ answered = {} /\ crossed = {}

-----------------------------------------------------------------------------
StartTask ==
    /\ ~busy /\ task < MaxTasks
    /\ busy' = TRUE /\ task' = task + 1
    /\ UNCHANGED <<rows, stats, turnOf, answered, crossed>>

\* Interrupted, at any time, or over, when the calls have their results: events that come
\* later are dropped.  The panel is not told.
EndTask ==
    /\ busy
    /\ busy' = FALSE
    /\ UNCHANGED <<rows, stats, task, turnOf, answered, crossed>>

\* StartTool
StartTool(name) ==
    /\ busy /\ Len(rows) < MaxRows
    /\ rows' = Append(rows, [name |-> name, status |-> "running", result |-> NoResult])
    /\ stats' = [stats EXCEPT ![name] = @ + 1]
    /\ turnOf' = Append(turnOf, task)
    /\ UNCHANGED <<task, busy, answered, crossed>>

\* Faults: the first running row of the name; every running row of it.
FaultFirst(name) ==
    LET found == {c \in Running : Named(c, name)}
    IN  {c \in found : \A d \in found : c <= d}
FaultAll(name) == {c \in Running : Named(c, name)}

\* FinishTool looks for the last running row of the name.
Finished(name) ==
    LET found == {c \in Running : Named(c, name)}
    IN  {c \in found : \A d \in found : d <= c}

\* FinishTool, when a result of a call arrives, without an error or with one.
FinishTool(call, status) ==
    /\ busy /\ Pending(call)
    /\ LET name == rows[call].name
           later == {d \in Calls : d > call /\ Named(d, name) /\ Pending(d)}
       IN  /\ rows' = [c \in Calls |-> IF c \in Finished(name)
                                       THEN [rows[c] EXCEPT !.status = status, !.result = call]
                                       ELSE rows[c]]
           /\ crossed' = IF later = {} THEN crossed ELSE crossed \cup {call} \cup later
    /\ answered' = answered \cup {call}
    /\ UNCHANGED <<stats, task, busy, turnOf>>

PanelNext ==
    \/ StartTask \/ EndTask
    \/ \E name \in PanelTools : StartTool(name)
    \/ \E call \in Calls, status \in {"done", "error"} : FinishTool(call, status)

PanelSpec == PanelInit /\ [][PanelNext]_panelVars

-----------------------------------------------------------------------------
(* Properties *)

\* A row has the result of its own call, and that alone, unless calls of one tool went on
\* together and came back in another order than the opposite of their start's.
OwnResult ==
    \A c \in Calls : rows[c].result \notin {NoResult, c} => c \in crossed

\* No result is shown twice, none that came is lost, and a row that runs on is one whose
\* call has no result: after a turn's interruption it runs for ever, and takes none of the
\* results of later turns.
RowsAddUp ==
    /\ \A c, d \in Calls : c # d /\ rows[c].result # NoResult => rows[c].result # rows[d].result
    /\ {rows[c].result : c \in Calls \ Running} = answered
    /\ \A c \in Calls : rows[c].result # NoResult => turnOf[rows[c].result] = turnOf[c]
    /\ \A n \in PanelTools : stats[n] = Cardinality({c \in Calls : Named(c, n)})

\* The panel's rows are the calls, each with what came of it.
PanelIsTrue == PanelTypeOK /\ OwnResult /\ RowsAddUp
=============================================================================

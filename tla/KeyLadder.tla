----------------------------- MODULE KeyLadder -----------------------------
(***************************************************************************)
(* What Esc, Ctrl+C and the signals do in the chat window: the two ladders *)
(* of ui/model.go (handleEscKey, handleCtrlCKey), the panels and the       *)
(* picker that come before them, and the queue of prompts they clear.      *)
(*                                                                         *)
(* Time is measured in ticks of half a second.  The model keeps how long   *)
(* ago a key was pressed, never the time of day, and stops counting one    *)
(* tick above the longest span anybody compares with.  m.cancel is set     *)
(* exactly while m.streaming is (UIInv in TurnEngineProofs), so            *)
(* `streaming' stands for both.                                            *)
(***************************************************************************)
EXTENDS Integers

CONSTANTS
    EscWindow,    \* escGraduationWindow
    CtrlCWindow,  \* ctrlCGraduationWindow
    MaxQueue      \* bound: queued prompts

ASSUME LadderAssumption ==
    /\ EscWindow \in Nat \ {0}
    /\ CtrlCWindow \in Nat \ {0}
    /\ MaxQueue \in Nat \ {0}

Unset == -1     \* the zero time

VARIABLES
    streaming,    \* m.streaming and m.cancel # nil
    tool,         \* m.activeToolName # ""
    queued,       \* len(m.queued)
    armed,        \* m.queueClearArmed
    escStage, escSince,      \* m.escStage; time since m.escLast, or Unset
    ctrlCStage, ctrlCSince,  \* m.ctrlCStage; time since m.ctrlCLast, or Unset
    panels,       \* the visible ones of the tool and the MP3 panel
    picker,       \* m.picker # nil
    quit,         \* tea.Quit was returned
  (* history variables *)
    last,         \* the input handled last
    escGap,       \* time since the last Esc that reached the ladder
    escWarned,    \* this turn was answered "Press Esc again to cancel the turn"
    escCut,       \* Esc cancelled the turn with prompts queued, nothing was sent since
    ctrlCGap,     \* time since the last Ctrl+C that reached the ladder
    presses       \* Ctrl+C presses in a row, no two further apart than the window

ladderVars == <<escStage, escSince, ctrlCStage, ctrlCSince>>
screenVars == <<panels, picker>>
ghostVars == <<last, escGap, escWarned, escCut, ctrlCGap, presses>>
keyVars == <<streaming, tool, queued, armed, ladderVars, screenVars, quit, ghostVars>>

Since(window) == {Unset} \cup 0 .. window + 1
Input == {"start", "tick", "enter", "up", "esc", "ctrl+c", "signal", "quit", "picker", "turn"}

LadderTypeOK ==
    /\ streaming \in BOOLEAN /\ tool \in BOOLEAN /\ armed \in BOOLEAN
    /\ queued \in 0 .. MaxQueue
    /\ escStage \in 0 .. 1 /\ ctrlCStage \in 0 .. 3
    /\ escSince \in Since(EscWindow) /\ escGap \in Since(EscWindow)
    /\ ctrlCSince \in Since(CtrlCWindow) /\ ctrlCGap \in Since(CtrlCWindow)
    /\ panels \subseteq {"tool", "mp3"} /\ picker \in BOOLEAN
    /\ quit \in BOOLEAN /\ last \in Input /\ escWarned \in BOOLEAN /\ escCut \in BOOLEAN
    /\ presses \in 0 .. 3

KeyInit ==
    /\ streaming = FALSE /\ tool = FALSE /\ queued = 0 /\ armed = FALSE
    /\ escStage = 0 /\ escSince = Unset
    /\ ctrlCStage = 0 /\ ctrlCSince = Unset
    /\ panels = {} /\ picker = FALSE /\ quit = FALSE
    /\ last = "start" /\ escGap = Unset
    /\ escWarned = FALSE /\ escCut = FALSE
    /\ ctrlCGap = Unset /\ presses = 0

-----------------------------------------------------------------------------
(* Time *)

Older(since, window) == IF since \in {Unset, window + 1} THEN since ELSE since + 1

Tick ==
    /\ escSince' = Older(escSince, EscWindow)
    /\ escGap' = Older(escGap, EscWindow)
    /\ ctrlCSince' = Older(ctrlCSince, CtrlCWindow)
    /\ ctrlCGap' = Older(ctrlCGap, CtrlCWindow)
    /\ last' = "tick"
    /\ UNCHANGED <<streaming, tool, queued, armed, escStage, ctrlCStage, screenVars,
                   quit, escWarned, escCut, presses>>

-----------------------------------------------------------------------------
(* The turn, as far as the ladders see it *)

LaddersDown ==
    /\ escStage' = 0 /\ escSince' = Unset
    /\ ctrlCStage' = 0 /\ ctrlCSince' = Unset
    /\ escWarned' = FALSE /\ escCut' = FALSE /\ presses' = 0

\* Fault: the armed flag survives the start of a turn.
FaultStartTurn ==
    /\ streaming' = TRUE /\ tool' = FALSE /\ UNCHANGED armed
    /\ LaddersDown

\* startAgentTurn takes both ladders down and disarms.
StartTurn ==
    /\ streaming' = TRUE /\ tool' = FALSE /\ armed' = FALSE
    /\ LaddersDown

\* tool_start and tool_result or error events of the running turn.
ToolEvent ==
    /\ streaming
    /\ tool' = ~tool
    /\ last' = "turn"
    /\ UNCHANGED <<streaming, queued, armed, ladderVars, screenVars, quit,
                   escGap, escWarned, escCut, ctrlCGap, presses>>

\* agentDoneMsg: the queue goes out as one batch, or a follow-up starts, or the
\* window is idle with both ladders down.  The flag `armed' is not touched then.
Done ==
    /\ streaming
    /\ last' = "turn"
    /\ \/ queued # 0 /\ queued' = 0 /\ StartTurn
       \/ queued = 0 /\ StartTurn /\ UNCHANGED queued
       \/ /\ queued = 0
          /\ streaming' = FALSE /\ tool' = FALSE
          /\ LaddersDown
          /\ UNCHANGED <<queued, armed>>
    /\ UNCHANGED <<screenVars, quit, escGap, ctrlCGap>>

\* Fault: the Esc stage is left where the press has brought it.
FaultCancelTurn(clearQueue, arm) ==
    /\ streaming' = FALSE /\ tool' = FALSE
    /\ escStage' = escStage + 1 /\ escSince' = Unset
    /\ queued' = (IF clearQueue THEN 0 ELSE queued)
    /\ armed' = arm
    /\ escWarned' = FALSE /\ escCut' = (last' = "esc" /\ queued # 0)

\* cancelActiveTurn: takes the Esc ladder down and leaves Ctrl+C's standing.
CancelTurn(clearQueue, arm) ==
    /\ streaming' = FALSE /\ tool' = FALSE
    /\ escStage' = 0 /\ escSince' = Unset
    /\ queued' = (IF clearQueue THEN 0 ELSE queued)
    /\ armed' = arm
    /\ escWarned' = FALSE /\ escCut' = (last' = "esc" /\ queued # 0)

-----------------------------------------------------------------------------
(* Keys that are not ladders *)

\* Enter with a prompt: queued while busy, sent while idle.
Enter ==
    /\ ~picker
    /\ last' = "enter"
    /\ IF streaming
       THEN /\ queued < MaxQueue
            /\ queued' = queued + 1
            /\ armed' = FALSE
            /\ UNCHANGED <<streaming, tool, ladderVars, escWarned, escCut, presses>>
       ELSE StartTurn /\ UNCHANGED queued
    /\ UNCHANGED <<screenVars, quit, escGap, ctrlCGap>>

\* Up takes the newest queued prompt back into the textarea.
Up ==
    /\ ~picker
    /\ queued # 0
    /\ queued' = queued - 1
    /\ last' = "up"
    /\ UNCHANGED <<streaming, tool, armed, ladderVars, screenVars, quit,
                   escGap, escWarned, escCut, ctrlCGap, presses>>

\* Ctrl+T, /mp3, /models; and a key while the picker is open, which closes it
\* and goes no further.
Screen ==
    /\ \/ \E p \in {"tool", "mp3"} :
             /\ ~picker
             /\ panels' = (panels \ {p}) \cup ({p} \ panels)
             /\ UNCHANGED picker
       \/ picker' = ~picker /\ UNCHANGED panels
    /\ last' = "picker"
    /\ UNCHANGED <<streaming, tool, queued, armed, ladderVars, quit,
                   escGap, escWarned, escCut, ctrlCGap, presses>>

-----------------------------------------------------------------------------
(* handleCtrlCKey *)

\* Fault: the window is not looked at.
FaultStageKept == ctrlCStage + 1

\* The stage of a press: the ladder starts again when the window has passed.
CtrlCStage == IF ctrlCSince = CtrlCWindow + 1 THEN 1 ELSE ctrlCStage + 1

\* Presses in a row as the user counts them, from one turn boundary to the next.
Presses ==
    IF presses = 0 \/ ctrlCGap = CtrlCWindow + 1 THEN 1
    ELSE IF presses < 3 THEN presses + 1 ELSE 3

CtrlCInterrupts == CtrlCStage = 1 /\ streaming /\ CancelTurn(FALSE, armed) /\ UNCHANGED quit

CtrlCAsks ==
    /\ CtrlCStage = 1 /\ ~streaming
    /\ UNCHANGED <<streaming, tool, queued, armed, escStage, escSince, quit, escWarned, escCut>>

CtrlCClearsQueue ==
    /\ CtrlCStage = 2
    /\ queued' = 0
    /\ armed' = (armed /\ queued = 0)
    /\ UNCHANGED <<streaming, tool, escStage, escSince, quit, escWarned, escCut>>

CtrlCQuits ==
    /\ CtrlCStage >= 3
    /\ quit' = TRUE
    /\ IF streaming
       THEN CancelTurn(TRUE, FALSE)
       ELSE /\ queued' = 0
            /\ armed' = (armed /\ queued = 0)
            /\ UNCHANGED <<streaming, tool, escStage, escSince, escWarned, escCut>>

CtrlC ==
    /\ ~picker
    /\ last' = "ctrl+c"
    /\ ctrlCStage' = CtrlCStage /\ ctrlCSince' = 0
    /\ ctrlCGap' = 0 /\ presses' = Presses
    /\ CtrlCInterrupts \/ CtrlCAsks \/ CtrlCClearsQueue \/ CtrlCQuits
    /\ UNCHANGED <<screenVars, escGap>>

-----------------------------------------------------------------------------
(* handleEscKey *)

\* Fault: the window is not looked at.
FaultNoWindow == FALSE

\* The window has passed since m.escLast: stage and arm start again.
EscExpired == escSince = EscWindow + 1

\* The same, for the user who looks at the clock.
EscLapsed == escGap = EscWindow + 1

\* Fault: the queue is cleared whether or not the last press armed it.
FaultEscArmed == queued # 0

EscArmed == armed /\ ~EscExpired /\ queued # 0

\* A visible panel is closed first.  The press starts the window again.
EscClosesPanel ==
    /\ panels # {}
    /\ panels' = IF "tool" \in panels THEN panels \ {"tool"} ELSE {}
    /\ escStage' = (IF EscExpired THEN 0 ELSE escStage) /\ escSince' = 0
    /\ armed' = (armed /\ ~EscExpired)
    /\ escWarned' = (escWarned /\ ~EscLapsed)
    /\ UNCHANGED <<streaming, tool, queued, escCut>>

EscClearsQueue ==
    /\ panels = {}
    /\ EscArmed
    /\ queued' = 0 /\ armed' = FALSE
    /\ escStage' = 0 /\ escSince' = 0
    /\ UNCHANGED <<streaming, tool, panels, escWarned, escCut>>

EscIdle ==
    /\ panels = {}
    /\ ~EscArmed /\ ~streaming
    /\ escStage' = 0 /\ escSince' = 0 /\ armed' = FALSE /\ escCut' = FALSE
    /\ UNCHANGED <<streaming, tool, queued, panels, escWarned>>

\* Stage 1: cancel the active tool, or say that the next press cancels the turn.
EscFirst ==
    /\ panels = {}
    /\ ~EscArmed /\ streaming
    /\ escStage = 0 \/ EscExpired
    /\ escStage' = (IF tool THEN 0 ELSE 1) /\ escSince' = 0
    /\ armed' = (armed /\ ~EscExpired)
    /\ escWarned' = ~tool
    /\ UNCHANGED <<streaming, tool, queued, panels, escCut>>

\* Stage 2: cancel the turn, and arm the next press if prompts are queued.
EscSecond ==
    /\ panels = {}
    /\ ~EscArmed /\ streaming
    /\ escStage = 1 /\ ~EscExpired
    /\ CancelTurn(FALSE, armed \/ queued # 0)
    /\ UNCHANGED panels

Esc ==
    /\ ~picker
    /\ last' = "esc"
    /\ escGap' = 0
    /\ EscClosesPanel \/ EscClearsQueue \/ EscIdle \/ EscFirst \/ EscSecond
    /\ UNCHANGED <<ctrlCStage, ctrlCSince, picker, quit, ctrlCGap, presses>>

-----------------------------------------------------------------------------
(* SIGINT and SIGTERM, and the end of the program *)

Signal ==
    /\ last' = "signal"
    /\ IF streaming
       THEN CancelTurn(TRUE, FALSE) /\ UNCHANGED quit
       ELSE /\ quit' = TRUE
            /\ UNCHANGED <<streaming, tool, queued, armed, escStage, escSince, escWarned, escCut>>
    /\ UNCHANGED <<ctrlCStage, ctrlCSince, screenVars, escGap, ctrlCGap, presses>>

QuitMsg ==
    /\ last' = "quit"
    /\ quit' = TRUE
    /\ streaming' = FALSE
    /\ queued' = 0
    /\ UNCHANGED <<tool, armed, ladderVars, screenVars, escGap, escWarned, escCut,
                   ctrlCGap, presses>>

-----------------------------------------------------------------------------
KeyNext ==
    /\ ~quit
    /\ Tick \/ ToolEvent \/ Done \/ Enter \/ Up \/ Screen \/ CtrlC \/ Esc \/ Signal \/ QuitMsg

KeySpec == KeyInit /\ [][KeyNext]_keyVars

-----------------------------------------------------------------------------
(* Safety *)

\* A press of Esc while the agent works can cancel a tool or the turn and never
\* clears the queue: it is armed only while the window is idle.
ArmedOnlyIdle == armed => ~streaming

-----------------------------------------------------------------------------
(* Action properties *)

\* Ctrl+C quits on the third press in a row, every gap within the window and no
\* turn started or ended in between, and on no other press.
CtrlCQuitsOnThird == [][last' = "ctrl+c" => (quit' <=> presses' = 3)]_keyVars

\* A key that leaves the program running takes prompts off the queue only when it
\* says so: Up takes one, a second Ctrl+C in a row, or an Esc after the Esc that
\* interrupted the turn.  A batch sends all of them, a signal drops them.
QueueGoesOnPurpose ==
    [][queued' < queued /\ ~quit' =>
        \/ last' = "up" /\ queued' = queued - 1
        \/ last' = "turn" /\ queued' = 0
        \/ last' = "signal" /\ streaming
        \/ last' = "ctrl+c" /\ presses' = 2
        \/ last' = "esc" /\ escCut]_keyVars

\* Esc cancels a turn only when it was pressed before in the same turn, was
\* answered with the warning, and no gap since is longer than the window.
EscCancelsAfterWarning ==
    [][last' = "esc" /\ streaming /\ ~streaming' => escWarned /\ ~EscLapsed]_keyVars

\* An Esc pressed after more than the window clears no queue (docs/signals-and-keys.md,
\* section 2), unless it is the first after the Esc that cancelled the turn: that one
\* zeroes m.escLast, and the window test is skipped.
LateEscClearsNothing ==
    [][last' = "esc" /\ EscLapsed /\ queued' < queued => escCut /\ escSince = Unset]_keyVars

\* No key cancels, clears or quits by accident: each does so at its step of the ladder, in
\* time, and for the turn it was pressed in.
KeysOnPurpose ==
    /\ [](LadderTypeOK /\ ArmedOnlyIdle)
    /\ CtrlCQuitsOnThird /\ EscCancelsAfterWarning
    /\ QueueGoesOnPurpose /\ LateEscClearsNothing
=============================================================================

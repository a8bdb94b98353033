-------------------------------- MODULE Mp3 --------------------------------
(***************************************************************************)
(* The MP3 player of the chat window (ui/mp3.go): the track list that is   *)
(* read from a directory, the player process that runs beside the program, *)
(* and the message that says a process has ended, which a goroutine posts  *)
(* when it sees it.                                                        *)
(*                                                                         *)
(* A file is a number, in the order of the sorted list; a process is a     *)
(* number, in the order of starting.  Time is measured in ticks.           *)
(***************************************************************************)
EXTENDS Naturals, Sequences, SequencesExt

CONSTANTS
    MaxFile,      \* bound: files the library may hold
    MaxPlays,     \* bound: processes started
    MaxGeneration,\* bound: the generation at which the player may still be stopped
    MaxTicks      \* bound: time since a track was started or resumed, and played

ASSUME Mp3Assumption == MaxFile \in Nat \ {0} /\ MaxPlays \in Nat /\ MaxGeneration \in Nat /\ MaxTicks \in Nat

File == 1 .. MaxFile
NoProcess == 0

VARIABLES
    library,      \* the files in the directory
    tracks,       \* p.tracks
    current,      \* p.current, counted from 1
    visible, playing, paused,    \* fields of the same name
    offset,       \* p.offset
    since,        \* time since p.startedAt
    process,      \* p.process
    generation,   \* p.generation
    procs,        \* the processes started, with the generation their waits carry
    waiting,      \* those whose mp3DoneMsg has not been handled
  (* history variables *)
    played,       \* time the newest process has been running unpaused
    missed        \* a scan did not find the file that is playing

mp3Vars == <<library, tracks, current, visible, playing, paused, offset, since, process,
             generation, procs, waiting, played, missed>>
listVars == <<library, tracks, current, missed>>
clockVars == <<offset, since, played>>

-----------------------------------------------------------------------------
Alive(p) == procs[p].state \in {"running", "stopped"}
ProcState == {"running", "stopped", "killed", "ended", "failed"}
Empty == tracks = <<>>

Mp3TypeOK ==
    /\ library \subseteq File
    /\ tracks \in Seq(File) /\ IsInjective(tracks)
    /\ current \in 1 .. (IF Empty THEN 1 ELSE Len(tracks))
    /\ visible \in BOOLEAN /\ playing \in BOOLEAN /\ paused \in BOOLEAN /\ missed \in BOOLEAN
    /\ offset \in Nat /\ since \in 0 .. MaxTicks /\ played \in 0 .. MaxTicks
    /\ procs \in Seq([file : File, gen : Nat, state : ProcState])
    /\ process \in DOMAIN procs \cup {NoProcess} /\ generation \in Nat
    /\ waiting \subseteq DOMAIN procs

Mp3Init ==
    /\ library \in SUBSET File
    /\ tracks = <<>> /\ current = 1
    /\ visible = FALSE /\ playing = FALSE /\ paused = FALSE
    /\ offset = 0 /\ since = 0 /\ played = 0 /\ missed = FALSE
    /\ process = NoProcess /\ generation = 0
    /\ procs = <<>> /\ waiting = {}

-----------------------------------------------------------------------------
(* The world outside *)

LibraryChanges ==
    /\ library' \in SUBSET File
    /\ UNCHANGED <<tracks, current, missed, visible, playing, paused, clockVars, process,
                   generation, procs, waiting>>

\* Time passes; the track goes on unless its process is stopped or gone.
Mp3Tick ==
    /\ playing
    /\ since < MaxTicks /\ played < MaxTicks
    /\ since' = since + 1
    /\ played' = IF procs[process].state = "running" THEN played + 1 ELSE played
    /\ UNCHANGED <<listVars, visible, playing, paused, offset, process, generation, procs, waiting>>

\* A track comes to its end, or the player gives up.
ProcessEnds(p) ==
    /\ procs[p].state = "running"
    /\ \E how \in {"ended", "failed"} : procs' = [procs EXCEPT ![p].state = how]
    /\ UNCHANGED <<listVars, visible, playing, paused, clockVars, process, generation, waiting>>

-----------------------------------------------------------------------------
(* The controller *)

Sorted(files) ==
    CHOOSE list \in SetToSeqs(files) : \A i, j \in DOMAIN list : i < j => list[i] < list[j]

\* Faults: an index kept across a scan; one that is always reset.
FaultIndexKept(list) == current
FaultIndexReset(list) == 1

\* The index of the current track in the new list, or the first.
IndexIn(list) ==
    IF ~Empty /\ Contains(list, tracks[current])
    THEN CHOOSE i \in DOMAIN list : list[i] = tracks[current]
    ELSE 1

\* scan; the directory is read whole, and a missing one is an empty one.
Scan ==
    /\ tracks' = Sorted(library)
    /\ current' = IndexIn(Sorted(library))
    /\ UNCHANGED library

\* The processes after Stop() of the current one: SIGKILL, unless it has ended.
Killed == [p \in DOMAIN procs |->
              IF p = process /\ Alive(p) THEN [procs[p] EXCEPT !.state = "killed"] ELSE procs[p]]

Silence ==
    /\ playing' = FALSE /\ paused' = FALSE /\ process' = NoProcess
    /\ since' = 0 /\ played' = 0

\* stop; waits are the goroutines that go on waiting.
StopPlayer(waits) ==
    /\ generation < MaxGeneration
    /\ generation' = generation + 1
    /\ offset' = 0
    /\ Silence
    /\ procs' = Killed
    /\ waiting' = waits

\* Fault: the old process is not stopped.
FaultStarted(f) == Append(procs, [file |-> f, gen |-> generation', state |-> "running"])

\* Fault: the wait is given the generation before the start.
FaultOldGeneration(f) == Append(Killed, [file |-> f, gen |-> generation, state |-> "running"])

Started(f) == Append(Killed, [file |-> f, gen |-> generation', state |-> "running"])

\* playIndex of a list and an index that has been wrapped into it: stop, then start
\* the player, which may fail; then nothing plays and the track `stay' is current.
PlayIndex(list, i, stay, waits) ==
    \/ /\ Len(procs) < MaxPlays
       /\ generation' = generation + 2
       /\ procs' = Started(list[i])
       /\ process' = Len(procs')
       /\ waiting' = waits \cup {process'}
       /\ playing' = TRUE /\ paused' = FALSE
       /\ offset' = 0 /\ since' = 0 /\ played' = 0 /\ missed' = FALSE
       /\ current' = i
    \/ StopPlayer(waits) /\ current' = stay /\ UNCHANGED missed

NextTrack(i) == IF i = Len(tracks) THEN 1 ELSE i + 1
PreviousTrack(i) == IF i = 1 THEN Len(tracks) ELSE i - 1

\* /mp3 play, next and prev, and the arrow keys of the visible panel.
Play ==
    /\ ~Empty
    /\ \E i \in {current, NextTrack(current), PreviousTrack(current)} :
          PlayIndex(tracks, i, current, waiting)
    /\ UNCHANGED <<library, tracks, visible>>

ScanMisses == missed' = (missed \/ (playing /\ procs[process].file \notin library))

\* /mp3 rescan: an empty library stops the player.
Rescan ==
    /\ Scan
    /\ IF library = {}
       THEN StopPlayer(waiting)
       ELSE UNCHANGED <<playing, paused, clockVars, process, generation, procs, waiting>>
    /\ ScanMisses
    /\ UNCHANGED visible

\* /mp3: hides the panel, or shows it with a fresh list and starts playing.
Toggle ==
    /\ visible' = ~visible
    /\ \/ visible /\ UNCHANGED <<listVars, playing, paused, clockVars, process, generation, procs, waiting>>
       \/ /\ ~visible /\ library = {}
          /\ Scan /\ StopPlayer(waiting) /\ ScanMisses
       \/ /\ ~visible /\ library # {} /\ process # NoProcess
          /\ Scan /\ ScanMisses
          /\ UNCHANGED <<playing, paused, clockVars, process, generation, procs, waiting>>
       \/ /\ ~visible /\ library # {} /\ process = NoProcess
          /\ Scan
          /\ PlayIndex(Sorted(library), IndexIn(Sorted(library)), IndexIn(Sorted(library)), waiting)

\* Esc hides the panel and lets the music play (handleEscKey).
HidePanel ==
    /\ visible
    /\ visible' = FALSE
    /\ UNCHANGED <<listVars, playing, paused, clockVars, process, generation, procs, waiting>>

Elapsed == IF ~playing THEN 0 ELSE IF paused THEN offset ELSE offset + since

\* Fault: the clock is not started again.
FaultResume ==
    /\ process # NoProcess /\ paused
    /\ procs' = [procs EXCEPT ![process].state = IF @ = "stopped" THEN "running" ELSE @]
    /\ paused' = FALSE
    /\ UNCHANGED <<listVars, visible, playing, offset, since, played, process, generation, waiting>>

Resume ==
    /\ process # NoProcess /\ paused
    /\ procs' = [procs EXCEPT ![process].state = IF @ = "stopped" THEN "running" ELSE @]
    /\ paused' = FALSE /\ since' = 0
    /\ UNCHANGED <<listVars, visible, playing, offset, played, process, generation, waiting>>

\* A pause may fail when the process has ended: the offset is taken all the same,
\* and grows with every attempt (MaxTicks bounds the attempts here).
Pause ==
    /\ process # NoProcess /\ ~paused
    /\ Elapsed <= 2 * MaxTicks
    /\ offset' = Elapsed
    /\ procs' = [procs EXCEPT ![process].state = IF @ = "running" THEN "stopped" ELSE @]
    /\ paused' \in (IF Alive(process) THEN {TRUE} ELSE BOOLEAN)
    /\ UNCHANGED <<listVars, visible, playing, since, played, process, generation, waiting>>

\* Fault: the end of any process ends the current track.
FaultHandleDone(p) ==
    /\ p \in waiting /\ ~Alive(p)
    /\ waiting' = waiting \ {p}
    /\ Silence
    /\ offset' = 0
    /\ UNCHANGED <<listVars, visible, generation, procs>>

\* handleDone: the message of an older generation is ignored; after a track that
\* ended well the next one of a longer list is played.  (The offset left behind by
\* the last track is the length of it; nothing shows an offset while nothing plays.)
HandleDone(p) ==
    /\ p \in waiting /\ ~Alive(p)
    /\ UNCHANGED <<library, tracks, visible>>
    /\ \/ /\ procs[p].gen # generation
          /\ waiting' = waiting \ {p}
          /\ UNCHANGED <<current, missed, playing, paused, clockVars, process, generation, procs>>
       \/ /\ procs[p].gen = generation
          /\ procs[p].state = "failed" \/ Len(tracks) <= 1
          /\ waiting' = waiting \ {p}
          /\ Silence
          /\ offset' = 0
          /\ UNCHANGED <<current, missed, generation, procs>>
       \/ /\ procs[p].gen = generation
          /\ procs[p].state # "failed" /\ Len(tracks) > 1
          /\ PlayIndex(tracks, NextTrack(current), current, waiting \ {p})

\* The end of the program (Model.Update, case tea.QuitMsg).
StopAtQuit == StopPlayer(waiting) /\ UNCHANGED <<listVars, visible>>

Mp3Next ==
    \/ LibraryChanges \/ Mp3Tick
    \/ \E p \in DOMAIN procs : ProcessEnds(p) \/ HandleDone(p)
    \/ Play \/ Rescan \/ Toggle \/ HidePanel \/ Resume \/ Pause \/ StopAtQuit

Mp3Spec == Mp3Init /\ [][Mp3Next]_mp3Vars

-----------------------------------------------------------------------------
(* Safety *)

\* No two players sound at once, and none that the controller has missed sight of:
\* a process is stopped before the next is started, and the late message of a
\* stopped one does not make the controller forget the one that plays.
OnePlayer == \A p \in DOMAIN procs : Alive(p) => p = process

\* The end of the process that plays will be noticed: its wait is under way and
\* carries the generation handleDone compares with.
EndIsNoticed ==
    process # NoProcess => process \in waiting /\ procs[process].gen = generation

\* The track the panel marks is the one that plays, whatever files came and went,
\* unless a scan has missed its file.
ShownIsPlaying ==
    playing => process # NoProcess /\ (missed \/ tracks[current] = procs[process].file)

\* The time the status line shows is the time the track has sounded, through any
\* number of pauses.
ElapsedIsPlayed == process # NoProcess /\ Alive(process) => Elapsed = played

\* The controller knows the one player there is: that it plays, what, for how long, and
\* that it ended.
PlayerInSight == Mp3TypeOK /\ OnePlayer /\ EndIsNoticed /\ ShownIsPlaying /\ ElapsedIsPlayed
=============================================================================

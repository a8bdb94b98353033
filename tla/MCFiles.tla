------------------------------ MODULE MCFiles ------------------------------
(* Session files, memory files, their search, the archive and the checkpoint on    *)
(* small instances: a behaviour is one of the five modules, and the others' state   *)
(* stays as it began.                                                               *)
EXTENDS SessionFile, MemoryFiles, MemoryRecall, StaleCleanup, Checkpoint, TLC

ProcSymmetry == Permutations(Procs) \cup Permutations(Goroutines) \cup Permutations(Writers)

TypedNames == {<<"#", "A", "b">>, <<"#">>, <<"a", "#", "b">>}
Texts == UNION {[1 .. k -> {"x", "n", "#", "w", "o"}] : k \in 1 .. 5}

VARIABLE part

Init ==
    /\ part \in {"session", "memory", "recall", "cleanup", "checkpoint"}
    /\ SessionInit /\ MemoryInit /\ RecallInit /\ CleanupInit /\ CheckpointInit

\* Bound: runs of the job beside one note, or one run beside two and a summary.
NotesOrRuns == notes' + stitches' <= 1 \/ runs' <= 1

\* Bound: beside two turns one entry more, one reset or one failure, beside three turns none.
OddOrThird == extras' + resets' + failures' <= IF turnsRun' = 3 THEN 0 ELSE 1

Next ==
    /\ UNCHANGED part
    /\ \/ /\ part = "session" /\ SessionNext
          /\ UNCHANGED <<memoryVars, recallVars, cleanupVars, checkpointVars>>
       \/ /\ part = "memory" /\ MemoryNext /\ NotesOrRuns
          /\ UNCHANGED <<sessionVars, recallVars, cleanupVars, checkpointVars>>
       \/ /\ part = "recall" /\ RecallNext
          /\ UNCHANGED <<sessionVars, memoryVars, cleanupVars, checkpointVars>>
       \/ /\ part = "cleanup" /\ CleanupNext
          /\ UNCHANGED <<sessionVars, memoryVars, recallVars, checkpointVars>>
       \/ /\ part = "checkpoint" /\ CheckpointNext /\ OddOrThird
          /\ UNCHANGED <<sessionVars, memoryVars, recallVars, cleanupVars>>

Spec ==
    Init /\ [][Next]_<<part, sessionVars, memoryVars, recallVars, cleanupVars, checkpointVars>>
=============================================================================

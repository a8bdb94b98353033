---------------------------- MODULE StaleCleanup ----------------------------
(***************************************************************************)
(* The daemon's stale-cleanup job (daemon/jobs/stale_cleanup.go) moves     *)
(* session files nobody wrote to for some days into an archive directory,  *)
(* by renaming or, where the archive is on another device, by copying and  *)
(* removing.  It takes no lock, and programs append meanwhile: an append   *)
(* opens the file by its name, makes it if there is none, and writes to    *)
(* what it opened (session.go).                                            *)
(***************************************************************************)
EXTENDS Naturals, Sequences, SequencesExt, FiniteSets

CONSTANTS
    Names,      \* numbers that stand for the names of session files
    MaxInodes,  \* bound: files made, in either directory
    MaxIds,     \* bound: entries appended
    MaxSweeps   \* bound: runs of the job

ASSUME CleanupAssumption == {MaxInodes, MaxIds, MaxSweeps} \subseteq Nat /\ Names \subseteq Nat

VARIABLES
    oneDevice,  \* are the two directories on one device?  It does not change.
    dir, archive, \* name -> the file of that name, or 0
    content,    \* file -> the entries in it; the files are 1 .. Len(content)
    aged,       \* the files whose mtime is before the cutoff
    fd,         \* name -> the file a program has open to append to, or 0
    sweep,      \* the run of the job: where it stands, the names before it, its copy
    written,    \* entries appended; their ids are 1 .. written
    sweeps,
    raced,      \* history: the entries written to a file after it was copied or removed
    halted      \* history: the names at which a run was killed, or could not remove the file

cleanupVars == <<oneDevice, dir, archive, content, aged, fd, sweep, written, sweeps, raced, halted>>

NoSweep == [pc |-> "none", left |-> <<>>, copy |-> 0]
Here == sweep.left[1]

CleanupInit ==
    /\ oneDevice \in BOOLEAN
    /\ dir = [n \in Names |-> 0] /\ archive = [n \in Names |-> 0]
    /\ content = <<>> /\ aged = {} /\ fd = [n \in Names |-> 0]
    /\ sweep = NoSweep /\ written = 0 /\ sweeps = 0 /\ raced = {} /\ halted = {}

-----------------------------------------------------------------------------
(* Programs *)

\* Append opens the file of its name, with O_CREATE, and locks it.
Open(n) ==
    /\ fd[n] = 0 /\ written < MaxIds
    /\ IF dir[n] # 0
       THEN fd' = [fd EXCEPT ![n] = dir[n]] /\ UNCHANGED <<dir, content>>
       ELSE /\ Len(content) < MaxInodes
            /\ content' = Append(content, {})
            /\ dir' = [dir EXCEPT ![n] = Len(content) + 1]
            /\ fd' = [fd EXCEPT ![n] = Len(content) + 1]
    /\ UNCHANGED <<oneDevice, archive, aged, sweep, written, sweeps, raced, halted>>

\* It writes to the file it has open, wherever that is by now.
Write(n) ==
    LET f == fd[n]
        copied == sweep.pc = "copied" /\ dir[Here] = f
        gone == \A m \in Names : f \notin {dir[m], archive[m]} IN
    /\ f # 0
    /\ written' = written + 1
    /\ content' = [content EXCEPT ![f] = @ \cup {written + 1}]
    /\ aged' = aged \ {f}
    /\ fd' = [fd EXCEPT ![n] = 0]
    /\ raced' = IF copied \/ gone THEN raced \cup {written + 1} ELSE raced
    /\ UNCHANGED <<oneDevice, dir, archive, sweep, sweeps, halted>>

\* Days pass without a write.
Age(f) ==
    /\ f \in DOMAIN content \ aged /\ aged' = aged \cup {f}
    /\ UNCHANGED <<oneDevice, dir, archive, content, fd, sweep, written, sweeps, raced, halted>>

-----------------------------------------------------------------------------
(* stale_cleanup.go *)

\* listJSONLByName, and a look at the context.
ListNames ==
    /\ sweep = NoSweep /\ sweeps < MaxSweeps
    /\ sweeps' = sweeps + 1
    /\ \E found \in SetToSeqs({n \in Names : dir[n] # 0}) :
        /\ \A i, j \in DOMAIN found : i < j => found[i] < found[j]
        /\ sweep' = [NoSweep EXCEPT !.pc = "next", !.left = found]
    /\ UNCHANGED <<oneDevice, dir, archive, content, aged, fd, written, raced, halted>>

\* Fault: the copy is remembered.
FaultSkipped == [sweep EXCEPT !.pc = "next", !.left = Tail(@)]

Skipped == [sweep EXCEPT !.pc = "next", !.left = Tail(@), !.copy = 0]

\* The next file is gone or fresh, and passed over, or stale.
StatSource ==
    /\ sweep.pc = "next" /\ sweep.left # <<>>
    /\ sweep' = IF dir[Here] \in aged THEN [sweep EXCEPT !.pc = "stale"] ELSE Skipped
    /\ UNCHANGED <<oneDevice, dir, archive, content, aged, fd, written, sweeps, raced, halted>>

\* Fault: what the archive holds is not looked for.
FaultStatTarget ==
    /\ sweep.pc = "stale"
    /\ sweep' = [sweep EXCEPT !.pc = "move"]
    /\ UNCHANGED <<oneDevice, dir, archive, content, aged, fd, written, sweeps, raced, halted>>

\* The archive has a file of that name: a conflict, and the file stays.
StatTarget ==
    /\ sweep.pc = "stale"
    /\ sweep' = IF archive[Here] # 0 THEN Skipped ELSE [sweep EXCEPT !.pc = "move"]
    /\ UNCHANGED <<oneDevice, dir, archive, content, aged, fd, written, sweeps, raced, halted>>

\* os.Rename.
RenameFile ==
    /\ sweep.pc = "move" /\ oneDevice
    /\ archive' = [archive EXCEPT ![Here] = dir[Here]]
    /\ dir' = [dir EXCEPT ![Here] = 0]
    /\ sweep' = Skipped
    /\ UNCHANGED <<oneDevice, content, aged, fd, written, sweeps, raced, halted>>

\* copyFile: the copy is made, with O_EXCL.
CopyOpen ==
    /\ sweep.pc = "move" /\ ~oneDevice /\ Len(content) < MaxInodes
    /\ content' = Append(content, {})
    /\ archive' = [archive EXCEPT ![Here] = Len(content) + 1]
    /\ sweep' = [sweep EXCEPT !.pc = "copying", !.copy = Len(content) + 1]
    /\ UNCHANGED <<oneDevice, dir, aged, fd, written, sweeps, raced, halted>>

\* io.Copy up to the end, Close and Chtimes: the copy is as old as the file.
CopyAll ==
    /\ sweep.pc = "copying"
    /\ content' = [content EXCEPT ![sweep.copy] = content[dir[Here]]]
    /\ aged' = aged \cup {sweep.copy}
    /\ sweep' = [sweep EXCEPT !.pc = "copied"]
    /\ UNCHANGED <<oneDevice, dir, archive, fd, written, sweeps, raced, halted>>

\* Fault: the file is removed though the copy failed.
FaultCopyFails ==
    /\ sweep.pc = "copying"
    /\ archive' = [archive EXCEPT ![Here] = 0]
    /\ dir' = [dir EXCEPT ![Here] = 0]
    /\ sweep' = NoSweep
    /\ UNCHANGED <<oneDevice, content, aged, fd, written, sweeps, raced, halted>>

\* The copy fails and is removed; the run ends with the error.
CopyFails ==
    /\ sweep.pc = "copying"
    /\ archive' = [archive EXCEPT ![Here] = 0]
    /\ sweep' = NoSweep
    /\ UNCHANGED <<oneDevice, dir, content, aged, fd, written, sweeps, raced, halted>>

\* Fault: os.Remove is left out.
FaultRemoveSource ==
    /\ sweep.pc = "copied"
    /\ sweep' = Skipped
    /\ UNCHANGED <<oneDevice, dir, archive, content, aged, fd, written, sweeps, raced, halted>>

\* os.Remove.
RemoveSource ==
    /\ sweep.pc = "copied"
    /\ dir' = [dir EXCEPT ![Here] = 0]
    /\ sweep' = Skipped
    /\ UNCHANGED <<oneDevice, archive, content, aged, fd, written, sweeps, raced, halted>>

\* The run comes to its end, or sees between two files that its context ended.
EndSweep ==
    /\ sweep.pc = "next" /\ sweep' = NoSweep
    /\ UNCHANGED <<oneDevice, dir, archive, content, aged, fd, written, sweeps, raced, halted>>

\* The daemon is killed between two calls, or the mtime cannot be set or the file not removed:
\* a copy that was made, in whole or not, stays.
Halt ==
    /\ sweep.pc \in {"stale", "move", "copying", "copied"}
    /\ halted' = IF sweep.copy # 0 THEN halted \cup {Here} ELSE halted
    /\ sweep' = NoSweep
    /\ UNCHANGED <<oneDevice, dir, archive, content, aged, fd, written, sweeps, raced>>

CleanupNext ==
    \/ \E n \in Names : Open(n) \/ Write(n)
    \/ \E f \in DOMAIN content : Age(f)
    \/ ListNames \/ StatSource \/ StatTarget \/ RenameFile
    \/ CopyOpen \/ CopyAll \/ CopyFails \/ RemoveSource \/ EndSweep \/ Halt

CleanupSpec == CleanupInit /\ [][CleanupNext]_cleanupVars

-----------------------------------------------------------------------------
(* Properties *)

In(f) == IF f = 0 THEN {} ELSE content[f]
Active(n) == In(dir[n])
Archived(n) == In(archive[n])

CleanupTypeOK ==
    /\ UNION Range(content) = 1 .. written
    /\ dir \in [Names -> 0 .. Len(content)] /\ archive \in [Names -> 0 .. Len(content)]
    /\ sweep.pc # "none" /\ sweep.left # <<>> => sweep.pc = "next" \/ dir[Here] # 0
    /\ sweep.pc \in {"copying", "copied"} <=> sweep.copy # 0

\* Every entry of a session is in its directory or in the archive, wherever a run is killed
\* or fails and whatever is appended meanwhile; but for an entry appended when the job has
\* copied that very file, which goes with the file that is removed.
EntryIsSomewhere ==
    \A id \in 1 .. written \ raced : \E n \in Names : id \in Active(n) \cup Archived(n)

\* "On-disk state is identical to a single run": an entry is in one of the two places, or a
\* run stands at its file or was killed there.
OnePlace ==
    \A n \in Names :
        Active(n) \cap Archived(n) # {} => n \in halted \/ (sweep.pc = "copied" /\ Here = n)

\* The clean-up moves entries: it loses none, overwrites none and leaves no second copy
\* but where it was stopped.
EntriesAreMoved == CleanupTypeOK /\ EntryIsSomewhere /\ OnePlace
=============================================================================

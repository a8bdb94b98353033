---------------------------- MODULE MemoryFiles -----------------------------
(***************************************************************************)
(* The memory files of one scope: programs append dated entries to daily   *)
(* files and notes to HOT.md (memory/memory.go), and two jobs of the       *)
(* daemon write to HOT.md (daemon/jobs): memory-consolidate folds the      *)
(* daily entries into it, each under a marker by which the next run sees   *)
(* that it is there, and session-stitch adds a summary.                    *)
(*                                                                         *)
(* HOT.md is a sequence of pieces.  A note is written in two, an entry is  *)
(* folded as a heading with its marker and a body.  A daily file is what   *)
(* parseDailyEntries makes of it: it is split at every "## ", and a text   *)
(* may have such headings of its own.                                      *)
(***************************************************************************)
EXTENDS Naturals, Sequences, SequencesExt, FiniteSets

CONSTANTS
    Writers,    \* programs that write memory, by a tool or when they compact
    PerDay,     \* seconds of a day
    Headings,   \* headings a text may have
    MaxNow,     \* bound: the clock
    MaxDaily,   \* bound: daily entries
    MaxNotes,   \* bound: notes
    MaxRuns,    \* bound: runs of memory-consolidate
    MaxStitches, \* bound: runs of session-stitch
    MaxTorn,    \* bound: writes of a run that end early
    MaxStops    \* bound: runs that are cancelled or killed

ASSUME MemoryAssumption ==
    /\ {PerDay, MaxNow, MaxDaily, MaxNotes, MaxRuns, MaxStitches, MaxTorn, MaxStops} \subseteq Nat
    /\ PerDay # 0 /\ Headings \subseteq Nat

VARIABLES
    now,    \* the second
    daily,  \* day -> its entries [label, id], parsed
    hot,    \* the pieces of HOT.md
    note,   \* writer -> the note it is writing, or 0; it holds the lock
    job,    \* the run of memory-consolidate
    ids,    \* entries, and parts of entries, made so far
    notes, runs, stitches, torn, stops

memoryVars == <<now, daily, hot, note, job, ids, notes, runs, stitches, torn, stops>>

Days == 0 .. (MaxNow \div PerDay)

NoKey == <<0, <<"none", 0>>>>
Heading(key) == [is |-> "head", key |-> key, id |-> 0]
Body(key, id) == [is |-> "body", key |-> key, id |-> id]
Piece(is, id) == [is |-> is, key |-> NoKey, id |-> id]

\* A run: where it stands, the files and entries before it, the markers it knows, and (a
\* history) the keys of the entries that were there when it began.
NoJob == [pc |-> "none", files |-> <<>>, day |-> 0, left |-> <<>>, seen |-> {}, due |-> {}]

MemoryInit ==
    /\ now = 0 /\ daily = [d \in Days |-> <<>>] /\ hot = <<>>
    /\ note = [w \in Writers |-> 0] /\ job = NoJob
    /\ ids = 0 /\ notes = 0 /\ runs = 0 /\ stitches = 0 /\ torn = 0 /\ stops = 0

Later ==
    /\ now < MaxNow /\ now' = now + 1
    /\ UNCHANGED <<daily, hot, note, job, ids, notes, runs, stitches, torn, stops>>

-----------------------------------------------------------------------------
(* memory/memory.go *)

\* Fault: the date of the day after.
FaultToday == (now \div PerDay) + 1

Today == now \div PerDay
Keys == UNION {{<<d, daily[d][i].label>> : i \in DOMAIN daily[d]} : d \in Days}

\* AppendDailyForScope: one block under the second of the day, which is split again at the
\* headings of its text.
AppendDaily ==
    \E hs \in {<<>>} \cup {<<h>> : h \in Headings} :
        LET labels == <<<<"ts", now>>>> \o [i \in DOMAIN hs |-> <<"heading", hs[i]>>] IN
        /\ ids + Len(labels) <= MaxDaily
        /\ daily' = [daily EXCEPT ![Today] =
                        @ \o [i \in DOMAIN labels |-> [label |-> labels[i], id |-> ids + i]]]
        /\ ids' = ids + Len(labels)
        /\ UNCHANGED <<now, hot, note, job, notes, runs, stitches, torn, stops>>

\* Fault: no flock.
FaultHotFree == TRUE

\* flock on HOT.md.
HotFree == \A w \in Writers : note[w] = 0

\* AppendHot, the first piece of its write and the last.
NoteBegin(w) ==
    /\ HotFree /\ note[w] = 0 /\ notes < MaxNotes
    /\ notes' = notes + 1
    /\ note' = [note EXCEPT ![w] = notes + 1]
    /\ hot' = Append(hot, Piece("begin", notes + 1))
    /\ UNCHANGED <<now, daily, job, ids, runs, stitches, torn, stops>>

NoteEnd(w) ==
    /\ note[w] # 0
    /\ hot' = Append(hot, Piece("end", note[w]))
    /\ note' = [note EXCEPT ![w] = 0]
    /\ UNCHANGED <<now, daily, job, ids, notes, runs, stitches, torn, stops>>

-----------------------------------------------------------------------------
(* session_stitch.go *)

\* The summary is appended by AppendHot; one job of the daemon runs at a time.
Stitch ==
    /\ job = NoJob /\ HotFree /\ stitches < MaxStitches
    /\ stitches' = stitches + 1
    /\ hot' = Append(hot, Piece("stitch", 0))
    /\ UNCHANGED <<now, daily, note, job, ids, notes, runs, torn, stops>>

-----------------------------------------------------------------------------
(* memory_consolidate.go *)

\* Fault: a marker that was not written to its end takes all that follow.
FaultSwallowed(i) == \E j \in 1 .. i - 1 : hot[j].is = "torn"

\* A marker goes to the next " -->"; one that was not written to its end takes the next one
\* with it.
Swallowed(i) ==
    \E j \in 1 .. i - 1 : hot[j].is = "torn" /\ \A k \in j + 1 .. i - 1 : hot[k].is # "head"

\* loadConsolidatedMarkers.
Markers == {hot[i].key : i \in {h \in DOMAIN hot : hot[h].is = "head" /\ ~Swallowed(h)}}

OldestFirst(days) ==
    CHOOSE list \in SetToSeqs(days) : \A i, j \in DOMAIN list : i < j => list[i] < list[j]

\* Fault: the file of today is left for tomorrow.
FaultListed == OldestFirst({d \in Days : daily[d] # <<>> /\ d < Today})

\* The days there are files of.
Listed == OldestFirst({d \in Days : daily[d] # <<>>})

ListDaily ==
    /\ job = NoJob /\ runs < MaxRuns
    /\ runs' = runs + 1
    /\ job' = [NoJob EXCEPT !.pc = "listed", !.files = Listed, !.due = Keys]
    /\ UNCHANGED <<now, daily, hot, note, ids, notes, stitches, torn, stops>>

\* Fault: the markers in HOT.md are not read.
FaultLoadMarkers ==
    /\ job.pc = "listed"
    /\ job' = [job EXCEPT !.pc = "files"]
    /\ UNCHANGED <<now, daily, hot, note, ids, notes, runs, stitches, torn, stops>>

LoadMarkers ==
    /\ job.pc = "listed"
    /\ job' = [job EXCEPT !.pc = "files", !.seen = Markers]
    /\ UNCHANGED <<now, daily, hot, note, ids, notes, runs, stitches, torn, stops>>

Parse ==
    /\ job.pc = "files" /\ job.files # <<>>
    /\ job' = [job EXCEPT !.pc = "entries", !.day = job.files[1], !.files = Tail(@),
                          !.left = daily[job.files[1]]]
    /\ UNCHANGED <<now, daily, hot, note, ids, notes, runs, stitches, torn, stops>>

Key == <<job.day, job.left[1].label>>

\* The next entry is skipped or folded: no lock is taken.
Fold ==
    LET e == job.left[1] IN
    /\ job.pc = "entries" /\ job.left # <<>>
    /\ job' = [job EXCEPT !.left = Tail(@), !.seen = @ \cup {Key}]
    /\ hot' = IF Key \in job.seen THEN hot ELSE hot \o <<Heading(Key), Body(Key, e.id)>>
    /\ UNCHANGED <<now, daily, note, ids, notes, runs, stitches, torn, stops>>

\* The write ends in the marker or before the body, and the run with it.
FoldFails ==
    /\ job.pc = "entries" /\ job.left # <<>> /\ Key \notin job.seen /\ torn < MaxTorn
    /\ torn' = torn + 1
    /\ job' = NoJob
    /\ \E p \in {Piece("torn", 0), Heading(Key)} : hot' = Append(hot, p)
    /\ UNCHANGED <<now, daily, note, ids, notes, runs, stitches, stops>>

FileDone ==
    /\ job.pc = "entries" /\ job.left = <<>>
    /\ job' = [job EXCEPT !.pc = "files"]
    /\ UNCHANGED <<now, daily, hot, note, ids, notes, runs, stitches, torn, stops>>

Finish ==
    /\ job.pc = "files" /\ job.files = <<>>
    /\ job' = [job EXCEPT !.pc = "done"]
    /\ UNCHANGED <<now, daily, hot, note, ids, notes, runs, stitches, torn, stops>>

\* The next job may be taken.
Close ==
    /\ job.pc = "done" /\ job' = NoJob
    /\ UNCHANGED <<now, daily, hot, note, ids, notes, runs, stitches, torn, stops>>

\* Cancelled between two files, or killed anywhere between two writes.
Stop ==
    /\ job.pc \in {"listed", "files", "entries"} /\ stops < MaxStops
    /\ stops' = stops + 1 /\ job' = NoJob
    /\ UNCHANGED <<now, daily, hot, note, ids, notes, runs, stitches, torn>>

Consolidate ==
    ListDaily \/ LoadMarkers \/ Parse \/ Fold \/ FoldFails \/ FileDone \/ Finish \/ Close \/ Stop

MemoryNext == Later \/ AppendDaily \/ Stitch \/ Consolidate \/ \E w \in Writers : NoteBegin(w) \/ NoteEnd(w)

MemorySpec == MemoryInit /\ [][MemoryNext]_memoryVars

-----------------------------------------------------------------------------
(* Properties *)

MemoryTypeOK ==
    /\ now \in 0 .. MaxNow
    /\ \A n \in 1 .. ids : \E d \in Days : \E i \in DOMAIN daily[d] : daily[d][i].id = n
    /\ \A d, e \in Days : \A i \in DOMAIN daily[d], j \in DOMAIN daily[e] :
          /\ daily[d][i].id \in 1 .. ids
          /\ daily[d][i].id = daily[e][j].id => d = e /\ i = j
    /\ \A p \in Range(hot) : p.is \in {"begin", "end", "stitch", "torn", "head", "body"}
    /\ Cardinality({w \in Writers : note[w] # 0}) <= 1
    /\ {p.id : p \in {q \in Range(hot) : q.is = "body"}} \subseteq 1 .. ids

Bodies == {i \in DOMAIN hot : hot[i].is = "body"}

\* "The same logical entry from the same daily file is never appended twice", and a run that
\* succeeds leaves every entry that was in the daily files when it began in HOT.md ("folds
\* new entries into the hot file"), however often runs are cancelled, killed and repeated.
\* Each write that ends early costs one entry, folded a second time or missed, over all the
\* runs that follow.  An entry is told by its day and its heading: of two entries of one
\* second, or of two texts with the same "## " heading in a day, the job folds one.
TornCostsOne ==
    LET extra == {i \in Bodies : \E j \in Bodies : j < i /\ hot[j].key = hot[i].key}
        missing == IF job.pc = "done" THEN {k \in job.due : \A i \in Bodies : hot[i].key # k}
                   ELSE {}
    IN  Cardinality(extra) + Cardinality(missing) <= torn

UnderLock == {i \in DOMAIN hot : hot[i].is \in {"begin", "end", "stitch"}}

\* Of two programs and session-stitch, none writes inside the note of another: "concurrent
\* writes interleave at the entry boundary".  memory-consolidate takes no lock and may.
EntriesAreWhole ==
    \A i, j \in UnderLock :
        hot[i].is = "begin" /\ hot[j] = Piece("end", hot[i].id) =>
            i < j /\ UnderLock \cap i + 1 .. j - 1 = {}

\* HOT.md has every note whole and every entry once, but for one entry a torn write.
MemoryIsKept == MemoryTypeOK /\ TornCostsOne /\ EntriesAreWhole
=============================================================================

---------------------------- MODULE SessionFile -----------------------------
(***************************************************************************)
(* Session files (session/session.go): programs that append entries to     *)
(* files of lines, start new files, load old ones and fork.                *)
(*                                                                         *)
(* A name is the second a session was started in, followed by the time of  *)
(* day of every fork that led to it.  A file is the lines that decode and  *)
(* what stands after the last newline.  Opening, locking and writing are   *)
(* separate steps of a writer; a write is made in two pieces, and may end  *)
(* after any of them when the disk is full or the program is killed.       *)
(***************************************************************************)
EXTENDS Naturals, Sequences, SequencesExt, FiniteSets, Functions

CONSTANTS
    Procs,      \* programs that share a session directory
    Goroutines, \* goroutines of a program that may append at the same time
    Day,        \* seconds of a day
    MaxSeconds, \* bound: the second
    MaxAppends, \* bound: entries made
    MaxNews,    \* bound: sessions started
    MaxForks,   \* bound: forks
    MaxFaults   \* bound: writes that fail and programs that are killed

ASSUME SessionAssumption ==
    /\ {Day, MaxSeconds, MaxAppends, MaxNews, MaxForks, MaxFaults} \subseteq Nat
    /\ Day # 0

VARIABLES
    second, \* the clock
    files,  \* name -> [lines, tail]
    sess,   \* program -> the Session it holds: [path, entries]
    at,     \* program, writer -> where it stands in Append, with which entry
    made,   \* entries made; their ids are 1 .. made
    acked,  \* history: <<id, name>> of the Appends that returned no error
    mixed,  \* history: the names two hands took: one of them started, resumed or forked
            \* onto it while the other held it, or the file was there
    over,   \* history: the names a fork wrote over
    news, forks, faults \* sessions started, forks and faults so far

sessionVars == <<second, files, sess, at, made, acked, mixed, over, news, forks, faults>>

NoSession == [path |-> <<>>, entries |-> <<>>]
NoEntry == [id |-> 0, parent |-> 0]
Idle == [pc |-> "idle", path |-> <<>>, entry |-> NoEntry]

\* After the last newline: nothing, an entry without its newline, the first piece of an
\* entry, or what no entry can be read from.
Tail0 == [is |-> "none", entry |-> NoEntry]
Junk == [is |-> "junk", entry |-> NoEntry]
EmptyFile == [lines |-> <<>>, tail |-> Tail0]

\* Load: lines that do not decode are skipped.
Loaded(f) == f.lines \o (IF f.tail.is = "whole" THEN <<f.tail.entry>> ELSE <<>>)

Ids(entries) == {entries[i].id : i \in DOMAIN entries}

Quiet(p) == \A w \in Goroutines : at[<<p, w>>].pc = "idle"

\* flock: one open file of a name is locked at a time.
Locked(name) ==
    \E q \in Procs, w \in Goroutines : at[<<q, w>>].path = name /\ at[<<q, w>>].pc \in {"locked", "half"}

Put(name, f) == [n \in DOMAIN files \cup {name} |-> IF n = name THEN f ELSE files[n]]
Held(p) == {sess[q].path : q \in Procs \ {p}}
MixedByFork(p, name) ==
    mixed \cup ({name} \cap (DOMAIN files \cup Held(p)))
          \cup (IF sess[p].path \in mixed THEN {name} ELSE {})
File(name) == IF name \in DOMAIN files THEN files[name] ELSE EmptyFile
-----------------------------------------------------------------------------

SessionInit ==
    /\ second = 0 /\ files = [n \in {} |-> EmptyFile]
    /\ sess = [p \in Procs |-> NoSession]
    /\ at = [pw \in Procs \X Goroutines |-> Idle]
    /\ made = 0 /\ acked = {} /\ mixed = {} /\ over = {}
    /\ news = 0 /\ forks = 0 /\ faults = 0

NextSecond ==
    /\ second < MaxSeconds /\ second' = second + 1
    /\ UNCHANGED <<files, sess, at, made, acked, mixed, over, news, forks, faults>>

\* New: at the start of a program and by /restart.  The file is made by the first Append.
New(p) ==
    /\ Quiet(p) /\ news < MaxNews
    /\ news' = news + 1
    /\ sess' = [sess EXCEPT ![p] = [path |-> <<second>>, entries |-> <<>>]]
    /\ mixed' = mixed \cup ({<<second>>} \cap (DOMAIN files \cup Held(p)))
    /\ UNCHANGED <<second, files, at, made, acked, over, forks, faults>>

\* Fault: the entries in memory stay those of the session before.
FaultResume(p) ==
    /\ Quiet(p)
    /\ \E n \in DOMAIN files :
        /\ sess[p].path # n /\ sess' = [sess EXCEPT ![p].path = n]
        /\ mixed' = mixed \cup ({n} \cap Held(p))
    /\ UNCHANGED <<second, files, at, made, acked, over, news, forks, faults>>

\* Load: by --resume and by /resume.  It takes no lock.
Resume(p) ==
    /\ Quiet(p)
    /\ \E n \in DOMAIN files :
        /\ sess[p].path # n
        /\ sess' = [sess EXCEPT ![p] = [path |-> n, entries |-> Loaded(files[n])]]
        /\ mixed' = mixed \cup ({n} \cap Held(p))
    /\ UNCHANGED <<second, files, at, made, acked, over, news, forks, faults>>

\* Fault: the new Session has no entries in memory.
FaultFork(p) ==
    LET old == sess[p]
        name == Append(old.path, second % Day) IN
    /\ Quiet(p) /\ old.entries # <<>> /\ forks < MaxForks
    /\ forks' = forks + 1
    /\ files' = Put(name, [EmptyFile EXCEPT !.lines = old.entries])
    /\ sess' = [sess EXCEPT ![p] = [path |-> name, entries |-> <<>>]]
    /\ over' = over \cup ({name} \cap DOMAIN files)
    /\ mixed' = MixedByFork(p, name)
    /\ UNCHANGED <<second, at, made, acked, news, faults>>

\* Fork, as /fork calls it: from the last entry.  Of the entries in memory the first k are
\* written, all of them unless writes fail, and nobody is told.  A file of that name is
\* written over.
Fork(p) ==
    LET old == sess[p]
        name == Append(old.path, second % Day) IN
    \E k \in 0 .. Len(old.entries) :
        /\ Quiet(p) /\ old.entries # <<>> /\ forks < MaxForks
        /\ IF k = Len(old.entries) THEN UNCHANGED faults
           ELSE faults < MaxFaults /\ faults' = faults + 1
        /\ forks' = forks + 1
        /\ files' = Put(name, [EmptyFile EXCEPT !.lines = SubSeq(old.entries, 1, k)])
            /\ sess' = [sess EXCEPT ![p].path = name]
        /\ over' = over \cup ({name} \cap DOMAIN files)
        /\ mixed' = MixedByFork(p, name)
        /\ UNCHANGED <<second, at, made, acked, news>>

-----------------------------------------------------------------------------
(* Append *)

\* Fault: the mutex is not taken, and the parent is read before another's entry is in.
FaultRecord(p, w) ==
    LET old == sess[p].entries
        parent == IF old = <<>> THEN 0 ELSE old[Len(old)].id
        e == [id |-> made + 1, parent |-> parent] IN
    /\ sess[p] # NoSession /\ at[<<p, w>>].pc = "idle" /\ made < MaxAppends
    /\ made' = made + 1
    /\ sess' = [sess EXCEPT ![p].entries = Append(@, e)]
    /\ at' = [at EXCEPT ![<<p, w>>] = [pc |-> "open", path |-> sess[p].path, entry |-> e]]
    /\ UNCHANGED <<second, files, acked, mixed, over, news, forks, faults>>

\* The mutex of the Session is taken, the entry gets its id and its parent and is added to
\* the entries in memory.
Record(p, w) ==
    LET old == sess[p].entries
        parent == IF old = <<>> THEN 0 ELSE old[Len(old)].id
        e == [id |-> made + 1, parent |-> parent] IN
    /\ sess[p] # NoSession /\ Quiet(p) /\ made < MaxAppends
    /\ made' = made + 1
    /\ sess' = [sess EXCEPT ![p].entries = Append(@, e)]
    /\ at' = [at EXCEPT ![<<p, w>>] = [pc |-> "open", path |-> sess[p].path, entry |-> e]]
    /\ UNCHANGED <<second, files, acked, mixed, over, news, forks, faults>>

\* Fault: no flock.
FaultLock(p, w) ==
    LET name == at[<<p, w>>].path IN
    /\ at[<<p, w>>].pc = "open"
    /\ files' = Put(name, File(name))
    /\ at' = [at EXCEPT ![<<p, w>>].pc = "locked"]
    /\ UNCHANGED <<second, sess, made, acked, mixed, over, news, forks, faults>>

\* The file is opened, or made, and locked.
Lock(p, w) ==
    LET name == at[<<p, w>>].path IN
    /\ at[<<p, w>>].pc = "open" /\ ~Locked(name)
    /\ files' = Put(name, File(name))
    /\ at' = [at EXCEPT ![<<p, w>>].pc = "locked"]
    /\ UNCHANGED <<second, sess, made, acked, mixed, over, news, forks, faults>>

\* The first piece is appended to what the file ends with.
WriteHalf(p, w) ==
    LET name == at[<<p, w>>].path IN
    /\ at[<<p, w>>].pc = "locked"
    /\ files' = [files EXCEPT ![name].tail =
                    IF @ = Tail0 THEN [is |-> "half", entry |-> at[<<p, w>>].entry] ELSE Junk]
    /\ at' = [at EXCEPT ![<<p, w>>].pc = "half"]
    /\ UNCHANGED <<second, sess, made, acked, mixed, over, news, forks, faults>>

\* Fault: the newline is left out.
FaultFinished(f, e) ==
    [f EXCEPT !.tail = IF @ = [is |-> "half", entry |-> e] THEN [is |-> "whole", entry |-> e]
                       ELSE Junk]

\* The rest up to the newline: the line decodes if it holds just this entry.
Finished(f, e) ==
    [lines |-> IF f.tail = [is |-> "half", entry |-> e] THEN Append(f.lines, e) ELSE f.lines,
     tail |-> Tail0]

\* Fault: the write is made again though it was complete.
FaultRest(p, w) ==
    LET name == at[<<p, w>>].path IN
    /\ at[<<p, w>>].pc = "half"
    /\ files' = [files EXCEPT ![name] = Finished(@, at[<<p, w>>].entry)]
    /\ acked' = acked \cup {<<at[<<p, w>>].entry.id, name>>}
    /\ at' = [at EXCEPT ![<<p, w>>].pc = "open"]
    /\ UNCHANGED <<second, sess, made, mixed, over, news, forks, faults>>

WriteRest(p, w) ==
    LET name == at[<<p, w>>].path IN
    /\ at[<<p, w>>].pc = "half"
    /\ files' = [files EXCEPT ![name] = Finished(@, at[<<p, w>>].entry)]
    /\ acked' = acked \cup {<<at[<<p, w>>].entry.id, name>>}
    /\ at' = [at EXCEPT ![<<p, w>>] = Idle]
    /\ UNCHANGED <<second, sess, made, mixed, over, news, forks, faults>>

\* What a write leaves of the file that ends before its newline.
Broken(here, f) ==
    IF here.pc = "half" /\ f.tail = [is |-> "half", entry |-> here.entry]
    THEN {f, [f EXCEPT !.tail.is = "whole"]}
    ELSE {f}

\* The file is not opened or the write fails; the entry stays in memory.
AppendFails(p, w) ==
    LET here == at[<<p, w>>] IN
    /\ here.pc # "idle" /\ faults < MaxFaults
    /\ faults' = faults + 1
    /\ \/ here.pc = "open" /\ UNCHANGED files
       \/ /\ here.pc # "open"
          /\ \E f \in Broken(here, files[here.path]) : files' = [files EXCEPT ![here.path] = f]
    /\ at' = [at EXCEPT ![<<p, w>>] = Idle]
    /\ UNCHANGED <<second, sess, made, acked, mixed, over, news, forks>>

\* The program is killed, perhaps in the middle of a write.
Crash(p) ==
    /\ sess[p] # NoSession /\ faults < MaxFaults
    /\ faults' = faults + 1
    /\ sess' = [sess EXCEPT ![p] = NoSession]
    /\ at' = [pw \in Procs \X Goroutines |-> IF pw[1] = p THEN Idle ELSE at[pw]]
    /\ \/ UNCHANGED files
       \/ \E w \in Goroutines :
            /\ at[<<p, w>>].pc = "half"
            /\ \E f \in Broken(at[<<p, w>>], files[at[<<p, w>>].path]) :
                    files' = [files EXCEPT ![at[<<p, w>>].path] = f]
    /\ UNCHANGED <<second, made, acked, mixed, over, news, forks>>

Appends(p) ==
    \E w \in Goroutines : Record(p, w) \/ Lock(p, w) \/ WriteHalf(p, w) \/ WriteRest(p, w)
                       \/ AppendFails(p, w)

SessionNext == NextSecond \/ \E p \in Procs : New(p) \/ Resume(p) \/ Fork(p) \/ Crash(p) \/ Appends(p)

SessionSpec == SessionInit /\ [][SessionNext]_sessionVars

-----------------------------------------------------------------------------
(* Properties *)

SessionTypeOK ==
    /\ second \in 0 .. MaxSeconds /\ made \in 0 .. MaxAppends /\ faults \in 0 .. MaxFaults
    /\ \A p \in Procs : Cardinality({w \in Goroutines : at[<<p, w>>].pc # "idle"}) <= 1
    /\ \A n \in DOMAIN files :
        /\ Ids(files[n].lines) \subseteq 1 .. made
        /\ files[n].tail.is = "half" /\ MaxFaults = 0 => Locked(n)

Lost == {a \in acked : a[1] \notin Ids(Loaded(File(a[2])))}

\* Every write that fails and every kill costs at most one entry whose Append returned no
\* error: what is left behind spoils the next line and no more.  With no such fault
\* everything acknowledged can be loaded ("adds an entry and writes it to the file"), two
\* programs on one file included.  Only a fork that comes to the name of a file costs more.
FaultCostsOne == Cardinality({a \in Lost : a[2] \notin over}) <= faults

\* The entries of a file stand in the order they were made, none of them twice, whatever
\* fails.  Two programs that share a name may write in the other order than they made
\* their entries.
InOrder ==
    \A n \in DOMAIN files \ mixed : LET l == Loaded(files[n]) IN
        \A i, j \in DOMAIN l : i < j => l[i].id < l[j].id

\* "The chain is always linear within a single JSONL file": the parent of an entry is the
\* entry before it, as long as one program at a time holds the name and no write fails.
\* Two that share it each take the parent from their own memory.
ChainIsLinear ==
    faults = 0 => \A n \in DOMAIN files \ mixed : LET l == Loaded(files[n]) IN
        \A i \in DOMAIN l : l[i].parent = IF i = 1 THEN 0 ELSE l[i - 1].id

\* What a program holds in memory is what its file holds, whenever it is not appending.
MemoryIsFile ==
    faults = 0 =>
        \A p \in Procs : Quiet(p) /\ sess[p].path \notin mixed =>
            sess[p].entries = Loaded(File(sess[p].path))

\* A file is one conversation, in order, with no more gaps than faults, and what its program
\* holds in memory.
FileIsOneChain == SessionTypeOK /\ FaultCostsOne /\ InOrder /\ ChainIsLinear /\ MemoryIsFile
=============================================================================

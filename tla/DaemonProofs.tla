----------------------------- MODULE DaemonProofs -----------------------------
(***************************************************************************)
(* What holds of Daemon for every number of pids and jobs, whatever the    *)
(* jobs are, and for every number of failed file operations: one daemon,   *)
(* verdicts that are true, and JobMail's promise.                          *)
(***************************************************************************)
EXTENDS Daemon, TLAPS

Alive(d) == at[d] \notin Dead
Handling(d) == at[d] \in {"run", "settle", "clear"}
Recovering(d) ==
    \/ at[d] \in {"clocked", "recover"}
    \/ at[d] \in {"settle", "clear"} /\ verdict[d] = "crashed"

\* A job of which something is known: it ran, or one of the two directories speaks of it.
Touched(j) == runs[j] > 0 \/ j \in done \/ failed[j] # "no"

\* A job that may be run, or judged, as if nothing had happened to it.
Fresh(j) == runs[j] <= faults /\ (faults = 0 => ~Touched(j))

\* Who is past Acquire holds the flock; so does a client that probes.
LockInv ==
    /\ \A d \in Procs : Alive(d) <=> lock = d
    /\ \A j \in Jobs : client[j] = "probing" => lock = j

\* Between its two accesses to it, no one else writes a daemon's pid file.
PidInv == \A d \in Procs : at[d] \notin Dead \cup {"locked", "exit"} => pidfile \in {d, NoProc}

\* The stop command signals the pid that it has read.
StopInv == stop.at \in {"signal", "gone", "sent"} => stop.pid \in Procs

\* A scan holds jobs of mail/, and the one that is handled is no longer in it.
ScanInv ==
    \A d \in Procs :
        /\ at[d] \in {"recover", "work"} \/ Handling(d) => todo[d] \subseteq mail
        /\ Handling(d) => job[d] \in mail \ todo[d]

\* Recovery touches what was there before it, the daemon's loop what can be read.
KindInv ==
    \A d \in Procs :
        /\ at[d] = "recover" \/ verdict[d] = "crashed" => todo[d] \subseteq old[d]
        /\ verdict[d] = "crashed" => at[d] \in {"settle", "clear"} /\ job[d] \in old[d]
        /\ at[d] = "work" \/ (Handling(d) /\ verdict[d] # "crashed") => todo[d] \cap Malformed = {}
        /\ Handling(d) /\ verdict[d] # "crashed" => job[d] \notin Malformed

\* What is settled has a verdict, and what is cleared has it in a directory.
VerdictInv ==
    \A d \in Procs :
        /\ at[d] \in {"settle", "clear"} => verdict[d] # "no"
        /\ at[d] = "run" => verdict[d] = "no" /\ runs[job[d]] > 0
        /\ at[d] = "settle" /\ verdict[d] = "done" => runs[job[d]] > 0
        /\ at[d] = "clear" => IF verdict[d] = "done" THEN job[d] \in done ELSE failed[job[d]] # "no"

\* Nothing is known of a job before its file is in mail/.
SentInv ==
    \A j \in Jobs :
        /\ j \in mail \/ Touched(j) => client[j] = "sent"
        /\ j \in done => runs[j] > 0

\* All that a recovering daemon finds judged or run was there before it.
OldInv == \A d \in Procs, j \in Jobs : Recovering(d) /\ Touched(j) => j \in old[d]

\* What is in mail/ is as good as new, but for what recovery has still to fail and for the
\* job that is handled.
FreshInv ==
    \A d \in Procs : at[d] \in Late \cup {"recover", "settle", "clear"} =>
        \A j \in mail :
            \/ Handling(d) /\ j = job[d]
            \/ Recovering(d) /\ j \in todo[d]
            \/ Fresh(j)

\* The job that is handled was, when it was taken.
TakenInv ==
    \A d \in Procs : at[d] \in {"run", "settle"} /\ verdict[d] # "crashed" /\ faults = 0 =>
        job[d] \notin done /\ failed[job[d]] = "no"

IInv ==
    /\ TypeOK /\ LockInv /\ PidInv /\ StopInv /\ ScanInv /\ KindInv /\ VerdictInv
    /\ SentInv /\ OldInv /\ FreshInv /\ TakenInv /\ RunsAreFaults /\ VerdictsAgree

-----------------------------------------------------------------------------
\* The actions of Next, each under its own name.
LEMMA NextCases ==
    ASSUME Next
    PROVE  \/ \E d \in Procs :
              \/ Start(d) \/ Refuse(d) \/ Again(d) \/ Crash(d)
              \/ WritePid(d) \/ StartTime(d) \/ RecoverScan(d) \/ Recovered(d)
              \/ List(d) \/ HandlerReturns(d) \/ WriteResult(d) \/ RemoveMail(d) \/ IOFails(d)
              \/ ListDone(d) \/ RemovePid(d) \/ Release(d)
              \/ \E j \in Jobs : Recover(d, j) \/ Dispatch(d, j)
           \/ \E j \in Jobs :
              \/ Probe(j) \/ ProbeEnds(j) \/ WriteTmp(j) \/ Rename(j) \/ ClientDies(j)
           \/ StopRead \/ StopSignal \/ StopTidies \/ StopDone
BY DEF Next, DaemonStep, ClientStep, StopStep

LEMMA InitInv == Init => IInv
<1> SUFFICES ASSUME Init PROVE IInv
    OBVIOUS
<1> USE DaemonAssumption DEF Init, Dead
<1>1. TypeOK
      BY DEF TypeOK, Early, Late, Reasons, Kind
<1>2. LockInv /\ PidInv /\ StopInv
      BY DEF LockInv, PidInv, StopInv, Alive
<1>3. ScanInv /\ KindInv /\ VerdictInv
      BY DEF ScanInv, KindInv, VerdictInv, Handling
<1>4. SentInv /\ RunsAreFaults /\ VerdictsAgree
      BY DEF SentInv, RunsAreFaults, VerdictsAgree, Touched
<1>5. OldInv /\ FreshInv /\ TakenInv
      BY DEF OldInv, FreshInv, TakenInv, Recovering, Late
<1> QED BY <1>1, <1>2, <1>3, <1>4, <1>5 DEF IInv

\* Type correctness is inductive with the flow of jobs beside it: the second directory takes
\* the job that is handled, which is one.
LEMMA TypeStep == ASSUME IInv, [Next]_vars PROVE TypeOK'
<1> USE DaemonAssumption DEF IInv, TypeOK, Go, Kind
<1>1. CASE UNCHANGED vars
      BY <1>1 DEF vars, daemonVars
<1>2. CASE Next /\ \E d \in Procs : Start(d) \/ Refuse(d) \/ Again(d) \/ WritePid(d) \/ StartTime(d)
                \/ RecoverScan(d) \/ Recovered(d) \/ List(d) \/ ListDone(d) \/ RemovePid(d)
      BY <1>2 DEF Next, Start, Refuse, Again, WritePid, StartTime, RecoverScan, Recovered, List,
                  ListDone, RemovePid, Dead, Early, Late
<1>3. ASSUME NEW d \in Procs, Next, HandlerReturns(d) \/ WriteResult(d) \/ RemoveMail(d) \/ IOFails(d)
      PROVE  TypeOK'
      BY <1>3 DEF Next, HandlerReturns, WriteResult, RemoveMail, IOFails, Resume, ScanInv, Handling,
                  Early, Late, Reasons
<1>4. ASSUME NEW d \in Procs, Next, Release(d) \/ Crash(d)
      PROVE  TypeOK'
      BY <1>4 DEF Next, Release, Crash, Gone, Dead
<1>5. ASSUME NEW d \in Procs, NEW j \in Jobs, Next, Recover(d, j) \/ Dispatch(d, j)
      PROVE  TypeOK'
      BY <1>5 DEF Next, Recover, Dispatch, Take, Late, Reasons
<1>6. ASSUME NEW j \in Jobs, Next,
             Probe(j) \/ ProbeEnds(j) \/ WriteTmp(j) \/ Rename(j) \/ ClientDies(j)
      PROVE  TypeOK'
      BY <1>6 DEF Next, Probe, ProbeEnds, WriteTmp, Rename, ClientDies, Client, daemonVars
<1>7. CASE Next /\ (StopRead \/ StopTidies \/ StopDone)
      BY <1>7 DEF Next, StopRead, StopTidies, StopDone, daemonVars
<1>8. CASE Next /\ StopSignal
      BY <1>8 DEF Next, StopSignal, Gone, StopInv, Dead, daemonVars
<1> QED BY <1>1, <1>2, <1>3, <1>4, <1>5, <1>6, <1>7, <1>8, NextCases

\* The pid that acts is alone.
LEMMA LockStep == ASSUME IInv, [Next]_vars PROVE LockInv'
<1> USE DaemonAssumption DEF IInv, TypeOK, LockInv, Alive, Dead, Go
<1>1. CASE UNCHANGED <<at, lock, client>>
      BY <1>1
<1>2. ASSUME NEW d \in Procs, Start(d) \/ Refuse(d) \/ Again(d) PROVE LockInv'
      BY <1>2 DEF Start, Refuse, Again
<1>3. ASSUME NEW d \in Procs, UNCHANGED <<lock, client>>, at' = [at EXCEPT ![d] = at'[d]],
             at[d] \notin Dead, at'[d] \notin Dead
      PROVE  LockInv'
      BY <1>3
<1>4. ASSUME NEW d \in Procs, Release(d) \/ Crash(d) PROVE LockInv'
      BY <1>4 DEF Release, Crash, Gone
<1>5. ASSUME NEW j \in Jobs,
             Probe(j) \/ ProbeEnds(j) \/ WriteTmp(j) \/ Rename(j) \/ ClientDies(j)
      PROVE  LockInv'
      BY <1>5 DEF Probe, ProbeEnds, WriteTmp, Rename, ClientDies, Client, daemonVars
<1>6. CASE StopSignal
      BY <1>6 DEF StopSignal, Gone, StopInv, daemonVars
<1>7. ASSUME NEW d \in Procs,
             \/ WritePid(d) \/ StartTime(d) \/ RecoverScan(d) \/ Recovered(d)
             \/ List(d) \/ HandlerReturns(d) \/ WriteResult(d) \/ RemoveMail(d) \/ IOFails(d)
             \/ ListDone(d) \/ RemovePid(d) \/ \E j \in Jobs : Recover(d, j) \/ Dispatch(d, j)
      PROVE  LockInv'
      BY <1>3, <1>7 DEF WritePid, StartTime, RecoverScan, Recovered, List, HandlerReturns, WriteResult,
                  RemoveMail, IOFails, Resume, ListDone, RemovePid, Recover, Dispatch, Take
<1> QED BY <1>1, <1>2, <1>4, <1>5, <1>6, <1>7, NextCases
        DEF vars, daemonVars, StopRead, StopTidies, StopDone

\* A daemon that acts is the only one that lives.
LEMMA OthersDead ==
    ASSUME LockInv, NEW d \in Procs, Alive(d), NEW e \in Procs, e # d
    PROVE  at[e] \in Dead
BY DEF LockInv, Alive

LEMMA PidStep == ASSUME IInv, [Next]_vars PROVE PidInv' /\ StopInv'
<1> USE DaemonAssumption DEF IInv, TypeOK, PidInv, StopInv, LockInv, Alive, Dead, Go
<1>1. CASE UNCHANGED <<at, pidfile, stop>>
      BY <1>1
<1>2. ASSUME NEW d \in Procs, Start(d) \/ Refuse(d) \/ Again(d) \/ WritePid(d) \/ RemovePid(d)
      PROVE  PidInv' /\ StopInv'
      BY <1>2 DEF Start, Refuse, Again, WritePid, RemovePid
<1>3. ASSUME NEW d \in Procs, UNCHANGED <<pidfile, stop>>, at' = [at EXCEPT ![d] = at'[d]],
             at[d] \notin {"locked", "exit"} \cup Dead \/ at'[d] \in Dead
      PROVE  PidInv' /\ StopInv'
      BY <1>3
<1>4. ASSUME NEW d \in Procs,
             \/ StartTime(d) \/ RecoverScan(d) \/ Recovered(d) \/ Crash(d) \/ Release(d)
             \/ List(d) \/ HandlerReturns(d) \/ WriteResult(d) \/ RemoveMail(d) \/ IOFails(d)
             \/ ListDone(d) \/ \E j \in Jobs : Recover(d, j) \/ Dispatch(d, j)
      PROVE  PidInv' /\ StopInv'
      BY <1>3, <1>4 DEF StartTime, RecoverScan, Recovered, Crash, Release, Gone, List, HandlerReturns,
                  WriteResult, RemoveMail, IOFails, Resume, ListDone, Recover, Dispatch, Take
<1>5. CASE StopRead \/ StopTidies \/ StopDone
      BY <1>5 DEF StopRead, StopTidies, StopDone, daemonVars
<1>6. CASE StopSignal
      BY <1>6 DEF StopSignal, Gone, daemonVars
<1> QED BY <1>1, <1>2, <1>4, <1>5, <1>6, NextCases
        DEF vars, daemonVars, Probe, ProbeEnds, WriteTmp, Rename, ClientDies

\* Jobs leave a scan when they are taken, and mail/ when they have been.
LEMMA ScanStep == ASSUME IInv, [Next]_vars PROVE ScanInv'
<1> USE DaemonAssumption DEF IInv, TypeOK, ScanInv, Handling, Go
<1>1. CASE UNCHANGED <<at, todo, job, mail>>
      BY <1>1
<1>2. ASSUME NEW d \in Procs,
             \/ Start(d) \/ Refuse(d) \/ Again(d) \/ WritePid(d) \/ StartTime(d) \/ Recovered(d)
             \/ HandlerReturns(d) \/ WriteResult(d) \/ ListDone(d) \/ RemovePid(d)
      PROVE  ScanInv'
      BY <1>2 DEF Start, Refuse, Again, WritePid, StartTime, Recovered, HandlerReturns, WriteResult,
                  ListDone, RemovePid
<1>3. ASSUME NEW d \in Procs, RecoverScan(d) \/ List(d) PROVE ScanInv'
      BY <1>3 DEF RecoverScan, List
<1>4. ASSUME NEW d \in Procs, RemoveMail(d) \/ IOFails(d) PROVE ScanInv'
      <2>1. \A e \in Procs : e # d => at[e] \in Dead
            BY <1>4, OthersDead DEF RemoveMail, IOFails, Alive, Dead
      <2> QED BY <1>4, <2>1 DEF RemoveMail, IOFails, Resume, Dead
<1>5. ASSUME NEW d \in Procs, Release(d) \/ Crash(d) PROVE ScanInv'
      BY <1>5 DEF Release, Crash, Gone
<1>6. ASSUME NEW d \in Procs, NEW j \in Jobs, Recover(d, j) \/ Dispatch(d, j) PROVE ScanInv'
      BY <1>6 DEF Recover, Dispatch, Take
<1>7. ASSUME NEW j \in Jobs, Rename(j) PROVE ScanInv'
      <2>1. j \notin mail
            BY <1>7 DEF Rename, SentInv
      <2> QED BY <1>7, <2>1 DEF Rename, daemonVars
<1>8. CASE StopSignal
      BY <1>8 DEF StopSignal, Gone, daemonVars
<1> QED BY <1>1, <1>2, <1>3, <1>4, <1>5, <1>6, <1>7, <1>8, NextCases
        DEF vars, daemonVars, Probe, ProbeEnds, WriteTmp, ClientDies, StopRead, StopTidies, StopDone

\* Recovery takes jobs that are old, the loop those that can be read.
LEMMA KindStep == ASSUME IInv, [Next]_vars PROVE KindInv'
<1> USE DaemonAssumption DEF IInv, TypeOK, KindInv, Handling, Go
<1>0. kind' = kind
      BY DEF Next, vars
<1>1. CASE UNCHANGED <<at, todo, job, verdict, old>>
      BY <1>0, <1>1 DEF Malformed
<1>2. ASSUME NEW d \in Procs,
             \/ Start(d) \/ Refuse(d) \/ Again(d) \/ WritePid(d) \/ StartTime(d) \/ Recovered(d)
             \/ HandlerReturns(d) \/ WriteResult(d) \/ ListDone(d) \/ RemovePid(d)
             \/ RecoverScan(d) \/ List(d) \/ RemoveMail(d) \/ IOFails(d)
      PROVE  KindInv'
      BY <1>0, <1>2 DEF Start, Refuse, Again, WritePid, StartTime, Recovered, HandlerReturns, WriteResult,
                  ListDone, RemovePid, RecoverScan, List, RemoveMail, IOFails, Resume, Malformed
<1>3. ASSUME NEW d \in Procs, Release(d) \/ Crash(d) PROVE KindInv'
      BY <1>0, <1>3 DEF Release, Crash, Gone, Malformed
<1>4. ASSUME NEW d \in Procs, NEW j \in Jobs, Recover(d, j) \/ Dispatch(d, j) PROVE KindInv'
      BY <1>0, <1>4 DEF Recover, Dispatch, Take, Malformed
<1>5. CASE StopSignal
      BY <1>0, <1>5 DEF StopSignal, Gone, daemonVars, Malformed
<1> QED BY <1>1, <1>2, <1>3, <1>4, <1>5, NextCases
        DEF vars, daemonVars, Probe, ProbeEnds, WriteTmp, Rename, ClientDies, StopRead, StopTidies, StopDone

\* A verdict is given before it is written, and written before the file is removed.
LEMMA VerdictStep == ASSUME IInv, [Next]_vars PROVE VerdictInv'
<1> USE DaemonAssumption DEF IInv, TypeOK, VerdictInv, ScanInv, Handling, Go
<1>1. CASE UNCHANGED <<at, job, verdict, done, failed, runs>>
      BY <1>1
<1>2. ASSUME NEW d \in Procs,
             \/ Start(d) \/ Refuse(d) \/ Again(d) \/ WritePid(d) \/ StartTime(d) \/ Recovered(d)
             \/ ListDone(d) \/ RemovePid(d) \/ RecoverScan(d) \/ List(d) \/ RemoveMail(d) \/ IOFails(d)
      PROVE  VerdictInv'
      BY <1>2 DEF Start, Refuse, Again, WritePid, StartTime, Recovered,
                  ListDone, RemovePid, RecoverScan, List, RemoveMail, IOFails, Resume
<1>3. ASSUME NEW d \in Procs, HandlerReturns(d) PROVE VerdictInv'
      BY <1>3 DEF HandlerReturns
<1>4. ASSUME NEW d \in Procs, WriteResult(d) PROVE VerdictInv'
      BY <1>4 DEF WriteResult, Reasons
<1>5. ASSUME NEW d \in Procs, Release(d) \/ Crash(d) PROVE VerdictInv'
      BY <1>5 DEF Release, Crash, Gone
<1>6. ASSUME NEW d \in Procs, NEW j \in Jobs, Recover(d, j) \/ Dispatch(d, j) PROVE VerdictInv'
      BY <1>6 DEF Recover, Dispatch, Take
<1>7. CASE StopSignal
      BY <1>7 DEF StopSignal, Gone, daemonVars
<1> QED BY <1>1, <1>2, <1>3, <1>4, <1>5, <1>6, <1>7, NextCases
        DEF vars, daemonVars, Probe, ProbeEnds, WriteTmp, Rename, ClientDies, StopRead, StopTidies, StopDone

\* What is known of a job is known of one whose file was sent.
LEMMA SentStep == ASSUME IInv, [Next]_vars PROVE SentInv'
<1> USE DaemonAssumption DEF IInv, TypeOK, SentInv, Touched, Go
<1>1. CASE UNCHANGED <<client, mail, done, failed, runs>>
      BY <1>1
<1>2. ASSUME NEW d \in Procs, WriteResult(d) \/ RemoveMail(d) PROVE SentInv'
      BY <1>2 DEF WriteResult, RemoveMail, ScanInv, VerdictInv, Handling
<1>3. ASSUME NEW d \in Procs, NEW j \in Jobs, Recover(d, j) \/ Dispatch(d, j) PROVE SentInv'
      BY <1>3 DEF Recover, Dispatch, Take, ScanInv
<1>4. ASSUME NEW j \in Jobs,
             Probe(j) \/ ProbeEnds(j) \/ WriteTmp(j) \/ Rename(j) \/ ClientDies(j)
      PROVE  SentInv'
      BY <1>4 DEF Probe, ProbeEnds, WriteTmp, Rename, ClientDies, Client
<1> QED BY <1>1, <1>2, <1>3, <1>4, NextCases
        DEF vars, daemonVars, Start, Refuse, Again, WritePid, StartTime, Recovered, HandlerReturns,
            ListDone, RemovePid, RecoverScan, List, IOFails, Release, Crash, StopRead, StopSignal,
            StopTidies, StopDone

\* What recovery will find judged or run was written before it began: since then the daemon
\* itself has only failed old jobs, and there is no other.
LEMMA OldStep == ASSUME IInv, [Next]_vars PROVE OldInv'
<1> USE DaemonAssumption DEF IInv, TypeOK, OldInv, Recovering, Touched, Go
<1>1. CASE UNCHANGED <<at, verdict, old, done, failed, runs>>
      BY <1>1
<1>2. ASSUME NEW d \in Procs, Start(d) \/ Refuse(d) \/ Again(d) \/ WritePid(d)
                \/ Recovered(d) \/ ListDone(d) \/ RemovePid(d) \/ RecoverScan(d) \/ List(d)
                \/ RemoveMail(d) \/ IOFails(d)
      PROVE  OldInv'
      BY <1>2 DEF Start, Refuse, Again, WritePid, Recovered, ListDone, RemovePid, RecoverScan, List,
                  RemoveMail, IOFails, Resume
<1>3. ASSUME NEW d \in Procs, StartTime(d) PROVE OldInv'
      BY <1>3 DEF StartTime, SentInv, Touched
<1>4. ASSUME NEW d \in Procs, HandlerReturns(d) PROVE OldInv'
      BY <1>4 DEF HandlerReturns
<1>5. ASSUME NEW d \in Procs, WriteResult(d) PROVE OldInv'
      <2>1. \A e \in Procs : e # d => at[e] \in Dead
            BY <1>5, OthersDead DEF WriteResult, Alive, Dead
      <2> QED BY <1>5, <2>1 DEF WriteResult, KindInv, Dead
<1>6. ASSUME NEW d \in Procs, Release(d) \/ Crash(d) PROVE OldInv'
      BY <1>6 DEF Release, Crash, Gone
<1>7. ASSUME NEW d \in Procs, NEW j \in Jobs, Recover(d, j) \/ Dispatch(d, j) PROVE OldInv'
      <2>1. \A e \in Procs : e # d => at[e] \in Dead
            BY <1>7, OthersDead DEF Recover, Dispatch, Alive, Dead
      <2> QED BY <1>7, <2>1 DEF Recover, Dispatch, Take, Dead
<1>8. CASE StopSignal
      BY <1>8 DEF StopSignal, Gone, daemonVars
<1> QED BY <1>1, <1>2, <1>3, <1>4, <1>5, <1>6, <1>7, <1>8, NextCases
        DEF vars, daemonVars, Probe, ProbeEnds, WriteTmp, Rename, ClientDies, StopRead, StopTidies, StopDone

\* A daemon past its recovery has only fresh jobs before it: what it makes of one it removes,
\* or a file operation has failed.
LEMMA FreshStep == ASSUME IInv, [Next]_vars PROVE FreshInv'
<1> USE DaemonAssumption DEF IInv, TypeOK, FreshInv, Fresh, Touched, Recovering, Handling, Late, Go
<1>1. CASE UNCHANGED <<at, todo, job, verdict, mail, done, failed, runs, faults>>
      BY <1>1
<1>2. ASSUME NEW d \in Procs, Start(d) \/ Refuse(d) \/ Again(d) \/ WritePid(d) \/ StartTime(d)
                \/ Recovered(d) \/ ListDone(d) \/ RemovePid(d) \/ List(d)
      PROVE  FreshInv'
      BY <1>2 DEF Start, Refuse, Again, WritePid, StartTime, Recovered, ListDone, RemovePid, List
<1>3. ASSUME NEW d \in Procs, RecoverScan(d) PROVE FreshInv'
      BY <1>3 DEF RecoverScan, OldInv
<1>4. ASSUME NEW d \in Procs, HandlerReturns(d) PROVE FreshInv'
      BY <1>4 DEF HandlerReturns
<1>5. ASSUME NEW d \in Procs, WriteResult(d) \/ RemoveMail(d) \/ IOFails(d) PROVE FreshInv'
      <2>1. \A e \in Procs : e # d => at[e] \in Dead
            BY <1>5, OthersDead DEF WriteResult, RemoveMail, IOFails, Alive, Dead
      <2>2. CASE WriteResult(d)
            BY <2>1, <2>2 DEF WriteResult, Dead
      <2>3. CASE RemoveMail(d)
            BY <2>1, <2>3 DEF RemoveMail, Resume, Dead
      <2>4. CASE IOFails(d)
            BY <2>1, <2>4 DEF IOFails, Resume, Dead, RunsAreFaults
      <2> QED BY <1>5, <2>2, <2>3, <2>4
<1>6. ASSUME NEW d \in Procs, Release(d) \/ Crash(d) PROVE FreshInv'
      BY <1>6 DEF Release, Crash, Gone
<1>7. ASSUME NEW d \in Procs, NEW j \in Jobs, Recover(d, j) \/ Dispatch(d, j) PROVE FreshInv'
      <2>1. \A e \in Procs : e # d => at[e] \in Dead
            BY <1>7, OthersDead DEF Recover, Dispatch, Alive, Dead
      <2> QED BY <1>7, <2>1 DEF Recover, Dispatch, Take, Dead
<1>8. CASE StopSignal
      BY <1>8 DEF StopSignal, Gone, daemonVars
<1>9. ASSUME NEW j \in Jobs, Rename(j) PROVE FreshInv'
      BY <1>9 DEF Rename, SentInv, daemonVars
<1> QED BY <1>1, <1>2, <1>3, <1>4, <1>5, <1>6, <1>7, <1>8, <1>9, NextCases
        DEF vars, daemonVars, Probe, ProbeEnds, WriteTmp, ClientDies, StopRead, StopTidies, StopDone

\* What is taken without a verdict of recovery is fresh; it is settled before anything else is.
LEMMA TakenStep == ASSUME IInv, [Next]_vars PROVE TakenInv'
<1> USE DaemonAssumption DEF IInv, TypeOK, TakenInv, Go
<1>1. CASE UNCHANGED <<at, job, verdict, done, failed, faults>>
      BY <1>1
<1>2. ASSUME NEW d \in Procs, Start(d) \/ Refuse(d) \/ Again(d) \/ WritePid(d) \/ StartTime(d)
                \/ Recovered(d) \/ ListDone(d) \/ RemovePid(d) \/ List(d) \/ RecoverScan(d)
                \/ HandlerReturns(d)
      PROVE  TakenInv'
      BY <1>2 DEF Start, Refuse, Again, WritePid, StartTime, Recovered, ListDone, RemovePid, List,
                  RecoverScan, HandlerReturns, VerdictInv
<1>3. ASSUME NEW d \in Procs, WriteResult(d) \/ RemoveMail(d) \/ IOFails(d) PROVE TakenInv'
      <2>1. \A e \in Procs : e # d => at[e] \in Dead
            BY <1>3, OthersDead DEF WriteResult, RemoveMail, IOFails, Alive, Dead
      <2> QED BY <1>3, <2>1 DEF WriteResult, RemoveMail, IOFails, Resume, Dead
<1>4. ASSUME NEW d \in Procs, Release(d) \/ Crash(d) PROVE TakenInv'
      BY <1>4 DEF Release, Crash, Gone
<1>5. ASSUME NEW d \in Procs, NEW j \in Jobs, Recover(d, j) PROVE TakenInv'
      BY <1>5 DEF Recover, Take
<1>6. ASSUME NEW d \in Procs, NEW j \in Jobs, Dispatch(d, j) PROVE TakenInv'
      <2>1. Fresh(j)
            BY <1>6 DEF Dispatch, Take, FreshInv, ScanInv, KindInv, Handling, Recovering, Late
      <2>2. faults = 0 => j \notin done /\ failed[j] = "no"
            BY <2>1 DEF Fresh, Touched
      <2> QED BY <1>6, <2>2 DEF Dispatch, Take
<1>7. CASE StopSignal
      BY <1>7 DEF StopSignal, Gone, daemonVars
<1> QED BY <1>1, <1>2, <1>3, <1>4, <1>5, <1>6, <1>7, NextCases
        DEF vars, daemonVars, Probe, ProbeEnds, WriteTmp, Rename, ClientDies, StopRead, StopTidies, StopDone

\* A handler runs again only for a job that a fault has kept in mail/.
LEMMA RunsStep == ASSUME IInv, [Next]_vars PROVE RunsAreFaults'
<1> USE DaemonAssumption DEF IInv, TypeOK, RunsAreFaults
<1>1. CASE UNCHANGED runs /\ (faults' = faults \/ faults' = faults + 1)
      BY <1>1
<1>2. ASSUME NEW d \in Procs, NEW j \in Jobs, Dispatch(d, j) PROVE RunsAreFaults'
      <2>1. Fresh(j)
            BY <1>2 DEF Dispatch, Take, FreshInv, ScanInv, KindInv, Handling, Recovering, Late
      <2> QED BY <1>2, <2>1 DEF Dispatch, Take, Fresh
<1> QED BY <1>1, <1>2, NextCases
        DEF vars, daemonVars, Start, Refuse, Again, Crash, Release, WritePid, StartTime, RecoverScan,
            Recovered, List, HandlerReturns, WriteResult, RemoveMail, IOFails, ListDone, RemovePid,
            Recover, Take, Probe, ProbeEnds, WriteTmp, Rename, ClientDies, StopRead, StopSignal,
            StopTidies, StopDone

\* Without a fault only recovery judges what was judged before.
LEMMA AgreeStep == ASSUME IInv, [Next]_vars PROVE VerdictsAgree'
<1> USE DaemonAssumption DEF IInv, TypeOK, VerdictsAgree
<1>1. CASE UNCHANGED <<done, failed>> /\ (faults' = faults \/ faults' = faults + 1)
      BY <1>1
<1>2. ASSUME NEW d \in Procs, WriteResult(d) PROVE VerdictsAgree'
      BY <1>2 DEF WriteResult, TakenInv
<1> QED BY <1>1, <1>2, NextCases
        DEF vars, daemonVars, Start, Refuse, Again, Crash, Release, WritePid, StartTime, RecoverScan,
            Recovered, List, HandlerReturns, RemoveMail, IOFails, ListDone, RemovePid, Dispatch,
            Recover, Take, Probe, ProbeEnds, WriteTmp, Rename, ClientDies, StopRead, StopSignal,
            StopTidies, StopDone

LEMMA Invariance == Spec => []IInv
<1>1. IInv /\ [Next]_vars => IInv'
      BY TypeStep, LockStep, PidStep, ScanStep, KindStep, VerdictStep, SentStep, OldStep, FreshStep,
         TakenStep, RunsStep, AgreeStep DEF IInv
<1> QED BY <1>1, InitInv, PTL DEF Spec

-----------------------------------------------------------------------------
\* Two daemons are never past Acquire together (lock.go, run.go:60-64): the flock is one.
THEOREM OnlyOneDaemon == Spec => []OneDaemon
<1>1. IInv => OneDaemon
      BY DEF IInv, LockInv, Alive, OneDaemon
<1> QED BY <1>1, Invariance, PTL

\* No handler runs twice, no two verdicts disagree and no job written after the start is failed
\* for a crash, but by a file operation that failed (run.go:141-190, 198-225).
THEOREM TrueVerdicts == Spec => []VerdictsAreTrue
<1>1. IInv => VerdictsAreTrue
      BY DEF IInv, KindInv, VerdictsAreTrue, FreshIsSpared
<1> QED BY <1>1, Invariance, PTL

\* A daemon that ends finds its own pid or none in the pid file (run.go:64, 74), and only the
\* recovery of a later start takes a malformed envelope out of mail/ (docs/daemon.md:888).
THEOREM FilesStayPut == Spec => FilesStay
<1> DEFINE Own == \A d \in Procs : at[d] = "poll" /\ at'[d] = "exit" => pidfile \in {d, NoProc}
           Stays == \A j \in Jobs : j \in Malformed /\ j \in mail \ mail' =>
                        \E d \in Procs : at[d] = "clear" /\ job[d] = j /\ verdict[d] = "crashed"
<1>1. IInv /\ [Next]_vars => Own
      BY DEF IInv, PidInv, Dead, vars, daemonVars
<1>2. IInv /\ [Next]_vars => Stays
  <2> SUFFICES ASSUME IInv, [Next]_vars, NEW j \in Jobs, j \in Malformed, j \in mail, j \notin mail'
               PROVE  \E d \in Procs : at[d] = "clear" /\ job[d] = j /\ verdict[d] = "crashed"
      OBVIOUS
  <2>1. PICK d \in Procs : RemoveMail(d)
      BY NextCases
      DEF vars, daemonVars, Start, Refuse, Again, Crash, Release, WritePid, StartTime, RecoverScan,
          Recovered, List, HandlerReturns, WriteResult, IOFails, ListDone, RemovePid, Dispatch,
          Recover, Take, Probe, ProbeEnds, WriteTmp, Rename, ClientDies, StopRead, StopSignal,
          StopTidies, StopDone
  <2> QED BY <2>1 DEF RemoveMail, IInv, KindInv, Handling
<1>3. IInv /\ [Next]_vars => [Own]_vars /\ [Stays]_vars
      BY <1>1, <1>2
<1> QED BY <1>3, Invariance, PTL DEF Spec, FilesStay, OwnPidOnly, MalformedStays

\* The mailbox implements JobMail: a rename accepts a job, a handler that starts tries it, a
\* result that is written judges it, the removal of its file closes it, and nothing else shows.
LEMMA PromiseInit == Init => Promise!Init
<1> SUFFICES ASSUME Init PROVE Promise!Init
    OBVIOUS
<1>1. {j \in Jobs : runs[j] > 0} = {} /\ \A j \in Jobs : Verdicts(j) = {}
      BY DEF Init, Verdicts
<1> QED BY <1>1 DEF Promise!Init, Init

LEMMA PromiseStep == ASSUME IInv, [Next]_vars PROVE [Promise!Next]_Promise!vars
<1> DEFINE tried == {j \in Jobs : runs[j] > 0}
           verdicts == [j \in Jobs |-> Verdicts(j)]
<1> USE DaemonAssumption DEF IInv, TypeOK
<1>1. CASE UNCHANGED <<mail, done, failed, runs>>
      BY <1>1 DEF Promise!vars, Verdicts
<1>2. ASSUME NEW j \in Jobs, Rename(j) PROVE Promise!Accept(j)
  <2>1. ~Touched(j) /\ j \notin mail
        BY <1>2 DEF Rename, SentInv
  <2>2. verdicts[j] = {}
        BY <2>1 DEF Touched, Verdicts
  <2>3. UNCHANGED <<tried, verdicts>>
        BY <1>2 DEF Rename, Verdicts
  <2> QED BY <1>2, <2>1, <2>2, <2>3 DEF Promise!Accept, Rename
<1>3. ASSUME NEW d \in Procs, NEW j \in Jobs, Recover(d, j) \/ Dispatch(d, j), runs' # runs
      PROVE  Promise!Try(j)
  <2>1. j \in mail /\ runs' = [runs EXCEPT ![j] = @ + 1] /\ UNCHANGED <<mail, done, failed>>
        BY <1>3 DEF Recover, Dispatch, Take, ScanInv
  <2>2. tried' = tried \cup {j}
        BY <2>1
  <2>3. verdicts' = verdicts
        BY <2>1 DEF Verdicts
  <2> QED BY <2>1, <2>2, <2>3 DEF Promise!Try
<1>4. ASSUME NEW d \in Procs, WriteResult(d)
      PROVE  \E v \in {"done", "failed"} : Promise!Judge(job[d], v)
  <2> DEFINE v == IF verdict[d] = "done" THEN "done" ELSE "failed"
  <2>1. job[d] \in Jobs /\ job[d] \in mail /\ UNCHANGED <<mail, tried>>
        BY <1>4 DEF WriteResult, ScanInv, Handling
  <2>2. v = "done" => job[d] \in tried
        BY <1>4, <2>1 DEF WriteResult, VerdictInv
  <2>3. \A j \in Jobs : Verdicts(j)' = IF j = job[d] THEN Verdicts(j) \cup {v} ELSE Verdicts(j)
        BY <1>4, <2>1 DEF WriteResult, Verdicts, VerdictInv
  <2>4. verdicts' = [verdicts EXCEPT ![job[d]] = @ \cup {v}]
        BY <2>1, <2>3
  <2>5. Promise!Judge(job[d], v)
        BY <2>1, <2>2, <2>4 DEF Promise!Judge
  <2> QED BY <2>5
<1>5. ASSUME NEW d \in Procs, RemoveMail(d) PROVE Promise!Close(job[d])
  <2>1. job[d] \in Jobs /\ job[d] \in mail /\ mail' = mail \ {job[d]} /\ UNCHANGED <<tried, done, failed>>
        BY <1>5 DEF RemoveMail, ScanInv, Handling
  <2>2. verdicts[job[d]] # {}
        BY <1>5, <2>1 DEF RemoveMail, VerdictInv, Verdicts
  <2>3. verdicts' = verdicts
        BY <2>1 DEF Verdicts
  <2> QED BY <2>1, <2>2, <2>3 DEF Promise!Close
<1>6. \A d \in Procs : WriteResult(d) \/ RemoveMail(d) => job[d] \in Jobs
      BY DEF WriteResult, RemoveMail, ScanInv, Handling
<1> QED BY <1>1, <1>2, <1>3, <1>4, <1>5, <1>6, NextCases
    DEF Promise!Next, vars, daemonVars, Start, Refuse, Again, Crash, Release, WritePid, StartTime,
        RecoverScan, Recovered, List, HandlerReturns, IOFails, ListDone, RemovePid, Dispatch,
        Recover, Take, Probe, ProbeEnds, WriteTmp, ClientDies, StopRead, StopSignal, StopTidies,
        StopDone

\* However daemons, clients and the stop command interleave, crash and restart, a job closes only
\* with a verdict, and done/ speaks only of jobs that were tried (mailbox.go:52-187).
THEOREM PromiseKept == Spec => KeepsPromise
BY PromiseInit, PromiseStep, Invariance, PTL DEF Spec, KeepsPromise, Promise!Spec

\* All that the mailbox's run checks of files: the promise, and what may remove a file.
THEOREM SafeMail == Spec => MailIsSafe
BY PromiseKept, FilesStayPut DEF MailIsSafe
=============================================================================

------------------------------- MODULE Daemon -------------------------------
(***************************************************************************)
(* The background daemon and its mailbox (internal/daemon), the commands   *)
(* that start and stop it (daemon_cli.go) and the TUIs that submit jobs to *)
(* it (ui/model.go).  They share a directory and nothing else: the flock   *)
(* on daemon.lock, daemon.pid, and a job's file in mail/, done/ and        *)
(* failed/.  Every file operation is a step; any process may die between   *)
(* two of them.                                                            *)
(*                                                                         *)
(* A pid names at most one living daemon.  A pid that went to a program    *)
(* which is no daemon, the order of jobs within a poll (by ULID, which is  *)
(* random within a millisecond), and the failed/ entry that recovery       *)
(* writes for a left-over .tmp file under a name no job has, are left out. *)
(***************************************************************************)
EXTENDS Naturals, FiniteSets

CONSTANTS
    Procs,     \* pids a daemon may run under
    Jobs,      \* job ids, each submitted once
    Kinds,     \* what the jobs may be, a set of functions from Jobs to Kind
    NoProc, NoJob,
    MaxFaults  \* bound: file operations of Complete and Fail that fail

\* A checkpoint a TUI submits, an envelope that does not parse, or one of a kind that has
\* no handler; the last two are put in mail/ by hand.
Kind == {"checkpoint", "malformed", "unknown"}

ASSUME DaemonAssumption ==
    /\ Kinds \subseteq [Jobs -> Kind]
    /\ NoProc \notin Procs /\ NoProc \notin Jobs
    /\ NoJob \notin Jobs /\ Procs \cap Jobs = {}
    /\ MaxFaults \in Nat

VARIABLES
    kind,    \* what each job is; never changes
    lock,    \* who holds the flock: a daemon, a probing client, or nobody
    pidfile, \* daemon.pid
    mail,    \* jobs with a file in mail/
    done,    \* jobs with a result in done/
    failed,  \* what failed/ says of each job
    at,      \* where each daemon is in Run
    todo,    \* what its current scan of mail/ has still to handle
    job,     \* the job it is handling
    verdict, \* what it is about to record of it
    term,    \* daemons whose loopCtx is cancelled
    old,     \* jobs whose file was last written before its startTime
    client,  \* the TUI command that submits each job
    stop,    \* the `daemon stop` command: where it is, the pid it read
    runs,    \* history: how often each job's handler ran
    faults   \* file operations that failed

Malformed == {j \in Jobs : kind[j] = "malformed"}
Unknown == {j \in Jobs : kind[j] = "unknown"}

daemonVars == <<at, todo, job, verdict, term, old>>
vars == <<kind, lock, pidfile, mail, done, failed, daemonVars, client, stop, runs, faults>>

Dead == {"off", "refused"}
Early == {"locked", "named", "clocked", "recover"} \* before signal.Notify
Late == {"first", "poll", "work", "run"}           \* signals cancel loopCtx
Reasons == {"failed", "cancelled", "unknown", "crashed"}

TypeOK ==
    /\ kind \in Kinds
    /\ lock \in Procs \cup Jobs \cup {NoProc}
    /\ pidfile \in Procs \cup {NoProc}
    /\ mail \subseteq Jobs /\ done \subseteq Jobs
    /\ failed \in [Jobs -> Reasons \cup {"no"}]
    /\ at \in [Procs -> Dead \cup Early \cup Late \cup {"settle", "clear", "exit"}]
    /\ todo \in [Procs -> SUBSET Jobs]
    /\ job \in [Procs -> Jobs \cup {NoJob}]
    /\ verdict \in [Procs -> Reasons \cup {"done", "no"}]
    /\ term \subseteq Procs
    /\ old \in [Procs -> SUBSET Jobs]
    /\ client \in [Jobs -> {"idle", "probing", "found", "written", "sent", "skipped", "dead"}]
    /\ stop \in [at : {"idle", "notRunning", "signal", "gone", "sent"},
                 pid : Procs \cup {NoProc}]
    /\ runs \in [Jobs -> Nat]
    /\ faults \in 0 .. MaxFaults

Init ==
    /\ kind \in Kinds
    /\ lock = NoProc /\ pidfile = NoProc
    /\ mail = {} /\ done = {} /\ failed = [j \in Jobs |-> "no"]
    /\ at = [d \in Procs |-> "off"]
    /\ todo = [d \in Procs |-> {}]
    /\ job = [d \in Procs |-> NoJob]
    /\ verdict = [d \in Procs |-> "no"]
    /\ term = {}
    /\ old = [d \in Procs |-> {}]
    /\ client = [j \in Jobs |-> "idle"]
    /\ stop = [at |-> "idle", pid |-> NoProc]
    /\ runs = [j \in Jobs |-> 0]
    /\ faults = 0

Go(d, s) == at' = [at EXCEPT ![d] = s]

-----------------------------------------------------------------------------
\* Starting: the lock, the pid file, startTime, the recovery scan.

\* Fault: the lock is taken for stale when there is no pid file.
FaultStart(d) ==
    /\ at[d] = "off"
    /\ lock = NoProc \/ pidfile = NoProc
    /\ lock' = d
    /\ Go(d, "locked")
    /\ UNCHANGED <<pidfile, mail, done, failed, todo, job, verdict, term, old,
                   client, stop, runs, faults>>

Start(d) ==
    /\ at[d] = "off" /\ lock = NoProc
    /\ lock' = d
    /\ Go(d, "locked")
    /\ UNCHANGED <<pidfile, mail, done, failed, todo, job, verdict, term, old,
                   client, stop, runs, faults>>

\* Fault: the pid file is written before the lock is tried.
FaultRefuse(d) ==
    /\ at[d] = "off" /\ lock # NoProc
    /\ pidfile' = d
    /\ Go(d, "refused")
    /\ UNCHANGED <<lock, mail, done, failed, todo, job, verdict, term, old,
                   client, stop, runs, faults>>

\* ErrLocked: the command says that a daemon is already running and exits.
Refuse(d) ==
    /\ at[d] = "off" /\ lock # NoProc
    /\ Go(d, "refused")
    /\ UNCHANGED <<lock, pidfile, mail, done, failed, todo, job, verdict, term, old, client, stop, runs, faults>>

Again(d) ==
    /\ at[d] = "refused"
    /\ Go(d, "off")
    /\ UNCHANGED <<lock, pidfile, mail, done, failed, todo, job, verdict, term, old, client, stop, runs, faults>>

WritePid(d) ==
    /\ at[d] = "locked"
    /\ pidfile' = d
    /\ Go(d, "named")
    /\ UNCHANGED <<lock, mail, done, failed, todo, job, verdict, term, old,
                   client, stop, runs, faults>>

\* A file's mtime is that of its last write, to the .tmp name; the rename
\* that makes it a job keeps it.
StartTime(d) ==
    /\ at[d] = "named"
    /\ old' = [old EXCEPT ![d] = {j \in Jobs : client[j] \in {"written", "sent"}}]
    /\ Go(d, "clocked")
    /\ UNCHANGED <<lock, pidfile, mail, done, failed, todo, job, verdict, term,
                   client, stop, runs, faults>>

\* Fault: the jobs a crash left behind are run again.
FaultRequeue(d) ==
    /\ at[d] = "clocked"
    /\ Go(d, "recover")
    /\ UNCHANGED <<lock, pidfile, mail, done, failed, todo, job, verdict, term, old, client, stop, runs, faults>>

\* Fault: start times are not compared.
FaultAllOld(d) ==
    /\ at[d] = "clocked"
    /\ todo' = [todo EXCEPT ![d] = mail]
    /\ Go(d, "recover")
    /\ UNCHANGED <<lock, pidfile, mail, done, failed, job, verdict, term, old,
                   client, stop, runs, faults>>

RecoverScan(d) ==
    /\ at[d] = "clocked"
    /\ todo' = [todo EXCEPT ![d] = mail \cap old[d]]
    /\ Go(d, "recover")
    /\ UNCHANGED <<lock, pidfile, mail, done, failed, job, verdict, term, old,
                   client, stop, runs, faults>>

\* Takes the next job of the scan and what to record of it.
Take(d, j, v, next) ==
    /\ j \in todo[d]
    /\ todo' = [todo EXCEPT ![d] = @ \ {j}]
    /\ job' = [job EXCEPT ![d] = j]
    /\ verdict' = [verdict EXCEPT ![d] = v]
    /\ Go(d, next)
    /\ UNCHANGED <<lock, pidfile, mail, done, failed, term, old, client, stop, faults>>

Recover(d, j) ==
    /\ at[d] = "recover"
    /\ Take(d, j, "crashed", "settle")
    /\ UNCHANGED runs

Recovered(d) ==
    /\ at[d] = "recover" /\ todo[d] = {}
    /\ Go(d, "first")
    /\ UNCHANGED <<lock, pidfile, mail, done, failed, todo, job, verdict, term, old, client, stop, runs, faults>>

-----------------------------------------------------------------------------
\* processOnce: list, dispatch, record.  The ticker may win the select
\* against a cancelled loopCtx, so it also runs then.

\* Fault: only jobs newer than the start time are listed.
FaultList(d) ==
    /\ at[d] \in {"first", "poll"}
    /\ todo' = [todo EXCEPT ![d] = (mail \ Malformed) \ old[d]]
    /\ Go(d, "work")
    /\ UNCHANGED <<lock, pidfile, mail, done, failed, job, verdict, term, old,
                   client, stop, runs, faults>>

\* Fault: an envelope that does not parse goes on to the dispatcher.
FaultListAll(d) ==
    /\ at[d] \in {"first", "poll"}
    /\ todo' = [todo EXCEPT ![d] = mail]
    /\ Go(d, "work")
    /\ UNCHANGED <<lock, pidfile, mail, done, failed, job, verdict, term, old,
                   client, stop, runs, faults>>

List(d) ==
    /\ at[d] \in {"first", "poll"}
    /\ todo' = [todo EXCEPT ![d] = mail \ Malformed]
    /\ Go(d, "work")
    /\ UNCHANGED <<lock, pidfile, mail, done, failed, job, verdict, term, old,
                   client, stop, runs, faults>>

\* Every handler looks at its context first.
Dispatch(d, j) ==
    /\ at[d] = "work"
    /\ \/ /\ j \in Unknown
          /\ Take(d, j, "unknown", "settle")
          /\ UNCHANGED runs
       \/ /\ j \notin Unknown /\ d \in term
          /\ Take(d, j, "cancelled", "settle")
          /\ UNCHANGED runs
       \/ /\ j \notin Unknown /\ d \notin term
          /\ Take(d, j, "no", "run")
          /\ runs' = [runs EXCEPT ![j] = @ + 1]

\* Fault: a failure without a message gets no reason of its own.
FaultHandlerReturns(d) ==
    /\ at[d] = "run"
    /\ \E v \in {"done", "failed", ""} : verdict' = [verdict EXCEPT ![d] = v]
    /\ Go(d, "settle")
    /\ UNCHANGED <<lock, pidfile, mail, done, failed, todo, job, term, old,
                   client, stop, runs, faults>>

HandlerReturns(d) ==
    /\ at[d] = "run"
    /\ \E v \in {"done", "failed"} \cup (IF d \in term THEN {"cancelled"} ELSE {}) :
           verdict' = [verdict EXCEPT ![d] = v]
    /\ Go(d, "settle")
    /\ UNCHANGED <<lock, pidfile, mail, done, failed, todo, job, term, old,
                   client, stop, runs, faults>>

\* Back to the loop that took the job.
Resume(d) ==
    /\ Go(d, IF verdict[d] = "crashed" THEN "recover" ELSE "work")
    /\ job' = [job EXCEPT ![d] = NoJob]
    /\ verdict' = [verdict EXCEPT ![d] = "no"]

\* Complete and Fail, first half: the result, under its final name at once.
WriteResult(d) ==
    /\ at[d] = "settle"
    /\ IF verdict[d] = "done"
       THEN done' = done \cup {job[d]} /\ UNCHANGED failed
       ELSE failed' = [failed EXCEPT ![job[d]] = verdict[d]] /\ UNCHANGED done
    /\ Go(d, "clear")
    /\ UNCHANGED <<lock, pidfile, mail, todo, job, verdict, term, old, client,
                   stop, runs, faults>>

\* Fault: the file of a completed job stays.
FaultRemoveMail(d) ==
    /\ at[d] = "clear"
    /\ mail' = IF verdict[d] = "done" THEN mail ELSE mail \ {job[d]}
    /\ Resume(d)
    /\ UNCHANGED <<lock, pidfile, done, failed, todo, term, old, client, stop,
                   runs, faults>>

\* Second half.
RemoveMail(d) ==
    /\ at[d] = "clear"
    /\ mail' = mail \ {job[d]}
    /\ Resume(d)
    /\ UNCHANGED <<lock, pidfile, done, failed, todo, term, old, client, stop,
                   runs, faults>>

\* Fault: the job is removed although its result could not be written.
FaultIOFails(d) ==
    /\ at[d] \in {"settle", "clear"} /\ faults < MaxFaults
    /\ faults' = faults + 1
    /\ mail' = mail \ {job[d]}
    /\ Resume(d)
    /\ UNCHANGED <<lock, pidfile, done, failed, todo, term, old, client, stop,
                   runs>>

\* Either half fails: the error is logged and the job stays in mail/.
IOFails(d) ==
    /\ at[d] \in {"settle", "clear"} /\ faults < MaxFaults
    /\ faults' = faults + 1
    /\ Resume(d)
    /\ UNCHANGED <<lock, pidfile, mail, done, failed, todo, term, old, client,
                   stop, runs>>

ListDone(d) ==
    /\ at[d] = "work" /\ todo[d] = {}
    /\ Go(d, "poll")
    /\ UNCHANGED <<lock, pidfile, mail, done, failed, todo, job, verdict, term, old, client, stop, runs, faults>>

-----------------------------------------------------------------------------
\* Ending: the deferred calls in their order, or death at any point.

\* Fault: the daemon stays until mail/ is empty.
FaultRemovePid(d) ==
    /\ at[d] = "poll" /\ d \in term /\ mail = {}
    /\ pidfile' = NoProc
    /\ Go(d, "exit")
    /\ UNCHANGED <<lock, mail, done, failed, todo, job, verdict, term, old,
                   client, stop, runs, faults>>

RemovePid(d) ==
    /\ at[d] = "poll" /\ d \in term
    /\ pidfile' = NoProc
    /\ Go(d, "exit")
    /\ UNCHANGED <<lock, mail, done, failed, todo, job, verdict, term, old,
                   client, stop, runs, faults>>

\* The process is gone, and the kernel drops its flock.
Gone(d) ==
    /\ Go(d, "off")
    /\ lock' = NoProc
    /\ todo' = [todo EXCEPT ![d] = {}]
    /\ job' = [job EXCEPT ![d] = NoJob]
    /\ verdict' = [verdict EXCEPT ![d] = "no"]
    /\ term' = term \ {d}
    /\ old' = [old EXCEPT ![d] = {}]

Release(d) ==
    /\ at[d] = "exit"
    /\ Gone(d)
    /\ UNCHANGED <<pidfile, mail, done, failed, client, stop, runs, faults>>

Crash(d) ==
    /\ at[d] \notin Dead
    /\ Gone(d)
    /\ UNCHANGED <<pidfile, mail, done, failed, client, stop, runs, faults>>

-----------------------------------------------------------------------------
\* `daemon stop`: read the pid file, signal, and tidy up after a dead daemon.

StopRead ==
    /\ stop.at = "idle"
    /\ stop' = IF pidfile = NoProc THEN [at |-> "notRunning", pid |-> NoProc]
                                   ELSE [at |-> "signal", pid |-> pidfile]
    /\ UNCHANGED <<lock, pidfile, mail, done, failed, daemonVars, client, runs, faults>>

\* signal.Notify has been called and signal.Stop has not.
Handles(d) ==
    \/ at[d] \in Late
    \/ at[d] \in {"settle", "clear"} /\ verdict[d] # "crashed"

\* SIGTERM cancels loopCtx, or kills a daemon that does not handle it.
StopSignal ==
    /\ stop.at = "signal"
    /\ IF at[stop.pid] \in Dead
       THEN /\ stop' = [stop EXCEPT !.at = "gone"]
            /\ UNCHANGED <<lock, daemonVars>>
       ELSE /\ stop' = [stop EXCEPT !.at = "sent"]
            /\ IF Handles(stop.pid)
               THEN term' = term \cup {stop.pid}
                    /\ UNCHANGED <<lock, at, todo, job, verdict, old>>
               ELSE Gone(stop.pid)
    /\ UNCHANGED <<pidfile, mail, done, failed, client, runs, faults>>

StopTidies ==
    /\ stop.at = "gone"
    /\ pidfile' = NoProc
    /\ stop' = [at |-> "notRunning", pid |-> NoProc]
    /\ UNCHANGED <<lock, mail, done, failed, daemonVars, client, runs, faults>>

StopDone ==
    /\ stop.at \in {"notRunning", "sent"}
    /\ stop' = [at |-> "idle", pid |-> NoProc]
    /\ UNCHANGED <<lock, pidfile, mail, done, failed, daemonVars, client, runs, faults>>

-----------------------------------------------------------------------------
\* A TUI submits a checkpoint after a turn, if the lock is held.

Client(j, s) == client' = [client EXCEPT ![j] = s]

\* IsLocked takes the lock to see whether it is held.
Probe(j) ==
    /\ client[j] = "idle" /\ j \notin Malformed \cup Unknown
    /\ IF lock = NoProc THEN lock' = j /\ Client(j, "probing")
                        ELSE UNCHANGED lock /\ Client(j, "found")
    /\ UNCHANGED <<pidfile, mail, done, failed, daemonVars, stop, runs, faults>>

ProbeEnds(j) ==
    /\ client[j] = "probing"
    /\ lock' = NoProc
    /\ Client(j, "skipped")
    /\ UNCHANGED <<pidfile, mail, done, failed, daemonVars, stop, runs, faults>>

WriteTmp(j) ==
    /\ \/ client[j] = "found"
       \/ client[j] = "idle" /\ j \in Malformed \cup Unknown
    /\ Client(j, "written")
    /\ UNCHANGED <<lock, pidfile, mail, done, failed, daemonVars, stop, runs, faults>>

Rename(j) ==
    /\ client[j] = "written"
    /\ mail' = mail \cup {j}
    /\ Client(j, "sent")
    /\ UNCHANGED <<lock, pidfile, done, failed, daemonVars, stop, runs, faults>>

ClientDies(j) ==
    /\ client[j] \in {"probing", "found", "written"}
    /\ lock' = IF lock = j THEN NoProc ELSE lock
    /\ Client(j, "dead")
    /\ UNCHANGED <<pidfile, mail, done, failed, daemonVars, stop, runs, faults>>

-----------------------------------------------------------------------------
DaemonStep(d) ==
    \/ WritePid(d) \/ StartTime(d) \/ RecoverScan(d) \/ Recovered(d)
    \/ List(d) \/ HandlerReturns(d) \/ WriteResult(d) \/ RemoveMail(d) \/ IOFails(d)
    \/ ListDone(d) \/ RemovePid(d) \/ Release(d)
    \/ \E j \in Jobs : Recover(d, j) \/ Dispatch(d, j)

ClientStep(j) == Probe(j) \/ ProbeEnds(j) \/ WriteTmp(j) \/ Rename(j) \/ ClientDies(j)

StopStep == StopRead \/ StopSignal \/ StopTidies \/ StopDone

Next ==
    /\ UNCHANGED kind
    /\ \/ \E d \in Procs : Start(d) \/ Refuse(d) \/ Again(d) \/ DaemonStep(d) \/ Crash(d)
       \/ \E j \in Jobs : ClientStep(j)
       \/ StopStep

Spec == Init /\ [][Next]_vars

\* A living daemon takes its next step; handlers are bounded by a timeout of
\* their own.  A select between a tick and a cancelled context, asked again
\* and again, takes both: Go picks at random.  Nothing is assumed of crashes,
\* faults, commands and clients.
Fairness ==
    \A d \in Procs :
        /\ WF_vars(DaemonStep(d) /\ UNCHANGED kind)
        /\ SF_vars(RemovePid(d) /\ UNCHANGED kind)

LiveSpec == Spec /\ Fairness

-----------------------------------------------------------------------------
\* Properties.

\* Two daemons are never past Acquire together, whatever crashes, probes and
\* stop commands come between (lock.go, run.go:60-64).
OneDaemon ==
    \A d, e \in Procs : {at[d], at[e]} \cap Dead = {} => d = e

\* A daemon that ends removes its own pid file or none, never the one of the
\* daemon started after it: the pid file goes before the lock (run.go:64, 74).
OwnPidOnly ==
    [][\A d \in Procs :
          at[d] = "poll" /\ at'[d] = "exit" => pidfile \in {d, NoProc}]_vars

\* A handler runs a second time for a job only if recording the first run
\* failed; crashes, restarts and polls alone never repeat one.
RunsAreFaults == \A j \in Jobs : runs[j] <= 1 + faults

\* done/ and failed/ both speak of a job only if recovery found a job that a
\* daemon had completed and not yet removed, or if a file operation failed.
VerdictsAgree ==
    \A j \in done : failed[j] \in {"no", "crashed"} \/ faults > 0

\* No daemon, recovering, fails a job that was written after it started.
FreshIsSpared ==
    \A d \in Procs : verdict[d] = "crashed" => job[d] \in old[d]

\* What becomes of a job is what JobMail promises.
Verdicts(j) ==
    (IF j \in done THEN {"done"} ELSE {}) \cup (IF failed[j] = "no" THEN {} ELSE {"failed"})

Promise ==
    INSTANCE JobMail WITH open <- mail, tried <- {j \in Jobs : runs[j] > 0},
                          verdict <- [j \in Jobs |-> Verdicts(j)]

\* Files, crashes and restarts together keep the promise of JobMail: a job closes only with
\* a verdict, and done/ speaks only of jobs that were tried.
KeepsPromise == Promise!Spec

\* A well-formed job in mail/ leaves it, or the daemon that lives ends.
Served ==
    \A j \in Jobs :
        j \in mail \ Malformed ~> (j \notin mail \/ \A d \in Procs : at[d] \in Dead)

\* A daemon told to stop while it can hear it ends, however much is queued.
StopStops == \A d \in Procs : d \in term ~> at[d] = "off"

\* "Malformed envelopes are left in mail/, not auto-deleted" (docs/daemon.md:888): only
\* the recovery of a later start, which does not look inside, takes one away.
MalformedStays ==
    [][\A j \in Jobs : j \in Malformed /\ j \in mail \ mail' =>
          \E d \in Procs : at[d] = "clear" /\ job[d] = j /\ verdict[d] = "crashed"]_vars

\* No job is run again or judged against the facts, but by a fault the model counts.
VerdictsAreTrue == TypeOK /\ RunsAreFaults /\ VerdictsAgree /\ FreshIsSpared

\* A file is removed only by the daemon that may: its pid file, a malformed envelope.
FilesStay == OwnPidOnly /\ MalformedStays

\* The mailbox keeps JobMail's promise, and no file of it or of the daemon goes astray.
MailIsSafe == KeepsPromise /\ FilesStay

\* A job is settled and a stop obeyed, in the end.
Settles == Served /\ StopStops
=============================================================================

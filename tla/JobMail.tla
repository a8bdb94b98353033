------------------------------- MODULE JobMail -------------------------------
(***************************************************************************)
(* What the daemon's mailbox promises of a job, with nothing of how: an    *)
(* accepted job stays open until it has a verdict, it is worked on and     *)
(* judged only while it is open, and "done" is said only of a job that was *)
(* tried.  A job may be tried and judged more than once before it closes.  *)
(***************************************************************************)
CONSTANT Jobs

VARIABLES open, tried, verdict

vars == <<open, tried, verdict>>

Init ==
    /\ open = {}
    /\ tried = {}
    /\ verdict = [j \in Jobs |-> {}]

Accept(j) ==
    /\ j \notin open /\ verdict[j] = {}
    /\ open' = open \cup {j}
    /\ UNCHANGED <<tried, verdict>>

Try(j) ==
    /\ j \in open
    /\ tried' = tried \cup {j}
    /\ UNCHANGED <<open, verdict>>

Judge(j, v) ==
    /\ j \in open
    /\ v = "done" => j \in tried
    /\ verdict' = [verdict EXCEPT ![j] = @ \cup {v}]
    /\ UNCHANGED <<open, tried>>

Close(j) ==
    /\ j \in open /\ verdict[j] # {}
    /\ open' = open \ {j}
    /\ UNCHANGED <<tried, verdict>>

Next ==
    \E j \in Jobs :
        \/ Accept(j) \/ Try(j) \/ Close(j)
        \/ \E v \in {"done", "failed"} : Judge(j, v)

Spec == Init /\ [][Next]_vars
=============================================================================

------------------------------ MODULE MCDaemon ------------------------------
(* Daemon with two pids and two jobs: a checkpoint, and one that is malformed or unknown. *)
EXTENDS Daemon, TLC

CONSTANTS p1, p2, j1, j2

Pids == {p1, p2}
TwoJobs == {j1, j2}
OneGood == {k \in [TwoJobs -> Kind] : k[j1] = "checkpoint" /\ k[j2] # "checkpoint"}
=============================================================================

---------------------------- MODULE MCTerminals -----------------------------
(* Terminals with two calls at a time, on one session whose program prints and asks, *)
(* or starting and closing two sessions whose programs are silent.                   *)
EXTENDS Terminals

\* Bound.  SpawnFails remains for a call that may not spawn, so fairness asks nothing that
\* the bound forbids.
Bound ==
    next' = 2 =>
        /\ ~raced' /\ \A s \in Ids : ses'[s].said = {}
        /\ \A c \in TermCallers : callAt'[c].at \notin {"send", "keys", "resize", "wait", "unmatched"}

MCSpec == Init /\ [][Next /\ Bound]_vars /\ Fairness
=============================================================================

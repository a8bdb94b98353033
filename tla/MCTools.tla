------------------------------ MODULE MCTools ------------------------------
(* What calls of tools go through, on small instances: a behaviour is one of        *)
(* ToolCancel, one of ToolRegistry, one of McpManager, with either calls or lists   *)
(* or names, and the others' state stays as it began.                               *)
EXTENDS ToolCancel, ToolRegistry, McpManager, TLC

Symmetry == Permutations(Names) \cup Permutations(Listers)

UpTo(n, chars) == UNION {[1 .. k -> chars] : k \in 1 .. n}
Servers3 == UpTo(3, {"a", "u"})
Tools4 == UpTo(4, {"a", "u"})

VARIABLE part

\* Bound: calls and two Starts with one server, lists and one Start with two.
Init ==
    /\ part \in {"cancel", "registry", "mcp calls", "mcp lists", "mcp names"}
    /\ CancelInit /\ RegistryInit /\ McpInit /\ NamesInit
    /\ part # "registry" => file = [f \in Files |-> Absent]
    /\ Cardinality(configured) = CASE part = "mcp calls" -> 1 [] part = "mcp lists" -> 2 [] OTHER -> 0

\* Bound: in the two turns three calls or three attempts, and a second call or a second
\* attempt, not both.
CallsOrAttempts ==
    /\ \/ \A t \in Turn : attempt'[t] <= 1
       \/ \A t \in Turn : made'[t] <= 1
    /\ made'[1] + made'[2] <= 3 /\ attempt'[1] + attempt'[2] <= 3

Next ==
    /\ UNCHANGED part
    /\ \/ /\ part = "cancel" /\ CancelNext /\ CallsOrAttempts
          /\ UNCHANGED <<registryVars, mcpVars, nameVars>>
       \/ part = "registry" /\ RegistryNext /\ UNCHANGED <<cancelVars, mcpVars, nameVars>>
       \/ /\ part = "mcp calls" /\ McpNext
          /\ UNCHANGED <<listVars, cancelVars, registryVars, nameVars>>
       \/ /\ part = "mcp lists" /\ McpNext /\ starts' <= 1
          /\ UNCHANGED <<callVars, cancelVars, registryVars, nameVars>>
       \/ part = "mcp names" /\ NamesNext /\ UNCHANGED <<cancelVars, registryVars, mcpVars>>

Spec == Init /\ [][Next]_<<part, cancelVars, registryVars, mcpVars, nameVars>>
=============================================================================

----------------------------- MODULE McpManager -----------------------------
(***************************************************************************)
(* The MCP manager (internal/mcp/manager.go) and its servers (client.go):  *)
(* Start and Stop with their deadlines, the entries they leave, the tools  *)
(* list with its cache, and calls dispatched meanwhile; and the names      *)
(* under which the model sees MCP tools: "mcp__", the server, "__", the    *)
(* tool, collected without duplicates (internal/llm/mcp_tools.go) and      *)
(* taken apart again to route a call.                                      *)
(*                                                                         *)
(* Start makes one server object per configured server; an object is named *)
(* by its server and the Start that made it.  Time is left out: a deadline *)
(* or the cache's lifetime may pass at any moment.  Of the MCP SDK only    *)
(* this is used: Connect returns an error once its context is done, Close  *)
(* may take for ever, and a stdio server is the process of an exec.Cmd,    *)
(* which os/exec kills when the context given to CommandContext is done.   *)
(* Without the fixed prefix, a name is the sequence of its characters: "u" *)
(* stands for the underscore, the others for what server names may hold.   *)
(***************************************************************************)
EXTENDS Naturals, Sequences, FiniteSets

CONSTANTS
    Servers,       \* servers a configuration may list
    Stdio,         \* the ones with the stdio transport
    Listers,       \* concurrent callers of ListAllTools
    Clients,       \* concurrent callers of CallTool
    MaxStarts,     \* bound: calls of Start
    ServerNames,   \* names LoadConfig accepts: any that is not empty
    ToolNames,     \* names validToolName accepts
    MaxTools       \* bound: tools offered

ASSUME McpAssumption ==
    /\ Stdio \subseteq Servers
    /\ MaxStarts \in Nat

ASSUME NamesAssumption ==
    /\ \A name \in ServerNames \cup ToolNames : name \in Seq(STRING) /\ name # <<>>
    /\ MaxTools \in Nat

Obj == Servers \X (1 .. MaxStarts)
NoEntry == [state |-> "none"]
NoTarget == <<>>
NoCache == [of |-> {}, from |-> {}, clean |-> FALSE]
NoList == [of |-> {}, asked |-> {}, left |-> {}, failed |-> FALSE]

VARIABLES
    configured, \* m.cfg.Servers; never changes
    mgr,      \* where the owner of the manager is
    starts,   \* calls of Start so far
    entries,  \* m.entries
    dial,     \* the start goroutine of each object
    done,     \* Starts whose startCtx is done
    session,  \* each object's session
    killed,   \* objects whose process os/exec killed
    tardy,    \* history: objects marked after their Start had returned
    closing,  \* the stop goroutine of each object
    cache,    \* cachedTools: from which objects; history: the objects running when
              \* its list began
    lister,   \* where each ListAllTools is
    list,     \* what it has
    caller,   \* where each CallTool is
    target,   \* the object it looked up
    exposed,  \* the tools of MCPTools: name, server, tool
    offered   \* tools the manager listed so far

ownerVars == <<configured, mgr, starts, entries, dial, done, session, killed, tardy, closing>>
listVars == <<cache, lister, list>>
callVars == <<caller, target>>
mcpVars == <<ownerVars, listVars, callVars>>
nameVars == <<exposed, offered>>

McpTypeOK ==
    /\ configured \subseteq Servers
    /\ mgr \in {"fresh", "starting", "started", "stopping", "stopped"}
    /\ starts \in 0 .. MaxStarts
    /\ \A s \in Servers :
          \/ entries[s] = NoEntry
          \/ entries[s].state \in {"running", "unhealthy"} /\ entries[s].gen \in 1 .. MaxStarts
    /\ dial \in [Obj -> {"none", "dialing", "up", "down", "marked", "over"}]
    /\ done \subseteq 1 .. MaxStarts
    /\ session \in [Obj -> {"none", "open", "closed"}]
    /\ killed \subseteq Obj /\ tardy \subseteq Obj
    /\ closing \in [Obj -> {"none", "wanted", "closing", "over"}]
    /\ cache.from \subseteq Obj
    /\ lister \in [Listers -> {"idle", "asking", "hit", "listed", "partial"}]
    /\ \A c \in Listers : list[c].left \subseteq Obj /\ list[c].asked \subseteq Obj
    /\ caller \in [Clients -> {"idle", "found", "called"}]
    /\ target \in [Clients -> Obj \cup {NoTarget}]

McpInit ==
    /\ configured \in SUBSET Servers
    /\ mgr = "fresh" /\ starts = 0
    /\ entries = [s \in Servers |-> NoEntry]
    /\ dial = [o \in Obj |-> "none"]
    /\ done = {} /\ killed = {} /\ tardy = {}
    /\ session = [o \in Obj |-> "none"]
    /\ closing = [o \in Obj |-> "none"]
    /\ cache = NoCache
    /\ lister = [c \in Listers |-> "idle"]
    /\ list = [c \in Listers |-> NoList]
    /\ caller = [c \in Clients |-> "idle"]
    /\ target = [c \in Clients |-> NoTarget]

\* Servers() and lookupServer: the objects of running entries.
InService == {<<s, entries[s].gen>> : s \in {t \in Servers : entries[t].state = "running"}}
Entered == {<<s, entries[s].gen>> : s \in {t \in Servers : entries[t].state # "none"}}

-----------------------------------------------------------------------------
\* Start: one goroutine per server under both deadlines.

\* Fault: the entry is recorded before its object is made.
FaultStart ==
    /\ mgr \in {"fresh", "stopped"} /\ starts < MaxStarts
    /\ starts' = starts + 1
    /\ mgr' = "starting"
    /\ entries' = [s \in Servers |->
           IF s \in configured THEN [state |-> "unhealthy", gen |-> starts] ELSE NoEntry]
    /\ dial' = [o \in Obj |->
           IF o[1] \in configured /\ o[2] = starts' THEN "dialing" ELSE dial[o]]
    /\ UNCHANGED <<done, session, killed, tardy, closing, listVars, callVars>>

Start ==
    /\ mgr \in {"fresh", "stopped"} /\ starts < MaxStarts
    /\ starts' = starts + 1
    /\ mgr' = "starting"
    /\ entries' = [s \in Servers |->
           IF s \in configured THEN [state |-> "unhealthy", gen |-> starts'] ELSE NoEntry]
    /\ dial' = [o \in Obj |->
           IF o[1] \in configured /\ o[2] = starts' THEN "dialing" ELSE dial[o]]
    /\ UNCHANGED <<done, session, killed, tardy, closing, listVars, callVars>>

\* srv.Start holds the object's mutex meanwhile.  Connect notices a context
\* that is done; one that is not may expire for this server alone.
Connect(o) ==
    /\ dial[o] = "dialing"
    /\ \/ /\ o[2] \notin done
          /\ dial' = [dial EXCEPT ![o] = "up"]
          /\ session' = [session EXCEPT ![o] = "open"]
       \/ /\ dial' = [dial EXCEPT ![o] = "down"]
          /\ UNCHANGED session
    /\ UNCHANGED <<mgr, starts, entries, done, killed, tardy, closing, listVars, callVars>>

\* markRunning or markUnhealthy, by name.
MarkServer(o) ==
    /\ dial[o] \in {"up", "down"}
    /\ entries' = [entries EXCEPT ![o[1]] =
           [state |-> IF dial[o] = "up" THEN "running" ELSE "unhealthy", gen |-> o[2]]]
    /\ dial' = [dial EXCEPT ![o] = "marked"]
    /\ tardy' = IF mgr = "starting" /\ starts = o[2] THEN tardy ELSE tardy \cup {o}
    /\ UNCHANGED <<mgr, starts, done, session, killed, closing, listVars, callVars>>

\* The deferred perCancel: the context of the server's process is done.
PerCancel(o) ==
    /\ dial[o] = "marked"
    /\ dial' = [dial EXCEPT ![o] = "over"]
    /\ killed' = IF o[1] \in Stdio THEN killed \cup {o} ELSE killed
    /\ UNCHANGED <<mgr, starts, entries, done, session, tardy, closing, listVars, callVars>>

\* Every server settled, or ManagerStartTimeout: either way startCtx is done.
StartReturns ==
    /\ mgr = "starting"
    /\ mgr' = "started"
    /\ done' = done \cup {starts}
    /\ UNCHANGED <<starts, entries, dial, session, killed, tardy, closing, listVars, callVars>>

-----------------------------------------------------------------------------
\* Stop: one goroutine per entry that has a server.

\* Fault: only the servers of Servers() are stopped.
FaultStop ==
    /\ mgr = "started"
    /\ mgr' = "stopping"
    /\ closing' = [o \in Obj |-> IF o \in InService THEN "wanted" ELSE closing[o]]
    /\ UNCHANGED <<starts, entries, dial, done, session, killed, tardy, listVars, callVars>>

StopAll ==
    /\ mgr = "started"
    /\ mgr' = "stopping"
    /\ closing' = [o \in Obj |-> IF o \in Entered THEN "wanted" ELSE closing[o]]
    /\ UNCHANGED <<starts, entries, dial, done, session, killed, tardy, listVars, callVars>>

\* baseServer.Stop takes the mutex that srv.Start holds while it dials.
CloseBegins(o) ==
    /\ closing[o] = "wanted" /\ dial[o] # "dialing"
    /\ closing' = [closing EXCEPT ![o] = IF session[o] = "open" THEN "closing" ELSE "over"]
    /\ UNCHANGED <<mgr, starts, entries, dial, done, session, killed, tardy, listVars, callVars>>

CloseEnds(o) ==
    /\ closing[o] = "closing"
    /\ closing' = [closing EXCEPT ![o] = "over"]
    /\ session' = [session EXCEPT ![o] = "closed"]
    /\ UNCHANGED <<mgr, starts, entries, dial, done, killed, tardy, listVars, callVars>>

\* Every goroutine of this Stop is through, or StopTimeout: then the entries go.
StopReturns ==
    /\ mgr = "stopping"
    /\ mgr' = "stopped"
    /\ entries' = [s \in Servers |-> NoEntry]
    /\ UNCHANGED <<starts, dial, done, session, killed, tardy, closing, listVars, callVars>>

-----------------------------------------------------------------------------
\* ListAllTools and its cache.

ListBegins(c) ==
    /\ lister[c] = "idle" /\ mgr \notin {"fresh", "starting"}
    /\ IF cache.clean
       THEN /\ lister' = [lister EXCEPT ![c] = "hit"]
            /\ UNCHANGED list
       ELSE /\ lister' = [lister EXCEPT ![c] = "asking"]
            /\ list' = [list EXCEPT ![c] =
                   [NoList EXCEPT !.of = InService, !.left = InService]]
    /\ UNCHANGED <<ownerVars, cache, callVars>>

Locked(o) == dial[o] = "dialing" \/ closing[o] = "closing"

\* One tools/list; it fails when the server is stopped or its process gone.
ListServer(c, o) ==
    /\ lister[c] = "asking" /\ o \in list[c].left /\ ~ Locked(o)
    /\ \/ /\ session[o] = "open" /\ o \notin killed
          /\ list' = [list EXCEPT ![c].left = @ \ {o}, ![c].asked = @ \cup {o}]
       \/ list' = [list EXCEPT ![c].left = @ \ {o}, ![c].failed = TRUE]
    /\ UNCHANGED <<ownerVars, cache, lister, callVars>>

\* Fault: the partial result of a list with errors is stored too.
FaultListEnds(c) ==
    /\ lister[c] = "asking" /\ list[c].left = {}
    /\ lister' = [lister EXCEPT ![c] = IF list[c].failed THEN "partial" ELSE "listed"]
    /\ cache' = [of |-> list[c].of,
                 from |-> list[c].asked, clean |-> TRUE]
    /\ UNCHANGED <<ownerVars, list, callVars>>

\* storeCache, when no server failed.
ListEnds(c) ==
    /\ lister[c] = "asking" /\ list[c].left = {}
    /\ IF list[c].failed
       THEN /\ lister' = [lister EXCEPT ![c] = "partial"]
            /\ UNCHANGED cache
       ELSE /\ lister' = [lister EXCEPT ![c] = "listed"]
            /\ cache' = [of |-> list[c].of,
                       from |-> list[c].asked, clean |-> TRUE]
    /\ UNCHANGED <<ownerVars, list, callVars>>

ListReturned(c) ==
    /\ lister[c] \in {"hit", "listed", "partial"}
    /\ lister' = [lister EXCEPT ![c] = "idle"]
    /\ list' = [list EXCEPT ![c] = NoList]
    /\ UNCHANGED <<ownerVars, cache, callVars>>

\* InvalidateToolsCache, or the end of the cache's lifetime.
Invalidate ==
    /\ cache # NoCache
    /\ cache' = NoCache
    /\ UNCHANGED <<ownerVars, lister, list, callVars>>

-----------------------------------------------------------------------------
\* CallTool: look up, authorize, dispatch.  The audit hooks are left out.

\* Fault: the entry's state is not looked at.
FaultLookup(c, s) ==
    /\ caller[c] = "idle" /\ mgr \notin {"fresh", "starting"}
    /\ entries[s].state # "none"
    /\ caller' = [caller EXCEPT ![c] = "found"]
    /\ target' = [target EXCEPT ![c] = <<s, entries[s].gen>>]
    /\ UNCHANGED <<ownerVars, listVars>>

Lookup(c, s) ==
    /\ caller[c] = "idle" /\ mgr \notin {"fresh", "starting"}
    /\ entries[s].state = "running"
    /\ caller' = [caller EXCEPT ![c] = "found"]
    /\ target' = [target EXCEPT ![c] = <<s, entries[s].gen>>]
    /\ UNCHANGED <<ownerVars, listVars>>

Authorize(c) ==
    /\ caller[c] = "found"
    /\ caller' = [caller EXCEPT ![c] = "called"]
    /\ UNCHANGED <<ownerVars, listVars, target>>

\* Denied, answered or failed.
CallReturns(c) ==
    /\ \/ caller[c] = "found"
       \/ caller[c] = "called" /\ ~ Locked(target[c])
    /\ caller' = [caller EXCEPT ![c] = "idle"]
    /\ target' = [target EXCEPT ![c] = NoTarget]
    /\ UNCHANGED <<ownerVars, listVars>>

-----------------------------------------------------------------------------
\* The names of the tools that are offered to the model.

Sep == <<"u", "u">>

\* namespaceName.
Namespaced(server, tool) == server \o Sep \o tool

Breaks(name) == {i \in 1 .. Len(name) - 1 : SubSeq(name, i, i + 1) = Sep}

NotAName == [server |-> <<>>, tool |-> <<>>]

\* Fault: the last separator is taken.
FaultSplit(name) ==
    IF Breaks(name) = {} THEN NotAName
    ELSE LET i == CHOOSE i \in Breaks(name) : \A k \in Breaks(name) : k <= i
         IN  [server |-> SubSeq(name, 1, i - 1), tool |-> SubSeq(name, i + 2, Len(name))]

\* SplitNamespacedName: at the first separator, neither part empty.
Split(name) ==
    IF Breaks(name) = {} THEN NotAName
    ELSE LET i == CHOOSE i \in Breaks(name) : \A k \in Breaks(name) : i <= k
         IN  IF i = 1 \/ i = Len(name) - 1 THEN NotAName
             ELSE [server |-> SubSeq(name, 1, i - 1), tool |-> SubSeq(name, i + 2, Len(name))]

NamesInit == exposed = {} /\ offered = 0

\* Fault: duplicates are told by tool and server, not by name.
FaultOffer(s, t) ==
    /\ offered < MaxTools
    /\ offered' = offered + 1
    /\ exposed' = exposed \cup {[name |-> Namespaced(s, t), server |-> s, tool |-> t]}

\* MCPTools: the first tool of a name wins.
Offer(s, t) ==
    /\ offered < MaxTools
    /\ offered' = offered + 1
    /\ exposed' =
           IF \E e \in exposed : e.name = Namespaced(s, t) THEN exposed
           ELSE exposed \cup {[name |-> Namespaced(s, t), server |-> s, tool |-> t]}

NamesNext == \E s \in ServerNames, t \in ToolNames : Offer(s, t)

-----------------------------------------------------------------------------
McpNext ==
    /\ UNCHANGED configured
    /\ \/ Start \/ StartReturns \/ StopAll \/ StopReturns \/ Invalidate
       \/ \E o \in Obj : Connect(o) \/ MarkServer(o) \/ PerCancel(o) \/ CloseBegins(o) \/ CloseEnds(o)
       \/ \E c \in Listers :
             ListBegins(c) \/ ListEnds(c) \/ ListReturned(c) \/ \E o \in Obj : ListServer(c, o)
       \/ \E c \in Clients :
             Authorize(c) \/ CallReturns(c) \/ \E s \in Servers : Lookup(c, s)

McpStep ==
    \/ McpNext /\ UNCHANGED nameVars
    \/ NamesNext /\ UNCHANGED mcpVars

McpSpec == McpInit /\ NamesInit /\ [][McpStep]_<<mcpVars, nameVars>>

-----------------------------------------------------------------------------
\* Properties.

\* A call is dispatched only to an object whose Start succeeded, also while
\* Start's stragglers mark their entries and Stop clears them (manager.go,
\* lookupServer).
DispatchedWasOpen == \A c \in Clients : caller[c] # "idle" => session[target[c]] # "none"

Quiet ==
    \A o \in Obj : dial[o] \in {"none", "over"} /\ closing[o] \in {"none", "over"}

\* The cached catalog is whole: every server that was running when its list
\* began has answered, whatever was stopped or restarted meanwhile
\* (manager.go:300-302, storeCache).
CacheIsWhole == cache.clean => cache.from = cache.of

\* Once Stop has returned and every goroutine is through, no session is left open, whatever
\* finished late and whichever deadline passed: "Stop tears down every started server in
\* parallel" (manager.go:207).  One exception: markRunning stores by name, so a goroutine
\* left over from an earlier Start can hide the object of a later one from Stop.
NoLeak ==
    mgr = "stopped" /\ Quiet =>
        \A o \in Obj : session[o] = "open" => \E p \in tardy : p[1] = o[1] /\ p[2] < o[2]

\* Whatever deadline passes and whoever is late, a call and a list meet servers that were
\* running, and Stop ends them all.
ServersAccounted == McpTypeOK /\ DispatchedWasOpen /\ CacheIsWhole /\ NoLeak

\* A call by the name of an exposed tool reaches that server and that tool exactly when
\* the server's name neither holds a separator nor ends in an underscore; the tool's may.
\* ("server names containing underscores would round-trip wrong but config validation bans
\* them": most come back right, and no validation bans the rest.)
RoutedUnlessAmbiguous ==
    \A e \in exposed :
        Split(e.name) = [server |-> e.server, tool |-> e.tool]
        <=> Breaks(e.server) = {} /\ e.server[Len(e.server)] # "u"

\* Whatever the servers are called, no two exposed tools share a name.
NamesAreUnique == \A d, e \in exposed : d.name = e.name => d = e

\* The name the model sees stands for one tool, and a call by it goes there.
NamesAreTrue == RoutedUnlessAmbiguous /\ NamesAreUnique

\* The tools of MCP servers: a call goes to the server and tool its name stands for, while that
\* server's session is open; nothing outlives Stop, and the list is whole.
McpIsTrue == ServersAccounted /\ NamesAreTrue
=============================================================================

------------------------------ MODULE Settings ------------------------------
(***************************************************************************)
(* What a request is sent with: where to, with which key and which model.  *)
(*                                                                         *)
(* The startup puts a configuration together from the environment, the rc  *)
(* file and the flags (main.go, config.go, rc.go); the slash commands      *)
(* change it and push it into the LLM client, one setter after another     *)
(* (commands.go, agent.go, llm/client.go); each attempt of a turn, in its   *)
(* own goroutine, takes the client's cached model or builds one            *)
(* (ensureModel) and then reads the rest of the settings (streamOnce).     *)
(* agent.config is m.config, one struct, which only the event loop reads   *)
(* and writes here: a command changes it at once, and the client by todo.  *)
(* One attempt at a time; those of an interrupted turn are left out.       *)
(***************************************************************************)
EXTENDS Naturals, Sequences, SequencesExt

CONSTANTS
    Builtin,     \* the built-in profiles, by name; a key is that of the environment
    SavedNames,  \* names profiles are saved under, none of them built in
    Env,         \* what DefaultConfig and DetectProvider may find
    NewModels, NewKeys, NewUrls, NewServices, \* what is typed after /set
    MaxCommands  \* bound: commands and restarts

Provider == {"openai", "anthropic"}
Absent == [provider |-> "none"]
None == [name |-> "none"]
Field == {"provider", "service", "baseURL", "apiKey", "model"}

\* Where a provider sends a request: those of two services ignore the base URL.
Endpoint(c) ==
    IF c.provider = "openai" /\ c.service \in {"openrouter", "vercel"} THEN c.service ELSE c.baseURL

\* A name of a profile is not empty, nor is what is typed (strings.Fields, handleServiceSet), nor
\* anything of a built-in profile but its key (config.go:191-335) or of DefaultConfig.  The address
\* of a service is named after it; DetectProvider takes a profile but for BITCHTEA_MODEL.
ASSUME SettingsAssumption ==
    /\ DOMAIN Builtin \cup SavedNames \subseteq STRING \ {""} /\ DOMAIN Builtin \cap SavedNames = {}
    /\ \A n \in DOMAIN Builtin : Builtin[n] \in [Field -> STRING]
    /\ \A e \in Env :
          /\ e \in [Field \cup {"profile"} -> STRING]
          /\ e.profile \in DOMAIN Builtin =>
                \A f \in Field \ {"model"} : e[f] = Builtin[e.profile][f] \/ Builtin[e.profile][f] = ""
    /\ \A c \in {Builtin[n] : n \in DOMAIN Builtin} \cup Env :
          Endpoint(c) = c.baseURL /\ \A f \in Field \ {"apiKey"} : c[f] # ""
    /\ NewModels \cup NewKeys \cup NewUrls \cup NewServices \subseteq STRING \ {""}
    /\ MaxCommands \in Nat

VARIABLES
    config,   \* m.config: the five fields and the name of the loaded profile
    client,   \* the fields of llm.Client, and whether a debug hook is set
    conn,     \* c.provider: the settings it was built from, or Absent
    cached,   \* c.model: those settings and the model's name, or None
    todo,     \* the setters the running command has still to call
    stored,   \* the profiles on disk
    rc,       \* the lines of the rc file
    attempt,  \* the attempt of the turn: at, conn, name, service
    commands,
  (* history variables *)
    clean,    \* no setter ran since the attempt began, nor was one to come
    lag,      \* config.Service was changed without the client
    asserted, \* /set service was used, in this or an earlier run
    savedAs   \* the configuration /save saw, while nothing was typed since the start after it

settingsVars == <<config, client, conn, cached, todo, stored, rc, attempt, commands,
                  clean, lag, asserted, savedAs>>

-----------------------------------------------------------------------------
(* Configuration. *)

Only(fields, r) == [f \in fields |-> r[f]]

\* ResolveProfile: a saved profile, else a built-in one.
Known(n) == n \in DOMAIN Builtin \/ (n \in SavedNames /\ stored[n] # Absent)
Profile(n) == IF n \in SavedNames THEN stored[n] ELSE Builtin[n]

\* ApplyProfile: what the profile leaves empty stays.
ApplyProfile(c, p) == [f \in DOMAIN c |-> IF f \in Field /\ p[f] # "" THEN p[f] ELSE c[f]]

\* applySetToConfig, on the keys of a connection.
ApplySet(c, s) ==
    IF s.value = "" THEN c
    ELSE CASE s.key = "profile" ->
                IF Known(s.value) THEN [ApplyProfile(c, Profile(s.value)) EXCEPT !.profile = s.value] ELSE c
           [] s.key = "provider" ->
                IF s.value \in Provider
                THEN [c EXCEPT !.provider = s.value, !.service = "custom", !.profile = ""] ELSE c
           [] s.key = "baseURL" -> [c EXCEPT !.baseURL = s.value, !.service = "custom", !.profile = ""]
           [] OTHER -> [c EXCEPT ![s.key] = s.value, !.profile = ""]

\* Fault: the base URL is left out.
FaultSnapshot(c) ==
    [i \in 1 .. 4 |->
        LET k == <<"profile", "provider", "model", "apiKey">>[i] IN [key |-> k, value |-> c[k]]]

\* buildRCSnapshot; an empty value is a line that is not written, and changes nothing.
Snapshot(c) ==
    [i \in 1 .. 5 |->
        LET k == <<"profile", "provider", "model", "baseURL", "apiKey">>[i]
        IN [key |-> k, value |-> c[k]]]

ApplyRCSetCommands(c, lines) == FoldLeft(ApplySet, c, lines)

\* applyStartupConfig: the rc file, then --profile and --model.
Startup(env, lines, profile, model) ==
    LET c == ApplyRCSetCommands(env, lines)
        m == ApplySet(c, [key |-> "model", value |-> model])
    IN IF profile = "" THEN m
       ELSE ApplySet([ApplyProfile(m, Profile(profile)) EXCEPT !.profile = profile],
                     [key |-> "model", value |-> model])

\* The key gate of main, with ProfileAllowsEmptyAPIKey.
MayStart(c) == c.apiKey # "" \/ c.service = "ollama"

Idle == [at |-> "idle", conn |-> Absent, name |-> "", service |-> ""]

\* NewClient, SetService: no hook yet.
NewClient(c) == [f \in Field \cup {"hook"} |-> IF f = "hook" THEN FALSE ELSE c[f]]

\* The program starts in environment e: NewModel and NewClient.
Start(e, profile, model) ==
    LET c == Startup(e, rc, profile, model) IN
    /\ profile # "" => Known(profile)
    /\ MayStart(c)
    /\ config' = c
    /\ client' = NewClient(c)
    /\ conn' = Absent /\ cached' = None
    /\ todo' = <<>>
    /\ attempt' = Idle
    /\ clean' = FALSE
    /\ lag' = FALSE
    /\ savedAs' = IF profile = "" /\ model = "" THEN savedAs ELSE Absent

SettingsInit ==
    /\ config \in {e \in Env : MayStart(e)}
    /\ client = NewClient(config)
    /\ conn = Absent /\ cached = None
    /\ todo = <<>>
    /\ stored = [n \in SavedNames |-> Absent]
    /\ rc = <<>>
    /\ attempt = Idle
    /\ commands = 0
    /\ clean = FALSE /\ lag = FALSE /\ asserted = FALSE
    /\ savedAs = Absent

-----------------------------------------------------------------------------
(* Commands.  The next one is read when the last has called its setters. *)

Typed ==
    /\ todo = <<>>
    /\ commands < MaxCommands
    /\ commands' = commands + 1

Sets(c, fields) == [i \in DOMAIN fields |-> [field |-> fields[i], value |-> c[fields[i]]]]

\* A command leaves configuration c and calls the setters of these fields with it.
Push(c, fields) ==
    /\ Typed
    /\ config' = c
    /\ todo' = Sets(c, fields)
    /\ savedAs' = Absent
    /\ UNCHANGED <<client, conn, cached, stored, rc, attempt, clean>>

\* Fault: the client keeps its service.
FaultSetTransport(f, v) ==
    /\ f \in {"provider", "baseURL"}
    /\ Push([config EXCEPT ![f] = v, !.service = "custom", !.profile = ""], <<f>>)
    /\ UNCHANGED <<lag, asserted>>

\* /set provider and /set baseurl, with any value.
SetTransport(f, v) ==
    /\ f \in {"provider", "baseURL"}
    /\ Push([config EXCEPT ![f] = v, !.service = "custom", !.profile = ""], <<f, "service">>)
    /\ lag' = FALSE
    /\ UNCHANGED asserted

\* Fault: the name of the profile stays.
FaultSetModelOrKey(f, v) ==
    /\ f \in {"model", "apiKey"}
    /\ Push([config EXCEPT ![f] = v], <<f>>)
    /\ UNCHANGED <<lag, asserted>>

\* /set model, /models and /set apikey.
SetModelOrKey(f, v) ==
    /\ f \in {"model", "apiKey"}
    /\ Push([config EXCEPT ![f] = v, !.profile = ""], <<f>>)
    /\ UNCHANGED <<lag, asserted>>

\* /set service: the configuration only.
SetService(v) ==
    /\ Push([config EXCEPT !.service = v], <<>>)
    /\ lag' = TRUE
    /\ asserted' = TRUE

\* /profile load n, /profile n: the setters write what the profile leaves empty as well.
LoadProfile(n) ==
    /\ Known(n)
    /\ Push([f \in Field \cup {"profile"} |-> IF f = "profile" THEN n ELSE Profile(n)[f]],
            <<"service", "provider", "model", "baseURL", "apiKey">>)
    /\ lag' = FALSE
    /\ UNCHANGED asserted

\* /set profile n: an unknown name leaves the configuration; the service is not pushed.
SetProfile(n) ==
    LET c == ApplySet(config, [key |-> "profile", value |-> n]) IN
    /\ Push(c, IF c.profile = "" THEN <<>> ELSE <<"provider", "model", "baseURL", "apiKey">>)
    /\ lag' = (lag \/ c.service # config.service)
    /\ UNCHANGED asserted

\* /profile save, /profile delete.
SaveProfile(n) ==
    /\ Typed
    /\ \E p \in {Only(Field, config), Absent} :
          /\ p = Absent => stored[n] # Absent
          /\ stored' = [stored EXCEPT ![n] = p]
    /\ savedAs' = Absent
    /\ UNCHANGED <<config, client, conn, cached, todo, rc, attempt, clean, lag, asserted>>

\* /save.
SaveRc ==
    /\ Typed
    /\ rc' = Snapshot(config)
    /\ savedAs' = config
    /\ UNCHANGED <<config, client, conn, cached, todo, stored, attempt, clean, lag, asserted>>

\* /debug on, /debug off: without a hook, off does nothing.
Debug(on) ==
    /\ Typed
    /\ todo' = IF on \/ client.hook THEN <<[field |-> "hook", value |-> on]>> ELSE <<>>
    /\ UNCHANGED <<config, client, conn, cached, stored, rc, attempt, clean, lag, asserted, savedAs>>

\* The process ends, also in the middle of a command, and starts again.
Restart(e, profile, model) ==
    /\ commands < MaxCommands
    /\ commands' = commands + 1
    /\ Start(e, profile, model)
    /\ UNCHANGED <<stored, rc, asserted>>

\* Fault: the service is not part of what the provider was built from.
FaultSetter ==
    LET s == Head(todo) IN
    /\ todo # <<>>
    /\ todo' = Tail(todo)
    /\ client' = [client EXCEPT ![s.field] = s.value]
    /\ IF s.field = "service" THEN UNCHANGED <<conn, cached>> ELSE conn' = Absent /\ cached' = None
    /\ clean' = FALSE
    /\ UNCHANGED <<config, stored, rc, attempt, commands, lag, asserted, savedAs>>

\* SetService, SetProvider, SetModel, SetBaseURL, SetAPIKey or SetDebugHook of the client.
Setter ==
    LET s == Head(todo) IN
    /\ todo # <<>>
    /\ todo' = Tail(todo)
    /\ client' = [client EXCEPT ![s.field] = s.value]
    /\ conn' = Absent /\ cached' = None
    /\ clean' = FALSE
    /\ UNCHANGED <<config, stored, rc, attempt, commands, lag, asserted, savedAs>>

-----------------------------------------------------------------------------
(* An attempt. *)

ConnField == (Field \ {"model"}) \cup {"hook"}

\* A turn begins, or its last attempt failed and is made again.
StartAttempt ==
    /\ attempt.at = "idle"
    /\ attempt' = [Idle EXCEPT !.at = "model"]
    /\ clean' = (todo = <<>>)
    /\ UNCHANGED <<config, client, conn, cached, todo, stored, rc, commands, lag, asserted, savedAs>>

\* Fault: any name is taken for a provider.
FaultEnsureModel ==
    /\ attempt.at = "model"
    /\ conn' = IF conn # Absent THEN conn ELSE Only(ConnField, client)
    /\ cached' = IF cached # None THEN cached ELSE [name |-> client.model, conn |-> conn']
    /\ attempt' = [attempt EXCEPT !.at = "snapshot", !.conn = cached'.conn, !.name = cached'.name]
    /\ UNCHANGED <<config, client, todo, stored, rc, commands, clean, lag, asserted, savedAs>>

\* ensureModel: the cached model, else one of the cached provider, else both anew.
EnsureModel ==
    /\ attempt.at = "model"
    /\ client.provider \in Provider
    /\ conn' = IF conn # Absent THEN conn ELSE Only(ConnField, client)
    /\ cached' = IF cached # None THEN cached ELSE [name |-> client.model, conn |-> conn']
    /\ attempt' = [attempt EXCEPT !.at = "snapshot", !.conn = cached'.conn, !.name = cached'.name]
    /\ UNCHANGED <<config, client, todo, stored, rc, commands, clean, lag, asserted, savedAs>>

\* buildProvider knows no such provider.
NoProvider ==
    /\ attempt.at = "model"
    /\ client.provider \notin Provider
    /\ attempt' = Idle
    /\ UNCHANGED <<config, client, conn, cached, todo, stored, rc, commands, clean, lag, asserted, savedAs>>

\* streamOnce reads the service, which gates cache markers, effort and sampling.
ReadSettings ==
    /\ attempt.at = "snapshot"
    /\ attempt' = [attempt EXCEPT !.at = "sent", !.service = client.service]
    /\ UNCHANGED <<config, client, conn, cached, todo, stored, rc, commands, clean, lag, asserted, savedAs>>

EndAttempt ==
    /\ attempt.at = "sent"
    /\ attempt' = Idle
    /\ UNCHANGED <<config, client, conn, cached, todo, stored, rc, commands, clean, lag, asserted, savedAs>>

Command ==
    \/ \E v \in Provider \cup {"other"} : SetTransport("provider", v)
    \/ \E v \in NewUrls : SetTransport("baseURL", v)
    \/ \E v \in NewModels : SetModelOrKey("model", v)
    \/ \E v \in NewKeys : SetModelOrKey("apiKey", v)
    \/ \E v \in NewServices : SetService(v)
    \/ \E n \in DOMAIN Builtin \cup SavedNames : LoadProfile(n) \/ SetProfile(n)
    \/ \E n \in SavedNames : SaveProfile(n)
    \/ \E on \in BOOLEAN : Debug(on)
    \/ SaveRc

SettingsNext ==
    \/ Command \/ Setter
    \/ StartAttempt \/ EnsureModel \/ NoProvider \/ ReadSettings \/ EndAttempt
    \/ \E e \in Env, p \in {""} \cup DOMAIN Builtin \cup SavedNames, m \in {""} \cup NewModels :
          Restart(e, p, m)

SettingsSpec == SettingsInit /\ [][SettingsNext]_settingsVars

-----------------------------------------------------------------------------
(* What the component promises. *)

SettingsTypeOK ==
    /\ DOMAIN config = Field \cup {"profile"}
    /\ DOMAIN client = Field \cup {"hook"} /\ client.hook \in BOOLEAN
    /\ conn # Absent => DOMAIN conn = ConnField /\ conn.provider \in Provider
    /\ cached # None => cached.conn = conn
    /\ \A i \in DOMAIN todo : todo[i].field \in Field \cup {"hook"}
    /\ \A n \in SavedNames : stored[n] # Absent => DOMAIN stored[n] = Field
    /\ attempt.at \in {"idle", "model", "snapshot", "sent"}
    /\ commands \in 0 .. MaxCommands
    /\ clean \in BOOLEAN /\ lag \in BOOLEAN /\ asserted \in BOOLEAN

\* Between two commands the client holds what the configuration shows.  Its service may
\* lag after /set service and /set profile.
ClientFollowsConfig ==
    todo = <<>> =>
        \A f \in Field : client[f] = config[f] \/ (f = "service" /\ lag)

\* An attempt no setter ran beside is sent to the address that is shown ("requests ->"),
\* with the key, the model and the service that are shown, unless the user named a service
\* himself ("Without this the openrouter/vercel cases in routeByService ignore the new
\* baseurl and silently keep talking to the old upstream", commands.go:741).
RequestIsAsShown ==
    attempt.at = "sent" /\ clean /\ todo = <<>> /\ ~lag /\ ~asserted =>
        /\ Endpoint(attempt.conn) = config.baseURL
        /\ attempt.conn.provider = config.provider
        /\ attempt.conn.apiKey = config.apiKey
        /\ attempt.name = config.model
        /\ attempt.service = config.service /\ attempt.service = attempt.conn.service

\* The status line's profile is what the configuration holds: whatever changes one of its
\* fields by hand drops the name ("relabeling Service is a metadata edit" does not); but for the
\* model when the environment names one and leads to the profile.
ProfileIsTrue ==
    config.profile \in DOMAIN Builtin =>
        \A f \in Field : \/ config[f] = Builtin[config.profile][f]
                         \/ Builtin[config.profile][f] = ""
                         \/ f = "service" /\ asserted
                         \/ f = "model" /\ \E e \in Env : /\ e.profile = config.profile
                                                          /\ e.model = config.model

\* A start without flags after /save has the saved provider, model, address and key; a
\* provider that does not exist is not taken from the file, an empty key is not written,
\* and the service is no part of it.
SavedComesBack ==
    savedAs # Absent =>
        /\ savedAs.provider \in Provider => config.provider = savedAs.provider
        /\ config.model = savedAs.model /\ config.baseURL = savedAs.baseURL
        /\ savedAs.apiKey # "" => config.apiKey = savedAs.apiKey

\* What the status line shows is what the next request is made with, and what the next
\* start brings back.
RequestsFollowSettings ==
    SettingsTypeOK /\ ClientFollowsConfig /\ RequestIsAsShown /\ ProfileIsTrue /\ SavedComesBack
=============================================================================

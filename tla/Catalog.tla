------------------------------- MODULE Catalog -------------------------------
(***************************************************************************)
(* The cached model catalog (internal/catalog, main.go).                   *)
(*                                                                         *)
(* Every program that is started with BITCHTEA_CATWALK_AUTOUPDATE and a    *)
(* URL refreshes one file in the background: it reads the file, asks the   *)
(* server unless the file was checked within the TTL, and puts a new file  *)
(* in its place.  Programs overlap, may end at any point, and may have     *)
(* different URLs; the server's catalog changes, and it may not answer.    *)
(* The list of providers is the number of the version a server published;  *)
(* its tag, a hash of the list, is that list, or "" for none.  A hash that *)
(* is not the server's own is an answer in full.  An hour is a tick: a     *)
(* refresh, which ends within five seconds, sees at most one.              *)
(***************************************************************************)
EXTENDS Integers

CONSTANTS
    Programs,    \* programs running at a time
    Urls,        \* the values of BITCHTEA_CATWALK_URL
    TTL,         \* opts.SoftTTL
    MaxHours, MaxVersion, MaxRefreshes  \* bounds: the clock, versions published, refreshes

Nothing == [content |-> 0, checked |-> -1, source |-> "none"]   \* no file; the zero Envelope
Damaged == [content |-> -1, checked |-> -1, source |-> "none"]  \* not to be parsed, another schema
Envelope == [content : 1 .. MaxVersion, checked : 0 .. MaxHours, source : Urls]

ASSUME CatalogAssumption ==
    /\ TTL \in Nat \ {0} /\ MaxHours \in Nat /\ MaxVersion \in Nat \ {0} /\ MaxRefreshes \in Nat
    /\ "none" \notin Urls

VARIABLES
    cache,     \* providers.json: an envelope, Nothing or Damaged
    hour,      \* the clock
    published, \* the version each server has now; a version is one server's
    latest,    \* the last version published
    refresh,   \* a program's refresh: at, url, the cached envelope it read, the one it writes
    refreshes, \* refreshes so far
    servedIn   \* history: the versions each server had in each hour

catalogVars == <<cache, hour, published, latest, refresh, refreshes, servedIn>>

NoRefresh == [at |-> "none", url |-> "none", read |-> Nothing, new |-> Nothing, begun |-> 0]

\* ReadCache as Refresh takes it: what cannot be read counts as nothing.
ReadCache == IF cache \in Envelope THEN cache ELSE Nothing

CatalogInit ==
    /\ cache \in {Nothing, Damaged}
    /\ hour = 0
    /\ published = [u \in Urls |-> 0]
    /\ latest = 0
    /\ refresh = [p \in Programs |-> NoRefresh]
    /\ refreshes = 0
    /\ servedIn = [u \in Urls |-> [h \in 0 .. MaxHours |-> {}]]

-----------------------------------------------------------------------------
\* Fresh: no request is made.  (The code also takes a time to come as fresh.)
IsFresh(env) == env # Nothing /\ hour - env.checked < TTL

\* maybeStartCatalogRefresh at a program's start, up to the request.
BeginRefresh(p, u) ==
    /\ refresh[p].at = "none"
    /\ refreshes < MaxRefreshes
    /\ refreshes' = refreshes + 1
    /\ refresh' = [refresh EXCEPT ![p] =
                 IF IsFresh(ReadCache) THEN NoRefresh
                 ELSE [at |-> "asked", url |-> u, read |-> ReadCache, new |-> Nothing, begun |-> hour]]
    /\ UNCHANGED <<cache, hour, published, latest, servedIn>>

\* The file is to be replaced by env, or cannot be written to the temporary one.
Store(p, env) ==
    \/ refresh' = [refresh EXCEPT ![p].at = "writing", ![p].new = env]
    \/ refresh' = [refresh EXCEPT ![p] = NoRefresh]

\* GetProviders returns the list.
Answered(p) ==
    /\ refresh[p].at = "asked"
    /\ published[refresh[p].url] # 0
    /\ Store(p, [content |-> published[refresh[p].url], checked |-> hour, source |-> refresh[p].url])
    /\ UNCHANGED <<cache, hour, published, latest, refreshes, servedIn>>

\* Fault: the check is recorded for what is in the file by now.
FaultNotModified(p) ==
    /\ refresh[p].at = "asked"
    /\ refresh[p].read # Nothing
    /\ refresh[p].read.content = published[refresh[p].url]
    /\ Store(p, [ReadCache EXCEPT !.checked = hour, !.source = refresh[p].url])
    /\ UNCHANGED <<cache, hour, published, latest, refreshes, servedIn>>

\* ErrNotModified: the server has what the tag names, and only the check is recorded.
NotModified(p) ==
    /\ refresh[p].at = "asked"
    /\ refresh[p].read # Nothing
    /\ refresh[p].read.content = published[refresh[p].url]
    /\ Store(p, [refresh[p].read EXCEPT !.checked = hour, !.source = refresh[p].url])
    /\ UNCHANGED <<cache, hour, published, latest, refreshes, servedIn>>

\* Fault: a failed check counts as one.
FaultNoAnswer(p) ==
    /\ refresh[p].at = "asked"
    /\ IF refresh[p].read = Nothing THEN refresh' = [refresh EXCEPT ![p] = NoRefresh]
       ELSE Store(p, [refresh[p].read EXCEPT !.checked = hour])
    /\ UNCHANGED <<cache, hour, published, latest, refreshes, servedIn>>

\* An error, or the five seconds are over: the file stays.
NoAnswer(p) ==
    /\ refresh[p].at = "asked"
    /\ refresh' = [refresh EXCEPT ![p] = NoRefresh]
    /\ UNCHANGED <<cache, hour, published, latest, refreshes, servedIn>>

\* Fault: the file itself is written, and the program may end in the middle.
FaultReplace(p) ==
    /\ refresh[p].at = "writing"
    /\ \/ cache' = Damaged /\ UNCHANGED refresh
       \/ cache' = refresh[p].new /\ refresh' = [refresh EXCEPT ![p] = NoRefresh]
    /\ UNCHANGED <<hour, published, latest, refreshes, servedIn>>

\* WriteCache, os.Rename: the temporary file, each program's own, is complete.
Replace(p) ==
    /\ refresh[p].at = "writing"
    /\ cache' = refresh[p].new
    /\ refresh' = [refresh EXCEPT ![p] = NoRefresh]
    /\ UNCHANGED <<hour, published, latest, refreshes, servedIn>>

\* The program ends, and with it its goroutine; a temporary file may stay.
Quit(p) ==
    /\ refresh[p].at # "none"
    /\ refresh' = [refresh EXCEPT ![p] = NoRefresh]
    /\ UNCHANGED <<cache, hour, published, latest, refreshes, servedIn>>

\* A server publishes another list.
Publish(u) ==
    /\ latest < MaxVersion
    /\ latest' = latest + 1
    /\ published' = [published EXCEPT ![u] = latest']
    /\ servedIn' = [servedIn EXCEPT ![u][hour] = @ \cup {latest'}]
    /\ UNCHANGED <<cache, hour, refresh, refreshes>>

\* Fault: a refresh has no deadline.
FaultHour ==
    /\ hour' = hour + 1
    /\ servedIn' = [u \in Urls |-> [servedIn[u] EXCEPT ![hour'] = {published[u]} \ {0}]]
    /\ UNCHANGED <<cache, published, latest, refresh, refreshes>>

\* Time passes; no refresh lasts an hour.
Hour ==
    /\ hour < MaxHours
    /\ \A p \in Programs : refresh[p].at = "none" \/ refresh[p].begun = hour
    /\ hour' = hour + 1
    /\ servedIn' = [u \in Urls |-> [servedIn[u] EXCEPT ![hour'] = {published[u]} \ {0}]]
    /\ UNCHANGED <<cache, published, latest, refresh, refreshes>>

CatalogNext ==
    \/ \E p \in Programs : \/ \E u \in Urls : BeginRefresh(p, u)
                           \/ Answered(p) \/ NotModified(p) \/ NoAnswer(p)
                           \/ Replace(p) \/ Quit(p)
    \/ \E u \in Urls : Publish(u)
    \/ Hour

CatalogSpec == CatalogInit /\ [][CatalogNext]_catalogVars

-----------------------------------------------------------------------------
(* What the component promises. *)

CatalogTypeOK ==
    /\ cache \in Envelope \cup {Nothing, Damaged}
    /\ hour \in 0 .. MaxHours /\ latest \in 0 .. MaxVersion /\ refreshes \in 0 .. MaxRefreshes
    /\ published \in [Urls -> 0 .. MaxVersion]
    /\ \A p \in Programs :
          /\ refresh[p].at \in {"none", "asked", "writing"}
          /\ refresh[p].read \in Envelope \cup {Nothing} /\ refresh[p].new \in Envelope \cup {Nothing}

\* What the file says of itself is true, whoever wrote it last: its source had this list
\* when, or less than a refresh before, LastChecked says so.
EnvelopeIsHonest ==
    cache \in Envelope =>
        \E h \in {cache.checked, cache.checked - 1} :
            h >= 0 /\ cache.content \in servedIn[cache.source][h]

\* A file that can be read is never replaced by one that cannot ("atomically: marshal, write
\* to a sibling .tmp file, fsync, rename", cache.go:77), whenever a program ends.
CacheStaysWhole == [][(cache \in Envelope) => (cache' \in Envelope)]_cache

\* The cached catalog can be read and tells the truth, however refreshes overlap and end.
CacheCanBeTrusted == [](CatalogTypeOK /\ EnvelopeIsHonest) /\ CacheStaysWhole
=============================================================================

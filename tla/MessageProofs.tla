---------------------------- MODULE MessageProofs ---------------------------
(***************************************************************************)
(* What requests are made with and what is saved of a message, for every   *)
(* value of the constants: of the catalog of models nothing is taken for   *)
(* what a server had that no server had (Catalog), a request follows the   *)
(* settings that are shown (Settings), a setting is what it is shown as,   *)
(* at once, at the next call or start, and after /save (Preferences), a    *)
(* line of a session file says all of its message to an older binary, or   *)
(* that it does not (EntryProjection), the repair of a history answers its *)
(* calls, keeps what was there and is done at once (HistoryRepair), and an *)
(* answer that begins with a word of the follow-ups ends them (FollowUp).  *)
(***************************************************************************)
EXTENDS MCMessages, SequenceTheorems, WellFoundedInduction, TLAPS

-----------------------------------------------------------------------------
(* Folds *)

\* A set of naturals that is not empty has a least one.
LEMMA LeastOf ==
    ASSUME NEW T \in SUBSET Nat, T # {}
    PROVE  \E x \in T : \A y \in T : x <= y
<1> DEFINE R == OpToRel(<, Nat)
<1>1. IsWellFoundedOn(R, Nat)
      BY NatLessThanWellFounded
<1>2. \A x, y \in Nat : <<y, x>> \in R <=> y < x
      BY DEF OpToRel
<1> HIDE DEF R
<1>3. PICK x \in T : \A y \in T : ~(<<y, x>> \in R)
      BY <1>1, WFMin
<1>4. \A y \in T : ~(y < x) /\ y \in Nat /\ x \in Nat
      BY <1>2, <1>3
<1>5. \A y \in T : x <= y
  <2> TAKE y \in T
  <2> QED BY <1>4
<1> QED BY <1>5

\* Induction, on a set of numbers.
LEMMA UpTo ==
    ASSUME NEW n \in Nat, NEW P, 0 \in P, \A k \in 0 .. n : k < n /\ k \in P => k + 1 \in P
    PROVE  \A k \in 0 .. n : k \in P
<1> DEFINE Out == (0 .. n) \ P
<1> SUFFICES ASSUME Out # {} PROVE FALSE
    OBVIOUS
<1>1. PICK k \in Out : \A j \in Out : k <= j
  <2>1. Out \in SUBSET Nat
        OBVIOUS
  <2> HIDE DEF Out
  <2> QED BY <2>1, LeastOf
<1>2. k # 0 /\ k - 1 \in 0 .. n /\ k - 1 < n /\ (k - 1) + 1 = k /\ ~(k <= k - 1) /\ k \notin P
      BY <1>1
<1>3. k - 1 \in P
      BY <1>1, <1>2
<1> QED BY <1>2, <1>3

LEMMA MakesSeq ==
    ASSUME NEW S, NEW n \in Nat, NEW s \in [1 .. n -> S]
    PROVE  s \in Seq(S)
BY SeqDef

LEMMA EmptyDomain ==
    ASSUME NEW s, s = <<>> PROVE DOMAIN s = {}
OBVIOUS

\* The greatest of the numbers up to k, among some with k.
LEMMA MaxIs ==
    ASSUME NEW k \in Nat, NEW t \in SUBSET (1 .. k), k \in t
    PROVE  Max(t) = k
<1>1. \A y \in t : k >= y
      OBVIOUS
<1>2. \A x \in t : (\A y \in t : x >= y) => x = k
      OBVIOUS
<1> QED BY <1>1, <1>2 DEF Max

\* The greatest of some numbers is one of them.
LEMMA MaxIn ==
    ASSUME NEW n \in Nat, NEW t \in SUBSET (1 .. n), t # {}
    PROVE  Max(t) \in t
<1> DEFINE back == {n - x : x \in t}
<1>1. back \in SUBSET Nat /\ back # {}
  <2>1. PICK x \in t : TRUE
        OBVIOUS
  <2>2. n - x \in back
        OBVIOUS
  <2>3. \A b \in back : b \in Nat
        OBVIOUS
  <2> HIDE DEF back
  <2> QED BY <2>2, <2>3
<1>2. PICK b \in back : \A y \in back : b <= y
  <2> HIDE DEF back
  <2> QED BY <1>1, LeastOf
<1>3. PICK x \in t : b = n - x
      OBVIOUS
<1>4. \A y \in t : x >= y
  <2> TAKE y \in t
  <2>1. n - y \in back
        OBVIOUS
  <2> QED BY <1>2, <1>3, <2>1
<1> QED BY <1>3, <1>4 DEF Max

\* A fold over the elements of a sequence goes from the first to the last.
FoldsTo(f, base, G, s, n) ==
    \A t \in SUBSET (1 .. n) :
        f[t] = IF t = {} THEN base ELSE G[<<f[t \ {Max(t)}], s[Max(t)]>>]

LEMMA FoldExists ==
    ASSUME NEW T, NEW A, NEW G \in [T \X A -> T], NEW base \in T, NEW n \in Nat,
           NEW s \in [1 .. n -> A]
    PROVE  \E f \in [SUBSET (1 .. n) -> T] : FoldsTo(f, base, G, s, n)
<1> DEFINE Folds(e, k) ==
               /\ e \in [SUBSET (1 .. k) -> T]
               /\ \A t \in SUBSET (1 .. k) :
                     e[t] = IF t = {} THEN base ELSE G[<<e[t \ {Max(t)}], s[Max(t)]>>]
           Q == {k \in 0 .. n : \E e : Folds(e, k)}
<1>1. 0 \in Q
  <2>1. \A t \in SUBSET (1 .. 0) : t = {}
        OBVIOUS
  <2> DEFINE e == [t \in SUBSET (1 .. 0) |-> base]
  <2>2. e \in [SUBSET (1 .. 0) -> T] /\ \A t \in SUBSET (1 .. 0) : e[t] = base
        OBVIOUS
  <2> HIDE DEF e
  <2>3. Folds(e, 0)
        BY <2>1, <2>2
  <2>4. 0 \in 0 .. n
        OBVIOUS
  <2> HIDE DEF Folds
  <2> QED BY <2>3, <2>4
<1>2. ASSUME NEW k \in 0 .. n, k < n, k \in Q PROVE k + 1 \in Q
  <2>1. PICK f : Folds(f, k)
        BY <1>2
  <2>2. k + 1 \in 1 .. n /\ 1 .. k \subseteq 1 .. k + 1 /\ k + 1 \in Nat
        BY <1>2
  <2> DEFINE old(t) == t \ {k + 1}
             g == [t \in SUBSET (1 .. k + 1) |->
                      IF k + 1 \in t THEN G[<<f[old(t)], s[k + 1]>>] ELSE f[t]]
  <2>3. \A t \in SUBSET (1 .. k + 1) : old(t) \in SUBSET (1 .. k) /\ (k + 1 \notin t => old(t) = t)
        BY <1>2
  <2>4. g \in [SUBSET (1 .. k + 1) -> T]
    <3> SUFFICES ASSUME NEW t \in SUBSET (1 .. k + 1) PROVE g[t] \in T
        OBVIOUS
    <3>1. f[old(t)] \in T /\ s[k + 1] \in A
          BY <2>1, <2>2, <2>3
    <3>2. g[t] = IF k + 1 \in t THEN G[<<f[old(t)], s[k + 1]>>] ELSE f[t]
          OBVIOUS
    <3> HIDE DEF g
    <3> QED BY <2>3, <3>1, <3>2
  <2>5. ASSUME NEW t \in SUBSET (1 .. k + 1)
        PROVE  g[t] = IF t = {} THEN base ELSE G[<<g[t \ {Max(t)}], s[Max(t)]>>]
    <3>1. CASE k + 1 \in t
      <4>1. Max(t) = k + 1
            BY <2>2, <3>1, MaxIs
      <4>2. old(t) \in SUBSET (1 .. k) /\ old(t) \in SUBSET (1 .. k + 1) /\ k + 1 \notin old(t)
            BY <2>2, <2>3
      <4>3. g[old(t)] = f[old(t)]
            BY <4>2
      <4>4. g[t] = G[<<f[old(t)], s[k + 1]>>]
            BY <3>1
      <4> QED BY <3>1, <4>1, <4>3, <4>4
    <3>2. CASE k + 1 \notin t
      <4>1. t \in SUBSET (1 .. k) /\ t \ {Max(t)} \in SUBSET (1 .. k)
            BY <2>3, <3>2
      <4>2. k + 1 \notin t \ {Max(t)} /\ t \ {Max(t)} \in SUBSET (1 .. k + 1)
            BY <3>2
      <4>3. g[t] = f[t] /\ g[t \ {Max(t)}] = f[t \ {Max(t)}]
            BY <3>2, <4>2
      <4> QED BY <2>1, <4>1, <4>3
    <3> QED BY <3>1, <3>2
  <2> HIDE DEF g
  <2>6. \E e : Folds(e, k + 1)
        BY <2>4, <2>5
  <2>7. k + 1 \in 0 .. n
        BY <1>2
  <2> HIDE DEF Folds
  <2> QED BY <2>6, <2>7
<1> HIDE DEF Q
<1>3. n \in Q
  <2>1. \A k \in 0 .. n : k < n /\ k \in Q => k + 1 \in Q
        BY <1>2
  <2>2. \A k \in 0 .. n : k \in Q
        BY <1>1, <2>1, UpTo
  <2> QED BY <2>2
<1>4. PICK f : Folds(f, n)
      BY <1>3 DEF Q
<1> QED BY <1>4 DEF FoldsTo

\* What a fold makes of the first k elements, for each k.
FoldUpTo(h, base, G, s, n) ==
    h[0] = base /\ \A k \in 1 .. n : h[k] = G[<<h[k - 1], s[k]>>]

Inside(G, T, A) == \A c \in T, l \in A : G[<<c, l>>] \in T
EndsIn(T, base, G, s, n, last) ==
    \E h \in [0 .. n -> T] : FoldUpTo(h, base, G, s, n) /\ h[n] = last

LEMMA FoldSteps ==
    ASSUME NEW T, NEW A, NEW G, Inside(G, T, A), NEW base \in T,
           NEW n \in Nat, NEW s \in [1 .. n -> A], NEW f, FoldsTo(f, base, G, s, n)
    PROVE  EndsIn(T, base, G, s, n, f[1 .. n])
<1> DEFINE h == [k \in 0 .. n |-> f[1 .. k]]
<1>1. 1 .. 0 = {}
      OBVIOUS
<1>2. \A t \in SUBSET (1 .. n) : f[t] = IF t = {} THEN base ELSE G[<<f[t \ {Max(t)}], s[Max(t)]>>]
      BY DEF FoldsTo
<1>3. ASSUME NEW k \in 1 .. n
      PROVE  f[1 .. k] = G[<<f[1 .. (k - 1)], s[k]>>]
  <2>1. 1 .. k \in SUBSET (1 .. n) /\ 1 .. k # {} /\ k \in Nat /\ k \in 1 .. k
    <3>1. k \in Nat /\ k \in 1 .. k
          OBVIOUS
    <3>2. 1 .. k \in SUBSET (1 .. n)
          OBVIOUS
    <3> QED BY <3>1, <3>2
  <2>2. Max(1 .. k) = k
        BY <2>1, MaxIs
  <2>3. (1 .. k) \ {k} = 1 .. (k - 1)
    <3>1. \A x \in Int : x \in (1 .. k) \ {k} <=> x \in 1 .. (k - 1)
          BY <2>1
    <3>2. 1 .. k \subseteq Int /\ 1 .. (k - 1) \subseteq Int
          BY <2>1
    <3> QED BY <3>1, <3>2
  <2> QED BY <1>2, <2>1, <2>2, <2>3
<1>4. h[0] = base
  <2>1. {} \in SUBSET (1 .. n) /\ 0 \in 0 .. n
        OBVIOUS
  <2> QED BY <1>1, <1>2, <2>1
<1>5. \A k \in 0 .. n : h[k] = f[1 .. k]
      OBVIOUS
<1>6. h = [k \in 0 .. n |-> h[k]]
      OBVIOUS
<1> HIDE DEF h
<1>7. \A k \in 1 .. n : h[k] = G[<<h[k - 1], s[k]>>]
  <2> TAKE k \in 1 .. n
  <2>1. k \in 0 .. n /\ k - 1 \in 0 .. n
        OBVIOUS
  <2> QED BY <1>3, <1>5, <2>1
<1>8. n \in 0 .. n
      OBVIOUS
<1> DEFINE Q == {k \in 0 .. n : h[k] \in T}
<1>9. \A k \in 0 .. n : k \in Q
  <2>1. 0 \in Q
    <3>1. 0 \in 0 .. n
          OBVIOUS
    <3> QED BY <1>4, <3>1
  <2>2. ASSUME NEW k \in 0 .. n, k < n, k \in Q PROVE k + 1 \in Q
    <3>1. k + 1 \in 1 .. n /\ k + 1 \in 0 .. n /\ (k + 1) - 1 = k /\ h[k] \in T
          BY <2>2
    <3>2. s[k + 1] \in A
          BY <3>1
    <3>3. h[k + 1] = G[<<h[k], s[k + 1]>>]
          BY <1>7, <3>1
    <3> QED BY <3>1, <3>2, <3>3 DEF Inside
  <2> HIDE DEF Q
  <2>3. \A k \in 0 .. n : k < n /\ k \in Q => k + 1 \in Q
        BY <2>2
  <2> QED BY <2>1, <2>3, UpTo
<1>10. h \in [0 .. n -> T]
  <2>1. \A k \in 0 .. n : h[k] \in T
        BY <1>9
  <2> QED BY <1>6, <2>1
<1> QED BY <1>4, <1>5, <1>7, <1>8, <1>10 DEF FoldUpTo, EndsIn

-----------------------------------------------------------------------------
(* The cached catalog (Catalog) *)

\* An envelope that some server had just so in the hour it names, and no hour to come.
Honest(env) == env.checked <= hour /\ env.content \in servedIn[env.source][env.checked]

Refreshing ==
    [at : {"none", "asked", "writing"}, url : Urls \cup {"none"},
     read : Envelope \cup {Nothing}, new : Envelope \cup {Nothing}, begun : 0 .. MaxHours]

CatalogFits ==
    /\ cache \in Envelope \cup {Nothing, Damaged}
    /\ hour \in 0 .. MaxHours /\ latest \in 0 .. MaxVersion /\ refreshes \in 0 .. MaxRefreshes
    /\ published \in [Urls -> 0 .. MaxVersion]
    /\ servedIn \in [Urls -> [0 .. MaxHours -> SUBSET (1 .. MaxVersion)]]
    /\ refresh \in [Programs -> Refreshing]

\* What the servers have now, what is in the file, and what a program has read or is to write.
CatalogIInv ==
    /\ CatalogFits
    /\ \A u \in Urls : published[u] # 0 => published[u] \in servedIn[u][hour]
    /\ cache \in Envelope => Honest(cache)
    /\ \A p \in Programs :
        /\ refresh[p].at # "none" => refresh[p].url \in Urls
        /\ refresh[p].at = "writing" => refresh[p].new \in Envelope /\ Honest(refresh[p].new)

LEMMA NothingIsNoEnvelope == Nothing \notin Envelope /\ Damaged \notin Envelope
BY DEF Nothing, Damaged, Envelope

LEMMA EnvelopeParts ==
    ASSUME NEW e \in Envelope
    PROVE  e.content \in 1 .. MaxVersion /\ e.checked \in 0 .. MaxHours /\ e.source \in Urls
BY DEF Envelope

LEMMA NoRefreshFits == NoRefresh \in Refreshing
BY CatalogAssumption DEF NoRefresh, Refreshing

LEMMA CatalogStarts == CatalogInit => CatalogIInv
<1> SUFFICES ASSUME CatalogInit PROVE CatalogIInv
    OBVIOUS
<1> USE CatalogAssumption
<1>1. CatalogFits
      BY NoRefreshFits DEF CatalogInit, CatalogFits
<1>2. cache \notin Envelope
      BY NothingIsNoEnvelope DEF CatalogInit
<1>3. \A u \in Urls : published[u] = 0
      BY DEF CatalogInit
<1>4. \A p \in Programs : refresh[p].at = "none"
      BY DEF CatalogInit, NoRefresh
<1> QED BY <1>1, <1>2, <1>3, <1>4 DEF CatalogIInv

\* A step of a program at which the clock and the servers stand still keeps the invariant if
\* what it puts into the file and what it makes of its refresh are right.
LEMMA ProgramStep ==
    ASSUME CatalogIInv, NEW p \in Programs, NEW r \in Refreshing,
           UNCHANGED <<hour, published, latest, servedIn>>,
           refresh' = [refresh EXCEPT ![p] = r], refreshes' \in 0 .. MaxRefreshes,
           cache' \in Envelope \cup {Nothing, Damaged},
           cache' \in Envelope => Honest(cache'),
           r.at # "none" => r.url \in Urls,
           r.at = "writing" => r.new \in Envelope /\ Honest(r.new)
    PROVE  CatalogIInv'
<1>1. CatalogFits'
      BY DEF CatalogIInv, CatalogFits
<1>2. \A q \in Programs : refresh'[q] = IF q = p THEN r ELSE refresh[q]
      BY DEF CatalogIInv, CatalogFits
<1>3. \A e : Honest(e)' <=> e.checked <= hour /\ e.content \in servedIn[e.source][e.checked]
      BY DEF Honest
<1>4. (cache \in Envelope => Honest(cache))'
      BY <1>3 DEF Honest
<1>5. ASSUME NEW q \in Programs
      PROVE  (/\ refresh[q].at # "none" => refresh[q].url \in Urls
              /\ refresh[q].at = "writing" => refresh[q].new \in Envelope /\ Honest(refresh[q].new))'
      BY <1>2 DEF CatalogIInv, Honest
<1>6. (\A u \in Urls : published[u] # 0 => published[u] \in servedIn[u][hour])'
      BY DEF CatalogIInv
<1> QED BY <1>1, <1>4, <1>5, <1>6 DEF CatalogIInv

LEMMA ReadCacheFits == CatalogIInv => ReadCache \in Envelope \cup {Nothing}
BY DEF ReadCache

LEMMA BeginStep ==
    ASSUME CatalogIInv, NEW p \in Programs, NEW u \in Urls, BeginRefresh(p, u)
    PROVE  CatalogIInv'
<1> DEFINE r == IF IsFresh(ReadCache) THEN NoRefresh
                ELSE [at |-> "asked", url |-> u, read |-> ReadCache, new |-> Nothing, begun |-> hour]
<1>1. r \in Refreshing
      BY NoRefreshFits, ReadCacheFits DEF Refreshing, CatalogIInv, CatalogFits
<1>2. refresh' = [refresh EXCEPT ![p] = r] /\ UNCHANGED <<cache, hour, published, latest, servedIn>>
      BY DEF BeginRefresh
<1>3. refreshes' \in 0 .. MaxRefreshes
      BY CatalogAssumption DEF BeginRefresh, CatalogIInv, CatalogFits
<1>4. (r.at # "none" => r.url \in Urls) /\ r.at # "writing"
      BY DEF NoRefresh
<1>5. cache' \in Envelope \cup {Nothing, Damaged} /\ (cache' \in Envelope => Honest(cache'))
      BY <1>2 DEF CatalogIInv, CatalogFits
<1> HIDE DEF r
<1> QED BY <1>1, <1>2, <1>3, <1>4, <1>5, ProgramStep

\* A refresh that is given up, and one that has what it is to write.
LEMMA StoreStep ==
    ASSUME CatalogIInv, NEW p \in Programs, NEW env \in Envelope, Honest(env),
           refresh[p].at = "asked", Store(p, env) \/ refresh' = [refresh EXCEPT ![p] = NoRefresh],
           UNCHANGED <<cache, hour, published, latest, refreshes, servedIn>>
    PROVE  CatalogIInv'
<1>0. /\ refreshes' \in 0 .. MaxRefreshes /\ refresh[p] \in Refreshing
      /\ cache' \in Envelope \cup {Nothing, Damaged} /\ (cache' \in Envelope => Honest(cache'))
      BY DEF CatalogIInv, CatalogFits
<1>1. CASE refresh' = [refresh EXCEPT ![p] = NoRefresh]
      BY <1>0, <1>1, NoRefreshFits, ProgramStep DEF NoRefresh
<1>2. CASE refresh' = [refresh EXCEPT ![p].at = "writing", ![p].new = env]
  <2> DEFINE r == [refresh[p] EXCEPT !.at = "writing", !.new = env]
  <2>1. r \in Refreshing /\ r.at = "writing" /\ r.new = env /\ r.url = refresh[p].url
        BY <1>0 DEF Refreshing
  <2>2. refresh' = [refresh EXCEPT ![p] = r]
        BY <1>2 DEF CatalogIInv, CatalogFits
  <2>3. r.url \in Urls
        BY <2>1 DEF CatalogIInv
  <2> HIDE DEF r
  <2> QED BY <1>0, <2>1, <2>2, <2>3, ProgramStep
<1> QED BY <1>1, <1>2 DEF Store

\* What a server is asked for is what it has now.
LEMMA ServerStep ==
    ASSUME CatalogIInv, NEW p \in Programs, Answered(p) \/ NotModified(p)
    PROVE  CatalogIInv'
<1> DEFINE u == refresh[p].url
           full == [content |-> published[u], checked |-> hour, source |-> u]
           again == [refresh[p].read EXCEPT !.checked = hour, !.source = u]
<1>1. refresh[p].at = "asked" /\ u \in Urls
      BY DEF Answered, NotModified, CatalogIInv
<1>2. published[u] # 0 => published[u] \in servedIn[u][hour] /\ hour \in 0 .. MaxHours /\ hour <= hour
      BY <1>1 DEF CatalogIInv, CatalogFits
<1>3. UNCHANGED <<cache, hour, published, latest, refreshes, servedIn>>
      BY DEF Answered, NotModified
<1>4. CASE Answered(p)
  <2>1. published[u] # 0 /\ Store(p, full)
        BY <1>4 DEF Answered
  <2>2. full \in Envelope /\ Honest(full)
        BY <1>1, <1>2, <2>1 DEF Envelope, CatalogIInv, CatalogFits, Honest
  <2> HIDE DEF full, u
  <2> QED BY <1>1, <1>3, <2>1, <2>2, StoreStep
<1>5. CASE NotModified(p)
  <2>1. refresh[p].read \in Envelope \cup {Nothing}
        BY DEF CatalogIInv, CatalogFits, Refreshing
  <2>2. refresh[p].read \in Envelope /\ refresh[p].read.content = published[u] /\ Store(p, again)
        BY <2>1, <1>5 DEF NotModified
  <2>3. published[u] # 0
        BY <2>2, EnvelopeParts
  <2>4. again \in Envelope
        BY <1>1, <1>2, <2>2, <2>3 DEF Envelope
  <2>5. again.content = published[u] /\ again.checked = hour /\ again.source = u
        BY <2>2 DEF Envelope
  <2>6. Honest(again)
        BY <1>2, <2>3, <2>5 DEF Honest
  <2> HIDE DEF again, u
  <2> QED BY <1>1, <1>3, <2>2, <2>4, <2>6, StoreStep
<1> QED BY <1>4, <1>5

LEMMA EndStep ==
    ASSUME CatalogIInv, NEW p \in Programs, NoAnswer(p) \/ Quit(p) \/ Replace(p)
    PROVE  CatalogIInv' /\ (Replace(p) => cache' \in Envelope)
<1>1. /\ refresh' = [refresh EXCEPT ![p] = NoRefresh]
      /\ UNCHANGED <<hour, published, latest, refreshes, servedIn>>
      /\ refreshes' \in 0 .. MaxRefreshes
      BY DEF NoAnswer, Quit, Replace, CatalogIInv, CatalogFits
<1>2. Replace(p) => cache' \in Envelope /\ Honest(cache')
      BY DEF Replace, CatalogIInv
<1>3. ~Replace(p) => cache' = cache
      BY DEF NoAnswer, Quit
<1>4. cache' \in Envelope \cup {Nothing, Damaged} /\ (cache' \in Envelope => Honest(cache'))
      BY <1>2, <1>3 DEF CatalogIInv, CatalogFits
<1>5. NoRefresh.at = "none"
      BY DEF NoRefresh
<1> QED BY <1>1, <1>2, <1>4, <1>5, NoRefreshFits, ProgramStep

\* What was honest stays so when a server goes on and when time does.
LEMMA HonestStays ==
    ASSUME CatalogIInv, NEW e \in Envelope, Honest(e), hour' \in 0 .. MaxHours, hour <= hour',
           \A v \in Urls, h \in 0 .. hour : servedIn[v][h] \subseteq servedIn'[v][h]
    PROVE  Honest(e)'
<1>1. e.checked \in 0 .. hour /\ e.source \in Urls /\ hour \in 0 .. MaxHours
      BY EnvelopeParts DEF Honest, CatalogIInv, CatalogFits
<1>2. e.content \in servedIn'[e.source][e.checked]
      BY <1>1 DEF Honest
<1>3. e.checked <= hour'
      BY <1>1
<1> QED BY <1>2, <1>3 DEF Honest

LEMMA OneEntryChanges ==
    ASSUME NEW D, NEW E, NEW f \in [D -> SUBSET E], NEW d \in D, NEW X \in SUBSET E
    PROVE  /\ [f EXCEPT ![d] = X] \in [D -> SUBSET E]
           /\ \A c \in D : [f EXCEPT ![d] = X][c] = IF c = d THEN X ELSE f[c]
OBVIOUS

LEMMA OutsideStep ==
    ASSUME CatalogIInv, Hour \/ \E u \in Urls : Publish(u)
    PROVE  CatalogIInv'
<1> USE CatalogAssumption
<1>0. CatalogFits /\ UNCHANGED <<cache, refresh, refreshes>>
      BY DEF CatalogIInv, Hour, Publish
<1>1. /\ CatalogFits' /\ hour <= hour'
      /\ \A v \in Urls, h \in 0 .. hour : servedIn[v][h] \subseteq servedIn'[v][h]
      /\ (\A u \in Urls : published[u] # 0 => published[u] \in servedIn[u][hour])'
  <2>1. CASE Hour
    <3>1. /\ hour' = hour + 1 /\ hour' \in 0 .. MaxHours
          BY <1>0, <2>1 DEF Hour, CatalogFits
    <3>2. \A v \in Urls : servedIn'[v] = [servedIn[v] EXCEPT ![hour'] = {published[v]} \ {0}]
          BY <2>1 DEF Hour
    <3>3. \A v \in Urls : {published[v]} \ {0} \subseteq 1 .. MaxVersion
          BY <1>0 DEF CatalogFits
    <3>10. ASSUME NEW v \in Urls
           PROVE  /\ servedIn'[v] \in [0 .. MaxHours -> SUBSET (1 .. MaxVersion)]
                  /\ \A h \in 0 .. MaxHours :
                        servedIn'[v][h] = IF h = hour' THEN {published[v]} \ {0} ELSE servedIn[v][h]
      <4>1. servedIn[v] \in [0 .. MaxHours -> SUBSET (1 .. MaxVersion)]
            BY <1>0 DEF CatalogFits
      <4>2. {published[v]} \ {0} \in SUBSET (1 .. MaxVersion)
            BY <3>3
      <4>3. servedIn'[v] = [servedIn[v] EXCEPT ![hour'] = {published[v]} \ {0}]
            BY <3>2
      <4> QED BY <3>1, <4>1, <4>2, <4>3, OneEntryChanges
    <3>4. servedIn' \in [Urls -> [0 .. MaxHours -> SUBSET (1 .. MaxVersion)]]
      <4>1. \A v \in Urls : servedIn'[v] \in [0 .. MaxHours -> SUBSET (1 .. MaxVersion)]
            BY <3>10
      <4>2. servedIn' = [v \in Urls |-> servedIn'[v]]
            BY <2>1 DEF Hour
      <4> QED BY <4>1, <4>2
    <3>0. \A v \in Urls, h \in 0 .. MaxHours :
              servedIn'[v][h] = IF h = hour' THEN {published[v]} \ {0} ELSE servedIn[v][h]
          BY <3>10
    <3>5. \A v \in Urls, h \in 0 .. hour : servedIn'[v][h] = servedIn[v][h]
      <4>1. \A h \in 0 .. hour : h \in 0 .. MaxHours /\ h # hour'
            BY <1>0, <3>1 DEF CatalogFits
      <4> QED BY <3>0, <4>1
    <3>6. \A v \in Urls : servedIn'[v][hour'] = {published[v]} \ {0}
          BY <3>0, <3>1
    <3>7. UNCHANGED <<published, latest>>
          BY <2>1 DEF Hour
    <3>8. hour <= hour'
          BY <1>0, <3>1 DEF CatalogFits
    <3>9. CatalogFits'
          BY <1>0, <3>1, <3>4, <3>7 DEF CatalogFits
    <3> QED BY <3>5, <3>6, <3>7, <3>8, <3>9
  <2>2. CASE \E u \in Urls : Publish(u)
    <3>1. PICK u \in Urls : Publish(u)
          BY <2>2
    <3>2. latest' = latest + 1 /\ latest' \in 1 .. MaxVersion /\ hour' = hour
          BY <1>0, <3>1 DEF Publish, CatalogFits
    <3>3. /\ published' = [published EXCEPT ![u] = latest']
          /\ servedIn' = [servedIn EXCEPT ![u][hour] = @ \cup {latest'}]
          BY <3>1 DEF Publish
    <3>4. \A v \in Urls, h \in 0 .. MaxHours :
              servedIn'[v][h] = IF v = u /\ h = hour THEN servedIn[v][h] \cup {latest'}
                                ELSE servedIn[v][h]
          BY <1>0, <3>3 DEF CatalogFits
    <3>5. CatalogFits'
          BY <1>0, <3>2, <3>3 DEF CatalogFits
    <3>6. \A v \in Urls : published'[v] # 0 => published'[v] \in servedIn'[v][hour]
      <4> SUFFICES ASSUME NEW v \in Urls, published'[v] # 0
                   PROVE  published'[v] \in servedIn'[v][hour]
          OBVIOUS
      <4>1. hour \in 0 .. MaxHours
            BY <1>0 DEF CatalogFits
      <4>2. CASE v = u
            BY <4>1, <4>2, <1>0, <3>3, <3>4 DEF CatalogFits
      <4>3. CASE v # u
        <5>1. published'[v] = published[v]
              BY <4>3, <3>3, <1>0 DEF CatalogFits
        <5> QED BY <4>1, <4>3, <3>4, <5>1 DEF CatalogIInv
      <4> QED BY <4>2, <4>3
    <3>7. hour <= hour /\ 0 .. hour \subseteq 0 .. MaxHours
          BY <1>0 DEF CatalogFits
    <3> QED BY <3>2, <3>4, <3>5, <3>6, <3>7
  <2> QED BY <2>1, <2>2
<1>2. hour' \in 0 .. MaxHours
      BY <1>1 DEF CatalogFits
<1>3. ASSUME NEW e \in Envelope, Honest(e) PROVE Honest(e)'
      BY <1>1, <1>2, <1>3, HonestStays
<1>6. \A e \in Envelope : Honest(e) =>
          e.checked <= hour' /\ e.content \in servedIn'[e.source][e.checked]
      BY <1>3 DEF Honest
<1>4. (cache \in Envelope => Honest(cache))'
  <2>1. cache \in Envelope => Honest(cache)
        BY DEF CatalogIInv
  <2> QED BY <1>0, <1>6, <2>1 DEF Honest
<1>5. ASSUME NEW q \in Programs
      PROVE  (/\ refresh[q].at # "none" => refresh[q].url \in Urls
              /\ refresh[q].at = "writing" => refresh[q].new \in Envelope /\ Honest(refresh[q].new))'
  <2>1. refresh[q].at = "writing" => refresh[q].new \in Envelope /\ Honest(refresh[q].new)
        BY DEF CatalogIInv
  <2>2. refresh[q].at # "none" => refresh[q].url \in Urls
        BY DEF CatalogIInv
  <2> QED BY <1>0, <1>6, <2>1, <2>2 DEF Honest
<1> QED BY <1>1, <1>4, <1>5 DEF CatalogIInv

\* The cached catalog is true and stays whole, however many programs refresh it, whichever
\* servers they ask, and wherever they end (catalog/refresh.go, catalog/cache.go).
THEOREM CatalogIsTrusted == CatalogSpec => CacheCanBeTrusted
<1>1. CatalogInit => CatalogIInv
      BY CatalogStarts
<1>2. CatalogIInv /\ [CatalogNext]_catalogVars
          => CatalogIInv' /\ [(cache \in Envelope => cache' \in Envelope)]_cache
  <2> SUFFICES ASSUME CatalogIInv, [CatalogNext]_catalogVars
               PROVE  CatalogIInv' /\ [(cache \in Envelope => cache' \in Envelope)]_cache
      OBVIOUS
  <2>1. CASE UNCHANGED catalogVars
        BY <2>1 DEF catalogVars, CatalogIInv, CatalogFits, Honest
  <2>2. ASSUME NEW p \in Programs, NEW u \in Urls, BeginRefresh(p, u)
        PROVE  CatalogIInv' /\ cache' = cache
        BY <2>2, BeginStep DEF BeginRefresh
  <2>3. ASSUME NEW p \in Programs, Answered(p) \/ NotModified(p)
        PROVE  CatalogIInv' /\ cache' = cache
        BY <2>3, ServerStep DEF Answered, NotModified
  <2>4. ASSUME NEW p \in Programs, NoAnswer(p) \/ Quit(p) \/ Replace(p)
        PROVE  CatalogIInv' /\ (cache' = cache \/ cache' \in Envelope)
        BY <2>4, EndStep DEF NoAnswer, Quit
  <2>5. CASE Hour \/ \E u \in Urls : Publish(u)
        BY <2>5, OutsideStep DEF Hour, Publish
  <2> QED BY <2>1, <2>2, <2>3, <2>4, <2>5 DEF CatalogNext
<1>3. CatalogIInv => CatalogTypeOK /\ EnvelopeIsHonest
  <2> SUFFICES ASSUME CatalogIInv PROVE CatalogTypeOK /\ EnvelopeIsHonest
      OBVIOUS
  <2>1. CatalogTypeOK
        BY DEF CatalogIInv, CatalogFits, CatalogTypeOK, Refreshing
  <2>2. EnvelopeIsHonest
    <3> SUFFICES ASSUME cache \in Envelope
                 PROVE  \E h \in {cache.checked, cache.checked - 1} :
                            h >= 0 /\ cache.content \in servedIn[cache.source][h]
        BY DEF EnvelopeIsHonest
    <3>1. cache.checked >= 0 /\ cache.content \in servedIn[cache.source][cache.checked]
          BY EnvelopeParts DEF CatalogIInv, Honest
    <3> QED BY <3>1
  <2> QED BY <2>1, <2>2
<1> QED BY <1>1, <1>2, <1>3, PTL DEF CatalogSpec, CacheCanBeTrusted, CacheStaysWhole

-----------------------------------------------------------------------------
(* The settings a request is made with (Settings) *)

\* What the lines of an rc file make of a configuration, one after the other.
ReadsTo(h, base, s, n) ==
    /\ h[0] = base /\ h[n] = ApplyRCSetCommands(base, s)
    /\ \A k \in 1 .. n : h[k] = ApplySet(h[k - 1], s[k])

LEMMA ApplySetFold ==
    ASSUME NEW T, NEW A, NEW base \in T, NEW n \in Nat, NEW s \in [1 .. n -> A],
           \A c \in T, l \in A : ApplySet(c, l) \in T
    PROVE  \E h \in [0 .. n -> T] : ReadsTo(h, base, s, n)
<1> DEFINE Rec(f) == f = [t \in SUBSET DOMAIN s |-> IF t = {} THEN base
                                     ELSE LET x == Max(t) IN ApplySet(f[t \ {x}], s[x])]
           G(U) == [p \in U \X A |-> ApplySet(p[1], p[2])]
           iter == CHOOSE f : Rec(f)
<1>1. ASSUME NEW U PROVE \A c \in U, l \in A : G(U)[<<c, l>>] = ApplySet(c, l)
  <2> DEFINE g == G(U)
  <2>1. \A p \in U \X A : g[p] = ApplySet(p[1], p[2])
        OBVIOUS
  <2> HIDE DEF g
  <2>2. ASSUME NEW c \in U, NEW l \in A PROVE g[<<c, l>>] = ApplySet(c, l)
    <3>1. <<c, l>> \in U \X A /\ <<c, l>>[1] = c /\ <<c, l>>[2] = l
          OBVIOUS
    <3> QED BY <2>1, <3>1
  <2> QED BY <2>2 DEF g
<1>2. G(T) \in [T \X A -> T]
  <2>1. \A p \in T \X A : p[1] \in T /\ p[2] \in A
        OBVIOUS
  <2>2. \A p \in T \X A : ApplySet(p[1], p[2]) \in T
        BY <2>1
  <2> QED BY <2>2
<1> HIDE DEF G
<1>3. \E f : Rec(f)
  <2>1. PICK f \in [SUBSET (1 .. n) -> T] : FoldsTo(f, base, G(T), s, n)
        BY <1>2, FoldExists
  <2>2. \A t \in SUBSET (1 .. n) : t # {} =>
            G(T)[<<f[t \ {Max(t)}], s[Max(t)]>>] = ApplySet(f[t \ {Max(t)}], s[Max(t)])
    <3> TAKE t \in SUBSET (1 .. n)
    <3> HAVE t # {}
    <3>1. Max(t) \in t
          BY MaxIn
    <3>2. f[t \ {Max(t)}] \in T /\ s[Max(t)] \in A
          BY <3>1
    <3> QED BY <1>1, <3>2
  <2>3. DOMAIN s = 1 .. n
        OBVIOUS
  <2> QED BY <2>1, <2>2, <2>3 DEF FoldsTo
<1>4. ApplyRCSetCommands(base, s) = iter[DOMAIN s]
      BY DEF ApplyRCSetCommands, FoldLeft, MapThenFoldSet
<1>5. Rec(iter)
  <2> HIDE DEF Rec
  <2> QED BY <1>3
<1> HIDE DEF iter
<1> DEFINE U == T \cup {iter[t] : t \in SUBSET (1 .. n)}
<1>6. DOMAIN s = 1 .. n
      OBVIOUS
<1>7. FoldsTo(iter, base, G(U), s, n)
  <2>1. ASSUME NEW t \in SUBSET (1 .. n), t # {}
        PROVE  G(U)[<<iter[t \ {Max(t)}], s[Max(t)]>>] = ApplySet(iter[t \ {Max(t)}], s[Max(t)])
    <3>1. Max(t) \in t
          BY <2>1, MaxIn
    <3>2. iter[t \ {Max(t)}] \in U /\ s[Max(t)] \in A
          BY <3>1
    <3> HIDE DEF U
    <3> QED BY <1>1, <3>2
  <2>2. \A t \in SUBSET (1 .. n) :
            iter[t] = IF t = {} THEN base ELSE ApplySet(iter[t \ {Max(t)}], s[Max(t)])
        BY <1>5, <1>6
  <2> QED BY <2>1, <2>2 DEF FoldsTo
<1> DEFINE g == G(U)
<1>8. \A c \in T, l \in A : g[<<c, l>>] = ApplySet(c, l) /\ g[<<c, l>>] \in T
  <2> TAKE c \in T, l \in A
  <2>1. c \in U /\ ApplySet(c, l) \in T
        OBVIOUS
  <2> HIDE DEF U
  <2> QED BY <1>1, <2>1
<1> HIDE DEF U, g
<1>9. PICK h \in [0 .. n -> T] : FoldUpTo(h, base, g, s, n) /\ h[n] = iter[1 .. n]
  <2>1. FoldsTo(iter, base, g, s, n)
        BY <1>7 DEF g
  <2>2. Inside(g, T, A)
        BY <1>8 DEF Inside
  <2>3. EndsIn(T, base, g, s, n, iter[1 .. n])
        BY <2>1, <2>2, FoldSteps
  <2> QED BY <2>3 DEF EndsIn
<1>10. \A k \in 1 .. n : h[k] = ApplySet(h[k - 1], s[k])
  <2> TAKE k \in 1 .. n
  <2>1. h[k - 1] \in T /\ s[k] \in A
        OBVIOUS
  <2> QED BY <1>8, <1>9, <2>1 DEF FoldUpTo
<1> QED BY <1>4, <1>6, <1>9, <1>10 DEF FoldUpTo, ReadsTo

\* What a value may be: a text, among them those the code itself writes.
Value == STRING \cup {"", "custom", "openai", "anthropic", "other"}
Configuration == [Field \cup {"profile"} -> Value]
Filled(c) == \A f \in Field \ {"apiKey"} : c[f] # ""
Reaches(c) == Endpoint(c) = c.baseURL
LineKeys == {"profile", "provider", "model", "baseURL", "apiKey"}
SetLine == [key : LineKeys, value : Value]
Client == {c \in [Field \cup {"hook"} -> Value \cup BOOLEAN] :
              c.hook \in BOOLEAN /\ \A f \in Field : c[f] \in Value}

\* A name leads to a profile that is complete but for its key, and whose address is its own.
StoredFits ==
    /\ stored \in [SavedNames -> [Field -> Value] \cup {Absent}]
    /\ \A n \in SavedNames : stored[n] # Absent => Filled(stored[n])

StoredReaches == \A n \in SavedNames : stored[n] # Absent => Reaches(stored[n])

\* What ProfileIsTrue says of a configuration.
Named(c) ==
    c.profile \in DOMAIN Builtin =>
        \A f \in Field : \/ c[f] = Builtin[c.profile][f]
                         \/ Builtin[c.profile][f] = ""
                         \/ f = "service" /\ asserted
                         \/ f = "model" /\ \E e \in Env : e.profile = c.profile /\ e.model = c.model

LEMMA ProfileFits ==
    ASSUME StoredFits, NEW n, Known(n)
    PROVE  /\ Profile(n) \in [Field -> Value] /\ Filled(Profile(n)) /\ n \in Value /\ n # ""
           /\ StoredReaches => Reaches(Profile(n))
           /\ n \in DOMAIN Builtin => Profile(n) = Builtin[n]
<1>1. CASE n \in DOMAIN Builtin
  <2>1. n \notin SavedNames /\ Builtin[n] \in [Field -> STRING]
        BY <1>1, SettingsAssumption
  <2>2. Builtin[n] \in {Builtin[m] : m \in DOMAIN Builtin} \cup Env
        BY <1>1
  <2>3. Endpoint(Builtin[n]) = Builtin[n].baseURL /\ Filled(Builtin[n])
        BY <2>2, SettingsAssumption DEF Filled
  <2>4. [Field -> STRING] \subseteq [Field -> Value]
        BY DEF Value
  <2>5. n \in STRING \ {""}
        BY <1>1, SettingsAssumption
  <2> QED BY <1>1, <2>1, <2>3, <2>4, <2>5 DEF Profile, Reaches, Value
<1>2. CASE n \notin DOMAIN Builtin
  <2>1. n \in SavedNames /\ stored[n] # Absent
        BY <1>2 DEF Known
  <2>2. n \in STRING \ {""}
        BY <2>1, SettingsAssumption
  <2> QED BY <1>2, <2>1, <2>2 DEF Profile, StoredFits, StoredReaches, Value
<1> QED BY <1>1, <1>2

LEMMA ApplyProfileFits ==
    ASSUME NEW c \in Configuration, NEW p \in [Field -> Value]
    PROVE  /\ ApplyProfile(c, p) \in Configuration
           /\ \A f \in Field : ApplyProfile(c, p)[f] = IF p[f] # "" THEN p[f] ELSE c[f]
           /\ ApplyProfile(c, p).profile = c.profile
           /\ Filled(p) => Filled(ApplyProfile(c, p))
           /\ Filled(p) /\ Reaches(p) => Reaches(ApplyProfile(c, p))
<1> DEFINE a == ApplyProfile(c, p)
<1>1. "profile" \notin Field /\ DOMAIN c = Field \cup {"profile"}
      BY DEF Field, Configuration
<1>2. /\ \A f \in Field : a[f] = IF p[f] # "" THEN p[f] ELSE c[f]
      /\ a.profile = c.profile /\ DOMAIN a = Field \cup {"profile"}
      BY <1>1 DEF ApplyProfile
<1>3. a \in Configuration
      BY <1>1 DEF ApplyProfile, Configuration
<1> HIDE DEF a
<1>4. ASSUME Filled(p) PROVE Filled(a)
      BY <1>2, <1>4 DEF Filled
<1>5. ASSUME Filled(p), Reaches(p) PROVE Reaches(a)
  <2>1. a.provider = p.provider /\ a.service = p.service /\ a.baseURL = p.baseURL
        BY <1>2, <1>5 DEF Filled, Field
  <2> QED BY <1>5, <2>1 DEF Reaches, Endpoint
<1> QED BY <1>2, <1>3, <1>4, <1>5 DEF a

\* What a line of the rc file does to a configuration.
LEMMA LineFits ==
    ASSUME StoredFits, NEW c \in Configuration, NEW l \in SetLine
    PROVE  /\ ApplySet(c, l) \in Configuration
           /\ Filled(c) => Filled(ApplySet(c, l))
           /\ l.value = "" => ApplySet(c, l) = c
           /\ l.key = "provider" =>
                \/ /\ l.value \in Provider
                   /\ ApplySet(c, l) = [c EXCEPT !.provider = l.value, !.service = "custom", !.profile = ""]
                \/ l.value \notin Provider /\ ApplySet(c, l) = c
           /\ l.key = "baseURL" /\ l.value # "" =>
                ApplySet(c, l) = [c EXCEPT !.baseURL = l.value, !.service = "custom", !.profile = ""]
           /\ l.key = "model" /\ l.value # "" =>
                ApplySet(c, l) = [c EXCEPT !.model = l.value, !.profile = ""]
           /\ l.key = "apiKey" /\ l.value # "" =>
                ApplySet(c, l) = [c EXCEPT !.apiKey = l.value, !.profile = ""]
<1> DEFINE r == ApplySet(c, l)
<1>1. CASE l.value = ""
  <2>1. r = c
        BY <1>1 DEF ApplySet
  <2>2. l.value \notin Provider
        BY <1>1 DEF Provider
  <2> QED BY <1>1, <2>1, <2>2
<1>2. CASE l.value # "" /\ l.key = "profile"
  <2>1. r = IF Known(l.value) THEN [ApplyProfile(c, Profile(l.value)) EXCEPT !.profile = l.value] ELSE c
        BY <1>2 DEF ApplySet
  <2>2. CASE Known(l.value)
    <3>1. Profile(l.value) \in [Field -> Value] /\ Filled(Profile(l.value)) /\ l.value \in Value
          BY <2>2, ProfileFits
    <3> DEFINE a == ApplyProfile(c, Profile(l.value))
    <3>2. a \in Configuration /\ Filled(a)
          BY <3>1, ApplyProfileFits
    <3>3. r = [a EXCEPT !.profile = l.value]
          BY <2>1, <2>2
    <3> HIDE DEF a, r
    <3>4. r \in Configuration /\ \A f \in Field : r[f] = a[f]
          BY <3>1, <3>2, <3>3 DEF Configuration, Field
    <3> QED BY <1>2, <3>2, <3>4 DEF Filled, r
  <2> QED BY <1>2, <2>1, <2>2
<1>3. CASE l.value # "" /\ l.key = "provider"
  <2>1. r = IF l.value \in Provider
            THEN [c EXCEPT !.provider = l.value, !.service = "custom", !.profile = ""] ELSE c
        BY <1>3 DEF ApplySet
  <2> HIDE DEF r
  <2>2. r \in Configuration /\ (Filled(c) => Filled(r))
        BY <1>3, <2>1 DEF Configuration, Field, Filled, Value, SetLine
  <2> QED BY <1>3, <2>1, <2>2 DEF r
<1>4. CASE l.value # "" /\ l.key = "baseURL"
  <2>1. r = [c EXCEPT !.baseURL = l.value, !.service = "custom", !.profile = ""]
        BY <1>4 DEF ApplySet
  <2> HIDE DEF r
  <2>2. r \in Configuration /\ (Filled(c) => Filled(r))
        BY <1>4, <2>1 DEF Configuration, Field, Filled, Value, SetLine
  <2> QED BY <1>4, <2>1, <2>2 DEF r
<1>5. CASE l.value # "" /\ l.key = "model"
  <2>1. r = [c EXCEPT !["model"] = l.value, !.profile = ""]
        BY <1>5 DEF ApplySet
  <2> HIDE DEF r
  <2>2. r \in Configuration /\ (Filled(c) => Filled(r))
        BY <1>5, <2>1 DEF Configuration, Field, Filled, Value, SetLine
  <2> QED BY <1>5, <2>1, <2>2 DEF r
<1>6. CASE l.value # "" /\ l.key = "apiKey"
  <2>1. r = [c EXCEPT !["apiKey"] = l.value, !.profile = ""]
        BY <1>6 DEF ApplySet
  <2> HIDE DEF r
  <2>2. r \in Configuration /\ (Filled(c) => Filled(r))
        BY <1>6, <2>1 DEF Configuration, Field, Filled, Value, SetLine
  <2> QED BY <1>6, <2>1, <2>2 DEF r
<1>7. l.key \in LineKeys
      BY DEF SetLine
<1> QED BY <1>1, <1>2, <1>3, <1>4, <1>5, <1>6, <1>7 DEF LineKeys

\* What a line leaves of the fields, key by key.
LEMMA ProviderLine ==
    ASSUME StoredFits, NEW c \in Configuration, NEW l \in SetLine, l.key = "provider",
           l.value \in Provider
    PROVE  ApplySet(c, l).provider = l.value
<1>1. ApplySet(c, l) = [c EXCEPT !.provider = l.value, !.service = "custom", !.profile = ""]
      BY LineFits
<1> QED BY <1>1 DEF Configuration, Field

LEMMA ModelLine ==
    ASSUME StoredFits, NEW c \in Configuration, NEW l \in SetLine, l.key = "model", l.value # ""
    PROVE  /\ ApplySet(c, l).model = l.value /\ ApplySet(c, l).profile = ""
           /\ \A f \in Field \ {"model"} : ApplySet(c, l)[f] = c[f]
<1>1. ApplySet(c, l) = [c EXCEPT !.model = l.value, !.profile = ""]
      BY LineFits
<1> QED BY <1>1 DEF Configuration, Field

LEMMA AddressLine ==
    ASSUME StoredFits, NEW c \in Configuration, NEW l \in SetLine, l.key = "baseURL", l.value # ""
    PROVE  /\ ApplySet(c, l).baseURL = l.value /\ ApplySet(c, l).service = "custom"
           /\ ApplySet(c, l).profile = "" /\ ApplySet(c, l).model = c.model
           /\ ApplySet(c, l).provider = c.provider
<1>1. ApplySet(c, l) = [c EXCEPT !.baseURL = l.value, !.service = "custom", !.profile = ""]
      BY LineFits
<1> QED BY <1>1 DEF Configuration, Field

LEMMA KeyLine ==
    ASSUME StoredFits, NEW c \in Configuration, NEW l \in SetLine, l.key = "apiKey"
    PROVE  /\ \A f \in Field \ {"apiKey"} : ApplySet(c, l)[f] = c[f]
           /\ ApplySet(c, l).profile \in {"", c.profile}
           /\ l.value # "" => ApplySet(c, l).apiKey = l.value
<1>1. CASE l.value = ""
  <2>1. ApplySet(c, l) = c
        BY <1>1, LineFits
  <2> QED BY <1>1, <2>1
<1>2. CASE l.value # ""
  <2>1. ApplySet(c, l) = [c EXCEPT !.apiKey = l.value, !.profile = ""]
        BY <1>2, LineFits
  <2> QED BY <2>1 DEF Configuration, Field
<1> QED BY <1>1, <1>2

\* What /save wrote is read back, line after line.
LEMMA SnapshotComesBack ==
    ASSUME StoredFits, NEW e \in Configuration, Filled(e), NEW d \in Configuration, Filled(d)
    PROVE  LET c == ApplyRCSetCommands(e, Snapshot(d)) IN
           /\ c \in Configuration /\ Filled(c) /\ Reaches(c) /\ c.profile = ""
           /\ d.provider \in Provider => c.provider = d.provider
           /\ c.model = d.model /\ c.baseURL = d.baseURL
           /\ d.apiKey # "" => c.apiKey = d.apiKey
<1> DEFINE s == Snapshot(d)
           c == ApplyRCSetCommands(e, s)
<1>1. s \in [1 .. 5 -> SetLine]
  <2>1. ASSUME NEW i \in 1 .. 5 PROVE s[i] \in SetLine
    <3> DEFINE k == <<"profile", "provider", "model", "baseURL", "apiKey">>[i]
    <3>1. s[i] = [key |-> k, value |-> d[k]]
          BY DEF Snapshot
    <3>2. k \in LineKeys
          BY DEF LineKeys
    <3>3. d[k] \in Value
          BY <3>2 DEF LineKeys, Configuration, Field
    <3> HIDE DEF k, s
    <3> QED BY <3>1, <3>2, <3>3 DEF SetLine
  <2>2. DOMAIN s = 1 .. 5 /\ s = [i \in 1 .. 5 |-> s[i]]
        BY DEF Snapshot
  <2> HIDE DEF s
  <2> QED BY <2>1, <2>2
<1>2. /\ s[1] = [key |-> "profile", value |-> d.profile]
      /\ s[2] = [key |-> "provider", value |-> d.provider]
      /\ s[3] = [key |-> "model", value |-> d.model]
      /\ s[4] = [key |-> "baseURL", value |-> d.baseURL]
      /\ s[5] = [key |-> "apiKey", value |-> d.apiKey]
      BY DEF Snapshot
<1> HIDE DEF s
<1>3. PICK h \in [0 .. 5 -> Configuration] :
          /\ h[0] = e /\ h[5] = c
          /\ \A k \in 1 .. 5 : h[k] = ApplySet(h[k - 1], s[k])
  <2>1. \A x \in Configuration, l \in SetLine : ApplySet(x, l) \in Configuration
        BY LineFits
  <2>2. 5 \in Nat
        OBVIOUS
  <2> HIDE DEF c
  <2>3. \E h \in [0 .. 5 -> Configuration] : ReadsTo(h, e, s, 5)
        BY <1>1, <2>1, <2>2, ApplySetFold
  <2> QED BY <2>3 DEF c, ReadsTo
<1>4. /\ h[1] = ApplySet(h[0], s[1]) /\ h[2] = ApplySet(h[1], s[2]) /\ h[3] = ApplySet(h[2], s[3])
      /\ h[4] = ApplySet(h[3], s[4]) /\ h[5] = ApplySet(h[4], s[5])
      /\ \A i \in 0 .. 5 : h[i] \in Configuration
      /\ \A i \in 1 .. 5 : s[i] \in SetLine
  <2>1. \A k \in 1 .. 5 : h[k] = ApplySet(h[k - 1], s[k])
        BY <1>3
  <2>2. h[1] = ApplySet(h[0], s[1]) /\ h[2] = ApplySet(h[1], s[2]) /\ h[3] = ApplySet(h[2], s[3])
        BY <2>1
  <2>3. h[4] = ApplySet(h[3], s[4]) /\ h[5] = ApplySet(h[4], s[5])
        BY <2>1
  <2>4. \A i \in 0 .. 5 : h[i] \in Configuration
        OBVIOUS
  <2>5. \A i \in 1 .. 5 : s[i] \in SetLine
        BY <1>1
  <2> QED BY <2>2, <2>3, <2>4, <2>5
<1> HIDE DEF c
<1>5. \A i \in 1 .. 5 : Filled(h[i - 1]) => Filled(h[i])
  <2> TAKE i \in 1 .. 5
  <2>1. h[i - 1] \in Configuration /\ s[i] \in SetLine /\ h[i] = ApplySet(h[i - 1], s[i])
        BY <1>3, <1>4
  <2> QED BY <2>1, LineFits
<1> DEFINE h2 == h[2]
           h3 == h[3]
           h4 == h[4]
           h5 == h[5]
<1>6. d.provider \in Provider => h2.provider = d.provider
  <2>1. h[1] \in Configuration /\ s[2] \in SetLine /\ s[2].key = "provider" /\ s[2].value = d.provider
        BY <1>2, <1>4
  <2> QED BY <1>4, <2>1, ProviderLine
<1>7. h3.model = d.model /\ h3.provider = h2.provider
  <2>1. h2 \in Configuration /\ s[3] \in SetLine /\ s[3].key = "model" /\ s[3].value = d.model
        BY <1>2, <1>4
  <2>2. d.model # "" /\ "provider" \in Field \ {"model"}
        BY DEF Filled, Field
  <2>3. h3 = ApplySet(h2, s[3])
        BY <1>4
  <2> HIDE DEF h2, h3
  <2> QED BY <2>1, <2>2, <2>3, ModelLine
<1>8. /\ h4.model = h3.model /\ h4.provider = h3.provider /\ h4.baseURL = d.baseURL
      /\ h4.service = "custom" /\ h4.profile = ""
  <2>1. h3 \in Configuration /\ s[4] \in SetLine /\ s[4].key = "baseURL" /\ s[4].value = d.baseURL
        BY <1>2, <1>4
  <2>2. d.baseURL # ""
        BY DEF Filled, Field
  <2>3. h4 = ApplySet(h3, s[4])
        BY <1>4
  <2> HIDE DEF h3, h4
  <2> QED BY <2>1, <2>2, <2>3, AddressLine
<1>9. /\ h5.model = h4.model /\ h5.provider = h4.provider /\ h5.baseURL = h4.baseURL
      /\ h5.service = h4.service /\ h5.profile \in {"", h4.profile}
      /\ d.apiKey # "" => h5.apiKey = d.apiKey
  <2>1. h4 \in Configuration /\ s[5] \in SetLine /\ s[5].key = "apiKey" /\ s[5].value = d.apiKey
        BY <1>2, <1>4
  <2>2. {"model", "provider", "baseURL", "service"} \subseteq Field \ {"apiKey"}
        BY DEF Field
  <2>3. h5 = ApplySet(h4, s[5])
        BY <1>4
  <2> HIDE DEF h4, h5
  <2> QED BY <2>1, <2>2, <2>3, KeyLine
<1>10. Reaches(h5)
  <2>1. h5.service = "custom"
        BY <1>8, <1>9
  <2> HIDE DEF h5
  <2> QED BY <2>1 DEF Reaches, Endpoint
<1>12. Filled(h[5])
  <2>1. Filled(h[0]) /\ Filled(h[1])
        BY <1>3, <1>5
  <2>2. Filled(h[2]) /\ Filled(h[3])
        BY <1>5, <2>1
  <2>3. Filled(h[4])
        BY <1>5, <2>2
  <2> QED BY <1>5, <2>3
<1>13. /\ h5 \in Configuration /\ h5.profile = "" /\ h5.baseURL = d.baseURL
       /\ h5.model = d.model /\ (d.apiKey # "" => h5.apiKey = d.apiKey)
       /\ (d.provider \in Provider => h5.provider = d.provider)
  <2>1. h5 \in Configuration
        BY <1>4
  <2> HIDE DEF h2, h3, h4, h5
  <2> QED BY <1>6, <1>7, <1>8, <1>9, <2>1
<1>14. h5 = c /\ Filled(h5)
       BY <1>3, <1>12
<1> HIDE DEF h5
<1> QED BY <1>10, <1>13, <1>14 DEF c, s

LEMMA EnvironmentFits ==
    ASSUME NEW e \in Env
    PROVE  e \in Configuration /\ Filled(e) /\ Reaches(e) /\ Named(e)
<1>1. e \in [Field \cup {"profile"} -> STRING]
      BY SettingsAssumption
<1>2. e \in Configuration
      BY <1>1 DEF Configuration, Value
<1>3. e \in {Builtin[n] : n \in DOMAIN Builtin} \cup Env
      OBVIOUS
<1>4. Filled(e) /\ Reaches(e)
      BY <1>3, SettingsAssumption DEF Filled, Reaches
<1>5. Named(e)
  <2> SUFFICES ASSUME e.profile \in DOMAIN Builtin, NEW f \in Field
               PROVE  \/ e[f] = Builtin[e.profile][f] \/ Builtin[e.profile][f] = ""
                      \/ f = "model" /\ \E x \in Env : x.profile = e.profile /\ x.model = e.model
      BY DEF Named
  <2> QED BY SettingsAssumption
<1> QED BY <1>2, <1>4, <1>5

\* A start leaves a configuration that is complete, whose address is its own, and whose profile
\* is what it is named after; without flags it has what was saved.
LEMMA StartFits ==
    ASSUME StoredFits, ~asserted => StoredReaches, NEW e \in Env,
           rc = <<>> \/ \E d \in Configuration : Filled(d) /\ rc = Snapshot(d),
           NEW p \in {""} \cup DOMAIN Builtin \cup SavedNames, NEW m \in {""} \cup NewModels,
           p # "" => Known(p)
    PROVE  /\ Startup(e, rc, p, m) \in Configuration /\ Filled(Startup(e, rc, p, m))
           /\ ~asserted => Reaches(Startup(e, rc, p, m))
           /\ Named(Startup(e, rc, p, m))
           /\ p = "" /\ m = "" => Startup(e, rc, p, m) = ApplyRCSetCommands(e, rc)
<1> DEFINE c == ApplyRCSetCommands(e, rc)
           l == [key |-> "model", value |-> m]
           a == ApplySet(c, l)
           b == [ApplyProfile(a, Profile(p)) EXCEPT !.profile = p]
           z == ApplySet(b, l)
<1>1. l \in SetLine /\ l.key = "model" /\ l.value = m
  <2>1. m \in Value
        BY SettingsAssumption DEF Value
  <2> QED BY <2>1 DEF SetLine, LineKeys
<1>2. c \in Configuration /\ Filled(c) /\ Reaches(c) /\ Named(c)
  <2>1. e \in Configuration /\ Filled(e) /\ Reaches(e) /\ Named(e)
        BY EnvironmentFits
  <2>2. CASE rc = <<>>
    <3>1. <<>> \in [1 .. 0 -> SetLine] /\ 0 \in Nat
      <4>1. <<>> \in Seq(SetLine) /\ Len(<<>>) = 0
            BY EmptySeq
      <4> QED BY <4>1, LenProperties
    <3>2. \A x \in Configuration, y \in SetLine : ApplySet(x, y) \in Configuration
          BY LineFits
    <3>3. PICK h \in [0 .. 0 -> Configuration] : ReadsTo(h, e, <<>>, 0)
          BY <2>1, <3>1, <3>2, ApplySetFold
    <3>4. c = e
          BY <2>2, <3>3 DEF ReadsTo
    <3> QED BY <2>1, <3>4
  <2>3. CASE \E d \in Configuration : Filled(d) /\ rc = Snapshot(d)
    <3>1. PICK d \in Configuration : Filled(d) /\ rc = Snapshot(d)
          BY <2>3
    <3>2. c \in Configuration /\ Filled(c) /\ Reaches(c) /\ c.profile = ""
          BY <2>1, <3>1, SnapshotComesBack
    <3>3. "" \notin DOMAIN Builtin
          BY SettingsAssumption
    <3> HIDE DEF c
    <3> QED BY <3>2, <3>3 DEF Named
  <2> QED BY <2>2, <2>3
<1> HIDE DEF c, l
<1>3. ASSUME NEW x \in Configuration, Filled(x), ~asserted => Reaches(x), Named(x)
      PROVE  /\ ApplySet(x, l) \in Configuration /\ Filled(ApplySet(x, l))
             /\ ~asserted => Reaches(ApplySet(x, l))
             /\ Named(ApplySet(x, l)) /\ (m = "" => ApplySet(x, l) = x)
  <2>1. ApplySet(x, l) \in Configuration /\ Filled(ApplySet(x, l))
        BY <1>1, <1>3, LineFits
  <2>2. CASE m = ""
    <3>1. ApplySet(x, l) = x
          BY <1>1, <2>2, LineFits
    <3> QED BY <1>3, <3>1
  <2>3. CASE m # ""
    <3> DEFINE r == ApplySet(x, l)
    <3>1. r.profile = "" /\ \A f \in Field \ {"model"} : r[f] = x[f]
          BY <1>1, <2>3, ModelLine
    <3>2. r.provider = x.provider /\ r.service = x.service /\ r.baseURL = x.baseURL
          BY <3>1 DEF Field
    <3>3. "" \notin DOMAIN Builtin
          BY SettingsAssumption
    <3> HIDE DEF r
    <3>4. Named(r) /\ (Reaches(x) => Reaches(r))
          BY <3>1, <3>2, <3>3 DEF Named, Reaches, Endpoint
    <3> QED BY <1>3, <2>1, <2>3, <3>4 DEF r
  <2> QED BY <2>2, <2>3
<1>4. /\ a \in Configuration /\ Filled(a) /\ (~asserted => Reaches(a)) /\ Named(a)
      /\ m = "" => a = c
      BY <1>2, <1>3
<1>5. Startup(e, rc, p, m) = IF p = "" THEN a ELSE z
      BY DEF Startup, c, l
<1>6. CASE p = ""
      BY <1>4, <1>5, <1>6 DEF c
<1>7. CASE p # ""
  <2>1. Known(p)
        BY <1>7
  <2>2. /\ Profile(p) \in [Field -> Value] /\ Filled(Profile(p)) /\ p \in Value
        /\ (~asserted => Reaches(Profile(p))) /\ (p \in DOMAIN Builtin => Profile(p) = Builtin[p])
        BY <2>1, ProfileFits
  <2> DEFINE y == ApplyProfile(a, Profile(p))
  <2> HIDE DEF a
  <2>3. /\ y \in Configuration /\ Filled(y) /\ (~asserted => Reaches(y))
        /\ \A f \in Field : y[f] = IF Profile(p)[f] # "" THEN Profile(p)[f] ELSE a[f]
        BY <1>4, <2>2, ApplyProfileFits
  <2>4. b = [y EXCEPT !.profile = p]
        OBVIOUS
  <2> HIDE DEF y, b
  <2>5. b \in Configuration /\ b.profile = p /\ \A f \in Field : b[f] = y[f]
        BY <2>2, <2>3, <2>4 DEF Configuration, Field
  <2>6. Filled(b)
        BY <2>3, <2>5 DEF Filled
  <2>7. ~asserted => Reaches(b)
    <3>1. b.provider = y.provider /\ b.service = y.service /\ b.baseURL = y.baseURL
          BY <2>5 DEF Field
    <3> QED BY <2>3, <3>1 DEF Reaches, Endpoint
  <2>8. Named(b)
        BY <2>2, <2>3, <2>5 DEF Named
  <2>9. z \in Configuration /\ Filled(z) /\ (~asserted => Reaches(z)) /\ Named(z)
        BY <1>3, <2>5, <2>6, <2>7, <2>8
  <2> HIDE DEF z
  <2> QED BY <1>5, <1>7, <2>9
<1> QED BY <1>6, <1>7
-----------------------------------------------------------------------------

Connection == [ConnField -> Value \cup BOOLEAN]

SetFits ==
    /\ config \in Configuration /\ Filled(config)
    /\ client \in Client /\ StoredFits
    /\ todo \in Seq([field : Field \cup {"hook"}, value : Value \cup BOOLEAN])
    /\ attempt \in [at : {"idle", "model", "snapshot", "sent"}, conn : Connection \cup {Absent},
                    name : Value, service : Value]
    /\ commands \in 0 .. MaxCommands /\ clean \in BOOLEAN /\ lag \in BOOLEAN /\ asserted \in BOOLEAN

\* What the running command has still to call says what the configuration says, and all that
\* the client has otherwise is to come; but for the service.
PushFits ==
    /\ \A i \in DOMAIN todo : IF todo[i].field = "hook" THEN todo[i].value \in BOOLEAN
                              ELSE todo[i].value = config[todo[i].field]
    /\ \A f \in Field : \/ client[f] = config[f]
                        \/ \E i \in DOMAIN todo : todo[i].field = f
                        \/ f = "service" /\ lag

\* What is cached was made from what the client holds, and so was the attempt no setter ran beside.
CacheFits ==
    /\ conn # Absent => conn = Only(ConnField, client) /\ conn.provider \in Provider
    /\ cached # None => conn # Absent /\ cached = [name |-> client.model, conn |-> conn]
    /\ attempt.at \in {"snapshot", "sent"} /\ clean =>
          attempt.conn = Only(ConnField, client) /\ attempt.name = client.model
    /\ attempt.at = "sent" /\ clean => attempt.service = client.service

ReachFits == ~asserted => Reaches(config) /\ StoredReaches

\* The rc file is what some configuration was saved as: this one, as long as savedAs says so.
SavedFits ==
    /\ rc = <<>> \/ \E d \in Configuration : Filled(d) /\ rc = Snapshot(d)
    /\ savedAs # Absent =>
          /\ savedAs \in Configuration /\ Filled(savedAs) /\ rc = Snapshot(savedAs)
          /\ savedAs.provider \in Provider => config.provider = savedAs.provider
          /\ config.model = savedAs.model /\ config.baseURL = savedAs.baseURL
          /\ savedAs.apiKey # "" => config.apiKey = savedAs.apiKey

SettingsIInv == SetFits /\ PushFits /\ CacheFits /\ ReachFits /\ SavedFits /\ Named(config)

LEMMA BoundIsNat == MaxCommands \in Nat
BY SettingsAssumption

LEMMA NoRecords ==
    /\ Absent \notin Configuration /\ Absent \notin Connection
    /\ \A n, c : [name |-> n, conn |-> c] # None
<1>1. DOMAIN Absent = {"provider"} /\ DOMAIN None = {"name"}
      BY DEF Absent, None
<1>2. "model" \in Field \cup {"profile"} /\ "hook" \in ConnField
      BY DEF Field, ConnField
<1>3. \A n, c : DOMAIN [name |-> n, conn |-> c] = {"name", "conn"}
      OBVIOUS
<1> QED BY <1>1, <1>2, <1>3 DEF Configuration, Connection

LEMMA OnlyFits ==
    ASSUME NEW c \in Client
    PROVE  /\ Only(ConnField, c) \in Connection
           /\ \A f \in ConnField : Only(ConnField, c)[f] = c[f]
<1>1. ConnField \subseteq Field \cup {"hook"}
      BY DEF ConnField
<1> QED BY <1>1 DEF Only, Connection, Client

\* The client that is made from a configuration.
LEMMA ClientFits ==
    ASSUME NEW c \in Configuration
    PROVE  NewClient(c) \in Client /\ \A f \in Field : NewClient(c)[f] = c[f]
<1>1. "hook" \notin Field
      BY DEF Field
<1>2. \A f \in Field : c[f] \in Value
      BY DEF Configuration
<1> QED BY <1>1, <1>2 DEF NewClient, Client

LEMMA SettingsStarts == SettingsInit => SettingsIInv
<1> SUFFICES ASSUME SettingsInit PROVE SettingsIInv
    OBVIOUS
<1>1. config \in Configuration /\ Filled(config) /\ Reaches(config) /\ Named(config)
  <2>1. config \in Env
        BY DEF SettingsInit
  <2> QED BY <2>1, EnvironmentFits
<1>2. client \in Client /\ \A f \in Field : client[f] = config[f]
      BY <1>1, ClientFits DEF SettingsInit
<1>3. StoredFits /\ StoredReaches
      BY DEF SettingsInit, StoredFits, StoredReaches
<1>4. attempt = Idle
      BY DEF SettingsInit
<1>5. /\ attempt \in [at : {"idle", "model", "snapshot", "sent"}, conn : Connection \cup {Absent},
                      name : Value, service : Value]
      /\ attempt.at = "idle"
      BY <1>4 DEF Idle, Value
<1>6. SetFits
  <2>1. todo \in Seq([field : Field \cup {"hook"}, value : Value \cup BOOLEAN])
        BY DEF SettingsInit
  <2>2. commands \in 0 .. MaxCommands /\ clean \in BOOLEAN /\ lag \in BOOLEAN /\ asserted \in BOOLEAN
    <3>1. commands \in 0 .. MaxCommands
      <4>1. commands = 0
            BY DEF SettingsInit
      <4> QED BY <4>1, BoundIsNat
    <3>2. clean \in BOOLEAN /\ lag \in BOOLEAN /\ asserted \in BOOLEAN
          BY DEF SettingsInit
    <3> QED BY <3>1, <3>2
  <2> QED BY <1>1, <1>2, <1>3, <1>5, <2>1, <2>2 DEF SetFits
<1>7. PushFits
      BY <1>2 DEF SettingsInit, PushFits
<1>8. CacheFits
      BY <1>5 DEF SettingsInit, CacheFits
<1>9. SavedFits
      BY DEF SettingsInit, SavedFits
<1> QED BY <1>1, <1>3, <1>6, <1>7, <1>8, <1>9 DEF SettingsIInv, ReachFits

\* A command that leaves configuration c and calls the setters of these fields with it.
LEMMA PushKeeps ==
    ASSUME SettingsIInv, NEW c \in Configuration, Filled(c), NEW fields \in Seq(Field),
           Push(c, fields), lag' \in BOOLEAN, asserted' \in BOOLEAN,
           asserted => asserted', ~asserted' => Reaches(c), Named(config)',
           \A f \in Field :
              \/ c[f] = config[f] /\ (lag /\ f = "service" => lag')
              \/ \E i \in DOMAIN fields : fields[i] = f
              \/ f = "service" /\ lag'
    PROVE  SettingsIInv'
<1> USE DEF Push
<1>1. todo = <<>> /\ DOMAIN todo = {} /\ commands' \in 0 .. MaxCommands
  <2>1. todo = <<>>
        BY DEF Typed
  <2>2. commands' \in 0 .. MaxCommands
    <3>1. commands < MaxCommands /\ commands' = commands + 1
          BY DEF Typed
    <3>2. commands \in 0 .. MaxCommands
          BY DEF SettingsIInv, SetFits
    <3> QED BY <3>1, <3>2, BoundIsNat
  <2> QED BY <2>1, <2>2
<1>2. /\ DOMAIN fields = 1 .. Len(fields) /\ Len(fields) \in Nat
      /\ \A i \in DOMAIN fields : fields[i] \in Field
      BY LenProperties
<1>3. /\ DOMAIN todo' = DOMAIN fields
      /\ \A i \in DOMAIN fields : todo'[i] = [field |-> fields[i], value |-> c[fields[i]]]
      BY DEF Sets
<1>4. todo' \in Seq([field : Field \cup {"hook"}, value : Value \cup BOOLEAN])
  <2>1. \A i \in 1 .. Len(fields) : todo'[i] \in [field : Field \cup {"hook"}, value : Value \cup BOOLEAN]
    <3> TAKE i \in 1 .. Len(fields)
    <3>1. fields[i] \in Field /\ c[fields[i]] \in Value
          BY <1>2 DEF Configuration
    <3> QED BY <1>2, <1>3, <3>1
  <2>2. todo' = [i \in 1 .. Len(fields) |-> todo'[i]]
        BY <1>2 DEF Sets
  <2>3. todo' \in [1 .. Len(fields) -> [field : Field \cup {"hook"}, value : Value \cup BOOLEAN]]
        BY <2>1, <2>2
  <2>4. Len(fields) \in Nat
        BY <1>2
  <2> HIDE DEF Push
  <2> QED BY <2>3, <2>4, MakesSeq
<1>5. SetFits'
  <2>1. config' \in Configuration /\ Filled(config')
        OBVIOUS
  <2>2. StoredFits'
        BY DEF SettingsIInv, SetFits, StoredFits
  <2>3. client' \in Client /\ clean' \in BOOLEAN
        BY DEF SettingsIInv, SetFits
  <2>4. attempt' \in [at : {"idle", "model", "snapshot", "sent"}, conn : Connection \cup {Absent},
                      name : Value, service : Value]
        BY DEF SettingsIInv, SetFits
  <2> QED BY <1>1, <1>4, <2>1, <2>2, <2>3, <2>4 DEF SetFits, Filled
<1>6. PushFits'
  <2>1. ASSUME NEW i \in DOMAIN todo'
        PROVE  IF todo'[i].field = "hook" THEN todo'[i].value \in BOOLEAN
               ELSE todo'[i].value = config'[todo'[i].field]
    <3>1. fields[i] \in Field /\ "hook" \notin Field
          BY <1>2, <1>3, <2>1 DEF Field
    <3>2. todo'[i] = [field |-> fields[i], value |-> c[fields[i]]] /\ config' = c
          BY <1>3, <2>1
    <3> QED BY <3>1, <3>2
  <2>2. ASSUME NEW f \in Field
        PROVE  \/ client'[f] = config'[f] \/ \E i \in DOMAIN todo' : todo'[i].field = f
               \/ f = "service" /\ lag'
    <3>1. client[f] = config[f] \/ (f = "service" /\ lag)
          BY <1>1 DEF SettingsIInv, PushFits
    <3>2. client' = client /\ config' = c
          OBVIOUS
    <3> QED BY <1>3, <3>1, <3>2
  <2> QED BY <2>1, <2>2 DEF PushFits
<1>7. CacheFits'
      BY DEF SettingsIInv, CacheFits
<1>8. ReachFits'
      BY DEF SettingsIInv, ReachFits, StoredReaches, Reaches, Endpoint
<1>9. SavedFits'
      BY DEF SettingsIInv, SavedFits
<1> QED BY <1>5, <1>6, <1>7, <1>8, <1>9 DEF SettingsIInv

LEMMA NoNameIsNoProfile == "" \notin DOMAIN Builtin
BY SettingsAssumption

\* What a user types.
Given == Value \ {""}

LEMMA TransportKeeps ==
    ASSUME SettingsIInv, NEW f \in Field, NEW v \in Given, SetTransport(f, v)
    PROVE  SettingsIInv'
<1> DEFINE c == [config EXCEPT ![f] = v, !.service = "custom", !.profile = ""]
           fields == <<f, "service">>
<1>1. f \in {"provider", "baseURL"} /\ lag' = FALSE /\ asserted' = asserted /\ Push(c, fields)
      BY DEF SetTransport
<1>2. config \in Configuration /\ Filled(config) /\ asserted \in BOOLEAN
      BY DEF SettingsIInv, SetFits
<1>3. fields \in Seq(Field) /\ 1 \in DOMAIN fields /\ 2 \in DOMAIN fields
      /\ fields[1] = f /\ fields[2] = "service"
  <2> HIDE DEF c
  <2>1. "service" \in Field
        BY DEF Field
  <2>2. fields \in Seq(Field)
        BY <2>1
  <2>3. fields[1] = f /\ fields[2] = "service"
        OBVIOUS
  <2>4. 1 \in DOMAIN fields /\ 2 \in DOMAIN fields
        OBVIOUS
  <2> QED BY <2>2, <2>3, <2>4
<1>4. /\ c \in Configuration /\ c.service = "custom" /\ c.profile = "" /\ c[f] = v
      /\ \A g \in Field \ {f, "service"} : c[g] = config[g]
      BY <1>1, <1>2 DEF Configuration, Field, Value, Given
<1>5. config' = c
      BY <1>1 DEF Push
<1> HIDE DEF c, fields
<1>6. Filled(c) /\ Reaches(c)
  <2>1. Filled(c)
        BY <1>2, <1>4 DEF Filled, Given
  <2> QED BY <1>4, <2>1 DEF Reaches, Endpoint
<1>7. Named(config)'
      BY <1>4, <1>5, NoNameIsNoProfile DEF Named
<1>8. \A g \in Field :
        \/ c[g] = config[g] /\ (lag /\ g = "service" => lag')
        \/ \E i \in DOMAIN fields : fields[i] = g
        \/ g = "service" /\ lag'
      BY <1>3, <1>4
<1> QED BY <1>1, <1>2, <1>3, <1>4, <1>6, <1>7, <1>8, PushKeeps

LEMMA ModelOrKeyKeeps ==
    ASSUME SettingsIInv, NEW f \in Field, NEW v \in Given, SetModelOrKey(f, v)
    PROVE  SettingsIInv'
<1> DEFINE c == [config EXCEPT ![f] = v, !.profile = ""]
           fields == <<f>>
<1>1. f \in {"model", "apiKey"} /\ lag' = lag /\ asserted' = asserted /\ Push(c, fields)
      BY DEF SetModelOrKey
<1>2. /\ config \in Configuration /\ Filled(config) /\ asserted \in BOOLEAN /\ lag \in BOOLEAN
      /\ ~asserted => Reaches(config)
      BY DEF SettingsIInv, SetFits, ReachFits
<1>3. fields \in Seq(Field) /\ 1 \in DOMAIN fields /\ fields[1] = f
  <2> HIDE DEF c
  <2>1. fields \in Seq(Field)
        OBVIOUS
  <2>2. 1 \in DOMAIN fields
        OBVIOUS
  <2>3. fields[1] = f
        OBVIOUS
  <2> QED BY <2>1, <2>2, <2>3
<1>4. /\ c \in Configuration /\ c.profile = "" /\ c[f] = v
      /\ \A g \in Field \ {f} : c[g] = config[g]
      BY <1>1, <1>2 DEF Configuration, Field, Value, Given
<1>5. config' = c
      BY <1>1 DEF Push
<1> HIDE DEF c, fields
<1>6. Filled(c) /\ (Reaches(config) => Reaches(c))
  <2>1. Filled(c)
        BY <1>2, <1>4 DEF Filled, Given
  <2>2. c.provider = config.provider /\ c.service = config.service /\ c.baseURL = config.baseURL
        BY <1>1, <1>4 DEF Field
  <2> QED BY <2>1, <2>2 DEF Reaches, Endpoint
<1>7. Named(config)'
      BY <1>4, <1>5, NoNameIsNoProfile DEF Named
<1>8. \A g \in Field :
        \/ c[g] = config[g] /\ (lag /\ g = "service" => lag')
        \/ \E i \in DOMAIN fields : fields[i] = g
        \/ g = "service" /\ lag'
      BY <1>1, <1>3, <1>4
<1> QED BY <1>1, <1>2, <1>3, <1>4, <1>6, <1>7, <1>8, PushKeeps

LEMMA ServiceKeeps ==
    ASSUME SettingsIInv, NEW v \in Given, SetService(v)
    PROVE  SettingsIInv'
<1> DEFINE c == [config EXCEPT !.service = v]
           fields == <<>>
<1>1. lag' = TRUE /\ asserted' = TRUE /\ Push(c, fields)
      BY DEF SetService
<1>2. config \in Configuration /\ Filled(config) /\ Named(config)
      BY DEF SettingsIInv, SetFits
<1>3. fields \in Seq(Field)
      BY EmptySeq
<1>4. /\ c \in Configuration /\ c.profile = config.profile /\ c.service = v
      /\ \A g \in Field \ {"service"} : c[g] = config[g]
      BY <1>2 DEF Configuration, Field, Value, Given
<1>5. config' = c
      BY <1>1 DEF Push
<1> HIDE DEF c, fields
<1>6. Filled(c)
      BY <1>2, <1>4 DEF Filled, Given
<1>7. Named(config)'
  <2> SUFFICES ASSUME config'.profile \in DOMAIN Builtin, NEW g \in Field
               PROVE  \/ config'[g] = Builtin[config'.profile][g]
                      \/ Builtin[config'.profile][g] = ""
                      \/ g = "service" /\ asserted'
                      \/ g = "model" /\ \E e \in Env : /\ e.profile = config'.profile
                                                     /\ e.model = config'.model
      BY DEF Named
  <2>1. CASE g = "service"
        BY <1>1, <2>1
  <2>2. CASE g # "service"
    <3>1. config'[g] = config[g] /\ config'.profile = config.profile /\ config'.model = config.model
          BY <1>4, <1>5, <2>2 DEF Field
    <3> QED BY <1>2, <2>2, <3>1 DEF Named
  <2> QED BY <2>1, <2>2
<1>8. \A g \in Field :
        \/ c[g] = config[g] /\ (lag /\ g = "service" => lag')
        \/ \E i \in DOMAIN fields : fields[i] = g
        \/ g = "service" /\ lag'
      BY <1>1, <1>4
<1> QED BY <1>1, <1>3, <1>4, <1>6, <1>7, <1>8, PushKeeps

LEMMA LoadKeeps ==
    ASSUME SettingsIInv, NEW n, LoadProfile(n)
    PROVE  SettingsIInv'
<1> DEFINE p == Profile(n)
           c == [f \in Field \cup {"profile"} |-> IF f = "profile" THEN n ELSE p[f]]
           fields == <<"service", "provider", "model", "baseURL", "apiKey">>
<1>1. Known(n) /\ lag' = FALSE /\ asserted' = asserted /\ Push(c, fields)
      BY DEF LoadProfile
<1>2. StoredFits /\ asserted \in BOOLEAN /\ (~asserted => StoredReaches)
      BY DEF SettingsIInv, SetFits, ReachFits
<1>3. /\ p \in [Field -> Value] /\ Filled(p) /\ n \in Value /\ (~asserted => Reaches(p))
      /\ n \in DOMAIN Builtin => p = Builtin[n]
      BY <1>1, <1>2, ProfileFits
<1> HIDE DEF p
<1>4. c \in Configuration /\ c.profile = n /\ \A g \in Field : c[g] = p[g]
      BY <1>3 DEF Configuration, Field
<1>5. fields \in Seq(Field) /\ DOMAIN fields = 1 .. 5 /\ \A g \in Field : \E i \in 1 .. 5 : fields[i] = g
      BY DEF Field
<1>6. config' = c
      BY <1>1 DEF Push
<1> HIDE DEF c, fields
<1>7. Filled(c) /\ (~asserted => Reaches(c))
  <2>1. Filled(c)
        BY <1>3, <1>4 DEF Filled
  <2>2. c.provider = p.provider /\ c.service = p.service /\ c.baseURL = p.baseURL
        BY <1>4 DEF Field
  <2> QED BY <1>3, <2>1, <2>2 DEF Reaches, Endpoint
<1>8. Named(config)'
      BY <1>3, <1>4, <1>6 DEF Named
<1>9. Push(c, fields)
      BY <1>1 DEF c, fields
<1> QED BY <1>1, <1>2, <1>4, <1>5, <1>7, <1>8, <1>9, PushKeeps

LEMMA FourSetters ==
    LET fields == <<"provider", "model", "baseURL", "apiKey">> IN
    /\ fields \in Seq(Field) /\ DOMAIN fields = 1 .. 4
    /\ \A g \in Field \ {"service"} : \E i \in 1 .. 4 : fields[i] = g
BY DEF Field

LEMMA SetProfileKeeps ==
    ASSUME SettingsIInv, NEW n \in DOMAIN Builtin \cup SavedNames, SetProfile(n)
    PROVE  SettingsIInv'
<1> DEFINE l == [key |-> "profile", value |-> n]
           c == ApplySet(config, l)
           fields == IF c.profile = "" THEN <<>> ELSE <<"provider", "model", "baseURL", "apiKey">>
<1>1. lag' = (lag \/ c.service # config.service) /\ asserted' = asserted /\ Push(c, fields)
      BY DEF SetProfile
<1>2. /\ config \in Configuration /\ Filled(config) /\ asserted \in BOOLEAN /\ lag \in BOOLEAN
      /\ ~asserted => Reaches(config) /\ StoredReaches
      /\ StoredFits /\ Named(config)
      BY DEF SettingsIInv, SetFits, ReachFits
<1>3. n \in Value /\ n # ""
      BY SettingsAssumption DEF Value
<1>4. c = IF Known(n) THEN [ApplyProfile(config, Profile(n)) EXCEPT !.profile = n] ELSE config
      BY <1>3 DEF ApplySet
<1>5. lag' \in BOOLEAN /\ asserted' \in BOOLEAN
      BY <1>1, <1>2
<1>6. config' = c
      BY <1>1 DEF Push
<1>7. CASE Known(n)
  <2> DEFINE p == Profile(n)
             y == ApplyProfile(config, p)
  <2>1. /\ p \in [Field -> Value] /\ Filled(p) /\ (~asserted => Reaches(p))
        /\ n \in DOMAIN Builtin => p = Builtin[n]
        BY <1>2, <1>7, ProfileFits
  <2>2. c = [y EXCEPT !.profile = n]
        BY <1>4, <1>7
  <2> HIDE DEF p, c
  <2>3. /\ y \in Configuration /\ Filled(y) /\ (~asserted => Reaches(y))
        /\ \A f \in Field : y[f] = IF p[f] # "" THEN p[f] ELSE config[f]
        BY <1>2, <2>1, ApplyProfileFits
  <2> HIDE DEF y
  <2>4. c \in Configuration /\ c.profile = n /\ \A g \in Field : c[g] = y[g]
        BY <1>3, <2>2, <2>3 DEF Configuration, Field
  <2>5. Filled(c)
        BY <2>3, <2>4 DEF Filled
  <2>6. ~asserted => Reaches(c)
    <3>1. c.provider = y.provider /\ c.service = y.service /\ c.baseURL = y.baseURL
          BY <2>4 DEF Field
    <3> QED BY <2>3, <3>1 DEF Reaches, Endpoint
  <2>7. Named(config)'
        BY <1>6, <2>1, <2>3, <2>4 DEF Named
  <2>8. fields = <<"provider", "model", "baseURL", "apiKey">>
        BY <1>3, <2>4
  <2> HIDE DEF fields
  <2>9. fields \in Seq(Field) /\ DOMAIN fields = 1 .. 4
        /\ \A g \in Field \ {"service"} : \E i \in 1 .. 4 : fields[i] = g
        BY <2>8, FourSetters
  <2>10. \A g \in Field :
           \/ c[g] = config[g] /\ (lag /\ g = "service" => lag')
           \/ \E i \in DOMAIN fields : fields[i] = g
           \/ g = "service" /\ lag'
    <3> TAKE g \in Field
    <3>1. CASE g = "service"
          BY <1>1, <1>2, <3>1
    <3>2. CASE g # "service"
          BY <2>9, <3>2
    <3> QED BY <3>1, <3>2
  <2>11. ~asserted' => Reaches(c)
         BY <1>1, <2>6
  <2>12. asserted => asserted'
         BY <1>1
  <2> QED BY <1>1, <1>5, <2>4, <2>5, <2>7, <2>9, <2>10, <2>11, <2>12, PushKeeps
<1>8. CASE ~Known(n)
  <2>1. c = config
        BY <1>4, <1>8
  <2> HIDE DEF c
  <2>2. fields \in Seq(Field)
    <3>1. <<>> \in Seq(Field)
          BY EmptySeq
    <3> QED BY <3>1, FourSetters
  <2>3. Named(config)'
        BY <1>1, <1>2, <1>6, <2>1 DEF Named
  <2>4. \A g \in Field :
           \/ c[g] = config[g] /\ (lag /\ g = "service" => lag')
           \/ \E i \in DOMAIN fields : fields[i] = g
           \/ g = "service" /\ lag'
        BY <1>1, <2>1
  <2>5. c \in Configuration /\ Filled(c) /\ (~asserted' => Reaches(c)) /\ (asserted => asserted')
        BY <1>1, <1>2, <2>1
  <2> HIDE DEF fields
  <2> QED BY <1>1, <1>5, <2>2, <2>3, <2>4, <2>5, PushKeeps
<1> QED BY <1>7, <1>8

LEMMA CountFits ==
    ASSUME SettingsIInv, commands < MaxCommands, commands' = commands + 1
    PROVE  commands' \in 0 .. MaxCommands
<1>1. commands \in 0 .. MaxCommands
      BY DEF SettingsIInv, SetFits
<1> QED BY <1>1, BoundIsNat

LEMMA SaveProfileKeeps ==
    ASSUME SettingsIInv, NEW n \in SavedNames, SaveProfile(n)
    PROVE  SettingsIInv'
<1>1. PICK p \in {Only(Field, config), Absent} :
         stored' = [stored EXCEPT ![n] = p]
      BY DEF SaveProfile
<1>2. /\ commands' \in 0 .. MaxCommands /\ savedAs' = Absent
      /\ UNCHANGED <<config, client, conn, cached, todo, rc, attempt, clean, lag, asserted>>
      BY CountFits DEF SaveProfile, Typed
<1>3. config \in Configuration /\ Filled(config) /\ StoredFits /\ (~asserted => Reaches(config) /\ StoredReaches)
      BY DEF SettingsIInv, SetFits, ReachFits
<1>4. p # Absent => p \in [Field -> Value] /\ Filled(p) /\ (~asserted => Reaches(p))
  <2> SUFFICES ASSUME p # Absent PROVE p \in [Field -> Value] /\ Filled(p) /\ (~asserted => Reaches(p))
      OBVIOUS
  <2>1. p = [f \in Field |-> config[f]]
        BY DEF Only
  <2>2. p \in [Field -> Value] /\ \A f \in Field : p[f] = config[f]
        BY <1>3, <2>1 DEF Configuration
  <2>3. Filled(p)
        BY <1>3, <2>2 DEF Filled
  <2>4. p.provider = config.provider /\ p.service = config.service /\ p.baseURL = config.baseURL
        BY <2>2 DEF Field
  <2> QED BY <1>3, <2>2, <2>3, <2>4 DEF Reaches, Endpoint
<1>5. \A m \in SavedNames : stored'[m] = IF m = n THEN p ELSE stored[m]
      BY <1>1, <1>3 DEF StoredFits
<1>6. StoredFits'
  <2>1. stored' \in [SavedNames -> [Field -> Value] \cup {Absent}]
        BY <1>1, <1>3, <1>4 DEF StoredFits
  <2>2. \A m \in SavedNames : stored'[m] # Absent => Filled(stored'[m])
        BY <1>3, <1>4, <1>5 DEF StoredFits
  <2> QED BY <2>1, <2>2 DEF StoredFits, Filled
<1>7. ReachFits'
  <2>1. ~asserted => Reaches(config) /\ \A m \in SavedNames : stored'[m] # Absent => Reaches(stored'[m])
        BY <1>3, <1>4, <1>5 DEF StoredReaches
  <2> QED BY <1>2, <2>1 DEF ReachFits, StoredReaches, Reaches, Endpoint
<1>8. SetFits'
      BY <1>2, <1>6 DEF SettingsIInv, SetFits, Filled
<1>9. PushFits' /\ CacheFits'
      BY <1>2 DEF SettingsIInv, PushFits, CacheFits
<1>10. SavedFits'
       BY <1>2 DEF SettingsIInv, SavedFits
<1>11. Named(config)'
       BY <1>2 DEF SettingsIInv, Named
<1> QED BY <1>7, <1>8, <1>9, <1>10, <1>11 DEF SettingsIInv

LEMMA SaveRcKeeps ==
    ASSUME SettingsIInv, SaveRc
    PROVE  SettingsIInv'
<1>1. /\ commands' \in 0 .. MaxCommands /\ savedAs' = config /\ rc' = Snapshot(config)
      /\ UNCHANGED <<config, client, conn, cached, todo, stored, attempt, clean, lag, asserted>>
      BY CountFits DEF SaveRc, Typed
<1>2. config \in Configuration /\ Filled(config)
      BY DEF SettingsIInv, SetFits
<1>3. SetFits'
      BY <1>1 DEF SettingsIInv, SetFits, Filled, StoredFits
<1>4. PushFits' /\ CacheFits'
      BY <1>1 DEF SettingsIInv, PushFits, CacheFits
<1>5. ReachFits'
      BY <1>1 DEF SettingsIInv, ReachFits, StoredReaches, Reaches, Endpoint
<1>6. SavedFits'
  <2>1. \E d \in Configuration : Filled(d) /\ rc' = Snapshot(d)
        BY <1>1, <1>2
  <2>2. savedAs' \in Configuration /\ Filled(savedAs') /\ rc' = Snapshot(savedAs') /\ config' = savedAs'
        BY <1>1, <1>2
  <2> QED BY <2>1, <2>2 DEF SavedFits, Filled, Snapshot
<1>7. Named(config)'
      BY <1>1 DEF SettingsIInv, Named
<1> QED BY <1>3, <1>4, <1>5, <1>6, <1>7 DEF SettingsIInv

\* A step that leaves all but the client's side of it.
LEMMA ClientSide ==
    ASSUME SettingsIInv, UNCHANGED <<config, stored, rc, savedAs, asserted>>
    PROVE  ReachFits' /\ SavedFits' /\ Named(config)' /\ StoredFits'
           /\ config' \in Configuration /\ Filled(config)' /\ asserted' \in BOOLEAN
<1>1. ReachFits'
      BY DEF SettingsIInv, ReachFits, StoredReaches, Reaches, Endpoint
<1>2. SavedFits'
      BY DEF SettingsIInv, SavedFits
<1>3. Named(config)'
      BY DEF SettingsIInv, Named
<1>4. StoredFits' /\ config' \in Configuration /\ Filled(config)' /\ asserted' \in BOOLEAN
      BY DEF SettingsIInv, SetFits, StoredFits, Filled
<1> QED BY <1>1, <1>2, <1>3, <1>4

LEMMA DebugKeeps ==
    ASSUME SettingsIInv, NEW on \in BOOLEAN, Debug(on)
    PROVE  SettingsIInv'
<1> DEFINE hooks == <<[field |-> "hook", value |-> on]>>
           Call == [field : Field \cup {"hook"}, value : Value \cup BOOLEAN]
<1>1. /\ commands' \in 0 .. MaxCommands /\ todo = <<>> /\ todo' \in {<<>>, hooks}
      /\ UNCHANGED <<config, client, conn, cached, stored, rc, attempt, clean, lag, asserted, savedAs>>
      BY CountFits DEF Debug, Typed
<1>2. /\ hooks \in Seq(Call) /\ <<>> \in Seq(Call)
      /\ \A i \in DOMAIN hooks : hooks[i].field = "hook" /\ hooks[i].value \in BOOLEAN
  <2>1. [field |-> "hook", value |-> on] \in Call
        OBVIOUS
  <2>2. <<>> \in Seq(Call)
        BY EmptySeq
  <2> HIDE DEF Call
  <2> QED BY <2>1, <2>2
<1> HIDE DEF hooks
<1>3. todo' \in Seq(Call)
      BY <1>1, <1>2
<1>4. SetFits'
      BY <1>1, <1>3, ClientSide DEF SettingsIInv, SetFits
<1>5. PushFits'
  <2>1. \A f \in Field : client[f] = config[f] \/ (f = "service" /\ lag)
        BY <1>1 DEF SettingsIInv, PushFits
  <2> QED BY <1>1, <1>2, <2>1 DEF PushFits
<1>6. CacheFits'
      BY <1>1 DEF SettingsIInv, CacheFits
<1> QED BY <1>1, <1>4, <1>5, <1>6, ClientSide DEF SettingsIInv

LEMMA SetterKeeps ==
    ASSUME SettingsIInv, Setter
    PROVE  SettingsIInv'
<1> DEFINE s == Head(todo)
           Call == [field : Field \cup {"hook"}, value : Value \cup BOOLEAN]
<1>1. /\ todo # <<>> /\ todo' = Tail(todo) /\ client' = [client EXCEPT ![s.field] = s.value]
      /\ conn' = Absent /\ cached' = None /\ clean' = FALSE
      /\ UNCHANGED <<config, stored, rc, attempt, commands, lag, asserted, savedAs>>
      BY DEF Setter
<1>2. /\ todo \in Seq(Call) /\ client \in Client /\ config \in Configuration /\ lag \in BOOLEAN
      /\ commands \in 0 .. MaxCommands
      /\ attempt \in [at : {"idle", "model", "snapshot", "sent"}, conn : Connection \cup {Absent},
                      name : Value, service : Value]
      BY DEF SettingsIInv, SetFits
<1> HIDE DEF Call
<1>3. /\ todo' \in Seq(Call) /\ 1 \in DOMAIN todo /\ s = todo[1] /\ s \in Call
      /\ DOMAIN todo = 1 .. Len(todo) /\ Len(todo) \in Nat \ {0}
      /\ DOMAIN todo' = 1 .. (Len(todo) - 1)
      /\ \A i \in DOMAIN todo' : todo'[i] = todo[i + 1] /\ i + 1 \in DOMAIN todo
      BY <1>1, <1>2
<1>4. IF s.field = "hook" THEN s.value \in BOOLEAN ELSE s.value = config[s.field]
      BY <1>3 DEF SettingsIInv, PushFits
<1>5. s.field \in Field \cup {"hook"}
      BY <1>3 DEF Call
<1> HIDE DEF s
<1>6. client' \in Client /\ \A f \in Field : client'[f] = IF f = s.field THEN s.value ELSE client[f]
  <2>1. "hook" \notin Field /\ \A f \in Field : config[f] \in Value
        BY <1>2 DEF Field, Configuration
  <2>2. client \in [Field \cup {"hook"} -> Value \cup BOOLEAN]
        BY <1>2 DEF Client
  <2>3. s.value \in Value \cup BOOLEAN
        BY <1>4, <1>5, <2>1
  <2>4. client' \in [Field \cup {"hook"} -> Value \cup BOOLEAN]
        BY <1>1, <2>2, <2>3
  <2>5. \A f \in Field \cup {"hook"} : client'[f] = IF f = s.field THEN s.value ELSE client[f]
        BY <1>1, <2>2
  <2> QED BY <1>2, <1>4, <1>5, <2>1, <2>4, <2>5 DEF Client
<1>7. SetFits'
  <2>1. clean' \in BOOLEAN
        BY <1>1
  <2>2. lag' \in BOOLEAN /\ commands' \in 0 .. MaxCommands
        BY <1>1, <1>2
  <2>3. attempt' \in [at : {"idle", "model", "snapshot", "sent"}, conn : Connection \cup {Absent},
                      name : Value, service : Value]
        BY <1>1, <1>2
  <2>4. StoredFits' /\ config' \in Configuration /\ Filled(config)' /\ asserted' \in BOOLEAN
        BY <1>1, ClientSide
  <2> QED BY <1>3, <1>6, <2>1, <2>2, <2>3, <2>4 DEF SetFits, Call
<1>8. PushFits'
  <2>1. \A i \in DOMAIN todo' : IF todo'[i].field = "hook" THEN todo'[i].value \in BOOLEAN
                                ELSE todo'[i].value = config[todo'[i].field]
    <3> TAKE i \in DOMAIN todo'
    <3>1. i + 1 \in DOMAIN todo /\ todo'[i] = todo[i + 1]
          BY <1>3
    <3> QED BY <3>1 DEF SettingsIInv, PushFits
  <2>2. ASSUME NEW f \in Field
        PROVE  \/ client'[f] = config[f] \/ \E i \in DOMAIN todo' : todo'[i].field = f
               \/ f = "service" /\ lag
    <3>1. CASE f = s.field
      <4>1. f # "hook"
            BY DEF Field
      <4> QED BY <1>4, <1>6, <3>1, <4>1
    <3>2. CASE f # s.field
      <4>1. client'[f] = client[f]
            BY <1>6, <3>2
      <4>2. CASE \E i \in DOMAIN todo : todo[i].field = f
        <5>1. PICK i \in DOMAIN todo : todo[i].field = f
              BY <4>2
        <5>2. i # 1
              BY <1>3, <3>2, <5>1
        <5>3. i - 1 \in DOMAIN todo' /\ (i - 1) + 1 = i
              BY <1>3, <5>2
        <5>4. todo'[i - 1] = todo[i]
              BY <1>3, <5>3
        <5> QED BY <5>1, <5>3, <5>4
      <4>3. CASE client[f] = config[f] \/ (f = "service" /\ lag)
            BY <4>1, <4>3
      <4> QED BY <4>2, <4>3 DEF SettingsIInv, PushFits
    <3> QED BY <3>1, <3>2
  <2> QED BY <1>1, <2>1, <2>2 DEF PushFits
<1>9. CacheFits'
      BY <1>1 DEF CacheFits
<1> QED BY <1>1, <1>7, <1>8, <1>9, ClientSide DEF SettingsIInv

LEMMA AttemptKeeps ==
    ASSUME SettingsIInv, StartAttempt \/ NoProvider \/ ReadSettings \/ EndAttempt
    PROVE  SettingsIInv'
<1> DEFINE Tries == [at : {"idle", "model", "snapshot", "sent"}, conn : Connection \cup {Absent},
                     name : Value, service : Value]
<1>1. UNCHANGED <<config, client, conn, cached, todo, stored, rc, commands, lag, asserted, savedAs>>
      BY DEF StartAttempt, NoProvider, ReadSettings, EndAttempt
<1>2. attempt \in Tries /\ client \in Client /\ clean \in BOOLEAN
      BY DEF SettingsIInv, SetFits
<1>3. Idle \in Tries
      BY DEF Idle, Value
<1>4. clean' \in BOOLEAN /\ (clean' = clean \/ attempt'.at = "model")
  <2>1. CASE StartAttempt
    <3>1. attempt' = [Idle EXCEPT !.at = "model"] /\ clean' \in BOOLEAN
          BY <2>1 DEF StartAttempt
    <3> QED BY <3>1 DEF Idle
  <2>2. CASE NoProvider \/ ReadSettings \/ EndAttempt
        BY <1>2, <2>2 DEF NoProvider, ReadSettings, EndAttempt
  <2> QED BY <2>1, <2>2
<1>5. \/ attempt'.at \in {"idle", "model"} /\ attempt' \in Tries
      \/ /\ attempt' \in Tries /\ attempt.at = "snapshot" /\ attempt'.at = "sent" /\ clean' = clean
         /\ attempt'.conn = attempt.conn /\ attempt'.name = attempt.name
         /\ attempt'.service = client.service
  <2>1. CASE StartAttempt
    <3>1. attempt' = [Idle EXCEPT !.at = "model"]
          BY <2>1 DEF StartAttempt
    <3> HIDE DEF Tries
    <3>2. attempt' \in Tries /\ attempt'.at = "model"
          BY <1>3, <3>1 DEF Tries
    <3> QED BY <3>2
  <2>2. CASE NoProvider \/ EndAttempt
    <3>1. attempt' = Idle
          BY <2>2 DEF NoProvider, EndAttempt
    <3> QED BY <1>3, <3>1 DEF Idle
  <2>3. CASE ReadSettings
    <3>1. attempt.at = "snapshot" /\ attempt' = [attempt EXCEPT !.at = "sent", !.service = client.service]
          /\ clean' = clean
          BY <2>3 DEF ReadSettings
    <3>2. client.service \in Value
          BY <1>2 DEF Client, Field
    <3> QED BY <1>2, <3>1, <3>2
  <2> QED BY <2>1, <2>2, <2>3
<1>6. SetFits'
  <2>1. attempt' \in Tries
        BY <1>5
  <2> QED BY <1>1, <1>4, <2>1, ClientSide DEF SettingsIInv, SetFits
<1>7. PushFits'
      BY <1>1 DEF SettingsIInv, PushFits
<1>8. CacheFits'
      BY <1>1, <1>4, <1>5 DEF SettingsIInv, CacheFits
<1> QED BY <1>1, <1>6, <1>7, <1>8, ClientSide DEF SettingsIInv

LEMMA EnsureKeeps ==
    ASSUME SettingsIInv, EnsureModel
    PROVE  SettingsIInv'
<1> DEFINE Tries == [at : {"idle", "model", "snapshot", "sent"}, conn : Connection \cup {Absent},
                     name : Value, service : Value]
           built == Only(ConnField, client)
<1>1. /\ client.provider \in Provider /\ conn' = IF conn # Absent THEN conn ELSE built
      /\ cached' = IF cached # None THEN cached ELSE [name |-> client.model, conn |-> conn']
      /\ attempt' = [attempt EXCEPT !.at = "snapshot", !.conn = cached'.conn, !.name = cached'.name]
      /\ UNCHANGED <<config, client, todo, stored, rc, commands, clean, lag, asserted, savedAs>>
      BY DEF EnsureModel
<1>2. attempt \in Tries /\ client \in Client
      BY DEF SettingsIInv, SetFits
<1>3. built \in Connection /\ built # Absent /\ built.provider = client.provider
  <2>1. "provider" \in ConnField
        BY DEF ConnField, Field
  <2> QED BY <1>2, <2>1, OnlyFits, NoRecords
<1>4. /\ conn # Absent => conn = built
      /\ cached # None => conn # Absent /\ cached = [name |-> client.model, conn |-> conn]
      BY DEF SettingsIInv, CacheFits
<1> HIDE DEF built
<1>5. conn' = built
      BY <1>1, <1>4
<1>6. cached' = [name |-> client.model, conn |-> built]
      BY <1>1, <1>4, <1>5
<1>7. client.model \in Value
      BY <1>2 DEF Client, Field
<1>8. cached'.conn = built /\ cached'.name = client.model
      BY <1>6
<1>9. /\ attempt' \in Tries /\ attempt'.at = "snapshot" /\ attempt'.conn = built
      /\ attempt'.name = client.model
  <2>1. attempt' = [attempt EXCEPT !.at = "snapshot", !.conn = built, !.name = client.model]
        BY <1>1, <1>8
  <2> QED BY <1>2, <1>3, <1>7, <2>1
<1>10. SetFits'
  <2>1. StoredFits' /\ config' \in Configuration /\ Filled(config)' /\ asserted' \in BOOLEAN
        BY <1>1, ClientSide
  <2> QED BY <1>1, <1>9, <2>1 DEF SettingsIInv, SetFits
<1>11. PushFits'
       BY <1>1 DEF SettingsIInv, PushFits
<1>12. CacheFits'
  <2>1. conn' = Only(ConnField, client') /\ conn'.provider \in Provider /\ conn' # Absent
        BY <1>1, <1>3, <1>5 DEF built
  <2>2. cached' = [name |-> client'.model, conn |-> conn']
        BY <1>1, <1>5, <1>6
  <2>3. attempt'.conn = Only(ConnField, client') /\ attempt'.name = client'.model
        /\ attempt'.at # "sent"
        BY <1>1, <1>9 DEF built
  <2> QED BY <2>1, <2>2, <2>3 DEF CacheFits
<1> QED BY <1>1, <1>10, <1>11, <1>12, ClientSide DEF SettingsIInv

LEMMA RestartKeeps ==
    ASSUME SettingsIInv, NEW e \in Env, NEW p \in {""} \cup DOMAIN Builtin \cup SavedNames,
           NEW m \in {""} \cup NewModels, Restart(e, p, m)
    PROVE  SettingsIInv'
<1> DEFINE c == Startup(e, rc, p, m)
           Tries == [at : {"idle", "model", "snapshot", "sent"}, conn : Connection \cup {Absent},
                     name : Value, service : Value]
<1>1. /\ commands < MaxCommands /\ commands' = commands + 1
      /\ p # "" => Known(p)
      /\ config' = c /\ client' = NewClient(c) /\ conn' = Absent /\ cached' = None /\ todo' = <<>>
      /\ attempt' = Idle /\ clean' = FALSE /\ lag' = FALSE
      /\ savedAs' = IF p = "" /\ m = "" THEN savedAs ELSE Absent
      /\ UNCHANGED <<stored, rc, asserted>>
      BY DEF Restart, Start
<1>2. /\ StoredFits /\ (~asserted => StoredReaches) /\ asserted \in BOOLEAN
      /\ rc = <<>> \/ \E d \in Configuration : Filled(d) /\ rc = Snapshot(d)
      BY DEF SettingsIInv, SetFits, ReachFits, SavedFits
<1>3. /\ c \in Configuration /\ Filled(c) /\ (~asserted => Reaches(c)) /\ Named(c)
      /\ p = "" /\ m = "" => c = ApplyRCSetCommands(e, rc)
      BY <1>1, <1>2, StartFits
<1> HIDE DEF c
<1>4. SetFits'
  <2>1. commands' \in 0 .. MaxCommands
        BY <1>1, CountFits
  <2>2. clean' \in BOOLEAN /\ lag' \in BOOLEAN /\ asserted' \in BOOLEAN
        BY <1>1, <1>2
  <2>3. attempt' \in Tries
        BY <1>1 DEF Idle, Value
  <2>4. config' \in Configuration /\ Filled(config') /\ client' \in Client
        BY <1>1, <1>3, ClientFits
  <2>5. StoredFits'
        BY <1>1, <1>2 DEF StoredFits
  <2>6. todo' \in Seq([field : Field \cup {"hook"}, value : Value \cup BOOLEAN])
        BY <1>1, EmptySeq
  <2> QED BY <2>1, <2>2, <2>3, <2>4, <2>5, <2>6 DEF SetFits, Filled
<1>5. PushFits'
  <2>1. \A f \in Field : client'[f] = config'[f]
        BY <1>1, <1>3, ClientFits
  <2>2. todo' = <<>>
        BY <1>1
  <2>3. DOMAIN todo' = {}
        BY <2>2, EmptyDomain
  <2> QED BY <2>1, <2>3 DEF PushFits
<1>6. CacheFits'
      BY <1>1 DEF CacheFits, Idle
<1>7. ReachFits'
      BY <1>1, <1>2, <1>3 DEF ReachFits, StoredReaches, Reaches, Endpoint
<1>8. SavedFits'
  <2>1. rc' = <<>> \/ \E d \in Configuration : Filled(d) /\ rc' = Snapshot(d)
        BY <1>1, <1>2
  <2>2. ASSUME savedAs' # Absent
        PROVE  /\ savedAs' \in Configuration /\ Filled(savedAs') /\ rc' = Snapshot(savedAs')
               /\ savedAs'.provider \in Provider => config'.provider = savedAs'.provider
               /\ config'.model = savedAs'.model /\ config'.baseURL = savedAs'.baseURL
               /\ savedAs'.apiKey # "" => config'.apiKey = savedAs'.apiKey
    <3>1. p = "" /\ m = "" /\ savedAs' = savedAs /\ savedAs # Absent
          BY <1>1, <2>2
    <3>2. savedAs \in Configuration /\ Filled(savedAs) /\ rc = Snapshot(savedAs)
          BY <3>1 DEF SettingsIInv, SavedFits
    <3>3. e \in Configuration /\ Filled(e)
          BY EnvironmentFits
    <3>4. c = ApplyRCSetCommands(e, Snapshot(savedAs))
          BY <1>3, <3>1, <3>2
    <3>5. /\ savedAs.provider \in Provider => c.provider = savedAs.provider
          /\ c.model = savedAs.model /\ c.baseURL = savedAs.baseURL
          /\ savedAs.apiKey # "" => c.apiKey = savedAs.apiKey
          BY <1>2, <3>2, <3>3, <3>4, SnapshotComesBack
    <3> QED BY <1>1, <3>1, <3>2, <3>5
  <2> QED BY <2>1, <2>2 DEF SavedFits, Filled, Snapshot
<1>9. Named(config)'
      BY <1>1, <1>3 DEF Named
<1> QED BY <1>4, <1>5, <1>6, <1>7, <1>8, <1>9 DEF SettingsIInv

LEMMA CommandKeeps ==
    ASSUME SettingsIInv, Command
    PROVE  SettingsIInv'
<1>1. Provider \cup {"other"} \subseteq Given
      BY DEF Provider, Given, Value
<1>2. NewUrls \subseteq Given /\ NewModels \subseteq Given /\ NewKeys \subseteq Given /\ NewServices \subseteq Given
      BY SettingsAssumption DEF Given, Value
<1>3. {"provider", "baseURL", "model", "apiKey"} \subseteq Field
      BY DEF Field
<1>4. CASE \/ \E v \in Provider \cup {"other"} : SetTransport("provider", v)
           \/ \E v \in NewUrls : SetTransport("baseURL", v)
      BY <1>1, <1>2, <1>3, <1>4, TransportKeeps
<1>5. CASE \/ \E v \in NewModels : SetModelOrKey("model", v)
           \/ \E v \in NewKeys : SetModelOrKey("apiKey", v)
      BY <1>2, <1>3, <1>5, ModelOrKeyKeeps
<1>6. CASE \E v \in NewServices : SetService(v)
      BY <1>2, <1>6, ServiceKeeps
<1>7. CASE \E n \in DOMAIN Builtin \cup SavedNames : LoadProfile(n) \/ SetProfile(n)
      BY <1>7, LoadKeeps, SetProfileKeeps
<1>8. CASE \E n \in SavedNames : SaveProfile(n)
      BY <1>8, SaveProfileKeeps
<1>9. CASE \E on \in BOOLEAN : Debug(on)
      BY <1>9, DebugKeeps
<1>10. CASE SaveRc
      BY <1>10, SaveRcKeeps
<1> QED BY <1>4, <1>5, <1>6, <1>7, <1>8, <1>9, <1>10 DEF Command

LEMMA SettingsKeep == SettingsIInv /\ [SettingsNext]_settingsVars => SettingsIInv'
<1> SUFFICES ASSUME SettingsIInv, [SettingsNext]_settingsVars PROVE SettingsIInv'
    OBVIOUS
<1>1. CASE UNCHANGED settingsVars
  <2>1. UNCHANGED <<config, client, conn, cached, todo, stored, rc, attempt, commands, clean, lag,
                    asserted, savedAs>>
        BY <1>1 DEF settingsVars
  <2>2. SetFits'
        BY <2>1, ClientSide DEF SettingsIInv, SetFits
  <2>3. PushFits' /\ CacheFits'
        BY <2>1 DEF SettingsIInv, PushFits, CacheFits
  <2> QED BY <2>1, <2>2, <2>3, ClientSide DEF SettingsIInv
<1>2. CASE Command
      BY <1>2, CommandKeeps
<1>3. CASE Setter
      BY <1>3, SetterKeeps
<1>4. CASE StartAttempt \/ NoProvider \/ ReadSettings \/ EndAttempt
      BY <1>4, AttemptKeeps
<1>5. CASE EnsureModel
      BY <1>5, EnsureKeeps
<1>6. CASE \E e \in Env, p \in {""} \cup DOMAIN Builtin \cup SavedNames, m \in {""} \cup NewModels :
             Restart(e, p, m)
      BY <1>6, RestartKeeps
<1> QED BY <1>1, <1>2, <1>3, <1>4, <1>5, <1>6 DEF SettingsNext

LEMMA SettingsFollow == SettingsIInv => RequestsFollowSettings
<1> SUFFICES ASSUME SettingsIInv PROVE RequestsFollowSettings
    OBVIOUS
<1>1. /\ config \in Configuration /\ client \in Client /\ StoredFits
      /\ todo \in Seq([field : Field \cup {"hook"}, value : Value \cup BOOLEAN])
      /\ attempt \in [at : {"idle", "model", "snapshot", "sent"}, conn : Connection \cup {Absent},
                    name : Value, service : Value]
      /\ commands \in 0 .. MaxCommands /\ clean \in BOOLEAN /\ lag \in BOOLEAN /\ asserted \in BOOLEAN
      BY DEF SettingsIInv, SetFits
<1>2. SettingsTypeOK
  <2>1. DOMAIN config = Field \cup {"profile"} /\ DOMAIN client = Field \cup {"hook"}
        /\ client.hook \in BOOLEAN
        BY <1>1 DEF Configuration, Client
  <2>2. conn # Absent => DOMAIN conn = ConnField /\ conn.provider \in Provider
        BY DEF SettingsIInv, CacheFits, Only
  <2>3. cached # None => cached.conn = conn
        BY DEF SettingsIInv, CacheFits
  <2>4. \A i \in DOMAIN todo : todo[i].field \in Field \cup {"hook"}
    <3> DEFINE Call == [field : Field \cup {"hook"}, value : Value \cup BOOLEAN]
    <3> TAKE i \in DOMAIN todo
    <3>1. todo \in Seq(Call)
          BY <1>1
    <3> HIDE DEF Call
    <3>2. todo[i] \in Call
          BY <3>1
    <3> QED BY <3>2 DEF Call
  <2>5. \A n \in SavedNames : stored[n] # Absent => DOMAIN stored[n] = Field
    <3> SUFFICES ASSUME NEW n \in SavedNames, stored[n] # Absent PROVE DOMAIN stored[n] = Field
        OBVIOUS
    <3>1. stored[n] \in [Field -> Value]
          BY <1>1 DEF StoredFits
    <3> QED BY <3>1
  <2>6. attempt.at \in {"idle", "model", "snapshot", "sent"}
        BY <1>1
  <2> QED BY <1>1, <2>1, <2>2, <2>3, <2>4, <2>5, <2>6 DEF SettingsTypeOK
<1>3. ClientFollowsConfig
  <2> SUFFICES ASSUME todo = <<>>, NEW f \in Field
               PROVE  client[f] = config[f] \/ (f = "service" /\ lag)
      BY DEF ClientFollowsConfig
  <2>1. DOMAIN todo = {}
        OBVIOUS
  <2> QED BY <2>1 DEF SettingsIInv, PushFits
<1>4. RequestIsAsShown
  <2> SUFFICES ASSUME attempt.at = "sent", clean, todo = <<>>, ~lag, ~asserted
               PROVE  /\ Endpoint(attempt.conn) = config.baseURL
                      /\ attempt.conn.provider = config.provider
                      /\ attempt.conn.apiKey = config.apiKey
                      /\ attempt.name = config.model
                      /\ attempt.service = config.service /\ attempt.service = attempt.conn.service
      BY DEF RequestIsAsShown
  <2>1. attempt.conn = Only(ConnField, client) /\ attempt.name = client.model
        /\ attempt.service = client.service
        BY DEF SettingsIInv, CacheFits
  <2>2. \A f \in Field : client[f] = config[f]
        BY <1>3 DEF ClientFollowsConfig
  <2>3. {"provider", "service", "baseURL", "apiKey"} \subseteq ConnField \cap Field /\ "model" \in Field
        BY DEF ConnField, Field
  <2>4. \A f \in ConnField : attempt.conn[f] = client[f]
        BY <1>1, <2>1, OnlyFits
  <2>5. /\ attempt.conn.provider = config.provider /\ attempt.conn.service = config.service
        /\ attempt.conn.baseURL = config.baseURL /\ attempt.conn.apiKey = config.apiKey
        /\ client.model = config.model /\ client.service = config.service
        BY <2>2, <2>3, <2>4
  <2>6. Endpoint(config) = config.baseURL
        BY DEF SettingsIInv, ReachFits, Reaches
  <2> QED BY <2>1, <2>5, <2>6 DEF Endpoint
<1>5. ProfileIsTrue
      BY DEF SettingsIInv, Named, ProfileIsTrue
<1>6. SavedComesBack
      BY DEF SettingsIInv, SavedFits, SavedComesBack
<1> QED BY <1>2, <1>3, <1>4, <1>5, <1>6 DEF RequestsFollowSettings

\* A request is made with what the settings say when it is made, a name of a profile is true, and
\* what /save wrote is what comes back (config.go, rc.go, ui/commands.go, llm/client.go).
THEOREM SettingsAreFollowed == SettingsSpec => []RequestsFollowSettings
BY SettingsStarts, SettingsKeep, SettingsFollow, PTL DEF SettingsSpec

-----------------------------------------------------------------------------
(* The settings that are no part of the connection (Preferences) *)

\* What a value may be, among it what the code itself writes; and what the code stores.
Word == STRING \cup {"", "on", "off", "<unset>", "secr...2345"}
           \cup Efforts \cup Verbosities \cup Numbers
PrefLine == [key : Key, value : Word]
Prefs == {c \in [Key -> Word] :
             /\ c["effort"] \in Efforts \cup {""} /\ c["tool_timeout"] \in Numbers \ {"0"}
             /\ c["tool_verbosity"] \in Verbosities /\ c["temperature"] \in Numbers \cup {""}
             /\ c["sound"] \in {"on", "off"} /\ c["banner"] \in {"on", "off"}}

\* What a line of the rc file or a /set does.
LEMMA SetKeyFits ==
    ASSUME NEW c \in Prefs, NEW k \in Key, NEW v \in Word
    PROVE  /\ SetKey(c, k, v) \in Prefs
           /\ \A j \in Key \ {k} : SetKey(c, k, v)[j] = c[j]
           /\ Accepts(k, v) => SetKey(c, k, v)[k] = AsStored(k, v)
           /\ ~Accepts(k, v) => SetKey(c, k, v) = c
<1> DEFINE d == SetKey(c, k, v)
<1>1. CASE ~Accepts(k, v)
  <2>1. d = c
        BY <1>1 DEF SetKey
  <2> QED BY <1>1, <2>1
<1>2. CASE Accepts(k, v)
  <2>1. d = [c EXCEPT ![k] = AsStored(k, v)]
        BY <1>2 DEF SetKey
  <2>2. c \in [Key -> Word]
        BY DEF Prefs
  <2>3. AsStored(k, v) \in Word
        BY DEF AsStored, Word
  <2>4. d \in [Key -> Word] /\ d[k] = AsStored(k, v) /\ \A j \in Key \ {k} : d[j] = c[j]
        BY <2>1, <2>2, <2>3
  <2>5. /\ k = "effort" => AsStored(k, v) \in Efforts \cup {""}
        /\ k = "temperature" => AsStored(k, v) \in Numbers \cup {""}
        BY <1>2 DEF Accepts, AsStored, Unset
  <2>6. /\ k = "tool_timeout" => AsStored(k, v) \in Numbers \ {"0"}
        /\ k = "tool_verbosity" => AsStored(k, v) \in Verbosities
        BY <1>2 DEF Accepts, AsStored
  <2>7. k \in {"sound", "banner"} => AsStored(k, v) \in {"on", "off"}
        BY DEF AsStored
  <2> HIDE DEF d
  <2>8. {"effort", "temperature", "tool_timeout", "tool_verbosity", "sound", "banner"} \subseteq Key
        BY DEF Key
  <2>9. d \in Prefs
        BY <2>4, <2>5, <2>6, <2>7, <2>8 DEF Prefs
  <2> QED BY <1>2, <2>4, <2>9 DEF d
<1> QED BY <1>1, <1>2

LEMMA SetKeySame ==
    ASSUME NEW c \in Prefs, NEW k \in Key, NEW v \in Word,
           ~Accepts(k, v) \/ AsStored(k, v) = c[k]
    PROVE  SetKey(c, k, v) = c
<1>1. c \in [Key -> Word]
      BY DEF Prefs
<1> QED BY <1>1 DEF SetKey

\* What the lines of an rc file make of the settings, one after the other.
PreferencesRead(h, s, n) ==
    /\ h[0] = Defaults /\ h[n] = Started(s)
    /\ \A k \in 1 .. n : h[k] = SetKey(h[k - 1], s[k].key, s[k].value)

LEMMA DefaultsFit == Defaults \in Prefs
<1>1. STRING \subseteq Word
      BY DEF Word
<1> QED BY <1>1, PreferencesAssumption DEF Prefs

LEMMA StartedFold ==
    ASSUME NEW n \in Nat, NEW s \in [1 .. n -> PrefLine]
    PROVE  \E h \in [0 .. n -> Prefs] : PreferencesRead(h, s, n)
<1> DEFINE T == Prefs
           A == PrefLine
           base == Defaults
           Rec(f) == f = [t \in SUBSET DOMAIN s |-> IF t = {} THEN base
                                     ELSE LET x == Max(t) IN ApplyLine(f[t \ {x}], s[x])]
           G(U) == [p \in U \X A |-> ApplyLine(p[1], p[2])]
           iter == CHOOSE f : Rec(f)
<1>0. s \in [1 .. n -> A] /\ base \in T /\ \A c \in T, l \in A : ApplyLine(c, l) \in T
  <2>1. ASSUME NEW c \in T, NEW l \in A PROVE ApplyLine(c, l) \in T
    <3>1. l.key \in Key /\ l.value \in Word
          BY DEF PrefLine
    <3> QED BY <3>1, SetKeyFits DEF ApplyLine
  <2> QED BY <2>1, DefaultsFit
<1> HIDE DEF T, A, base
<1>1. ASSUME NEW U PROVE \A c \in U, l \in A : G(U)[<<c, l>>] = ApplyLine(c, l)
  <2> DEFINE g == G(U)
  <2>1. \A p \in U \X A : g[p] = ApplyLine(p[1], p[2])
        OBVIOUS
  <2> HIDE DEF g
  <2>2. ASSUME NEW c \in U, NEW l \in A PROVE g[<<c, l>>] = ApplyLine(c, l)
    <3>1. <<c, l>> \in U \X A /\ <<c, l>>[1] = c /\ <<c, l>>[2] = l
          OBVIOUS
    <3> QED BY <2>1, <3>1
  <2> QED BY <2>2 DEF g
<1>2. G(T) \in [T \X A -> T]
  <2>1. \A p \in T \X A : p[1] \in T /\ p[2] \in A
        OBVIOUS
  <2>2. \A p \in T \X A : ApplyLine(p[1], p[2]) \in T
        BY <2>1, <1>0
  <2> QED BY <2>2
<1> HIDE DEF G
<1>3. \E f : Rec(f)
  <2>1. PICK f \in [SUBSET (1 .. n) -> T] : FoldsTo(f, base, G(T), s, n)
        BY <1>2, FoldExists, <1>0
  <2>2. \A t \in SUBSET (1 .. n) : t # {} =>
            G(T)[<<f[t \ {Max(t)}], s[Max(t)]>>] = ApplyLine(f[t \ {Max(t)}], s[Max(t)])
    <3> TAKE t \in SUBSET (1 .. n)
    <3> HAVE t # {}
    <3>1. Max(t) \in t
          BY MaxIn
    <3>2. f[t \ {Max(t)}] \in T /\ s[Max(t)] \in A
          BY <3>1, <1>0
    <3> QED BY <1>1, <3>2
  <2>3. DOMAIN s = 1 .. n
        BY <1>0
  <2> QED BY <2>1, <2>2, <2>3 DEF FoldsTo
<1>4. Started(s) = iter[DOMAIN s]
      BY DEF Started, FoldLeft, MapThenFoldSet, base
<1>5. Rec(iter)
  <2> HIDE DEF Rec
  <2> QED BY <1>3
<1> HIDE DEF iter
<1> DEFINE U == T \cup {iter[t] : t \in SUBSET (1 .. n)}
<1>6. DOMAIN s = 1 .. n
      BY <1>0
<1>7. FoldsTo(iter, base, G(U), s, n)
  <2>1. ASSUME NEW t \in SUBSET (1 .. n), t # {}
        PROVE  G(U)[<<iter[t \ {Max(t)}], s[Max(t)]>>] = ApplyLine(iter[t \ {Max(t)}], s[Max(t)])
    <3>1. Max(t) \in t
          BY <2>1, MaxIn
    <3>2. iter[t \ {Max(t)}] \in U /\ s[Max(t)] \in A
          BY <3>1, <1>0
    <3> HIDE DEF U
    <3> QED BY <1>1, <3>2
  <2>2. \A t \in SUBSET (1 .. n) :
            iter[t] = IF t = {} THEN base ELSE ApplyLine(iter[t \ {Max(t)}], s[Max(t)])
        BY <1>5, <1>6
  <2> QED BY <2>1, <2>2 DEF FoldsTo
<1> DEFINE g == G(U)
<1>8. \A c \in T, l \in A : g[<<c, l>>] = ApplyLine(c, l) /\ g[<<c, l>>] \in T
  <2> TAKE c \in T, l \in A
  <2>1. c \in U /\ ApplyLine(c, l) \in T
        BY <1>0
  <2> HIDE DEF U
  <2> QED BY <1>1, <2>1
<1> HIDE DEF U, g
<1>9. PICK h \in [0 .. n -> T] : FoldUpTo(h, base, g, s, n) /\ h[n] = iter[1 .. n]
  <2>1. FoldsTo(iter, base, g, s, n)
        BY <1>7 DEF g
  <2>2. Inside(g, T, A)
        BY <1>8 DEF Inside
  <2>3. EndsIn(T, base, g, s, n, iter[1 .. n])
        BY <2>1, <2>2, FoldSteps, <1>0
  <2> QED BY <2>3 DEF EndsIn
<1>10. \A k \in 1 .. n : h[k] = ApplyLine(h[k - 1], s[k])
  <2> TAKE k \in 1 .. n
  <2>1. h[k - 1] \in T /\ s[k] \in A
        BY <1>0
  <2> QED BY <1>8, <1>9, <2>1 DEF FoldUpTo
<1> QED BY <1>4, <1>6, <1>9, <1>10 DEF FoldUpTo, PreferencesRead, ApplyLine, T, base

LEMMA LinesRead ==
    ASSUME NEW s \in Seq(PrefLine)
    PROVE  /\ Len(s) \in Nat /\ DOMAIN s = 1 .. Len(s)
           /\ \E h \in [0 .. Len(s) -> Prefs] : PreferencesRead(h, s, Len(s))
<1>1. Len(s) \in Nat /\ DOMAIN s = 1 .. Len(s) /\ s \in [1 .. Len(s) -> PrefLine]
      BY LenProperties
<1> QED BY <1>1, StartedFold

LEMMA StartedFits ==
    ASSUME NEW s \in Seq(PrefLine) PROVE Started(s) \in Prefs
<1>1. Len(s) \in Nat /\ Len(s) \in 0 .. Len(s)
      BY LinesRead
<1>2. PICK h \in [0 .. Len(s) -> Prefs] : PreferencesRead(h, s, Len(s))
      BY LinesRead
<1> QED BY <1>1, <1>2 DEF PreferencesRead

\* Lines that each say what is kept of their key make it the setting.
Says(l, saved) ==
    /\ l.key \in DOMAIN saved /\ l.value = saved[l.key]
    /\ Accepts(l.key, l.value) /\ AsStored(l.key, l.value) = l.value

LEMMA StartedComesBack ==
    ASSUME NEW s \in Seq(PrefLine), NEW saved, \A i \in DOMAIN s : Says(s[i], saved),
           NEW j \in DOMAIN s
    PROVE  Started(s)[s[j].key] = saved[s[j].key]
<1> DEFINE n == Len(s)
<1>1. n \in Nat /\ DOMAIN s = 1 .. n
      BY LinesRead
<1>2. PICK h \in [0 .. n -> Prefs] : PreferencesRead(h, s, n)
      BY LinesRead
<1>3. /\ h[n] = Started(s)
      /\ \A k \in 1 .. n : h[k] = SetKey(h[k - 1], s[k].key, s[k].value)
      BY <1>2 DEF PreferencesRead
<1> HIDE DEF n
<1> DEFINE Q == {k \in 0 .. n : \A i \in 1 .. n : i <= k => h[k][s[i].key] = s[i].value}
<1>4. 0 \in Q
      BY <1>1
<1>5. ASSUME NEW k \in 0 .. n, k < n, k \in Q PROVE k + 1 \in Q
  <2>1. k + 1 \in 1 .. n /\ k + 1 \in 0 .. n /\ (k + 1) - 1 = k /\ h[k] \in Prefs
        BY <1>1, <1>2, <1>5
  <2>2. \A i \in 1 .. n : i <= k => h[k][s[i].key] = s[i].value
        BY <1>5
  <2> DEFINE l == s[k + 1]
  <2>3. l \in PrefLine /\ Says(l, saved)
        BY <1>1, <2>1
  <2> HIDE DEF l
  <2>4. l.key \in Key /\ l.value \in Word /\ Accepts(l.key, l.value) /\ AsStored(l.key, l.value) = l.value
        BY <2>3 DEF Says, PrefLine
  <2>5. h[k + 1] = SetKey(h[k], l.key, l.value)
        BY <1>3, <2>1 DEF l
  <2>6. h[k + 1][l.key] = l.value /\ \A x \in Key \ {l.key} : h[k + 1][x] = h[k][x]
        BY <2>1, <2>4, <2>5, SetKeyFits
  <2>7. ASSUME NEW i \in 1 .. n, i <= k + 1 PROVE h[k + 1][s[i].key] = s[i].value
    <3>1. s[i].key \in Key /\ Says(s[i], saved)
          BY <1>1 DEF PrefLine
    <3>2. CASE s[i].key = l.key
      <4>1. s[i].value = l.value
            BY <2>3, <3>1, <3>2 DEF Says
      <4> QED BY <2>6, <3>2, <4>1
    <3>3. CASE s[i].key # l.key
      <4>1. i # k + 1
            BY <3>3 DEF l
      <4>2. i <= k
            BY <1>1, <2>7, <4>1
      <4> QED BY <2>2, <2>6, <3>1, <3>3, <4>2
    <3> QED BY <3>2, <3>3
  <2> QED BY <2>1, <2>7
<1>6. \A k \in 0 .. n : k \in Q
  <2> HIDE DEF Q
  <2>1. \A k \in 0 .. n : k < n /\ k \in Q => k + 1 \in Q
        BY <1>5
  <2> QED BY <1>1, <1>4, <2>1, UpTo
<1>7. n \in 0 .. n /\ j \in 1 .. n /\ j <= n
      BY <1>1
<1>8. h[n][s[j].key] = s[j].value
      BY <1>6, <1>7
<1> QED BY <1>3, <1>8 DEF Says

\* What /save writes.
Good(c) == {l \in PrefLine : l.key \in {"apikey", "nick", "sound"} /\ l.value = c[l.key] /\ l.value # ""}

LEMMA SavedLinesFit ==
    ASSUME NEW c \in Prefs, NEW n \in 0 .. Len(SavedLines(c))
    PROVE  SavedLines(c) \in Seq(Good(c)) /\ SubSeq(SavedLines(c), 1, n) \in Seq(Good(c))
<1>1. ASSUME NEW k \in {"apikey", "nick", "sound"} PROVE SavedLine(c, k) \in Seq(Good(c))
  <2>1. CASE c[k] = ""
    <3>1. SavedLine(c, k) = <<>>
          BY <2>1 DEF SavedLine
    <3> QED BY <3>1, EmptySeq
  <2>2. CASE c[k] # ""
    <3> DEFINE l == Line(k, c[k])
    <3>1. k \in Key /\ c[k] \in Word
          BY DEF Key, Prefs
    <3>2. l \in Good(c)
          BY <2>2, <3>1 DEF Line, Good, PrefLine
    <3>3. SavedLine(c, k) = <<l>>
          BY <2>2 DEF SavedLine
    <3> DEFINE S == Good(c)
    <3> HIDE DEF l, S
    <3>4. ASSUME l \in S PROVE <<l>> \in Seq(S)
          BY <3>4
    <3> QED BY <3>2, <3>3, <3>4 DEF S
  <2> QED BY <2>1, <2>2
<1> DEFINE S == Good(c)
           x == SavedLine(c, "apikey")
           y == SavedLine(c, "nick")
           z == SavedLine(c, "sound")
<1>2. x \in Seq(S) /\ y \in Seq(S) /\ z \in Seq(S) /\ SavedLines(c) = (x \o y) \o z
      BY <1>1 DEF SavedLines
<1> HIDE DEF S, x, y, z
<1>3. SavedLines(c) \in Seq(S)
      BY <1>2
<1> DEFINE s == SavedLines(c)
<1> HIDE DEF s
<1>4. s \in Seq(S) /\ n \in 0 .. Len(s)
      BY <1>3 DEF s
<1>5. SubSeq(s, 1, n) \in Seq(S)
      BY <1>4
<1> QED BY <1>3, <1>5 DEF S, s

PrefsFit ==
    /\ prefs \in Prefs /\ inUse \in [OnStart -> Word] /\ pending \subseteq OnStart
    /\ rcFile \in Seq(PrefLine) /\ (rcThere \/ rcFile = <<>>) /\ buried \in BOOLEAN

\* The file says of each key that is saved what its setting is.
KeptFits ==
    DOMAIN savedPrefs # {} =>
        /\ \A i \in DOMAIN rcFile : Says(rcFile[i], savedPrefs)
        /\ \A k \in DOMAIN savedPrefs : \E i \in DOMAIN rcFile : rcFile[i].key = k
        /\ \A k \in DOMAIN savedPrefs : prefs[k] = savedPrefs[k]

PreferencesIInv == PrefsFit /\ ShownIsUsed /\ OwnLinesStay /\ KeptFits

LEMMA TakenFits ==
    ASSUME NEW c \in Prefs
    PROVE  Taken(c) \in [OnStart -> Word] /\ \A k \in OnStart : Taken(c)[k] = c[k]
<1>1. OnStart \subseteq Key /\ c \in [Key -> Word]
      BY DEF OnStart, Key, Prefs
<1> QED BY <1>1 DEF Taken

LEMMA NothingIsKept == DOMAIN NothingKept = {}
BY DEF NothingKept

LEMMA InitialFile == PreferencesInit => rcThere \/ rcFile = <<>>
BY DEF PreferencesInit

LEMMA PreferencesStart == PreferencesInit => PreferencesIInv
<1> SUFFICES ASSUME PreferencesInit PROVE PreferencesIInv
    OBVIOUS
<1>1. rcFile \in Seq(PrefLine)
  <2>1. [key : Key, value : STRING] \subseteq PrefLine
        BY DEF PrefLine, Word
  <2> DEFINE R == [key : Key, value : STRING]
             L == PrefLine
  <2>2. rcFile \in Seq(R)
        BY PreferencesAssumption DEF PreferencesInit
  <2>3. R \subseteq L
        BY <2>1
  <2> HIDE DEF R, L
  <2>4. Len(rcFile) \in Nat /\ rcFile \in [1 .. Len(rcFile) -> R]
        BY <2>2, LenProperties
  <2>5. rcFile \in [1 .. Len(rcFile) -> L]
        BY <2>3, <2>4
  <2>6. rcFile \in Seq(L)
        BY <2>4, <2>5, MakesSeq
  <2> QED BY <2>6 DEF L
<1>2. prefs \in Prefs /\ inUse = Taken(prefs)
      BY <1>1, StartedFits DEF PreferencesInit
<1>3. PrefsFit
      BY <1>1, <1>2, TakenFits, InitialFile DEF PrefsFit, PreferencesInit
<1>4. ShownIsUsed
      BY <1>2, TakenFits DEF ShownIsUsed
<1>5. OwnLinesStay
      BY DEF OwnLinesStay, PreferencesInit
<1>6. KeptFits
      BY NothingIsKept DEF KeptFits, PreferencesInit
<1> QED BY <1>3, <1>4, <1>5, <1>6 DEF PreferencesIInv

LEMMA SetCommandKeeps ==
    ASSUME PreferencesIInv, NEW k \in Key, NEW v \in TypedValues, SetCommand(k, v)
    PROVE  PreferencesIInv'
<1>1. v \in Word
      BY PreferencesAssumption DEF Word
<1>2. prefs \in Prefs /\ inUse \in [OnStart -> Word] /\ pending \subseteq OnStart
      BY DEF PreferencesIInv, PrefsFit
<1>3. /\ prefs' = SetKey(prefs, k, v) /\ savedPrefs' = NothingKept
      /\ pending' = IF prefs' = prefs THEN pending ELSE pending \cup ({k} \cap OnStart)
      /\ UNCHANGED <<own, inUse, rcFile, rcThere, backups, buried>>
      BY DEF SetCommand
<1>4. prefs' \in Prefs /\ \A j \in Key \ {k} : prefs'[j] = prefs[j]
      BY <1>1, <1>2, <1>3, SetKeyFits
<1>5. PrefsFit'
      BY <1>2, <1>3, <1>4 DEF PreferencesIInv, PrefsFit
<1>6. ShownIsUsed'
  <2> SUFFICES ASSUME NEW j \in OnStart PROVE inUse[j] = prefs'[j] \/ j \in pending'
      BY <1>3 DEF ShownIsUsed
  <2>1. inUse[j] = prefs[j] \/ j \in pending
        BY DEF PreferencesIInv, ShownIsUsed
  <2>2. j \in Key
        BY DEF OnStart, Key
  <2>3. CASE prefs' = prefs
        BY <1>3, <2>1, <2>3
  <2>4. CASE prefs' # prefs /\ j = k
        BY <1>3, <2>4
  <2>5. CASE prefs' # prefs /\ j # k
        BY <1>3, <1>4, <2>1, <2>2, <2>5
  <2> QED BY <2>3, <2>4, <2>5
<1>7. OwnLinesStay'
      BY <1>3 DEF PreferencesIInv, OwnLinesStay
<1>8. KeptFits'
      BY <1>3, NothingIsKept DEF KeptFits
<1> QED BY <1>5, <1>6, <1>7, <1>8 DEF PreferencesIInv

LEMMA TakersKeep ==
    ASSUME PreferencesIInv, Tick \/ ToolStarts \/ NewPrompt
    PROVE  PreferencesIInv'
<1>1. /\ UNCHANGED <<own, prefs, rcFile, rcThere, backups, savedPrefs, buried>>
      /\ \/ UNCHANGED <<inUse, pending>>
         \/ \E k \in {"tool_verbosity", "persona_file"} :
               inUse' = [inUse EXCEPT ![k] = prefs[k]] /\ pending' = pending \ {k}
      BY DEF Tick, ToolStarts, NewPrompt
<1>2. prefs \in Prefs /\ inUse \in [OnStart -> Word] /\ pending \subseteq OnStart
      BY DEF PreferencesIInv, PrefsFit
<1>3. OwnLinesStay' /\ KeptFits'
      BY <1>1 DEF PreferencesIInv, OwnLinesStay, KeptFits
<1>4. CASE UNCHANGED <<inUse, pending>>
      BY <1>1, <1>3, <1>4 DEF PreferencesIInv, PrefsFit, ShownIsUsed
<1>5. ASSUME NEW k \in {"tool_verbosity", "persona_file"},
             inUse' = [inUse EXCEPT ![k] = prefs[k]], pending' = pending \ {k}
      PROVE  PreferencesIInv'
  <2>1. k \in OnStart /\ prefs[k] \in Word
        BY <1>2 DEF OnStart, Key, Prefs
  <2>2. inUse' \in [OnStart -> Word] /\ inUse'[k] = prefs[k]
        /\ \A j \in OnStart \ {k} : inUse'[j] = inUse[j]
        BY <1>2, <1>5, <2>1
  <2>3. PrefsFit'
        BY <1>1, <1>2, <1>5, <2>2 DEF PreferencesIInv, PrefsFit
  <2>4. ShownIsUsed'
        BY <1>1, <1>5, <2>2 DEF PreferencesIInv, ShownIsUsed
  <2> QED BY <1>3, <2>3, <2>4 DEF PreferencesIInv
<1> QED BY <1>1, <1>4, <1>5

LEMMA SaveKeeps ==
    ASSUME PreferencesIInv, SavePreferences
    PROVE  PreferencesIInv'
<1>1. PICK n \in 0 .. Len(SavedLines(prefs)) :
          /\ rcFile' = SubSeq(SavedLines(prefs), 1, n) /\ rcThere' \in {TRUE, n > 0}
          /\ savedPrefs' = IF n < Len(SavedLines(prefs)) THEN NothingKept
                   ELSE [k \in {l.key : l \in ToSet(rcFile')} |-> prefs[k]]
      BY DEF SavePreferences
<1>2. PutAside /\ UNCHANGED <<own, prefs, inUse, pending>>
      BY DEF SavePreferences
<1>3. prefs \in Prefs /\ buried \in BOOLEAN
      BY DEF PreferencesIInv, PrefsFit
<1>4. rcFile' \in Seq(Good(prefs))
      BY <1>1, <1>3, SavedLinesFit
<1>5. \A i \in DOMAIN rcFile' : rcFile'[i] \in Good(prefs)
  <2> DEFINE S == Good(prefs)
  <2> HIDE DEF S
  <2>1. rcFile' \in Seq(S)
        BY <1>4 DEF S
  <2>2. \A i \in DOMAIN rcFile' : rcFile'[i] \in S
        BY <2>1
  <2> QED BY <2>2 DEF S
<1>6. PrefsFit'
  <2>1. buried' \in BOOLEAN
        BY <1>2, <1>3 DEF PutAside
  <2>2. rcFile' \in Seq(PrefLine)
    <3> DEFINE S == Good(prefs)
               L == PrefLine
    <3>1. S \subseteq L
          BY DEF Good
    <3>2. rcFile' \in Seq(S)
          BY <1>4
    <3> HIDE DEF S, L
    <3>3. Len(rcFile') \in Nat /\ rcFile' \in [1 .. Len(rcFile') -> S]
          BY <3>2, LenProperties
    <3>4. rcFile' \in [1 .. Len(rcFile') -> L]
          BY <3>1, <3>3
    <3>5. rcFile' \in Seq(L)
          BY <3>3, <3>4, MakesSeq
    <3> QED BY <3>5 DEF L
  <2>3. rcThere' \/ rcFile' = <<>>
    <3>1. CASE n > 0
          BY <1>1, <3>1
    <3>2. CASE ~(n > 0)
      <4>1. n = 0
            BY <3>2
      <4>2. SubSeq(SavedLines(prefs), 1, 0) = <<>>
            BY SubSeqEmpty
      <4> QED BY <1>1, <4>1, <4>2
    <3> QED BY <3>1, <3>2
  <2> QED BY <1>2, <2>1, <2>2, <2>3 DEF PreferencesIInv, PrefsFit
<1>7. ShownIsUsed'
      BY <1>2 DEF PreferencesIInv, ShownIsUsed
<1>8. OwnLinesStay'
  <2> SUFFICES ASSUME ~buried', own # <<>>
               PROVE  \E t \in DOMAIN backups' : backups'[t] = own
      BY <1>2 DEF OwnLinesStay
  <2>1. ~buried /\ (rcThere /\ tick \in DOMAIN backups => backups[tick] = rcFile)
        BY <1>2 DEF PutAside
  <2>2. own = rcFile \/ \E t \in DOMAIN backups : backups[t] = own
        BY <2>1 DEF PreferencesIInv, OwnLinesStay
  <2>3. CASE ~rcThere
    <3>1. backups' = backups
          BY <1>2, <2>3 DEF PutAside
    <3>2. own # rcFile
          BY <2>3 DEF PreferencesIInv, PrefsFit
    <3> QED BY <2>2, <3>1, <3>2
  <2>4. CASE rcThere
    <3>1. backups' = [t \in DOMAIN backups \cup {tick} |-> IF t = tick THEN rcFile ELSE backups[t]]
          BY <1>2, <2>4 DEF PutAside
    <3>2. DOMAIN backups' = DOMAIN backups \cup {tick} /\ backups'[tick] = rcFile
          /\ \A t \in DOMAIN backups : t # tick => backups'[t] = backups[t]
          BY <3>1
    <3> QED BY <2>1, <2>2, <2>4, <3>2
  <2> QED BY <2>3, <2>4
<1>9. KeptFits'
  <2>1. CASE n < Len(SavedLines(prefs))
    <3>1. savedPrefs' = NothingKept
          BY <1>1, <2>1
    <3> QED BY <3>1, NothingIsKept DEF KeptFits
  <2>2. CASE ~(n < Len(SavedLines(prefs)))
    <3> DEFINE K == {l.key : l \in ToSet(rcFile')}
    <3>1. savedPrefs' = [k \in K |-> prefs[k]]
          BY <1>1, <2>2
    <3>2. K = {rcFile'[i].key : i \in DOMAIN rcFile'}
          BY DEF ToSet
    <3> HIDE DEF K
    <3>3. DOMAIN savedPrefs' = K /\ \A k \in K : savedPrefs'[k] = prefs[k]
          BY <3>1
    <3>4. ASSUME NEW i \in DOMAIN rcFile' PROVE Says(rcFile'[i], savedPrefs')
      <4> DEFINE l == rcFile'[i]
      <4>1. l.key \in {"apikey", "nick", "sound"} /\ l.value = prefs[l.key] /\ l.value # ""
            BY <1>5 DEF Good
      <4>2. l.key \in K
            BY <3>2
      <4> HIDE DEF l
      <4>3. Accepts(l.key, l.value)
            BY <4>1 DEF Accepts
      <4>4. AsStored(l.key, l.value) = l.value
            BY <1>3, <4>1 DEF AsStored, Prefs
      <4>5. l.value = savedPrefs'[l.key] /\ l.key \in DOMAIN savedPrefs'
            BY <3>3, <4>1, <4>2
      <4>6. Says(l, savedPrefs')
            BY <4>3, <4>4, <4>5 DEF Says
      <4> QED BY <4>6 DEF l
    <3> QED BY <1>2, <3>2, <3>3, <3>4 DEF KeptFits
  <2> QED BY <2>1, <2>2
<1> QED BY <1>6, <1>7, <1>8, <1>9 DEF PreferencesIInv

LEMMA WriteKeeps ==
    ASSUME PreferencesIInv, WriteDefaults
    PROVE  PreferencesIInv'
<1>1. /\ rcFile' = <<>> /\ rcThere' = TRUE /\ buried' = (buried \/ rcFile # <<>>) /\ savedPrefs' = NothingKept
      /\ UNCHANGED <<own, prefs, inUse, backups, pending>>
      BY DEF WriteDefaults
<1>2. PrefsFit'
  <2>1. buried' \in BOOLEAN
        BY <1>1 DEF PreferencesIInv, PrefsFit
  <2> QED BY <1>1, <2>1, EmptySeq DEF PreferencesIInv, PrefsFit
<1>3. ShownIsUsed'
      BY <1>1 DEF PreferencesIInv, ShownIsUsed
<1>4. OwnLinesStay'
      BY <1>1 DEF PreferencesIInv, OwnLinesStay
<1>5. KeptFits'
      BY <1>1, NothingIsKept DEF KeptFits
<1> QED BY <1>2, <1>3, <1>4, <1>5 DEF PreferencesIInv

LEMMA StartAgainKeeps ==
    ASSUME PreferencesIInv, StartAgain
    PROVE  PreferencesIInv'
<1>1. /\ prefs' = Started(rcFile) /\ inUse' = Taken(prefs') /\ pending' = {}
      /\ UNCHANGED <<own, rcFile, rcThere, backups, savedPrefs, buried>>
      BY DEF StartAgain
<1>2. rcFile \in Seq(PrefLine)
      BY DEF PreferencesIInv, PrefsFit
<1>3. prefs' \in Prefs
      BY <1>1, <1>2, StartedFits
<1>4. PrefsFit'
      BY <1>1, <1>3, TakenFits DEF PreferencesIInv, PrefsFit
<1>5. ShownIsUsed'
      BY <1>1, <1>3, TakenFits DEF ShownIsUsed
<1>6. OwnLinesStay'
      BY <1>1 DEF PreferencesIInv, OwnLinesStay
<1>7. KeptFits'
  <2> SUFFICES ASSUME DOMAIN savedPrefs # {}
               PROVE  /\ \A i \in DOMAIN rcFile : Says(rcFile[i], savedPrefs)
                      /\ \A k \in DOMAIN savedPrefs : \E i \in DOMAIN rcFile : rcFile[i].key = k
                      /\ \A k \in DOMAIN savedPrefs : prefs'[k] = savedPrefs[k]
      BY <1>1 DEF KeptFits
  <2>1. /\ \A i \in DOMAIN rcFile : Says(rcFile[i], savedPrefs)
        /\ \A k \in DOMAIN savedPrefs : \E i \in DOMAIN rcFile : rcFile[i].key = k
        BY DEF PreferencesIInv, KeptFits
  <2>2. \A j \in DOMAIN rcFile : Started(rcFile)[rcFile[j].key] = savedPrefs[rcFile[j].key]
        BY <1>2, <2>1, StartedComesBack
  <2> QED BY <1>1, <2>1, <2>2
<1> QED BY <1>4, <1>5, <1>6, <1>7 DEF PreferencesIInv

LEMMA PreferencesKeep == PreferencesIInv /\ [PreferencesNext]_prefVars => PreferencesIInv'
<1> SUFFICES ASSUME PreferencesIInv, [PreferencesNext]_prefVars PROVE PreferencesIInv'
    OBVIOUS
<1>1. CASE UNCHANGED prefVars
  <2>1. UNCHANGED <<prefs, inUse, rcFile, rcThere, backups, pending, own, savedPrefs, buried>>
        BY <1>1 DEF prefVars
  <2> QED BY <2>1 DEF PreferencesIInv, PrefsFit, ShownIsUsed, OwnLinesStay, KeptFits
<1>2. CASE \E k \in Key, v \in TypedValues : SetCommand(k, v)
      BY <1>2, SetCommandKeeps
<1>3. CASE Tick \/ ToolStarts \/ NewPrompt
      BY <1>3, TakersKeep
<1>4. CASE SavePreferences
      BY <1>4, SaveKeeps
<1>5. CASE WriteDefaults
      BY <1>5, WriteKeeps
<1>6. CASE StartAgain
      BY <1>6, StartAgainKeeps
<1> QED BY <1>1, <1>2, <1>3, <1>4, <1>5, <1>6 DEF PreferencesNext

LEMMA LinesAreTrue ==
    ASSUME prefs \in Prefs PROVE LinesSayWhatIs
<1> SUFFICES ASSUME NEW k \in Key,
                    ~(k = "apikey" /\ prefs[k] \in Long \cup {""}),
                    ~(k = "persona_file" /\ prefs[k] = "")
             PROVE  SetKey(prefs, k, Displayed(prefs, k)) = prefs
    BY DEF LinesSayWhatIs
<1> DEFINE v == Displayed(prefs, k)
<1>1. prefs[k] \in Word
      BY DEF Prefs
<1>2. v \in Word
      BY <1>1 DEF Displayed, Word
<1>3. ~Accepts(k, v) \/ AsStored(k, v) = prefs[k]
  <2>1. CASE k \in {"nick", "apikey", "persona_file"}
    <3>1. v = prefs[k]
          BY <2>1 DEF Displayed
    <3> QED BY <2>1, <3>1 DEF AsStored
  <2>2. CASE k \in {"sound", "banner"}
    <3>1. v = prefs[k] /\ prefs[k] \in {"on", "off"}
          BY <2>2 DEF Displayed, Prefs
    <3> QED BY <2>2, <3>1 DEF AsStored
  <2>3. CASE k \in {"temperature", "effort"} /\ prefs[k] = ""
    <3>1. v = "<unset>"
          BY <2>3 DEF Displayed
    <3> QED BY <2>3, <3>1 DEF AsStored, Unset
  <2>4. CASE k \in {"temperature", "effort"} /\ prefs[k] # ""
    <3>1. v = prefs[k] /\ prefs[k] \in Efforts \cup Numbers
          BY <2>4 DEF Displayed, Prefs
    <3>2. prefs[k] # "<unset>"
          BY <3>1 DEF Efforts, Numbers
    <3> QED BY <2>4, <3>1, <3>2 DEF AsStored, Unset
  <2>5. CASE k \in {"tool_timeout", "tool_verbosity"}
    <3>1. v = prefs[k]
          BY <2>5 DEF Displayed
    <3> QED BY <2>5, <3>1 DEF AsStored
  <2> QED BY <2>1, <2>2, <2>3, <2>4, <2>5 DEF Key
<1> HIDE DEF v
<1>4. SetKey(prefs, k, v) = prefs
      BY <1>2, <1>3, SetKeySame
<1> QED BY <1>4 DEF v

LEMMA PreferencesShown == PreferencesIInv => PreferencesHold
<1> SUFFICES ASSUME PreferencesIInv PROVE PreferencesHold
    OBVIOUS
<1>1. prefs \in Prefs /\ inUse \in [OnStart -> Word] /\ pending \subseteq OnStart
      BY DEF PreferencesIInv, PrefsFit
<1>2. PreferencesTypeOK
      BY <1>1 DEF PreferencesTypeOK, Prefs
<1>3. KeptComesBack
      BY DEF PreferencesIInv, KeptFits, KeptComesBack
<1> QED BY <1>1, <1>2, <1>3, LinesAreTrue DEF PreferencesIInv, PreferencesHold

\* What /set shows is used or is to be taken next, /save brings it back, and a file the user wrote
\* is put aside before it is replaced (config/rc.go, ui/commands.go).
THEOREM PreferencesAreKept == PreferencesSpec => []PreferencesHold
BY PreferencesStart, PreferencesKeep, PreferencesShown, PTL DEF PreferencesSpec

\* The settings of the connection and the others hold together what MCMessages checks of them.
THEOREM SettingsAndPreferencesHold == SettingsSpec /\ PreferencesSpec => []SettingsHold
BY SettingsAreFollowed, PreferencesAreKept, PTL DEF SettingsHold

-----------------------------------------------------------------------------
(* A message and the line that is saved of it (EntryProjection) *)

\* What the parts of a message make of the fields of a line, one after the other.
TakesTo(h, base, s, n) ==
    /\ h[0] = base /\ h[n] = FoldLeft(Take, base, s)
    /\ \A k \in 1 .. n : h[k] = Take(h[k - 1], s[k])

LEMMA TakeFold ==
    ASSUME NEW T, NEW A, NEW base \in T, NEW n \in Nat, NEW s \in [1 .. n -> A],
           \A c \in T, l \in A : Take(c, l) \in T
    PROVE  \E h \in [0 .. n -> T] : TakesTo(h, base, s, n)
<1> DEFINE Rec(f) == f = [t \in SUBSET DOMAIN s |-> IF t = {} THEN base
                                     ELSE LET x == Max(t) IN Take(f[t \ {x}], s[x])]
           G(U) == [p \in U \X A |-> Take(p[1], p[2])]
           iter == CHOOSE f : Rec(f)
<1>1. ASSUME NEW U PROVE \A c \in U, l \in A : G(U)[<<c, l>>] = Take(c, l)
  <2> DEFINE g == G(U)
  <2>1. \A p \in U \X A : g[p] = Take(p[1], p[2])
        OBVIOUS
  <2> HIDE DEF g
  <2>2. ASSUME NEW c \in U, NEW l \in A PROVE g[<<c, l>>] = Take(c, l)
    <3>1. <<c, l>> \in U \X A /\ <<c, l>>[1] = c /\ <<c, l>>[2] = l
          OBVIOUS
    <3> QED BY <2>1, <3>1
  <2> QED BY <2>2 DEF g
<1>2. G(T) \in [T \X A -> T]
  <2>1. \A p \in T \X A : p[1] \in T /\ p[2] \in A
        OBVIOUS
  <2>2. \A p \in T \X A : Take(p[1], p[2]) \in T
        BY <2>1
  <2> QED BY <2>2
<1> HIDE DEF G
<1>3. \E f : Rec(f)
  <2>1. PICK f \in [SUBSET (1 .. n) -> T] : FoldsTo(f, base, G(T), s, n)
        BY <1>2, FoldExists
  <2>2. \A t \in SUBSET (1 .. n) : t # {} =>
            G(T)[<<f[t \ {Max(t)}], s[Max(t)]>>] = Take(f[t \ {Max(t)}], s[Max(t)])
    <3> TAKE t \in SUBSET (1 .. n)
    <3> HAVE t # {}
    <3>1. Max(t) \in t
          BY MaxIn
    <3>2. f[t \ {Max(t)}] \in T /\ s[Max(t)] \in A
          BY <3>1
    <3> QED BY <1>1, <3>2
  <2>3. DOMAIN s = 1 .. n
        OBVIOUS
  <2> QED BY <2>1, <2>2, <2>3 DEF FoldsTo
<1>4. FoldLeft(Take, base, s) = iter[DOMAIN s]
      BY DEF FoldLeft, MapThenFoldSet
<1>5. Rec(iter)
  <2> HIDE DEF Rec
  <2> QED BY <1>3
<1> HIDE DEF iter
<1> DEFINE U == T \cup {iter[t] : t \in SUBSET (1 .. n)}
<1>6. DOMAIN s = 1 .. n
      OBVIOUS
<1>7. FoldsTo(iter, base, G(U), s, n)
  <2>1. ASSUME NEW t \in SUBSET (1 .. n), t # {}
        PROVE  G(U)[<<iter[t \ {Max(t)}], s[Max(t)]>>] = Take(iter[t \ {Max(t)}], s[Max(t)])
    <3>1. Max(t) \in t
          BY <2>1, MaxIn
    <3>2. iter[t \ {Max(t)}] \in U /\ s[Max(t)] \in A
          BY <3>1
    <3> HIDE DEF U
    <3> QED BY <1>1, <3>2
  <2>2. \A t \in SUBSET (1 .. n) :
            iter[t] = IF t = {} THEN base ELSE Take(iter[t \ {Max(t)}], s[Max(t)])
        BY <1>5, <1>6
  <2> QED BY <2>1, <2>2 DEF FoldsTo
<1> DEFINE g == G(U)
<1>8. \A c \in T, l \in A : g[<<c, l>>] = Take(c, l) /\ g[<<c, l>>] \in T
  <2> TAKE c \in T, l \in A
  <2>1. c \in U /\ Take(c, l) \in T
        OBVIOUS
  <2> HIDE DEF U
  <2> QED BY <1>1, <2>1
<1> HIDE DEF U, g
<1>9. PICK h \in [0 .. n -> T] : FoldUpTo(h, base, g, s, n) /\ h[n] = iter[1 .. n]
  <2>1. FoldsTo(iter, base, g, s, n)
        BY <1>7 DEF g
  <2>2. Inside(g, T, A)
        BY <1>8 DEF Inside
  <2>3. EndsIn(T, base, g, s, n, iter[1 .. n])
        BY <2>1, <2>2, FoldSteps
  <2> QED BY <2>3 DEF EndsIn
<1>10. \A k \in 1 .. n : h[k] = Take(h[k - 1], s[k])
  <2> TAKE k \in 1 .. n
  <2>1. h[k - 1] \in T /\ s[k] \in A
        OBVIOUS
  <2> QED BY <1>8, <1>9, <2>1 DEF FoldUpTo
<1> QED BY <1>4, <1>6, <1>9, <1>10 DEF FoldUpTo, TakesTo

Phrase == Seq({"said", "text", "media", "error"} \X (EntryIds \cup {NoId}))
FieldsOf == [text : Phrase, n : Nat, calls : Seq(EntryIds), answers : EntryIds \cup {NoId}, lossy : BOOLEAN]
OutputOf == [kind : {"result"}, id : EntryIds, how : {"text", "media", "error"}, text : Phrase]
PartOf == {SaidText, Reasoning, File} \cup {CallPart(id) : id \in EntryIds} \cup OutputOf

LEMMA SaidIs == SaidText.kind = "text" /\ SaidText.text \in Phrase /\ SaidText.text # <<>>
<1>1. /\ SaidText.kind = "text" /\ SaidText.text = <<<<"said", NoId>>>>
      BY DEF SaidText, Text
<1>2. <<<<"said", NoId>>>> \in Phrase /\ <<<<"said", NoId>>>> # <<>>
      BY DEF Phrase
<1> QED BY <1>1, <1>2

\* What each kind of part does.
LEMMA TakeOne ==
    ASSUME NEW e \in FieldsOf
    PROVE  /\ Take(e, SaidText) = [text |-> e.text \o SaidText.text, n |-> e.n + 1, calls |-> e.calls,
                                   answers |-> e.answers, lossy |-> e.lossy]
           /\ \A id \in EntryIds :
                Take(e, CallPart(id)) = [text |-> e.text, n |-> e.n, calls |-> Append(e.calls, id),
                                         answers |-> e.answers, lossy |-> e.lossy]
           /\ \A p \in {Reasoning, File} :
                Take(e, p) = [text |-> e.text, n |-> e.n, calls |-> e.calls, answers |-> e.answers,
                              lossy |-> TRUE]
           /\ \A p \in OutputOf : e.lossy =>
                Take(e, p) = [text |-> e.text, n |-> e.n, calls |-> e.calls,
                              answers |-> IF e.answers = NoId THEN p.id ELSE e.answers, lossy |-> TRUE]
           /\ \A p \in OutputOf : ~e.lossy =>
                Take(e, p) = [text |-> e.text \o p.text,
                              n |-> IF p.how = "media" /\ p.text = <<>> THEN e.n ELSE e.n + 1,
                              calls |-> e.calls,
                              answers |-> IF e.answers = NoId THEN p.id ELSE e.answers,
                              lossy |-> p.how # "text"]
<1>0. e = [text |-> e.text, n |-> e.n, calls |-> e.calls, answers |-> e.answers, lossy |-> e.lossy]
      BY DEF FieldsOf
<1>1. Take(e, SaidText) = [text |-> e.text \o SaidText.text, n |-> e.n + 1, calls |-> e.calls,
                           answers |-> e.answers, lossy |-> e.lossy]
      BY <1>0, SaidIs DEF Take
<1>2. ASSUME NEW id \in EntryIds
      PROVE  Take(e, CallPart(id)) = [text |-> e.text, n |-> e.n, calls |-> Append(e.calls, id),
                                      answers |-> e.answers, lossy |-> e.lossy]
      BY <1>0 DEF Take, CallPart
<1>3. ASSUME NEW p \in {Reasoning, File}
      PROVE  Take(e, p) = [text |-> e.text, n |-> e.n, calls |-> e.calls, answers |-> e.answers,
                           lossy |-> TRUE]
  <2>1. p.kind \notin {"text", "call", "result"}
        BY DEF Reasoning, File
  <2> QED BY <1>0, <2>1 DEF Take
<1>4. ASSUME NEW p \in OutputOf, e.lossy
      PROVE  Take(e, p) = [text |-> e.text, n |-> e.n, calls |-> e.calls,
                           answers |-> IF e.answers = NoId THEN p.id ELSE e.answers, lossy |-> TRUE]
  <2>1. p.kind = "result" /\ e.lossy = TRUE
        BY <1>4 DEF OutputOf, FieldsOf
  <2> QED BY <1>0, <2>1 DEF Take
<1>5. ASSUME NEW p \in OutputOf, ~e.lossy
      PROVE  Take(e, p) = [text |-> e.text \o p.text,
                           n |-> IF p.how = "media" /\ p.text = <<>> THEN e.n ELSE e.n + 1,
                           calls |-> e.calls,
                           answers |-> IF e.answers = NoId THEN p.id ELSE e.answers,
                           lossy |-> p.how # "text"]
  <2>1. p.kind = "result" /\ e.lossy = FALSE
        BY <1>5 DEF OutputOf, FieldsOf
  <2> DEFINE t == e.text \o p.text
             n == IF p.how = "media" /\ p.text = <<>> THEN e.n ELSE e.n + 1
             l == p.how # "text"
             a == IF e.answers = NoId THEN p.id ELSE e.answers
             o == TakeOutput(e, p)
  <2>2. o = [e EXCEPT !.text = t, !.n = n, !.lossy = l]
        BY DEF TakeOutput
  <2>3. Take(e, p) = [o EXCEPT !.answers = IF o.answers = NoId THEN p.id ELSE o.answers]
        BY <2>1 DEF Take
  <2> HIDE DEF t, n, l, o
  <2>4. o = [text |-> t, n |-> n, calls |-> e.calls, answers |-> e.answers, lossy |-> l]
        BY <1>0, <2>2
  <2>5. o.answers = e.answers
        BY <2>4
  <2>6. Take(e, p) = [o EXCEPT !.answers = a]
        BY <2>3, <2>5
  <2> HIDE DEF a
  <2>7. Take(e, p) = [text |-> t, n |-> n, calls |-> e.calls, answers |-> a, lossy |-> l]
        BY <2>4, <2>6
  <2> QED BY <2>7 DEF t, n, l, a
<1> QED BY <1>1, <1>2, <1>3, <1>4, <1>5

LEMMA FieldsFit ==
    ASSUME NEW t \in Phrase, NEW n \in Nat, NEW c \in Seq(EntryIds), NEW a \in EntryIds \cup {NoId},
           NEW l \in BOOLEAN
    PROVE  [text |-> t, n |-> n, calls |-> c, answers |-> a, lossy |-> l] \in FieldsOf
BY DEF FieldsOf

LEMMA TakeFits ==
    ASSUME NEW e \in FieldsOf, NEW p \in PartOf
    PROVE  Take(e, p) \in FieldsOf
<1>1. /\ e.text \in Phrase /\ e.n \in Nat /\ e.calls \in Seq(EntryIds) /\ e.answers \in EntryIds \cup {NoId}
      /\ e.lossy \in BOOLEAN /\ e.n + 1 \in Nat
      BY DEF FieldsOf
<1>2. \A t \in Phrase : e.text \o t \in Phrase
      BY <1>1, ConcatProperties DEF Phrase
<1>3. CASE p = SaidText
  <2>1. e.text \o SaidText.text \in Phrase
        BY <1>2, SaidIs
  <2>2. [text |-> e.text \o SaidText.text, n |-> e.n + 1, calls |-> e.calls, answers |-> e.answers,
         lossy |-> e.lossy] \in FieldsOf
        BY <1>1, <2>1, FieldsFit
  <2> QED BY <1>3, <2>2, TakeOne
<1>4. CASE p \in {Reasoning, File}
  <2>1. TRUE \in BOOLEAN
        OBVIOUS
  <2>2. [text |-> e.text, n |-> e.n, calls |-> e.calls, answers |-> e.answers, lossy |-> TRUE] \in FieldsOf
        BY <1>1, <2>1, FieldsFit
  <2> QED BY <1>4, <2>2, TakeOne
<1>5. ASSUME NEW id \in EntryIds, p = CallPart(id) PROVE Take(e, p) \in FieldsOf
  <2>1. Append(e.calls, id) \in Seq(EntryIds)
        BY <1>1, AppendProperties
  <2>2. [text |-> e.text, n |-> e.n, calls |-> Append(e.calls, id), answers |-> e.answers,
         lossy |-> e.lossy] \in FieldsOf
        BY <1>1, <2>1, FieldsFit
  <2> QED BY <1>5, <2>2, TakeOne
<1>6. CASE p \in OutputOf
  <2> DEFINE a == IF e.answers = NoId THEN p.id ELSE e.answers
             n == IF p.how = "media" /\ p.text = <<>> THEN e.n ELSE e.n + 1
             l == p.how # "text"
  <2>1. p.id \in EntryIds /\ p.text \in Phrase
        BY <1>6 DEF OutputOf
  <2>2. a \in EntryIds \cup {NoId} /\ n \in Nat /\ l \in BOOLEAN
        BY <1>1, <2>1
  <2>3. e.lossy => Take(e, p) = [text |-> e.text, n |-> e.n, calls |-> e.calls, answers |-> a, lossy |-> TRUE]
        BY <1>6, TakeOne
  <2>4. ~e.lossy => Take(e, p) = [text |-> e.text \o p.text, n |-> n, calls |-> e.calls, answers |-> a, lossy |-> l]
        BY <1>6, TakeOne
  <2>5. e.text \o p.text \in Phrase
        BY <1>2, <2>1
  <2>6. TRUE \in BOOLEAN
        OBVIOUS
  <2> HIDE DEF a, n, l
  <2>7. [text |-> e.text, n |-> e.n, calls |-> e.calls, answers |-> a, lossy |-> TRUE] \in FieldsOf
        BY <1>1, <2>2, <2>6, FieldsFit
  <2>8. [text |-> e.text \o p.text, n |-> n, calls |-> e.calls, answers |-> a, lossy |-> l] \in FieldsOf
        BY <1>1, <2>2, <2>5, FieldsFit
  <2> QED BY <2>3, <2>4, <2>7, <2>8
<1> QED BY <1>3, <1>4, <1>5, <1>6 DEF PartOf

\* The message that is saved, and the fields its parts make, one after the other.
Steps(h, s) ==
    /\ h[0] = NoFields /\ h[Len(s)] = FoldLeft(Take, NoFields, s)
    /\ \A k \in 1 .. Len(s) : h[k] = Take(h[k - 1], s[k])

LEMMA StepsExist ==
    ASSUME NEW s \in Seq(PartOf)
    PROVE  \E h \in [0 .. Len(s) -> FieldsOf] : Steps(h, s)
<1>1. Len(s) \in Nat /\ s \in [1 .. Len(s) -> PartOf]
      BY LenProperties
<1>2. NoFields \in FieldsOf
  <2>1. <<>> \in Phrase /\ <<>> \in Seq(EntryIds)
        BY EmptySeq DEF Phrase
  <2> QED BY <2>1 DEF NoFields, FieldsOf
<1>3. \A c \in FieldsOf, l \in PartOf : Take(c, l) \in FieldsOf
      BY TakeFits
<1>4. PICK h \in [0 .. Len(s) -> FieldsOf] : TakesTo(h, NoFields, s, Len(s))
      BY <1>1, <1>2, <1>3, TakeFold
<1> QED BY <1>4 DEF TakesTo, Steps

\* What a part that is taken leaves as it was: nothing lost is found again, and no text is dropped.
Grows(e, f, p) ==
    /\ f.lossy = (e.lossy \/ ~Lossless(p))
    /\ f.n \in Nat /\ e.n <= f.n
    /\ Range(e.text) \subseteq Range(f.text)
    /\ p.kind = "result" /\ ~e.lossy => Range(p.text) \subseteq Range(f.text)

LEMMA FieldsRead ==
    ASSUME NEW t, NEW n, NEW c, NEW a, NEW l, NEW f,
           f = [text |-> t, n |-> n, calls |-> c, answers |-> a, lossy |-> l]
    PROVE  f.text = t /\ f.n = n /\ f.calls = c /\ f.answers = a /\ f.lossy = l
OBVIOUS

LEMMA TakeGrows ==
    ASSUME NEW e \in FieldsOf, NEW p \in PartOf
    PROVE  Grows(e, Take(e, p), p)
<1>1. /\ e.text \in Phrase /\ e.n \in Nat /\ e.calls \in Seq(EntryIds) /\ e.lossy \in BOOLEAN
      BY DEF FieldsOf
<1>2. \A t \in Phrase : Range(e.text) \subseteq Range(e.text \o t) /\ Range(t) \subseteq Range(e.text \o t)
      BY <1>1, RangeConcatenation DEF Phrase
<1> DEFINE f == Take(e, p)
<1>3. CASE p = SaidText
  <2>0. f = [text |-> e.text \o SaidText.text, n |-> e.n + 1, calls |-> e.calls, answers |-> e.answers,
             lossy |-> e.lossy]
        BY <1>3, TakeOne
  <2> HIDE DEF f
  <2>1. f.lossy = e.lossy /\ f.n = e.n + 1 /\ f.text = e.text \o SaidText.text
        BY <2>0, FieldsRead
  <2>2. Lossless(p) /\ p.kind # "result"
        BY <1>3, SaidIs DEF Lossless
  <2>3. Range(e.text) \subseteq Range(f.text)
        BY <1>2, <2>1, SaidIs
  <2>4. f.n \in Nat /\ e.n <= f.n
        BY <1>1, <2>1
  <2>5. f.lossy = (e.lossy \/ ~Lossless(p))
        BY <1>1, <2>1, <2>2
  <2> QED BY <2>2, <2>3, <2>4, <2>5 DEF Grows, f
<1>4. CASE p \in {Reasoning, File}
  <2>0. f = [text |-> e.text, n |-> e.n, calls |-> e.calls, answers |-> e.answers, lossy |-> TRUE]
        BY <1>4, TakeOne
  <2> HIDE DEF f
  <2>1. f.lossy = TRUE /\ f.n = e.n /\ f.text = e.text
        BY <2>0, FieldsRead
  <2>2. ~Lossless(p) /\ p.kind # "result"
        BY <1>4 DEF Lossless, Reasoning, File
  <2>3. f.n \in Nat /\ e.n <= f.n
        BY <1>1, <2>1
  <2>4. f.lossy = (e.lossy \/ ~Lossless(p))
        BY <2>1, <2>2
  <2> QED BY <2>1, <2>2, <2>3, <2>4 DEF Grows, f
<1>5. ASSUME NEW id \in EntryIds, p = CallPart(id)
      PROVE  Grows(e, Take(e, p), p)
  <2>0. f = [text |-> e.text, n |-> e.n, calls |-> Append(e.calls, id), answers |-> e.answers, lossy |-> e.lossy]
        BY <1>5, TakeOne
  <2> HIDE DEF f
  <2>1. f.lossy = e.lossy /\ f.n = e.n /\ f.text = e.text
        BY <2>0, FieldsRead
  <2>2. Lossless(p) /\ p.kind # "result"
        BY <1>5 DEF Lossless, CallPart
  <2>3. f.n \in Nat /\ e.n <= f.n
        BY <1>1, <2>1
  <2>4. f.lossy = (e.lossy \/ ~Lossless(p))
        BY <1>1, <2>1, <2>2
  <2> QED BY <2>1, <2>2, <2>3, <2>4 DEF Grows, f
<1>6. CASE p \in OutputOf
  <2> DEFINE a == IF e.answers = NoId THEN p.id ELSE e.answers
             n == IF p.how = "media" /\ p.text = <<>> THEN e.n ELSE e.n + 1
             l == p.how # "text"
  <2>1. p.kind = "result" /\ p.text \in Phrase /\ (Lossless(p) <=> p.how = "text")
        BY <1>6 DEF OutputOf, Lossless
  <2>2. CASE e.lossy
    <3>0. f = [text |-> e.text, n |-> e.n, calls |-> e.calls, answers |-> a, lossy |-> TRUE]
          BY <1>6, <2>2, TakeOne
    <3> HIDE DEF f, a
    <3>1. f.lossy = TRUE /\ f.n = e.n /\ f.text = e.text
          BY <3>0, FieldsRead
    <3>2. f.n \in Nat /\ e.n <= f.n
          BY <1>1, <3>1
    <3>3. f.lossy = (e.lossy \/ ~Lossless(p))
          BY <1>1, <2>2, <3>1
    <3> QED BY <2>2, <3>1, <3>2, <3>3 DEF Grows, f
  <2>3. CASE ~e.lossy
    <3>0. f = [text |-> e.text \o p.text, n |-> n, calls |-> e.calls, answers |-> a, lossy |-> l]
          BY <1>6, <2>3, TakeOne
    <3>1. n \in Nat /\ e.n <= n
          BY <1>1
    <3>2. l \in BOOLEAN /\ (l <=> ~Lossless(p))
          BY <2>1
    <3> HIDE DEF f, a, n, l
    <3>3. f.lossy = l /\ f.n = n /\ f.text = e.text \o p.text
          BY <3>0, FieldsRead
    <3>4. f.lossy = (e.lossy \/ ~Lossless(p))
          BY <1>1, <2>3, <3>2, <3>3
    <3>5. f.n \in Nat /\ e.n <= f.n
          BY <3>1, <3>3
    <3>6. Range(e.text) \subseteq Range(f.text) /\ Range(p.text) \subseteq Range(f.text)
          BY <1>2, <2>1, <3>3
    <3> QED BY <3>4, <3>5, <3>6 DEF Grows, f
  <2> QED BY <2>2, <2>3
<1> QED BY <1>3, <1>4, <1>5, <1>6 DEF PartOf

\* From one step to a later one, too.
LEMMA StepsGrow ==
    ASSUME NEW s \in Seq(PartOf), NEW h \in [0 .. Len(s) -> FieldsOf], Steps(h, s),
           NEW j \in 0 .. Len(s)
    PROVE  \A k \in j .. Len(s) :
                /\ h[j].lossy => h[k].lossy
                /\ h[j].n <= h[k].n
                /\ Range(h[j].text) \subseteq Range(h[k].text)
<1> DEFINE Fine(k) == /\ h[j].lossy => h[k].lossy
                      /\ h[j].n <= h[k].n
                      /\ Range(h[j].text) \subseteq Range(h[k].text)
           P == {k \in 0 .. Len(s) : k >= j => Fine(k)}
<1>0. Len(s) \in Nat /\ s \in [1 .. Len(s) -> PartOf]
      BY LenProperties
<1>1. \A k \in 0 .. Len(s) : h[k] \in FieldsOf /\ h[k].n \in Nat
      BY DEF FieldsOf
<1>2. Fine(j)
      BY <1>1
<1>3. 0 \in P
  <2>1. 0 \in 0 .. Len(s) /\ (0 >= j => j = 0)
        BY <1>0
  <2> HIDE DEF Fine
  <2> QED BY <1>2, <2>1
<1>4. ASSUME NEW k \in 0 .. Len(s), k < Len(s), k \in P PROVE k + 1 \in P
  <2>1. k + 1 \in 1 .. Len(s) /\ k + 1 \in 0 .. Len(s) /\ (k + 1) - 1 = k
        BY <1>0, <1>4
  <2>2. h[k + 1] = Take(h[k], s[k + 1])
    <3>1. h[k + 1] = Take(h[(k + 1) - 1], s[k + 1])
          BY <2>1 DEF Steps
    <3> QED BY <2>1, <3>1
  <2>3. Grows(h[k], h[k + 1], s[k + 1])
    <3>1. s[k + 1] \in PartOf
          BY <1>0, <2>1
    <3> QED BY <1>1, <2>2, <3>1, TakeGrows
  <2>4. CASE k + 1 = j
    <3> HIDE DEF Fine
    <3> QED BY <1>2, <2>1, <2>4
  <2>5. CASE k + 1 # j
    <3>1. k + 1 >= j => k >= j
          BY <2>1, <2>5
    <3>2. Fine(k) /\ h[j].lossy => h[k + 1].lossy
          BY <2>3 DEF Grows
    <3>3. Fine(k) => h[j].n <= h[k + 1].n
          BY <1>1, <2>1, <2>3 DEF Grows
    <3>4. Fine(k) => Range(h[j].text) \subseteq Range(h[k + 1].text)
          BY <2>3 DEF Grows
    <3>5. Fine(k) => Fine(k + 1)
          BY <3>2, <3>3, <3>4
    <3> HIDE DEF Fine
    <3> QED BY <1>4, <2>1, <3>1, <3>5
  <2> QED BY <2>4, <2>5
<1> HIDE DEF P
<1>5. \A k \in 0 .. Len(s) : k \in P
      BY <1>0, <1>3, <1>4, UpTo
<1> QED BY <1>0, <1>5 DEF P

\* The fields at the end are not lossy: nothing before was, and every part says all it holds.
LEMMA NothingIsLost ==
    ASSUME NEW s \in Seq(PartOf), NEW h \in [0 .. Len(s) -> FieldsOf], Steps(h, s),
           ~h[Len(s)].lossy
    PROVE  /\ \A k \in 0 .. Len(s) : ~h[k].lossy /\ h[k].n <= h[Len(s)].n
           /\ \A k \in 1 .. Len(s) : Lossless(s[k])
<1>0. Len(s) \in Nat /\ s \in [1 .. Len(s) -> PartOf]
      BY LenProperties
<1>1. ASSUME NEW k \in 0 .. Len(s) PROVE ~h[k].lossy /\ h[k].n <= h[Len(s)].n
  <2>1. Len(s) \in k .. Len(s)
        BY <1>0
  <2> QED BY <2>1, StepsGrow
<1>2. ASSUME NEW k \in 1 .. Len(s) PROVE Lossless(s[k])
  <2>1. k \in 0 .. Len(s) /\ k - 1 \in 0 .. Len(s) /\ s[k] \in PartOf
        BY <1>0
  <2>2. Grows(h[k - 1], h[k], s[k])
        BY <2>1, TakeGrows DEF Steps
  <2> QED BY <1>1, <2>1, <2>2 DEF Grows
<1> QED BY <1>1, <1>2

\* Where every part is a text or an output that is kept whole, the fields count them.
LEMMA TextsAreCounted ==
    ASSUME NEW s \in Seq(PartOf), NEW h \in [0 .. Len(s) -> FieldsOf], Steps(h, s),
           ~h[Len(s)].lossy, \A k \in 1 .. Len(s) : s[k].kind # "call"
    PROVE  \A k \in 0 .. Len(s) : h[k].n = k
<1> DEFINE P == {k \in 0 .. Len(s) : h[k].n = k}
<1>0. Len(s) \in Nat /\ s \in [1 .. Len(s) -> PartOf]
      BY LenProperties
<1>1. 0 \in P
      BY <1>0 DEF Steps, NoFields
<1>2. ASSUME NEW k \in 0 .. Len(s), k < Len(s), k \in P PROVE k + 1 \in P
  <2>1. /\ k + 1 \in 1 .. Len(s) /\ k + 1 \in 0 .. Len(s) /\ (k + 1) - 1 = k
        /\ h[k] \in FieldsOf /\ s[k + 1] \in PartOf
        BY <1>0, <1>2
  <2>2. h[k + 1] = Take(h[k], s[k + 1])
    <3>1. h[k + 1] = Take(h[(k + 1) - 1], s[k + 1])
          BY <2>1 DEF Steps
    <3> QED BY <2>1, <3>1
  <2>3. ~h[k].lossy /\ Lossless(s[k + 1]) /\ s[k + 1].kind # "call"
        BY <2>1, NothingIsLost
  <2> DEFINE e == h[k]
             p == s[k + 1]
             f == h[k + 1]
  <2>4. CASE p = SaidText
    <3>1. f = [text |-> e.text \o SaidText.text, n |-> e.n + 1, calls |-> e.calls, answers |-> e.answers,
               lossy |-> e.lossy]
          BY <2>1, <2>2, <2>4, TakeOne
    <3> HIDE DEF e, f
    <3>2. f.n = e.n + 1
          BY <3>1, FieldsRead
    <3> QED BY <1>2, <2>1, <3>2 DEF e, f
  <2>5. CASE p \in OutputOf
    <3> DEFINE a == IF e.answers = NoId THEN p.id ELSE e.answers
               l == p.how # "text"
               n == IF p.how = "media" /\ p.text = <<>> THEN e.n ELSE e.n + 1
    <3>1. f = [text |-> e.text \o p.text, n |-> n, calls |-> e.calls, answers |-> a, lossy |-> l]
          BY <2>1, <2>2, <2>3, <2>5, TakeOne
    <3>2. n = e.n + 1
      <4>1. p.kind = "result" /\ p.how = "text"
            BY <2>3, <2>5 DEF Lossless, OutputOf
      <4> QED BY <4>1
    <3> HIDE DEF e, f, p, a, l, n
    <3>3. f.n = e.n + 1
          BY <3>1, <3>2, FieldsRead
    <3> QED BY <1>2, <2>1, <3>3 DEF e, f
  <2>6. p = SaidText \/ p \in OutputOf
    <3>1. p \notin {Reasoning, File}
          BY <2>3 DEF Lossless, Reasoning, File
    <3>2. \A id \in EntryIds : p # CallPart(id)
          BY <2>3 DEF CallPart
    <3> HIDE DEF p
    <3> QED BY <2>1, <3>1, <3>2 DEF PartOf, p
  <2> QED BY <2>4, <2>5, <2>6
<1> HIDE DEF P
<1>3. \A k \in 0 .. Len(s) : k \in P
      BY <1>0, <1>1, <1>2, UpTo
<1> QED BY <1>3 DEF P

\* A user's text comes back.
LEMMA UserComesBack ==
    ASSUME NEW s \in Seq(PartOf), NEW h \in [0 .. Len(s) -> FieldsOf], Steps(h, s),
           ~h[Len(s)].lossy, ~(h[Len(s)].n > 1), s # <<>>,
           \A k \in 1 .. Len(s) : s[k] \in {SaidText, File}
    PROVE  s = <<Text(h[Len(s)].text)>>
<1>0. Len(s) \in Nat /\ s \in [1 .. Len(s) -> PartOf] /\ Len(s) # 0
      BY LenProperties, EmptySeq
<1>1. \A k \in 1 .. Len(s) : s[k].kind # "call"
      BY SaidIs DEF File
<1>2. h[Len(s)].n = Len(s)
      BY <1>0, <1>1, TextsAreCounted
<1>3. Len(s) = 1
      BY <1>0, <1>2
<1>4. s[1] = SaidText
  <2>0. 1 \in 1 .. Len(s)
        BY <1>3
  <2>1. Lossless(s[1]) /\ s[1] \in {SaidText, File}
        BY <2>0, NothingIsLost
  <2> QED BY <2>1 DEF Lossless, File
<1>5. h[1].text = SaidText.text
  <2>1. h[0] = NoFields /\ h[0] \in FieldsOf /\ h[1] = Take(h[0], s[1])
        BY <1>3 DEF Steps
  <2>2. h[1] = [text |-> h[0].text \o SaidText.text, n |-> h[0].n + 1, calls |-> h[0].calls,
                answers |-> h[0].answers, lossy |-> h[0].lossy]
        BY <1>4, <2>1, TakeOne
  <2>3. h[1].text = h[0].text \o SaidText.text
    <3> DEFINE e == h[0]
               f == h[1]
    <3>1. f = [text |-> e.text \o SaidText.text, n |-> e.n + 1, calls |-> e.calls, answers |-> e.answers,
               lossy |-> e.lossy]
          BY <2>2
    <3> HIDE DEF e, f
    <3>2. f.text = e.text \o SaidText.text
          BY <3>1, FieldsRead
    <3> QED BY <3>2 DEF e, f
  <2>4. h[0].text = <<>>
        BY <2>1 DEF NoFields
  <2>5. <<>> \o SaidText.text = SaidText.text
        BY SaidIs, ConcatEmptySeq DEF Phrase
  <2> QED BY <2>3, <2>4, <2>5
<1>6. Text(SaidText.text) = SaidText
      BY DEF SaidText, Text
<1>7. s = <<SaidText>>
      BY <1>0, <1>3, <1>4
<1> QED BY <1>3, <1>5, <1>6, <1>7

\* A tool's output comes back.
LEMMA ToolComesBack ==
    ASSUME NEW s \in Seq(PartOf), NEW h \in [0 .. Len(s) -> FieldsOf], Steps(h, s),
           ~h[Len(s)].lossy, ~(h[Len(s)].n > 1), s # <<>>,
           \A k \in 1 .. Len(s) : s[k] \in OutputOf
    PROVE  s = <<Result(h[Len(s)].answers, "text", h[Len(s)].text)>>
<1>0. Len(s) \in Nat /\ s \in [1 .. Len(s) -> PartOf] /\ Len(s) # 0
      BY LenProperties, EmptySeq
<1>1. \A k \in 1 .. Len(s) : s[k].kind # "call"
      BY DEF OutputOf
<1>2. h[Len(s)].n = Len(s)
      BY <1>0, <1>1, TextsAreCounted
<1>3. Len(s) = 1
      BY <1>0, <1>2
<1> DEFINE p == s[1]
<1>4. p.kind = "result" /\ p.how = "text" /\ p \in OutputOf /\ p.text \in Phrase
  <2>0. 1 \in 1 .. Len(s)
        BY <1>3
  <2>1. Lossless(s[1]) /\ s[1] \in OutputOf
        BY <2>0, NothingIsLost
  <2> QED BY <2>1 DEF Lossless, OutputOf
<1>5. h[1].text = p.text /\ h[1].answers = p.id
  <2>1. h[0] = NoFields /\ h[0] \in FieldsOf /\ h[1] = Take(h[0], p)
        BY <1>3 DEF Steps
  <2>2. h[0].text = <<>> /\ ~h[0].lossy /\ h[0].answers = NoId
        BY <2>1 DEF NoFields
  <2> DEFINE a == IF h[0].answers = NoId THEN p.id ELSE h[0].answers
             l == p.how # "text"
             n == IF p.how = "media" /\ p.text = <<>> THEN h[0].n ELSE h[0].n + 1
  <2>3. h[1] = [text |-> h[0].text \o p.text, n |-> n, calls |-> h[0].calls, answers |-> a, lossy |-> l]
        BY <1>4, <2>1, <2>2, TakeOne
  <2>4. a = p.id
        BY <2>2
  <2>5. h[1].text = h[0].text \o p.text /\ h[1].answers = a
    <3> DEFINE e == h[0]
               f == h[1]
               t == e.text \o p.text
    <3>1. f = [text |-> t, n |-> n, calls |-> e.calls, answers |-> a, lossy |-> l]
          BY <2>3
    <3> HIDE DEF e, f, t, a, l, n
    <3>2. f.text = t /\ f.answers = a
          BY <3>1, FieldsRead
    <3> QED BY <3>2 DEF e, f, t
  <2> HIDE DEF a, l, n, p
  <2>6. <<>> \o p.text = p.text
        BY <1>4, ConcatEmptySeq DEF Phrase
  <2> QED BY <2>2, <2>4, <2>5, <2>6
<1>6. Result(p.id, "text", p.text) = p
      BY <1>4 DEF OutputOf, Result
<1>7. s = <<p>>
      BY <1>0, <1>3
<1> HIDE DEF p
<1> QED BY <1>3, <1>5, <1>6, <1>7

\* After k parts of an assistant's message: the calls alone, or a text and the calls after it.
Bare(e, s, k) ==
    /\ e.n = 0 /\ e.text = <<>> /\ Len(e.calls) = k
    /\ \A i \in 1 .. k : s[i] = CallPart(e.calls[i])

AfterText(e, s, k) ==
    /\ k > 0 /\ e.n = 1 /\ e.text = SaidText.text /\ s[1] = SaidText /\ Len(e.calls) = k - 1
    /\ \A i \in 1 .. k - 1 : s[i + 1] = CallPart(e.calls[i])

LEMMA AppendReads ==
    ASSUME NEW S, NEW c \in Seq(S), NEW x \in S
    PROVE  /\ Append(c, x) \in Seq(S) /\ Len(Append(c, x)) = Len(c) + 1
           /\ \A i \in 1 .. Len(c) : Append(c, x)[i] = c[i]
           /\ Append(c, x)[Len(c) + 1] = x
BY AppendProperties, LenProperties

LEMMA AssistantStep ==
    ASSUME NEW s \in Seq(PartOf), NEW k \in Nat, k < Len(s), NEW e \in FieldsOf, NEW f \in FieldsOf,
           f = Take(e, s[k + 1]), f.n <= 1,
           s[k + 1] = SaidText \/ \E id \in EntryIds : s[k + 1] = CallPart(id),
           \A i, j \in 1 .. Len(s) : s[i].kind = "call" /\ s[j].kind = "text" => j < i,
           Bare(e, s, k) \/ AfterText(e, s, k)
    PROVE  Bare(f, s, k + 1) \/ AfterText(f, s, k + 1)
<1>0. Len(s) \in Nat /\ k + 1 \in 1 .. Len(s) /\ e.calls \in Seq(EntryIds) /\ e.n \in Nat
      BY LenProperties DEF FieldsOf
<1>1. CASE s[k + 1] = SaidText
  <2>1. f = [text |-> e.text \o SaidText.text, n |-> e.n + 1, calls |-> e.calls, answers |-> e.answers,
             lossy |-> e.lossy]
        BY <1>1, TakeOne
  <2>2. f.text = e.text \o SaidText.text /\ f.n = e.n + 1 /\ f.calls = e.calls
    <3> DEFINE t == e.text \o SaidText.text
               n == e.n + 1
    <3>1. f = [text |-> t, n |-> n, calls |-> e.calls, answers |-> e.answers, lossy |-> e.lossy]
          BY <2>1
    <3> HIDE DEF t, n
    <3>2. f.text = t /\ f.n = n /\ f.calls = e.calls
          BY <3>1, FieldsRead
    <3> QED BY <3>2 DEF t, n
  <2>3. e.n = 0
        BY <1>0, <2>2
  <2>4. Bare(e, s, k)
        BY <2>3 DEF AfterText
  <2>5. k = 0
    <3> SUFFICES ASSUME k # 0 PROVE FALSE
        OBVIOUS
    <3>1. 1 \in 1 .. k /\ 1 \in 1 .. Len(s) /\ ~(k + 1 < 1)
          BY <1>0
    <3>2. s[1].kind = "call"
      <4>1. s[1] = CallPart(e.calls[1])
            BY <2>4, <3>1 DEF Bare
      <4> QED BY <4>1 DEF CallPart
    <3>3. s[k + 1].kind = "text"
          BY <1>1, SaidIs
    <3> QED BY <1>0, <3>1, <3>2, <3>3
  <2>6. f.text = SaidText.text
    <3>1. <<>> \o SaidText.text = SaidText.text
          BY SaidIs, ConcatEmptySeq DEF Phrase
    <3> QED BY <2>2, <2>4, <3>1 DEF Bare
  <2>7. s[1] = SaidText /\ Len(f.calls) = 0 /\ k + 1 = 1 /\ f.n = 1
        BY <1>1, <2>2, <2>3, <2>4, <2>5 DEF Bare
  <2>8. AfterText(f, s, 1)
        BY <2>6, <2>7 DEF AfterText
  <2> QED BY <2>7, <2>8
<1>2. ASSUME NEW id \in EntryIds, s[k + 1] = CallPart(id)
      PROVE  Bare(f, s, k + 1) \/ AfterText(f, s, k + 1)
  <2> DEFINE c == Append(e.calls, id)
  <2>1. f = [text |-> e.text, n |-> e.n, calls |-> c, answers |-> e.answers, lossy |-> e.lossy]
    <3>1. f = Take(e, CallPart(id))
          BY <1>2
    <3>2. Take(e, CallPart(id)) = [text |-> e.text, n |-> e.n, calls |-> Append(e.calls, id),
                                   answers |-> e.answers, lossy |-> e.lossy]
          BY TakeOne
    <3> QED BY <3>1, <3>2
  <2>2. /\ Len(c) = Len(e.calls) + 1 /\ \A i \in 1 .. Len(e.calls) : c[i] = e.calls[i]
        /\ c[Len(e.calls) + 1] = id
        BY <1>0, AppendReads
  <2> HIDE DEF c
  <2>3. f.text = e.text /\ f.n = e.n /\ f.calls = c
        BY <2>1, FieldsRead
  <2>4. CASE Bare(e, s, k)
    <3>1. Len(e.calls) = k /\ Len(c) = k + 1
          BY <2>2, <2>4 DEF Bare
    <3>2. ASSUME NEW i \in 1 .. k + 1 PROVE s[i] = CallPart(c[i])
      <4>1. CASE i = k + 1
            BY <1>2, <2>2, <3>1, <4>1
      <4>2. CASE i # k + 1
        <5>1. i \in 1 .. k
              BY <4>2
        <5> QED BY <2>2, <2>4, <3>1, <5>1 DEF Bare
      <4> QED BY <4>1, <4>2
    <3>3. f.n = 0 /\ f.text = <<>>
          BY <2>3, <2>4 DEF Bare
    <3>4. Bare(f, s, k + 1)
          BY <2>3, <3>1, <3>2, <3>3 DEF Bare
    <3> QED BY <3>4
  <2>5. CASE AfterText(e, s, k)
    <3>1. Len(e.calls) = k - 1 /\ Len(c) = k /\ (k + 1) - 1 = k /\ k > 0 /\ k + 1 > 0
          BY <2>2, <2>5 DEF AfterText
    <3>2. ASSUME NEW i \in 1 .. k PROVE s[i + 1] = CallPart(c[i])
      <4>1. CASE i = k
        <5>1. i = Len(e.calls) + 1
              BY <3>1, <4>1
        <5> QED BY <1>2, <2>2, <4>1, <5>1
      <4>2. CASE i # k
        <5>1. i \in 1 .. k - 1
              BY <3>1, <4>2
        <5> QED BY <2>2, <2>5, <3>1, <5>1 DEF AfterText
      <4> QED BY <4>1, <4>2
    <3>3. f.n = 1 /\ f.text = SaidText.text /\ s[1] = SaidText
          BY <2>3, <2>5 DEF AfterText
    <3>4. AfterText(f, s, k + 1)
          BY <2>3, <3>1, <3>2, <3>3 DEF AfterText
    <3> QED BY <3>4
  <2> QED BY <2>4, <2>5
<1> QED BY <1>1, <1>2

\* An assistant's text and calls come back.
LEMMA AssistantComesBack ==
    ASSUME NEW s \in Seq(PartOf), NEW h \in [0 .. Len(s) -> FieldsOf], Steps(h, s),
           ~h[Len(s)].lossy, ~(h[Len(s)].n > 1),
           \A k \in 1 .. Len(s) : s[k] \in {SaidText, Reasoning} \cup {CallPart(id) : id \in EntryIds},
           \A i, j \in 1 .. Len(s) : s[i].kind = "call" /\ s[j].kind = "text" => j < i,
           NEW c, c = h[Len(s)].calls
    PROVE  s = TextPart(h[Len(s)].text) \o [i \in DOMAIN c |-> CallPart(c[i])]
<1>0. Len(s) \in Nat /\ s \in [1 .. Len(s) -> PartOf]
      BY LenProperties
<1> DEFINE Holds(k) == Bare(h[k], s, k) \/ AfterText(h[k], s, k)
           P == {k \in 0 .. Len(s) : Holds(k)}
<1>1. 0 \in P
  <2>1. Bare(NoFields, s, 0)
        BY EmptySeq DEF Bare, NoFields
  <2>2. h[0] = NoFields /\ 0 \in 0 .. Len(s)
        BY <1>0 DEF Steps
  <2> QED BY <2>1, <2>2
<1>2. ASSUME NEW k \in 0 .. Len(s), k < Len(s), k \in P PROVE k + 1 \in P
  <2>1. /\ k + 1 \in 1 .. Len(s) /\ k + 1 \in 0 .. Len(s) /\ (k + 1) - 1 = k /\ k \in Nat
        /\ h[k] \in FieldsOf /\ h[k + 1] \in FieldsOf
        BY <1>0, <1>2
  <2>2. h[k + 1] = Take(h[k], s[k + 1])
    <3>1. h[k + 1] = Take(h[(k + 1) - 1], s[k + 1])
          BY <2>1 DEF Steps
    <3> QED BY <2>1, <3>1
  <2>3. h[k + 1].n <= 1
    <3>1. h[k + 1].n <= h[Len(s)].n /\ h[k + 1].n \in Nat /\ h[Len(s)].n \in Nat
      <4>1. h[k + 1].n <= h[Len(s)].n
            BY <2>1, NothingIsLost
      <4>2. Len(s) \in 0 .. Len(s)
            BY <1>0
      <4> QED BY <2>1, <4>1, <4>2 DEF FieldsOf
    <3> QED BY <3>1
  <2>4. s[k + 1] = SaidText \/ \E id \in EntryIds : s[k + 1] = CallPart(id)
    <3>1. Lossless(s[k + 1])
          BY <2>1, NothingIsLost
    <3>2. s[k + 1] # Reasoning
          BY <3>1 DEF Lossless, Reasoning
    <3> QED BY <2>1, <3>2
  <2>5. Holds(k)
        BY <1>2
  <2> HIDE DEF Holds
  <2>6. Holds(k + 1)
        BY <2>1, <2>2, <2>3, <2>4, <2>5, AssistantStep DEF Holds
  <2> QED BY <2>1, <2>6
<1>3. Holds(Len(s))
  <2> HIDE DEF P
  <2>1. \A k \in 0 .. Len(s) : k \in P
        BY <1>0, <1>1, <1>2, UpTo
  <2>2. Len(s) \in 0 .. Len(s)
        BY <1>0
  <2> QED BY <2>1, <2>2 DEF P
<1> DEFINE e == h[Len(s)]
           calls == [i \in DOMAIN c |-> CallPart(c[i])]
<1>4. e \in FieldsOf /\ c \in Seq(EntryIds) /\ DOMAIN c = 1 .. Len(c) /\ Len(c) \in Nat
  <2>1. Len(s) \in 0 .. Len(s)
        BY <1>0
  <2>2. e \in FieldsOf
        BY <2>1
  <2>3. c \in Seq(EntryIds)
        BY <2>2 DEF FieldsOf
  <2> QED BY <2>2, <2>3, LenProperties
<1>5. /\ calls \in Seq(PartOf) /\ Len(calls) = Len(c)
      /\ \A i \in 1 .. Len(c) : calls[i] = CallPart(c[i])
  <2>1. \A i \in 1 .. Len(c) : CallPart(c[i]) \in PartOf
        BY <1>4 DEF PartOf
  <2>2. calls \in [1 .. Len(c) -> PartOf]
        BY <1>4, <2>1
  <2>3. DOMAIN calls = 1 .. Len(c)
        BY <1>4
  <2>4. calls \in Seq(PartOf)
        BY <1>4, <2>2, MakesSeq
  <2>5. Len(calls) = Len(c)
        BY <1>4, <2>3, <2>4, LenProperties
  <2> QED BY <1>4, <2>4, <2>5
<1> HIDE DEF calls
<1>6. CASE Bare(e, s, Len(s))
  <2>1. TextPart(e.text) = <<>>
        BY <1>6 DEF Bare, TextPart
  <2>2. Len(s) = Len(calls) /\ \A i \in 1 .. Len(s) : s[i] = calls[i]
        BY <1>5, <1>6 DEF Bare
  <2>3. s = calls
        BY <1>5, <2>2, SeqEqual
  <2>4. <<>> \o calls = calls
        BY <1>5, ConcatEmptySeq
  <2> QED BY <2>1, <2>3, <2>4 DEF calls
<1>7. CASE AfterText(e, s, Len(s))
  <2>1. TextPart(e.text) = <<SaidText>>
    <3>1. Text(SaidText.text) = SaidText
          BY DEF SaidText, Text
    <3> QED BY <1>7, <3>1, SaidIs DEF AfterText, TextPart
  <2> DEFINE one == <<SaidText>>
  <2>2. one \in Seq(PartOf) /\ Len(one) = 1 /\ one[1] = SaidText
        BY DEF PartOf
  <2> HIDE DEF one
  <2>3. one \o calls \in Seq(PartOf) /\ Len(one \o calls) = 1 + Len(calls)
        /\ \A i \in 1 .. 1 + Len(calls) : (one \o calls)[i] = IF i <= 1 THEN one[i] ELSE calls[i - 1]
        BY <1>5, <2>2, ConcatProperties
  <2>4. Len(c) = Len(s) - 1 /\ Len(s) > 0 /\ Len(s) = 1 + Len(calls)
    <3> HIDE DEF e
    <3>1. Len(e.calls) = Len(s) - 1 /\ Len(s) > 0
          BY <1>7 DEF AfterText
    <3>2. Len(calls) = Len(c)
          BY <1>5
    <3>3. Len(e.calls) = Len(c)
          BY DEF e
    <3>4. Len(c) = Len(s) - 1 /\ Len(s) > 0
          BY <3>1, <3>3
    <3>5. Len(s) \in Nat /\ Len(c) \in Nat
          BY <1>0, <1>4
    <3>6. Len(s) = 1 + Len(c)
          BY <3>4, <3>5
    <3> QED BY <3>2, <3>4, <3>6
  <2>5. ASSUME NEW i \in 1 .. Len(s) PROVE s[i] = (one \o calls)[i]
    <3>1. CASE i = 1
          BY <1>7, <2>2, <2>3, <2>4, <3>1 DEF AfterText
    <3>2. CASE i # 1
      <4>1. i - 1 \in 1 .. Len(s) - 1 /\ i - 1 \in 1 .. Len(c) /\ (i - 1) + 1 = i /\ ~(i <= 1)
            BY <2>4, <3>2
      <4>2. s[(i - 1) + 1] = CallPart(c[i - 1])
            BY <1>7, <4>1 DEF AfterText
      <4>3. (one \o calls)[i] = calls[i - 1]
            BY <2>3, <2>4, <4>1
      <4> QED BY <1>5, <4>1, <4>2, <4>3
    <3> QED BY <3>1, <3>2
  <2>6. s = one \o calls
        BY <2>3, <2>4, <2>5, SeqEqual
  <2> QED BY <2>1, <2>6 DEF one, calls
<1> QED BY <1>3, <1>6, <1>7

LEMMA ShapeParts ==
    ASSUME NEW m \in EntryShapes
    PROVE  /\ m.role \in {"user", "assistant", "tool"} /\ m.parts \in Seq(PartOf)
           /\ \A k \in 1 .. Len(m.parts) : m.parts[k] \in EntryPartsOf(m.role)
           /\ m = Msg(m.role, m.parts)
<1>0. PICK role \in {"user", "assistant", "tool"} : \E n \in 0 .. MaxEntryParts :
           \E q \in [1 .. n -> EntryPartsOf(role)] : m = Msg(role, q)
      BY DEF EntryShapes
<1>9. PICK n \in 0 .. MaxEntryParts : \E q \in [1 .. n -> EntryPartsOf(role)] : m = Msg(role, q)
      BY <1>0
<1>1. PICK parts \in [1 .. n -> EntryPartsOf(role)] : m = Msg(role, parts)
      BY <1>9
<1>2. m.role = role /\ m.parts = parts
      BY <1>1 DEF Msg
<1>3. \A id \in EntryIds : Outputs(id) \subseteq OutputOf
  <2> TAKE id \in EntryIds
  <2>1. ASSUME NEW how \in {"text", "media", "error"} PROVE Result(id, how, <<<<how, id>>>>) \in OutputOf
    <3>1. <<<<how, id>>>> \in Phrase
          BY DEF Phrase
    <3> HIDE DEF Phrase
    <3> DEFINE t == <<<<how, id>>>>
    <3>2. t \in Phrase
          BY <3>1
    <3> HIDE DEF t
    <3>3. Result(id, how, t) \in OutputOf
          BY <3>2 DEF Result, OutputOf
    <3> QED BY <3>3 DEF t
  <2>2. Result(id, "media", <<>>) \in OutputOf
    <3>1. <<>> \in Phrase
          BY EmptySeq DEF Phrase
    <3> QED BY <3>1 DEF Result, OutputOf
  <2> QED BY <2>1, <2>2 DEF Outputs
<1>4. EntryPartsOf(role) \subseteq PartOf
      BY <1>3 DEF EntryPartsOf, PartOf
<1>5. n \in Nat
      BY ProjectionAssumption
<1>6. parts \in [1 .. n -> PartOf]
      BY <1>4
<1>7. parts \in Seq(PartOf)
      BY <1>5, <1>6, MakesSeq
<1>8. Len(parts) = n
      BY <1>5, <1>6, <1>7, LenProperties
<1> QED BY <1>1, <1>2, <1>7, <1>8

\* An older binary restores exactly the message a line is of, unless the line says otherwise.
LEMMA LineComesBack ==
    ASSUME NEW m \in EntryShapes, Message(m), ~Project(m).lossy
    PROVE  FromLegacy(Project(m)) = m
<1> DEFINE s == m.parts
           e == FoldLeft(Take, NoFields, s)
           l == e.lossy \/ e.n > 1
           p == Project(m)
<1>1. /\ m.role \in {"user", "assistant", "tool"} /\ s \in Seq(PartOf)
      /\ \A k \in 1 .. Len(s) : s[k] \in EntryPartsOf(m.role)
      /\ m = Msg(m.role, s)
      BY ShapeParts
<1>2. p = [role |-> m.role, text |-> e.text, calls |-> e.calls, answers |-> e.answers, lossy |-> l]
      BY DEF Project
<1>3. DOMAIN s = 1 .. Len(s) /\ Len(s) \in Nat
      BY <1>1, LenProperties
<1>4. ~l
  <2> HIDE DEF e, l, s
  <2> QED BY <1>2
<1>5. p.role = m.role /\ p.text = e.text /\ p.calls = e.calls /\ p.answers = e.answers
  <2> HIDE DEF e, l, s, p
  <2> QED BY <1>2
<1>6. PICK h \in [0 .. Len(s) -> FieldsOf] : Steps(h, s)
      BY <1>1, StepsExist
<1>7. h[Len(s)] = e
      BY <1>6 DEF Steps
<1>8. ~h[Len(s)].lossy /\ ~(h[Len(s)].n > 1)
  <2> HIDE DEF e
  <2> QED BY <1>4, <1>7
<1> HIDE DEF e, l, p
<1>9. CASE m.role = "user"
  <2>1. \A k \in 1 .. Len(s) : s[k] \in {SaidText, File}
        BY <1>1, <1>9 DEF EntryPartsOf
  <2>2. s # <<>>
        BY <1>9 DEF Message
  <2> HIDE DEF s
  <2>3. s = <<Text(h[Len(s)].text)>>
        BY <1>1, <1>6, <1>8, <2>1, <2>2, UserComesBack
  <2>4. FromLegacy(p) = Msg(m.role, <<Text(e.text)>>)
        BY <1>5, <1>9 DEF FromLegacy
  <2> QED BY <1>1, <1>7, <2>3, <2>4 DEF p
<1>10. CASE m.role = "tool"
  <2>1. \A k \in 1 .. Len(s) : s[k] \in OutputOf
    <3> TAKE k \in 1 .. Len(s)
    <3>1. s[k] \in UNION {Outputs(id) : id \in EntryIds}
          BY <1>1, <1>10 DEF EntryPartsOf
    <3>2. s[k].kind = "result"
          BY <3>1 DEF Outputs, Result
    <3>3. s[k] \in PartOf
          BY <1>1, LenProperties
    <3> QED BY <3>2, <3>3, SaidIs DEF PartOf, Reasoning, File, CallPart
  <2>2. s # <<>>
        BY <1>10 DEF Message
  <2> HIDE DEF s
  <2>3. s = <<Result(h[Len(s)].answers, "text", h[Len(s)].text)>>
        BY <1>1, <1>6, <1>8, <2>1, <2>2, ToolComesBack
  <2>4. FromLegacy(p) = Msg(m.role, <<Result(e.answers, "text", e.text)>>)
        BY <1>5, <1>10 DEF FromLegacy
  <2> QED BY <1>1, <1>7, <2>3, <2>4 DEF p
<1>11. CASE m.role = "assistant"
  <2>1. \A k \in 1 .. Len(s) : s[k] \in {SaidText, Reasoning} \cup {CallPart(id) : id \in EntryIds}
        BY <1>1, <1>11 DEF EntryPartsOf
  <2>2. \A i, j \in 1 .. Len(s) : s[i].kind = "call" /\ s[j].kind = "text" => j < i
        BY <1>3, <1>11 DEF Message
  <2> HIDE DEF s
  <2> DEFINE c == h[Len(s)].calls
             calls == [i \in DOMAIN c |-> CallPart(c[i])]
  <2>3. s = TextPart(h[Len(s)].text) \o calls
    <3>1. c = h[Len(s)].calls
          OBVIOUS
    <3> HIDE DEF c
    <3> QED BY <1>1, <1>6, <1>8, <2>1, <2>2, <3>1, AssistantComesBack
  <2>4. CallParts(p) = calls
        BY <1>5, <1>7 DEF CallParts
  <2> HIDE DEF c, calls
  <2>5. FromLegacy(p) = Msg(m.role, TextPart(e.text) \o CallParts(p))
        BY <1>5, <1>11 DEF FromLegacy
  <2> QED BY <1>1, <1>7, <2>3, <2>4, <2>5 DEF p
<1> QED BY <1>1, <1>9, <1>10, <1>11

\* The outputs up to the first part that is not all kept are in the line.
LEMMA LineKeepsOutputs ==
    ASSUME NEW m \in EntryShapes, NEW i \in DOMAIN m.parts, m.parts[i].kind = "result",
           \A j \in 1 .. i - 1 : Lossless(m.parts[j])
    PROVE  Range(m.parts[i].text) \subseteq Range(Project(m).text)
<1> DEFINE s == m.parts
           e == FoldLeft(Take, NoFields, s)
<1>1. s \in Seq(PartOf)
      BY ShapeParts
<1>2. DOMAIN s = 1 .. Len(s) /\ Len(s) \in Nat /\ s \in [1 .. Len(s) -> PartOf]
      BY <1>1, LenProperties
<1>3. Project(m).text = e.text
      BY DEF Project
<1>4. PICK h \in [0 .. Len(s) -> FieldsOf] : Steps(h, s)
      BY <1>1, StepsExist
<1>5. h[Len(s)] = e
      BY <1>4 DEF Steps
<1>6. i \in 1 .. Len(s) /\ s[i].kind = "result" /\ \A j \in 1 .. i - 1 : Lossless(s[j])
      BY <1>2
<1> HIDE DEF s, e
<1>7. \A k \in 1 .. Len(s) : Grows(h[k - 1], h[k], s[k])
  <2> TAKE k \in 1 .. Len(s)
  <2>1. k - 1 \in 0 .. Len(s) /\ s[k] \in PartOf
        BY <1>2
  <2>2. h[k - 1] \in FieldsOf /\ h[k] = Take(h[k - 1], s[k])
        BY <1>4, <2>1 DEF Steps
  <2> QED BY <2>1, <2>2, TakeGrows
<1>8. ~h[i - 1].lossy
  <2> DEFINE P == {k \in 0 .. Len(s) : k < i => ~h[k].lossy}
  <2>1. 0 \in P
        BY <1>2, <1>4 DEF Steps, NoFields
  <2>2. ASSUME NEW k \in 0 .. Len(s), k < Len(s), k \in P PROVE k + 1 \in P
    <3>1. k + 1 \in 1 .. Len(s) /\ k + 1 \in 0 .. Len(s) /\ (k + 1) - 1 = k
          BY <1>2, <2>2
    <3>2. ASSUME k + 1 < i PROVE ~h[k + 1].lossy
      <4>1. k + 1 \in 1 .. i - 1 /\ k < i
            BY <1>6, <3>1, <3>2
      <4>2. Grows(h[k], h[k + 1], s[k + 1])
        <5>1. Grows(h[(k + 1) - 1], h[k + 1], s[k + 1])
              BY <1>7, <3>1
        <5> QED BY <3>1, <5>1
      <4>3. ~h[k].lossy /\ Lossless(s[k + 1])
            BY <1>6, <2>2, <4>1
      <4> QED BY <4>2, <4>3 DEF Grows
    <3> QED BY <3>1, <3>2
  <2> HIDE DEF P
  <2>3. \A k \in 0 .. Len(s) : k \in P
        BY <1>2, <2>1, <2>2, UpTo
  <2>4. i - 1 \in 0 .. Len(s) /\ i - 1 < i
        BY <1>2, <1>6
  <2> QED BY <2>3, <2>4 DEF P
<1>9. Range(s[i].text) \subseteq Range(h[i].text)
      BY <1>6, <1>7, <1>8 DEF Grows
<1>10. Range(h[i].text) \subseteq Range(h[Len(s)].text)
  <2>1. i \in 0 .. Len(s) /\ Len(s) \in i .. Len(s)
        BY <1>2, <1>6
  <2> QED BY <1>1, <1>4, <2>1, StepsGrow
<1> QED BY <1>3, <1>5, <1>9, <1>10 DEF s

\* The line is of the message, or there is none yet.
EntryIInv == msg \in EntryShapes /\ Message(msg) /\ (entry = NoFields \/ entry = Project(msg))

LEMMA EntryShown == EntryIInv => LineSaysWhatItHolds
<1> SUFFICES ASSUME EntryIInv, entry # NoFields PROVE LineSaysWhatItHolds
    BY DEF LineSaysWhatItHolds, DowngradeIsExact, OutputsAreKept, Saved
<1>1. msg \in EntryShapes /\ Message(msg) /\ entry = Project(msg)
      BY DEF EntryIInv
<1>2. DowngradeIsExact
      BY <1>1, LineComesBack DEF DowngradeIsExact
<1>3. OutputsAreKept
      BY <1>1, LineKeepsOutputs DEF OutputsAreKept
<1> QED BY <1>2, <1>3 DEF LineSaysWhatItHolds

\* At every state, a line that says nothing of a loss gives back its message, with its texts,
\* calls and outputs in their places, to a binary that knows only the older fields; and the
\* outputs up to the first part that is not all kept are in it (projectFantasyToLegacy and
\* legacyEntryToFantasy), whatever the ids and however long the message.
THEOREM LinesSayWhatTheyHold == EntrySpec => []LineSaysWhatItHolds
<1>1. EntryInit => EntryIInv
      BY DEF EntryInit, EntryIInv
<1>2. EntryIInv /\ [Save]_entryVars => EntryIInv'
      BY DEF EntryIInv, Save, entryVars
<1> QED BY <1>1, <1>2, EntryShown, PTL DEF EntrySpec

-----------------------------------------------------------------------------
(* The repair of a history (HistoryRepair) *)

\* A function that goes over the numbers from 0, one after the other.
LEMMA RecursionExists ==
    ASSUME NEW T, NEW A, NEW G \in [T \X A -> T], NEW base \in T, NEW n \in Nat,
           NEW s \in [1 .. n -> A]
    PROVE  \E h \in [0 .. n -> T] : FoldUpTo(h, base, G, s, n)
<1>1. PICK f \in [SUBSET (1 .. n) -> T] : FoldsTo(f, base, G, s, n)
      BY FoldExists
<1>2. Inside(G, T, A)
      BY DEF Inside
<1>3. EndsIn(T, base, G, s, n, f[1 .. n])
      BY <1>1, <1>2, FoldSteps
<1> QED BY <1>3 DEF EndsIn

\* What is kept of the first elements.
ThoseUpTo(h, s, T) ==
    /\ h[0] = <<>>
    /\ \A k \in 1 .. Len(s) : h[k] = IF s[k] \in T THEN Append(h[k - 1], s[k]) ELSE h[k - 1]

LEMMA ThoseSteps ==
    ASSUME NEW A, NEW s \in Seq(A), NEW T
    PROVE  \E h \in [0 .. Len(s) -> Seq(A)] : ThoseUpTo(h, s, T) /\ h[Len(s)] = Those(s, T)
<1> DEFINE G == [p \in Seq(A) \X A |-> IF p[2] \in T THEN Append(p[1], p[2]) ELSE p[1]]
           n == Len(s)
           Rec(f) == f = [i \in 0 .. Len(s) |->
                            IF i = 0 THEN <<>>
                            ELSE IF s[i] \in T THEN Append(f[i - 1], s[i]) ELSE f[i - 1]]
           iter == CHOOSE f : Rec(f)
<1>1. n \in Nat /\ s \in [1 .. n -> A]
      BY LenProperties
<1>2. \A c \in Seq(A), x \in A : G[<<c, x>>] = IF x \in T THEN Append(c, x) ELSE c
  <2> TAKE c \in Seq(A), x \in A
  <2>1. <<c, x>> \in Seq(A) \X A /\ <<c, x>>[1] = c /\ <<c, x>>[2] = x
        OBVIOUS
  <2> QED BY <2>1
<1>3. G \in [Seq(A) \X A -> Seq(A)]
  <2>1. \A p \in Seq(A) \X A : p[1] \in Seq(A) /\ p[2] \in A
        OBVIOUS
  <2>2. \A p \in Seq(A) \X A : (IF p[2] \in T THEN Append(p[1], p[2]) ELSE p[1]) \in Seq(A)
    <3> TAKE p \in Seq(A) \X A
    <3>1. Append(p[1], p[2]) \in Seq(A)
          BY <2>1, AppendProperties
    <3> QED BY <2>1, <3>1
  <2> QED BY <2>2
<1> HIDE DEF G
<1>4. <<>> \in Seq(A)
      BY EmptySeq
<1>5. PICK h \in [0 .. n -> Seq(A)] : FoldUpTo(h, <<>>, G, s, n)
      BY <1>1, <1>3, <1>4, RecursionExists
<1>6. h[0] = <<>> /\ \A k \in 1 .. n : h[k] = IF s[k] \in T THEN Append(h[k - 1], s[k]) ELSE h[k - 1]
  <2>1. h[0] = <<>> /\ \A k \in 1 .. n : h[k] = G[<<h[k - 1], s[k]>>]
        BY <1>5 DEF FoldUpTo
  <2>2. ASSUME NEW k \in 1 .. n PROVE h[k] = IF s[k] \in T THEN Append(h[k - 1], s[k]) ELSE h[k - 1]
    <3>1. k - 1 \in 0 .. n /\ h[k - 1] \in Seq(A) /\ s[k] \in A
          BY <1>1
    <3> QED BY <1>2, <2>1, <3>1
  <2> QED BY <2>1, <2>2
<1>7. Rec(h)
  <2> DEFINE r == [i \in 0 .. Len(s) |->
                      IF i = 0 THEN <<>>
                      ELSE IF s[i] \in T THEN Append(h[i - 1], s[i]) ELSE h[i - 1]]
  <2>1. \A i \in 0 .. n : h[i] = r[i]
    <3> TAKE i \in 0 .. n
    <3>1. CASE i = 0
          BY <1>6, <3>1
    <3>2. CASE i # 0
      <4>1. i \in 1 .. n
            BY <1>1, <3>2
      <4> QED BY <1>6, <3>2, <4>1
    <3> QED BY <3>1, <3>2
  <2>2. DOMAIN r = 0 .. n /\ DOMAIN h = 0 .. n
        OBVIOUS
  <2>3. r = [i \in 0 .. n |-> r[i]] /\ h = [i \in 0 .. n |-> h[i]]
        OBVIOUS
  <2>4. h = r
    <3> HIDE DEF r
    <3> QED BY <2>1, <2>3
  <2> QED BY <2>4
<1>8. Rec(iter)
  <2> HIDE DEF Rec
  <2> QED BY <1>7
<1>9. Those(s, T) = iter[n]
      BY DEF Those
<1>10. iter[0] = <<>> /\ \A k \in 1 .. n : iter[k] = IF s[k] \in T THEN Append(iter[k - 1], s[k]) ELSE iter[k - 1]
  <2> HIDE DEF iter
  <2>1. \A i \in 0 .. n : iter[i] = IF i = 0 THEN <<>>
                            ELSE IF s[i] \in T THEN Append(iter[i - 1], s[i]) ELSE iter[i - 1]
        BY <1>8
  <2>2. 0 \in 0 .. n /\ \A k \in 1 .. n : k \in 0 .. n /\ k # 0
        BY <1>1
  <2> QED BY <2>1, <2>2
<1> HIDE DEF iter, Rec
<1> DEFINE P == {k \in 0 .. n : iter[k] = h[k]}
<1>11. 0 \in P
      BY <1>1, <1>6, <1>10
<1>12. ASSUME NEW k \in 0 .. n, k < n, k \in P PROVE k + 1 \in P
  <2>1. k + 1 \in 1 .. n /\ (k + 1) - 1 = k /\ k + 1 \in 0 .. n /\ iter[k] = h[k]
        BY <1>1, <1>12
  <2>2. iter[k + 1] = IF s[k + 1] \in T THEN Append(iter[k], s[k + 1]) ELSE iter[k]
        BY <1>10, <2>1
  <2>3. h[k + 1] = IF s[k + 1] \in T THEN Append(h[k], s[k + 1]) ELSE h[k]
        BY <1>6, <2>1
  <2> QED BY <2>1, <2>2, <2>3
<1> HIDE DEF P
<1>13. n \in P
  <2>1. \A k \in 0 .. n : k \in P
        BY <1>1, <1>11, <1>12, UpTo
  <2> QED BY <1>1, <2>1
<1>14. ThoseUpTo(h, s, T)
      BY <1>6 DEF ThoseUpTo
<1> QED BY <1>5, <1>9, <1>13, <1>14 DEF P

\* What is kept is what there is of the set.
LEMMA ThoseAre ==
    ASSUME NEW A, NEW s \in Seq(A), NEW T
    PROVE  /\ Those(s, T) \in Seq(A)
           /\ Range(Those(s, T)) = Range(s) \cap T
<1>1. PICK h \in [0 .. Len(s) -> Seq(A)] : ThoseUpTo(h, s, T) /\ h[Len(s)] = Those(s, T)
      BY ThoseSteps
<1>2. Len(s) \in Nat /\ s \in [1 .. Len(s) -> A] /\ DOMAIN s = 1 .. Len(s)
      BY LenProperties
<1> DEFINE Had(k) == {s[i] : i \in 1 .. k} \cap T
           P == {k \in 0 .. Len(s) : Range(h[k]) = Had(k)}
<1>3. 0 \in P
  <2>1. Range(<<>>) = {}
        BY DEF Range
  <2>2. 1 .. 0 = {}
        OBVIOUS
  <2> QED BY <1>1, <1>2, <2>1, <2>2 DEF ThoseUpTo
<1>4. ASSUME NEW k \in 0 .. Len(s), k < Len(s), k \in P PROVE k + 1 \in P
  <2>1. k + 1 \in 1 .. Len(s) /\ (k + 1) - 1 = k /\ k + 1 \in 0 .. Len(s)
        BY <1>2, <1>4
  <2>2. h[k + 1] = IF s[k + 1] \in T THEN Append(h[k], s[k + 1]) ELSE h[k]
        BY <1>1, <2>1 DEF ThoseUpTo
  <2>3. h[k] \in Seq(A) /\ s[k + 1] \in A /\ Range(h[k]) = Had(k)
        BY <1>2, <1>4, <2>1
  <2>4. Range(Append(h[k], s[k + 1])) = Range(h[k]) \cup {s[k + 1]}
    <3> DEFINE c == h[k]
               x == s[k + 1]
    <3> HIDE DEF c, x
    <3>1. c \in Seq(A) /\ x \in A
          BY <2>3 DEF c, x
    <3>2. /\ Len(c) \in Nat /\ DOMAIN c = 1 .. Len(c)
          /\ Append(c, x) \in Seq(A) /\ Len(Append(c, x)) = Len(c) + 1
          /\ \A i \in 1 .. Len(c) : Append(c, x)[i] = c[i]
          /\ Append(c, x)[Len(c) + 1] = x
          BY <3>1, AppendReads, LenProperties
    <3>3. DOMAIN Append(c, x) = 1 .. Len(c) + 1
          BY <3>2, LenProperties
    <3>4. 1 .. Len(c) + 1 = (1 .. Len(c)) \cup {Len(c) + 1}
          BY <3>2
    <3>5. Range(Append(c, x)) = {Append(c, x)[i] : i \in (1 .. Len(c)) \cup {Len(c) + 1}}
          BY <3>3, <3>4 DEF Range
    <3>6. Range(c) = {c[i] : i \in 1 .. Len(c)}
          BY <3>2 DEF Range
    <3>7. Range(Append(c, x)) = Range(c) \cup {x}
          BY <3>2, <3>5, <3>6
    <3> QED BY <3>7 DEF c, x
  <2>5. {s[i] : i \in 1 .. k + 1} = {s[i] : i \in 1 .. k} \cup {s[k + 1]}
    <3>1. 1 .. k + 1 = (1 .. k) \cup {k + 1}
          BY <2>1
    <3> QED BY <3>1
  <2>6. Range(h[k + 1]) = Had(k + 1)
        BY <2>2, <2>3, <2>4, <2>5
  <2> QED BY <2>1, <2>6
<1> HIDE DEF P
<1>5. \A k \in 0 .. Len(s) : k \in P
      BY <1>2, <1>3, <1>4, UpTo
<1>6. Len(s) \in 0 .. Len(s)
      BY <1>2
<1>7. Range(s) = {s[i] : i \in 1 .. Len(s)}
      BY <1>2 DEF Range
<1> QED BY <1>1, <1>5, <1>6, <1>7 DEF P

\* Of two sequences one after the other, all of the first and none of the second is kept.
LEMMA ThoseOfTwo ==
    ASSUME NEW A, NEW s \in Seq(A), NEW t \in Seq(A), NEW T,
           \A i \in 1 .. Len(s) : s[i] \in T, \A i \in 1 .. Len(t) : t[i] \notin T
    PROVE  Those(s \o t, T) = s
<1> DEFINE u == s \o t
<1>1. /\ u \in Seq(A) /\ Len(u) = Len(s) + Len(t) /\ Len(s) \in Nat /\ Len(t) \in Nat
      /\ \A i \in 1 .. Len(s) + Len(t) : u[i] = IF i <= Len(s) THEN s[i] ELSE t[i - Len(s)]
      BY ConcatProperties, LenProperties
<1> HIDE DEF u
<1>2. PICK h \in [0 .. Len(u) -> Seq(A)] : ThoseUpTo(h, u, T) /\ h[Len(u)] = Those(u, T)
      BY <1>1, ThoseSteps
<1> DEFINE SoFar(k) == /\ Len(h[k]) = IF k <= Len(s) THEN k ELSE Len(s)
                       /\ \A i \in 1 .. Len(h[k]) : h[k][i] = s[i]
           P == {k \in 0 .. Len(u) : SoFar(k)}
<1>3. 0 \in P
      BY <1>1, <1>2, EmptySeq DEF ThoseUpTo
<1>4. ASSUME NEW k \in 0 .. Len(u), k < Len(u), k \in P PROVE k + 1 \in P
  <2>1. k + 1 \in 1 .. Len(u) /\ (k + 1) - 1 = k /\ k + 1 \in 0 .. Len(u) /\ k \in Nat
        BY <1>1, <1>4
  <2>2. h[k + 1] = IF u[k + 1] \in T THEN Append(h[k], u[k + 1]) ELSE h[k]
        BY <1>2, <2>1 DEF ThoseUpTo
  <2>3. h[k] \in Seq(A) /\ SoFar(k)
        BY <1>4
  <2>4. CASE k + 1 <= Len(s)
    <3>1. u[k + 1] = s[k + 1] /\ s[k + 1] \in T /\ s[k + 1] \in A
      <4>1. k + 1 \in 1 .. Len(s) /\ k + 1 \in 1 .. Len(s) + Len(t)
            BY <1>1, <2>1, <2>4
      <4> QED BY <1>1, <2>4, <4>1, LenProperties
    <3>2. h[k + 1] = Append(h[k], s[k + 1]) /\ Len(h[k]) = k
          BY <1>1, <2>1, <2>2, <2>3, <2>4, <3>1
    <3> DEFINE c == h[k]
               x == s[k + 1]
    <3>3. c \in Seq(A) /\ x \in A /\ Len(c) = k /\ \A i \in 1 .. k : c[i] = s[i]
          BY <2>3, <3>1, <3>2
    <3> HIDE DEF c, x
    <3>4. /\ Len(Append(c, x)) = k + 1 /\ \A i \in 1 .. k : Append(c, x)[i] = c[i]
          /\ Append(c, x)[k + 1] = x
          BY <3>3, AppendReads
    <3>5. \A i \in 1 .. k + 1 : Append(c, x)[i] = s[i]
      <4> TAKE i \in 1 .. k + 1
      <4>1. i \in 1 .. k \/ i = k + 1
            BY <2>1
      <4> QED BY <3>3, <3>4, <4>1 DEF x
    <3>6. Append(c, x) = h[k + 1]
          BY <3>2 DEF c, x
    <3>7. Len(h[k + 1]) = k + 1 /\ \A i \in 1 .. Len(h[k + 1]) : h[k + 1][i] = s[i]
          BY <3>4, <3>5, <3>6
    <3> QED BY <2>1, <2>4, <3>7
  <2>5. CASE ~(k + 1 <= Len(s))
    <3>1. u[k + 1] \notin T
      <4>1. (k + 1) - Len(s) \in 1 .. Len(t) /\ k + 1 \in 1 .. Len(s) + Len(t)
            BY <1>1, <2>1, <2>5
      <4> QED BY <1>1, <2>5, <4>1
    <3>2. h[k + 1] = h[k]
          BY <2>2, <3>1
    <3>3. Len(h[k + 1]) = Len(s)
          BY <1>1, <2>1, <2>3, <2>5, <3>2
    <3>4. SoFar(k + 1)
          BY <2>3, <2>5, <3>2, <3>3
    <3> QED BY <2>1, <3>4
  <2> QED BY <2>4, <2>5
<1> HIDE DEF P
<1>5. Len(u) \in P
  <2>0. Len(u) \in Nat
        BY <1>1, LenProperties
  <2>1. \A k \in 0 .. Len(u) : k \in P
        BY <2>0, <1>3, <1>4, UpTo
  <2>2. Len(u) \in 0 .. Len(u)
        BY <2>0
  <2> QED BY <2>1, <2>2
<1>6. /\ Those(u, T) \in Seq(A) /\ Len(Those(u, T)) = IF Len(u) <= Len(s) THEN Len(u) ELSE Len(s)
      /\ \A i \in 1 .. Len(Those(u, T)) : Those(u, T)[i] = s[i]
      BY <1>1, <1>2, <1>5, ThoseAre DEF P
<1>7. Len(Those(u, T)) = Len(s)
      BY <1>1, <1>6
<1> QED BY <1>6, <1>7, SeqEqual DEF u

LEMMA ThoseAll ==
    ASSUME NEW A, NEW s \in Seq(A), NEW T, \A i \in 1 .. Len(s) : s[i] \in T
    PROVE  Those(s, T) = s
<1>1. <<>> \in Seq(A) /\ Len(<<>>) = 0
      BY EmptySeq
<1>2. \A i \in 1 .. Len(<<>>) : <<>>[i] \notin T
      BY <1>1
<1>3. Those(s \o <<>>, T) = s
      BY <1>1, <1>2, ThoseOfTwo
<1> QED BY <1>3, ConcatEmptySeq

LEMMA ThoseNone ==
    ASSUME NEW A, NEW s \in Seq(A), NEW T, \A i \in 1 .. Len(s) : s[i] \notin T
    PROVE  Those(s, T) = <<>>
<1>1. <<>> \in Seq(A) /\ Len(<<>>) = 0
      BY EmptySeq
<1>2. \A i \in 1 .. Len(<<>>) : <<>>[i] \in T
      BY <1>1
<1>3. Those(<<>> \o s, T) = <<>>
      BY <1>1, <1>2, ThoseOfTwo
<1> QED BY <1>3, ConcatEmptySeq

\* A concatenation, sequence after sequence.
Flattens(h, s) == h[0] = <<>> /\ \A k \in 1 .. Len(s) : h[k] = h[k - 1] \o s[k]

LEMMA FlattenSteps ==
    ASSUME NEW A, NEW s \in Seq(Seq(A))
    PROVE  \E h \in [0 .. Len(s) -> Seq(A)] : Flattens(h, s) /\ h[Len(s)] = FlattenSeq(s)
<1> DEFINE G == [p \in Seq(A) \X Seq(A) |-> p[1] \o p[2]]
           n == Len(s)
           Rec(f) == f = [i \in 1 .. Len(s) |-> IF i = 1 THEN s[i] ELSE f[i - 1] \o s[i]]
           iter == CHOOSE f : Rec(f)
<1>1. n \in Nat /\ s \in [1 .. n -> Seq(A)]
      BY LenProperties
<1>2. \A c, x \in Seq(A) : G[<<c, x>>] = c \o x
  <2> TAKE c, x \in Seq(A)
  <2>1. <<c, x>> \in Seq(A) \X Seq(A) /\ <<c, x>>[1] = c /\ <<c, x>>[2] = x
        OBVIOUS
  <2> QED BY <2>1
<1>3. G \in [Seq(A) \X Seq(A) -> Seq(A)]
  <2>1. \A p \in Seq(A) \X Seq(A) : p[1] \in Seq(A) /\ p[2] \in Seq(A)
        OBVIOUS
  <2>2. \A p \in Seq(A) \X Seq(A) : p[1] \o p[2] \in Seq(A)
        BY <2>1, ConcatProperties
  <2> QED BY <2>2
<1> HIDE DEF G
<1>4. <<>> \in Seq(A)
      BY EmptySeq
<1>5. PICK h \in [0 .. n -> Seq(A)] : FoldUpTo(h, <<>>, G, s, n)
      BY <1>1, <1>3, <1>4, RecursionExists
<1>6. h[0] = <<>> /\ \A k \in 1 .. n : h[k] = h[k - 1] \o s[k]
  <2>1. h[0] = <<>> /\ \A k \in 1 .. n : h[k] = G[<<h[k - 1], s[k]>>]
        BY <1>5 DEF FoldUpTo
  <2>2. ASSUME NEW k \in 1 .. n PROVE h[k] = h[k - 1] \o s[k]
    <3>0. k - 1 \in 0 .. n /\ k \in 1 .. n
          BY <1>1
    <3> HIDE DEF n
    <3>1. h[k - 1] \in Seq(A) /\ s[k] \in Seq(A)
          BY <1>1, <3>0
    <3> QED BY <1>2, <2>1, <3>1
  <2> QED BY <2>1, <2>2
<1>7. CASE n = 0
  <2>1. s = <<>>
        BY <1>1, <1>7, EmptySeq
  <2>2. FlattenSeq(s) = s
        BY <1>7 DEF FlattenSeq
  <2> QED BY <1>5, <1>6, <1>7, <2>1, <2>2 DEF Flattens
<1>8. CASE n # 0
  <2>1. 1 \in 1 .. n /\ h[1] = s[1]
    <3>1. 1 \in 1 .. n /\ s[1] \in Seq(A)
          BY <1>1, <1>8
    <3>2. <<>> \o s[1] = s[1]
          BY <3>1, ConcatEmptySeq
    <3>3. h[1] = h[1 - 1] \o s[1] /\ h[0] = <<>>
          BY <1>6, <3>1
    <3>4. 1 - 1 = 0
          OBVIOUS
    <3> QED BY <3>1, <3>2, <3>3, <3>4
  <2> DEFINE g == [k \in 1 .. n |-> h[k]]
             r == [i \in 1 .. n |-> IF i = 1 THEN s[i] ELSE g[i - 1] \o s[i]]
  <2>2. \A i \in 1 .. n : g[i] = r[i]
    <3> TAKE i \in 1 .. n
    <3>1. CASE i = 1
          BY <2>1, <3>1
    <3>2. CASE i # 1
      <4>1. i - 1 \in 1 .. n
            BY <1>1, <3>2
      <4> QED BY <1>6, <3>2, <4>1
    <3> QED BY <3>1, <3>2
  <2>3. g = r
    <3>1. r = [i \in 1 .. n |-> r[i]] /\ g = [i \in 1 .. n |-> g[i]]
          OBVIOUS
    <3> HIDE DEF r, g
    <3> QED BY <2>2, <3>1
  <2>4. Rec(g)
        BY <2>3
  <2>5. Rec(iter)
    <3> HIDE DEF Rec
    <3> QED BY <2>4
  <2>6. FlattenSeq(s) = iter[n]
        BY <1>8 DEF FlattenSeq
  <2>7. \A i \in 1 .. n : iter[i] = IF i = 1 THEN s[i] ELSE iter[i - 1] \o s[i]
    <3> HIDE DEF iter
    <3> QED BY <2>5
  <2> HIDE DEF iter, Rec, g, r
  <2> DEFINE P == {k \in 0 .. n : k > 0 => iter[k] = h[k]}
  <2>8. 0 \in P
        BY <1>1
  <2>9. ASSUME NEW k \in 0 .. n, k < n, k \in P PROVE k + 1 \in P
    <3>1. k + 1 \in 1 .. n /\ (k + 1) - 1 = k /\ k + 1 \in 0 .. n
          BY <1>1, <2>9
    <3>2. CASE k = 0
      <4>1. iter[1] = s[1]
            BY <2>1, <2>7
      <4> QED BY <2>1, <3>1, <3>2, <4>1
    <3>3. CASE k # 0
      <4>1. k > 0 /\ k + 1 # 1
            BY <2>9, <3>3
      <4>2. iter[k + 1] = iter[k] \o s[k + 1] /\ h[k + 1] = h[k] \o s[k + 1]
            BY <1>6, <2>7, <3>1, <4>1
      <4> QED BY <2>9, <3>1, <4>1, <4>2
    <3> QED BY <3>2, <3>3
  <2> HIDE DEF P
  <2>10. \A k \in 0 .. n : k \in P
        BY <1>1, <2>8, <2>9, UpTo
  <2>11. n \in 0 .. n /\ n > 0
        BY <1>1, <1>8
  <2>12. iter[n] = h[n]
        BY <2>10, <2>11 DEF P
  <2> QED BY <1>5, <1>6, <2>6, <2>12 DEF Flattens
<1> QED BY <1>7, <1>8

\* Where the sequences are in the whole: behind at[k - 1] comes the k-th.
Places(at, s) ==
    /\ at \in [0 .. Len(s) -> Nat] /\ at[0] = 0
    /\ \A k \in 1 .. Len(s) : at[k] = at[k - 1] + Len(s[k])
    /\ Len(FlattenSeq(s)) = at[Len(s)]
    /\ \A k \in 1 .. Len(s) : \A i \in 1 .. Len(s[k]) : FlattenSeq(s)[at[k - 1] + i] = s[k][i]
    /\ \A j \in 1 .. Len(FlattenSeq(s)) : \E k \in 1 .. Len(s) : at[k - 1] < j /\ j <= at[k]

LEMMA OnePiece ==
    ASSUME NEW A, NEW c \in Seq(A), NEW x \in Seq(A)
    PROVE  /\ Len(c \o x) = Len(c) + Len(x) /\ Len(c) \in Nat /\ Len(x) \in Nat
           /\ \A i \in 1 .. Len(c) : (c \o x)[i] = c[i]
           /\ \A i \in 1 .. Len(x) : (c \o x)[Len(c) + i] = x[i]
<1>1. /\ Len(c) \in Nat /\ Len(x) \in Nat /\ Len(c \o x) = Len(c) + Len(x)
      /\ \A i \in 1 .. Len(c) + Len(x) : (c \o x)[i] = IF i <= Len(c) THEN c[i] ELSE x[i - Len(c)]
      BY LenProperties, ConcatProperties
<1>2. ASSUME NEW i \in 1 .. Len(c) PROVE (c \o x)[i] = c[i]
  <2>1. i \in 1 .. Len(c) + Len(x) /\ i <= Len(c)
        BY <1>1
  <2> QED BY <1>1, <2>1
<1>3. ASSUME NEW i \in 1 .. Len(x) PROVE (c \o x)[Len(c) + i] = x[i]
  <2>1. Len(c) + i \in 1 .. Len(c) + Len(x) /\ ~(Len(c) + i <= Len(c)) /\ (Len(c) + i) - Len(c) = i
        BY <1>1
  <2> QED BY <1>1, <2>1
<1> QED BY <1>1, <1>2, <1>3

LEMMA FlattenPlaces ==
    ASSUME NEW A, NEW s \in Seq(Seq(A))
    PROVE  FlattenSeq(s) \in Seq(A) /\ \E at : Places(at, s)
<1> DEFINE n == Len(s)
<1>1. n \in Nat /\ s \in [1 .. n -> Seq(A)]
      BY LenProperties
<1>2. PICK h \in [0 .. n -> Seq(A)] : Flattens(h, s) /\ h[n] = FlattenSeq(s)
      BY FlattenSteps
<1> HIDE DEF n
<1>3. h[0] = <<>> /\ \A k \in 1 .. n : h[k] = h[k - 1] \o s[k]
      BY <1>2 DEF Flattens, n
<1> DEFINE at == [k \in 0 .. n |-> Len(h[k])]
<1>4. at \in [0 .. n -> Nat] /\ \A k \in 0 .. n : at[k] = Len(h[k])
  <2>1. \A k \in 0 .. n : Len(h[k]) \in Nat
        BY LenProperties
  <2> QED BY <2>1
<1>5. at[0] = 0
  <2>1. 0 \in 0 .. n
        BY <1>1
  <2> QED BY <1>3, <1>4, <2>1, EmptySeq
<1> HIDE DEF at
<1>6. ASSUME NEW k \in 1 .. n
      PROVE  /\ k - 1 \in 0 .. n /\ k \in 0 .. n
             /\ at[k] = at[k - 1] + Len(s[k]) /\ Len(s[k]) \in Nat
             /\ \A i \in 1 .. at[k - 1] : h[k][i] = h[k - 1][i]
             /\ \A i \in 1 .. Len(s[k]) : h[k][at[k - 1] + i] = s[k][i]
  <2>1. k - 1 \in 0 .. n /\ k \in 0 .. n
        BY <1>1
  <2>2. h[k - 1] \in Seq(A) /\ s[k] \in Seq(A) /\ h[k] = h[k - 1] \o s[k]
        BY <1>1, <1>3, <2>1
  <2> DEFINE c == h[k - 1]
             x == s[k]
  <2>3. c \in Seq(A) /\ x \in Seq(A) /\ h[k] = c \o x /\ at[k - 1] = Len(c) /\ at[k] = Len(c \o x)
        BY <1>4, <2>1, <2>2
  <2> HIDE DEF c, x
  <2>4. /\ Len(c \o x) = Len(c) + Len(x) /\ Len(x) \in Nat
        /\ \A i \in 1 .. Len(c) : (c \o x)[i] = c[i]
        /\ \A i \in 1 .. Len(x) : (c \o x)[Len(c) + i] = x[i]
        BY <2>3, OnePiece
  <2>5. /\ at[k] = at[k - 1] + Len(x)
        /\ \A i \in 1 .. at[k - 1] : h[k][i] = c[i]
        /\ \A i \in 1 .. Len(x) : h[k][at[k - 1] + i] = x[i]
        BY <2>3, <2>4
  <2> QED BY <2>1, <2>4, <2>5 DEF c, x
<1>7. ASSUME NEW k \in 0 .. n
      PROVE  \A m \in k .. n : at[k] <= at[m] /\ \A i \in 1 .. at[k] : h[m][i] = h[k][i]
  <2> DEFINE Same(m) == at[k] <= at[m] /\ \A i \in 1 .. at[k] : h[m][i] = h[k][i]
             P == {m \in 0 .. n : m >= k => Same(m)}
  <2>1. at[k] \in Nat
        BY <1>4
  <2>2. 0 \in P
    <3>1. 0 \in 0 .. n /\ (0 >= k => k = 0) /\ Same(k)
          BY <1>1, <2>1
    <3> HIDE DEF Same
    <3> QED BY <3>1
  <2>3. ASSUME NEW m \in 0 .. n, m < n, m \in P PROVE m + 1 \in P
    <3>1. m + 1 \in 1 .. n /\ (m + 1) - 1 = m /\ m + 1 \in 0 .. n
          BY <1>1, <2>3
    <3>2. CASE m + 1 = k
      <4>1. Same(k)
            BY <2>1
      <4> HIDE DEF Same
      <4> QED BY <3>1, <3>2, <4>1
    <3>3. CASE m + 1 # k
      <4>1. m + 1 >= k => m >= k
            BY <3>1, <3>3
      <4>2. /\ at[m + 1] = at[m] + Len(s[m + 1]) /\ Len(s[m + 1]) \in Nat
            /\ \A i \in 1 .. at[m] : h[m + 1][i] = h[m][i]
            BY <1>6, <3>1
      <4>3. ASSUME Same(m) PROVE Same(m + 1)
        <5>1. at[m] \in Nat /\ at[m + 1] \in Nat
              BY <1>4, <3>1
        <5>2. at[k] <= at[m + 1]
              BY <2>1, <4>2, <4>3, <5>1
        <5>3. \A i \in 1 .. at[k] : h[m + 1][i] = h[k][i]
          <6> TAKE i \in 1 .. at[k]
          <6>1. i \in 1 .. at[m]
                BY <2>1, <4>3, <5>1
          <6> QED BY <4>2, <4>3, <6>1
        <5> QED BY <5>2, <5>3
      <4> HIDE DEF Same
      <4> QED BY <2>3, <3>1, <4>1, <4>3
    <3> QED BY <3>2, <3>3
  <2> HIDE DEF P
  <2>4. \A m \in 0 .. n : m \in P
        BY <1>1, <2>2, <2>3, UpTo
  <2> QED BY <1>1, <2>4 DEF P
<1>8. Len(FlattenSeq(s)) = at[n] /\ FlattenSeq(s) \in Seq(A)
  <2>1. n \in 0 .. n
        BY <1>1
  <2> QED BY <1>2, <1>4, <2>1
<1>9. ASSUME NEW k \in 1 .. n, NEW i \in 1 .. Len(s[k])
      PROVE  FlattenSeq(s)[at[k - 1] + i] = s[k][i]
  <2>1. h[k][at[k - 1] + i] = s[k][i] /\ k \in 0 .. n /\ n \in k .. n
        BY <1>1, <1>6
  <2>2. at[k - 1] + i \in 1 .. at[k]
    <3>1. at[k] = at[k - 1] + Len(s[k]) /\ Len(s[k]) \in Nat /\ at[k - 1] \in Nat
          BY <1>4, <1>6
    <3> QED BY <3>1
  <2> QED BY <1>2, <1>7, <2>1, <2>2
<1>10. ASSUME NEW j \in 1 .. Len(FlattenSeq(s)) PROVE \E k \in 1 .. n : at[k - 1] < j /\ j <= at[k]
  <2> DEFINE Far == {k \in 0 .. n : j <= at[k]}
  <2>1. n \in Far /\ Far \in SUBSET Nat /\ Far # {}
    <3>1. at[n] \in Nat /\ n \in 0 .. n
          BY <1>1, <1>4
    <3>2. j <= at[n]
          BY <1>8, <3>1
    <3>3. n \in Far
          BY <3>1, <3>2
    <3>4. \A k \in Far : k \in Nat
          BY <1>1
    <3> HIDE DEF Far
    <3> QED BY <3>3, <3>4
  <2> HIDE DEF Far
  <2>2. PICK k \in Far : \A m \in Far : k <= m
        BY <2>1, LeastOf
  <2>3. k \in 0 .. n /\ j <= at[k] /\ j >= 1 /\ j \in Nat
        BY <1>4, <1>8, <2>2 DEF Far
  <2>4. k # 0
        BY <1>5, <2>3
  <2>5. k \in 1 .. n /\ k - 1 \in 0 .. n /\ ~(k <= k - 1)
        BY <1>1, <2>3, <2>4
  <2>6. k - 1 \notin Far
        BY <2>2, <2>5
  <2>7. ~(j <= at[k - 1]) /\ at[k - 1] \in Nat
        BY <1>4, <2>5, <2>6 DEF Far
  <2> QED BY <2>3, <2>5, <2>7
<1>11. \A k \in 1 .. n : at[k] = at[k - 1] + Len(s[k])
       BY <1>6
<1>12. Places(at, s)
       BY <1>4, <1>5, <1>8, <1>9, <1>10, <1>11 DEF Places, n
<1> QED BY <1>8, <1>12

\* A sequence with the same pieces in the same places is the whole.
LEMMA FlattenIs ==
    ASSUME NEW A, NEW s \in Seq(Seq(A)), NEW at, Places(at, s), NEW u \in Seq(A),
           Len(u) = at[Len(s)],
           \A k \in 1 .. Len(s) : \A i \in 1 .. Len(s[k]) : u[at[k - 1] + i] = s[k][i]
    PROVE  FlattenSeq(s) = u
<1>1. FlattenSeq(s) \in Seq(A) /\ Len(FlattenSeq(s)) = Len(u)
      BY FlattenPlaces DEF Places
<1>2. ASSUME NEW j \in 1 .. Len(u) PROVE FlattenSeq(s)[j] = u[j]
  <2>1. PICK k \in 1 .. Len(s) : at[k - 1] < j /\ j <= at[k]
        BY <1>1 DEF Places
  <2>2. /\ at[k] = at[k - 1] + Len(s[k]) /\ at[k - 1] \in Nat /\ Len(s[k]) \in Nat
    <3>1. Len(s) \in Nat /\ s[k] \in Seq(A)
          BY LenProperties
    <3>2. k - 1 \in 0 .. Len(s)
          BY <3>1
    <3>3. Len(s[k]) \in Nat
          BY <3>1, LenProperties
    <3> QED BY <3>2, <3>3 DEF Places
  <2>3. j - at[k - 1] \in 1 .. Len(s[k]) /\ at[k - 1] + (j - at[k - 1]) = j
        BY <2>1, <2>2
  <2>4. FlattenSeq(s)[at[k - 1] + (j - at[k - 1])] = s[k][j - at[k - 1]]
        BY <2>3 DEF Places
  <2>5. u[at[k - 1] + (j - at[k - 1])] = s[k][j - at[k - 1]]
        BY <2>3
  <2> QED BY <2>3, <2>4, <2>5
<1> QED BY <1>1, <1>2, SeqEqual

\* Messages of some parts; results of the repair's own are among them.
MessagesOf(S) == [role : {"user", "assistant", "tool"}, parts : Seq(S)]
IdsOf(S) == {p.id : p \in {q \in S : q.kind = "call"}}
Closed(S) == \A id \in IdsOf(S) : Result(id, "text", Marker) \in S

\* What a message is once the repair is through, and is it followed by one of the repair's own?
Extended(msgs, i) ==
    IF Bucket(msgs, i) THEN [msgs[i] EXCEPT !.parts = @ \o Synthetic(Orphans(msgs, i - 1))]
    ELSE msgs[i]
Spliced(msgs, i) == Orphans(msgs, i) # <<>> /\ ~Bucket(msgs, i + 1)

LEMMA ElementIn ==
    ASSUME NEW A, NEW s \in Seq(A), NEW i \in DOMAIN s
    PROVE  s[i] \in A /\ i \in 1 .. Len(s) /\ i \in Nat /\ s[i] \in Range(s)
<1>1. DOMAIN s = 1 .. Len(s) /\ s \in [1 .. Len(s) -> A]
      BY LenProperties
<1> QED BY <1>1 DEF Range

LEMMA RangeIn ==
    ASSUME NEW A, NEW s \in Seq(A), NEW x \in Range(s)
    PROVE  x \in A /\ \E i \in 1 .. Len(s) : s[i] = x
<1>1. DOMAIN s = 1 .. Len(s) /\ s \in [1 .. Len(s) -> A]
      BY LenProperties
<1> QED BY <1>1 DEF Range

\* What is made of each element.
LEMMA MappedSeq ==
    ASSUME NEW A, NEW B, NEW s \in Seq(A), NEW f \in [A -> B],
           NEW t, t = [i \in DOMAIN s |-> f[s[i]]]
    PROVE  /\ t \in Seq(B) /\ Len(t) = Len(s) /\ DOMAIN t = 1 .. Len(s)
           /\ \A i \in 1 .. Len(s) : t[i] = f[s[i]]
           /\ Range(t) = {f[x] : x \in Range(s)}
<1>1. DOMAIN s = 1 .. Len(s) /\ s \in [1 .. Len(s) -> A] /\ Len(s) \in Nat
      BY LenProperties
<1>2. t \in [1 .. Len(s) -> B]
      BY <1>1
<1>3. t \in Seq(B)
      BY <1>1, <1>2, MakesSeq
<1>4. DOMAIN t = 1 .. Len(s)
      BY <1>1
<1>5. Len(t) = Len(s)
      BY <1>1, <1>3, <1>4, LenProperties
<1>6. \A i \in 1 .. Len(s) : t[i] = f[s[i]]
      BY <1>1
<1>7. Range(t) = {t[i] : i \in 1 .. Len(s)} /\ Range(s) = {s[i] : i \in 1 .. Len(s)}
      BY <1>1, <1>4 DEF Range
<1>8. Range(t) = {f[x] : x \in Range(s)}
  <2>1. \A y \in Range(t) : \E x \in Range(s) : y = f[x]
        BY <1>6, <1>7
  <2>2. \A x \in Range(s) : f[x] \in Range(t)
        BY <1>6, <1>7
  <2> QED BY <2>1, <2>2
<1> QED BY <1>3, <1>4, <1>5, <1>6, <1>8

LEMMA CallIdsAre ==
    ASSUME NEW S, NEW m \in MessagesOf(S)
    PROVE  /\ CallIds(m) \in Seq(IdsOf(S))
           /\ Range(CallIds(m)) = {p.id : p \in WithId(m, "call")}
           /\ WithId(m, "call") \subseteq S /\ WithId(m, "result") \subseteq S
<1> DEFINE C == {q \in S : q.kind = "call"}
           T == WithId(m, "call")
           calls == Those(m.parts, T)
           f == [p \in C |-> p.id]
<1>1. m.parts \in Seq(S)
      BY DEF MessagesOf
<1>2. \A x \in Range(m.parts) : x \in S
      BY <1>1, RangeIn
<1>3. T \subseteq Range(m.parts) /\ T \subseteq C /\ WithId(m, "result") \subseteq S
      BY <1>2 DEF WithId, OfKind
<1> HIDE DEF T
<1>4. calls \in Seq(S) /\ Range(calls) = Range(m.parts) \cap T
      BY <1>1, ThoseAre
<1>5. Range(calls) = T
      BY <1>3, <1>4
<1>6. calls \in Seq(C)
  <2>1. Len(calls) \in Nat /\ DOMAIN calls = 1 .. Len(calls)
        BY <1>4, LenProperties
  <2>2. \A i \in 1 .. Len(calls) : calls[i] \in C
    <3> TAKE i \in 1 .. Len(calls)
    <3>1. calls[i] \in Range(calls)
          BY <1>4, <2>1, ElementIn
    <3> QED BY <1>3, <1>5, <3>1
  <2>3. calls \in [1 .. Len(calls) -> S]
        BY <1>4, LenProperties
  <2> HIDE DEF calls, C
  <2>4. calls \in [1 .. Len(calls) -> C]
        BY <2>1, <2>2, <2>3
  <2> QED BY <2>1, <2>4, MakesSeq
<1>7. CallIds(m) = [i \in DOMAIN calls |-> calls[i].id]
      BY DEF CallIds, T
<1> HIDE DEF calls
<1>8. \A i \in DOMAIN calls : f[calls[i]] = calls[i].id
      BY <1>6, ElementIn
<1>9. CallIds(m) = [i \in DOMAIN calls |-> f[calls[i]]]
      BY <1>7, <1>8
<1>10. f \in [C -> IdsOf(S)]
       BY DEF IdsOf
<1> DEFINE ids == CallIds(m)
<1> HIDE DEF f, ids, C
<1>11. ids \in Seq(IdsOf(S)) /\ Range(ids) = {f[x] : x \in Range(calls)}
       BY <1>6, <1>9, <1>10, MappedSeq DEF ids
<1>12. \A x \in T : f[x] = x.id
       BY <1>3 DEF f
<1>13. Range(ids) = {p.id : p \in T}
       BY <1>5, <1>11, <1>12
<1> QED BY <1>3, <1>11, <1>13 DEF T, C, ids

LEMMA OrphansAre ==
    ASSUME NEW S, NEW msgs \in Seq(MessagesOf(S)), NEW i
    PROVE  /\ Orphans(msgs, i) \in Seq(IdsOf(S))
           /\ i \notin DOMAIN msgs => Orphans(msgs, i) = <<>>
           /\ i \in DOMAIN msgs /\ msgs[i].role # "assistant" => Orphans(msgs, i) = <<>>
           /\ i \in DOMAIN msgs /\ msgs[i].role = "assistant" =>
                Range(Orphans(msgs, i)) =
                    Range(CallIds(msgs[i])) \ (IF Bucket(msgs, i + 1) THEN ResultIds(msgs[i + 1]) ELSE {})
<1>1. <<>> \in Seq(IdsOf(S))
      BY EmptySeq
<1>2. ASSUME i \in DOMAIN msgs, msgs[i].role = "assistant"
      PROVE  /\ Orphans(msgs, i) \in Seq(IdsOf(S))
             /\ Range(Orphans(msgs, i)) =
                    Range(CallIds(msgs[i])) \ (IF Bucket(msgs, i + 1) THEN ResultIds(msgs[i + 1]) ELSE {})
  <2> DEFINE ids == CallIds(msgs[i])
             answered == IF Bucket(msgs, i + 1) THEN ResultIds(msgs[i + 1]) ELSE {}
             T == Range(ids) \ answered
  <2>1. msgs[i] \in MessagesOf(S)
        BY <1>2, ElementIn
  <2>2. ids \in Seq(IdsOf(S))
        BY <2>1, CallIdsAre
  <2>3. Orphans(msgs, i) = Those(ids, T)
        BY <1>2 DEF Orphans
  <2> HIDE DEF ids, T
  <2>4. Those(ids, T) \in Seq(IdsOf(S)) /\ Range(Those(ids, T)) = Range(ids) \cap T
        BY <2>2, ThoseAre
  <2> QED BY <2>3, <2>4 DEF ids, T
<1>3. ASSUME i \notin DOMAIN msgs \/ msgs[i].role # "assistant"
      PROVE  Orphans(msgs, i) = <<>>
      BY <1>3 DEF Orphans
<1> QED BY <1>1, <1>2, <1>3

LEMMA SyntheticAre ==
    ASSUME NEW S, Closed(S), NEW ids \in Seq(IdsOf(S))
    PROVE  /\ Synthetic(ids) \in Seq(S) /\ Len(Synthetic(ids)) = Len(ids)
           /\ \A k \in 1 .. Len(ids) : Synthetic(ids)[k] = Result(ids[k], "text", Marker)
           /\ Range(Synthetic(ids)) = {Result(id, "text", Marker) : id \in Range(ids)}
<1> DEFINE f == [id \in IdsOf(S) |-> Result(id, "text", Marker)]
           t == Synthetic(ids)
<1>1. f \in [IdsOf(S) -> S]
      BY DEF Closed
<1>2. \A k \in DOMAIN ids : ids[k] \in IdsOf(S) /\ f[ids[k]] = Result(ids[k], "text", Marker)
  <2> TAKE k \in DOMAIN ids
  <2>1. ids[k] \in IdsOf(S)
        BY ElementIn
  <2> QED BY <2>1
<1>3. t = [k \in DOMAIN ids |-> f[ids[k]]]
      BY <1>2 DEF Synthetic
<1>4. DOMAIN ids = 1 .. Len(ids)
      BY LenProperties
<1>5. \A id \in Range(ids) : f[id] = Result(id, "text", Marker)
      BY RangeIn
<1> DEFINE B == IdsOf(S)
<1> HIDE DEF f, t, B
<1>6. /\ t \in Seq(S) /\ Len(t) = Len(ids) /\ \A i \in 1 .. Len(ids) : t[i] = f[ids[i]]
      /\ Range(t) = {f[x] : x \in Range(ids)}
  <2>1. ids \in Seq(B) /\ f \in [B -> S]
        BY <1>1 DEF B
  <2>2. t \in Seq(S) /\ Range(t) = {f[x] : x \in Range(ids)}
        BY <1>3, <2>1, MappedSeq
  <2>3. Len(t) = Len(ids)
        BY <1>3, <2>1, MappedSeq
  <2>4. \A i \in 1 .. Len(ids) : t[i] = f[ids[i]]
        BY <1>3, <2>1, MappedSeq
  <2> QED BY <2>2, <2>3, <2>4
<1> QED BY <1>2, <1>4, <1>5, <1>6 DEF t

LEMMA MessageIs ==
    ASSUME NEW S, NEW role \in {"user", "assistant", "tool"}, NEW parts \in Seq(S)
    PROVE  /\ Msg(role, parts) \in MessagesOf(S)
           /\ Msg(role, parts).role = role /\ Msg(role, parts).parts = parts
BY DEF Msg, MessagesOf

LEMMA ExtendedIs ==
    ASSUME NEW S, Closed(S), NEW msgs \in Seq(MessagesOf(S)), NEW i \in DOMAIN msgs
    PROVE  /\ Extended(msgs, i) \in MessagesOf(S)
           /\ Extended(msgs, i).role = msgs[i].role
           /\ Extended(msgs, i).parts =
                msgs[i].parts \o (IF Bucket(msgs, i) THEN Synthetic(Orphans(msgs, i - 1)) ELSE <<>>)
           /\ Orphans(msgs, i - 1) = <<>> \/ ~Bucket(msgs, i) => Extended(msgs, i) = msgs[i]
<1> DEFINE m == msgs[i]
           ids == Orphans(msgs, i - 1)
           new == Synthetic(ids)
<1>1. m \in MessagesOf(S) /\ m = [role |-> m.role, parts |-> m.parts]
  <2>1. m \in MessagesOf(S)
        BY ElementIn
  <2> HIDE DEF m
  <2> QED BY <2>1 DEF MessagesOf
<1>2. m.parts \in Seq(S) /\ m.role \in {"user", "assistant", "tool"}
      BY <1>1 DEF MessagesOf
<1>3. ids \in Seq(IdsOf(S))
      BY OrphansAre
<1>4. new \in Seq(S) /\ m.parts \o new \in Seq(S)
      BY <1>2, <1>3, SyntheticAre, ConcatProperties
<1>5. Extended(msgs, i) = IF Bucket(msgs, i) THEN [m EXCEPT !.parts = @ \o new] ELSE m
      BY DEF Extended
<1>6. ids = <<>> => new = <<>>
  <2>1. ASSUME ids = <<>> PROVE new = <<>>
    <3>1. Len(new) = 0
          BY <1>3, <2>1, SyntheticAre, EmptySeq
    <3> QED BY <1>4, <3>1, EmptySeq
  <2> QED BY <2>1
<1> HIDE DEF m, ids, new
<1>7. [m EXCEPT !.parts = @ \o new] = [role |-> m.role, parts |-> m.parts \o new]
  <2> DEFINE ps == m.parts \o new
  <2> HIDE DEF ps
  <2>1. [m EXCEPT !.parts = ps] = [role |-> m.role, parts |-> ps]
        BY <1>1
  <2> QED BY <2>1 DEF ps
<1>8. m.parts \o <<>> = m.parts
      BY <1>2, ConcatEmptySeq
<1>9. [role |-> m.role, parts |-> m.parts \o new] \in MessagesOf(S)
      BY <1>2, <1>4 DEF MessagesOf
<1>10. CASE Bucket(msgs, i)
  <2>1. Extended(msgs, i) = [role |-> m.role, parts |-> m.parts \o new]
        BY <1>5, <1>7, <1>10
  <2>2. new = <<>> => Extended(msgs, i) = m
        BY <1>1, <1>8, <2>1
  <2>3. Extended(msgs, i).role = m.role /\ Extended(msgs, i).parts = m.parts \o new
        BY <2>1
  <2> QED BY <1>6, <1>9, <1>10, <2>1, <2>2, <2>3 DEF m, ids, new
<1>11. CASE ~Bucket(msgs, i)
       BY <1>1, <1>5, <1>8, <1>11 DEF m, ids, new
<1> QED BY <1>10, <1>11

LEMMA OneAndOne ==
    ASSUME NEW A, NEW x \in A
    PROVE  <<x>> \o <<>> = <<x>> /\ \A y \in A : <<x>> \o <<y>> = <<x, y>>
<1>1. <<x>> \in Seq(A) /\ Len(<<x>>) = 1
      OBVIOUS
<1>2. ASSUME NEW y \in A PROVE <<x>> \o <<y>> = <<x, y>>
  <2>1. <<y>> \in Seq(A) /\ Len(<<y>>) = 1 /\ <<x, y>> \in Seq(A) /\ Len(<<x, y>>) = 2
        OBVIOUS
  <2> DEFINE s == <<x>>
             t == <<y>>
             u == <<x, y>>
  <2>2. s[1] = x /\ t[1] = y /\ u[1] = x /\ u[2] = y
        OBVIOUS
  <2> HIDE DEF s, t, u
  <2>3. s \in Seq(A) /\ t \in Seq(A) /\ u \in Seq(A) /\ Len(s) = 1 /\ Len(t) = 1 /\ Len(u) = 2
        BY <1>1, <2>1 DEF s, t, u
  <2>4. s \o t \in Seq(A) /\ Len(s \o t) = 2 /\ (s \o t)[1] = s[1] /\ (s \o t)[1 + 1] = t[1]
    <3>1. s \o t \in Seq(A)
          BY <2>3, ConcatProperties
    <3>2. Len(s \o t) = Len(s) + Len(t)
          BY <2>3, OnePiece
    <3>3. \A i \in 1 .. Len(s) : (s \o t)[i] = s[i]
          BY <2>3, OnePiece
    <3>4. \A i \in 1 .. Len(t) : (s \o t)[Len(s) + i] = t[i]
          BY <2>3, OnePiece
    <3> QED BY <2>3, <3>1, <3>2, <3>3, <3>4
  <2>5. \A i \in 1 .. 2 : (s \o t)[i] = u[i]
    <3> TAKE i \in 1 .. 2
    <3>1. i = 1 \/ i = 1 + 1
          OBVIOUS
    <3> QED BY <2>2, <2>4, <3>1
  <2>6. s \o t = u
        BY <2>3, <2>4, <2>5, SeqEqual
  <2> QED BY <2>6 DEF s, t, u
<1> QED BY <1>1, <1>2, ConcatEmptySeq

LEMMA EmitIs ==
    ASSUME NEW S, Closed(S), NEW msgs \in Seq(MessagesOf(S)), NEW i \in DOMAIN msgs
    PROVE  /\ Emit(msgs, i) \in Seq(MessagesOf(S))
           /\ Len(Emit(msgs, i)) = IF Spliced(msgs, i) THEN 2 ELSE 1
           /\ Emit(msgs, i)[1] = Extended(msgs, i)
           /\ Spliced(msgs, i) =>
                /\ Emit(msgs, i)[2] = Msg("tool", Synthetic(Orphans(msgs, i)))
                /\ Msg("tool", Synthetic(Orphans(msgs, i))) \in MessagesOf(S)
                /\ msgs[i].role = "assistant"
<1> DEFINE x == Extended(msgs, i)
           y == Msg("tool", Synthetic(Orphans(msgs, i)))
<1>1. x \in MessagesOf(S)
      BY ExtendedIs
<1>2. y \in MessagesOf(S)
      BY OrphansAre, SyntheticAre, MessageIs
<1>3. Emit(msgs, i) = <<x>> \o (IF Spliced(msgs, i) THEN <<y>> ELSE <<>>)
      BY DEF Emit, Extended, Spliced
<1>4. Spliced(msgs, i) => msgs[i].role = "assistant"
      BY OrphansAre DEF Spliced
<1> HIDE DEF x, y
<1>5. /\ Spliced(msgs, i) => <<x>> \o <<y>> = <<x, y>>
      /\ <<x>> \o <<>> = <<x>>
      BY <1>1, <1>2, OneAndOne
<1>6. /\ <<x, y>> \in Seq(MessagesOf(S)) /\ Len(<<x, y>>) = 2 /\ <<x, y>>[1] = x /\ <<x, y>>[2] = y
      /\ <<x>> \in Seq(MessagesOf(S)) /\ Len(<<x>>) = 1 /\ <<x>>[1] = x
      BY <1>1, <1>2
<1>7. CASE Spliced(msgs, i)
      BY <1>2, <1>3, <1>4, <1>5, <1>6, <1>7 DEF x, y
<1>8. CASE ~Spliced(msgs, i)
      BY <1>3, <1>5, <1>6, <1>8 DEF x, y
<1> QED BY <1>7, <1>8

\* Where each message is once the repair is through.
Repairs(at, out, msgs) ==
    /\ at \in [0 .. Len(msgs) -> Nat] /\ at[0] = 0
    /\ \A i \in 1 .. Len(msgs) :
        /\ at[i] = at[i - 1] + (IF Spliced(msgs, i) THEN 2 ELSE 1)
        /\ out[at[i - 1] + 1] = Extended(msgs, i)
        /\ Spliced(msgs, i) => out[at[i - 1] + 2] = Msg("tool", Synthetic(Orphans(msgs, i)))
    /\ Len(out) = at[Len(msgs)]
    /\ \A j \in 1 .. Len(out) : \E i \in 1 .. Len(msgs) : at[i - 1] < j /\ j <= at[i]

LEMMA SanitizePlaces ==
    ASSUME NEW S, Closed(S), NEW msgs \in Seq(MessagesOf(S))
    PROVE  Sanitize(msgs) \in Seq(MessagesOf(S)) /\ \E at : Repairs(at, Sanitize(msgs), msgs)
<1> DEFINE s == [i \in DOMAIN msgs |-> Emit(msgs, i)]
           out == Sanitize(msgs)
           M == MessagesOf(S)
<1>1. DOMAIN msgs = 1 .. Len(msgs) /\ Len(msgs) \in Nat
      BY LenProperties
<1>2. s \in [1 .. Len(msgs) -> Seq(M)]
      BY <1>1, EmitIs
<1>3. s \in Seq(Seq(M)) /\ Len(s) = Len(msgs) /\ \A i \in 1 .. Len(msgs) : s[i] = Emit(msgs, i)
  <2>1. s \in Seq(Seq(M))
    <3> HIDE DEF s, M
    <3> QED BY <1>1, <1>2, MakesSeq
  <2>2. DOMAIN s = 1 .. Len(msgs)
        BY <1>1
  <2>3. Len(s) = Len(msgs)
    <3> HIDE DEF s, M
    <3> QED BY <1>1, <2>1, <2>2, LenProperties
  <2>4. \A i \in 1 .. Len(msgs) : s[i] = Emit(msgs, i)
        BY <1>1
  <2> QED BY <2>1, <2>3, <2>4
<1>4. out = FlattenSeq(s)
      BY DEF Sanitize
<1> HIDE DEF s, out, M
<1>5. out \in Seq(M) /\ \E at : Places(at, s)
      BY <1>3, <1>4, FlattenPlaces
<1>6. PICK at : Places(at, s)
      BY <1>5
<1>7. ASSUME NEW i \in 1 .. Len(msgs)
      PROVE  /\ at[i] = at[i - 1] + (IF Spliced(msgs, i) THEN 2 ELSE 1)
             /\ out[at[i - 1] + 1] = Extended(msgs, i)
             /\ Spliced(msgs, i) => out[at[i - 1] + 2] = Msg("tool", Synthetic(Orphans(msgs, i)))
  <2>1. /\ Len(s[i]) = IF Spliced(msgs, i) THEN 2 ELSE 1
        /\ s[i][1] = Extended(msgs, i)
        /\ Spliced(msgs, i) => s[i][2] = Msg("tool", Synthetic(Orphans(msgs, i)))
    <3>1. i \in DOMAIN msgs /\ s[i] = Emit(msgs, i)
          BY <1>1, <1>3
    <3> QED BY <3>1, EmitIs
  <2>2. at[i] = at[i - 1] + Len(s[i])
        BY <1>3, <1>6 DEF Places
  <2>3. \A k \in 1 .. Len(s[i]) : out[at[i - 1] + k] = s[i][k]
        BY <1>3, <1>4, <1>6 DEF Places
  <2>4. 1 \in 1 .. Len(s[i]) /\ (Spliced(msgs, i) => 2 \in 1 .. Len(s[i]))
        BY <2>1
  <2> QED BY <2>1, <2>2, <2>3, <2>4
<1>8. Repairs(at, out, msgs)
      BY <1>3, <1>4, <1>6, <1>7 DEF Places, Repairs
<1> QED BY <1>5, <1>8 DEF out, M

LEMMA RepairsRise ==
    ASSUME NEW S, NEW msgs \in Seq(S), NEW at, NEW out, Repairs(at, out, msgs), NEW i \in 0 .. Len(msgs)
    PROVE  \A k \in i .. Len(msgs) : at[i] <= at[k]
<1> DEFINE P == {k \in 0 .. Len(msgs) : k >= i => at[i] <= at[k]}
<1>1. Len(msgs) \in Nat /\ \A k \in 0 .. Len(msgs) : at[k] \in Nat
      BY LenProperties DEF Repairs
<1>2. 0 \in P
  <2>1. 0 \in 0 .. Len(msgs) /\ (0 >= i => i = 0) /\ at[i] <= at[i]
        BY <1>1
  <2> QED BY <2>1
<1>3. ASSUME NEW k \in 0 .. Len(msgs), k < Len(msgs), k \in P PROVE k + 1 \in P
  <2>1. k + 1 \in 1 .. Len(msgs) /\ (k + 1) - 1 = k /\ k + 1 \in 0 .. Len(msgs)
        BY <1>1, <1>3
  <2>2. at[k + 1] = at[k] + (IF Spliced(msgs, k + 1) THEN 2 ELSE 1)
        BY <2>1 DEF Repairs
  <2>3. at[k] <= at[k + 1] /\ at[k] \in Nat /\ at[k + 1] \in Nat /\ at[i] \in Nat
        BY <1>1, <2>1, <2>2
  <2>4. CASE k + 1 = i
        BY <2>1, <2>3, <2>4
  <2>5. CASE k + 1 # i
    <3>1. k + 1 >= i => k >= i
          BY <2>1, <2>5
    <3> QED BY <1>3, <2>1, <2>3, <3>1
  <2> QED BY <2>4, <2>5
<1> HIDE DEF P
<1>4. \A k \in 0 .. Len(msgs) : k \in P
      BY <1>1, <1>2, <1>3, UpTo
<1> QED BY <1>1, <1>4 DEF P

\* A message behind the repair is one that was there, or one of the repair's own.
LEMMA RepairedIs ==
    ASSUME NEW S, Closed(S), NEW msgs \in Seq(MessagesOf(S)), NEW at, NEW out, Repairs(at, out, msgs),
           NEW j \in 1 .. Len(out)
    PROVE  \E i \in 1 .. Len(msgs) :
              \/ j = at[i - 1] + 1 /\ out[j] = Extended(msgs, i)
              \/ /\ Spliced(msgs, i) /\ j = at[i - 1] + 2 /\ j = at[i]
                 /\ out[j] = Msg("tool", Synthetic(Orphans(msgs, i)))
<1>1. PICK i \in 1 .. Len(msgs) : at[i - 1] < j /\ j <= at[i]
      BY DEF Repairs
<1>2. at[i] = at[i - 1] + (IF Spliced(msgs, i) THEN 2 ELSE 1)
      BY DEF Repairs
<1>3. at[i - 1] \in Nat /\ j \in Nat
  <2>1. i - 1 \in 0 .. Len(msgs)
        BY LenProperties
  <2>2. Len(out) \in Nat
    <3>1. Len(msgs) \in 0 .. Len(msgs)
          BY LenProperties
    <3> QED BY <3>1 DEF Repairs
  <2> QED BY <2>1, <2>2 DEF Repairs
<1>4. j = at[i - 1] + 1 \/ (Spliced(msgs, i) /\ j = at[i - 1] + 2 /\ j = at[i])
      BY <1>1, <1>2, <1>3
<1> QED BY <1>4 DEF Repairs

LEMMA CallHasId ==
    ASSUME NEW S, NEW m \in MessagesOf(S), NEW id \in Range(CallIds(m))
    PROVE  id # NoId
BY CallIdsAre DEF WithId

LEMMA SyntheticAnswers ==
    ASSUME NEW S, Closed(S), NEW ids \in Seq(IdsOf(S)), NEW id \in Range(ids), id # NoId, NEW m,
           Range(Synthetic(ids)) \subseteq Range(m.parts)
    PROVE  id \in ResultIds(m)
<1>1. Result(id, "text", Marker) \in Range(m.parts)
      BY SyntheticAre
<1>2. Result(id, "text", Marker).kind = "result" /\ Result(id, "text", Marker).id = id
      BY DEF Result
<1> QED BY <1>1, <1>2 DEF ResultIds, WithId, OfKind

\* After the repair every call is answered in the next message, whatever the history was.
LEMMA SanitizePairs ==
    ASSUME NEW S, Closed(S), NEW msgs \in Seq(MessagesOf(S))
    PROVE  Paired(Sanitize(msgs))
<1> DEFINE out == Sanitize(msgs)
           M == MessagesOf(S)
           n == Len(msgs)
<1>1. out \in Seq(M)
      BY SanitizePlaces
<1>2. PICK at : Repairs(at, out, msgs)
      BY SanitizePlaces
<1>3. DOMAIN out = 1 .. Len(out) /\ DOMAIN msgs = 1 .. n /\ n \in Nat
      BY <1>1, LenProperties
<1> HIDE DEF out, n
<1> SUFFICES ASSUME NEW j \in 1 .. Len(out), out[j].role = "assistant", NEW id \in Range(CallIds(out[j]))
             PROVE  j < Len(out) /\ id \in ResultIds(out[j + 1])
    BY <1>3 DEF Paired, out
<1>4. PICK i \in 1 .. n :
              \/ j = at[i - 1] + 1 /\ out[j] = Extended(msgs, i)
              \/ /\ Spliced(msgs, i) /\ j = at[i - 1] + 2 /\ j = at[i]
                 /\ out[j] = Msg("tool", Synthetic(Orphans(msgs, i)))
      BY <1>2, RepairedIs DEF n
<1>5. j = at[i - 1] + 1 /\ out[j] = Extended(msgs, i)
      BY <1>4 DEF Msg
<1>6. i \in DOMAIN msgs /\ msgs[i] \in M
      BY <1>3, ElementIn
<1>7. msgs[i].role = "assistant"
      BY <1>5, <1>6, ExtendedIs
<1>8. ~Bucket(msgs, i)
      BY <1>7 DEF Bucket
<1>9. out[j] = msgs[i]
      BY <1>5, <1>8 DEF Extended
<1>10. id \in Range(CallIds(msgs[i])) /\ id # NoId
       BY <1>6, <1>9, CallHasId
<1>11. /\ at[i - 1] \in Nat /\ at[i] = at[i - 1] + (IF Spliced(msgs, i) THEN 2 ELSE 1)
       /\ at[i] <= Len(out) /\ Len(out) \in Nat
  <2>1. i - 1 \in 0 .. n /\ i \in 0 .. n /\ n \in i .. n /\ n \in 0 .. n
        BY <1>3
  <2>2. at[i] <= at[n]
        BY <1>2, <2>1, RepairsRise DEF n
  <2> QED BY <1>2, <2>1, <2>2 DEF Repairs, n
<1>12. ASSUME Spliced(msgs, i) PROVE j < Len(out) /\ id \in ResultIds(out[j + 1])
  <2>1. j + 1 = at[i - 1] + 2 /\ j < Len(out)
        BY <1>5, <1>11, <1>12
  <2>2. out[j + 1] = Msg("tool", Synthetic(Orphans(msgs, i)))
        BY <1>2, <1>12, <2>1 DEF Repairs, n
  <2>3. out[j + 1].parts = Synthetic(Orphans(msgs, i))
        BY <2>2 DEF Msg
  <2>4. Orphans(msgs, i) \in Seq(IdsOf(S)) /\ id \in Range(Orphans(msgs, i))
        BY <1>6, <1>7, <1>10, <1>12, OrphansAre DEF Spliced
  <2> QED BY <1>10, <2>1, <2>3, <2>4, SyntheticAnswers
<1>13. ASSUME Bucket(msgs, i + 1) PROVE j < Len(out) /\ id \in ResultIds(out[j + 1])
  <2>1. i + 1 \in DOMAIN msgs /\ i + 1 \in 1 .. n /\ (i + 1) - 1 = i /\ ~Spliced(msgs, i)
        BY <1>3, <1>13 DEF Bucket, Spliced
  <2>2. at[i] = j
        BY <1>5, <1>11, <2>1
  <2>3. out[j + 1] = Extended(msgs, i + 1)
    <3>1. out[at[(i + 1) - 1] + 1] = Extended(msgs, i + 1)
          BY <1>2, <2>1 DEF Repairs, n
    <3> QED BY <2>1, <2>2, <3>1
  <2>4. j < Len(out)
    <3>1. i + 1 \in 0 .. n /\ n \in i + 1 .. n /\ n \in 0 .. n
          BY <1>3, <2>1
    <3>2. at[i + 1] <= at[n]
          BY <1>2, <3>1, RepairsRise DEF n
    <3>3. at[i + 1] = at[(i + 1) - 1] + (IF Spliced(msgs, i + 1) THEN 2 ELSE 1)
          BY <1>2, <2>1 DEF Repairs, n
    <3>4. at[i + 1] \in Nat /\ at[n] \in Nat /\ Len(out) = at[n]
          BY <1>2, <3>1 DEF Repairs, n
    <3> QED BY <1>11, <2>1, <2>2, <3>2, <3>3, <3>4
  <2> DEFINE old == msgs[i + 1].parts
             new == Synthetic(Orphans(msgs, i))
  <2>5. out[j + 1].parts = old \o new
    <3>1. Extended(msgs, i + 1).parts =
            msgs[i + 1].parts \o (IF Bucket(msgs, i + 1) THEN Synthetic(Orphans(msgs, (i + 1) - 1)) ELSE <<>>)
          BY <2>1, ExtendedIs
    <3> QED BY <1>13, <2>1, <2>3, <3>1
  <2>6. Range(old) \subseteq Range(out[j + 1].parts) /\ Range(new) \subseteq Range(out[j + 1].parts)
    <3>1. old \in Seq(S)
      <4>1. msgs[i + 1] \in M
            BY <2>1, ElementIn
      <4> QED BY <4>1 DEF MessagesOf
    <3>2. new \in Seq(S)
          BY OrphansAre, SyntheticAre
    <3> HIDE DEF old, new
    <3> QED BY <2>5, <3>1, <3>2, RangeConcatenation
  <2>7. CASE id \in Range(Orphans(msgs, i))
    <3>1. Orphans(msgs, i) \in Seq(IdsOf(S))
          BY OrphansAre
    <3> QED BY <1>10, <2>4, <2>6, <2>7, <3>1, SyntheticAnswers
  <2>8. CASE id \notin Range(Orphans(msgs, i))
    <3>1. id \in ResultIds(msgs[i + 1])
          BY <1>6, <1>7, <1>10, <1>13, <2>8, OrphansAre
    <3>2. PICK p \in Range(old) : p.kind = "result" /\ p.id = id
          BY <3>1 DEF ResultIds, WithId, OfKind
    <3>3. p \in Range(out[j + 1].parts)
          BY <2>6, <3>2
    <3>4. id \in ResultIds(out[j + 1])
          BY <1>10, <3>2, <3>3 DEF ResultIds, WithId, OfKind
    <3> QED BY <2>4, <3>4
  <2> QED BY <2>7, <2>8
<1>14. Spliced(msgs, i) \/ Bucket(msgs, i + 1)
  <2> SUFFICES ASSUME ~Bucket(msgs, i + 1) PROVE Orphans(msgs, i) # <<>>
      BY DEF Spliced
  <2>1. id \in Range(Orphans(msgs, i))
        BY <1>6, <1>7, <1>10, OrphansAre
  <2>2. Range(<<>>) = {}
        BY DEF Range
  <2> QED BY <2>1, <2>2
<1> QED BY <1>12, <1>13, <1>14

\* A second repair finds nothing to do.
LEMMA SanitizeTwice ==
    ASSUME NEW S, Closed(S), NEW msgs \in Seq(MessagesOf(S)),
           \A i \in DOMAIN msgs : msgs[i].role = "assistant" => ResultIds(msgs[i]) = {}
    PROVE  Sanitize(Sanitize(msgs)) = Sanitize(msgs)
<1> DEFINE out == Sanitize(msgs)
           M == MessagesOf(S)
<1>1. out \in Seq(M) /\ Paired(out)
      BY SanitizePlaces, SanitizePairs
<1>2. PICK at : Repairs(at, out, msgs)
      BY SanitizePlaces
<1>3. /\ DOMAIN out = 1 .. Len(out) /\ Len(out) \in Nat
      /\ DOMAIN msgs = 1 .. Len(msgs) /\ Len(msgs) \in Nat
      BY <1>1, LenProperties
<1> HIDE DEF out
<1>4. ASSUME NEW j \in 1 .. Len(out), out[j].role = "assistant" PROVE ResultIds(out[j]) = {}
  <2>1. PICK i \in 1 .. Len(msgs) : out[j] = Extended(msgs, i)
    <3>1. \A i \in 1 .. Len(msgs) : Msg("tool", Synthetic(Orphans(msgs, i))).role # "assistant"
          BY DEF Msg
    <3> QED BY <1>2, <1>4, <3>1, RepairedIs
  <2>2. i \in DOMAIN msgs /\ msgs[i].role = "assistant"
        BY <1>3, <1>4, <2>1, ExtendedIs
  <2>3. ~Bucket(msgs, i)
        BY <2>2 DEF Bucket
  <2>4. out[j] = msgs[i]
        BY <2>1, <2>3 DEF Extended
  <2> QED BY <2>2, <2>4
<1>5. ASSUME NEW j \in 1 .. Len(out) PROVE Orphans(out, j) = <<>>
  <2>1. CASE out[j].role # "assistant"
        BY <1>1, <1>3, <2>1, OrphansAre
  <2>2. CASE out[j].role = "assistant"
    <3>1. /\ Orphans(out, j) \in Seq(IdsOf(S))
          /\ Range(Orphans(out, j)) =
                Range(CallIds(out[j])) \ (IF Bucket(out, j + 1) THEN ResultIds(out[j + 1]) ELSE {})
          BY <1>1, <1>3, <2>2, OrphansAre
    <3>2. ASSUME NEW id \in Range(CallIds(out[j])) PROVE Bucket(out, j + 1) /\ id \in ResultIds(out[j + 1])
      <4>1. j < Len(out) /\ id \in ResultIds(out[j + 1])
            BY <1>1, <1>3, <2>2, <3>2 DEF Paired
      <4>2. j + 1 \in 1 .. Len(out) /\ j + 1 \in DOMAIN out
            BY <1>3, <4>1
      <4>3. out[j + 1].role # "assistant"
            BY <1>4, <4>1, <4>2
      <4>4. out[j + 1].role \in {"user", "assistant", "tool"}
        <5>1. out[j + 1] \in M
              BY <1>1, <4>2, ElementIn
        <5> QED BY <5>1 DEF MessagesOf
      <4>5. out[j + 1].role \in {"tool", "user"}
            BY <4>3, <4>4
      <4> QED BY <4>1, <4>2, <4>5 DEF Bucket
    <3>3. Range(Orphans(out, j)) = {}
          BY <3>1, <3>2
    <3>4. Len(Orphans(out, j)) = 0
      <4> SUFFICES ASSUME Len(Orphans(out, j)) # 0 PROVE FALSE
          OBVIOUS
      <4>1. 1 \in DOMAIN Orphans(out, j)
            BY <3>1, LenProperties
      <4>2. Orphans(out, j)[1] \in Range(Orphans(out, j))
            BY <3>1, <4>1, ElementIn
      <4> QED BY <3>3, <4>2
    <3> QED BY <3>1, <3>4, EmptySeq
  <2> QED BY <2>1, <2>2
<1>6. \A j \in 1 .. Len(out) : ~Spliced(out, j) /\ Extended(out, j) = out[j]
  <2> TAKE j \in 1 .. Len(out)
  <2>1. Orphans(out, j) = <<>>
        BY <1>5
  <2>2. Orphans(out, j - 1) = <<>>
    <3>1. CASE j = 1
      <4>1. j - 1 \notin DOMAIN out
            BY <1>3, <3>1
      <4> QED BY <1>1, <4>1, OrphansAre
    <3>2. CASE j # 1
      <4>1. j - 1 \in 1 .. Len(out)
            BY <1>3, <3>2
      <4> QED BY <1>5, <4>1
    <3> QED BY <3>1, <3>2
  <2>3. Extended(out, j) = out[j]
        BY <1>1, <1>3, <2>2, ExtendedIs
  <2> QED BY <2>1, <2>3 DEF Spliced
<1>7. PICK to : Repairs(to, Sanitize(out), out)
      BY <1>1, SanitizePlaces
<1> DEFINE again == Sanitize(out)
           P == {k \in 0 .. Len(out) : to[k] = k}
<1> HIDE DEF again
<1>8. again \in Seq(M)
      BY <1>1, SanitizePlaces DEF again
<1>9. \A k \in 0 .. Len(out) : k \in P
  <2>1. 0 \in P
        BY <1>3, <1>7 DEF Repairs
  <2>2. ASSUME NEW k \in 0 .. Len(out), k < Len(out), k \in P PROVE k + 1 \in P
    <3>1. k + 1 \in 1 .. Len(out) /\ (k + 1) - 1 = k /\ k + 1 \in 0 .. Len(out)
          BY <1>3, <2>2
    <3>2. to[k + 1] = to[(k + 1) - 1] + (IF Spliced(out, k + 1) THEN 2 ELSE 1)
          BY <1>7, <3>1 DEF Repairs
    <3>3. ~Spliced(out, k + 1)
          BY <1>6, <3>1
    <3> QED BY <2>2, <3>1, <3>2, <3>3
  <2> HIDE DEF P
  <2> QED BY <1>3, <2>1, <2>2, UpTo
<1>10. Len(again) = Len(out)
  <2>1. Len(out) \in 0 .. Len(out)
        BY <1>3
  <2> QED BY <1>7, <1>9, <2>1 DEF Repairs, again
<1>11. \A j \in 1 .. Len(out) : again[j] = out[j]
  <2> TAKE j \in 1 .. Len(out)
  <2>1. j - 1 \in 0 .. Len(out) /\ (j - 1) + 1 = j
        BY <1>3
  <2>2. again[to[j - 1] + 1] = Extended(out, j)
        BY <1>7 DEF Repairs, again
  <2> QED BY <1>6, <1>9, <2>1, <2>2
<1>12. again = out
       BY <1>1, <1>8, <1>10, <1>11, SeqEqual
<1> QED BY <1>12 DEF again, out

LEMMA ResultIsRepaired == \A id : Repaired(Result(id, "text", Marker))
BY DEF Repaired, Result

\* Without what the repair added a message is as it was; what it put in is nothing else.
LEMMA ExtendedAsItWas ==
    ASSUME NEW S, Closed(S), NEW msgs \in Seq(MessagesOf(S)), NEW i \in DOMAIN msgs,
           \A p \in Range(msgs[i].parts) : ~Repaired(p)
    PROVE  AsItWas(Extended(msgs, i)) = msgs[i] /\ ~Added(Extended(msgs, i))
<1> DEFINE m == msgs[i]
           ids == IF Bucket(msgs, i) THEN Orphans(msgs, i - 1) ELSE <<>>
           old == m.parts
           new == Synthetic(ids)
           x == Extended(msgs, i)
           all == old \o new
           T == {p \in Range(all) : ~Repaired(p)}
<1>1. m \in MessagesOf(S)
      BY ElementIn
<1>2. old \in Seq(S) /\ m = [role |-> m.role, parts |-> old]
  <2> HIDE DEF m
  <2> QED BY <1>1 DEF MessagesOf
<1>3. ids \in Seq(IdsOf(S))
      BY OrphansAre, EmptySeq
<1>4. new \in Seq(S) /\ \A k \in 1 .. Len(new) : Repaired(new[k])
  <2> HIDE DEF ids
  <2>1. new \in Seq(S)
        BY <1>3, SyntheticAre
  <2>2. Len(new) = Len(ids)
        BY <1>3, SyntheticAre
  <2>3. \A k \in 1 .. Len(ids) : new[k] = Result(ids[k], "text", Marker)
        BY <1>3, SyntheticAre
  <2> HIDE DEF new
  <2>4. \A k \in 1 .. Len(new) : Repaired(new[k])
    <3> TAKE k \in 1 .. Len(new)
    <3>1. new[k] = Result(ids[k], "text", Marker)
          BY <2>2, <2>3
    <3>2. Repaired(Result(ids[k], "text", Marker))
          BY ResultIsRepaired
    <3> QED BY <3>1, <3>2
  <2> QED BY <2>1, <2>4
<1>5. x.role = m.role /\ x.parts = all /\ x = [role |-> x.role, parts |-> x.parts]
  <2>1. x.role = m.role /\ x \in MessagesOf(S)
        BY ExtendedIs
  <2>2. Synthetic(<<>>) = <<>>
    <3>1. <<>> \in Seq(IdsOf(S)) /\ Len(<<>>) = 0
          BY EmptySeq
    <3>2. Synthetic(<<>>) \in Seq(S) /\ Len(Synthetic(<<>>)) = 0
          BY <3>1, SyntheticAre
    <3> QED BY <3>2, EmptySeq
  <2>3. x.parts = m.parts \o (IF Bucket(msgs, i) THEN Synthetic(Orphans(msgs, i - 1)) ELSE <<>>)
        BY ExtendedIs
  <2>4. x.parts = all
        BY <2>2, <2>3
  <2> HIDE DEF x, all
  <2> QED BY <2>1, <2>4 DEF MessagesOf
<1> HIDE DEF m, ids, new, x
<1>6. all \in Seq(S)
      BY <1>2, <1>4, ConcatProperties
<1>7. \A k \in 1 .. Len(old) : old[k] \in T
  <2> TAKE k \in 1 .. Len(old)
  <2>1. k \in DOMAIN old
        BY <1>2, LenProperties
  <2>2. old[k] \in Range(old)
        BY <1>2, <2>1, ElementIn
  <2>3. ~Repaired(old[k])
        BY <2>2 DEF m
  <2>4. Range(old) \subseteq Range(all)
        BY <1>2, <1>4, RangeConcatenation
  <2> QED BY <2>2, <2>3, <2>4
<1>8. \A k \in 1 .. Len(new) : new[k] \notin T
      BY <1>4
<1> HIDE DEF T, old
<1>9. Those(all, T) = old
      BY <1>2, <1>4, <1>7, <1>8, ThoseOfTwo
<1> HIDE DEF all
<1>10. AsItWas(x) = [role |-> m.role, parts |-> old]
  <2>1. AsItWas(x) = [x EXCEPT !.parts = Those(all, T)]
        BY <1>5 DEF AsItWas, T
  <2>2. [x EXCEPT !.parts = old] = [role |-> m.role, parts |-> old]
        BY <1>5
  <2> QED BY <1>9, <2>1, <2>2
<1>11. ~Added(x)
  <2> SUFFICES ASSUME old = <<>>, all # <<>> PROVE FALSE
    <3>1. AsItWas(x).parts = old
          BY <1>10
    <3> QED BY <1>5, <3>1 DEF Added
  <2>1. CASE Bucket(msgs, i)
    <3>1. ResultIds(m) # {}
          BY <2>1 DEF Bucket, m
    <3>2. Range(m.parts) = {}
          BY DEF Range, old
    <3> QED BY <3>1, <3>2 DEF ResultIds, WithId, OfKind
  <2>2. CASE ~Bucket(msgs, i)
    <3>1. ids = <<>>
          BY <2>2 DEF ids
    <3>2. Len(new) = 0
          BY <1>3, <3>1, SyntheticAre, EmptySeq DEF new
    <3>3. new = <<>>
          BY <1>4, <3>2, EmptySeq
    <3>4. all = <<>>
          BY <1>2, <3>3, ConcatEmptySeq DEF all
    <3> QED BY <3>4
  <2> QED BY <2>1, <2>2
<1> QED BY <1>2, <1>10, <1>11 DEF m, x

LEMMA SplicedIsAdded ==
    ASSUME NEW S, Closed(S), NEW ids \in Seq(IdsOf(S)), ids # <<>>
    PROVE  Added(Msg("tool", Synthetic(ids)))
<1> DEFINE new == Synthetic(ids)
           m == Msg("tool", new)
           T == {p \in Range(new) : ~Repaired(p)}
<1>1. new \in Seq(S) /\ Len(new) = Len(ids)
      BY SyntheticAre
<1>2. \A k \in 1 .. Len(ids) : new[k] = Result(ids[k], "text", Marker)
      BY SyntheticAre
<1> HIDE DEF new
<1>3. \A k \in 1 .. Len(new) : new[k] \notin T
  <2> TAKE k \in 1 .. Len(new)
  <2>1. new[k] = Result(ids[k], "text", Marker)
        BY <1>1, <1>2
  <2>2. Repaired(Result(ids[k], "text", Marker))
        BY ResultIsRepaired
  <2> QED BY <2>1, <2>2
<1>4. Those(new, T) = <<>>
  <2> HIDE DEF T
  <2> QED BY <1>1, <1>3, ThoseNone
<1>5. m.parts = new /\ m = [role |-> "tool", parts |-> new]
      BY DEF Msg
<1>6. AsItWas(m) = [m EXCEPT !.parts = Those(new, T)]
      BY <1>5 DEF AsItWas
<1> HIDE DEF m, T
<1>7. AsItWas(m).parts = <<>>
  <2>1. [m EXCEPT !.parts = <<>>] = [role |-> "tool", parts |-> <<>>]
        BY <1>5
  <2> QED BY <1>4, <1>6, <2>1
<1>8. new # <<>>
  <2>1. Len(ids) # 0
        BY EmptySeq
  <2> QED BY <1>1, <2>1, EmptySeq
<1> QED BY <1>5, <1>7, <1>8 DEF Added, m, new

LEMMA SanitizeKeeps ==
    ASSUME NEW S, Closed(S), NEW msgs \in Seq(MessagesOf(S)),
           \A i \in DOMAIN msgs : \A p \in Range(msgs[i].parts) : ~Repaired(p),
           NEW out, out = Sanitize(msgs), NEW stays, stays = Those(out, {m \in Range(out) : ~Added(m)})
    PROVE  [k \in DOMAIN stays |-> AsItWas(stays[k])] = msgs
<1> DEFINE M == MessagesOf(S)
           n == Len(msgs)
           T == {m \in Range(out) : ~Added(m)}
<1>1. out \in Seq(M)
      BY SanitizePlaces
<1>2. PICK at : Repairs(at, out, msgs)
      BY SanitizePlaces
<1>3. /\ DOMAIN out = 1 .. Len(out) /\ Len(out) \in Nat
      /\ DOMAIN msgs = 1 .. n /\ n \in Nat
      BY <1>1, LenProperties
<1>4. PICK h \in [0 .. Len(out) -> Seq(M)] : ThoseUpTo(h, out, T) /\ h[Len(out)] = Those(out, T)
      BY <1>1, ThoseSteps
<1>5. \A j \in 1 .. Len(out) : out[j] \in T <=> ~Added(out[j])
      BY <1>1, <1>3, ElementIn
<1> HIDE DEF T
<1>6. h[0] = <<>> /\ \A k \in 1 .. Len(out) : h[k] = IF Added(out[k]) THEN h[k - 1] ELSE Append(h[k - 1], out[k])
      BY <1>4, <1>5 DEF ThoseUpTo
<1> HIDE DEF n
<1>7. \A i \in 0 .. n : at[i] \in 0 .. Len(out)
  <2> TAKE i \in 0 .. n
  <2>1. n \in i .. n /\ n \in 0 .. n
        BY <1>3
  <2>2. at[i] <= at[n]
        BY <1>2, <2>1, RepairsRise DEF n
  <2>3. at[i] \in Nat /\ at[n] = Len(out)
        BY <1>2, <2>1 DEF Repairs, n
  <2> QED BY <1>3, <2>2, <2>3
<1> DEFINE SoFar(i) == /\ Len(h[at[i]]) = i
                       /\ \A k \in 1 .. i : AsItWas(h[at[i]][k]) = msgs[k]
           P == {i \in 0 .. n : SoFar(i)}
<1>8. 0 \in P
  <2>1. at[0] = 0 /\ 0 \in 0 .. n
        BY <1>2, <1>3 DEF Repairs
  <2> QED BY <1>6, <2>1, EmptySeq
<1>9. ASSUME NEW i \in 0 .. n, i < n, i \in P PROVE i + 1 \in P
  <2>1. i + 1 \in 1 .. n /\ (i + 1) - 1 = i /\ i + 1 \in 0 .. n /\ i \in Nat /\ i + 1 \in DOMAIN msgs
        BY <1>3, <1>9
  <2>2. /\ at[i + 1] = at[i] + (IF Spliced(msgs, i + 1) THEN 2 ELSE 1)
        /\ out[at[i] + 1] = Extended(msgs, i + 1)
        /\ Spliced(msgs, i + 1) => out[at[i] + 2] = Msg("tool", Synthetic(Orphans(msgs, i + 1)))
    <3>1. /\ at[i + 1] = at[(i + 1) - 1] + (IF Spliced(msgs, i + 1) THEN 2 ELSE 1)
          /\ out[at[(i + 1) - 1] + 1] = Extended(msgs, i + 1)
          /\ Spliced(msgs, i + 1) => out[at[(i + 1) - 1] + 2] = Msg("tool", Synthetic(Orphans(msgs, i + 1)))
          BY <1>2, <2>1 DEF Repairs, n
    <3> QED BY <2>1, <3>1
  <2> DEFINE a == at[i]
             c == h[a]
             x == Extended(msgs, i + 1)
  <2>3. a \in 0 .. Len(out) /\ at[i + 1] \in 0 .. Len(out) /\ a \in Nat
        BY <1>3, <1>7, <2>1
  <2>4. AsItWas(x) = msgs[i + 1] /\ ~Added(x)
        BY <2>1, ExtendedAsItWas
  <2>5. x \in M
        BY <2>1, ExtendedIs
  <2>6. c \in Seq(M) /\ Len(c) = i /\ \A k \in 1 .. i : AsItWas(c[k]) = msgs[k]
        BY <1>9, <2>3
  <2> HIDE DEF x
  <2>7. h[a + 1] = Append(c, x)
    <3>1. a + 1 \in 1 .. Len(out) /\ (a + 1) - 1 = a
          BY <1>3, <2>2, <2>3
    <3>2. h[a + 1] = IF Added(out[a + 1]) THEN h[(a + 1) - 1] ELSE Append(h[(a + 1) - 1], out[a + 1])
          BY <1>6, <3>1
    <3>3. out[a + 1] = x
          BY <2>2 DEF x
    <3> QED BY <2>4, <3>1, <3>2, <3>3
  <2>8. h[at[i + 1]] = h[a + 1]
    <3>1. CASE ~Spliced(msgs, i + 1)
          BY <2>2, <3>1
    <3>2. CASE Spliced(msgs, i + 1)
      <4>1. at[i + 1] = a + 2 /\ a + 2 \in 1 .. Len(out) /\ (a + 2) - 1 = a + 1
            BY <1>3, <2>2, <2>3, <3>2
      <4>2. h[a + 2] = IF Added(out[a + 2]) THEN h[(a + 2) - 1] ELSE Append(h[(a + 2) - 1], out[a + 2])
            BY <1>6, <4>1
      <4>3. Added(out[a + 2])
        <5>1. Orphans(msgs, i + 1) \in Seq(IdsOf(S)) /\ Orphans(msgs, i + 1) # <<>>
              BY <3>2, OrphansAre DEF Spliced
        <5>2. Added(Msg("tool", Synthetic(Orphans(msgs, i + 1))))
              BY <5>1, SplicedIsAdded
        <5> QED BY <2>2, <3>2, <5>2
      <4> QED BY <4>1, <4>2, <4>3
    <3> QED BY <3>1, <3>2
  <2> HIDE DEF c, a
  <2>9. /\ Len(Append(c, x)) = i + 1 /\ \A k \in 1 .. i : Append(c, x)[k] = c[k]
        /\ Append(c, x)[i + 1] = x
        BY <2>5, <2>6, AppendReads
  <2>10. ASSUME NEW k \in 1 .. i + 1 PROVE AsItWas(Append(c, x)[k]) = msgs[k]
    <3>1. k \in 1 .. i \/ k = i + 1
          BY <2>1
    <3> QED BY <2>4, <2>6, <2>9, <3>1
  <2>11. h[at[i + 1]] = Append(c, x)
         BY <2>7, <2>8
  <2>12. SoFar(i + 1)
         BY <2>9, <2>10, <2>11
  <2> QED BY <2>1, <2>12
<1> HIDE DEF P
<1>10. n \in P
  <2>1. \A i \in 0 .. n : i \in P
        BY <1>3, <1>8, <1>9, UpTo
  <2>2. n \in 0 .. n
        BY <1>3
  <2> QED BY <2>1, <2>2
<1>11. at[n] = Len(out)
       BY <1>2 DEF Repairs, n
<1>12. stays \in Seq(M) /\ Len(stays) = n /\ \A k \in 1 .. n : AsItWas(stays[k]) = msgs[k]
  <2>1. stays = h[at[n]]
        BY <1>4, <1>11 DEF T
  <2>2. stays \in Seq(M)
        BY <1>1, ThoseAre
  <2> QED BY <1>10, <2>1, <2>2 DEF P
<1>13. DOMAIN stays = 1 .. n
       BY <1>12, LenProperties
<1> DEFINE back == [k \in DOMAIN stays |-> AsItWas(stays[k])]
<1>14. back = [k \in 1 .. n |-> msgs[k]]
       BY <1>12, <1>13
<1>15. msgs = [k \in 1 .. n |-> msgs[k]]
  <2>1. msgs \in [1 .. n -> M]
        BY LenProperties DEF n
  <2> QED BY <2>1
<1> QED BY <1>14, <1>15

LEMMA NextPlace ==
    \A n \in Nat : \A k \in 0 .. n :
        k < n => k + 1 \in 1 .. n /\ (k + 1) - 1 = k /\ k + 1 \in 0 .. n /\ k \in Nat
OBVIOUS

\* Of two sequences one after the other, none of the first and all of the second is kept.
LEMMA ThoseOfSecond ==
    ASSUME NEW A, NEW s \in Seq(A), NEW t \in Seq(A), NEW T,
           \A i \in 1 .. Len(s) : s[i] \notin T, \A i \in 1 .. Len(t) : t[i] \in T
    PROVE  Those(s \o t, T) = t
<1> DEFINE u == s \o t
           n == Len(s)
<1>1. /\ u \in Seq(A) /\ Len(u) = n + Len(t) /\ n \in Nat /\ Len(t) \in Nat
      /\ \A i \in 1 .. n : u[i] = s[i]
      /\ \A i \in 1 .. Len(t) : u[n + i] = t[i]
      BY ConcatProperties, OnePiece
<1> HIDE DEF u, n
<1>0. u \in Seq(A) /\ Len(u) \in Nat
      BY <1>1
<1>2. PICK h \in [0 .. Len(u) -> Seq(A)] : ThoseUpTo(h, u, T) /\ h[Len(u)] = Those(u, T)
      BY <1>0, ThoseSteps
<1> DEFINE SoFar(k) == /\ k <= n => h[k] = <<>>
                       /\ k > n => Len(h[k]) = k - n /\ \A i \in 1 .. k - n : h[k][i] = t[i]
           P == {k \in 0 .. Len(u) : SoFar(k)}
<1>3. 0 \in P
      BY <1>1, <1>2 DEF ThoseUpTo
<1>4. ASSUME NEW k \in 0 .. Len(u), k < Len(u), k \in P PROVE k + 1 \in P
  <2>1. k + 1 \in 1 .. Len(u) /\ (k + 1) - 1 = k /\ k + 1 \in 0 .. Len(u) /\ k \in Nat
    <3>1. Len(u) \in Nat /\ k \in 0 .. Len(u) /\ k < Len(u)
          BY <1>0, <1>4
    <3> QED BY <3>1, NextPlace
  <2>2. h[k + 1] = IF u[k + 1] \in T THEN Append(h[k], u[k + 1]) ELSE h[k]
        BY <1>2, <2>1 DEF ThoseUpTo
  <2>3. h[k] \in Seq(A) /\ SoFar(k)
        BY <1>4
  <2>4. CASE k + 1 <= n
    <3>1. k + 1 \in 1 .. n /\ k <= n /\ ~(k + 1 > n)
          BY <1>1, <2>1, <2>4
    <3>2. u[k + 1] \notin T
          BY <1>1, <3>1 DEF n
    <3>3. h[k + 1] = <<>>
          BY <2>2, <2>3, <3>1, <3>2
    <3> QED BY <2>1, <3>1, <3>3
  <2>5. CASE ~(k + 1 <= n)
    <3> DEFINE j == k - n
               c == h[k]
               x == t[j + 1]
    <3>1. j \in Nat /\ j + 1 \in 1 .. Len(t) /\ n + (j + 1) = k + 1 /\ k + 1 > n /\ (k + 1) - n = j + 1
          BY <1>1, <2>1, <2>5
    <3>2. u[k + 1] = x /\ x \in T /\ x \in A
      <4>1. u[n + (j + 1)] = t[j + 1]
            BY <1>1, <3>1
      <4>2. t[j + 1] \in A
            BY <3>1, LenProperties
      <4> QED BY <3>1, <4>1, <4>2
    <3>3. Len(c) = j /\ \A i \in 1 .. j : c[i] = t[i]
      <4>1. CASE k = n
        <5>1. c = <<>> /\ j = 0
              BY <1>1, <2>3, <4>1
        <5>2. Len(c) = 0
              BY <5>1, EmptySeq
        <5> QED BY <5>1, <5>2
      <4>2. CASE k # n
        <5>1. k > n
              BY <1>1, <2>1, <2>5, <4>2
        <5> QED BY <2>3, <5>1
      <4> QED BY <4>1, <4>2
    <3>4. h[k + 1] = Append(c, x)
          BY <2>2, <3>2
    <3>5. c \in Seq(A)
          BY <2>3
    <3> HIDE DEF c, x, j
    <3>6. Len(Append(c, x)) = j + 1 /\ (\A i \in 1 .. j : Append(c, x)[i] = c[i]) /\ Append(c, x)[j + 1] = x
          BY <3>2, <3>3, <3>5, AppendReads
    <3>7. \A i \in 1 .. j + 1 : Append(c, x)[i] = t[i]
      <4> TAKE i \in 1 .. j + 1
      <4>1. i \in 1 .. j \/ i = j + 1
            BY <3>1
      <4> QED BY <3>3, <3>6, <4>1 DEF x
    <3>8. SoFar(k + 1)
      <4>1. Len(h[k + 1]) = (k + 1) - n
            BY <3>1, <3>4, <3>6
      <4>2. \A i \in 1 .. (k + 1) - n : h[k + 1][i] = t[i]
            BY <3>1, <3>4, <3>7
      <4> QED BY <2>5, <4>1, <4>2
    <3> QED BY <2>1, <3>8
  <2> QED BY <2>4, <2>5
<1> HIDE DEF P
<1>5. Len(u) \in P
  <2>0. Len(u) \in Nat
        BY <1>1, LenProperties
  <2>1. \A k \in 0 .. Len(u) : k \in P
        BY <2>0, <1>3, <1>4, UpTo
  <2>2. Len(u) \in 0 .. Len(u)
        BY <2>0
  <2> QED BY <2>1, <2>2
<1>6. SoFar(Len(u)) /\ Those(u, T) \in Seq(A)
      BY <1>1, <1>5, ThoseAre DEF P
<1>7. CASE Len(t) = 0
  <2>1. Those(u, T) = <<>>
        BY <1>1, <1>2, <1>6, <1>7
  <2>2. t = <<>>
        BY <1>7, EmptySeq
  <2> QED BY <2>1, <2>2 DEF u
<1>8. CASE Len(t) # 0
  <2>1. Len(u) > n /\ Len(u) - n = Len(t)
        BY <1>1, <1>8
  <2>2. Len(Those(u, T)) = Len(t)
        BY <1>2, <1>6, <2>1
  <2>3. \A i \in 1 .. Len(t) : Those(u, T)[i] = t[i]
        BY <1>2, <1>6, <2>1
  <2> QED BY <1>6, <2>2, <2>3, SeqEqual DEF u
<1> QED BY <1>7, <1>8

\* What is said once, and nothing after it, is all that is said.
LEMMA SaidOnce ==
    ASSUME NEW Y, NEW t \in Seq(Y), NEW s \in Seq(Seq(Y)), Len(s) = 0 => t = <<>>,
           \A k \in 1 .. Len(s) : s[k] = IF k = 1 THEN t ELSE <<>>
    PROVE  FlattenSeq(s) = t
<1>1. PICK at : Places(at, s)
      BY FlattenPlaces
<1>2. Len(s) \in Nat /\ Len(t) \in Nat
      BY LenProperties
<1>3. at[0] = 0 /\ at \in [0 .. Len(s) -> Nat] /\ \A k \in 1 .. Len(s) : at[k] = at[k - 1] + Len(s[k])
      BY <1>1 DEF Places
<1>4. Len(<<>>) = 0
      BY EmptySeq
<1> DEFINE P == {k \in 0 .. Len(s) : at[k] = IF k = 0 THEN 0 ELSE Len(t)}
<1>5. 0 \in P
      BY <1>2, <1>3
<1>6. ASSUME NEW k \in 0 .. Len(s), k < Len(s), k \in P PROVE k + 1 \in P
  <2>1. k + 1 \in 1 .. Len(s) /\ (k + 1) - 1 = k /\ k + 1 \in 0 .. Len(s) /\ k + 1 # 0
        BY <1>2, <1>6
  <2>2. at[k + 1] = at[k] + Len(s[k + 1])
        BY <1>3, <2>1
  <2>3. CASE k = 0
    <3>1. s[k + 1] = t /\ at[k] = 0
          BY <1>3, <2>1, <2>3
    <3> QED BY <1>2, <2>1, <2>2, <3>1
  <2>4. CASE k # 0
    <3>1. s[k + 1] = <<>> /\ at[k] = Len(t)
          BY <1>2, <1>6, <2>1, <2>4
    <3> QED BY <1>2, <1>4, <2>1, <2>2, <3>1
  <2> QED BY <2>3, <2>4
<1> HIDE DEF P
<1>7. \A k \in 0 .. Len(s) : k \in P
      BY <1>2, <1>5, <1>6, UpTo
<1>8. Len(t) = at[Len(s)]
  <2>1. Len(s) \in 0 .. Len(s)
        BY <1>2
  <2> QED BY <1>4, <1>7, <2>1 DEF P
<1>9. ASSUME NEW k \in 1 .. Len(s), NEW i \in 1 .. Len(s[k]) PROVE t[at[k - 1] + i] = s[k][i]
  <2>1. CASE k = 1
    <3>1. k - 1 = 0 /\ s[k] = t
          BY <2>1
    <3>2. at[k - 1] + i = i
          BY <1>2, <1>3, <3>1
    <3> QED BY <3>1, <3>2
  <2>2. CASE k # 1
    <3>1. s[k] = <<>>
          BY <2>2
    <3> QED BY <1>4, <1>9, <3>1
  <2> QED BY <2>1, <2>2
<1> QED BY <1>1, <1>8, <1>9, FlattenIs

\* What the parts of a message say.
LEMMA WordsAre ==
    ASSUME NEW S, NEW Y, \A p \in S : Projected(p) \in Seq(Y),
           NEW parts \in Seq(S), NEW uttered, uttered = [i \in DOMAIN parts |-> Projected(parts[i])]
    PROVE  /\ uttered \in Seq(Seq(Y)) /\ Len(uttered) = Len(parts)
           /\ \A i \in 1 .. Len(parts) : uttered[i] = Projected(parts[i])
           /\ FlattenSeq(uttered) \in Seq(Y)
<1> DEFINE f == [p \in S |-> Projected(p)]
           Z == Seq(Y)
<1>1. f \in [S -> Z]
      OBVIOUS
<1>2. uttered = [i \in DOMAIN parts |-> f[parts[i]]]
  <2>1. \A i \in DOMAIN parts : parts[i] \in S
        BY ElementIn
  <2> QED BY <2>1
<1>3. \A i \in 1 .. Len(parts) : f[parts[i]] = Projected(parts[i])
  <2>1. DOMAIN parts = 1 .. Len(parts)
        BY LenProperties
  <2>2. \A i \in DOMAIN parts : parts[i] \in S
        BY ElementIn
  <2> QED BY <2>1, <2>2
<1> HIDE DEF f
<1>4. uttered \in Seq(Z)
  <2>1. DOMAIN parts = 1 .. Len(parts) /\ Len(parts) \in Nat
        BY LenProperties
  <2>2. uttered \in [1 .. Len(parts) -> Z]
        BY <2>1, ElementIn
  <2> QED BY <2>1, <2>2, MakesSeq
<1>5. Len(uttered) = Len(parts)
  <2> HIDE DEF Z
  <2> QED BY <1>1, <1>2, MappedSeq
<1>6. \A i \in 1 .. Len(parts) : uttered[i] = f[parts[i]]
  <2> HIDE DEF Z
  <2> QED BY <1>1, <1>2, MappedSeq
<1>7. FlattenSeq(uttered) \in Seq(Y)
      BY <1>4, FlattenPlaces
<1> QED BY <1>3, <1>4, <1>5, <1>6, <1>7

LEMMA ReadLine ==
    ASSUME NEW m, NEW calls, calls = Those(m.parts, OfKind(m, "call")),
           NEW uttered, uttered = [i \in DOMAIN m.parts |-> Projected(m.parts[i])],
           NEW role, role = m.role, NEW text, text = FlattenSeq(uttered),
           NEW ids, ids = [i \in DOMAIN calls |-> calls[i].id], NEW a, a = FirstResult(m)
    PROVE  ToLLM(m) = [role |-> role, text |-> text, calls |-> ids, answers |-> a]
BY DEF ToLLM

LEMMA AnswersNone ==
    ASSUME NEW S, NEW m, m.parts \in Seq(S), WithId(m, "result") = {}
    PROVE  FirstResult(m) = NoId
<1>1. \A i \in 1 .. Len(m.parts) : m.parts[i] \notin {}
      OBVIOUS
<1>2. Those(m.parts, {}) = <<>>
      BY <1>1, ThoseNone
<1> QED BY <1>2 DEF FirstResult

LEMMA CallsNone ==
    ASSUME NEW S, NEW m, m.parts \in Seq(S), OfKind(m, "call") = {}
    PROVE  Those(m.parts, OfKind(m, "call")) = <<>>
<1>1. \A i \in 1 .. Len(m.parts) : m.parts[i] \notin {}
      OBVIOUS
<1> QED BY <1>1, ThoseNone

LEMMA NoneInAll == \A a, b \in Nat : a + b = 0 => a = 0
OBVIOUS

\* A text and calls after it, read as a line, are that text and those calls.
LEMMA TextAndCallsRead ==
    ASSUME NEW Y, NEW t \in Seq(Y), NEW I, NEW ids \in Seq(I), NEW role,
           NEW cs, cs = [i \in DOMAIN ids |-> CallPart(ids[i])]
    PROVE  ToLLM(Msg(role, TextPart(t) \o cs)) =
               [role |-> role, text |-> t, calls |-> ids, answers |-> NoId]
<1> DEFINE C == {CallPart(id) : id \in I}
           S == {Text(t)} \cup C
           c == [id \in I |-> CallPart(id)]
           head == TextPart(t)
           parts == head \o cs
           m == Msg(role, parts)
           T == OfKind(m, "call")
           uttered == [i \in DOMAIN m.parts |-> Projected(m.parts[i])]
<1>1. c \in [I -> C]
      OBVIOUS
<1>2. cs = [i \in DOMAIN ids |-> c[ids[i]]]
  <2>1. \A i \in DOMAIN ids : ids[i] \in I
        BY ElementIn
  <2> QED BY <2>1
<1>3. \A i \in 1 .. Len(ids) : c[ids[i]] = CallPart(ids[i])
  <2>1. DOMAIN ids = 1 .. Len(ids)
        BY LenProperties
  <2>2. \A i \in DOMAIN ids : ids[i] \in I
        BY ElementIn
  <2> QED BY <2>1, <2>2
<1>4. cs \in Seq(C) /\ Len(cs) = Len(ids) /\ \A i \in 1 .. Len(ids) : cs[i] = CallPart(ids[i])
  <2> HIDE DEF c, C
  <2>1. cs \in Seq(C)
        BY <1>1, <1>2, MappedSeq
  <2>2. Len(cs) = Len(ids)
        BY <1>1, <1>2, MappedSeq
  <2>3. \A i \in 1 .. Len(ids) : cs[i] = c[ids[i]]
        BY <1>1, <1>2, MappedSeq
  <2> QED BY <1>3, <2>1, <2>2, <2>3
<1>5. \A p \in C : p.kind = "call"
      BY DEF CallPart
<1>6. /\ Text(t).kind = "text" /\ Projected(Text(t)) = t
      BY DEF Text, Projected
<1>7. \A p \in C : Projected(p) = <<>>
      BY DEF CallPart, Projected
<1> HIDE DEF C, c
<1>8. head \in Seq({Text(t)}) /\ Len(head) = (IF t = <<>> THEN 0 ELSE 1) /\ \A i \in 1 .. Len(head) : head[i] = Text(t)
  <2>1. CASE t = <<>>
        BY <2>1, EmptySeq DEF TextPart
  <2>2. CASE t # <<>>
    <3> DEFINE x == Text(t)
    <3>1. head = <<x>>
          BY <2>2 DEF TextPart
    <3> HIDE DEF x, head
    <3>2. <<x>> \in Seq({x}) /\ Len(<<x>>) = 1 /\ <<x>>[1] = x
          OBVIOUS
    <3>3. \A i \in 1 .. 1 : i = 1
          OBVIOUS
    <3> QED BY <2>2, <3>1, <3>2, <3>3 DEF x
  <2> QED BY <2>1, <2>2
<1> HIDE DEF head
<1>9. head \in Seq(S) /\ cs \in Seq(S)
  <2>1. \A i \in 1 .. Len(head) : head[i] \in S
        BY <1>8
  <2>2. \A i \in 1 .. Len(cs) : cs[i] \in S
        BY <1>4, LenProperties
  <2>3. DOMAIN head = 1 .. Len(head) /\ Len(head) \in Nat /\ head \in [1 .. Len(head) -> {Text(t)}]
        BY <1>8, LenProperties
  <2>4. DOMAIN cs = 1 .. Len(cs) /\ Len(cs) \in Nat /\ cs \in [1 .. Len(cs) -> C]
        BY <1>4, LenProperties
  <2>5. head \in [1 .. Len(head) -> S] /\ cs \in [1 .. Len(cs) -> S]
        BY <2>1, <2>2, <2>3, <2>4
  <2> HIDE DEF S
  <2> QED BY <2>3, <2>4, <2>5, MakesSeq
<1>10. \A p \in S : p.kind = "call" <=> p \in C
       BY <1>5, <1>6
<1>11. Text(t) \notin C
       BY <1>5, <1>6
<1>12. parts \in Seq(S)
  <2> HIDE DEF S
  <2> QED BY <1>9, ConcatProperties
<1>13. m.parts = parts /\ m.role = role
       BY DEF Msg
<1> HIDE DEF m
<1>14. T = Range(parts) \cap C
  <2> HIDE DEF S
  <2>1. \A p \in Range(parts) : p \in S
        BY <1>12, RangeIn
  <2> QED BY <1>10, <1>13, <2>1 DEF OfKind
<1> HIDE DEF T
<1>15. Those(parts, T) = cs
  <2>1. \A i \in 1 .. Len(head) : head[i] \notin T
        BY <1>8, <1>11, <1>14
  <2>2. \A i \in 1 .. Len(cs) : cs[i] \in T
    <3> TAKE i \in 1 .. Len(cs)
    <3>1. i \in DOMAIN cs
          BY <1>4, LenProperties
    <3>2. cs[i] \in C /\ cs[i] \in Range(cs)
          BY <1>4, <3>1, ElementIn
    <3>3. Range(cs) \subseteq Range(parts)
      <4> HIDE DEF S
      <4> QED BY <1>9, RangeConcatenation
    <3> QED BY <1>14, <3>2, <3>3
  <2> HIDE DEF S
  <2> QED BY <1>9, <2>1, <2>2, ThoseOfSecond
<1> DEFINE back == [i \in DOMAIN cs |-> cs[i].id]
<1>16. back = ids
  <2>1. DOMAIN cs = 1 .. Len(ids) /\ DOMAIN ids = 1 .. Len(ids) /\ Len(ids) \in Nat
        BY <1>4, LenProperties
  <2>2. \A i \in 1 .. Len(ids) : cs[i].id = ids[i]
        BY <1>4 DEF CallPart
  <2>3. back = [i \in 1 .. Len(ids) |-> ids[i]]
        BY <2>1, <2>2
  <2>4. ids = [i \in 1 .. Len(ids) |-> ids[i]]
    <3>1. ids \in [1 .. Len(ids) -> I]
          BY LenProperties
    <3> QED BY <3>1
  <2> QED BY <2>3, <2>4
<1>17. FirstResult(m) = NoId
  <2>1. \A p \in S : p.kind # "result"
        BY <1>5, <1>6
  <2> HIDE DEF S
  <2>2. \A p \in Range(parts) : p \in S
        BY <1>12, RangeIn
  <2>3. WithId(m, "result") = {}
        BY <1>13, <2>1, <2>2 DEF WithId, OfKind
  <2> QED BY <1>12, <1>13, <2>3, AnswersNone
<1>18. FlattenSeq(uttered) = t
  <2>1. \A p \in S : Projected(p) \in Seq(Y)
        BY <1>6, <1>7, EmptySeq
  <2> HIDE DEF S
  <2>2. uttered \in Seq(Seq(Y)) /\ Len(uttered) = Len(parts)
    <3>1. uttered = [i \in DOMAIN parts |-> Projected(parts[i])]
          BY <1>13
    <3> HIDE DEF uttered
    <3> QED BY <1>12, <2>1, <3>1, WordsAre
  <2>3. \A i \in 1 .. Len(parts) : uttered[i] = Projected(parts[i])
    <3>1. DOMAIN parts = 1 .. Len(parts)
          BY <1>12, LenProperties
    <3> QED BY <1>13, <3>1
  <2> HIDE DEF uttered, parts
  <2>4. /\ Len(parts) = Len(head) + Len(cs) /\ Len(head) \in Nat /\ Len(cs) \in Nat
        /\ \A i \in 1 .. Len(head) : parts[i] = head[i]
        /\ \A i \in 1 .. Len(cs) : parts[Len(head) + i] = cs[i]
        BY <1>9, OnePiece DEF parts
  <2>5. ASSUME NEW k \in 1 .. Len(uttered) PROVE uttered[k] = IF k = 1 THEN t ELSE <<>>
    <3>1. CASE k <= Len(head)
      <4>1. k \in 1 .. Len(head) /\ k = 1
            BY <1>8, <2>2, <2>4, <3>1
      <4>2. parts[k] = Text(t)
            BY <1>8, <2>4, <4>1
      <4> QED BY <1>6, <2>2, <2>3, <4>1, <4>2
    <3>2. CASE ~(k <= Len(head))
      <4>1. k - Len(head) \in 1 .. Len(cs) /\ Len(head) + (k - Len(head)) = k
            BY <2>2, <2>4, <3>2
      <4>2. parts[k] = cs[k - Len(head)]
            BY <2>4, <4>1
      <4>3. cs[k - Len(head)] \in C
            BY <1>4, <4>1, LenProperties
      <4>4. uttered[k] = <<>>
            BY <1>7, <2>2, <2>3, <4>2, <4>3
      <4>5. k = 1 => t = <<>>
            BY <1>8, <3>2
      <4> QED BY <4>4, <4>5
    <3> QED BY <3>1, <3>2
  <2>6. Len(uttered) = 0 => t = <<>>
    <3>1. Len(uttered) = Len(head) + Len(cs)
          BY <2>2, <2>4
    <3>2. t # <<>> => Len(head) = 1
          BY <1>8
    <3>3. Len(uttered) = 0 => Len(head) = 0
      <4>1. Len(head) \in Nat /\ Len(cs) \in Nat
            BY <2>4
      <4> QED BY <3>1, <4>1, NoneInAll
    <3>4. 0 # 1
          OBVIOUS
    <3> HIDE DEF head
    <3> QED BY <3>2, <3>3, <3>4
  <2> QED BY <2>2, <2>5, <2>6, SaidOnce
<1> HIDE DEF uttered, parts
<1>19. ToLLM(m) = [role |-> role, text |-> t, calls |-> ids, answers |-> NoId]
       BY <1>13, <1>15, <1>16, <1>17, <1>18, ReadLine DEF T, uttered
<1> QED BY <1>19 DEF m, parts, head

\* A tool's line, lifted and read again.
LEMMA AnswerReads ==
    ASSUME NEW Y, NEW t \in Seq(Y), NEW a
    PROVE  ToLLM(Msg("tool", <<Result(a, "text", t)>>)) =
               [role |-> "tool", text |-> t, calls |-> <<>>, answers |-> a]
<1> DEFINE r == Result(a, "text", t)
           S == {r}
           parts == <<r>>
           m == Msg("tool", parts)
           uttered == [i \in DOMAIN m.parts |-> Projected(m.parts[i])]
           W == WithId(m, "result")
<1>1. r.kind = "result" /\ r.id = a /\ Projected(r) = t
      BY DEF Result, Projected
<1>2. m.parts = parts /\ m.role = "tool"
      BY DEF Msg
<1> HIDE DEF r, m
<1>3. parts \in Seq(S) /\ Len(parts) = 1 /\ parts[1] = r /\ DOMAIN parts = 1 .. 1 /\ Range(parts) = S
      BY DEF Range
<1> HIDE DEF parts
<1>4. OfKind(m, "call") = {}
      BY <1>1, <1>2, <1>3 DEF OfKind
<1>5. Those(m.parts, OfKind(m, "call")) = <<>>
      BY <1>2, <1>3, <1>4, CallsNone
<1>6. W = IF a = NoId THEN {} ELSE S
      BY <1>1, <1>2, <1>3 DEF WithId, OfKind
<1>7. FirstResult(m) = a
  <2>1. CASE a = NoId
        BY <1>2, <1>3, <1>6, <2>1, AnswersNone
  <2>2. CASE a # NoId
    <3>1. \A i \in 1 .. Len(parts) : parts[i] \in S
          BY <1>3
    <3>2. Those(parts, S) = parts
      <4>1. parts \in Seq(S)
            BY <1>3
      <4> HIDE DEF S
      <4> QED BY <3>1, <4>1, ThoseAll
    <3>3. parts # <<>>
      <4>1. Len(parts) # 0 /\ parts \in Seq(S)
            BY <1>3
      <4> HIDE DEF S
      <4> QED BY <4>1, EmptySeq
    <3>4. Those(m.parts, W) = parts
          BY <1>2, <1>6, <2>2, <3>2
    <3> HIDE DEF W
    <3> QED BY <1>1, <1>3, <3>3, <3>4 DEF FirstResult, W
  <2> QED BY <2>1, <2>2
<1>8. FlattenSeq(uttered) = t
  <2>1. \A p \in S : Projected(p) \in Seq(Y)
        BY <1>1
  <2> HIDE DEF S
  <2>2. uttered = [i \in DOMAIN parts |-> Projected(parts[i])]
        BY <1>2
  <2> HIDE DEF uttered
  <2>3. uttered \in Seq(Seq(Y)) /\ Len(uttered) = Len(parts)
        BY <1>3, <2>1, <2>2, WordsAre
  <2>4. uttered[1] = t
        BY <1>1, <1>3, <2>2
  <2>5. \A k \in 1 .. Len(uttered) : uttered[k] = IF k = 1 THEN t ELSE <<>>
        BY <1>3, <2>3, <2>4
  <2>6. Len(uttered) # 0
        BY <1>3, <2>3
  <2> QED BY <2>3, <2>5, <2>6, SaidOnce
<1> DEFINE calls == Those(m.parts, OfKind(m, "call"))
           ids == [i \in DOMAIN calls |-> calls[i].id]
<1>9. ids = <<>>
      BY <1>5
<1>10. calls = Those(m.parts, OfKind(m, "call")) /\ ids = [i \in DOMAIN calls |-> calls[i].id]
       OBVIOUS
<1>11. uttered = [i \in DOMAIN m.parts |-> Projected(m.parts[i])]
       OBVIOUS
<1> HIDE DEF calls, ids, uttered
<1>12. ToLLM(m) = [role |-> "tool", text |-> t, calls |-> <<>>, answers |-> a]
  <2>1. ToLLM(m) = [role |-> m.role, text |-> FlattenSeq(uttered), calls |-> ids, answers |-> FirstResult(m)]
        BY <1>10, <1>11, ReadLine
  <2> QED BY <1>2, <1>7, <1>8, <1>9, <2>1
<1> QED BY <1>12 DEF m, r, parts

\* The shapes a history is made of.
Words == {<<"said", NoId>>}
Whole ==
    (UNION {PartsOf(role) : role \in {"user", "assistant", "tool"}})
    \cup {Result(id, "text", Marker) : id \in Ids}

LEMMA SaidIsNoMark == Said \in Seq(Words) /\ Said # Marker
<1> DEFINE w == <<"said", NoId>>
<1>1. Said = <<w>>
      BY DEF Said
<1>2. Words = {w}
      BY DEF Words
<1>3. Said[1][1] = "said" /\ Marker[1][1] = "turn cancelled"
      BY DEF Said, Marker
<1> HIDE DEF w
<1>4. <<w>> \in Seq({w})
      OBVIOUS
<1>5. Said \in Seq(Words)
      BY <1>1, <1>2, <1>4
<1>6. Said # Marker
      BY <1>3
<1> QED BY <1>5, <1>6

LEMMA ShapesAre ==
    ASSUME NEW m \in Shapes
    PROVE  /\ m.role \in {"user", "assistant", "tool"} /\ m.parts \in Seq(PartsOf(m.role))
           /\ m = [role |-> m.role, parts |-> m.parts]
<1>1. PICK role \in {"user", "assistant", "tool"} :
          m \in {Msg(role, parts) : parts \in UNION {[1 .. n -> PartsOf(role)] : n \in 0 .. MaxParts}}
      BY DEF Shapes
<1>2. PICK parts \in UNION {[1 .. n -> PartsOf(role)] : n \in 0 .. MaxParts} : m = Msg(role, parts)
      BY <1>1
<1>3. PICK n \in 0 .. MaxParts : parts \in [1 .. n -> PartsOf(role)]
      BY <1>2
<1>4. n \in Nat
      BY <1>3, RepairAssumption
<1>5. parts \in Seq(PartsOf(role))
      BY <1>3, <1>4, MakesSeq
<1>6. m.role = role /\ m.parts = parts /\ m = [role |-> role, parts |-> parts]
      BY <1>2 DEF Msg
<1> QED BY <1>1, <1>5, <1>6

LEMMA PartsAre ==
    /\ \A p \in PartsOf("user") : \/ p.kind = "text" /\ p.text = Said /\ p = Text(Said)
                                  \/ p.kind = "result" /\ p.text = Said /\ p.how = "text" /\ p.id \in Ids
    /\ \A p \in PartsOf("assistant") : \/ p.kind = "text" /\ p.text = Said
                                       \/ p.kind = "call" /\ p.id \in Ids
    /\ \A p \in PartsOf("tool") : p.kind = "result" /\ p.text = Said /\ p.id \in Ids
BY DEF PartsOf, Text, CallPart, Result

LEMMA PartsSay ==
    \A role \in {"user", "assistant", "tool"} : \A p \in PartsOf(role) : Projected(p) \in Seq(Words) /\ ~Repaired(p)
<1>1. <<>> \in Seq(Words)
      BY EmptySeq
<1>2. \A p : (p.kind \in {"text", "result"} /\ p.text = Said) \/ p.kind = "call" =>
             Projected(p) \in Seq(Words) /\ ~Repaired(p)
  <2> TAKE p
  <2>1. ASSUME p.kind \in {"text", "result"}, p.text = Said PROVE Projected(p) \in Seq(Words) /\ ~Repaired(p)
    <3>1. Projected(p) = Said \/ Projected(p) = <<>>
          BY <2>1 DEF Projected
    <3>2. ~Repaired(p)
          BY <2>1, SaidIsNoMark DEF Repaired
    <3> QED BY <1>1, <3>1, <3>2, SaidIsNoMark
  <2>2. ASSUME p.kind = "call" PROVE Projected(p) \in Seq(Words) /\ ~Repaired(p)
        BY <1>1, <2>2 DEF Projected, Repaired
  <2> QED BY <2>1, <2>2
<1> QED BY <1>2, PartsAre

\* The line of a message, its text and its calls apart.
LEMMA LineIs ==
    ASSUME NEW m \in Shapes
    PROVE  \E t \in Seq(Words), ids \in Seq(Ids) :
             ToLLM(m) = [role |-> m.role, text |-> t, calls |-> ids, answers |-> FirstResult(m)]
<1> DEFINE S == PartsOf(m.role)
           uttered == [i \in DOMAIN m.parts |-> Projected(m.parts[i])]
           T == OfKind(m, "call")
           calls == Those(m.parts, T)
           ids == [i \in DOMAIN calls |-> calls[i].id]
           C == {p \in S : p.kind = "call"}
           f == [p \in C |-> p.id]
<1>1. m.role \in {"user", "assistant", "tool"} /\ m.parts \in Seq(S)
      BY ShapesAre
<1>2. FlattenSeq(uttered) \in Seq(Words)
  <2>1. \A p \in S : Projected(p) \in Seq(Words)
        BY <1>1, PartsSay
  <2>2. uttered = [i \in DOMAIN m.parts |-> Projected(m.parts[i])]
        OBVIOUS
  <2>3. m.parts \in Seq(S)
        BY <1>1
  <2> DEFINE parts == m.parts
  <2>4. parts \in Seq(S) /\ uttered = [i \in DOMAIN parts |-> Projected(parts[i])]
        BY <2>2, <2>3
  <2> HIDE DEF S, uttered, parts
  <2> QED BY <2>1, <2>4, WordsAre
<1>3. f \in [C -> Ids]
  <2>1. \A p \in C : p.id \in Ids
        BY <1>1, PartsAre
  <2> QED BY <2>1
<1>4. calls \in Seq(C)
  <2>1. calls \in Seq(S) /\ Range(calls) = Range(m.parts) \cap T
    <3> HIDE DEF S, T
    <3> QED BY <1>1, ThoseAre
  <2>2. \A p \in Range(calls) : p.kind = "call"
        BY <2>1 DEF OfKind
  <2> HIDE DEF calls, T, S
  <2>3. \A i \in DOMAIN calls : calls[i] \in S /\ calls[i] \in Range(calls)
        BY <2>1, ElementIn
  <2>4. DOMAIN calls = 1 .. Len(calls) /\ Len(calls) \in Nat /\ calls \in [1 .. Len(calls) -> S]
        BY <2>1, LenProperties
  <2>5. calls \in [1 .. Len(calls) -> C]
        BY <2>2, <2>3, <2>4
  <2> HIDE DEF C
  <2> QED BY <2>4, <2>5, MakesSeq
<1>5. ids = [i \in DOMAIN calls |-> f[calls[i]]]
  <2> HIDE DEF calls, C
  <2>1. \A i \in DOMAIN calls : calls[i] \in C
        BY <1>4, ElementIn
  <2> QED BY <2>1
<1>6. ids \in Seq(Ids)
  <2> HIDE DEF calls, C, f, ids
  <2> QED BY <1>3, <1>4, <1>5, MappedSeq
<1>7. ToLLM(m) = [role |-> m.role, text |-> FlattenSeq(uttered), calls |-> ids, answers |-> FirstResult(m)]
      BY ReadLine
<1> QED BY <1>2, <1>6, <1>7

\* What has no call has none in its line either.
LEMMA NoCallsInLine ==
    ASSUME NEW m \in Shapes, OfKind(m, "call") = {}
    PROVE  ToLLM(m).calls = <<>>
<1>1. m.parts \in Seq(PartsOf(m.role))
      BY ShapesAre
<1>2. Those(m.parts, OfKind(m, "call")) = <<>>
      BY <1>1, CallsNone
<1> QED BY <1>2 DEF ToLLM

LEMMA ShapeStable ==
    ASSUME NEW m \in Shapes, Proper(m)
    PROVE  ToLLM(ToFantasy(ToLLM(m))) = ToLLM(m)
<1> DEFINE l == ToLLM(m)
           a == FirstResult(m)
<1>1. PICK t \in Seq(Words), ids \in Seq(Ids) :
         l = [role |-> m.role, text |-> t, calls |-> ids, answers |-> a]
      BY LineIs
<1>2. m.role \in {"user", "assistant", "tool"} /\ m.parts \in Seq(PartsOf(m.role))
      BY ShapesAre
<1> HIDE DEF a
<1>3. l.role = m.role /\ l.text = t /\ l.calls = ids /\ l.answers = a
      BY <1>1
<1>4. \A p \in Range(m.parts) : p \in PartsOf(m.role)
      BY <1>2, RangeIn
<1> HIDE DEF l
<1>5. CASE m.role = "tool"
  <2>1. OfKind(m, "call") = {}
        BY <1>4, <1>5, PartsAre DEF OfKind
  <2>2. ids = <<>>
        BY <1>3, <2>1, NoCallsInLine DEF l
  <2>3. ToFantasy(l) = Msg("tool", <<Result(a, "text", t)>>)
        BY <1>3, <1>5 DEF ToFantasy
  <2>4. ToLLM(ToFantasy(l)) = [role |-> "tool", text |-> t, calls |-> <<>>, answers |-> a]
        BY <2>3, AnswerReads
  <2> QED BY <1>1, <1>5, <2>2, <2>4 DEF l
<1>6. CASE m.role # "tool"
  <2>1. WithId(m, "result") = {}
    <3>1. CASE m.role = "user"
          BY <3>1 DEF Proper, ResultIds
    <3>2. CASE m.role = "assistant"
          BY <1>4, <3>2, PartsAre DEF WithId, OfKind
    <3> QED BY <1>2, <1>6, <3>1, <3>2
  <2>2. a = NoId
        BY <1>2, <2>1, AnswersNone DEF a
  <2> DEFINE cs == [i \in DOMAIN ids |-> CallPart(ids[i])]
             head == TextPart(t)
  <2>3. ToFantasy(l) = Msg(m.role, head \o cs)
    <3>1. CASE m.role = "assistant"
          BY <1>3, <3>1 DEF ToFantasy, CallParts
    <3>2. CASE m.role = "user"
      <4>1. OfKind(m, "call") = {}
            BY <1>4, <3>2, PartsAre DEF OfKind
      <4>2. ids = <<>>
            BY <1>3, <4>1, NoCallsInLine DEF l
      <4>3. cs = <<>>
            BY <4>2
      <4>4. head \in Seq({Text(t)})
        <5> DEFINE x == Text(t)
        <5>1. head = <<x>> \/ head = <<>>
              BY DEF TextPart
        <5> HIDE DEF x, head
        <5>2. <<x>> \in Seq({x}) /\ <<>> \in Seq({x})
              OBVIOUS
        <5> QED BY <5>1, <5>2 DEF x
      <4>5. ToFantasy(l) = Msg(m.role, head)
            BY <1>3, <3>2 DEF ToFantasy
      <4> HIDE DEF head, cs
      <4>6. head \o <<>> = head
            BY <4>4, ConcatEmptySeq
      <4> QED BY <4>3, <4>5, <4>6
    <3> QED BY <1>2, <1>6, <3>1, <3>2
  <2>4. ToLLM(Msg(m.role, head \o cs)) = [role |-> m.role, text |-> t, calls |-> ids, answers |-> NoId]
    <3>1. cs = [i \in DOMAIN ids |-> CallPart(ids[i])]
          OBVIOUS
    <3> HIDE DEF cs
    <3> QED BY <3>1, TextAndCallsRead
  <2> QED BY <1>1, <2>2, <2>3, <2>4 DEF l
<1> QED BY <1>5, <1>6

-----------------------------------------------------------------------------

RepairIInv == history \in Seq(Shapes)

\* The repair of any history a session file may hold completes it, keeps what was there, and is
\* done: a second one changes nothing (sanitizeOrphanedToolUsesIn, llm/convert.go).
THEOREM RepairHolds == RepairSpec => []RepairIsRight
<1>1. RepairInit => RepairIInv
      BY EmptySeq DEF RepairInit, RepairIInv
<1>2. RepairIInv /\ [Add]_history => RepairIInv'
  <2> SUFFICES ASSUME RepairIInv, Add PROVE RepairIInv'
      BY DEF RepairIInv
  <2>1. PICK m \in Shapes : history' = Append(history, m)
        BY DEF Add
  <2> QED BY <2>1, AppendProperties DEF RepairIInv
<1>3. RepairIInv => RepairIsRight
  <2> SUFFICES ASSUME RepairIInv PROVE RepairIsRight
      OBVIOUS
  <2> DEFINE M == MessagesOf(Whole)
  <2>1. Closed(Whole)
    <3> SUFFICES ASSUME NEW p \in Whole, p.kind = "call" PROVE p.id \in Ids
        BY DEF Closed, IdsOf, Whole
    <3>1. CASE \E role \in {"user", "assistant", "tool"} : p \in PartsOf(role)
          BY <3>1, PartsAre
    <3>2. CASE \E id \in Ids : p = Result(id, "text", Marker)
          BY <3>2 DEF Result
    <3> QED BY <3>1, <3>2 DEF Whole
  <2>2. ASSUME NEW m \in Shapes PROVE m \in M
    <3>1. /\ m.role \in {"user", "assistant", "tool"} /\ m.parts \in Seq(PartsOf(m.role))
          /\ m = [role |-> m.role, parts |-> m.parts]
          BY ShapesAre
    <3>2. PartsOf(m.role) \subseteq Whole
          BY <3>1 DEF Whole
    <3>3. m.parts \in Seq(Whole)
      <4>1. m.parts \in [1 .. Len(m.parts) -> PartsOf(m.role)] /\ Len(m.parts) \in Nat
            BY <3>1, LenProperties
      <4>2. m.parts \in [1 .. Len(m.parts) -> Whole]
            BY <3>2, <4>1
      <4> QED BY <4>1, <4>2, MakesSeq
    <3> QED BY <3>1, <3>3 DEF MessagesOf
  <2>3. \A i \in DOMAIN history : history[i] \in Shapes
        BY ElementIn DEF RepairIInv
  <2>4. history \in Seq(M)
    <3>1. history \in [1 .. Len(history) -> Shapes] /\ Len(history) \in Nat
          BY LenProperties DEF RepairIInv
    <3>2. history \in [1 .. Len(history) -> M]
          BY <2>2, <3>1
    <3> QED BY <3>1, <3>2, MakesSeq
  <2>5. \A i \in DOMAIN history : \A p \in Range(history[i].parts) : p \in PartsOf(history[i].role)
    <3> TAKE i \in DOMAIN history
    <3>1. history[i].parts \in Seq(PartsOf(history[i].role))
          BY <2>3, ShapesAre
    <3> QED BY <3>1, RangeIn
  <2>6. \A i \in DOMAIN history : history[i].role \in {"user", "assistant", "tool"}
        BY <2>3, ShapesAre
  <2> DEFINE out == Sanitize(history)
  <2>7. Paired(out)
        BY <2>1, <2>4, SanitizePairs
  <2>8. RepairIsIdempotent(out)
    <3>1. ASSUME NEW i \in DOMAIN history, history[i].role = "assistant" PROVE ResultIds(history[i]) = {}
          BY <2>5, <3>1, PartsAre DEF ResultIds, WithId, OfKind
    <3> QED BY <2>1, <2>4, <3>1, SanitizeTwice DEF RepairIsIdempotent
  <2>9. RepairKeeps(out)
    <3>1. \A i \in DOMAIN history : \A p \in Range(history[i].parts) : ~Repaired(p)
          BY <2>5, <2>6, PartsSay
    <3> QED BY <2>1, <2>4, <3>1, SanitizeKeeps DEF RepairKeeps
  <2>10. ShapeIsStable
         BY <2>3, ShapeStable DEF ShapeIsStable
  <2> QED BY <2>7, <2>8, <2>9, <2>10 DEF RepairIsRight
<1> QED BY <1>1, <1>2, <1>3, PTL DEF RepairSpec

-----------------------------------------------------------------------------
(* What is seen of an answer that begins with a word (FollowUp) *)

\* A text without what is cut, a text behind its word, and the word.
Begun(text) == TrimLeft(text, {" "})
Rest(start) == TrimLeft(SubSeq(start, 3, Len(start)), {" ", ":"})
Openings == {"AUTONEXT", "AUTOIDEA"}

LEMMA TailReads ==
    ASSUME NEW A, NEW s \in Seq(A), NEW m \in 1 .. Len(s) + 1
    PROVE  /\ SubSeq(s, m, Len(s)) \in Seq(A)
           /\ Len(SubSeq(s, m, Len(s))) = Len(s) - m + 1 /\ Len(s) \in Nat
           /\ \A i \in 1 .. Len(s) - m + 1 : SubSeq(s, m, Len(s))[i] = s[m + i - 1]
<1>1. Len(s) \in Nat /\ s \in [1 .. Len(s) -> A]
      BY LenProperties
<1>2. m \in Int /\ Len(s) \in Int /\ \A i \in m .. Len(s) : i \in 1 .. Len(s)
      BY <1>1
<1>3. \A i \in m .. Len(s) : s[i] \in A
      BY <1>1, <1>2
<1>4. /\ SubSeq(s, m, Len(s)) \in Seq(A)
      /\ Len(SubSeq(s, m, Len(s))) = IF m <= Len(s) THEN Len(s) - m + 1 ELSE 0
      /\ \A i \in 1 .. Len(s) - m + 1 : SubSeq(s, m, Len(s))[i] = s[m + i - 1]
      BY <1>2, <1>3, SubSeqProperties
<1>5. Len(SubSeq(s, m, Len(s))) = Len(s) - m + 1
      BY <1>1, <1>4
<1> QED BY <1>1, <1>4, <1>5

LEMMA TailOfConcat ==
    ASSUME NEW A, NEW a \in Seq(A), NEW b \in Seq(A), NEW m \in 1 .. Len(a) + 1
    PROVE  SubSeq(a \o b, m, Len(a \o b)) = SubSeq(a, m, Len(a)) \o b
<1>1. /\ Len(a \o b) = Len(a) + Len(b) /\ Len(a) \in Nat /\ Len(b) \in Nat
      /\ \A i \in 1 .. Len(a) : (a \o b)[i] = a[i]
      /\ \A i \in 1 .. Len(b) : (a \o b)[Len(a) + i] = b[i]
      BY OnePiece
<1> DEFINE t == SubSeq(a, m, Len(a))
           u == SubSeq(a \o b, m, Len(a \o b))
           n == Len(a) - m + 1
<1>2. t \in Seq(A) /\ Len(t) = n /\ \A i \in 1 .. n : t[i] = a[m + i - 1]
      BY TailReads
<1>3. a \o b \in Seq(A) /\ m \in 1 .. Len(a \o b) + 1
      BY <1>1, ConcatProperties
<1>4. /\ u \in Seq(A) /\ Len(u) = Len(a \o b) - m + 1
      /\ \A i \in 1 .. Len(a \o b) - m + 1 : u[i] = (a \o b)[m + i - 1]
      BY <1>3, TailReads
<1>5. n \in Nat /\ Len(u) = n + Len(b)
      BY <1>1, <1>4
<1> HIDE DEF t, u
<1>6. /\ Len(t \o b) = n + Len(b)
      /\ \A i \in 1 .. n : (t \o b)[i] = t[i]
      /\ \A i \in 1 .. Len(b) : (t \o b)[n + i] = b[i]
  <2>1. t \in Seq(A) /\ Len(t) = n
        BY <1>2
  <2> HIDE DEF n
  <2>2. /\ Len(t \o b) = Len(t) + Len(b)
        /\ \A i \in 1 .. Len(t) : (t \o b)[i] = t[i]
        /\ \A i \in 1 .. Len(b) : (t \o b)[Len(t) + i] = b[i]
    <3>1. t \in Seq(A)
          BY <2>1
    <3> QED BY <3>1, OnePiece
  <2> QED BY <2>1, <2>2
<1>7. ASSUME NEW i \in 1 .. Len(u) PROVE u[i] = (t \o b)[i]
  <2>1. u[i] = (a \o b)[m + i - 1]
        BY <1>4
  <2>2. CASE i <= n
    <3>1. i \in 1 .. n /\ m + i - 1 \in 1 .. Len(a)
          BY <1>1, <1>5, <2>2
    <3> QED BY <1>1, <1>2, <1>6, <2>1, <3>1
  <2>3. CASE ~(i <= n)
    <3>1. i - n \in 1 .. Len(b) /\ n + (i - n) = i /\ Len(a) + (i - n) = m + i - 1
          BY <1>1, <1>5, <2>3
    <3> HIDE DEF n
    <3>2. (t \o b)[n + (i - n)] = b[i - n] /\ (a \o b)[Len(a) + (i - n)] = b[i - n]
          BY <1>1, <1>6, <3>1
    <3> QED BY <2>1, <3>1, <3>2
  <2> QED BY <2>2, <2>3
<1>8. t \o b \in Seq(A)
      BY <1>2, ConcatProperties
<1>9. u = t \o b
      BY <1>4, <1>5, <1>6, <1>7, <1>8, SeqEqual
<1> QED BY <1>9 DEF t, u

\* A text is cut up to the first piece that stays.
Stays(text, cut, f) ==
    f \in 1 .. Len(text) /\ text[f] \notin cut /\ \A j \in 1 .. f - 1 : text[j] \in cut

LEMMA TrimAt ==
    ASSUME NEW A, NEW text \in Seq(A), NEW cut, NEW f, Stays(text, cut, f)
    PROVE  TrimLeft(text, cut) = SubSeq(text, f, Len(text))
<1> DEFINE stays == {i \in DOMAIN text : text[i] \notin cut}
           Best(i) == i \in stays /\ \A j \in stays : i <= j
<1>1. DOMAIN text = 1 .. Len(text) /\ Len(text) \in Nat
      BY LenProperties
<1>2. f \in stays /\ f \in Nat
      BY <1>1 DEF Stays
<1>3. ASSUME NEW j \in stays PROVE f <= j
  <2>1. j \in 1 .. Len(text) /\ text[j] \notin cut
        BY <1>1
  <2> QED BY <1>1, <1>2, <2>1 DEF Stays
<1>4. ASSUME NEW g, Best(g) PROVE g = f
  <2>1. g \in Nat /\ f <= g /\ g <= f
        BY <1>1, <1>2, <1>3, <1>4
  <2> QED BY <1>2, <2>1
<1> HIDE DEF stays
<1>5. (CHOOSE i \in stays : \A j \in stays : i <= j) = f
      BY <1>2, <1>3, <1>4
<1>6. TrimLeft(text, cut) = IF stays = {} THEN <<>>
                            ELSE SubSeq(text, CHOOSE i \in stays : \A j \in stays : i <= j, Len(text))
      BY DEF TrimLeft, stays
<1> QED BY <1>2, <1>5, <1>6

LEMMA TrimAll ==
    ASSUME NEW A, NEW text \in Seq(A), NEW cut, \A i \in 1 .. Len(text) : text[i] \in cut
    PROVE  TrimLeft(text, cut) = <<>>
BY LenProperties DEF TrimLeft

LEMMA TrimCases ==
    ASSUME NEW A, NEW text \in Seq(A), NEW cut
    PROVE  \/ \A i \in 1 .. Len(text) : text[i] \in cut
           \/ \E f : Stays(text, cut, f)
<1>1. Len(text) \in Nat
      BY LenProperties
<1> SUFFICES ASSUME NEW i \in 1 .. Len(text), text[i] \notin cut
             PROVE  \E f : Stays(text, cut, f)
    OBVIOUS
<1> DEFINE T == {j \in 1 .. Len(text) : text[j] \notin cut}
<1>2. T \in SUBSET Nat /\ T # {}
      BY <1>1
<1>3. PICK f \in T : \A j \in T : f <= j
  <2> HIDE DEF T
  <2> QED BY <1>2, LeastOf
<1>4. ASSUME NEW j \in 1 .. f - 1 PROVE text[j] \in cut
  <2>1. j \in 1 .. Len(text) /\ ~(f <= j)
        BY <1>1, <1>3
  <2> QED BY <1>3, <2>1
<1>5. f \in 1 .. Len(text) /\ text[f] \notin cut
      BY <1>3
<1> QED BY <1>4, <1>5 DEF Stays

\* What is cut of a text is cut of a longer one, whose tail is cut only if nothing is left.
LEMMA TrimFits ==
    ASSUME NEW A, NEW text \in Seq(A), NEW cut
    PROVE  /\ TrimLeft(text, cut) \in Seq(A)
           /\ TrimLeft(text, cut) = <<>> <=> \A i \in 1 .. Len(text) : text[i] \in cut
<1>1. CASE \A i \in 1 .. Len(text) : text[i] \in cut
      BY <1>1, TrimAll, EmptySeq
<1>2. ASSUME NEW f, Stays(text, cut, f)
      PROVE  TrimLeft(text, cut) \in Seq(A) /\ TrimLeft(text, cut) # <<>> /\ text[f] \notin cut
  <2>1. f \in 1 .. Len(text) /\ text[f] \notin cut
        BY <1>2 DEF Stays
  <2>2. f \in 1 .. Len(text) + 1 /\ Len(text) \in Nat
        BY <2>1, LenProperties
  <2>3. /\ SubSeq(text, f, Len(text)) \in Seq(A)
        /\ Len(SubSeq(text, f, Len(text))) = Len(text) - f + 1
        BY <2>2, TailReads
  <2>4. Len(SubSeq(text, f, Len(text))) # 0
        BY <2>1, <2>2, <2>3
  <2> QED BY <1>2, <2>1, <2>3, <2>4, TrimAt, EmptySeq
<1>3. CASE \E f : Stays(text, cut, f)
  <2>1. PICK f : Stays(text, cut, f)
        BY <1>3
  <2>2. f \in 1 .. Len(text)
        BY <2>1 DEF Stays
  <2> QED BY <1>2, <2>1, <2>2
<1> QED BY <1>1, <1>3, TrimCases

LEMMA TrimConcat ==
    ASSUME NEW A, NEW a \in Seq(A), NEW b \in Seq(A), NEW cut
    PROVE  TrimLeft(a \o b, cut) = IF TrimLeft(a, cut) = <<>> THEN TrimLeft(b, cut)
                                   ELSE TrimLeft(a, cut) \o b
<1>1. /\ Len(a \o b) = Len(a) + Len(b) /\ Len(a) \in Nat /\ Len(b) \in Nat
      /\ \A i \in 1 .. Len(a) : (a \o b)[i] = a[i]
      /\ \A i \in 1 .. Len(b) : (a \o b)[Len(a) + i] = b[i]
      BY OnePiece
<1>2. a \o b \in Seq(A)
      BY ConcatProperties
<1>3. CASE \A i \in 1 .. Len(a) : a[i] \in cut
  <2>1. TrimLeft(a, cut) = <<>>
        BY <1>3, TrimAll
  <2>2. CASE \A i \in 1 .. Len(b) : b[i] \in cut
    <3>1. ASSUME NEW i \in 1 .. Len(a \o b) PROVE (a \o b)[i] \in cut
      <4>1. CASE i <= Len(a)
        <5>1. i \in 1 .. Len(a)
              BY <1>1, <4>1
        <5> QED BY <1>1, <1>3, <5>1
      <4>2. CASE ~(i <= Len(a))
        <5>1. i - Len(a) \in 1 .. Len(b) /\ Len(a) + (i - Len(a)) = i
              BY <1>1, <4>2
        <5>2. (a \o b)[Len(a) + (i - Len(a))] = b[i - Len(a)]
              BY <1>1, <5>1
        <5> QED BY <2>2, <5>1, <5>2
      <4> QED BY <4>1, <4>2
    <3>2. TrimLeft(a \o b, cut) = <<>> /\ TrimLeft(b, cut) = <<>>
          BY <1>2, <2>2, <3>1, TrimAll
    <3> QED BY <2>1, <3>2
  <2>3. CASE \E f : Stays(b, cut, f)
    <3>1. PICK f : Stays(b, cut, f)
          BY <2>3
    <3>2. f \in 1 .. Len(b) /\ b[f] \notin cut /\ \A j \in 1 .. f - 1 : b[j] \in cut
          BY <3>1 DEF Stays
    <3>3. Stays(a \o b, cut, Len(a) + f)
      <4>1. Len(a) + f \in 1 .. Len(a \o b) /\ (a \o b)[Len(a) + f] \notin cut
            BY <1>1, <3>2
      <4>2. ASSUME NEW j \in 1 .. (Len(a) + f) - 1 PROVE (a \o b)[j] \in cut
        <5>1. CASE j <= Len(a)
          <6>1. j \in 1 .. Len(a)
                BY <1>1, <5>1
          <6> QED BY <1>1, <1>3, <6>1
        <5>2. CASE ~(j <= Len(a))
          <6>1. j - Len(a) \in 1 .. f - 1 /\ Len(a) + (j - Len(a)) = j
                BY <1>1, <3>2, <5>2
          <6>2. j - Len(a) \in 1 .. Len(b)
                BY <1>1, <3>2, <6>1
          <6>3. (a \o b)[Len(a) + (j - Len(a))] = b[j - Len(a)] /\ b[j - Len(a)] \in cut
                BY <1>1, <3>2, <6>1, <6>2
          <6> QED BY <6>1, <6>3
        <5> QED BY <5>1, <5>2
      <4> QED BY <4>1, <4>2 DEF Stays
    <3>4. TrimLeft(a \o b, cut) = SubSeq(a \o b, Len(a) + f, Len(a \o b))
          BY <1>2, <3>3, TrimAt
    <3>5. TrimLeft(b, cut) = SubSeq(b, f, Len(b))
          BY <3>1, TrimAt
    <3>6. SubSeq(a \o b, Len(a) + f, Len(a) + Len(b)) = SubSeq(b, (Len(a) + f) - Len(a), (Len(a) + Len(b)) - Len(a))
      <4>1. Len(a) + f \in Len(a) + 1 .. Len(a) + Len(b) /\ Len(a) + Len(b) \in Len(a) + 1 .. Len(a) + Len(b)
            BY <1>1, <3>2
      <4> QED BY <4>1, SubSeqOfConcat2
    <3>7. (Len(a) + f) - Len(a) = f /\ (Len(a) + Len(b)) - Len(a) = Len(b)
          BY <1>1, <3>2
    <3> QED BY <1>1, <2>1, <3>4, <3>5, <3>6, <3>7
  <2> QED BY <2>2, <2>3, TrimCases
<1>4. CASE \E f : Stays(a, cut, f)
  <2>1. PICK f : Stays(a, cut, f)
        BY <1>4
  <2>2. f \in 1 .. Len(a) /\ a[f] \notin cut /\ \A j \in 1 .. f - 1 : a[j] \in cut
        BY <2>1 DEF Stays
  <2>3. TrimLeft(a, cut) # <<>>
        BY <2>2, TrimFits
  <2>4. Stays(a \o b, cut, f)
    <3>1. f \in 1 .. Len(a \o b) /\ (a \o b)[f] \notin cut
          BY <1>1, <2>2
    <3>2. ASSUME NEW j \in 1 .. f - 1 PROVE (a \o b)[j] \in cut
      <4>1. j \in 1 .. Len(a)
            BY <1>1, <2>2
      <4> QED BY <1>1, <2>2, <4>1
    <3> QED BY <3>1, <3>2 DEF Stays
  <2>5. TrimLeft(a \o b, cut) = SubSeq(a \o b, f, Len(a \o b)) /\ TrimLeft(a, cut) = SubSeq(a, f, Len(a))
        BY <1>2, <2>1, <2>4, TrimAt
  <2>6. f \in 1 .. Len(a) + 1
        BY <1>1, <2>2
  <2>7. SubSeq(a \o b, f, Len(a \o b)) = SubSeq(a, f, Len(a)) \o b
        BY <2>6, TailOfConcat
  <2> QED BY <2>3, <2>5, <2>7
<1> QED BY <1>3, <1>4, TrimCases

\* The words.
LEMMA TokensAre ==
    /\ Range(Token) = {Token["steps"], Token["idea"]}
    /\ \A k \in {"steps", "idea"} :
          /\ Token[k] \in Seq(Pieces) /\ Len(Token[k]) = 2
          /\ Token[k][1] = (IF k = "steps" THEN "AUTONEXT" ELSE "AUTOIDEA")
          /\ Token[k][2] = "_DONE"
<1>1. DOMAIN Token = {"steps", "idea"}
      BY DEF Token
<1>2. Token["steps"] = <<"AUTONEXT", "_DONE">> /\ Token["idea"] = <<"AUTOIDEA", "_DONE">>
      BY DEF Token
<1>3. ASSUME NEW x \in Pieces, NEW y \in Pieces, NEW w, w = <<x, y>>
      PROVE  w \in Seq(Pieces) /\ Len(w) = 2 /\ w[1] = x /\ w[2] = y
      BY <1>3
<1>4. "AUTONEXT" \in Pieces /\ "AUTOIDEA" \in Pieces /\ "_DONE" \in Pieces
      BY DEF Pieces
<1>5. Range(Token) = {Token["steps"], Token["idea"]}
      BY <1>1 DEF Range
<1>6. ASSUME NEW k \in {"steps", "idea"}
      PROVE  /\ Token[k] \in Seq(Pieces) /\ Len(Token[k]) = 2
             /\ Token[k][1] = (IF k = "steps" THEN "AUTONEXT" ELSE "AUTOIDEA")
             /\ Token[k][2] = "_DONE"
  <2>1. CASE k = "steps"
    <3>1. /\ Token["steps"] \in Seq(Pieces) /\ Len(Token["steps"]) = 2
          /\ Token["steps"][1] = "AUTONEXT" /\ Token["steps"][2] = "_DONE"
          BY <1>2, <1>3, <1>4
    <3> QED BY <2>1, <3>1
  <2>2. CASE k = "idea"
    <3>1. /\ Token["idea"] \in Seq(Pieces) /\ Len(Token["idea"]) = 2
          /\ Token["idea"][1] = "AUTOIDEA" /\ Token["idea"][2] = "_DONE"
          BY <1>2, <1>3, <1>4
    <3> QED BY <2>2, <3>1
  <2> QED BY <2>1, <2>2
<1> QED BY <1>5, <1>6

LEMMA WordParts ==
    ASSUME NEW t \in Range(Token)
    PROVE  t \in Seq(Pieces) /\ Len(t) = 2 /\ t[1] \in Openings /\ t[2] = "_DONE"
<1>1. PICK k \in {"steps", "idea"} : t = Token[k]
      BY TokensAre
<1>2. t \in Seq(Pieces) /\ Len(t) = 2 /\ t[2] = "_DONE"
      BY <1>1, TokensAre
<1>3. t[1] = (IF k = "steps" THEN "AUTONEXT" ELSE "AUTOIDEA")
      BY <1>1, TokensAre
<1> QED BY <1>2, <1>3 DEF Openings

LEMMA WordOf ==
    ASSUME NEW x \in Openings
    PROVE  \E t \in Range(Token) : Len(t) = 2 /\ t[1] = x /\ t[2] = "_DONE"
<1>1. CASE x = "AUTONEXT"
      BY <1>1, TokensAre
<1>2. CASE x = "AUTOIDEA"
  <2>1. "idea" # "steps" /\ "idea" \in {"steps", "idea"}
        OBVIOUS
  <2>2. Token["idea"][1] = "AUTOIDEA"
        BY <2>1, TokensAre
  <2> QED BY <1>2, <2>2, TokensAre
<1> QED BY <1>1, <1>2 DEF Openings

LEMMA PrefixReads ==
    ASSUME NEW A, NEW s \in Seq(A), NEW t \in Seq(A)
    PROVE  IsPrefix(s, t) <=> Len(s) <= Len(t) /\ \A i \in 1 .. Len(s) : s[i] = t[i]
<1>1. Len(s) \in Nat /\ Len(t) \in Nat /\ s \in [1 .. Len(s) -> A] /\ t \in [1 .. Len(t) -> A]
      BY LenProperties
<1>2. SubSeq(s, 1, Len(s)) = s
      BY SubSeqFull
<1>3. ASSUME Len(s) <= Len(t)
      PROVE  /\ SubSeq(t, 1, Len(s)) \in Seq(A) /\ Len(SubSeq(t, 1, Len(s))) = Len(s)
             /\ \A i \in 1 .. Len(s) : SubSeq(t, 1, Len(s))[i] = t[i]
  <2>1. 1 \in Int /\ Len(s) \in Int /\ \A i \in 1 .. Len(s) : t[i] \in A
        BY <1>1, <1>3
  <2>2. /\ SubSeq(t, 1, Len(s)) \in Seq(A)
        /\ Len(SubSeq(t, 1, Len(s))) = IF 1 <= Len(s) THEN Len(s) - 1 + 1 ELSE 0
        /\ \A i \in 1 .. Len(s) - 1 + 1 : SubSeq(t, 1, Len(s))[i] = t[1 + i - 1]
        BY <2>1, SubSeqProperties
  <2>3. Len(SubSeq(t, 1, Len(s))) = Len(s)
        BY <1>1, <2>2
  <2>4. ASSUME NEW i \in 1 .. Len(s) PROVE SubSeq(t, 1, Len(s))[i] = t[i]
    <3>1. i \in 1 .. Len(s) - 1 + 1 /\ 1 + i - 1 = i
          BY <1>1
    <3> QED BY <2>2, <3>1
  <2> QED BY <2>2, <2>3, <2>4
<1>4. ASSUME Len(s) <= Len(t), \A i \in 1 .. Len(s) : s[i] = t[i] PROVE s = SubSeq(t, 1, Len(s))
      BY <1>3, <1>4, SeqEqual
<1> QED BY <1>2, <1>3, <1>4 DEF IsPrefix

\* A text begins with a word, may begin with one, and does so whatever comes.
LEMMA TellsIs ==
    ASSUME NEW s \in Seq(Pieces)
    PROVE  (\E t \in Range(Token) : IsPrefix(t, s)) <=> Len(s) >= 2 /\ s[1] \in Openings /\ s[2] = "_DONE"
<1>1. Len(s) \in Nat
      BY LenProperties
<1>2. ASSUME NEW t \in Range(Token)
      PROVE  IsPrefix(t, s) <=> Len(s) >= 2 /\ s[1] = t[1] /\ s[2] = t[2]
  <2>1. t \in Seq(Pieces) /\ Len(t) = 2
        BY WordParts
  <2>2. IsPrefix(t, s) <=> Len(t) <= Len(s) /\ \A i \in 1 .. Len(t) : t[i] = s[i]
        BY <2>1, PrefixReads
  <2>3. 1 .. 2 = {1, 2}
        OBVIOUS
  <2> QED BY <1>1, <2>1, <2>2, <2>3
<1>3. ASSUME NEW t \in Range(Token), IsPrefix(t, s)
      PROVE  Len(s) >= 2 /\ s[1] \in Openings /\ s[2] = "_DONE"
      BY <1>2, <1>3, WordParts
<1>4. ASSUME Len(s) >= 2, s[1] \in Openings, s[2] = "_DONE"
      PROVE  \E t \in Range(Token) : IsPrefix(t, s)
  <2>1. PICK t \in Range(Token) : Len(t) = 2 /\ t[1] = s[1] /\ t[2] = "_DONE"
        BY <1>4, WordOf
  <2> QED BY <1>2, <1>4, <2>1
<1> QED BY <1>3, <1>4

LEMMA MayTellIs ==
    ASSUME NEW s \in Seq(Pieces)
    PROVE  (\E t \in Range(Token) : IsPrefix(s, t)) <=>
               \/ Len(s) = 0
               \/ Len(s) = 1 /\ s[1] \in Openings
               \/ Len(s) = 2 /\ s[1] \in Openings /\ s[2] = "_DONE"
<1>1. Len(s) \in Nat
      BY LenProperties
<1>2. ASSUME NEW t \in Range(Token)
      PROVE  IsPrefix(s, t) <=> \/ Len(s) = 0
                                \/ Len(s) = 1 /\ s[1] = t[1]
                                \/ Len(s) = 2 /\ s[1] = t[1] /\ s[2] = t[2]
  <2>1. t \in Seq(Pieces) /\ Len(t) = 2
        BY WordParts
  <2>2. IsPrefix(s, t) <=> Len(s) <= Len(t) /\ \A i \in 1 .. Len(s) : s[i] = t[i]
        BY <2>1, PrefixReads
  <2>3. 1 .. 0 = {} /\ 1 .. 1 = {1} /\ 1 .. 2 = {1, 2}
        OBVIOUS
  <2>4. CASE Len(s) = 0
        BY <2>1, <2>2, <2>3, <2>4
  <2>5. CASE Len(s) = 1
        BY <2>1, <2>2, <2>3, <2>5
  <2>6. CASE Len(s) = 2
        BY <2>1, <2>2, <2>3, <2>6
  <2>7. CASE Len(s) \notin {0, 1, 2}
    <3>1. \A n \in Nat : n \in {0, 1, 2} \/ ~(n <= 2)
          OBVIOUS
    <3>2. ~(Len(s) <= 2)
          BY <1>1, <2>7, <3>1
    <3>3. ~IsPrefix(s, t)
          BY <2>1, <2>2, <3>2
    <3> QED BY <2>7, <3>3
  <2> QED BY <2>4, <2>5, <2>6, <2>7
<1>3. \E t \in Range(Token) : TRUE
      BY TokensAre
<1>4. ASSUME NEW t \in Range(Token), IsPrefix(s, t)
      PROVE  \/ Len(s) = 0
             \/ Len(s) = 1 /\ s[1] \in Openings
             \/ Len(s) = 2 /\ s[1] \in Openings /\ s[2] = "_DONE"
      BY <1>2, <1>4, WordParts
<1>5. ASSUME s[1] \in Openings, Len(s) = 1 PROVE \E t \in Range(Token) : IsPrefix(s, t)
  <2>1. PICK t \in Range(Token) : Len(t) = 2 /\ t[1] = s[1] /\ t[2] = "_DONE"
        BY <1>5, WordOf
  <2> QED BY <1>2, <1>5, <2>1
<1>7. ASSUME s[1] \in Openings, Len(s) = 2, s[2] = "_DONE" PROVE \E t \in Range(Token) : IsPrefix(s, t)
  <2>1. PICK t \in Range(Token) : Len(t) = 2 /\ t[1] = s[1] /\ t[2] = "_DONE"
        BY <1>7, WordOf
  <2> QED BY <1>2, <1>7, <2>1
<1>6. ASSUME Len(s) = 0 PROVE \E t \in Range(Token) : IsPrefix(s, t)
      BY <1>2, <1>3, <1>6
<1> QED BY <1>4, <1>5, <1>6, <1>7

-----------------------------------------------------------------------------

LEMMA Associates ==
    ASSUME NEW A, NEW a \in Seq(A), NEW b \in Seq(A), NEW c \in Seq(A)
    PROVE  a \o (b \o c) = (a \o b) \o c
BY ConcatAssociative

\* The first sequences make the same of two that begin with them.
Alike(s, u, n) == n <= Len(s) /\ n <= Len(u) /\ \A i \in 1 .. n : s[i] = u[i]

Meets(h, g, n) == h[n] = g[n]

LEMMA SameStart ==
    ASSUME NEW s, Len(s) \in Nat, NEW u, Len(u) \in Nat, NEW n \in Nat, Alike(s, u, n),
           NEW h, Flattens(h, s), NEW g, Flattens(g, u)
    PROVE  Meets(h, g, n)
<1> DEFINE P == {k \in 0 .. n : h[k] = g[k]}
<1>1. n <= Len(s) /\ n <= Len(u) /\ \A i \in 1 .. n : s[i] = u[i]
      BY DEF Alike
<1>2. h[0] = <<>> /\ g[0] = <<>>
      BY DEF Flattens
<1>3. 0 \in P
      BY <1>2
<1>4. ASSUME NEW k \in 0 .. n, k < n, k \in P PROVE k + 1 \in P
  <2>1. k + 1 \in 1 .. n /\ k + 1 \in 0 .. n /\ (k + 1) - 1 = k
        BY <1>4
  <2>2. k + 1 \in 1 .. Len(s) /\ k + 1 \in 1 .. Len(u)
        BY <1>1, <2>1
  <2>3. h[k + 1] = h[(k + 1) - 1] \o s[k + 1] /\ g[k + 1] = g[(k + 1) - 1] \o u[k + 1]
        BY <2>2 DEF Flattens
  <2>4. h[k] = g[k] /\ s[k + 1] = u[k + 1]
        BY <1>1, <1>4, <2>1
  <2> QED BY <2>1, <2>3, <2>4
<1> HIDE DEF P
<1>5. \A k \in 0 .. n : k \in P
      BY <1>3, <1>4, UpTo
<1>6. n \in P
      BY <1>5
<1> QED BY <1>6 DEF P, Meets

LEMMA LastGrows ==
    ASSUME NEW A, NEW s \in Seq(Seq(A)), s # <<>>, NEW c \in Seq(A)
    PROVE  /\ [s EXCEPT ![Len(s)] = @ \o c] \in Seq(Seq(A))
           /\ Len([s EXCEPT ![Len(s)] = @ \o c]) = Len(s)
           /\ FlattenSeq([s EXCEPT ![Len(s)] = @ \o c]) = FlattenSeq(s) \o c
<1> DEFINE n == Len(s)
           x == s[n] \o c
           u == [s EXCEPT ![n] = @ \o c]
<1>1. n \in Nat /\ n # 0 /\ n \in 1 .. n /\ n - 1 \in Nat
  <2>1. n \in Nat /\ n # 0
        BY EmptySeq, LenProperties
  <2> QED BY <2>1
<1>2. s[n] \in Seq(A)
  <2>1. s \in [1 .. n -> Seq(A)]
        BY LenProperties
  <2> QED BY <1>1, <2>1
<1>3. x \in Seq(A)
      BY <1>2, ConcatProperties
<1>4. u = [s EXCEPT ![n] = x]
      OBVIOUS
<1> HIDE DEF x
<1>5. u \in Seq(Seq(A)) /\ Len(u) = n /\ u[n] = x /\ \A i \in 1 .. n : i # n => u[i] = s[i]
  <2>1. /\ [s EXCEPT ![n] = x] \in Seq(Seq(A)) /\ Len([s EXCEPT ![n] = x]) = Len(s)
        /\ \A j \in 1 .. Len(s) : [s EXCEPT ![n] = x][j] = IF j = n THEN x ELSE s[j]
        BY <1>1, <1>3, ExceptSeq
  <2> HIDE DEF u
  <2> QED BY <1>1, <1>4, <2>1
<1> HIDE DEF u
<1>6. PICK h \in [0 .. n -> Seq(A)] : Flattens(h, s) /\ h[n] = FlattenSeq(s)
      BY FlattenSteps
<1>7. PICK g \in [0 .. Len(u) -> Seq(A)] : Flattens(g, u) /\ g[Len(u)] = FlattenSeq(u)
      BY <1>5, FlattenSteps
<1>8. h[n - 1] = g[n - 1] /\ h[n - 1] \in Seq(A)
  <2>1. \A i \in 1 .. n - 1 : s[i] = u[i]
        BY <1>1, <1>5
  <2>2. n - 1 <= Len(s) /\ n - 1 <= Len(u) /\ n - 1 \in 0 .. n
        BY <1>1, <1>5
  <2> DEFINE m == n - 1
  <2>3. m \in Nat /\ m <= Len(s) /\ m <= Len(u) /\ m \in 0 .. n /\ \A i \in 1 .. m : s[i] = u[i]
        BY <1>1, <2>1, <2>2
  <2>4. Flattens(h, s) /\ Flattens(g, u) /\ Len(s) \in Nat /\ Len(u) \in Nat
        BY <1>1, <1>5, <1>6, <1>7
  <2> HIDE DEF m, n
  <2>5. h[m] = g[m]
    <3>1. Alike(s, u, m)
          BY <2>3 DEF Alike
    <3>2. Meets(h, g, m)
          BY <2>3, <2>4, <3>1, SameStart
    <3> QED BY <3>2 DEF Meets
  <2>6. h[m] \in Seq(A)
        BY <2>3
  <2> QED BY <2>5, <2>6 DEF m
<1>9. h[n] = h[n - 1] \o s[n] /\ g[n] = g[n - 1] \o u[n]
      BY <1>1, <1>5, <1>6, <1>7 DEF Flattens
<1>10. h[n - 1] \o (s[n] \o c) = (h[n - 1] \o s[n]) \o c
  <2> DEFINE p == h[n - 1]
             q == s[n]
  <2>1. p \in Seq(A) /\ q \in Seq(A)
        BY <1>2, <1>8
  <2> HIDE DEF p, q
  <2>2. p \o (q \o c) = (p \o q) \o c
        BY <2>1, Associates
  <2> QED BY <2>2 DEF p, q
<1>11. FlattenSeq(u) = FlattenSeq(s) \o c
       BY <1>5, <1>6, <1>7, <1>8, <1>9, <1>10 DEF x
<1> QED BY <1>5, <1>11 DEF u

LEMMA EmptyAdded ==
    ASSUME NEW A, NEW s \in Seq(Seq(A))
    PROVE  /\ Append(s, <<>>) \in Seq(Seq(A)) /\ Append(s, <<>>) # <<>>
           /\ FlattenSeq(Append(s, <<>>)) = FlattenSeq(s)
<1> DEFINE n == Len(s)
           e == <<>>
<1>1. e \in Seq(A) /\ n \in Nat
      BY EmptySeq, LenProperties
<1> HIDE DEF e
<1> DEFINE u == Append(s, e)
<1>2. /\ u \in Seq(Seq(A)) /\ u # <<>> /\ Len(u) = n + 1
      /\ \A i \in 1 .. n : u[i] = s[i]
      /\ u[n + 1] = e
      BY <1>1, AppendProperties
<1> HIDE DEF u
<1>6. PICK h \in [0 .. n -> Seq(A)] : Flattens(h, s) /\ h[n] = FlattenSeq(s)
      BY FlattenSteps
<1>7. PICK g \in [0 .. Len(u) -> Seq(A)] : Flattens(g, u) /\ g[Len(u)] = FlattenSeq(u)
      BY <1>2, FlattenSteps
<1>8. h[n] = g[n] /\ h[n] \in Seq(A)
  <2>1. n <= Len(s) /\ n <= Len(u) /\ n \in 0 .. n
        BY <1>1, <1>2
  <2>2. Flattens(h, s) /\ Flattens(g, u) /\ Len(s) \in Nat /\ Len(u) \in Nat
        BY <1>1, <1>2, <1>6, <1>7
  <2>3. n \in Nat
        BY <1>1
  <2>4. h[n] \in Seq(A)
        BY <2>1
  <2> HIDE DEF n
  <2>5. h[n] = g[n]
    <3>1. Alike(s, u, n)
          BY <1>2, <2>1 DEF Alike
    <3>2. Meets(h, g, n)
          BY <2>2, <2>3, <3>1, SameStart
    <3> QED BY <3>2 DEF Meets
  <2> QED BY <2>4, <2>5
<1>9. g[n + 1] = g[n] \o e
  <2>1. n + 1 \in 1 .. Len(u) /\ (n + 1) - 1 = n
        BY <1>1, <1>2
  <2>2. g[n + 1] = g[(n + 1) - 1] \o u[n + 1]
        BY <1>7, <2>1 DEF Flattens
  <2> QED BY <1>2, <2>1, <2>2
<1>10. h[n] \o <<>> = h[n]
       BY <1>8, ConcatEmptySeq
<1>11. FlattenSeq(u) = FlattenSeq(s)
       BY <1>2, <1>6, <1>7, <1>8, <1>9, <1>10 DEF e
<1> QED BY <1>2, <1>11 DEF u, e

LEMMA OnlyOne ==
    ASSUME NEW A, NEW s \in Seq(Seq(A)), Len(s) = 1
    PROVE  FlattenSeq(s) = s[1] /\ s[1] \in Seq(A)
<1>1. PICK h \in [0 .. Len(s) -> Seq(A)] : Flattens(h, s) /\ h[Len(s)] = FlattenSeq(s)
      BY FlattenSteps
<1>2. 1 \in 1 .. Len(s) /\ 1 - 1 = 0 /\ s \in [1 .. Len(s) -> Seq(A)]
      BY LenProperties
<1>3. s[1] \in Seq(A)
      BY <1>2
<1>4. h[0] = <<>> /\ h[1] = h[1 - 1] \o s[1]
      BY <1>1, <1>2 DEF Flattens
<1>5. <<>> \o s[1] = s[1]
      BY <1>3, ConcatEmptySeq
<1> QED BY <1>1, <1>2, <1>3, <1>4, <1>5

-----------------------------------------------------------------------------

\* A text that begins with a word, or may still begin with one; and what of an answer that
\* is told so far the stream filter has shown, and what it holds.
Tells(start) == \E t \in Range(Token) : IsPrefix(t, start)
MayTell(start) == \E t \in Range(Token) : IsPrefix(start, t)
Shows(m, b, s, text) ==
    \/ m = "undecided" /\ b = text /\ s = <<>> /\ MayTell(Begun(text))
    \/ m = "strip" /\ b = <<>> /\ s = <<>> /\ Tells(Begun(text)) /\ Rest(Begun(text)) = <<>>
    \/ m = "pass" /\ b = <<>> /\ Tells(Begun(text)) /\ Rest(Begun(text)) # <<>> /\ s = Rest(Begun(text))
    \/ m = "pass" /\ b = <<>> /\ ~Tells(Begun(text)) /\ ~MayTell(Begun(text)) /\ s = text

LEMMA RestFits ==
    ASSUME NEW s \in Seq(Pieces), Tells(s)
    PROVE  /\ SubSeq(s, 3, Len(s)) \in Seq(Pieces) /\ Rest(s) \in Seq(Pieces)
           /\ 3 \in 1 .. Len(s) + 1 /\ s # <<>>
<1>1. Len(s) >= 2 /\ Len(s) \in Nat
      BY TellsIs, LenProperties DEF Tells
<1>2. 3 \in 1 .. Len(s) + 1 /\ Len(s) # 0
      BY <1>1
<1>3. SubSeq(s, 3, Len(s)) \in Seq(Pieces)
      BY <1>2, TailReads
<1> QED BY <1>2, <1>3, TrimFits, EmptySeq DEF Rest

\* More of a text that begins with a word, or can begin with none.
LEMMA TellsOn ==
    ASSUME NEW s \in Seq(Pieces), NEW c \in Seq(Pieces), Tells(s)
    PROVE  Tells(s \o c) /\ Rest(s \o c) = IF Rest(s) = <<>> THEN TrimLeft(c, {" ", ":"}) ELSE Rest(s) \o c
<1>1. /\ Len(s \o c) = Len(s) + Len(c) /\ Len(s) \in Nat /\ Len(c) \in Nat
      /\ \A i \in 1 .. Len(s) : (s \o c)[i] = s[i]
      BY OnePiece
<1>2. Len(s) >= 2 /\ s[1] \in Openings /\ s[2] = "_DONE"
      BY TellsIs DEF Tells
<1>3. s \o c \in Seq(Pieces)
      BY ConcatProperties
<1>4. Tells(s \o c)
  <2>1. 1 \in 1 .. Len(s) /\ 2 \in 1 .. Len(s) /\ Len(s \o c) >= 2
        BY <1>1, <1>2
  <2>2. (s \o c)[1] = s[1] /\ (s \o c)[2] = s[2]
        BY <1>1, <2>1
  <2> QED BY <1>2, <1>3, <2>1, <2>2, TellsIs DEF Tells
<1>5. SubSeq(s \o c, 3, Len(s \o c)) = SubSeq(s, 3, Len(s)) \o c /\ SubSeq(s, 3, Len(s)) \in Seq(Pieces)
  <2>1. 3 \in 1 .. Len(s) + 1 /\ SubSeq(s, 3, Len(s)) \in Seq(Pieces)
        BY RestFits
  <2> QED BY <2>1, TailOfConcat
<1>6. Rest(s \o c) = IF Rest(s) = <<>> THEN TrimLeft(c, {" ", ":"}) ELSE Rest(s) \o c
  <2> DEFINE r == SubSeq(s, 3, Len(s))
             cut == {" ", ":"}
  <2>1. r \in Seq(Pieces) /\ SubSeq(s \o c, 3, Len(s \o c)) = r \o c
        BY <1>5
  <2>2. Rest(s) = TrimLeft(r, cut) /\ Rest(s \o c) = TrimLeft(r \o c, cut)
        BY <2>1 DEF Rest
  <2> HIDE DEF r, cut
  <2>3. TrimLeft(r \o c, cut) = IF TrimLeft(r, cut) = <<>> THEN TrimLeft(c, cut) ELSE TrimLeft(r, cut) \o c
        BY <2>1, TrimConcat
  <2> QED BY <2>2, <2>3 DEF cut
<1> QED BY <1>4, <1>6

LEMMA TellsNoMore ==
    ASSUME NEW s \in Seq(Pieces), NEW c \in Seq(Pieces), ~Tells(s), ~MayTell(s)
    PROVE  ~Tells(s \o c) /\ ~MayTell(s \o c) /\ s # <<>>
<1>1. /\ Len(s \o c) = Len(s) + Len(c) /\ Len(s) \in Nat /\ Len(c) \in Nat
      /\ \A i \in 1 .. Len(s) : (s \o c)[i] = s[i]
      BY OnePiece
<1>2. s \o c \in Seq(Pieces)
      BY ConcatProperties
<1>3. ~(Len(s) >= 2 /\ s[1] \in Openings /\ s[2] = "_DONE")
      BY TellsIs DEF Tells
<1>4. /\ Len(s) # 0
      /\ ~(Len(s) = 1 /\ s[1] \in Openings)
      /\ ~(Len(s) = 2 /\ s[1] \in Openings /\ s[2] = "_DONE")
      BY MayTellIs DEF MayTell
<1>5. 1 \in 1 .. Len(s) /\ (s \o c)[1] = s[1]
  <2>1. 1 \in 1 .. Len(s)
        BY <1>1, <1>4
  <2> QED BY <1>1, <2>1
<1>6. ~((s \o c)[1] \in Openings /\ (s \o c)[2] = "_DONE") /\ (Len(s \o c) = 1 => ~((s \o c)[1] \in Openings))
  <2>1. CASE Len(s) = 1
        BY <1>4, <1>5, <2>1
  <2>2. CASE Len(s) # 1
    <3>1. Len(s) >= 2 /\ 2 \in 1 .. Len(s) /\ Len(s \o c) # 1
          BY <1>1, <1>4, <2>2
    <3>2. (s \o c)[2] = s[2]
          BY <1>1, <3>1
    <3> QED BY <1>3, <1>5, <3>1, <3>2
  <2> QED BY <2>1, <2>2
<1>7. ~Tells(s \o c)
      BY <1>2, <1>6, TellsIs DEF Tells
<1>8. ~MayTell(s \o c)
  <2>1. Len(s \o c) # 0
        BY <1>1, <1>4
  <2> QED BY <1>2, <1>6, <2>1, MayTellIs DEF MayTell
<1>9. s # <<>>
      BY <1>4, EmptySeq
<1> QED BY <1>7, <1>8, <1>9

\* What is decided of a text that was held.
LEMMA DecidedShows ==
    ASSUME NEW text \in Seq(Pieces)
    PROVE  /\ Shows(Decided(text).mode, Decided(text).buffer, Decided(text).out, text)
           /\ Decided(text).out \in Seq(Pieces)
<1> DEFINE start == Begun(text)
           token == CHOOSE t \in Range(Token) : IsPrefix(t, start)
           D == Decided(text)
<1>1. start \in Seq(Pieces)
      BY TrimFits DEF Begun
<1>2. D = IF MayTell(start) THEN [mode |-> "undecided", buffer |-> text, out |-> <<>>]
          ELSE IF Tells(start) THEN Stripped(SubSeq(start, Len(token) + 1, Len(start)))
          ELSE [mode |-> "pass", buffer |-> <<>>, out |-> text]
      BY DEF Decided, Begun, MayTell, Tells
<1> HIDE DEF D, start
<1>3. CASE MayTell(start)
  <2>1. D = [mode |-> "undecided", buffer |-> text, out |-> <<>>]
        BY <1>2, <1>3
  <2>2. D.mode = "undecided" /\ D.buffer = text /\ D.out = <<>>
        BY <2>1
  <2> QED BY <1>3, <2>2, EmptySeq DEF Shows, D, start
<1>4. CASE ~MayTell(start) /\ Tells(start)
  <2>1. token \in Range(Token)
        BY <1>4 DEF Tells
  <2>2. Len(token) + 1 = 3
    <3> HIDE DEF token
    <3>1. Len(token) = 2
          BY <2>1, WordParts
    <3> QED BY <3>1
  <2> HIDE DEF token
  <2>3. D = Stripped(SubSeq(start, 3, Len(start)))
        BY <1>2, <1>4, <2>2
  <2>4. D = [mode |-> IF Rest(start) = <<>> THEN "strip" ELSE "pass", buffer |-> <<>>, out |-> Rest(start)]
        BY <2>3 DEF Stripped, Rest
  <2> DEFINE m == IF Rest(start) = <<>> THEN "strip" ELSE "pass"
  <2>5. D.mode = m /\ D.buffer = <<>> /\ D.out = Rest(start)
        BY <2>4
  <2>6. Rest(start) \in Seq(Pieces)
        BY <1>1, <1>4, RestFits
  <2>7. CASE Rest(start) = <<>>
        BY <1>4, <2>5, <2>6, <2>7 DEF Shows, D, start
  <2>8. CASE Rest(start) # <<>>
        BY <1>4, <2>5, <2>6, <2>8 DEF Shows, D, start
  <2> QED BY <2>7, <2>8
<1>5. CASE ~MayTell(start) /\ ~Tells(start)
  <2>1. D = [mode |-> "pass", buffer |-> <<>>, out |-> text]
        BY <1>2, <1>5
  <2>2. D.mode = "pass" /\ D.buffer = <<>> /\ D.out = text
        BY <2>1
  <2> QED BY <1>5, <2>2 DEF Shows, D, start
<1> QED BY <1>3, <1>4, <1>5

\* A chunk is shown, held or taken out, as the whole text asks.
LEMMA ChunkShows ==
    ASSUME NEW text \in Seq(Pieces), NEW c \in Seq(Pieces), Shows(mode, buffer, shown, text)
    PROVE  /\ Shows(Consumed(c).mode, Consumed(c).buffer, shown \o Consumed(c).out, text \o c)
           /\ Consumed(c).out \in Seq(Pieces)
<1> DEFINE start == Begun(text)
           N == Consumed(c)
           later == Begun(text \o c)
<1>1. start \in Seq(Pieces) /\ text \o c \in Seq(Pieces)
      BY TrimFits, ConcatProperties DEF Begun
<1>2. start # <<>> => later = start \o c
  <2> DEFINE cut == {" "}
  <2>1. later = TrimLeft(text \o c, cut) /\ start = TrimLeft(text, cut)
        BY DEF Begun
  <2> HIDE DEF cut, start, later
  <2> QED BY <2>1, TrimConcat
<1>3. CASE mode = "undecided" /\ buffer = text /\ shown = <<>>
  <2>1. N = Decided(text \o c)
        BY <1>3 DEF Consumed
  <2>2. Shows(N.mode, N.buffer, N.out, text \o c) /\ N.out \in Seq(Pieces)
        BY <1>1, <2>1, DecidedShows
  <2> HIDE DEF N
  <2>3. shown \o N.out = N.out
        BY <1>3, <2>2, ConcatEmptySeq
  <2> QED BY <2>2, <2>3 DEF N
<1>4. CASE mode = "strip" /\ buffer = <<>> /\ shown = <<>> /\ Tells(start) /\ Rest(start) = <<>>
  <2>1. N = Stripped(c)
        BY <1>4 DEF Consumed
  <2> DEFINE r == TrimLeft(c, {" ", ":"})
  <2>2. N = [mode |-> IF r = <<>> THEN "strip" ELSE "pass", buffer |-> <<>>, out |-> r]
        BY <2>1 DEF Stripped
  <2>3. r \in Seq(Pieces)
        BY TrimFits
  <2> HIDE DEF r, N, start, later
  <2>4. start # <<>> /\ Tells(start \o c) /\ Rest(start \o c) = r
        BY <1>1, <1>4, RestFits, TellsOn DEF r
  <2>5. Tells(later) /\ Rest(later) = r
        BY <1>2, <2>4
  <2>6. N.mode = (IF r = <<>> THEN "strip" ELSE "pass") /\ N.buffer = <<>> /\ N.out = r
        BY <2>2
  <2>7. shown \o N.out = r
        BY <1>4, <2>3, <2>6, ConcatEmptySeq
  <2>8. CASE r = <<>>
        BY <2>3, <2>5, <2>6, <2>7, <2>8 DEF Shows, N, later
  <2>9. CASE r # <<>>
        BY <2>3, <2>5, <2>6, <2>7, <2>9 DEF Shows, N, later
  <2> QED BY <2>8, <2>9
<1>5. ASSUME mode = "pass" PROVE N.mode = "pass" /\ N.buffer = <<>> /\ N.out = c
  <2>1. N = [mode |-> "pass", buffer |-> <<>>, out |-> c]
        BY <1>5 DEF Consumed
  <2> QED BY <2>1
<1>6. CASE mode = "pass" /\ Tells(start) /\ Rest(start) # <<>> /\ shown = Rest(start)
  <2>1. Rest(start) \in Seq(Pieces) /\ start # <<>>
        BY <1>1, <1>6, RestFits
  <2>2. Tells(later) /\ Rest(later) = Rest(start) \o c
        BY <1>1, <1>2, <1>6, <2>1, TellsOn
  <2> HIDE DEF N, start, later
  <2>3. Rest(start) \o c # <<>>
    <3>1. Len(Rest(start) \o c) = Len(Rest(start)) + Len(c) /\ Len(Rest(start)) \in Nat /\ Len(c) \in Nat
          BY <2>1, OnePiece
    <3>2. Len(Rest(start)) # 0
          BY <1>6, <2>1, EmptySeq
    <3>3. Len(Rest(start) \o c) # 0
          BY <3>1, <3>2
    <3> QED BY <3>3, EmptySeq
  <2> QED BY <1>5, <1>6, <2>2, <2>3 DEF Shows, N, later
<1>7. CASE mode = "pass" /\ ~Tells(start) /\ ~MayTell(start) /\ shown = text
  <2>1. ~Tells(later) /\ ~MayTell(later)
        BY <1>1, <1>2, <1>7, TellsNoMore
  <2> HIDE DEF N, start, later
  <2> QED BY <1>5, <1>7, <2>1 DEF Shows, N, later
<1> QED BY <1>3, <1>4, <1>6, <1>7 DEF Shows

LEMMA SanitizedIs ==
    ASSUME NEW text
    PROVE  Sanitized(text) = IF ~Tells(Begun(text)) THEN text
                             ELSE IF Rest(Begun(text)) = <<>> THEN DoneNote ELSE Rest(Begun(text))
BY DEF Sanitized, Tells, Begun, Rest

\* A text that is still held when it begins with a word is that word.
LEMMA BareWord ==
    ASSUME NEW s \in Seq(Pieces), Tells(s), MayTell(s)
    PROVE  s \in Range(Token) /\ Rest(s) = <<>>
<1>1. Len(s) >= 2 /\ Len(s) \in Nat
      BY TellsIs, LenProperties DEF Tells
<1>2. Len(s) = 2
      BY <1>1, MayTellIs DEF MayTell
<1>3. PICK t \in Range(Token) : IsPrefix(s, t)
      BY DEF MayTell
<1>4. t \in Seq(Pieces) /\ Len(t) = Len(s)
      BY <1>2, WordParts
<1>5. \A i \in 1 .. Len(s) : s[i] = t[i]
      BY <1>3, <1>4, PrefixReads
<1>6. s = t
      BY <1>4, <1>5, SeqEqual
<1>7. SubSeq(s, 3, Len(s)) = <<>>
      BY <1>2, SubSeqEmpty
<1>8. TrimLeft(<<>>, {" ", ":"}) = <<>>
  <2>1. <<>> \in Seq(Pieces) /\ Len(<<>>) = 0
        BY EmptySeq
  <2>2. \A i \in 1 .. Len(<<>>) : <<>>[i] \in {" ", ":"}
    <3>1. 1 .. 0 = {}
          OBVIOUS
    <3> QED BY <2>1, <3>1
  <2> QED BY <2>1, <2>2, TrimAll
<1> QED BY <1>6, <1>7, <1>8 DEF Rest

LEMMA BeginsMarks ==
    ASSUME NEW text \in Seq(Pieces), NEW k \in {"steps", "idea"}, BeginsWith(text, Token[k])
    PROVE  IsPrefix(Token[k], TrimLeft(text, {" "}))
<1> DEFINE w == Token[k]
           cut == {" "}
<1>1. w \in Seq(Pieces) /\ Len(w) = 2 /\ w[1] \notin cut
  <2>1. w \in Range(Token)
        BY TokensAre
  <2>2. w[1] \in Openings
        BY <2>1, WordParts
  <2> QED BY <2>1, <2>2, WordParts DEF Openings
<1> HIDE DEF w
<1>2. PICK i \in 1 .. Len(text) - 1 : SubSeq(text, i, i + 1) = w /\ \A j \in 1 .. i - 1 : text[j] = " "
      BY DEF BeginsWith, w
<1>3. Len(text) \in Nat /\ text \in [1 .. Len(text) -> Pieces]
      BY LenProperties
<1>4. i \in 1 .. Len(text) /\ i + 1 \in 1 .. Len(text) /\ i <= Len(text) - 1
  <2>1. Len(text) \in Nat /\ i \in 1 .. Len(text) - 1
        BY <1>3
  <2> QED BY <2>1
<1>5. w[1] = text[i] /\ w[2] = text[i + 1]
  <2>1. \A j \in i .. i + 1 : text[j] \in Pieces
        BY <1>3, <1>4
  <2>2. \A j \in 1 .. (i + 1) - i + 1 : SubSeq(text, i, i + 1)[j] = text[i + j - 1]
    <3>1. i \in Int /\ i + 1 \in Int
          BY <1>4
    <3> QED BY <2>1, <3>1, SubSeqProperties
  <2>3. 1 \in 1 .. (i + 1) - i + 1 /\ 2 \in 1 .. (i + 1) - i + 1 /\ i + 1 - 1 = i /\ i + 2 - 1 = i + 1
        BY <1>4
  <2> QED BY <1>2, <2>2, <2>3
<1>6. Stays(text, cut, i)
      BY <1>1, <1>2, <1>4, <1>5 DEF Stays
<1> HIDE DEF cut
<1>7. TrimLeft(text, cut) = SubSeq(text, i, Len(text))
      BY <1>6, TrimAt
<1> DEFINE u == SubSeq(text, i, Len(text))
<1>8. u \in Seq(Pieces) /\ Len(u) = Len(text) - i + 1 /\ u[1] = text[i] /\ u[2] = text[i + 1]
  <2>1. i \in 1 .. Len(text) + 1
        BY <1>3, <1>4
  <2>2. /\ u \in Seq(Pieces) /\ Len(u) = Len(text) - i + 1
        /\ \A j \in 1 .. Len(text) - i + 1 : u[j] = text[i + j - 1]
        BY <2>1, TailReads
  <2>3. 1 \in 1 .. Len(text) - i + 1 /\ 2 \in 1 .. Len(text) - i + 1 /\ i + 1 - 1 = i /\ i + 2 - 1 = i + 1
    <3>1. Len(text) \in Nat /\ i \in Int /\ i <= Len(text) - 1
          BY <1>3, <1>4
    <3> HIDE DEF u
    <3> QED BY <3>1
  <2> QED BY <2>2, <2>3
<1> HIDE DEF u
<1>9. Len(w) <= Len(u)
  <2>1. Len(text) \in Nat /\ i \in Int /\ i <= Len(text) - 1
        BY <1>3, <1>4
  <2>2. Len(text) - i + 1 >= 2
        BY <2>1
  <2> QED BY <1>1, <1>8, <2>2
<1>10. \A j \in 1 .. Len(w) : w[j] = u[j]
  <2>1. 1 .. 2 = {1, 2}
        OBVIOUS
  <2> QED BY <1>1, <1>5, <1>8, <2>1
<1>11. IsPrefix(w, u)
       BY <1>1, <1>8, <1>9, <1>10, PrefixReads
<1> QED BY <1>7, <1>11 DEF w, u, cut

-----------------------------------------------------------------------------

\* The filter is where the text of the answer has brought it, and a turn that is not a
\* follow-up leaves it alone.
FollowIInv ==
    /\ kind \in {"idle", "none", "steps", "idea"} /\ mode \in {"pass", "undecided", "strip"}
    /\ ended \in {"none", "completed", "failed"} /\ lastKind \in {"none", "steps", "idea"}
    /\ said \in Seq(Seq(Pieces)) /\ (kind # "idle" => said # <<>>)
    /\ kind \in {"steps", "idea"} => Shows(mode, buffer, shown, Raw)
    /\ kind \in {"idle", "none"} => mode = "pass" /\ buffer = <<>>
    /\ ShownIsKept

LEMMA FollowStarts == FollowInit => FollowIInv
BY EmptySeq DEF FollowInit, FollowIInv, ShownIsKept, Ended

LEMMA RawFits == FollowIInv => Raw \in Seq(Pieces)
BY FlattenPlaces DEF FollowIInv, Raw

LEMMA BeginFits == FollowIInv /\ (\E k \in {"none", "steps", "idea"} : Begin(k)) => FollowIInv'
<1> SUFFICES ASSUME FollowIInv, NEW k \in {"none", "steps", "idea"}, Begin(k) PROVE FollowIInv'
    OBVIOUS
<1> DEFINE e == <<>>
<1>1. e \in Seq(Pieces) /\ e \in Seq(Seq(Pieces)) /\ Len(e) = 0
      BY EmptySeq
<1>2. kind' = k /\ said' = <<e>> /\ shown' = e /\ buffer' = e /\ ended' = ended /\ lastKind' = lastKind
      BY DEF Begin
<1>3. mode' = IF k = "none" THEN "pass" ELSE "undecided"
      BY DEF Begin
<1> HIDE DEF e
<1>4. said' \in Seq(Seq(Pieces)) /\ Len(said') = 1 /\ said'[1] = e /\ said' # <<>>
  <2>1. said' \in Seq(Seq(Pieces)) /\ Len(said') = 1 /\ said'[1] = e
        BY <1>1, <1>2
  <2>2. said' = <<>> => Len(said') = 0
        BY EmptySeq
  <2> QED BY <2>1, <2>2
<1>5. Raw' = e
      BY <1>4, OnlyOne DEF Raw
<1>6. Begun(e) = e /\ MayTell(e)
  <2>1. \A i \in 1 .. Len(e) : e[i] \in {" "}
    <3>1. Len(e) = 0 /\ 1 .. 0 = {}
          BY <1>1
    <3> QED BY <3>1
  <2>2. TrimLeft(e, {" "}) = <<>>
        BY <1>1, <2>1, TrimAll
  <2>3. MayTell(e)
        BY <1>1, MayTellIs DEF MayTell
  <2> QED BY <2>2, <2>3 DEF Begun, e
<1>7. (kind \in {"steps", "idea"} => Shows(mode, buffer, shown, Raw))'
  <2> SUFFICES ASSUME k \in {"steps", "idea"} PROVE Shows(mode', buffer', shown', Raw')
      BY <1>2
  <2>1. mode' = "undecided"
        BY <1>3
  <2> QED BY <1>2, <1>5, <1>6, <2>1 DEF Shows, e
<1>8. (kind \in {"idle", "none"} => mode = "pass" /\ buffer = <<>>)'
      BY <1>2, <1>3 DEF e
<1>9. ShownIsKept'
      BY <1>2 DEF ShownIsKept, Ended
<1>10. mode' \in {"pass", "undecided", "strip"}
       BY <1>3
<1> QED BY <1>2, <1>4, <1>7, <1>8, <1>9, <1>10 DEF FollowIInv

LEMMA ChunkFits == FollowIInv /\ Chunk => FollowIInv'
<1> SUFFICES ASSUME FollowIInv, Chunk PROVE FollowIInv'
    OBVIOUS
<1>1. PICK n \in 1 .. MaxChunk : \E chunk \in [1 .. n -> Pieces] :
        /\ said' = [said EXCEPT ![Len(said)] = @ \o chunk]
        /\ mode' = Consumed(chunk).mode /\ buffer' = Consumed(chunk).buffer
        /\ shown' = shown \o Consumed(chunk).out
        /\ UNCHANGED <<kind, ended, lastKind, kept>>
      BY DEF Chunk
<1>2. PICK c \in [1 .. n -> Pieces] :
        /\ said' = [said EXCEPT ![Len(said)] = @ \o c]
        /\ mode' = Consumed(c).mode /\ buffer' = Consumed(c).buffer
        /\ shown' = shown \o Consumed(c).out
        /\ UNCHANGED <<kind, ended, lastKind, kept>>
      BY <1>1
<1>3. c \in Seq(Pieces) /\ kind # "idle"
  <2>1. n \in Nat
        BY FollowUpAssumption
  <2> QED BY <2>1, MakesSeq DEF Chunk
<1>4. said' \in Seq(Seq(Pieces)) /\ said' # <<>> /\ Raw' = Raw \o c
  <2>1. said \in Seq(Seq(Pieces)) /\ said # <<>>
        BY <1>3 DEF FollowIInv
  <2>2. said' \in Seq(Seq(Pieces)) /\ Len(said') = Len(said) /\ FlattenSeq(said') = FlattenSeq(said) \o c
        BY <1>2, <1>3, <2>1, LastGrows
  <2>3. Len(said') # 0
        BY <2>1, <2>2, EmptySeq
  <2> QED BY <2>2, <2>3, EmptySeq DEF Raw
<1>5. Raw \in Seq(Pieces)
      BY RawFits
<1>6. ASSUME kind \in {"steps", "idea"} PROVE Shows(mode', buffer', shown', Raw')
      BY <1>2, <1>3, <1>4, <1>5, <1>6, ChunkShows DEF FollowIInv
<1>7. ASSUME kind = "none" PROVE mode' = "pass" /\ buffer' = <<>>
  <2>1. Consumed(c) = [mode |-> "pass", buffer |-> <<>>, out |-> c]
        BY <1>7 DEF FollowIInv, Consumed
  <2> QED BY <1>2, <2>1
<1>8. mode' \in {"pass", "undecided", "strip"}
  <2>1. kind \in {"none", "steps", "idea"}
        BY <1>3 DEF FollowIInv
  <2> QED BY <1>6, <1>7, <2>1 DEF Shows
<1>9. ShownIsKept'
      BY <1>2, <1>3 DEF ShownIsKept, Ended
<1> QED BY <1>2, <1>3, <1>4, <1>6, <1>7, <1>8, <1>9 DEF FollowIInv

LEMMA NextMessageFits == FollowIInv /\ NextMessage => FollowIInv'
<1> SUFFICES ASSUME FollowIInv, NextMessage PROVE FollowIInv'
    OBVIOUS
<1>1. /\ kind # "idle" /\ said' = Append(said, <<>>)
      /\ UNCHANGED <<kind, shown, mode, buffer, ended, lastKind, kept>>
      BY DEF NextMessage
<1>2. said' \in Seq(Seq(Pieces)) /\ said' # <<>> /\ Raw' = Raw
  <2>1. said \in Seq(Seq(Pieces))
        BY DEF FollowIInv
  <2> QED BY <1>1, <2>1, EmptyAdded DEF Raw
<1>3. ShownIsKept'
      BY <1>1 DEF ShownIsKept, Ended
<1> QED BY <1>1, <1>2, <1>3 DEF FollowIInv

\* The end of a follow-up turn of one message.
LEMMA CompleteShows ==
    ASSUME FollowIInv, Complete, kind \in {"steps", "idea"}, Len(said) = 1
    PROVE  ShownIsKept'
<1> DEFINE text == said[1]
           start == Begun(text)
<1>1. Raw = text /\ text \in Seq(Pieces) /\ start \in Seq(Pieces)
  <2>1. Raw = text /\ text \in Seq(Pieces)
        BY OnlyOne DEF FollowIInv, Raw
  <2> QED BY <2>1, TrimFits DEF Begun
<1>2. kept'[1] = Sanitized(text)
  <2>1. 1 \in DOMAIN said
        BY LenProperties DEF FollowIInv
  <2> QED BY <2>1 DEF Complete
<1>3. Sanitized(text) = IF ~Tells(start) THEN text
                        ELSE IF Rest(start) = <<>> THEN DoneNote ELSE Rest(start)
      BY SanitizedIs
<1>4. Shows(mode, buffer, shown, text)
      BY <1>1 DEF FollowIInv
<1>5. shown' = IF mode = "undecided" THEN shown \o buffer ELSE shown
      BY DEF Complete, Flushed
<1>6. Raw' = text
      BY <1>1 DEF Complete, Raw
<1>7. \/ shown' = kept'[1]
      \/ kept'[1] = DoneNote /\ (shown' = <<>> \/ start \in Range(Token))
  <2>1. CASE mode = "undecided" /\ buffer = text /\ shown = <<>> /\ MayTell(start)
    <3>1. CASE Tells(start)
          BY <1>1, <1>2, <1>3, <2>1, <3>1, BareWord
    <3>2. CASE ~Tells(start)
      <4>1. shown' = text
        <5>1. <<>> \o text = text
              BY <1>1, ConcatEmptySeq
        <5> QED BY <1>5, <2>1, <5>1
      <4> QED BY <1>2, <1>3, <3>2, <4>1
    <3> QED BY <3>1, <3>2
  <2>2. CASE mode = "strip" /\ shown = <<>> /\ Tells(start) /\ Rest(start) = <<>>
        BY <1>2, <1>3, <1>5, <2>2
  <2>3. CASE mode = "pass" /\ Tells(start) /\ Rest(start) # <<>> /\ shown = Rest(start)
        BY <1>2, <1>3, <1>5, <2>3
  <2>4. CASE mode = "pass" /\ ~Tells(start) /\ shown = text
        BY <1>2, <1>3, <1>5, <2>4
  <2> QED BY <1>4, <2>1, <2>2, <2>3, <2>4 DEF Shows
<1> QED BY <1>6, <1>7 DEF ShownIsKept, Begun

LEMMA CompleteFits == FollowIInv /\ Complete => FollowIInv'
<1> SUFFICES ASSUME FollowIInv, Complete PROVE FollowIInv'
    OBVIOUS
<1>1. /\ kind # "idle" /\ mode' = "pass" /\ buffer' = <<>>
      /\ kind' = "idle" /\ ended' = "completed" /\ lastKind' = kind /\ said' = said
      BY DEF Complete
<1>2. ShownIsKept'
  <2>1. CASE kind \in {"steps", "idea"} /\ Len(said) = 1
        BY <2>1, CompleteShows
  <2>2. CASE kind = "none" \/ Len(said) # 1
        BY <1>1, <2>2 DEF ShownIsKept
  <2> QED BY <1>1, <2>1, <2>2 DEF FollowIInv
<1> QED BY <1>1, <1>2 DEF FollowIInv

LEMMA FailFits == FollowIInv /\ Fail => FollowIInv'
<1> SUFFICES ASSUME FollowIInv, Fail PROVE FollowIInv'
    OBVIOUS
<1>1. /\ kind # "idle" /\ mode' = "pass" /\ buffer' = <<>>
      /\ kind' = "idle" /\ ended' = "failed" /\ lastKind' = lastKind /\ said' = said
      BY DEF Fail
<1>2. ShownIsKept'
      BY <1>1 DEF ShownIsKept, Ended
<1> QED BY <1>1, <1>2 DEF FollowIInv

LEMMA FollowShown == FollowIInv => FollowTypeOK /\ ShownIsKept
BY DEF FollowIInv, FollowTypeOK, Shows

\* What is done is not followed by more of its kind.
LEMMA DoneIsHeeded ==
    ASSUME FollowIInv, NEW k \in {"steps", "idea"}, lastKind # "none", Len(said) = 1, Begin(k),
           BeginsWith(said[1], Token[lastKind])
    PROVE  lastKind = "steps" /\ k = "idea"
<1>1. lastKind \in {"steps", "idea"}
      BY DEF FollowIInv
<1>2. Raw = said[1] /\ said[1] \in Seq(Pieces)
      BY OnlyOne DEF FollowIInv, Raw
<1>3. MarkedDone(lastKind)
      BY <1>1, <1>2, BeginsMarks DEF MarkedDone
<1>4. PICK autoSteps \in BOOLEAN, autoIdea \in BOOLEAN : k \in FollowUps(autoSteps, autoIdea)
      BY DEF Begin
<1>5. CASE lastKind = "idea"
  <2>1. FollowUps(autoSteps, autoIdea) = {}
        BY <1>3, <1>5 DEF FollowUps
  <2> QED BY <1>4, <2>1
<1>6. CASE lastKind = "steps"
  <2>1. FollowUps(autoSteps, autoIdea) \in {{}, {"idea"}}
        BY <1>3, <1>6 DEF FollowUps
  <2> QED BY <1>4, <1>6, <2>1
<1> QED BY <1>1, <1>5, <1>6

\* What an answer that begins with its word shows is what the history keeps of it, in
\* whatever chunks it comes, and it ends the follow-ups of its kind (followUpStreamSanitizer,
\* sanitizeAssistantText and MaybeQueueFollowUp, agent.go).
THEOREM FollowUpsHeedTheWord == FollowSpec => WordIsHeeded
<1> DEFINE Heeds ==
      \A k \in {"steps", "idea"} :
        lastKind # "none" /\ Len(said) = 1 /\ Begin(k) /\ BeginsWith(said[1], Token[lastKind]) =>
            lastKind = "steps" /\ k = "idea"
<1>1. FollowIInv /\ [FollowNext]_followVars => FollowIInv'
  <2>1. CASE UNCHANGED followVars
    <3>1. FollowIInv => FollowIInv'
          BY <2>1 DEF followVars, FollowIInv, ShownIsKept, Ended, Raw
    <3> QED BY <3>1
  <2>2. CASE FollowNext
        BY <2>2, BeginFits, ChunkFits, NextMessageFits, CompleteFits, FailFits DEF FollowNext
  <2> QED BY <2>1, <2>2
<1>2. FollowIInv => Heeds
      BY DoneIsHeeded
<1>3. FollowIInv => [Heeds]_followVars
      BY <1>2
<1>4. DoneEndsKind <=> [][Heeds]_followVars
      BY DEF DoneEndsKind
<1> HIDE DEF Heeds
<1> QED BY <1>1, <1>3, <1>4, FollowStarts, FollowShown, PTL DEF FollowSpec, WordIsHeeded
=============================================================================

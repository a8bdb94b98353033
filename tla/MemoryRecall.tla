---------------------------- MODULE MemoryRecall ----------------------------
(***************************************************************************)
(* Which memory a context sees (memory/memory.go, with the tools           *)
(* write_memory and search_memory of tools/tools.go and the scope of a     *)
(* memory-consolidate job, daemon/jobs): the root, a channel or a query    *)
(* has a hot file and daily files of its own, under a path made of its     *)
(* name, and a search goes from a scope outward to the root.               *)
(*                                                                         *)
(* A scope is the sequence of its levels from the outermost, each a kind   *)
(* and a name; the root is the empty one.  A name is a sequence of         *)
(* characters.  A file is the entries in it, an entry the terms it has.    *)
(* How the files are written is in MemoryFiles.                            *)
(***************************************************************************)
EXTENDS Naturals, Sequences, SequencesExt, FiniteSets, TLC

CONSTANTS
    ScopeNames, \* names of channels and nicks, as typed
    Terms,      \* terms of entries and of queries
    Limits,     \* limits of a search; none is 0
    MaxDays,    \* bound: days
    MaxEntries, \* bound: entries written
    Docs,       \* contents a file may have, for what is shown of one
    SnippetLen  \* runes of a snippet

ASSUME RecallAssumption ==
    {MaxDays, MaxEntries, SnippetLen} \cup Limits \subseteq Nat /\ SnippetLen # 0

VARIABLES
    date,    \* the day
    store,   \* path -> [hot, daily], of the paths that were written
    entries, \* the entries written so far, each with the context it is for
    doc,     \* a file in which a search has found something
    shown    \* what it shows of it: [heading, snippet, cut]

recallVars == <<date, store, entries, doc, shown>>

Letters == {"a", "b", "m"}
Lower(name) == [i \in DOMAIN name |-> IF name[i] = "A" THEN "a" ELSE name[i]]

-----------------------------------------------------------------------------
(* Paths *)

\* Fault: what is no letter is left out, without a trace.
FaultSegment(name) ==
    LET letters == SelectSeq(Lower(name), LAMBDA c : c \in Letters)
    IN  IF letters = <<>> THEN <<"unnamed">> ELSE letters

\* sanitizeSegment: a dash for what stands between letters.
Segment(name) ==
    LET put(seg, c) == IF c \in Letters THEN Append(seg, c)
                       ELSE IF seg = <<>> \/ Last(seg) = "-" THEN seg ELSE Append(seg, "-")
        seg == FoldLeft(put, <<>>, Lower(name))
        trimmed == IF seg # <<>> /\ Last(seg) = "-" THEN Front(seg) ELSE seg
    IN  IF trimmed = <<>> THEN <<"unnamed">> ELSE trimmed

\* relativePath
Path(s) == [i \in DOMAIN s |-> <<s[i][1], Segment(s[i][2])>>]

\* lineage: a scope, then its parents.
Lineage(s) == [i \in 1 .. Len(s) + 1 |-> SubSeq(s, 1, Len(s) + 1 - i)]

\* ui/context.go Channel and Direct, and ircContextToMemoryScope
Channel(name) ==
    LET low == Lower(name)
        bare == IF low # <<>> /\ low[1] = "#" THEN Tail(low) ELSE low
    IN  IF bare = <<>> THEN <<"m">> ELSE bare
Contexts == {<<>>} \cup {<<<<"channel", Channel(n)>>>> : n \in ScopeNames}
            \cup {<<<<"query", n>>>> : n \in ScopeNames \ {<<>>}}

-----------------------------------------------------------------------------
NoFiles == [hot |-> <<>>, daily |-> [d \in 1 .. MaxDays |-> <<>>]]
Files(path) == IF path \in DOMAIN store THEN store[path] ELSE NoFiles
PutFiles(path, files) ==
    store' = [p \in DOMAIN store \cup {path} |-> IF p = path THEN files ELSE store[p]]

Many == 2 * (MaxDays + 1)
Nothing == [heading |-> 0, from |-> 0, to |-> 0]

RecallInit ==
    /\ date = 1 /\ store = [p \in {<<>>} |-> NoFiles]
    /\ entries = <<>> /\ doc = <<>> /\ shown = Nothing

NewDay ==
    /\ date < MaxDays /\ date' = date + 1
    /\ UNCHANGED <<store, entries, doc, shown>>

\* The context that is meant by a call.
Meant(scope, kind, name) ==
    CASE kind = "current" -> scope
      [] kind = "root" -> <<>>
      [] OTHER -> <<<<kind, name>>>>

\* Fault: a name is one below the scope of the turn.
FaultTarget(scope, kind, name) ==
    CASE kind = "current" -> scope
      [] kind = "root" -> <<>>
      [] OTHER -> Append(scope, <<kind, name>>)

\* execWriteMemory, its scope
Target(scope, kind, name) ==
    CASE kind = "current" -> scope
      [] kind = "root" -> <<>>
      [] OTHER -> <<<<kind, name>>>>

\* write_memory in a turn of a scope, to HOT.md or to the day's file; compaction writes to the
\* latter.  A channel or a query without a name is an error.
WriteMemory(scope, kind, name, term, isDaily) ==
    LET path == Path(Target(scope, kind, name))
        files == Files(path)
        entry == [id |-> Len(entries) + 1, term |-> term]
    IN  /\ kind \in {"channel", "query"} <=> name # <<>>
        /\ Len(entries) < MaxEntries
        /\ entries' = Append(entries, [term |-> term, for |-> Meant(scope, kind, name)])
        /\ PutFiles(path, IF isDaily THEN [files EXCEPT !.daily[date] = Append(@, entry)]
                       ELSE [files EXCEPT !.hot = Append(@, entry)])
        /\ UNCHANGED <<date, doc, shown>>

\* buildScope: the scope a job names, under a parent if it names one.
BuildScope(kind, name, parents) == IF kind = "root" THEN <<>> ELSE Append(parents, <<kind, name>>)

\* memory-consolidate folds the daily files since a day into the hot file, each entry once.
\* Its scope has no parent, or a channel.
ConsolidateScope(kind, name, parents, since) ==
    LET path == Path(BuildScope(kind, name, parents))
        files == Files(path)
        due == FoldLeft(LAMBDA es, d : es \o files.daily[d], <<>>,
                        SelectSeq([d \in 1 .. MaxDays |-> d], LAMBDA d : d >= since))
    IN  /\ kind = "root" <=> name = <<>>
        /\ due # <<>>
        /\ PutFiles(path, [files EXCEPT !.hot =
                    @ \o SelectSeq(due, LAMBDA e : ~Contains(files.hot, e))])
        /\ UNCHANGED <<date, entries, doc, shown>>

-----------------------------------------------------------------------------
(* search_memory *)

HotFile(path) == [path |-> path, day |-> MaxDays + 1]
Daily(path, day) == [path |-> path, day |-> day]
Content(f) == IF f.day > MaxDays THEN Files(f.path).hot ELSE Files(f.path).daily[f.day]

\* Fault: the oldest day comes first.
FaultCandidatesOf(path) ==
    <<HotFile(path)>> \o SelectSeq([i \in 1 .. MaxDays |-> Daily(path, i)],
                                   LAMBDA f : Content(f) # <<>>)

\* candidatePaths, of one of the lineage: the hot file, then the days, the newest first.
CandidatesOf(path) ==
    <<HotFile(path)>> \o SelectSeq([i \in 1 .. MaxDays |-> Daily(path, MaxDays + 1 - i)],
                                   LAMBDA f : Content(f) # <<>>)

Candidates(s) == FoldLeft(LAMBDA fs, a : fs \o CandidatesOf(Path(a)), <<>>, Lineage(s))

\* Every term is somewhere in the file.
Matches(f, terms) ==
    \A t \in terms : \E i \in DOMAIN Content(f) : Content(f)[i].term = t

\* Fault: files beyond the limit are passed over before they are matched.
FaultSearchInScope(s, terms, limit) ==
    LET all == Candidates(s)
        most == IF limit = 0 THEN 5 ELSE limit
    IN  SelectSeq(SubSeq(all, 1, IF Len(all) < most THEN Len(all) ELSE most),
                  LAMBDA f : Matches(f, terms))

\* SearchInScope: the first of them that match, five unless the call says how many.
SearchInScope(s, terms, limit) ==
    LET hits == SelectSeq(Candidates(s), LAMBDA f : Matches(f, terms))
        most == IF limit = 0 THEN 5 ELSE limit
    IN  SubSeq(hits, 1, IF Len(hits) < most THEN Len(hits) ELSE most)

-----------------------------------------------------------------------------
(* What is shown of a file.  Characters: "x" is what is looked for, "#" and   *)
(* "n" a heading's sign and the end of a line, "w" one that takes two bytes,  *)
(* and three in lower case; the others take one.                              *)

Bytes(s) == FoldLeft(LAMBDA n, c : n + IF c = "w" THEN 2 ELSE 1, 0, s)
LowerBytes(s) == FoldLeft(LAMBDA n, c : n + IF c = "w" THEN 3 ELSE 1, 0, s)
FirstX(s) == CHOOSE i \in DOMAIN s : s[i] = "x" /\ \A j \in 1 .. i - 1 : s[j] # "x"

\* strings.Index in the text in lower case.
MatchIdx(s) == LowerBytes(SubSeq(s, 1, FirstX(s) - 1))

LineStarts(s) == {i \in DOMAIN s : i = 1 \/ s[i - 1] = "n"}

\* Fault: the heading of the line after is taken when the match is the last byte of one.
FaultNearestHeading(s, idx) ==
    LET above == {i \in LineStarts(s) : s[i] = "#" /\ Bytes(SubSeq(s, 1, i - 1)) <= idx + 2}
    IN  IF above = {} THEN 0 ELSE CHOOSE i \in above : \A j \in above : j <= i

\* nearestMarkdownHeading, as where its line begins: the last at or above the line of idx.
NearestHeading(s, idx) ==
    LET above == {i \in LineStarts(s) : s[i] = "#" /\ Bytes(SubSeq(s, 1, i - 1)) <= idx}
    IN  IF above = {} THEN 0 ELSE CHOOSE i \in above : \A j \in above : j <= i

\* Fault: a snippet at the end of the file is not moved back.
FaultSnippet(s, idx) ==
    LET runeIdx == Cardinality({i \in DOMAIN s : Bytes(SubSeq(s, 1, i - 1)) < idx})
        start == IF runeIdx > SnippetLen \div 2 THEN runeIdx - (SnippetLen \div 2) ELSE 0
        end == IF start + SnippetLen < Len(s) THEN start + SnippetLen ELSE Len(s)
    IN  [from |-> start + 1, to |-> end]

\* extractSnippet, before it is trimmed: all of a short file, or as many runes about the match.
Snippet(s, idx) ==
    LET runeIdx == Cardinality({i \in DOMAIN s : Bytes(SubSeq(s, 1, i - 1)) < idx})
        start == IF runeIdx > SnippetLen \div 2 THEN runeIdx - (SnippetLen \div 2) ELSE 0
    IN  IF Len(s) <= SnippetLen THEN [from |-> 1, to |-> Len(s)]
        ELSE IF start + SnippetLen <= Len(s) THEN [from |-> start + 1, to |-> start + SnippetLen]
        ELSE [from |-> Len(s) - SnippetLen + 1, to |-> Len(s)]

\* A match beyond the end of a long file, which its own text in lower case may have, ends the
\* program.
Panics(s) == Len(s) > SnippetLen /\ MatchIdx(s) > Bytes(s)

Show ==
    /\ doc = <<>> /\ entries = <<>> /\ date = 1
    /\ doc' \in {s \in Docs : \E i \in DOMAIN s : s[i] = "x"}
    /\ shown' = IF Panics(doc') THEN Nothing
                ELSE Snippet(doc', MatchIdx(doc'))
                     @@ [heading |-> NearestHeading(doc', MatchIdx(doc'))]
    /\ UNCHANGED <<date, store, entries>>

-----------------------------------------------------------------------------
RecallNext ==
    \/ Show
    \/ /\ doc = <<>>
       /\ \/ NewDay
          \/ \E kind \in {"current", "root", "channel", "query"}, name \in ScopeNames \cup {<<>>},
                scope \in Contexts, term \in Terms, isDaily \in BOOLEAN :
                WriteMemory(scope, kind, name, term, isDaily)
          \/ \E kind \in {"root", "channel", "query"}, name \in ScopeNames \cup {<<>>},
                parents \in {<<>>} \cup {<<<<"channel", n>>>> : n \in ScopeNames \ {<<>>}},
                since \in 1 .. MaxDays :
                ConsolidateScope(kind, name, parents, since)

-----------------------------------------------------------------------------
(* Properties *)

RecallTypeOK ==
    /\ date \in 1 .. MaxDays
    /\ \A e \in ToSet(entries) : e.term \in Terms /\ Len(e.for) <= 1
    /\ \A p \in DOMAIN store : \A e \in ToSet(Files(p).hot) : e.id \in DOMAIN entries

\* Two names are one to the memory: the same words, whatever stands between them and whichever
\* case they have; and all names without a letter are one.
Words(name) ==
    {<<i, j>> \in (DOMAIN name) \X (DOMAIN name) :
        /\ i <= j /\ \A k \in i .. j : Lower(name)[k] \in Letters
        /\ i = 1 \/ Lower(name)[i - 1] \notin Letters
        /\ j = Len(name) \/ Lower(name)[j + 1] \notin Letters}
WordsOf(name) ==
    LET ws == SetToSortSeq(Words(name), LAMBDA v, w : v[1] < w[1])
    IN  [i \in DOMAIN ws |-> SubSeq(Lower(name), ws[i][1], ws[i][2])]
Same(s, t) ==
    /\ Len(s) = Len(t)
    /\ \A i \in DOMAIN s : s[i][1] = t[i][1] /\ WordsOf(s[i][2]) = WordsOf(t[i][2])

Inherits(s, t) == \E i \in 0 .. Len(s) : Same(SubSeq(s, 1, i), t)

\* A context sees what was written for it or for the root, and nothing of another's, whoever
\* wrote it: a turn in that context or in another that names it, compaction or a job.
OnlyItsOwn ==
    \A c \in Contexts : \A f \in ToSet(Candidates(c)) : \A e \in ToSet(Content(f)) :
        Inherits(c, entries[e.id].for)

\* All that was written for a context is found from there, by its own term, if the limit
\* reaches so far.
AllItsOwn ==
    \A c \in Contexts, i \in DOMAIN entries :
        Inherits(c, entries[i].for) =>
            \E f \in ToSet(SearchInScope(c, {entries[i].term}, Many)) :
                \E e \in ToSet(Content(f)) : e.id = i

\* What the limit cuts off comes after all that is returned: the nearer scope first, of one
\* scope the hot file first, then the newer day.
Before(f, g) == Len(f.path) > Len(g.path) \/ (f.path = g.path /\ f.day > g.day)
NearestFirst ==
    \A c \in Contexts, terms \in SUBSET Terms \ {{}}, limit \in Limits :
        LET fs == SearchInScope(c, terms, limit) IN
        /\ \A i, j \in DOMAIN fs : i < j => Before(fs[i], fs[j])
        /\ \A f \in ToSet(Candidates(c)) :
            Matches(f, terms) /\ ~Contains(fs, f) =>
                /\ Len(fs) = IF limit = 0 THEN 5 ELSE limit
                /\ Before(Last(fs), f)

\* No turn and no tool writes to a query inside a channel, so a job that names a parent finds
\* nothing to fold.
NestedStaysEmpty == \A p \in DOMAIN store : Len(p) <= 1

\* The snippet has the match, is as long as it may be, and stands under its heading, in a
\* text whose characters keep their width in lower case.
Narrow(s) == \A i \in DOMAIN s : s[i] # "w"
SnippetHasMatch ==
    doc # <<>> /\ Narrow(doc) =>
        /\ FirstX(doc) \in shown.from .. shown.to
        /\ shown.to - shown.from + 1 = IF Len(doc) < SnippetLen THEN Len(doc) ELSE SnippetLen
        /\ LET line == CHOOSE i \in LineStarts(doc) :
                        i <= FirstX(doc) /\ \A j \in i + 1 .. FirstX(doc) : j \notin LineStarts(doc)
           IN  IF shown.heading = 0 THEN \A i \in LineStarts(doc) : i <= line => doc[i] # "#"
               ELSE /\ doc[shown.heading] = "#" /\ shown.heading <= line
                    /\ \A i \in LineStarts(doc) : shown.heading < i /\ i <= line => doc[i] # "#"

\* A context recalls its own memory, whole and nearest first, and no other's.
MemoryIsScoped ==
    /\ RecallTypeOK /\ SnippetHasMatch
    /\ entries # <<>> => OnlyItsOwn /\ AllItsOwn /\ NearestFirst /\ NestedStaysEmpty
=============================================================================

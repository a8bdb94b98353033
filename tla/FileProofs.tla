----------------------------- MODULE FileProofs -----------------------------
(***************************************************************************)
(* What the files that programs and the daemon share are held to, for      *)
(* every number of programs, sessions, entries, runs and failures: the     *)
(* session files (SessionFile), the checkpoint of a directory              *)
(* (Checkpoint), the clean-up of stale sessions (StaleCleanup) and the     *)
(* memory files (MemoryFiles).                                             *)
(***************************************************************************)
EXTENDS SessionFile, MemoryFiles, Checkpoint, StaleCleanup, FiniteSetTheorems, SequenceTheorems, TLAPS

-----------------------------------------------------------------------------
(* Session files (SessionFile) *)

\* An entry has an id; where none stands there is NoEntry.
Line == [id : Nat \ {0}, parent : Nat]
AnyLine == Line \cup {NoEntry}
Name == Seq(Nat)
TailOf == {t \in [is : {"none", "half", "whole", "junk"}, entry : AnyLine] :
            t.is \in {"half", "whole"} => t.entry \in Line}
FileOf == [lines : Seq(Line), tail : TailOf]
SessionOf == [path : Name, entries : Seq(Line)]
Place == {h \in [pc : {"idle", "open", "locked", "half"}, path : Name, entry : AnyLine] :
            h.pc # "idle" => h.entry \in Line}
Hand == Procs \X Goroutines

HalfOf(e) == [is |-> "half", entry |-> e]
Rising(l) == \A i, j \in DOMAIN l : i < j => l[i].id < l[j].id
Chained(l) == \A i \in DOMAIN l : l[i].parent = IF i = 1 THEN 0 ELSE l[i - 1].id

FilesShape ==
    /\ second \in 0 .. MaxSeconds /\ made \in 0 .. MaxAppends /\ faults \in 0 .. MaxFaults
    /\ files \in [DOMAIN files -> FileOf] /\ IsFiniteSet(DOMAIN files)
    /\ DOMAIN files \subseteq Name /\ <<>> \notin DOMAIN files
    /\ sess \in [Procs -> SessionOf] /\ at \in [Hand -> Place]
    /\ acked \subseteq Nat \X Name /\ IsFiniteSet(acked)
    /\ \A a \in acked : a[2] \in DOMAIN files

\* One writer of a program stands in Append, on the program's own file; a writer at the file
\* has the lock.
WritersFit ==
    /\ \A p \in Procs : sess[p].path = <<>> => sess[p] = NoSession
    /\ \A x \in Hand : at[x].pc # "idle" =>
          /\ at[x].path = sess[x[1]].path /\ at[x].path # <<>>
          /\ \A y \in Hand : at[y].pc # "idle" /\ y[1] = x[1] => y = x
          /\ at[x].pc # "open" =>
                /\ at[x].path \in DOMAIN files
                /\ \A y \in Hand : at[y].pc \in {"locked", "half"} /\ at[y].path = at[x].path => y = x

\* What a file ends with while a writer is in it, and otherwise only by a fault.
Spoiled(n) ==
    /\ files[n].tail # Tail0
    /\ \A x \in Hand : at[x].pc = "half" /\ at[x].path = n => files[n].tail # HalfOf(at[x].entry)

TailsFit ==
    /\ \A n \in DOMAIN files : files[n].tail.is = "none" => files[n].tail = Tail0
    /\ \A n \in DOMAIN files : files[n].tail.is = "junk" => files[n].tail = Junk
    /\ \A n \in DOMAIN files : Spoiled(n) => faults # 0
    /\ \A x \in Hand : at[x].pc = "half" =>
          LET t == files[at[x].path].tail
          IN  t = HalfOf(at[x].entry) \/ t = Junk \/ (t = Tail0 /\ at[x].path \in over)

\* Ids are given once: to the lines of files and memories, and to the entry on its way, which
\* no Append has returned for yet.
IdsFit ==
    /\ \A n \in DOMAIN files : \A i \in DOMAIN files[n].lines : files[n].lines[i].id <= made
    /\ \A n \in DOMAIN files : files[n].tail.entry.id <= made
    /\ \A p \in Procs : \A i \in DOMAIN sess[p].entries : sess[p].entries[i].id <= made
    /\ \A a \in acked : a[1] <= made
    /\ \A x \in Hand : at[x].pc # "idle" =>
          /\ at[x].entry.id \in 1 .. made /\ \A a \in acked : a[1] # at[x].entry.id
          /\ \A y \in Hand : at[y].pc # "idle" /\ y # x => at[y].entry.id # at[x].entry.id
    /\ \A n \in DOMAIN files :
          files[n].tail.is \in {"half", "whole"} => <<files[n].tail.entry.id, n>> \notin acked

\* Two programs with one name have mixed it, and so has a fork that wrote over its file.
Alone ==
    /\ \A p, q \in Procs : p # q /\ sess[p].path = sess[q].path /\ sess[p].path # <<>>
                        => sess[p].path \in mixed
    /\ over \subseteq mixed

\* As long as one program at a time has a name, its entries rise in file and memory, and the one
\* on its way is the last.
OrderFits ==
    /\ \A n \in DOMAIN files \ mixed : Rising(Loaded(files[n]))
    /\ \A p \in Procs : sess[p].path \notin mixed => Rising(sess[p].entries)
    /\ \A x \in Hand : at[x].pc # "idle" /\ at[x].path \notin mixed =>
          LET l == Loaded(File(at[x].path))
          IN  \A i \in DOMAIN l : l[i].id < at[x].entry.id

\* Without a fault the memory is the file, but for the entry on its way.
MemoryFits ==
    faults = 0 =>
        /\ \A n \in DOMAIN files \ mixed : Chained(Loaded(files[n]))
        /\ \A p \in Procs : sess[p].path \notin mixed => Chained(sess[p].entries)
        /\ \A p \in Procs : Quiet(p) /\ sess[p].path \notin mixed =>
              sess[p].entries = Loaded(File(sess[p].path))
        /\ \A x \in Hand : at[x].pc # "idle" /\ at[x].path \notin mixed =>
              sess[x[1]].entries = Append(Loaded(File(at[x].path)), at[x].entry)

\* What was lost, and what will spoil the next line, was paid for.
Debts == {n \in DOMAIN files \ over : Spoiled(n)}
LostNow == {a \in Lost : a[2] \notin over}
Paid == Cardinality(LostNow) + Cardinality(Debts) <= faults

SessIInv ==
    /\ FilesShape /\ WritersFit /\ TailsFit /\ IdsFit /\ Alone /\ OrderFits /\ MemoryFits /\ Paid

-----------------------------------------------------------------------------
\* What is read of a file: its lines and a last entry that lacks only its newline.
LEMMA LoadedIs ==
    ASSUME NEW f \in FileOf
    PROVE  /\ f.lines \in Seq(Line) /\ f.tail \in TailOf /\ f.tail.entry.id \in Nat
           /\ f.tail.is \in {"half", "whole"} => f.tail.entry \in Line
           /\ Loaded(f) \in Seq(Line)
           /\ f.tail.is # "whole" => Loaded(f) = f.lines
           /\ f.tail.is = "whole" => Loaded(f) = Append(f.lines, f.tail.entry)
<1>1. f.lines \in Seq(Line) /\ f.tail \in TailOf BY DEF FileOf
<1>2. f.tail.entry \in AnyLine /\ (f.tail.is \in {"half", "whole"} => f.tail.entry \in Line)
    BY <1>1 DEF TailOf
<1>0. f.tail.entry.id \in Nat BY <1>2 DEF AnyLine, Line, NoEntry
<1>3. CASE f.tail.is # "whole"
  <2>1. Loaded(f) = f.lines \o <<>> BY <1>3 DEF Loaded
  <2> QED BY <1>0, <1>1, <1>2, <1>3, <2>1, ConcatEmptySeq
<1>4. CASE f.tail.is = "whole"
  <2>1. Loaded(f) = f.lines \o <<f.tail.entry>> BY <1>4 DEF Loaded
  <2>2. Loaded(f) = Append(f.lines, f.tail.entry) BY <1>1, <1>2, <2>1, AppendIsConcat
  <2> QED BY <1>0, <1>1, <1>2, <1>4, <2>2
<1> QED BY <1>3, <1>4

LEMMA RisingAppend ==
    ASSUME NEW s \in Seq(Line), NEW e \in Line
    PROVE  Rising(Append(s, e)) <=> (Rising(s) /\ \A i \in DOMAIN s : s[i].id < e.id)
<1> DEFINE t == Append(s, e)
<1>1. DOMAIN s = 1 .. Len(s) /\ DOMAIN t = 1 .. (Len(s) + 1) /\ Len(s) \in Nat OBVIOUS
<1>2. \A i \in DOMAIN s : t[i] = s[i] OBVIOUS
<1>3. t[Len(s) + 1] = e BY <1>1
<1>4. \A i \in DOMAIN s : s[i].id \in Nat
  <2>1. \A i \in DOMAIN s : s[i] \in Line BY <1>1
  <2> QED BY <2>1 DEF Line
<1>5. e.id \in Nat BY DEF Line
<1> HIDE DEF t
<1>6. ASSUME Rising(s), \A i \in DOMAIN s : s[i].id < e.id PROVE Rising(t)
  <2> SUFFICES ASSUME NEW i \in DOMAIN t, NEW j \in DOMAIN t, i < j PROVE t[i].id < t[j].id
      BY DEF Rising
  <2>1. i \in DOMAIN s BY <1>1
  <2>2. CASE j = Len(s) + 1 BY <1>2, <1>3, <1>6, <2>1, <2>2
  <2>3. CASE j # Len(s) + 1 BY <1>1, <1>2, <1>6, <2>1, <2>3 DEF Rising
  <2> QED BY <2>2, <2>3
<1>7. ASSUME Rising(t) PROVE Rising(s) /\ \A i \in DOMAIN s : s[i].id < e.id
  <2>1. \A i \in DOMAIN s : i \in DOMAIN t /\ Len(s) + 1 \in DOMAIN t /\ i < Len(s) + 1 BY <1>1
  <2>2. \A i \in DOMAIN s : s[i].id < e.id BY <1>2, <1>3, <1>7, <2>1 DEF Rising
  <2>3. Rising(s) BY <1>2, <1>7, <2>1 DEF Rising
  <2> QED BY <2>2, <2>3
<1> QED BY <1>6, <1>7 DEF t

LEMMA ChainedAppend ==
    ASSUME NEW s \in Seq(Line), NEW e \in Line, Chained(s),
           e.parent = IF s = <<>> THEN 0 ELSE s[Len(s)].id
    PROVE  Chained(Append(s, e))
<1> DEFINE t == Append(s, e)
<1>1. DOMAIN s = 1 .. Len(s) /\ DOMAIN t = 1 .. (Len(s) + 1) /\ Len(s) \in Nat OBVIOUS
<1>2. \A i \in DOMAIN s : t[i] = s[i] OBVIOUS
<1>3. t[Len(s) + 1] = e BY <1>1
<1>4. s = <<>> <=> Len(s) = 0 BY EmptySeq
<1> HIDE DEF t
<1> SUFFICES ASSUME NEW i \in DOMAIN t PROVE t[i].parent = IF i = 1 THEN 0 ELSE t[i - 1].id
    BY DEF Chained, t
<1>5. CASE i = Len(s) + 1
  <2>1. CASE Len(s) = 0 BY <1>3, <1>4, <1>5, <2>1
  <2>2. CASE Len(s) # 0
    <3>1. i # 1 /\ i - 1 = Len(s) /\ Len(s) \in DOMAIN s BY <1>1, <1>5, <2>2
    <3> QED BY <1>2, <1>3, <1>4, <1>5, <2>2, <3>1
  <2> QED BY <2>1, <2>2
<1>6. CASE i # Len(s) + 1
  <2>1. i \in DOMAIN s /\ (i # 1 => i - 1 \in DOMAIN s) BY <1>1, <1>6
  <2> QED BY <1>2, <2>1 DEF Chained
<1> QED BY <1>5, <1>6

LEMMA PartOfRising ==
    ASSUME NEW s \in Seq(Line), NEW k \in 0 .. Len(s)
    PROVE  /\ SubSeq(s, 1, k) \in Seq(Line)
           /\ Rising(s) => Rising(SubSeq(s, 1, k))
           /\ k = Len(s) => SubSeq(s, 1, k) = s
           /\ \A m \in Nat : (\A i \in DOMAIN s : s[i].id <= m)
                => \A i \in DOMAIN SubSeq(s, 1, k) : SubSeq(s, 1, k)[i].id <= m
<1> DEFINE t == SubSeq(s, 1, k)
<1>1. t \in Seq(Line) /\ Len(t) = k
    OBVIOUS
<1>2. DOMAIN t = 1 .. k /\ DOMAIN s = 1 .. Len(s) /\ DOMAIN t \subseteq DOMAIN s BY <1>1
<1>3. \A i \in DOMAIN t : t[i] = s[i] BY <1>2
<1>4. k = Len(s) => t = s BY <1>1, <1>2, <1>3, SeqEqual
<1> HIDE DEF t
<1> QED BY <1>1, <1>2, <1>3, <1>4 DEF Rising, t

LEMMA IdsAppend ==
    ASSUME NEW s \in Seq(Line), NEW e \in Line
    PROVE  Ids(Append(s, e)) = Ids(s) \cup {e.id}
<1>1. DOMAIN Append(s, e) = DOMAIN s \cup {Len(s) + 1} OBVIOUS
<1>2. \A i \in DOMAIN s : Append(s, e)[i] = s[i] OBVIOUS
<1>3. Append(s, e)[Len(s) + 1] = e OBVIOUS
<1> QED BY <1>1, <1>2, <1>3 DEF Ids

\* A file that is not there is an empty one.
LEMMA FileIs ==
    ASSUME FilesShape, NEW n
    PROVE  /\ File(n) \in FileOf
           /\ n \in DOMAIN files => File(n) = files[n] /\ files[n] \in FileOf
           /\ n \notin DOMAIN files => File(n) = EmptyFile /\ Loaded(File(n)) = <<>>
<1>1. n \in DOMAIN files => files[n] \in FileOf BY DEF FilesShape
<1>2. EmptyFile \in FileOf BY DEF EmptyFile, FileOf, Tail0, TailOf, AnyLine
<1>3. EmptyFile.lines = <<>> /\ EmptyFile.tail.is = "none" BY DEF EmptyFile, Tail0
<1>4. Loaded(EmptyFile) = <<>> BY <1>2, <1>3, LoadedIs
<1> QED BY <1>1, <1>2, <1>4 DEF File

\* A hand in Append is the only one of its program, at the program's file.
LEMMA HandFacts ==
    ASSUME FilesShape, WritersFit, NEW x \in Hand, at[x].pc # "idle"
    PROVE  /\ x[1] \in Procs /\ x[2] \in Goroutines /\ x = <<x[1], x[2]>>
           /\ at[x] \in Place /\ at[x].entry \in Line /\ at[x].path \in Name
           /\ at[x].path = sess[x[1]].path /\ at[x].path # <<>>
           /\ \A y \in Hand : at[y].pc # "idle" /\ y[1] = x[1] => y = x
           /\ at[x].pc # "open" => at[x].path \in DOMAIN files
           /\ at[x].pc # "open" =>
                 \A y \in Hand : at[y].pc \in {"locked", "half"} /\ at[y].path = at[x].path => y = x
           /\ at[x].pc \in {"idle", "open", "locked", "half"}
<1>1. x[1] \in Procs /\ x[2] \in Goroutines /\ x = <<x[1], x[2]>> BY DEF Hand
<1>2. at[x] \in Place BY DEF FilesShape
<1>3. at[x].entry \in Line /\ at[x].path \in Name BY <1>2 DEF Place
<1>4. at[x].pc \in {"idle", "open", "locked", "half"} BY <1>2 DEF Place
<1> QED BY <1>1, <1>2, <1>3, <1>4 DEF WritersFit

\* Two hands at one file that nobody shares are one.
LEMMA OneHand ==
    ASSUME FilesShape, WritersFit, Alone, NEW x \in Hand, NEW y \in Hand,
           at[x].pc # "idle", at[y].pc # "idle", at[x].path = at[y].path, at[x].path \notin mixed
    PROVE  x = y
<1>1. x[1] = y[1] BY HandFacts DEF Alone
<1> QED BY <1>1, HandFacts

\* The clock.
LEMMA SecondKeeps ==
    ASSUME SessionAssumption, SessIInv, NextSecond
    PROVE  SessIInv'
<1> USE DEF NextSecond
<1>1. FilesShape' BY DEF SessIInv, FilesShape, SessionAssumption
<1>2. WritersFit' /\ TailsFit' /\ IdsFit' /\ Alone' BY DEF SessIInv, WritersFit, TailsFit, IdsFit, Alone, Spoiled
<1>3. OrderFits' /\ MemoryFits' BY DEF SessIInv, OrderFits, MemoryFits, File, Quiet
<1>4. Paid' BY DEF SessIInv, Paid, LostNow, Debts, Lost, File, Spoiled
<1> QED BY <1>1, <1>2, <1>3, <1>4 DEF SessIInv

-----------------------------------------------------------------------------
LEMMA Finite ==
    ASSUME FilesShape
    PROVE  /\ IsFiniteSet(LostNow) /\ IsFiniteSet(Debts)
           /\ Cardinality(LostNow) \in Nat /\ Cardinality(Debts) \in Nat /\ faults \in Nat
<1>1. LostNow \subseteq acked BY DEF LostNow, Lost
<1>2. Debts \subseteq DOMAIN files BY DEF Debts
<1>3. IsFiniteSet(LostNow) /\ IsFiniteSet(Debts) BY <1>1, <1>2, FS_Subset DEF FilesShape
<1>4. faults \in Nat BY DEF FilesShape
<1> QED BY <1>3, <1>4, FS_CardinalityType

LEMMA Smaller ==
    ASSUME NEW S, NEW T, IsFiniteSet(T), S \subseteq T
    PROVE  /\ Cardinality(S) \in Nat /\ Cardinality(T) \in Nat /\ Cardinality(S) <= Cardinality(T)
BY FS_Subset, FS_CardinalityType

LEMMA OneMore ==
    ASSUME NEW S, NEW T, NEW e, IsFiniteSet(T), S \subseteq T \cup {e}
    PROVE  /\ Cardinality(S) \in Nat /\ Cardinality(T) \in Nat /\ Cardinality(S) <= Cardinality(T) + 1
<1>1. IsFiniteSet(T \cup {e}) /\ Cardinality(T \cup {e}) <= Cardinality(T) + 1
  <2>1. /\ IsFiniteSet(T \cup {e})
        /\ Cardinality(T \cup {e}) = IF e \in T THEN Cardinality(T) ELSE Cardinality(T) + 1
      BY FS_AddElement
  <2>2. Cardinality(T) \in Nat BY FS_CardinalityType
  <2> QED BY <2>1, <2>2
<1> QED BY <1>1, Smaller, FS_CardinalityType

LEMMA OneLess ==
    ASSUME NEW S, NEW T, NEW e \in T, IsFiniteSet(T), S \subseteq T \ {e}
    PROVE  Cardinality(S) \in Nat /\ Cardinality(T) \in Nat /\ Cardinality(S) + 1 <= Cardinality(T)
<1>1. IsFiniteSet(T \ {e}) /\ Cardinality(T \ {e}) = Cardinality(T) - 1
    BY FS_RemoveElement
<1> QED BY <1>1, Smaller, FS_CardinalityType

\* Nothing more is lost, nothing more is owed.
LEMMA PaidKept ==
    ASSUME FilesShape, Paid, LostNow' \subseteq LostNow, Debts' \subseteq Debts,
           faults' \in Nat, faults' >= faults
    PROVE  Paid'
<1>1. Cardinality(LostNow') \in Nat /\ Cardinality(LostNow') <= Cardinality(LostNow)
    BY Finite, Smaller
<1>2. Cardinality(Debts') \in Nat /\ Cardinality(Debts') <= Cardinality(Debts)
    BY Finite, Smaller
<1> QED BY <1>1, <1>2, Finite DEF Paid

\* One more is owed, for a fault.
LEMMA PaidByFault ==
    ASSUME FilesShape, Paid, LostNow' \subseteq LostNow, NEW n, Debts' \subseteq Debts \cup {n},
           faults' = faults + 1
    PROVE  Paid'
<1>1. Cardinality(LostNow') \in Nat /\ Cardinality(LostNow') <= Cardinality(LostNow)
    BY Finite, Smaller
<1>2. Cardinality(Debts') \in Nat /\ Cardinality(Debts') <= Cardinality(Debts) + 1
    BY Finite, OneMore
<1> QED BY <1>1, <1>2, Finite DEF Paid

\* One is lost, and no longer owed.
LEMMA PaidOff ==
    ASSUME FilesShape, Paid, NEW a, NEW n \in Debts, LostNow' \subseteq LostNow \cup {a},
           Debts' \subseteq Debts \ {n}, faults' = faults
    PROVE  Paid'
<1>1. Cardinality(LostNow') \in Nat /\ Cardinality(LostNow') <= Cardinality(LostNow) + 1
    BY Finite, OneMore
<1>2. Cardinality(Debts') \in Nat /\ Cardinality(Debts') + 1 <= Cardinality(Debts)
    BY Finite, OneLess
<1> QED BY <1>1, <1>2, Finite DEF Paid

LEMMA LostKept ==
    ASSUME acked' = acked, over \subseteq over',
           \A a \in acked : a[2] \notin over' /\ a[1] \in Ids(Loaded(File(a[2])))
                            => a[1] \in Ids(Loaded(File(a[2])))'
    PROVE  LostNow' \subseteq LostNow
BY DEF LostNow, Lost

LEMMA QuietIs ==
    ASSUME NEW p \in Procs
    PROVE  Quiet(p) <=> \A x \in Hand : x[1] = p => at[x].pc = "idle"
BY DEF Quiet, Hand

-----------------------------------------------------------------------------
\* A program takes a name, which another has or had only if it is mixed from then on.
LEMMA TakesName ==
    ASSUME SessIInv, NEW p \in Procs, Quiet(p), NEW n \in Name, n # <<>>, NEW es \in Seq(Line),
           sess' = [sess EXCEPT ![p] = [path |-> n, entries |-> es]],
           mixed \subseteq mixed', n \in Held(p) => n \in mixed',
           n \notin mixed' => Rising(es) /\ es = Loaded(File(n)) /\ (faults = 0 => Chained(es)),
           \A i \in DOMAIN es : es[i].id <= made,
           UNCHANGED <<second, files, at, made, acked, over, faults>>
    PROVE  SessIInv'
<1>1. FilesShape /\ WritersFit /\ TailsFit /\ IdsFit /\ Alone /\ OrderFits /\ MemoryFits /\ Paid
    BY DEF SessIInv
<1>2. /\ sess \in [Procs -> SessionOf]
      /\ sess'[p].path = n /\ sess'[p].entries = es
      /\ \A q \in Procs : q # p => sess'[q] = sess[q]
    BY <1>1 DEF FilesShape
<1>3. \A x \in Hand : at[x].pc # "idle" => x[1] \in Procs /\ x[1] # p BY QuietIs DEF Hand
<1>4. \A q \in Procs : q # p /\ sess[q].path = n => n \in mixed' BY DEF Held
<1>5. FilesShape'
  <2>1. sess' \in [Procs -> SessionOf] BY <1>2 DEF SessionOf
  <2> QED BY <1>1, <2>1 DEF FilesShape
<1>6. WritersFit'
  <2>1. \A q \in Procs : sess'[q].path = <<>> => sess'[q] = NoSession BY <1>1, <1>2 DEF WritersFit
  <2>2. \A x \in Hand : at[x].pc # "idle" => at[x].path = sess'[x[1]].path
      BY <1>1, <1>2, <1>3 DEF WritersFit
  <2> QED BY <1>1, <2>1, <2>2 DEF WritersFit
<1>7. TailsFit' BY <1>1 DEF TailsFit, Spoiled
<1>8. IdsFit'
  <2>1. \A q \in Procs : \A i \in DOMAIN sess'[q].entries : sess'[q].entries[i].id <= made
      BY <1>1, <1>2 DEF IdsFit
  <2> QED BY <1>1, <2>1 DEF IdsFit
<1>9. Alone' BY <1>1, <1>2, <1>4 DEF Alone
<1>10. \A m : File(m)' = File(m) BY DEF File
<1>11. OrderFits'
  <2>1. \A q \in Procs : sess'[q].path \notin mixed' => Rising(sess'[q].entries)
      BY <1>1, <1>2 DEF OrderFits
  <2> QED BY <1>1, <1>10, <2>1 DEF OrderFits
<1>12. MemoryFits'
  <2> SUFFICES ASSUME faults = 0 PROVE MemoryFits' BY DEF MemoryFits
  <2>1. \A q \in Procs : sess'[q].path \notin mixed' => Chained(sess'[q].entries)
      BY <1>1, <1>2 DEF MemoryFits
  <2>2. \A q \in Procs : Quiet(q)' /\ sess'[q].path \notin mixed' =>
            sess'[q].entries = Loaded(File(sess'[q].path))
      BY <1>1, <1>2 DEF MemoryFits, Quiet
  <2>3. \A x \in Hand : at[x].pc # "idle" /\ at[x].path \notin mixed' =>
              sess'[x[1]].entries = Append(Loaded(File(at[x].path)), at[x].entry)
      BY <1>1, <1>2, <1>3 DEF MemoryFits
  <2>4. \A m \in DOMAIN files \ mixed' : Chained(Loaded(files[m])) BY <1>1 DEF MemoryFits
  <2> QED BY <1>10, <2>1, <2>2, <2>3, <2>4 DEF MemoryFits
<1>13. Paid'
  <2>1. LostNow' = LostNow /\ Debts' = Debts BY <1>10 DEF LostNow, Lost, Debts, Spoiled
  <2> QED BY <1>1, <2>1 DEF Paid
<1> QED BY <1>5, <1>6, <1>7, <1>8, <1>9, <1>11, <1>12, <1>13 DEF SessIInv

LEMMA NewKeeps ==
    ASSUME SessionAssumption, SessIInv, NEW p \in Procs, New(p)
    PROVE  SessIInv'
<1> DEFINE n == <<second>> es == <<>>
<1>1. FilesShape /\ second \in Nat BY DEF SessIInv, FilesShape
<1>2. n \in Name /\ n # <<>> BY <1>1 DEF Name
<1>3. n \notin mixed' => Loaded(File(n)) = es BY <1>1, FileIs DEF New
<1>4. es \in Seq(Line) /\ Rising(es) /\ Chained(es) /\ \A i \in DOMAIN es : es[i].id <= made
    BY DEF Rising, Chained
<1>5. mixed \subseteq mixed' /\ (n \in Held(p) => n \in mixed') BY DEF New
<1>6. Quiet(p) /\ sess' = [sess EXCEPT ![p] = [path |-> n, entries |-> es]] BY DEF New
<1>7. UNCHANGED <<second, files, at, made, acked, over, faults>> BY DEF New
<1> HIDE DEF n, es
<1> QED BY <1>2, <1>3, <1>4, <1>5, <1>6, <1>7, TakesName

\* What is read of a file is a memory that fits it.
LEMMA LoadedFits ==
    ASSUME SessIInv, NEW n \in DOMAIN files
    PROVE  /\ n \in Name /\ n # <<>> /\ Loaded(files[n]) \in Seq(Line) /\ File(n) = files[n]
           /\ \A i \in DOMAIN Loaded(files[n]) : Loaded(files[n])[i].id <= made
           /\ n \notin mixed => Rising(Loaded(files[n])) /\ (faults = 0 => Chained(Loaded(files[n])))
<1>1. files[n] \in FileOf /\ File(n) = files[n] BY FileIs DEF SessIInv
<1>2. \A i \in DOMAIN Loaded(files[n]) : Loaded(files[n])[i].id <= made
  <2> DEFINE l == files[n].lines e == files[n].tail.entry
  <2>1. /\ \A i \in DOMAIN l : l[i].id <= made
        /\ e.id <= made
      BY DEF SessIInv, IdsFit
  <2>2. l \in Seq(Line) BY <1>1, LoadedIs
  <2>3. Loaded(files[n]) = l \/ (Loaded(files[n]) = Append(l, e) /\ e \in Line) BY <1>1, LoadedIs
  <2> HIDE DEF l, e
  <2>4. e \in Line => \A i \in DOMAIN Append(l, e) : Append(l, e)[i] = e \/ (i \in DOMAIN l /\ Append(l, e)[i] = l[i])
      BY <2>2
  <2> QED BY <2>1, <2>3, <2>4
<1>3. n \in Name /\ n # <<>> BY DEF SessIInv, FilesShape
<1> QED BY <1>1, <1>2, <1>3, LoadedIs DEF SessIInv, OrderFits, MemoryFits

LEMMA ResumeKeeps ==
    ASSUME SessionAssumption, SessIInv, NEW p \in Procs, Resume(p)
    PROVE  SessIInv'
<1>1. PICK n \in DOMAIN files : /\ sess' = [sess EXCEPT ![p] = [path |-> n, entries |-> Loaded(files[n])]]
                                /\ mixed' = mixed \cup ({n} \cap Held(p))
    BY DEF Resume
<1>2. Quiet(p) /\ UNCHANGED <<second, files, at, made, acked, over, faults>> BY DEF Resume
<1> DEFINE es == Loaded(files[n])
<1>3. /\ n \in Name /\ n # <<>> /\ es \in Seq(Line) /\ File(n) = files[n]
      /\ \A i \in DOMAIN es : es[i].id <= made
      /\ n \notin mixed => Rising(es) /\ (faults = 0 => Chained(es))
    BY LoadedFits
<1>4. es = Loaded(File(n)) BY <1>3
<1>5. sess' = [sess EXCEPT ![p] = [path |-> n, entries |-> es]] BY <1>1
<1> HIDE DEF es
<1> QED BY <1>1, <1>2, <1>3, <1>4, <1>5, TakesName

-----------------------------------------------------------------------------
LEMMA LineIds ==
    ASSUME NEW s \in Seq(Line)
    PROVE  \A i \in DOMAIN s : s[i] \in Line /\ s[i].id \in Nat
<1>1. \A i \in DOMAIN s : s[i] \in Line OBVIOUS
<1> QED BY <1>1 DEF Line

LEMMA BoundedAppend ==
    ASSUME NEW s \in Seq(Line), NEW e \in Line, NEW m \in Nat,
           \A i \in DOMAIN s : s[i].id <= m, e.id <= m
    PROVE  \A i \in DOMAIN Append(s, e) : Append(s, e)[i].id <= m
<1>1. \A i \in DOMAIN Append(s, e) : Append(s, e)[i] = e \/ (i \in DOMAIN s /\ Append(s, e)[i] = s[i])
    OBVIOUS
<1> QED BY <1>1

LEMMA TypedIds ==
    ASSUME FilesShape
    PROVE  /\ \A n \in DOMAIN files : /\ \A i \in DOMAIN files[n].lines : files[n].lines[i].id \in Nat
                                      /\ files[n].tail.entry.id \in Nat
           /\ \A p \in Procs : sess[p].entries \in Seq(Line) /\ sess[p].path \in Name
           /\ \A p \in Procs : \A i \in DOMAIN sess[p].entries : sess[p].entries[i].id \in Nat
           /\ \A a \in acked : a[1] \in Nat
           /\ \A x \in Hand : at[x].entry.id \in Nat /\ (at[x].pc # "idle" => at[x].entry \in Line)
           /\ made \in Nat
<1>1. \A n \in DOMAIN files : files[n].lines \in Seq(Line) /\ files[n].tail.entry.id \in Nat
    BY FileIs, LoadedIs
<1>2. \A p \in Procs : sess[p] \in SessionOf BY DEF FilesShape
<1>3. \A p \in Procs : sess[p].entries \in Seq(Line) /\ sess[p].path \in Name BY <1>2 DEF SessionOf
<1>4. \A x \in Hand : at[x].entry \in AnyLine /\ (at[x].pc # "idle" => at[x].entry \in Line)
    BY DEF FilesShape, Place
<1>5. \A e \in AnyLine : e.id \in Nat BY DEF AnyLine, Line, NoEntry
<1>6. (\A a \in acked : a[1] \in Nat) /\ made \in Nat BY DEF FilesShape
<1> QED BY <1>1, <1>3, <1>4, <1>5, <1>6, LineIds

LEMMA FileIds ==
    ASSUME SessIInv, NEW n
    PROVE  /\ Loaded(File(n)) \in Seq(Line)
           /\ \A i \in DOMAIN Loaded(File(n)) : Loaded(File(n))[i].id <= made
<1>1. CASE n \in DOMAIN files BY <1>1, LoadedFits
<1>2. CASE n \notin DOMAIN files
  <2>1. Loaded(File(n)) = <<>> BY <1>2, FileIs DEF SessIInv
  <2> QED BY <2>1
<1> QED BY <1>1, <1>2

\* An entry is made.
LEMMA RecordKeeps ==
    ASSUME SessionAssumption, SessIInv, NEW p \in Procs, NEW w \in Goroutines, Record(p, w)
    PROVE  SessIInv'
<1> DEFINE old == sess[p].entries
           x == <<p, w>>
           e == [id |-> made + 1, parent |-> IF old = <<>> THEN 0 ELSE old[Len(old)].id]
           here == [pc |-> "open", path |-> sess[p].path, entry |-> e]
<1>1. FilesShape /\ WritersFit /\ TailsFit /\ IdsFit /\ Alone /\ OrderFits /\ MemoryFits /\ Paid
    BY DEF SessIInv
<1>2. /\ sess[p] # NoSession /\ Quiet(p) /\ made < MaxAppends /\ made' = made + 1
      /\ sess' = [sess EXCEPT ![p].entries = Append(@, e)]
      /\ at' = [at EXCEPT ![x] = here]
      /\ UNCHANGED <<second, files, acked, mixed, over, faults>>
    BY DEF Record
<1>3. old \in Seq(Line) /\ sess[p].path \in Name /\ made \in Nat BY <1>1, TypedIds
<1>4. e \in Line /\ e.id = made + 1 /\ e.parent = IF old = <<>> THEN 0 ELSE old[Len(old)].id
  <2>1. old # <<>> => Len(old) \in DOMAIN old BY <1>3, EmptySeq
  <2>2. old # <<>> => old[Len(old)].id \in Nat BY <1>3, <2>1, LineIds
  <2> QED BY <1>3, <2>2 DEF Line
<1> HIDE DEF e
<1>5. sess[p].path # <<>> BY <1>1, <1>2 DEF WritersFit
<1>6. x \in Hand /\ x[1] = p BY DEF Hand
<1>7. here.pc = "open" /\ here.path = sess[p].path /\ here.entry = e OBVIOUS
<1>8. here \in Place BY <1>3, <1>4 DEF Place, AnyLine
<1> HIDE DEF here, x
<1>9. /\ at'[x] = here
      /\ \A y \in Hand : y # x => at'[y] = at[y]
      /\ at' \in [Hand -> Place]
    BY <1>1, <1>2, <1>6, <1>8 DEF FilesShape
<1>10. \A y \in Hand : y[1] = p => at[y].pc = "idle" BY <1>2, QuietIs
<1>11. /\ sess'[p].path = sess[p].path /\ sess'[p].entries = Append(old, e)
       /\ \A q \in Procs : q # p => sess'[q] = sess[q]
       /\ sess' \in [Procs -> SessionOf]
  <2>1. sess \in [Procs -> SessionOf] BY <1>1 DEF FilesShape
  <2>2. Append(old, e) \in Seq(Line) BY <1>3, <1>4
  <2> QED BY <1>2, <1>3, <2>1, <2>2 DEF SessionOf
<1> HIDE DEF old
<1>12. \A y \in Hand : at'[y].pc = "half" <=> (at[y].pc = "half" /\ y # x) BY <1>7, <1>9
<1>13. at[x].pc = "idle" BY <1>6, <1>10
<1>14. \A y \in Hand : y[1] \in Procs BY DEF Hand
<1>15. FilesShape'
  <2>1. made' \in 0 .. MaxAppends BY <1>1, <1>2, <1>3 DEF FilesShape, SessionAssumption
  <2> QED BY <1>1, <1>2, <1>9, <1>11, <2>1 DEF FilesShape
<1>16. WritersFit'
  <2>1. \A q \in Procs : sess'[q].path = <<>> => sess'[q] = NoSession
      BY <1>1, <1>5, <1>11 DEF WritersFit
  <2> SUFFICES ASSUME NEW y \in Hand, at'[y].pc # "idle"
               PROVE  /\ at'[y].path = sess'[y[1]].path /\ at'[y].path # <<>>
                      /\ \A z \in Hand : at'[z].pc # "idle" /\ z[1] = y[1] => z = y
                      /\ at'[y].pc # "open" =>
                            /\ at'[y].path \in DOMAIN files'
                            /\ \A z \in Hand : at'[z].pc \in {"locked", "half"} /\ at'[z].path = at'[y].path
                                               => z = y
      BY <2>1 DEF WritersFit
  <2>2. CASE y = x BY <1>5, <1>6, <1>7, <1>9, <1>10, <1>11, <2>2
  <2>3. CASE y # x
    <3>1. at'[y] = at[y] /\ at[y].pc # "idle" /\ y[1] # p BY <1>9, <1>10, <2>3
    <3>2. at[y].path = sess'[y[1]].path /\ at[y].path # <<>> BY <1>1, <1>11, <1>14, <3>1 DEF WritersFit
    <3>3. \A z \in Hand : at'[z].pc # "idle" /\ z[1] = y[1] => z = y
        BY <1>1, <1>6, <1>9, <3>1 DEF WritersFit
    <3>4. ASSUME at[y].pc # "open"
          PROVE  /\ at'[y].path \in DOMAIN files'
                 /\ \A z \in Hand : at'[z].pc \in {"locked", "half"} /\ at'[z].path = at'[y].path
                                    => z = y
        BY <1>1, <1>2, <1>7, <1>9, <3>1, <3>4 DEF WritersFit
    <3> QED BY <3>1, <3>2, <3>3, <3>4
  <2> QED BY <2>2, <2>3
<1>17. \A n : Spoiled(n)' <=> Spoiled(n) BY <1>2, <1>9, <1>12, <1>13 DEF Spoiled
<1>18. TailsFit' BY <1>1, <1>2, <1>9, <1>12, <1>17 DEF TailsFit
<1>19. IdsFit'
  <2> USE <1>2
  <2>1. \A n \in DOMAIN files : \A i \in DOMAIN files[n].lines : files[n].lines[i].id <= made + 1
      BY <1>1, <1>3, TypedIds DEF IdsFit
  <2>2. \A n \in DOMAIN files : files[n].tail.entry.id <= made + 1 BY <1>1, <1>3, TypedIds DEF IdsFit
  <2>3. \A q \in Procs : \A i \in DOMAIN sess'[q].entries : sess'[q].entries[i].id <= made + 1
    <3>1. \A q \in Procs : \A i \in DOMAIN sess[q].entries : sess[q].entries[i].id <= made + 1
        BY <1>1, <1>3, TypedIds DEF IdsFit
    <3>2. \A i \in DOMAIN Append(old, e) : Append(old, e)[i].id <= made + 1
        BY <1>3, <1>4, <3>1, BoundedAppend DEF old
    <3> QED BY <1>11, <3>1, <3>2
  <2>4. \A a \in acked : a[1] <= made + 1 /\ a[1] # made + 1 BY <1>1, <1>3, TypedIds DEF IdsFit
  <2>5. ASSUME NEW y \in Hand, at'[y].pc # "idle"
        PROVE  /\ at'[y].entry.id \in 1 .. (made + 1) /\ \A a \in acked : a[1] # at'[y].entry.id
               /\ \A z \in Hand : at'[z].pc # "idle" /\ z # y => at'[z].entry.id # at'[y].entry.id
    <3>1. \A z \in Hand : z # x /\ at'[z].pc # "idle" =>
            at[z].pc # "idle" /\ at'[z].entry = at[z].entry /\ at[z].entry.id \in 1 .. made
        BY <1>1, <1>9 DEF IdsFit
    <3>2. at'[x].entry.id = made + 1 BY <1>4, <1>7, <1>9
    <3>3. CASE y = x BY <1>3, <2>4, <3>1, <3>2, <3>3
    <3>4. CASE y # x
      <4>1. at[y].pc # "idle" /\ at'[y].entry = at[y].entry /\ at[y].entry.id \in 1 .. made
          BY <2>5, <3>1, <3>4
      <4>2. \A a \in acked : a[1] # at[y].entry.id BY <1>1, <4>1 DEF IdsFit
      <4>3. \A z \in Hand : at[z].pc # "idle" /\ z # y => at[z].entry.id # at[y].entry.id
          BY <1>1, <4>1 DEF IdsFit
      <4> QED BY <1>3, <3>1, <3>2, <4>1, <4>2, <4>3
    <3> QED BY <3>3, <3>4
  <2>6. \A n \in DOMAIN files :
          files[n].tail.is \in {"half", "whole"} => <<files[n].tail.entry.id, n>> \notin acked
      BY <1>1 DEF IdsFit
  <2> QED BY <2>1, <2>2, <2>3, <2>4, <2>5, <2>6 DEF IdsFit
<1>20. Alone' BY <1>1, <1>2, <1>11 DEF Alone
<1>21. \A n : File(n)' = File(n) BY <1>2 DEF File
<1>22. OrderFits'
  <2>1. \A n \in DOMAIN files' \ mixed' : Rising(Loaded(File(n))) /\ Rising(Loaded(files'[n]))
      BY <1>1, <1>2 DEF OrderFits, File
  <2>2. \A q \in Procs : sess'[q].path \notin mixed' => Rising(sess'[q].entries)
    <3>1. \A i \in DOMAIN old : old[i].id <= made /\ old[i].id \in Nat
        BY <1>1, TypedIds DEF IdsFit, old
    <3>2. \A i \in DOMAIN old : old[i].id < e.id BY <1>3, <1>4, <3>1
    <3>3. sess[p].path \notin mixed => Rising(Append(old, e))
        BY <1>1, <1>3, <1>4, <3>2, RisingAppend DEF OrderFits, old
    <3>4. \A q \in Procs : q # p /\ sess[q].path \notin mixed => Rising(sess[q].entries)
        BY <1>1 DEF OrderFits
    <3> SUFFICES ASSUME NEW q \in Procs, sess'[q].path \notin mixed' PROVE Rising(sess'[q].entries)
        OBVIOUS
    <3>5. CASE q = p
      <4>1. sess'[q].entries = Append(old, e) /\ sess[p].path \notin mixed BY <1>2, <1>11, <3>5
      <4> QED BY <3>3, <4>1
    <3>6. CASE q # p
      <4>1. sess'[q] = sess[q] /\ sess[q].path \notin mixed BY <1>2, <1>11, <3>6
      <4> QED BY <3>4, <3>6, <4>1
    <3> QED BY <3>5, <3>6
  <2>3. ASSUME NEW y \in Hand, at'[y].pc # "idle", at'[y].path \notin mixed',
               NEW i \in DOMAIN Loaded(File(at'[y].path))
        PROVE  Loaded(File(at'[y].path))[i].id < at'[y].entry.id
    <3>1. CASE y = x
      <4>1. /\ Loaded(File(at'[y].path))[i].id <= made
            /\ Loaded(File(at'[y].path))[i].id \in Nat
          BY <2>3, FileIds, LineIds
      <4> QED BY <1>3, <1>4, <1>7, <1>9, <3>1, <4>1
    <3>2. CASE y # x BY <1>1, <1>2, <1>9, <2>3, <3>2 DEF OrderFits
    <3> QED BY <3>1, <3>2
  <2> QED BY <1>2, <1>21, <2>1, <2>2, <2>3 DEF OrderFits
<1>23. MemoryFits'
  <2> SUFFICES ASSUME faults = 0 PROVE MemoryFits' BY <1>2 DEF MemoryFits
  <2>1. \A n \in DOMAIN files' \ mixed' : Chained(Loaded(files'[n])) BY <1>1, <1>2 DEF MemoryFits
  <2>2. \A q \in Procs : sess'[q].path \notin mixed' => Chained(sess'[q].entries)
    <3>1. sess[p].path \notin mixed => Chained(old) BY <1>1 DEF MemoryFits, old
    <3>2. sess[p].path \notin mixed => Chained(Append(old, e))
        BY <1>3, <1>4, <3>1, ChainedAppend
    <3>3. \A q \in Procs : q # p /\ sess[q].path \notin mixed => Chained(sess[q].entries)
        BY <1>1 DEF MemoryFits
    <3> SUFFICES ASSUME NEW q \in Procs, sess'[q].path \notin mixed' PROVE Chained(sess'[q].entries)
        OBVIOUS
    <3>5. CASE q = p
      <4>1. sess'[q].entries = Append(old, e) /\ sess[p].path \notin mixed BY <1>2, <1>11, <3>5
      <4> QED BY <3>2, <4>1
    <3>6. CASE q # p
      <4>1. sess'[q] = sess[q] /\ sess[q].path \notin mixed BY <1>2, <1>11, <3>6
      <4> QED BY <3>3, <3>6, <4>1
    <3> QED BY <3>5, <3>6
  <2>3. \A q \in Procs : Quiet(q)' /\ sess'[q].path \notin mixed' =>
              sess'[q].entries = Loaded(File(sess'[q].path))
    <3> SUFFICES ASSUME NEW q \in Procs, Quiet(q)', sess'[q].path \notin mixed'
                 PROVE  sess'[q].entries = Loaded(File(sess'[q].path))
        OBVIOUS
    <3>1. \A y \in Hand : y[1] = q => at'[y].pc = "idle" BY DEF Quiet, Hand
    <3>2. q # p BY <1>6, <1>7, <1>9, <3>1
    <3>3. Quiet(q) BY <1>6, <1>9, <3>1, <3>2, QuietIs
    <3> QED BY <1>1, <1>2, <1>11, <3>2, <3>3 DEF MemoryFits
  <2>4. ASSUME NEW y \in Hand, at'[y].pc # "idle", at'[y].path \notin mixed'
        PROVE  sess'[y[1]].entries = Append(Loaded(File(at'[y].path)), at'[y].entry)
    <3>1. CASE y = x
      <4>1. sess[p].path \notin mixed BY <1>2, <1>7, <1>9, <2>4, <3>1
      <4>2. old = Loaded(File(sess[p].path)) BY <1>1, <1>2, <4>1 DEF MemoryFits, old
      <4> QED BY <1>6, <1>7, <1>9, <1>11, <3>1, <4>2
    <3>2. CASE y # x
      <4>1. at'[y] = at[y] /\ y[1] # p /\ at[y].pc # "idle" BY <1>9, <1>10, <2>4, <3>2
      <4> QED BY <1>1, <1>2, <1>11, <1>14, <2>4, <4>1 DEF MemoryFits
    <3> QED BY <3>1, <3>2
  <2> QED BY <1>21, <2>1, <2>2, <2>3, <2>4 DEF MemoryFits
<1>24. Paid'
  <2>1. LostNow' = LostNow BY <1>2, <1>21 DEF LostNow, Lost
  <2>2. Debts' = Debts BY <1>2, <1>17 DEF Debts
  <2> QED BY <1>1, <1>2, <2>1, <2>2 DEF Paid
<1> QED BY <1>15, <1>16, <1>18, <1>19, <1>20, <1>22, <1>23, <1>24 DEF SessIInv

-----------------------------------------------------------------------------
\* A fork writes the entries in memory to a file of its own.
LEMMA ForkKeeps ==
    ASSUME SessionAssumption, SessIInv, NEW p \in Procs, Fork(p)
    PROVE  SessIInv'
<1> DEFINE es == sess[p].entries
<1>0. PICK name : name = Append(sess[p].path, second % Day) OBVIOUS
<1>1. FilesShape /\ WritersFit /\ TailsFit /\ IdsFit /\ Alone /\ OrderFits /\ MemoryFits /\ Paid
    BY DEF SessIInv
<1>2. PICK k \in 0 .. Len(es) :
        /\ IF k = Len(es) THEN UNCHANGED faults ELSE faults < MaxFaults /\ faults' = faults + 1
        /\ files' = Put(name, [EmptyFile EXCEPT !.lines = SubSeq(es, 1, k)])
        /\ sess' = [sess EXCEPT ![p].path = name]
    BY <1>0 DEF Fork
<1>3. /\ Quiet(p) /\ es # <<>>
      /\ over' = over \cup ({name} \cap DOMAIN files)
      /\ mixed' = MixedByFork(p, name)
      /\ UNCHANGED <<second, at, made, acked>>
    BY <1>0 DEF Fork
<1> DEFINE part == SubSeq(es, 1, k)
           new == [EmptyFile EXCEPT !.lines = part]
<1>4. es \in Seq(Line) /\ sess[p].path \in Name /\ made \in Nat BY <1>1, TypedIds
<1>5. /\ part \in Seq(Line) /\ (Rising(es) => Rising(part)) /\ (k = Len(es) => part = es)
      /\ (\A i \in DOMAIN es : es[i].id <= made) => \A i \in DOMAIN part : part[i].id <= made
    BY <1>4, PartOfRising
<1>6. name \in Name /\ name # <<>>
  <2>1. second % Day \in Nat BY <1>1 DEF FilesShape, SessionAssumption
  <2>2. sess[p].path \in Seq(Nat) BY <1>4 DEF Name
  <2>3. name \in Seq(Nat) /\ Len(name) # 0 BY <1>0, <2>1, <2>2
  <2> QED BY <2>3 DEF Name
<1> HIDE DEF part
<1>7. new.lines = part /\ new.tail = Tail0 /\ new.tail.is = "none" /\ new.tail.entry.id = 0
    BY DEF EmptyFile, Tail0, NoEntry
<1>8. new \in FileOf BY <1>5 DEF EmptyFile, Tail0, FileOf, TailOf, AnyLine
<1>9. Loaded(new) = part BY <1>7, <1>8, LoadedIs
<1>10. files' = Put(name, new) BY <1>2 DEF part
<1> HIDE DEF new
<1>11. /\ DOMAIN files' = DOMAIN files \cup {name} /\ files'[name] = new
       /\ \A n \in DOMAIN files : n # name => files'[n] = files[n]
    BY <1>10 DEF Put
<1>12. /\ mixed \subseteq mixed' /\ (name \in DOMAIN files \/ name \in Held(p) => name \in mixed')
       /\ sess[p].path \in mixed => name \in mixed'
    BY <1>3 DEF MixedByFork
<1>13. \A q \in Procs : q # p /\ sess[q].path = name => name \in mixed' BY <1>12 DEF Held
<1>14. /\ sess'[p].path = name /\ sess'[p].entries = es
       /\ \A q \in Procs : q # p => sess'[q] = sess[q]
       /\ sess' \in [Procs -> SessionOf]
  <2>1. sess \in [Procs -> SessionOf] BY <1>1 DEF FilesShape
  <2> QED BY <1>2, <1>4, <1>6, <2>1 DEF SessionOf
<1>15. \A x \in Hand : at[x].pc # "idle" => x[1] \in Procs /\ x[1] # p BY <1>3, QuietIs DEF Hand
<1>16. faults' \in 0 .. MaxFaults /\ faults' >= faults /\ (faults' = 0 => faults = 0 /\ part = es)
    BY <1>1, <1>2, <1>5 DEF FilesShape, SessionAssumption
<1>17. File(name)' = new /\ \A n : n # name => File(n)' = File(n) BY <1>11 DEF File
<1>18. over \subseteq over' /\ (name \in DOMAIN files => name \in over') BY <1>3
<1>19. ASSUME NEW x \in Hand, at[x].pc # "idle", at[x].path = name PROVE name \in mixed'
    BY <1>1, <1>13, <1>15, <1>19 DEF WritersFit
<1> HIDE DEF es
<1>20. FilesShape'
  <2>1. files' \in [DOMAIN files' -> FileOf] /\ DOMAIN files' \subseteq Name /\ <<>> \notin DOMAIN files'
    <3>1. files' = [n \in DOMAIN files' |-> files'[n]] BY <1>10, <1>11 DEF Put
    <3>2. \A n \in DOMAIN files' : files'[n] \in FileOf BY <1>1, <1>8, <1>11 DEF FilesShape
    <3> QED BY <1>1, <1>6, <1>11, <3>1, <3>2 DEF FilesShape
  <2>2. IsFiniteSet(DOMAIN files') BY <1>1, <1>11, FS_AddElement DEF FilesShape
  <2>3. \A a \in acked' : a[2] \in DOMAIN files' BY <1>1, <1>3, <1>11 DEF FilesShape
  <2> QED BY <1>1, <1>3, <1>14, <1>16, <2>1, <2>2, <2>3 DEF FilesShape
<1>21. WritersFit'
  <2>1. \A q \in Procs : sess'[q].path = <<>> => sess'[q] = NoSession
      BY <1>1, <1>6, <1>14 DEF WritersFit
  <2>2. \A x \in Hand : at[x].pc # "idle" => at[x].path = sess'[x[1]].path
      BY <1>1, <1>14, <1>15 DEF WritersFit
  <2> QED BY <1>1, <1>3, <1>11, <2>1, <2>2 DEF WritersFit
<1>22. Spoiled(name)' <=> FALSE BY <1>7, <1>11 DEF Spoiled
<1>23. \A n \in DOMAIN files : n # name => (Spoiled(n)' <=> Spoiled(n)) BY <1>3, <1>11 DEF Spoiled
<1>24. TailsFit'
  <2>1. \A n \in DOMAIN files' : files'[n].tail.is = "none" => files'[n].tail = Tail0
      BY <1>1, <1>7, <1>11 DEF TailsFit
  <2>2. \A n \in DOMAIN files' : files'[n].tail.is = "junk" => files'[n].tail = Junk
      BY <1>1, <1>7, <1>11 DEF TailsFit
  <2>3. \A n \in DOMAIN files' : Spoiled(n)' => faults' # 0
      BY <1>1, <1>11, <1>16, <1>22, <1>23 DEF TailsFit
  <2>4. ASSUME NEW x \in Hand, at[x].pc = "half"
        PROVE  \/ files'[at[x].path].tail = HalfOf(at[x].entry)
               \/ files'[at[x].path].tail = Junk
               \/ files'[at[x].path].tail = Tail0 /\ at[x].path \in over'
    <3>1. at[x].path \in DOMAIN files BY <1>1, <2>4 DEF WritersFit
    <3>2. CASE at[x].path = name BY <1>7, <1>11, <1>18, <3>1, <3>2
    <3>3. CASE at[x].path # name BY <1>1, <1>11, <1>18, <2>4, <3>1, <3>3 DEF TailsFit
    <3> QED BY <3>2, <3>3
  <2> QED BY <1>3, <2>1, <2>2, <2>3, <2>4 DEF TailsFit
<1>25. IdsFit'
  <2>1. \A i \in DOMAIN part : part[i].id <= made BY <1>1, <1>5 DEF IdsFit, es
  <2>2. \A n \in DOMAIN files' : \A i \in DOMAIN files'[n].lines : files'[n].lines[i].id <= made
      BY <1>1, <1>7, <1>11, <2>1 DEF IdsFit
  <2>3. \A n \in DOMAIN files' : files'[n].tail.entry.id <= made
      BY <1>1, <1>4, <1>7, <1>11 DEF IdsFit
  <2>4. \A q \in Procs : \A i \in DOMAIN sess'[q].entries : sess'[q].entries[i].id <= made
      BY <1>1, <1>14 DEF IdsFit, es
  <2>5. \A n \in DOMAIN files' :
          files'[n].tail.is \in {"half", "whole"} => <<files'[n].tail.entry.id, n>> \notin acked
      BY <1>1, <1>7, <1>11 DEF IdsFit
  <2> QED BY <1>1, <1>3, <2>2, <2>3, <2>4, <2>5 DEF IdsFit
<1>26. Alone' BY <1>1, <1>3, <1>12, <1>13, <1>14 DEF Alone
<1>27. OrderFits'
  <2>1. sess[p].path \notin mixed => Rising(es) BY <1>1 DEF OrderFits, es
  <2>2. ASSUME NEW n \in DOMAIN files' \ mixed' PROVE Rising(Loaded(files'[n]))
    <3>1. CASE n = name BY <1>5, <1>9, <1>11, <1>12, <2>1, <2>2, <3>1
    <3>2. CASE n # name BY <1>1, <1>11, <1>12, <2>2, <3>2 DEF OrderFits
    <3> QED BY <3>1, <3>2
  <2>3. ASSUME NEW q \in Procs, sess'[q].path \notin mixed' PROVE Rising(sess'[q].entries)
    <3>1. CASE q = p
      <4>1. sess'[q].entries = es /\ sess[p].path \notin mixed BY <1>12, <1>14, <2>3, <3>1
      <4> QED BY <2>1, <4>1
    <3>2. CASE q # p
      <4>1. sess'[q] = sess[q] /\ sess[q].path \notin mixed BY <1>12, <1>14, <2>3, <3>2
      <4> QED BY <1>1, <4>1 DEF OrderFits
    <3> QED BY <3>1, <3>2
  <2>4. ASSUME NEW x \in Hand, at[x].pc # "idle", at[x].path \notin mixed'
        PROVE  (\A i \in DOMAIN Loaded(File(at[x].path)) :
                    Loaded(File(at[x].path))[i].id < at[x].entry.id)'
    <3> PICK m : m = at[x].path OBVIOUS
    <3>1. m # name BY <1>19, <2>4
    <3>2. m \notin mixed BY <1>12, <2>4
    <3>3. \A i \in DOMAIN Loaded(File(m)) : Loaded(File(m))[i].id < at[x].entry.id
        BY <1>1, <2>4, <3>2 DEF OrderFits
    <3>4. File(m)' = File(m) BY <1>17, <3>1
    <3> QED BY <1>3, <3>3, <3>4
  <2> QED BY <1>3, <2>2, <2>3, <2>4 DEF OrderFits
<1>28. MemoryFits'
  <2> SUFFICES ASSUME faults' = 0 PROVE MemoryFits' BY DEF MemoryFits
  <2>1. faults = 0 /\ part = es BY <1>16
  <2>2. sess[p].path \notin mixed => Chained(es) BY <1>1, <2>1 DEF MemoryFits, es
  <2>3. ASSUME NEW n \in DOMAIN files' \ mixed' PROVE Chained(Loaded(files'[n]))
    <3>1. CASE n = name BY <1>9, <1>11, <1>12, <2>1, <2>2, <2>3, <3>1
    <3>2. CASE n # name BY <1>1, <1>11, <1>12, <2>1, <2>3, <3>2 DEF MemoryFits
    <3> QED BY <3>1, <3>2
  <2>4. ASSUME NEW q \in Procs, sess'[q].path \notin mixed' PROVE Chained(sess'[q].entries)
    <3>1. CASE q = p
      <4>1. sess'[q].entries = es /\ sess[p].path \notin mixed BY <1>12, <1>14, <2>4, <3>1
      <4> QED BY <2>2, <4>1
    <3>2. CASE q # p
      <4>1. sess'[q] = sess[q] /\ sess[q].path \notin mixed BY <1>12, <1>14, <2>4, <3>2
      <4> QED BY <1>1, <2>1, <4>1 DEF MemoryFits
    <3> QED BY <3>1, <3>2
  <2>5. ASSUME NEW q \in Procs, Quiet(q)', sess'[q].path \notin mixed'
        PROVE  (sess[q].entries = Loaded(File(sess[q].path)))'
    <3> PICK m : m = sess'[q].path OBVIOUS
    <3> SUFFICES sess'[q].entries = Loaded(File(m)') OBVIOUS
    <3>1. CASE q = p BY <1>9, <1>14, <1>17, <2>1, <3>1
    <3>2. CASE q # p
      <4>1. sess'[q] = sess[q] /\ sess[q].path \notin mixed /\ sess[q].path # name
          BY <1>12, <1>13, <1>14, <2>5, <3>2
      <4>2. Quiet(q) BY <1>3, <2>5 DEF Quiet
      <4>3. sess[q].entries = Loaded(File(m)) BY <1>1, <2>1, <4>1, <4>2 DEF MemoryFits
      <4>4. File(m)' = File(m) BY <1>17, <4>1
      <4> QED BY <4>1, <4>3, <4>4
    <3> QED BY <3>1, <3>2
  <2>6. ASSUME NEW x \in Hand, at[x].pc # "idle", at[x].path \notin mixed'
        PROVE  (sess[x[1]].entries = Append(Loaded(File(at[x].path)), at[x].entry))'
    <3> PICK m : m = at[x].path OBVIOUS
    <3>1. m # name BY <1>19, <2>6
    <3>2. at[x].path \notin mixed BY <1>12, <2>6
    <3>3. sess'[x[1]] = sess[x[1]] BY <1>14, <1>15, <2>6
    <3>4. sess[x[1]].entries = Append(Loaded(File(m)), at[x].entry) BY <1>1, <2>1, <2>6, <3>2 DEF MemoryFits
    <3>5. File(m)' = File(m) BY <1>17, <3>1
    <3> QED BY <1>3, <3>3, <3>4, <3>5
  <2> QED BY <1>3, <2>3, <2>4, <2>5, <2>6 DEF MemoryFits
<1>29. Paid'
  <2>1. ASSUME NEW a \in acked, a[2] \notin over' PROVE File(a[2])' = File(a[2])
    <3>1. a[2] \in DOMAIN files BY <1>1 DEF FilesShape
    <3>2. a[2] # name BY <1>18, <2>1, <3>1
    <3> QED BY <1>17, <3>2
  <2>2. LostNow' \subseteq LostNow BY <1>3, <1>18, <2>1, LostKept
  <2>3. Debts' \subseteq Debts BY <1>11, <1>18, <1>22, <1>23 DEF Debts
  <2>4. faults' \in Nat BY <1>16
  <2> QED BY <1>1, <1>16, <2>2, <2>3, <2>4, PaidKept
<1> QED BY <1>20, <1>21, <1>24, <1>25, <1>26, <1>27, <1>28, <1>29 DEF SessIInv

-----------------------------------------------------------------------------
\* A hand leaves Append before its entry is whole in the file: its write fails, or its program
\* is killed.
Leaves(x, nm) ==
    /\ x \in Hand => nm = at[x].path
    /\ faults < MaxFaults /\ faults' = faults + 1 /\ at' \in [Hand -> Place]
    /\ \A y \in Hand : at'[y].pc # "idle" => y # x /\ at'[y] = at[y]
    /\ \A y \in Hand : y # x /\ at[y].pc # "idle" =>
            at'[y] = at[y] /\ at'[y].pc # "idle" /\ sess'[y[1]] = sess[y[1]]
    /\ \/ files' = files
       \/ /\ x \in Hand /\ at[x].pc = "half"
          /\ \E f \in Broken(at[x], files[nm]) : files' = [files EXCEPT ![nm] = f]
    /\ sess' \in [Procs -> SessionOf]
    /\ \A q \in Procs : sess'[q] = sess[q] \/ sess'[q] = NoSession
    /\ UNCHANGED <<second, made, acked, mixed, over>>

LEMMA HandLeaves ==
    ASSUME SessionAssumption, SessIInv, NEW x, NEW nm, Leaves(x, nm)
    PROVE  SessIInv'
<1> USE DEF Leaves
<1>1. FilesShape /\ WritersFit /\ TailsFit /\ IdsFit /\ Alone /\ OrderFits /\ MemoryFits /\ Paid
    BY DEF SessIInv
<1>2. x \in Hand /\ at[x].pc = "half" =>
        /\ nm \in DOMAIN files /\ nm = at[x].path
        /\ \A y \in Hand : at[y].pc = "half" /\ at[y].path = nm => y = x
    BY <1>1 DEF WritersFit
<1>3. /\ DOMAIN files' = DOMAIN files
      /\ \A n \in DOMAIN files : n # nm => files'[n] = files[n]
      /\ \A n \in DOMAIN files : files'[n] = files[n] \/
            /\ n = nm /\ x \in Hand /\ at[x].pc = "half" /\ files[n].tail = HalfOf(at[x].entry)
            /\ files'[n] = [files[n] EXCEPT !.tail.is = "whole"]
      /\ files' = [n \in DOMAIN files |-> files'[n]]
  <2>0. files = [n \in DOMAIN files |-> files[n]] BY <1>1 DEF FilesShape
  <2>1. CASE files' = files BY <2>0, <2>1
  <2>2. CASE files' # files
    <3>1. PICK f \in Broken(at[x], files[nm]) : files' = [files EXCEPT ![nm] = f] BY <2>2
    <3>2. x \in Hand /\ at[x].pc = "half" BY <2>2
    <3>3. f = files[nm] \/ (files[nm].tail = HalfOf(at[x].entry)
                            /\ f = [files[nm] EXCEPT !.tail.is = "whole"])
        BY <3>1 DEF Broken, HalfOf
    <3>4. /\ DOMAIN files' = DOMAIN files /\ files'[nm] = f
          /\ \A n \in DOMAIN files : n # nm => files'[n] = files[n]
        BY <1>2, <3>1, <3>2
    <3>5. files' = [n \in DOMAIN files |-> files'[n]] BY <2>0, <3>1
    <3> QED BY <3>2, <3>3, <3>4, <3>5
  <2> QED BY <2>1, <2>2
<1>4. \A n \in DOMAIN files : files[n] \in FileOf BY <1>1, FileIs
<1>5. \A n \in DOMAIN files :
        /\ files'[n] \in FileOf /\ files'[n].lines = files[n].lines
        /\ files'[n].tail.entry = files[n].tail.entry
        /\ files'[n].tail = files[n].tail \/
              (files'[n].tail.is = "whole" /\ files[n].tail.is = "half")
        /\ files'[n] = files[n] \/
              /\ n = nm /\ x \in Hand /\ at[x].pc = "half"
              /\ Loaded(files'[n]) = Append(Loaded(files[n]), at[x].entry)
  <2> SUFFICES ASSUME NEW n \in DOMAIN files, files'[n] # files[n]
               PROVE  /\ files'[n] \in FileOf /\ files'[n].lines = files[n].lines
                      /\ files'[n].tail.entry = files[n].tail.entry
                      /\ files'[n].tail.is = "whole" /\ files[n].tail.is = "half"
                      /\ n = nm /\ x \in Hand /\ at[x].pc = "half"
                      /\ Loaded(files'[n]) = Append(Loaded(files[n]), at[x].entry)
      BY <1>4
  <2>1. /\ n = nm /\ x \in Hand /\ at[x].pc = "half" /\ files[n].tail = HalfOf(at[x].entry)
        /\ files'[n] = [files[n] EXCEPT !.tail.is = "whole"]
      BY <1>3
  <2> DEFINE old == files[n] after == [old EXCEPT !.tail.is = "whole"] e == at[x].entry
  <2>2. old \in FileOf /\ old.tail = HalfOf(e) /\ files'[n] = after BY <1>4, <2>1
  <2> HIDE DEF old, e
  <2>3. /\ after \in FileOf /\ after.lines = old.lines /\ after.tail.entry = e /\ after.tail.is = "whole"
        /\ old.tail.is = "half" /\ old.tail.entry = e
      BY <2>2 DEF FileOf, TailOf, HalfOf
  <2> HIDE DEF after
  <2>4. Loaded(after) = Append(Loaded(old), e) BY <2>2, <2>3, LoadedIs
  <2> QED BY <2>1, <2>2, <2>3, <2>4 DEF old, e
<1>6. \A y \in Hand : at'[y].pc # "idle" =>
        y \in Hand /\ y # x /\ at'[y] = at[y] /\ at[y].pc # "idle" /\ sess'[y[1]] = sess[y[1]]
    OBVIOUS
<1>7. FilesShape'
  <2>1. files' \in [DOMAIN files' -> FileOf] BY <1>3, <1>5
  <2>2. faults' \in 0 .. MaxFaults BY <1>1 DEF FilesShape, SessionAssumption
  <2> QED BY <1>1, <1>3, <2>1, <2>2 DEF FilesShape
<1>8. WritersFit'
  <2>1. \A q \in Procs : sess'[q].path = <<>> => sess'[q] = NoSession BY <1>1 DEF WritersFit
  <2>2. ASSUME NEW y \in Hand, at'[y].pc # "idle"
        PROVE  /\ at'[y].path = sess'[y[1]].path /\ at'[y].path # <<>>
               /\ \A z \in Hand : at'[z].pc # "idle" /\ z[1] = y[1] => z = y
               /\ at'[y].pc # "open" =>
                     /\ at'[y].path \in DOMAIN files'
                     /\ \A z \in Hand : at'[z].pc \in {"locked", "half"} /\ at'[z].path = at'[y].path
                                        => z = y
    <3>1. at'[y] = at[y] /\ at[y].pc # "idle" /\ sess'[y[1]] = sess[y[1]] BY <1>6, <2>2
    <3>2. at[y].path = sess[y[1]].path /\ at[y].path # <<>> BY <1>1, <3>1 DEF WritersFit
    <3>3. \A z \in Hand : at'[z].pc # "idle" /\ z[1] = y[1] => z = y BY <1>1, <1>6, <3>1 DEF WritersFit
    <3>4. \A z \in Hand : at'[z].pc \in {"locked", "half"} => at'[z] = at[z] BY <1>6
    <3>5. at[y].pc # "open" =>
                     /\ at[y].path \in DOMAIN files
                     /\ \A z \in Hand : at[z].pc \in {"locked", "half"} /\ at[z].path = at[y].path
                                        => z = y
        BY <1>1, <3>1 DEF WritersFit
    <3> QED BY <1>3, <3>1, <3>2, <3>3, <3>4, <3>5
  <2> QED BY <2>1, <2>2 DEF WritersFit
<1>9. \A y \in Hand : at'[y].pc = "half" =>
        /\ at'[y] = at[y] /\ at[y].path \in DOMAIN files
        /\ files'[at[y].path] = files[at[y].path]
  <2> SUFFICES ASSUME NEW y \in Hand, at'[y].pc = "half"
               PROVE  /\ at'[y] = at[y] /\ at[y].path \in DOMAIN files
                      /\ files'[at[y].path] = files[at[y].path]
      OBVIOUS
  <2>1. at'[y] = at[y] /\ y # x /\ at[y].pc = "half" BY <1>6
  <2>2. at[y].path \in DOMAIN files BY <1>1, <2>1 DEF WritersFit
  <2>3. at[y].path = nm /\ x \in Hand /\ at[x].pc = "half" => FALSE BY <1>2, <2>1
  <2> QED BY <1>5, <2>1, <2>2, <2>3
<1>10. TailsFit'
  <2>1. ASSUME NEW y \in Hand, at'[y].pc = "half"
        PROVE  \/ files'[at'[y].path].tail = HalfOf(at'[y].entry)
               \/ files'[at'[y].path].tail = Junk
               \/ files'[at'[y].path].tail = Tail0 /\ at'[y].path \in over
      BY <1>1, <1>9, <2>1 DEF TailsFit
  <2>2. faults' # 0 BY <1>1 DEF FilesShape
  <2>3. \A n \in DOMAIN files' : /\ files'[n].tail.is = "none" => files'[n].tail = Tail0
                                 /\ files'[n].tail.is = "junk" => files'[n].tail = Junk
      BY <1>1, <1>3, <1>5 DEF TailsFit
  <2> QED BY <2>1, <2>2, <2>3 DEF TailsFit
<1>11. IdsFit'
  <2>1. ASSUME NEW n \in DOMAIN files'
        PROVE  /\ \A i \in DOMAIN files'[n].lines : files'[n].lines[i].id <= made
               /\ files'[n].tail.entry.id <= made
               /\ files'[n].tail.is \in {"half", "whole"} => <<files'[n].tail.entry.id, n>> \notin acked
      BY <1>1, <1>3, <1>5, <2>1 DEF IdsFit
  <2>2. \A q \in Procs : \A i \in DOMAIN sess'[q].entries : sess'[q].entries[i].id <= made
      BY <1>1 DEF IdsFit, NoSession
  <2>3. ASSUME NEW y \in Hand, at'[y].pc # "idle"
        PROVE  /\ at'[y].entry.id \in 1 .. made /\ \A a \in acked : a[1] # at'[y].entry.id
               /\ \A z \in Hand : at'[z].pc # "idle" /\ z # y => at'[z].entry.id # at'[y].entry.id
      BY <1>1, <1>6, <2>3 DEF IdsFit
  <2> QED BY <1>1, <2>1, <2>2, <2>3 DEF IdsFit
<1>12. Alone' BY <1>1 DEF Alone, NoSession
<1>13. \A n : n \in DOMAIN files /\ files'[n] = files[n] => File(n)' = File(n) BY <1>3 DEF File
<1>14. \A n : n \notin DOMAIN files => File(n)' = File(n) BY <1>3 DEF File
<1>15. OrderFits'
  <2>1. ASSUME NEW n \in DOMAIN files' \ mixed PROVE Rising(Loaded(files'[n]))
    <3>1. Rising(Loaded(files[n])) /\ n \in DOMAIN files BY <1>1, <1>3 DEF OrderFits
    <3>2. CASE files'[n] # files[n]
      <4>1. /\ n = nm /\ x \in Hand /\ at[x].pc = "half"
            /\ Loaded(files'[n]) = Append(Loaded(files[n]), at[x].entry)
          BY <1>5, <3>1, <3>2
      <4>2. File(nm) = files[nm] /\ nm = at[x].path BY <1>2, <4>1 DEF File
      <4>3. \A i \in DOMAIN Loaded(files[n]) : Loaded(files[n])[i].id < at[x].entry.id
          BY <1>1, <2>1, <4>1, <4>2 DEF OrderFits
      <4>4. at[x].entry \in Line /\ Loaded(files[n]) \in Seq(Line) BY <1>1, <1>4, <3>1, <4>1, TypedIds, LoadedIs
      <4> QED BY <3>1, <4>1, <4>3, <4>4, RisingAppend
    <3> QED BY <3>1, <3>2
  <2>2. ASSUME NEW q \in Procs, sess'[q].path \notin mixed PROVE Rising(sess'[q].entries)
    <3>1. CASE sess'[q] = sess[q] BY <1>1, <2>2, <3>1 DEF OrderFits
    <3>2. CASE sess'[q] = NoSession BY <3>2 DEF NoSession, Rising
    <3> QED BY <3>1, <3>2
  <2>3. ASSUME NEW y \in Hand, at'[y].pc # "idle", at'[y].path \notin mixed
        PROVE  (\A i \in DOMAIN Loaded(File(at[y].path)) :
                    Loaded(File(at[y].path))[i].id < at[y].entry.id)'
    <3>1. at'[y] = at[y] /\ at[y].pc # "idle" /\ y # x BY <1>6, <2>3
    <3> PICK m : m = at[y].path OBVIOUS
    <3>2. m \notin mixed BY <2>3, <3>1
    <3>3. File(m)' = File(m)
      <4>1. CASE m \notin DOMAIN files BY <1>14, <4>1
      <4>2. CASE m \in DOMAIN files
        <5>1. files'[m] = files[m]
          <6>1. SUFFICES ASSUME files'[m] # files[m] PROVE FALSE OBVIOUS
          <6>2. m = nm /\ x \in Hand /\ at[x].pc = "half" /\ at[x].path = m BY <1>2, <1>5, <4>2, <6>1
          <6> QED BY <1>1, <3>1, <3>2, <6>2, OneHand
        <5> QED BY <1>13, <4>2, <5>1
      <4> QED BY <4>1, <4>2
    <3>4. \A i \in DOMAIN Loaded(File(m)) : Loaded(File(m))[i].id < at[y].entry.id
        BY <1>1, <3>1, <3>2 DEF OrderFits
    <3> QED BY <3>1, <3>3, <3>4
  <2> QED BY <2>1, <2>2, <2>3 DEF OrderFits
<1>16. MemoryFits' BY <1>1 DEF MemoryFits, FilesShape
<1>17. Paid'
  <2>1. ASSUME NEW a \in acked, a[1] \in Ids(Loaded(File(a[2]))) PROVE a[1] \in Ids(Loaded(File(a[2])))'
    <3> PICK m : m = a[2] OBVIOUS
    <3>1. m \in DOMAIN files BY <1>1 DEF FilesShape
    <3>2. CASE files'[m] = files[m] BY <1>13, <2>1, <3>1, <3>2
    <3>3. CASE files'[m] # files[m]
      <4>1. File(m)' = files'[m] /\ File(m) = files[m] BY <1>3, <3>1 DEF File
      <4>2. Loaded(files'[m]) = Append(Loaded(files[m]), at[x].entry) /\ x \in Hand BY <1>5, <3>1, <3>3
      <4>3. at[x].entry \in Line /\ Loaded(files[m]) \in Seq(Line) BY <1>1, <1>4, <3>1, <4>2, TypedIds, LoadedIs
      <4>4. Ids(Loaded(files[m])) \subseteq Ids(Loaded(files'[m])) BY <4>2, <4>3, IdsAppend
      <4> QED BY <2>1, <4>1, <4>4
    <3> QED BY <3>2, <3>3
  <2>2. LostNow' \subseteq LostNow BY <2>1, LostKept
  <2>3. ASSUME NEW n \in DOMAIN files, n # nm, Spoiled(n)' PROVE Spoiled(n)
    <3>1. files'[n] = files[n] BY <1>3, <2>3
    <3>2. \A y \in Hand : at[y].pc = "half" /\ at[y].path = n => at'[y] = at[y] BY <2>3
    <3> QED BY <2>3, <3>1, <3>2 DEF Spoiled
  <2>4. Debts' \subseteq Debts \cup {nm} BY <1>3, <2>3 DEF Debts
  <2> QED BY <1>1, <2>2, <2>4, PaidByFault
<1> QED BY <1>7, <1>8, <1>10, <1>11, <1>12, <1>15, <1>16, <1>17 DEF SessIInv

LEMMA AppendFailsKeeps ==
    ASSUME SessionAssumption, SessIInv, NEW p \in Procs, NEW w \in Goroutines, AppendFails(p, w)
    PROVE  SessIInv'
<1>1. FilesShape BY DEF SessIInv
<1>2. PICK x : x = <<p, w>> OBVIOUS
<1>3. PICK nm : nm = at[x].path OBVIOUS
<1>4. x \in Hand BY <1>2 DEF Hand
<1>5. at' = [at EXCEPT ![x] = Idle] /\ at[x].pc # "idle" BY <1>2 DEF AppendFails
<1>6. Idle \in Place /\ Idle.pc = "idle" BY DEF Idle, Place, AnyLine, Name
<1>7. /\ at'[x].pc = "idle" /\ at' \in [Hand -> Place]
      /\ \A y \in Hand : y # x => at'[y] = at[y]
    BY <1>1, <1>4, <1>5, <1>6 DEF FilesShape
<1>8. /\ faults < MaxFaults /\ faults' = faults + 1 /\ sess' = sess
      /\ UNCHANGED <<second, made, acked, mixed, over>>
    BY DEF AppendFails
<1>9. \/ files' = files
      \/ \E f \in Broken(at[x], files[nm]) : files' = [files EXCEPT ![nm] = f]
    BY <1>2, <1>3 DEF AppendFails
<1>10. \/ files' = files
       \/ /\ x \in Hand /\ at[x].pc = "half"
          /\ \E f \in Broken(at[x], files[nm]) : files' = [files EXCEPT ![nm] = f]
  <2> SUFFICES ASSUME files' # files PROVE at[x].pc = "half" BY <1>4, <1>9
  <2>1. CASE at[x].pc # "half"
    <3>1. files' = [files EXCEPT ![nm] = files[nm]] BY <1>9, <2>1 DEF Broken
    <3>2. files' = files BY <1>1, <3>1 DEF FilesShape
    <3> QED BY <3>2
  <2> QED BY <2>1
<1>11. sess' \in [Procs -> SessionOf] BY <1>1, <1>8 DEF FilesShape
<1>12. Leaves(x, nm) BY <1>3, <1>7, <1>8, <1>10, <1>11 DEF Leaves
<1> QED BY <1>12, HandLeaves

\* The program is killed: at most one of its hands was in Append.
LEMMA CrashKeeps ==
    ASSUME SessionAssumption, SessIInv, NEW p \in Procs, Crash(p)
    PROVE  SessIInv'
<1>1. FilesShape /\ WritersFit BY DEF SessIInv
<1>2. /\ faults < MaxFaults /\ faults' = faults + 1 /\ sess' = [sess EXCEPT ![p] = NoSession]
      /\ at' = [pw \in Hand |-> IF pw[1] = p THEN Idle ELSE at[pw]]
      /\ UNCHANGED <<second, made, acked, mixed, over>>
    BY DEF Crash, Hand
<1>3. \/ files' = files
      \/ \E w \in Goroutines : /\ at[<<p, w>>].pc = "half"
                               /\ \E f \in Broken(at[<<p, w>>], files[at[<<p, w>>].path]) :
                                    files' = [files EXCEPT ![at[<<p, w>>].path] = f]
    BY DEF Crash
<1>4. PICK x : IF \E y \in Hand : y[1] = p /\ at[y].pc # "idle"
               THEN x \in Hand /\ x[1] = p /\ at[x].pc # "idle" ELSE x \notin Hand
  <2>1. \E x : x \notin Hand BY NoSetContainsEverything
  <2> QED BY <2>1
<1>5. PICK nm : nm = at[x].path OBVIOUS
<1>6. Idle \in Place /\ Idle.pc = "idle" BY DEF Idle, Place, AnyLine, Name
<1>7. /\ at' \in [Hand -> Place]
      /\ \A y \in Hand : y[1] = p => at'[y].pc = "idle"
      /\ \A y \in Hand : y[1] # p => at'[y] = at[y]
    BY <1>1, <1>2, <1>6 DEF FilesShape
<1>8. NoSession \in SessionOf BY DEF NoSession, SessionOf, Name
<1>9. /\ sess' \in [Procs -> SessionOf]
      /\ \A q \in Procs : sess'[q] = sess[q] \/ sess'[q] = NoSession
      /\ \A q \in Procs : q # p => sess'[q] = sess[q]
    BY <1>1, <1>2, <1>8 DEF FilesShape
<1>10. \A y \in Hand : y[1] = p /\ at[y].pc # "idle" => y = x BY <1>1, <1>4 DEF WritersFit
<1>11. \A y \in Hand : at'[y].pc # "idle" => y # x /\ at'[y] = at[y] BY <1>4, <1>7
<1>12. \A y \in Hand : y # x /\ at[y].pc # "idle" =>
            at'[y] = at[y] /\ at'[y].pc # "idle" /\ sess'[y[1]] = sess[y[1]]
  <2>1. \A y \in Hand : y[1] \in Procs BY DEF Hand
  <2> QED BY <1>7, <1>9, <1>10, <2>1
<1>13. \/ files' = files
       \/ /\ x \in Hand /\ at[x].pc = "half"
          /\ \E f \in Broken(at[x], files[nm]) : files' = [files EXCEPT ![nm] = f]
  <2> SUFFICES ASSUME NEW w \in Goroutines, at[<<p, w>>].pc = "half",
                      NEW f \in Broken(at[<<p, w>>], files[at[<<p, w>>].path]),
                      files' = [files EXCEPT ![at[<<p, w>>].path] = f]
               PROVE  /\ x \in Hand /\ at[x].pc = "half"
                      /\ \E g \in Broken(at[x], files[nm]) : files' = [files EXCEPT ![nm] = g]
      BY <1>3
  <2>1. <<p, w>> \in Hand /\ <<p, w>>[1] = p BY DEF Hand
  <2>2. x = <<p, w>> BY <1>10, <2>1
  <2> QED BY <1>5, <2>1, <2>2
<1>14. faults < MaxFaults /\ faults' = faults + 1 /\ UNCHANGED <<second, made, acked, mixed, over>>
    BY <1>2
<1>15. at' \in [Hand -> Place] /\ sess' \in [Procs -> SessionOf] BY <1>7, <1>9
<1>16. \A q \in Procs : sess'[q] = sess[q] \/ sess'[q] = NoSession BY <1>9
<1>17. x \in Hand => nm = at[x].path BY <1>5
<1>18. Leaves(x, nm) BY <1>11, <1>12, <1>13, <1>14, <1>15, <1>16, <1>17 DEF Leaves
<1> QED BY <1>18, HandLeaves

-----------------------------------------------------------------------------
\* The file is opened and locked.
LEMMA LockKeeps ==
    ASSUME SessionAssumption, SessIInv, NEW p \in Procs, NEW w \in Goroutines, Lock(p, w)
    PROVE  SessIInv'
<1>1. FilesShape /\ WritersFit /\ TailsFit /\ IdsFit /\ Alone /\ OrderFits /\ MemoryFits /\ Paid
    BY DEF SessIInv
<1>2. PICK x : x = <<p, w>> OBVIOUS
<1>3. PICK name : name = at[x].path OBVIOUS
<1>4. x \in Hand BY <1>2 DEF Hand
<1>5. /\ at[x].pc = "open" /\ ~Locked(name) /\ files' = Put(name, File(name))
      /\ at' = [at EXCEPT ![x].pc = "locked"]
      /\ UNCHANGED <<second, sess, made, acked, mixed, over, faults>>
    BY <1>2, <1>3 DEF Lock
<1>6. \A y \in Hand : at[y].pc \in {"locked", "half"} => at[y].path # name
  <2>1. \A y \in Hand : y = <<y[1], y[2]>> /\ y[1] \in Procs /\ y[2] \in Goroutines BY DEF Hand
  <2> QED BY <1>5, <2>1 DEF Locked
<1>7. name \in Name /\ name # <<>> /\ name = sess[x[1]].path BY <1>1, <1>3, <1>4, <1>5, HandFacts
<1>8. /\ at'[x].pc = "locked" /\ at'[x].path = name /\ at'[x].entry = at[x].entry
      /\ \A y \in Hand : y # x => at'[y] = at[y]
      /\ at' \in [Hand -> Place]
  <2>1. at \in [Hand -> Place] BY <1>1 DEF FilesShape
  <2>2. at[x] \in Place /\ at' = [at EXCEPT ![x] = [at[x] EXCEPT !.pc = "locked"]] BY <1>4, <1>5, <2>1
  <2> DEFINE after == [at[x] EXCEPT !.pc = "locked"]
  <2>3. after \in Place /\ after.pc = "locked" /\ after.path = at[x].path /\ after.entry = at[x].entry
    <3> DEFINE h == at[x]
    <3>1. h \in [pc : {"idle", "open", "locked", "half"}, path : Name, entry : AnyLine] /\ h.entry \in Line
        BY <1>5, <1>6, <2>2 DEF Place
    <3> HIDE DEF h
    <3>2. after = [h EXCEPT !.pc = "locked"] BY DEF h
    <3> HIDE DEF after
    <3>3. after.pc = "locked" /\ after.path = h.path /\ after.entry = h.entry BY <3>1, <3>2
    <3>4. after \in [pc : {"idle", "open", "locked", "half"}, path : Name, entry : AnyLine]
        BY <3>1, <3>2
    <3> QED BY <3>1, <3>3, <3>4 DEF Place, h
  <2> HIDE DEF after
  <2>4. at' = [at EXCEPT ![x] = after] BY <2>2 DEF after
  <2> QED BY <1>3, <1>4, <2>1, <2>3, <2>4
<1>9. \A y \in Hand : at'[y].pc = "half" <=> (at[y].pc = "half" /\ y # x) BY <1>5, <1>8
<1>10. \A y \in Hand : /\ at'[y].path = at[y].path /\ at'[y].entry = at[y].entry
                       /\ at'[y].pc # "idle" <=> at[y].pc # "idle"
    BY <1>3, <1>5, <1>8
<1>11. /\ DOMAIN files' = DOMAIN files \cup {name} /\ files'[name] = File(name)
       /\ \A n \in DOMAIN files : files'[n] = files[n]
       /\ files' = [n \in DOMAIN files' |-> files'[n]]
    BY <1>5 DEF Put, File
<1>12. File(name) \in FileOf /\ (name \notin DOMAIN files => File(name) = EmptyFile /\ Loaded(File(name)) = <<>>)
    BY <1>1, FileIs
<1>13. \A n : File(n)' = File(n) BY <1>11 DEF File
<1>14. EmptyFile.tail = Tail0 /\ EmptyFile.lines = <<>> /\ Tail0.is = "none" /\ Tail0.entry.id = 0
    BY DEF EmptyFile, Tail0, NoEntry
<1>15. FilesShape'
  <2>1. \A n \in DOMAIN files' : files'[n] \in FileOf BY <1>1, <1>11, <1>12 DEF FilesShape
  <2>2. files' \in [DOMAIN files' -> FileOf] BY <1>11, <2>1
  <2>3. IsFiniteSet(DOMAIN files') BY <1>1, <1>11, FS_AddElement DEF FilesShape
  <2> QED BY <1>1, <1>5, <1>7, <1>8, <1>11, <2>2, <2>3 DEF FilesShape
<1>16. WritersFit'
  <2>1. ASSUME NEW y \in Hand, at'[y].pc # "idle"
        PROVE  /\ at'[y].path = sess[y[1]].path /\ at'[y].path # <<>>
               /\ \A z \in Hand : at'[z].pc # "idle" /\ z[1] = y[1] => z = y
      BY <1>1, <1>10, <2>1 DEF WritersFit
  <2>2. ASSUME NEW y \in Hand, at'[y].pc # "idle", at'[y].pc # "open"
        PROVE  /\ at'[y].path \in DOMAIN files'
               /\ \A z \in Hand : at'[z].pc \in {"locked", "half"} /\ at'[z].path = at'[y].path => z = y
    <3>1. CASE y = x BY <1>6, <1>8, <1>11, <3>1
    <3>2. CASE y # x
      <4>1. at'[y] = at[y] BY <1>8, <3>2
      <4>2. /\ at[y].path \in DOMAIN files
            /\ \A z \in Hand : at[z].pc \in {"locked", "half"} /\ at[z].path = at[y].path => z = y
          BY <1>1, <2>2, <4>1 DEF WritersFit
      <4>3. at[y].pc \in {"locked", "half"} BY <1>1, <2>2, <4>1, HandFacts
      <4>4. at[y].path # name BY <1>6, <4>3
      <4> QED BY <1>8, <1>11, <4>1, <4>2, <4>4
    <3> QED BY <3>1, <3>2
  <2> QED BY <1>1, <1>5, <2>1, <2>2 DEF WritersFit
<1>17. \A n \in DOMAIN files : Spoiled(n)' <=> Spoiled(n) BY <1>9, <1>10, <1>11, <1>5 DEF Spoiled
<1>18. name \notin DOMAIN files => ~ Spoiled(name)' BY <1>11, <1>12, <1>14 DEF Spoiled
<1>19. TailsFit'
  <2>1. \A n \in DOMAIN files' : /\ files'[n].tail.is = "none" => files'[n].tail = Tail0
                                 /\ files'[n].tail.is = "junk" => files'[n].tail = Junk
      BY <1>1, <1>11, <1>12, <1>14 DEF TailsFit
  <2>2. \A n \in DOMAIN files' : Spoiled(n)' => faults' # 0
      BY <1>1, <1>5, <1>11, <1>17, <1>18 DEF TailsFit
  <2>3. ASSUME NEW y \in Hand, at'[y].pc = "half"
        PROVE  \/ files'[at'[y].path].tail = HalfOf(at'[y].entry)
               \/ files'[at'[y].path].tail = Junk
               \/ files'[at'[y].path].tail = Tail0 /\ at'[y].path \in over'
    <3>1. at[y].pc = "half" /\ at[y].path \in DOMAIN files BY <1>1, <1>9, <2>3 DEF WritersFit
    <3> QED BY <1>1, <1>5, <1>10, <1>11, <3>1 DEF TailsFit
  <2> QED BY <2>1, <2>2, <2>3 DEF TailsFit
<1>20. IdsFit'
  <2>1. \A n \in DOMAIN files' : \A i \in DOMAIN files'[n].lines : files'[n].lines[i].id <= made
      BY <1>1, <1>11, <1>12, <1>14 DEF IdsFit
  <2>2. \A n \in DOMAIN files' :
          /\ files'[n].tail.entry.id <= made
          /\ files'[n].tail.is \in {"half", "whole"} => <<files'[n].tail.entry.id, n>> \notin acked
      BY <1>1, <1>11, <1>12, <1>14, TypedIds DEF IdsFit
  <2>3. ASSUME NEW y \in Hand, at'[y].pc # "idle"
        PROVE  /\ at'[y].entry.id \in 1 .. made /\ \A a \in acked : a[1] # at'[y].entry.id
               /\ \A z \in Hand : at'[z].pc # "idle" /\ z # y => at'[z].entry.id # at'[y].entry.id
      BY <1>1, <1>10, <2>3 DEF IdsFit
  <2> QED BY <1>1, <1>5, <2>1, <2>2, <2>3 DEF IdsFit
<1>21. Alone' BY <1>1, <1>5 DEF Alone
<1>22. OrderFits'
  <2>1. ASSUME NEW n \in DOMAIN files' \ mixed PROVE Rising(Loaded(files'[n]))
    <3>1. CASE n \in DOMAIN files BY <1>1, <1>11, <2>1, <3>1 DEF OrderFits
    <3>2. CASE n \notin DOMAIN files BY <1>11, <1>12, <2>1, <3>2 DEF Rising
    <3> QED BY <3>1, <3>2
  <2>2. ASSUME NEW y \in Hand, at'[y].pc # "idle", at'[y].path \notin mixed
        PROVE  (\A i \in DOMAIN Loaded(File(at[y].path)) :
                    Loaded(File(at[y].path))[i].id < at[y].entry.id)'
      BY <1>1, <1>10, <1>13, <2>2 DEF OrderFits
  <2> QED BY <1>1, <1>5, <2>1, <2>2 DEF OrderFits
<1>23. MemoryFits'
  <2> SUFFICES ASSUME faults = 0 PROVE MemoryFits' BY <1>5 DEF MemoryFits
  <2>1. ASSUME NEW n \in DOMAIN files' \ mixed PROVE Chained(Loaded(files'[n]))
    <3>1. CASE n \in DOMAIN files BY <1>1, <1>11, <2>1, <3>1 DEF MemoryFits
    <3>2. CASE n \notin DOMAIN files BY <1>11, <1>12, <2>1, <3>2 DEF Chained
    <3> QED BY <3>1, <3>2
  <2>2. \A q \in Procs : Quiet(q)' <=> Quiet(q)
    <3>1. \A q \in Procs : \A v \in Goroutines : <<q, v>> \in Hand BY DEF Hand
    <3> QED BY <1>10, <3>1 DEF Quiet
  <2>3. \A q \in Procs : Quiet(q)' /\ sess'[q].path \notin mixed' =>
            (sess[q].entries = Loaded(File(sess[q].path)))'
      BY <1>1, <1>5, <1>13, <2>2 DEF MemoryFits
  <2>4. ASSUME NEW y \in Hand, at'[y].pc # "idle", at'[y].path \notin mixed
        PROVE  (sess[y[1]].entries = Append(Loaded(File(at[y].path)), at[y].entry))'
      BY <1>1, <1>5, <1>10, <1>13, <2>4 DEF MemoryFits
  <2> QED BY <1>1, <1>5, <2>1, <2>3, <2>4 DEF MemoryFits
<1>24. Paid'
  <2>1. LostNow' = LostNow BY <1>5, <1>13 DEF LostNow, Lost
  <2>2. Debts' \subseteq Debts BY <1>5, <1>11, <1>17, <1>18 DEF Debts
  <2>3. faults' \in Nat /\ faults' >= faults BY <1>1, <1>5 DEF FilesShape
  <2> QED BY <1>1, <2>1, <2>2, <2>3, PaidKept
<1> QED BY <1>15, <1>16, <1>19, <1>20, <1>21, <1>22, <1>23, <1>24 DEF SessIInv

-----------------------------------------------------------------------------
\* The first piece: it follows what the file ended with, which is no acknowledged entry.
LEMMA WriteHalfKeeps ==
    ASSUME SessionAssumption, SessIInv, NEW p \in Procs, NEW w \in Goroutines, WriteHalf(p, w)
    PROVE  SessIInv'
<1>1. FilesShape /\ WritersFit /\ TailsFit /\ IdsFit /\ Alone /\ OrderFits /\ MemoryFits /\ Paid
    BY DEF SessIInv
<1>2. PICK x : x = <<p, w>> OBVIOUS
<1>3. PICK name : name = at[x].path OBVIOUS
<1>4. PICK e : e = at[x].entry OBVIOUS
<1>5. x \in Hand BY <1>2 DEF Hand
<1>6. /\ at[x].pc = "locked"
      /\ files' = [files EXCEPT ![name].tail = IF @ = Tail0 THEN HalfOf(e) ELSE Junk]
      /\ at' = [at EXCEPT ![x].pc = "half"]
      /\ UNCHANGED <<second, sess, made, acked, mixed, over, faults>>
    BY <1>2, <1>3, <1>4 DEF WriteHalf, HalfOf
<1>7. /\ name \in DOMAIN files /\ e \in Line
      /\ \A y \in Hand : at[y].pc \in {"locked", "half"} /\ at[y].path = name => y = x
    BY <1>1, <1>3, <1>4, <1>5, <1>6, HandFacts
<1>8. /\ at'[x].pc = "half" /\ at'[x].path = name /\ at'[x].entry = e
      /\ \A y \in Hand : y # x => at'[y] = at[y]
      /\ at' \in [Hand -> Place]
  <2>1. at \in [Hand -> Place] BY <1>1 DEF FilesShape
  <2>2. at[x] \in Place /\ at' = [at EXCEPT ![x] = [at[x] EXCEPT !.pc = "half"]] BY <1>5, <1>6, <2>1
  <2> DEFINE after == [at[x] EXCEPT !.pc = "half"]
  <2>3. after \in Place /\ after.pc = "half" /\ after.path = at[x].path /\ after.entry = at[x].entry
    <3> DEFINE h == at[x]
    <3>1. h \in [pc : {"idle", "open", "locked", "half"}, path : Name, entry : AnyLine] /\ h.entry \in Line
        BY <1>5, <1>6, <2>2 DEF Place
    <3> HIDE DEF h
    <3>2. after = [h EXCEPT !.pc = "half"] BY DEF h
    <3> HIDE DEF after
    <3>3. after.pc = "half" /\ after.path = h.path /\ after.entry = h.entry BY <3>1, <3>2
    <3>4. after \in [pc : {"idle", "open", "locked", "half"}, path : Name, entry : AnyLine]
        BY <3>1, <3>2
    <3> QED BY <3>1, <3>3, <3>4 DEF Place, h
  <2> HIDE DEF after
  <2>4. at' = [at EXCEPT ![x] = after] BY <2>2 DEF after
  <2> QED BY <1>3, <1>4, <1>5, <2>1, <2>3, <2>4
<1>9. \A y \in Hand : y # x => (at'[y].pc = "half" <=> at[y].pc = "half") BY <1>8
<1>10. \A y \in Hand : /\ at'[y].path = at[y].path /\ at'[y].entry = at[y].entry
                       /\ at'[y].pc # "idle" <=> at[y].pc # "idle"
                       /\ at'[y].pc \in {"locked", "half"} <=> at[y].pc \in {"locked", "half"}
    BY <1>3, <1>4, <1>6, <1>8
<1> DEFINE tail == IF files[name].tail = Tail0 THEN HalfOf(e) ELSE Junk
           after == [files[name] EXCEPT !.tail = tail]
<1>11. files[name] \in FileOf BY <1>1, <1>7, FileIs
<1>12. /\ tail \in TailOf /\ tail.is \in {"half", "junk"} /\ (tail.is = "half" => tail = HalfOf(e))
       /\ (tail.is = "junk" => tail = Junk) /\ (tail.entry = e \/ tail.entry.id = 0)
  <2>1. HalfOf(e) \in TailOf /\ HalfOf(e).is = "half" /\ HalfOf(e).entry = e
      BY <1>7 DEF HalfOf, TailOf, AnyLine
  <2>2. Junk \in TailOf /\ Junk.is = "junk" /\ Junk.entry.id = 0
    <3>1. Junk \in TailOf BY DEF Junk, TailOf, AnyLine
    <3> QED BY <3>1 DEF Junk, NoEntry
  <2> QED BY <2>1, <2>2
<1>13. tail = HalfOf(e) <=> files[name].tail = Tail0 BY DEF HalfOf, Junk
<1>14. files' = [files EXCEPT ![name] = after] BY <1>6
<1> HIDE DEF tail
<1>15. after \in FileOf /\ after.lines = files[name].lines /\ after.tail = tail BY <1>11, <1>12 DEF FileOf
<1> HIDE DEF after
<1>16. /\ DOMAIN files' = DOMAIN files /\ files'[name] = after
       /\ \A n \in DOMAIN files : n # name => files'[n] = files[n]
       /\ files' = [n \in DOMAIN files |-> files'[n]]
    BY <1>1, <1>7, <1>14 DEF FilesShape
<1>17. Loaded(after) = files[name].lines BY <1>12, <1>15, LoadedIs
<1>18. \/ Loaded(files[name]) = Loaded(after)
       \/ /\ Loaded(files[name]) = Append(Loaded(after), files[name].tail.entry)
          /\ files[name].tail.is = "whole" /\ Loaded(after) \in Seq(Line) /\ files[name].tail.entry \in Line
    BY <1>11, <1>17, LoadedIs
<1>19. /\ File(name) = files[name] /\ File(name)' = after
       /\ \A n : n # name => File(n)' = File(n)
    BY <1>7, <1>16 DEF File
<1>20. Spoiled(name)' <=> Spoiled(name)
  <2>1. \A y \in Hand : at[y].pc = "half" /\ at[y].path = name => FALSE BY <1>6, <1>7
  <2>2. Spoiled(name) <=> files[name].tail # Tail0 BY <2>1 DEF Spoiled
  <2>3. \A y \in Hand : at'[y].pc = "half" /\ at'[y].path = name <=> y = x BY <1>5, <1>8, <1>9, <1>10, <2>1
  <2>4. tail # Tail0 BY <1>12 DEF Tail0
  <2>5. Spoiled(name)' <=> tail # HalfOf(e) BY <1>5, <1>8, <1>15, <1>16, <2>3, <2>4 DEF Spoiled
  <2> QED BY <1>13, <2>2, <2>5
<1>21. \A n \in DOMAIN files : n # name => (Spoiled(n)' <=> Spoiled(n))
    BY <1>3, <1>8, <1>10, <1>16 DEF Spoiled
<1>22. FilesShape'
  <2>1. \A n \in DOMAIN files : files'[n] \in FileOf BY <1>1, <1>15, <1>16, FileIs
  <2>2. files' \in [DOMAIN files' -> FileOf] BY <1>16, <2>1
  <2> QED BY <1>1, <1>6, <1>8, <1>16, <2>2 DEF FilesShape
<1>23. WritersFit'
  <2>1. ASSUME NEW y \in Hand, at'[y].pc # "idle"
        PROVE  /\ at'[y].path = sess[y[1]].path /\ at'[y].path # <<>>
               /\ \A z \in Hand : at'[z].pc # "idle" /\ z[1] = y[1] => z = y
      BY <1>1, <1>10, <2>1 DEF WritersFit
  <2>2. ASSUME NEW y \in Hand, at'[y].pc # "idle", at'[y].pc # "open"
        PROVE  /\ at'[y].path \in DOMAIN files'
               /\ \A z \in Hand : at'[z].pc \in {"locked", "half"} /\ at'[z].path = at'[y].path => z = y
    <3>1. at[y].pc # "idle" /\ at[y].pc # "open" BY <1>6, <1>8, <2>2
    <3>2. /\ at[y].path \in DOMAIN files
          /\ \A z \in Hand : at[z].pc \in {"locked", "half"} /\ at[z].path = at[y].path => z = y
        BY <1>1, <3>1 DEF WritersFit
    <3> QED BY <1>10, <1>16, <3>2
  <2> QED BY <1>1, <1>6, <2>1, <2>2 DEF WritersFit
<1>24. TailsFit'
  <2>1. \A n \in DOMAIN files' : /\ files'[n].tail.is = "none" => files'[n].tail = Tail0
                                 /\ files'[n].tail.is = "junk" => files'[n].tail = Junk
      BY <1>1, <1>12, <1>15, <1>16 DEF TailsFit
  <2>2. \A n \in DOMAIN files' : Spoiled(n)' => faults' # 0
      BY <1>1, <1>6, <1>16, <1>20, <1>21 DEF TailsFit
  <2>3. ASSUME NEW y \in Hand, at'[y].pc = "half"
        PROVE  \/ files'[at'[y].path].tail = HalfOf(at'[y].entry)
               \/ files'[at'[y].path].tail = Junk
               \/ files'[at'[y].path].tail = Tail0 /\ at'[y].path \in over'
    <3>1. CASE y = x BY <1>8, <1>12, <1>15, <1>16, <3>1
    <3>2. CASE y # x
      <4>1. at'[y] = at[y] /\ at[y].pc = "half" /\ at[y].path # name BY <1>7, <1>8, <2>3, <3>2
      <4>2. at[y].path \in DOMAIN files BY <1>1, <4>1 DEF WritersFit
      <4> QED BY <1>1, <1>6, <1>16, <4>1, <4>2 DEF TailsFit
    <3> QED BY <3>1, <3>2
  <2> QED BY <2>1, <2>2, <2>3 DEF TailsFit
<1>25. IdsFit'
  <2>1. e.id \in 1 .. made /\ (\A a \in acked : a[1] # e.id) /\ made \in Nat
      BY <1>1, <1>4, <1>5, <1>6, TypedIds DEF IdsFit
  <2>2. \A n \in DOMAIN files' : \A i \in DOMAIN files'[n].lines : files'[n].lines[i].id <= made
      BY <1>1, <1>7, <1>15, <1>16 DEF IdsFit
  <2>3. /\ tail.entry.id <= made
        /\ tail.is \in {"half", "whole"} => <<tail.entry.id, name>> \notin acked
    <3>1. tail.entry.id <= made BY <1>12, <2>1
    <3>2. ASSUME tail.is \in {"half", "whole"} PROVE <<tail.entry.id, name>> \notin acked
      <4>1. tail.entry = e BY <1>12, <3>2 DEF HalfOf
      <4>2. <<e.id, name>>[1] = e.id OBVIOUS
      <4> QED BY <2>1, <4>1, <4>2
    <3> QED BY <3>1, <3>2
  <2>4. \A n \in DOMAIN files' :
          /\ files'[n].tail.entry.id <= made
          /\ files'[n].tail.is \in {"half", "whole"} => <<files'[n].tail.entry.id, n>> \notin acked
      BY <1>1, <1>15, <1>16, <2>3 DEF IdsFit
  <2>5. ASSUME NEW y \in Hand, at'[y].pc # "idle"
        PROVE  /\ at'[y].entry.id \in 1 .. made /\ \A a \in acked : a[1] # at'[y].entry.id
               /\ \A z \in Hand : at'[z].pc # "idle" /\ z # y => at'[z].entry.id # at'[y].entry.id
      BY <1>1, <1>10, <2>5 DEF IdsFit
  <2> QED BY <1>1, <1>6, <2>2, <2>4, <2>5 DEF IdsFit
<1>26. Alone' BY <1>1, <1>6 DEF Alone
<1>27. OrderFits'
  <2>1. ASSUME NEW n \in DOMAIN files' \ mixed PROVE Rising(Loaded(files'[n]))
    <3>1. Rising(Loaded(files[n])) /\ n \in DOMAIN files BY <1>1, <1>16, <2>1 DEF OrderFits
    <3>2. CASE n = name
      <4>1. Rising(Loaded(after)) BY <1>18, <3>1, <3>2, RisingAppend
      <4> QED BY <1>16, <3>2, <4>1
    <3>3. CASE n # name BY <1>16, <3>1, <3>3
    <3> QED BY <3>2, <3>3
  <2>2. ASSUME NEW y \in Hand, at'[y].pc # "idle", at'[y].path \notin mixed
        PROVE  (\A i \in DOMAIN Loaded(File(at[y].path)) :
                    Loaded(File(at[y].path))[i].id < at[y].entry.id)'
    <3> PICK m : m = at[y].path OBVIOUS
    <3>1. at'[y].path = m /\ at'[y].entry = at[y].entry /\ at[y].pc # "idle" BY <1>10, <2>2
    <3>2. \A i \in DOMAIN Loaded(File(m)) : Loaded(File(m))[i].id < at[y].entry.id
        BY <1>1, <2>2, <3>1 DEF OrderFits
    <3>3. CASE m = name
      <4>1. \A i \in DOMAIN Loaded(after) : i \in DOMAIN Loaded(files[name]) /\ Loaded(files[name])[i] = Loaded(after)[i]
          BY <1>18
      <4> QED BY <1>19, <3>1, <3>2, <3>3, <4>1
    <3>4. CASE m # name BY <1>19, <3>1, <3>2, <3>4
    <3> QED BY <3>3, <3>4
  <2> QED BY <1>1, <1>6, <2>1, <2>2 DEF OrderFits
<1>28. MemoryFits'
  <2> SUFFICES ASSUME faults = 0 PROVE MemoryFits' BY <1>6 DEF MemoryFits
  <2>1. Loaded(after) = Loaded(files[name])
    <3>1. ~ Spoiled(name) BY <1>1, <1>7 DEF TailsFit
    <3>2. files[name].tail = Tail0 BY <1>6, <1>7, <3>1 DEF Spoiled
    <3> QED BY <1>18, <3>2 DEF Tail0
  <2>2. \A n : Loaded(File(n))' = Loaded(File(n)) BY <1>19, <2>1
  <2>3. \A n \in DOMAIN files' \ mixed : Chained(Loaded(files'[n]))
      BY <1>1, <1>16, <2>1 DEF MemoryFits
  <2>4. \A q \in Procs : Quiet(q)' <=> Quiet(q)
    <3>1. \A q \in Procs : \A v \in Goroutines : <<q, v>> \in Hand BY DEF Hand
    <3> QED BY <1>10, <3>1 DEF Quiet
  <2>5. ASSUME NEW q \in Procs, Quiet(q)', sess'[q].path \notin mixed'
        PROVE  (sess[q].entries = Loaded(File(sess[q].path)))'
    <3> PICK m : m = sess[q].path OBVIOUS
    <3>1. sess[q].entries = Loaded(File(m)) BY <1>1, <1>6, <2>4, <2>5 DEF MemoryFits
    <3> QED BY <1>6, <2>2, <3>1
  <2>6. ASSUME NEW y \in Hand, at'[y].pc # "idle", at'[y].path \notin mixed
        PROVE  (sess[y[1]].entries = Append(Loaded(File(at[y].path)), at[y].entry))'
    <3> PICK m : m = at[y].path OBVIOUS
    <3>1. at'[y].path = m /\ at'[y].entry = at[y].entry /\ at[y].pc # "idle" BY <1>10, <2>6
    <3>2. sess[y[1]].entries = Append(Loaded(File(m)), at[y].entry) BY <1>1, <2>6, <3>1 DEF MemoryFits
    <3> QED BY <1>6, <2>2, <3>1, <3>2
  <2> QED BY <1>1, <1>6, <2>3, <2>5, <2>6 DEF MemoryFits
<1>29. Paid'
  <2>1. ASSUME NEW a \in acked, a[1] \in Ids(Loaded(File(a[2]))) PROVE a[1] \in Ids(Loaded(File(a[2])))'
    <3> PICK m : m = a[2] OBVIOUS
    <3>1. CASE m # name BY <1>19, <2>1, <3>1
    <3>2. CASE m = name
      <4>1. a[1] \in Ids(Loaded(files[name])) BY <1>19, <2>1, <3>2
      <4>2. a = <<a[1], name>>
        <5>1. a \in Nat \X Name BY <1>1 DEF FilesShape
        <5>2. a = <<a[1], a[2]>> BY <5>1
        <5> QED BY <3>2, <5>2
      <4>3. files[name].tail.is = "whole" => a[1] # files[name].tail.entry.id
          BY <1>1, <1>7, <4>2 DEF IdsFit
      <4>4. a[1] \in Ids(Loaded(after)) BY <1>18, <4>1, <4>3, IdsAppend
      <4> QED BY <1>19, <3>2, <4>4
    <3> QED BY <3>1, <3>2
  <2>2. LostNow' \subseteq LostNow BY <1>6, <2>1, LostKept
  <2>3. Debts' \subseteq Debts BY <1>6, <1>16, <1>20, <1>21 DEF Debts
  <2>4. faults' \in Nat /\ faults' >= faults BY <1>1, <1>6 DEF FilesShape
  <2> QED BY <1>1, <2>2, <2>3, <2>4, PaidKept
<1> QED BY <1>22, <1>23, <1>24, <1>25, <1>26, <1>27, <1>28, <1>29 DEF SessIInv

-----------------------------------------------------------------------------
\* The rest: the entry is in, or what the file ended with has spoiled its line.
LEMMA WriteRestKeeps ==
    ASSUME SessionAssumption, SessIInv, NEW p \in Procs, NEW w \in Goroutines, WriteRest(p, w)
    PROVE  SessIInv'
<1>1. FilesShape /\ WritersFit /\ TailsFit /\ IdsFit /\ Alone /\ OrderFits /\ MemoryFits /\ Paid
    BY DEF SessIInv
<1>2. PICK x : x = <<p, w>> OBVIOUS
<1>3. PICK name : name = at[x].path OBVIOUS
<1>4. PICK e : e = at[x].entry OBVIOUS
<1>5. x \in Hand /\ x[1] = p BY <1>2 DEF Hand
<1>6. /\ at[x].pc = "half" /\ files' = [files EXCEPT ![name] = Finished(files[name], e)]
      /\ acked' = acked \cup {<<e.id, name>>}
      /\ at' = [at EXCEPT ![x] = Idle]
      /\ UNCHANGED <<second, sess, made, mixed, over, faults>>
    BY <1>2, <1>3, <1>4 DEF WriteRest
<1>7. /\ name \in DOMAIN files /\ e \in Line /\ name \in Name /\ name = sess[p].path /\ name # <<>>
      /\ \A y \in Hand : at[y].pc \in {"locked", "half"} /\ at[y].path = name => y = x
      /\ \A y \in Hand : at[y].pc # "idle" /\ y[1] = p => y = x
    BY <1>1, <1>3, <1>4, <1>5, <1>6, HandFacts
<1>8. Idle \in Place /\ Idle.pc = "idle" BY DEF Idle, Place, AnyLine, Name
<1>9. /\ at'[x].pc = "idle" /\ at' \in [Hand -> Place]
      /\ \A y \in Hand : y # x => at'[y] = at[y]
    BY <1>1, <1>5, <1>6, <1>8 DEF FilesShape
<1>10. \A y \in Hand : at'[y].pc # "idle" => y # x /\ at'[y] = at[y] /\ at[y].pc # "idle" BY <1>9
<1> DEFINE old == files[name].lines
           after == Finished(files[name], e)
           whole == files[name].tail = HalfOf(e)
<1>11. files[name] \in FileOf /\ old \in Seq(Line) BY <1>1, <1>7, FileIs, LoadedIs
<1>12. \/ whole \/ files[name].tail = Junk \/ (files[name].tail = Tail0 /\ name \in over)
    BY <1>1, <1>3, <1>4, <1>5, <1>6 DEF TailsFit
<1>13. Loaded(files[name]) = old
  <2>1. files[name].tail.is # "whole" BY <1>12 DEF HalfOf, Junk, Tail0
  <2> QED BY <1>11, <2>1, LoadedIs
<1>14. /\ after.lines = IF whole THEN Append(old, e) ELSE old
       /\ after.tail = Tail0 /\ after.tail.is = "none" /\ after.tail.entry.id = 0
    BY DEF Finished, HalfOf, Tail0, NoEntry
<1>15. after \in FileOf
  <2>1. after = [lines |-> after.lines, tail |-> Tail0] BY DEF Finished
  <2>2. Tail0 \in TailOf BY DEF Tail0, TailOf, AnyLine
  <2>3. after.lines \in Seq(Line) BY <1>7, <1>11, <1>14
  <2> HIDE DEF after
  <2> QED BY <2>1, <2>2, <2>3 DEF FileOf
<1>16. files' = [files EXCEPT ![name] = after] BY <1>6
<1> HIDE DEF old, after
<1>17. /\ whole => Loaded(after) = Append(old, e)
       /\ ~ whole => Loaded(after) = old
       /\ Loaded(after) = after.lines
    BY <1>14, <1>15, LoadedIs
<1>18. /\ DOMAIN files' = DOMAIN files /\ files'[name] = after
       /\ \A n \in DOMAIN files : n # name => files'[n] = files[n]
       /\ files' = [n \in DOMAIN files |-> files'[n]]
    BY <1>1, <1>7, <1>16 DEF FilesShape
<1>19. /\ File(name) = files[name] /\ File(name)' = after
       /\ \A n : n # name => File(n)' = File(n)
    BY <1>7, <1>18 DEF File
<1>20. ~ Spoiled(name)' BY <1>14, <1>18 DEF Spoiled
<1>21. \A n \in DOMAIN files : n # name => (Spoiled(n)' <=> Spoiled(n))
    BY <1>3, <1>8, <1>9, <1>10, <1>18 DEF Spoiled
<1>22. e.id \in 1 .. made /\ (\A a \in acked : a[1] # e.id) /\ made \in Nat /\ e.id \in Nat
    BY <1>1, <1>4, <1>5, <1>6, TypedIds DEF IdsFit
<1>23. \A y \in Hand : at'[y].pc # "idle" => at[y].entry.id # e.id
    BY <1>1, <1>4, <1>5, <1>6, <1>10 DEF IdsFit
\* Another hand at the name shares it.
<1>24. \A y \in Hand : at'[y].pc # "idle" /\ at[y].path \notin mixed => at[y].path # name
    BY <1>1, <1>3, <1>5, <1>6, <1>10, OneHand
<1>25. FilesShape'
  <2>1. \A n \in DOMAIN files : files'[n] \in FileOf BY <1>1, <1>15, <1>18, FileIs
  <2>2. files' \in [DOMAIN files' -> FileOf] BY <1>18, <2>1
  <2>3. IsFiniteSet(acked') BY <1>1, <1>6, FS_AddElement DEF FilesShape
  <2>4. acked' \subseteq Nat \X Name
    <3>1. <<e.id, name>> \in Nat \X Name BY <1>7, <1>22
    <3> QED BY <1>1, <1>6, <3>1 DEF FilesShape
  <2>5. \A a \in acked' : a[2] \in DOMAIN files'
    <3>1. <<e.id, name>>[2] = name OBVIOUS
    <3> QED BY <1>1, <1>6, <1>7, <1>18, <3>1 DEF FilesShape
  <2> QED BY <1>1, <1>6, <1>9, <1>18, <2>2, <2>3, <2>4, <2>5 DEF FilesShape
<1>26. WritersFit'
  <2>1. ASSUME NEW y \in Hand, at'[y].pc # "idle"
        PROVE  /\ at'[y].path = sess[y[1]].path /\ at'[y].path # <<>>
               /\ \A z \in Hand : at'[z].pc # "idle" /\ z[1] = y[1] => z = y
      BY <1>1, <1>10, <2>1 DEF WritersFit
  <2>2. ASSUME NEW y \in Hand, at'[y].pc # "idle", at'[y].pc # "open"
        PROVE  /\ at'[y].path \in DOMAIN files'
               /\ \A z \in Hand : at'[z].pc \in {"locked", "half"} /\ at'[z].path = at'[y].path => z = y
    <3>1. at'[y] = at[y] /\ at[y].pc # "idle" /\ at[y].pc # "open" BY <1>10, <2>2
    <3>2. /\ at[y].path \in DOMAIN files
          /\ \A z \in Hand : at[z].pc \in {"locked", "half"} /\ at[z].path = at[y].path => z = y
        BY <1>1, <3>1 DEF WritersFit
    <3>3. \A z \in Hand : at'[z].pc \in {"locked", "half"} => at'[z] = at[z] BY <1>10
    <3> QED BY <1>18, <3>1, <3>2, <3>3
  <2> QED BY <1>1, <1>6, <2>1, <2>2 DEF WritersFit
<1>27. TailsFit'
  <2>1. \A n \in DOMAIN files' : /\ files'[n].tail.is = "none" => files'[n].tail = Tail0
                                 /\ files'[n].tail.is = "junk" => files'[n].tail = Junk
      BY <1>1, <1>14, <1>18 DEF TailsFit
  <2>2. \A n \in DOMAIN files' : Spoiled(n)' => faults' # 0
      BY <1>1, <1>6, <1>18, <1>20, <1>21 DEF TailsFit
  <2>3. ASSUME NEW y \in Hand, at'[y].pc = "half"
        PROVE  \/ files'[at'[y].path].tail = HalfOf(at'[y].entry)
               \/ files'[at'[y].path].tail = Junk
               \/ files'[at'[y].path].tail = Tail0 /\ at'[y].path \in over'
    <3>1. y # x /\ at'[y] = at[y] /\ at[y].pc = "half" BY <1>10, <2>3
    <3>2. at[y].path \in DOMAIN files /\ at[y].path # name BY <1>1, <1>7, <3>1 DEF WritersFit
    <3> QED BY <1>1, <1>6, <1>18, <3>1, <3>2 DEF TailsFit
  <2> QED BY <2>1, <2>2, <2>3 DEF TailsFit
<1>28. IdsFit'
  <2>1. \A i \in DOMAIN after.lines : after.lines[i].id <= made
    <3>1. \A i \in DOMAIN old : old[i].id <= made BY <1>1, <1>7 DEF IdsFit, old
    <3>2. e.id <= made BY <1>22
    <3>3. \A i \in DOMAIN Append(old, e) : Append(old, e)[i].id <= made
        BY <1>7, <1>11, <1>22, <3>1, <3>2, BoundedAppend
    <3> QED BY <1>14, <3>1, <3>3
  <2>2. \A n \in DOMAIN files' : \A i \in DOMAIN files'[n].lines : files'[n].lines[i].id <= made
      BY <1>1, <1>18, <2>1 DEF IdsFit
  <2>3. \A n \in DOMAIN files' : files'[n].tail.entry.id <= made
      BY <1>1, <1>14, <1>18, <1>22 DEF IdsFit
  <2>4. ASSUME NEW n \in DOMAIN files', files'[n].tail.is \in {"half", "whole"}
        PROVE  <<files'[n].tail.entry.id, n>> \notin acked'
    <3>1. n # name BY <1>14, <1>18, <2>4
    <3>2. <<files[n].tail.entry.id, n>> \notin acked BY <1>1, <1>18, <2>4, <3>1 DEF IdsFit
    <3>3. <<files[n].tail.entry.id, n>> # <<e.id, name>> BY <3>1
    <3> QED BY <1>6, <1>18, <2>4, <3>1, <3>2, <3>3
  <2>5. <<e.id, name>>[1] = e.id OBVIOUS
  <2>6. ASSUME NEW y \in Hand, at'[y].pc # "idle"
        PROVE  /\ at'[y].entry.id \in 1 .. made /\ \A a \in acked' : a[1] # at'[y].entry.id
               /\ \A z \in Hand : at'[z].pc # "idle" /\ z # y => at'[z].entry.id # at'[y].entry.id
      BY <1>1, <1>6, <1>10, <1>23, <2>5, <2>6 DEF IdsFit
  <2>7. \A a \in acked' : a[1] <= made BY <1>1, <1>6, <1>22, <2>5 DEF IdsFit
  <2> QED BY <1>1, <1>6, <2>2, <2>3, <2>4, <2>6, <2>7 DEF IdsFit
<1>29. Alone' BY <1>1, <1>6 DEF Alone
<1>30. OrderFits'
  <2>1. ASSUME NEW n \in DOMAIN files' \ mixed PROVE Rising(Loaded(files'[n]))
    <3>1. Rising(Loaded(files[n])) /\ n \in DOMAIN files BY <1>1, <1>18, <2>1 DEF OrderFits
    <3>2. CASE n = name
      <4>1. \A i \in DOMAIN old : old[i].id < e.id
          BY <1>1, <1>3, <1>4, <1>5, <1>6, <1>13, <1>19, <2>1, <3>2 DEF OrderFits
      <4>2. Rising(old) /\ Rising(Append(old, e)) BY <1>7, <1>11, <1>13, <3>1, <3>2, <4>1, RisingAppend
      <4> QED BY <1>17, <1>18, <3>2, <4>2
    <3>3. CASE n # name BY <1>18, <3>1, <3>3
    <3> QED BY <3>2, <3>3
  <2>2. ASSUME NEW y \in Hand, at'[y].pc # "idle", at'[y].path \notin mixed
        PROVE  (\A i \in DOMAIN Loaded(File(at[y].path)) :
                    Loaded(File(at[y].path))[i].id < at[y].entry.id)'
    <3> PICK m : m = at[y].path OBVIOUS
    <3>1. at'[y] = at[y] /\ at[y].pc # "idle" /\ m # name BY <1>10, <1>24, <2>2
    <3>2. \A i \in DOMAIN Loaded(File(m)) : Loaded(File(m))[i].id < at[y].entry.id
        BY <1>1, <2>2, <3>1 DEF OrderFits
    <3> QED BY <1>19, <3>1, <3>2
  <2> QED BY <1>1, <1>6, <2>1, <2>2 DEF OrderFits
<1>31. MemoryFits'
  <2> SUFFICES ASSUME faults = 0 PROVE MemoryFits' BY <1>6 DEF MemoryFits
  <2>1. name \notin mixed => whole
    <3>1. ~ Spoiled(name) BY <1>1, <1>7 DEF TailsFit
    <3>2. ASSUME files[name].tail = Junk PROVE FALSE
      <4>1. files[name].tail # Tail0 /\ \A y \in Hand : files[name].tail # HalfOf(at[y].entry)
          BY <3>2 DEF Junk, Tail0, HalfOf
      <4> QED BY <3>1, <4>1 DEF Spoiled
    <3> QED BY <1>1, <1>12, <3>2 DEF Alone
  <2>2. name \notin mixed => sess[p].entries = Append(old, e) /\ Loaded(after) = sess[p].entries
    <3> SUFFICES ASSUME name \notin mixed
                 PROVE  sess[p].entries = Append(old, e) /\ Loaded(after) = sess[p].entries
        OBVIOUS
    <3>1. sess[x[1]].entries = Append(Loaded(File(at[x].path)), at[x].entry)
        BY <1>1, <1>3, <1>5, <1>6 DEF MemoryFits
    <3>2. sess[p].entries = Append(old, e) BY <1>3, <1>4, <1>5, <1>13, <1>19, <3>1
    <3> QED BY <1>17, <2>1, <3>2
  <2>3. ASSUME NEW n \in DOMAIN files' \ mixed PROVE Chained(Loaded(files'[n]))
    <3>1. CASE n = name
      <4>1. Chained(sess[p].entries) BY <1>1, <1>7, <2>3, <3>1 DEF MemoryFits
      <4> QED BY <1>18, <2>2, <2>3, <3>1, <4>1
    <3>2. CASE n # name BY <1>1, <1>18, <2>3, <3>2 DEF MemoryFits
    <3> QED BY <3>1, <3>2
  <2>4. ASSUME NEW q \in Procs, Quiet(q)', sess'[q].path \notin mixed'
        PROVE  (sess[q].entries = Loaded(File(sess[q].path)))'
    <3> PICK m : m = sess[q].path OBVIOUS
    <3>1. sess'[q] = sess[q] /\ m \notin mixed BY <1>6, <2>4
    <3>2. CASE q = p BY <1>6, <1>7, <1>19, <2>2, <3>1, <3>2
    <3>3. CASE q # p
      <4>1. m # name BY <1>1, <1>7, <3>1, <3>3 DEF Alone
      <4>2. Quiet(q)
        <5>1. \A v \in Goroutines : <<q, v>> \in Hand /\ <<q, v>> # x BY <1>2, <3>3 DEF Hand
        <5> QED BY <1>9, <2>4, <5>1 DEF Quiet
      <4>3. sess[q].entries = Loaded(File(m)) BY <1>1, <3>1, <4>2 DEF MemoryFits
      <4> QED BY <1>6, <1>19, <4>1, <4>3
    <3> QED BY <3>2, <3>3
  <2>5. ASSUME NEW y \in Hand, at'[y].pc # "idle", at'[y].path \notin mixed
        PROVE  (sess[y[1]].entries = Append(Loaded(File(at[y].path)), at[y].entry))'
    <3> PICK m : m = at[y].path OBVIOUS
    <3>1. at'[y] = at[y] /\ at[y].pc # "idle" /\ m # name BY <1>10, <1>24, <2>5
    <3>2. sess[y[1]].entries = Append(Loaded(File(m)), at[y].entry) BY <1>1, <2>5, <3>1 DEF MemoryFits
    <3> QED BY <1>6, <1>19, <3>1, <3>2
  <2>6. \A q \in Procs : sess'[q].path \notin mixed' => Chained(sess'[q].entries)
      BY <1>1, <1>6 DEF MemoryFits
  <2> QED BY <1>6, <2>3, <2>4, <2>5, <2>6 DEF MemoryFits
<1>32. Paid'
  <2> DEFINE mine == <<e.id, name>>
  <2>1. mine[1] = e.id /\ mine[2] = name OBVIOUS
  <2>2. Ids(old) \subseteq Ids(Loaded(after)) /\ (whole => e.id \in Ids(Loaded(after)))
      BY <1>7, <1>11, <1>17, IdsAppend
  <2>3. ASSUME NEW a \in acked, a[1] \in Ids(Loaded(File(a[2]))) PROVE a[1] \in Ids(Loaded(File(a[2])))'
    <3> PICK m : m = a[2] OBVIOUS
    <3>1. CASE m # name BY <1>19, <2>3, <3>1
    <3>2. CASE m = name BY <1>13, <1>19, <2>2, <2>3, <3>2
    <3> QED BY <3>1, <3>2
  <2> HIDE DEF mine
  <2>4. ASSUME NEW a \in LostNow', a # mine PROVE a \in LostNow
    <3>1. a \in acked /\ a[2] \notin over BY <1>6, <2>4 DEF LostNow, Lost, mine
    <3>2. a[1] \notin Ids(Loaded(File(a[2])))' BY <2>4 DEF LostNow, Lost
    <3> QED BY <2>3, <3>1, <3>2 DEF LostNow, Lost
  <2>5. Debts' \subseteq Debts \ {name} BY <1>6, <1>18, <1>20, <1>21 DEF Debts
  <2>6. faults' = faults /\ faults' \in Nat /\ faults' >= faults BY <1>1, <1>6 DEF FilesShape
  <2>7. CASE whole \/ name \in over
    <3>1. mine \notin LostNow'
      <4>1. CASE name \in over BY <1>6, <2>1, <4>1 DEF LostNow
      <4>2. CASE whole
        <5>1. e.id \in Ids(Loaded(File(name)')) BY <1>19, <2>2, <4>2
        <5>2. mine \notin Lost' BY <2>1, <5>1 DEF Lost
        <5> QED BY <5>2 DEF LostNow
      <4> QED BY <2>7, <4>1, <4>2
    <3>2. LostNow' \subseteq LostNow BY <2>4, <3>1
    <3> QED BY <1>1, <2>5, <2>6, <3>2, PaidKept
  <2>8. CASE ~ whole /\ name \notin over
    <3>1. files[name].tail = Junk BY <1>12, <2>8
    <3>2. Spoiled(name) BY <3>1 DEF Spoiled, Junk, Tail0, HalfOf
    <3>3. name \in Debts BY <1>7, <2>8, <3>2 DEF Debts
    <3>4. LostNow' \subseteq LostNow \cup {mine} BY <2>4
    <3> QED BY <1>1, <2>5, <2>6, <3>3, <3>4, PaidOff
  <2> QED BY <2>7, <2>8
<1> QED BY <1>25, <1>26, <1>27, <1>28, <1>29, <1>30, <1>31, <1>32 DEF SessIInv

-----------------------------------------------------------------------------
LEMMA SessInitFits ==
    ASSUME SessionAssumption, SessionInit
    PROVE  SessIInv
<1> USE DEF SessionInit
<1>1. /\ NoSession \in SessionOf /\ Idle \in Place /\ Idle.pc = "idle"
      /\ NoSession.path = <<>> /\ NoSession.entries = <<>>
    BY DEF NoSession, SessionOf, Idle, Place, AnyLine, Name
<1>2. DOMAIN files = {} /\ IsFiniteSet({}) BY FS_EmptySet
<1>3. /\ sess \in [Procs -> SessionOf] /\ \A p \in Procs : sess[p] = NoSession
      /\ at \in [Hand -> Place] /\ \A x \in Hand : at[x].pc = "idle"
    BY <1>1 DEF Hand
<1>4. FilesShape BY <1>2, <1>3 DEF FilesShape, SessionAssumption
<1>5. WritersFit /\ TailsFit /\ Alone BY <1>1, <1>2, <1>3 DEF WritersFit, TailsFit, Alone
<1>6. IdsFit BY <1>1, <1>2, <1>3 DEF IdsFit
<1>7. \A n : Loaded(File(n)) = <<>> BY <1>2, <1>4, FileIs
<1>8. Rising(<<>>) /\ Chained(<<>>) BY DEF Rising, Chained
<1>9. OrderFits BY <1>1, <1>2, <1>3, <1>8 DEF OrderFits
<1>10. MemoryFits BY <1>1, <1>2, <1>3, <1>7, <1>8 DEF MemoryFits
<1>11. Paid
  <2>1. LostNow = {} /\ Debts = {} BY <1>2 DEF LostNow, Lost, Debts
  <2> QED BY <2>1, FS_EmptySet DEF Paid
<1> QED BY <1>4, <1>5, <1>6, <1>9, <1>10, <1>11 DEF SessIInv

LEMMA SessStepKeeps ==
    ASSUME SessionAssumption, SessIInv, [SessionNext]_sessionVars
    PROVE  SessIInv'
<1>1. ASSUME UNCHANGED sessionVars PROVE SessIInv'
  <2> USE <1>1 DEF sessionVars
  <2>1. FilesShape' /\ WritersFit' /\ TailsFit' /\ IdsFit' /\ Alone'
      BY DEF SessIInv, FilesShape, WritersFit, TailsFit, IdsFit, Alone, Spoiled
  <2>2. OrderFits' /\ MemoryFits' BY DEF SessIInv, OrderFits, MemoryFits, File, Quiet
  <2>3. Paid' BY DEF SessIInv, Paid, LostNow, Debts, Lost, File, Spoiled
  <2> QED BY <2>1, <2>2, <2>3 DEF SessIInv
<1>2. CASE NextSecond BY <1>2, SecondKeeps
<1>3. ASSUME NEW p \in Procs, New(p) \/ Resume(p) \/ Fork(p) \/ Crash(p) PROVE SessIInv'
    BY <1>3, NewKeeps, ResumeKeeps, ForkKeeps, CrashKeeps
<1>4. ASSUME NEW p \in Procs, NEW w \in Goroutines,
             Record(p, w) \/ Lock(p, w) \/ WriteHalf(p, w) \/ WriteRest(p, w) \/ AppendFails(p, w)
      PROVE  SessIInv'
    BY <1>4, RecordKeeps, LockKeeps, WriteHalfKeeps, WriteRestKeeps, AppendFailsKeeps
<1> QED BY <1>1, <1>2, <1>3, <1>4 DEF SessionNext, Appends

LEMMA SessShows ==
    ASSUME SessionAssumption, SessIInv
    PROVE  FileIsOneChain
<1>1. FilesShape /\ WritersFit /\ TailsFit /\ IdsFit /\ Alone /\ OrderFits /\ MemoryFits /\ Paid
    BY DEF SessIInv
<1>2. SessionTypeOK
  <2>1. ASSUME NEW p \in Procs
        PROVE  Cardinality({w \in Goroutines : at[<<p, w>>].pc # "idle"}) <= 1
    <3> DEFINE busy == {w \in Goroutines : at[<<p, w>>].pc # "idle"}
    <3>1. \A v \in busy, w \in busy : v = w
      <4>1. ASSUME NEW v \in busy, NEW w \in busy PROVE v = w
        <5>1. /\ <<p, v>> \in Hand /\ <<p, w>> \in Hand /\ <<p, v>>[1] = <<p, w>>[1]
              /\ at[<<p, v>>].pc # "idle" /\ at[<<p, w>>].pc # "idle"
            BY DEF Hand
        <5>2. <<p, v>> = <<p, w>> BY <1>1, <5>1 DEF WritersFit
        <5> QED BY <5>2
      <4> QED BY <4>1
    <3> HIDE DEF busy
    <3>2. busy = {} \/ \E w : busy = {w} BY <3>1
    <3>3. Cardinality(busy) <= 1
      <4>1. CASE busy = {}
        <5>1. Cardinality({}) = 0 BY FS_EmptySet
        <5> QED BY <4>1, <5>1
      <4>2. ASSUME NEW w, busy = {w} PROVE Cardinality(busy) <= 1
        <5>1. Cardinality({w}) = 1 BY FS_Singleton
        <5> QED BY <4>2, <5>1
      <4> QED BY <3>2, <4>1, <4>2
    <3> QED BY <3>3 DEF busy
  <2>2. ASSUME NEW n \in DOMAIN files PROVE Ids(files[n].lines) \subseteq 1 .. made
    <3>1. files[n].lines \in Seq(Line) /\ made \in Nat BY <1>1, FileIs, LoadedIs, TypedIds
    <3>2. \A i \in DOMAIN files[n].lines : files[n].lines[i].id \in Nat \ {0}
      <4>1. \A i \in DOMAIN files[n].lines : files[n].lines[i] \in Line BY <3>1
      <4> QED BY <4>1 DEF Line
    <3>3. \A i \in DOMAIN files[n].lines : files[n].lines[i].id <= made BY <1>1 DEF IdsFit
    <3>4. \A k \in Nat \ {0} : k <= made => k \in 1 .. made BY <3>1
    <3> QED BY <3>2, <3>3, <3>4 DEF Ids
  <2>3. ASSUME NEW n \in DOMAIN files, files[n].tail.is = "half", MaxFaults = 0 PROVE Locked(n)
    <3>1. faults = 0 BY <1>1, <2>3 DEF FilesShape
    <3>2. ~ Spoiled(n) BY <1>1, <3>1 DEF TailsFit
    <3>3. files[n].tail # Tail0 BY <2>3 DEF Tail0
    <3>4. PICK x \in Hand : at[x].pc = "half" /\ at[x].path = n BY <3>2, <3>3 DEF Spoiled
    <3>5. x[1] \in Procs /\ x[2] \in Goroutines /\ x = <<x[1], x[2]>> BY DEF Hand
    <3> QED BY <3>4, <3>5 DEF Locked
  <2> QED BY <1>1, <2>1, <2>2, <2>3 DEF SessionTypeOK, FilesShape
<1>3. FaultCostsOne BY <1>1, Finite DEF Paid, FaultCostsOne, LostNow
<1>4. InOrder BY <1>1 DEF InOrder, OrderFits, Rising
<1>5. ChainIsLinear BY <1>1 DEF ChainIsLinear, MemoryFits, Chained
<1>6. MemoryIsFile BY <1>1 DEF MemoryIsFile, MemoryFits
<1> QED BY <1>2, <1>3, <1>4, <1>5, <1>6 DEF FileIsOneChain

\* A session file is one conversation: in order, linear while no write fails and one program has
\* its name, with no more acknowledged entries lost than there were faults, for every number of
\* programs, goroutines, sessions, forks, entries and faults.
THEOREM SessionsAreChains == SessionSpec => []FileIsOneChain
<1>1. SessionInit => SessIInv BY SessInitFits, SessionAssumption
<1>2. SessIInv /\ [SessionNext]_sessionVars => SessIInv' BY SessStepKeeps, SessionAssumption
<1>3. SessIInv => FileIsOneChain BY SessShows, SessionAssumption
<1> QED BY <1>1, <1>2, <1>3, PTL DEF SessionSpec

-----------------------------------------------------------------------------
(* The checkpoint (Checkpoint) *)

Counts == [turns : Nat, used : Nat]
Job == [session : Programs, owed : Nat]
WorkState == [at : {"down", "idle", "loaded", "open"}, session : Programs \cup {0},
              owed : Nat, data : Counts, mid : BOOLEAN]

CheckpointShape ==
    /\ held \in [Programs -> Programs] /\ plain \in SUBSET Programs
    /\ step \in [Programs -> {"idle", "turn", "saving", "saved", "open", "dead"}]
    /\ counters \in [Programs -> Counts] /\ unsaved \in [Programs -> Counts]
    /\ logged \in [Programs -> [users : Nat, used : Nat, boot : Nat]]
    /\ owed \in [Programs -> Nat] /\ ends \in [Programs -> SUBSET Counts]
    /\ asked \in SUBSET Job /\ jobs \in SUBSET Job
    /\ work \in WorkState
    /\ work.at \in {"loaded", "open"} => work.session \in Programs
    /\ checkpoint \in Seq([data : Counts, whole : BOOLEAN])
    /\ last \in Counts /\ alone \in BOOLEAN

\* A writer that is alone finds the file empty and leaves it whole.
FileFits ==
    /\ Len(checkpoint) + Cardinality(Opened) <= Cardinality(Programs) + 1
    /\ alone /\ Opened = {} => checkpoint = <<Written(last, TRUE)>>
    /\ alone /\ Opened # {} => checkpoint = <<>> /\ \E w \in Opened : Opened = {w}

\* What a job, or a turn that will ask for one, is owed has been saved.
JobsFit ==
    /\ \A c \in asked \cup jobs : c.owed <= logged[c.session].users
    /\ \A p \in Programs :
        step[p] \in {"saving", "saved", "open"} => owed[p] <= logged[held[p]].users
    /\ JobSeesItsTurn

\* Session s is its program's own, whose counters are what is saved and what is not yet; once a
\* turn has ended, the file says what one of them came to, but in the middle of a save.
Plain(s) ==
    /\ \A p \in Programs : held[p] = s <=> p = s
    /\ counters[s].turns = logged[s].users + unsaved[s].turns
    /\ counters[s].used = logged[s].used + unsaved[s].used
    /\ step[s] # "turn" => unsaved[s].turns = 0
    /\ step[s] \notin {"turn", "saving"} => unsaved[s].used = 0
    /\ ends[s] # {} /\ step[s] # "saving" => Counted(logged[s]) \in ends[s]
    /\ step[s] \in {"saved", "open"} => ends[s] # {}
    /\ \A c \in asked \cup jobs : c.session = s => ends[s] # {}

CheckpointIInv ==
    CheckpointShape /\ FileFits /\ JobsFit /\ (\A s \in plain : Plain(s)) /\ SameCounts

LEMMA NoWorkIs ==
    NoWork \in WorkState /\ NoWork.at = "idle" /\ Down \in WorkState /\ Down.at = "down"
BY DEF NoWork, Down, WorkState, Counts, Zero

LEMMA CheckpointInitInv == CheckpointInit => CheckpointIInv
<1> SUFFICES ASSUME CheckpointInit PROVE CheckpointIInv
    OBVIOUS
<1> USE DEF CheckpointInit
<1>1. Zero \in Counts /\ Opened = {}
      BY DEF Zero, Counts, Opened, Down, NoWork
<1>2. work.at = "down" /\ work \in WorkState
      BY NoWorkIs
<1>3. checkpoint \in Seq([data : Counts, whole : BOOLEAN]) /\ Len(checkpoint) = 0
      BY EmptySeq
<1>4. CheckpointShape
  <2>1. logged \in [Programs -> [users : Nat, used : Nat, boot : Nat]]
        BY DEF NoLog
  <2>2. counters \in [Programs -> Counts] /\ unsaved \in [Programs -> Counts]
        BY <1>1
  <2>3. /\ held \in [Programs -> Programs] /\ plain \in SUBSET Programs
        /\ step \in [Programs -> {"idle", "turn", "saving", "saved", "open", "dead"}]
        /\ owed \in [Programs -> Nat] /\ ends \in [Programs -> SUBSET Counts]
        /\ asked \in SUBSET Job /\ jobs \in SUBSET Job
        /\ last \in Counts /\ alone \in BOOLEAN
        BY <1>1
  <2> HIDE DEF CheckpointInit
  <2>4. work \in WorkState
        BY <1>2
  <2>5. work.at \in {"loaded", "open"} => work.session \in Programs
        BY <1>2
  <2>6. checkpoint \in Seq([data : Counts, whole : BOOLEAN])
        BY <1>3
  <2> QED BY <2>1, <2>2, <2>3, <2>4, <2>5, <2>6 DEF CheckpointShape
<1>5. FileFits
  <2>1. Cardinality(Opened) = 0 /\ Cardinality(Programs) \in Nat
        BY <1>1, FS_EmptySet, FS_CardinalityType, CheckpointAssumption
  <2> QED BY <1>1, <1>3, <2>1 DEF FileFits
<1>6. JobsFit /\ SameCounts
      BY <1>2 DEF JobsFit, JobSeesItsTurn, SameCounts
<1>7. \A s \in plain : Plain(s)
      BY DEF Plain, Zero, NoLog
<1> QED BY <1>4, <1>5, <1>6, <1>7 DEF CheckpointIInv

-----------------------------------------------------------------------------
(* The file *)

\* Those who have the file open are programs, or the daemon.
LEMMA OpenedIs ==
    /\ IsFiniteSet(Opened) /\ Cardinality(Opened) \in Nat
    /\ Cardinality(Opened) <= Cardinality(Programs) + 1
    /\ Cardinality(Programs) \in Nat
<1>1. IsFiniteSet(Programs \cup {"daemon"}) /\ Cardinality(Programs \cup {"daemon"}) = Cardinality(Programs) + 1
      BY CheckpointAssumption, FS_AddElement
<1>2. Opened \in SUBSET (Programs \cup {"daemon"})
      BY DEF Opened
<1> QED BY <1>1, <1>2, FS_Subset, FS_CardinalityType, CheckpointAssumption

\* Opening the file.
LEMMA FileOpened ==
    ASSUME FileFits, checkpoint \in Seq([data : Counts, whole : BOOLEAN]), OpenFile,
           NEW w \in Programs \cup {"daemon"}, w \notin Opened, Opened' = Opened \cup {w}
    PROVE  /\ FileFits' /\ checkpoint' \in Seq([data : Counts, whole : BOOLEAN])
           /\ last' = last /\ alone' \in BOOLEAN
<1>1. checkpoint' = <<>> /\ Len(checkpoint') = 0 /\ last' = last /\ alone' = (Opened = {})
      BY DEF OpenFile
<1>2. checkpoint' \in Seq([data : Counts, whole : BOOLEAN])
      BY <1>1, EmptySeq
<1>3. /\ Cardinality(Opened') \in Nat /\ Cardinality(Programs) \in Nat
      /\ Cardinality(Opened') <= Cardinality(Programs) + 1
  <2>1. /\ IsFiniteSet(Programs \cup {"daemon"})
        /\ Cardinality(Programs \cup {"daemon"}) = Cardinality(Programs) + 1
        BY CheckpointAssumption, FS_AddElement
  <2>2. Opened' \in SUBSET (Programs \cup {"daemon"})
        BY DEF Opened
  <2> QED BY <2>1, <2>2, FS_Subset, FS_CardinalityType, CheckpointAssumption
<1>4. alone' => Opened' = {w}
      BY <1>1
<1>5. Opened' # {}
      OBVIOUS
<1>6. Len(checkpoint') + Cardinality(Opened') <= Cardinality(Programs) + 1
      BY <1>1, <1>3
<1> QED BY <1>1, <1>2, <1>4, <1>5, <1>6 DEF FileFits

\* Writing adds a piece at most to what is there, and to nothing a piece alone.
LEMMA OverlaidIs ==
    ASSUME checkpoint \in Seq([data : Counts, whole : BOOLEAN]), NEW d \in Counts,
           NEW whole \in BOOLEAN, NEW s \in Overlaid(d, whole)
    PROVE  /\ s \in Seq([data : Counts, whole : BOOLEAN]) /\ Len(s) <= Len(checkpoint) + 1
           /\ checkpoint = <<>> => s = <<Written(d, whole)>>
<1> DEFINE Part == [data : Counts, whole : BOOLEAN]
<1>1. Written(d, whole) \in Part
      BY DEF Written
<1>2. Len(checkpoint) \in Nat /\ DOMAIN checkpoint = 1 .. Len(checkpoint)
      BY LenProperties
<1>3. CASE s = <<Written(d, whole)>>
  <2>1. s \in Seq(Part) /\ Len(s) = 1
        BY <1>1, <1>3
  <2> QED BY <1>2, <1>3, <2>1
<1>4. CASE s # <<Written(d, whole)>>
  <2>1. PICK i \in DOMAIN checkpoint :
            s = <<Written(d, whole), Written(checkpoint[i].data, FALSE)>>
                \o SubSeq(checkpoint, i + 1, Len(checkpoint))
        BY <1>4 DEF Overlaid
  <2>2. checkpoint[i] \in Part
        BY <2>1, <1>2, ElementOfSeq
  <2>3. Written(checkpoint[i].data, FALSE) \in Part
        BY <2>2 DEF Written
  <2> DEFINE head == <<Written(d, whole), Written(checkpoint[i].data, FALSE)>>
             tail == SubSeq(checkpoint, i + 1, Len(checkpoint))
  <2>4. head \in Seq(Part) /\ Len(head) = 2
    <3>1. \A P : \A a, b \in P : <<a, b>> \in Seq(P) /\ Len(<<a, b>>) = 2
          OBVIOUS
    <3> QED BY <1>1, <2>3, <3>1
  <2>5. tail \in Seq(Part)
    <3> HIDE DEF Part
    <3>1. checkpoint \in Seq(Part)
          BY DEF Part
    <3>2. \A k \in (i + 1) .. Len(checkpoint) : k \in 1 .. Len(checkpoint)
          BY <1>2, <2>1
    <3>3. \A k \in (i + 1) .. Len(checkpoint) : checkpoint[k] \in Part
          BY <3>1, <3>2, ElementOfSeq
    <3> QED BY <1>2, <2>1, <3>1, <3>3, SubSeqProperties
  <2>6. Len(tail) \in Nat /\ Len(tail) <= Len(checkpoint) - 1
    <3>1. Len(tail) = IF i + 1 <= Len(checkpoint) THEN Len(checkpoint) - (i + 1) + 1 ELSE 0
          BY <1>2, <2>1, SubSeqProperties
    <3> QED BY <1>2, <2>1, <3>1
  <2>7. s \in Seq(Part) /\ Len(s) = Len(head) + Len(tail)
    <3> HIDE DEF head, tail, Part
    <3>1. s = head \o tail
          BY <2>1 DEF head, tail
    <3> QED BY <3>1, <2>4, <2>5, ConcatProperties
  <2>8. checkpoint # <<>>
        BY <1>2, <2>1
  <2>9. Len(s) <= Len(checkpoint) + 1
    <3> HIDE DEF head, tail
    <3> QED BY <1>2, <2>4, <2>6, <2>7
  <2> QED BY <2>7, <2>8, <2>9
<1> QED BY <1>3, <1>4

\* The file when a writer closes it: what it is then is one of the ways to write over it, or, cut
\* short, what it was.
LEMMA FileClosed ==
    ASSUME FileFits, checkpoint \in Seq([data : Counts, whole : BOOLEAN]), last \in Counts,
           alone \in BOOLEAN, NEW d \in Counts, WriteOver(d) \/ WriteCut(d),
           NEW w, w \in Opened, Opened' = Opened \ {w}
    PROVE  /\ FileFits' /\ checkpoint' \in Seq([data : Counts, whole : BOOLEAN])
           /\ last' \in Counts /\ alone' \in BOOLEAN
<1>1. Cardinality(Opened') = Cardinality(Opened) - 1
      BY OpenedIs, FS_RemoveElement
<1>2. \/ checkpoint' = checkpoint
      \/ \E whole \in BOOLEAN : checkpoint' \in Overlaid(d, whole)
      BY DEF WriteOver, WriteCut
<1>3. checkpoint' \in Seq([data : Counts, whole : BOOLEAN])
      BY <1>2, OverlaidIs
<1>4. Len(checkpoint) \in Nat /\ Len(checkpoint') \in Nat
      BY <1>3, LenProperties
<1>5. Len(checkpoint') <= Len(checkpoint) + 1
      BY <1>2, <1>4, OverlaidIs
<1>6. Len(checkpoint) + Cardinality(Opened) <= Cardinality(Programs) + 1
      BY DEF FileFits
<1>7. Len(checkpoint') + Cardinality(Opened') <= Cardinality(Programs) + 1
      BY <1>1, <1>4, <1>5, <1>6, OpenedIs
<1>8. last' \in Counts /\ alone' \in BOOLEAN
      BY DEF WriteOver, WriteCut
<1>9. alone' => alone /\ last' = d /\ checkpoint' \in Overlaid(d, TRUE)
      BY DEF WriteOver, WriteCut
<1>10. alone' => Opened' = {} /\ checkpoint' = <<Written(last', TRUE)>>
  <2> SUFFICES ASSUME alone' PROVE Opened' = {} /\ checkpoint' = <<Written(last', TRUE)>>
      OBVIOUS
  <2>1. checkpoint = <<>> /\ \E v \in Opened : Opened = {v}
        BY <1>9 DEF FileFits
  <2>2. checkpoint' = <<Written(d, TRUE)>>
        BY <1>9, <2>1, OverlaidIs
  <2> QED BY <1>9, <2>1, <2>2
<1> QED BY <1>3, <1>7, <1>8, <1>10 DEF FileFits

LEMMA FileSame ==
    ASSUME FileFits, UNCHANGED fileVars, Opened' = Opened
    PROVE  FileFits'
BY DEF FileFits, fileVars

-----------------------------------------------------------------------------
(* The steps of a program *)

LEMMA CountsAre ==
    ASSUME NEW n \in Counts
    PROVE  n.turns \in Nat /\ n.used \in Nat
           /\ \A k \in Nat : [n EXCEPT !.turns = k] \in Counts /\ [n EXCEPT !.used = k] \in Counts
BY DEF Counts

\* What is held of a program.
LEMMA ProgramIs ==
    ASSUME CheckpointShape, NEW p \in Programs
    PROVE  /\ held[p] \in Programs /\ owed[p] \in Nat
           /\ counters[p] \in Counts /\ unsaved[p] \in Counts
           /\ counters[p].turns \in Nat /\ counters[p].used \in Nat
           /\ unsaved[p].turns \in Nat /\ unsaved[p].used \in Nat
BY CountsAre DEF CheckpointShape

\* What is held of a session.
LEMMA SessionIs ==
    ASSUME CheckpointShape, NEW s \in Programs
    PROVE  /\ logged[s].users \in Nat /\ logged[s].used \in Nat /\ logged[s].boot \in Nat
           /\ logged[s] \in [users : Nat, used : Nat, boot : Nat]
           /\ Counted(logged[s]) \in Counts
<1>1. logged[s] \in [users : Nat, used : Nat, boot : Nat]
      BY DEF CheckpointShape
<1> QED BY <1>1 DEF Counted, Counts

\* What a step leaves of session s leaves s as it was.
LEMMA PlainStays ==
    ASSUME NEW s \in Programs, Plain(s), \A p \in Programs : held'[p] = s <=> held[p] = s,
           counters'[s] = counters[s], unsaved'[s] = unsaved[s], step'[s] = step[s],
           logged'[s] = logged[s], ends'[s] = ends[s],
           \A c \in asked' \cup jobs' : c.session = s => c \in asked \cup jobs
    PROVE  Plain(s)'
BY DEF Plain, Counted

\* A plain session is its program's.
LEMMA PlainIsOwn ==
    ASSUME CheckpointIInv, NEW s \in plain
    PROVE  Plain(s) /\ s \in Programs /\ \A p \in Programs : held[p] = s <=> p = s
BY DEF CheckpointIInv, Plain, CheckpointShape

\* A step that leaves the sessions and the jobs, and gives no program a turn's end.
LEMMA JobsStay ==
    ASSUME JobsFit, UNCHANGED <<held, logged, owed, work>>, asked' \cup jobs' \subseteq asked \cup jobs,
           \A p \in Programs : step'[p] \in {"saving", "saved", "open"} =>
                                   step[p] \in {"saving", "saved", "open"}
    PROVE  JobsFit'
BY DEF JobsFit, JobSeesItsTurn

LEMMA CountsStay ==
    ASSUME CheckpointShape, SameCounts, work' = work, plain' \subseteq plain,
           \A s \in Programs : ends[s] \subseteq ends'[s]
    PROVE  SameCounts'
BY DEF SameCounts, CheckpointShape

LEMMA PartsOf ==
    ASSUME CheckpointIInv
    PROVE  CheckpointShape /\ FileFits /\ JobsFit /\ SameCounts
BY DEF CheckpointIInv

LEMMA BeginTurnStep ==
    ASSUME CheckpointIInv, NEW p \in Programs, BeginTurn(p)
    PROVE  CheckpointIInv'
<1> USE DEF BeginTurn, fileVars, daemonVars, bounds
<1>1. CheckpointShape'
  <2>1. counters' \in [Programs -> Counts] /\ unsaved' \in [Programs -> Counts]
    <3>1. counters' = [counters EXCEPT ![p].turns = counters[p].turns + 1]
          /\ unsaved' = [unsaved EXCEPT ![p].turns = unsaved[p].turns + 1]
          OBVIOUS
    <3>2. counters[p].turns + 1 \in Nat /\ unsaved[p].turns + 1 \in Nat
          BY PartsOf, ProgramIs
    <3>3. counters \in [Programs -> Counts] /\ unsaved \in [Programs -> Counts]
          BY PartsOf DEF CheckpointShape
    <3> QED BY <3>1, <3>2, <3>3 DEF Counts
  <2>2. step' \in [Programs -> {"idle", "turn", "saving", "saved", "open", "dead"}]
        BY PartsOf DEF CheckpointShape
  <2> QED BY <2>1, <2>2, PartsOf DEF CheckpointShape, Job, WorkState
<1>2. Opened' = Opened
      BY PartsOf DEF Opened, CheckpointShape
<1>3. FileFits'
      BY <1>2, FileSame, PartsOf
<1>4. \A q \in Programs : step'[q] = IF q = p THEN "turn" ELSE step[q]
      BY PartsOf DEF CheckpointShape
<1>5. JobsFit' /\ SameCounts'
      BY <1>4, JobsStay, CountsStay, PartsOf
<1>6. ASSUME NEW s \in plain PROVE Plain(s)'
  <2>1. Plain(s) /\ s \in Programs
        BY PlainIsOwn
  <2>2. CASE s # p
    <3>1. counters'[s] = counters[s] /\ unsaved'[s] = unsaved[s] /\ step'[s] = step[s]
          BY <2>1, <2>2, PartsOf DEF CheckpointShape
    <3> QED BY <2>1, <3>1, PlainStays
  <2>3. CASE s = p
    <3>1. step[s] = "idle" /\ step'[s] = "turn"
          BY <1>4, <2>3
    <3>2. /\ counters'[s].turns = counters[s].turns + 1 /\ counters'[s].used = counters[s].used
          /\ unsaved'[s].turns = unsaved[s].turns + 1 /\ unsaved'[s].used = unsaved[s].used
          BY <2>3, PartsOf DEF CheckpointShape, Counts
    <3>3. counters'[s].turns = logged[s].users + unsaved'[s].turns
          BY <2>1, <3>2, ProgramIs, SessionIs, PartsOf DEF Plain
    <3> QED BY <2>1, <3>1, <3>2, <3>3 DEF Plain
  <2> QED BY <2>2, <2>3
<1> QED BY <1>1, <1>3, <1>5, <1>6 DEF CheckpointIInv

LEMMA UseToolStep ==
    ASSUME CheckpointIInv, NEW p \in Programs, NEW kept \in BOOLEAN, UseTool(p, kept)
    PROVE  CheckpointIInv'
<1> USE DEF UseTool, fileVars, daemonVars, bounds
<1> DEFINE after == IF kept THEN unsaved[p].used + 1 ELSE unsaved[p].used
<1>1. CheckpointShape'
  <2>1. counters' \in [Programs -> Counts] /\ unsaved' \in [Programs -> Counts]
    <3>1. counters' = [counters EXCEPT ![p].used = counters[p].used + 1]
          /\ unsaved' = [unsaved EXCEPT ![p].used = after]
          OBVIOUS
    <3>2. counters[p].used + 1 \in Nat /\ after \in Nat
          BY PartsOf, ProgramIs
    <3>3. counters \in [Programs -> Counts] /\ unsaved \in [Programs -> Counts]
          BY PartsOf DEF CheckpointShape
    <3> HIDE DEF after
    <3> QED BY <3>1, <3>2, <3>3 DEF Counts
  <2> QED BY <2>1, PartsOf DEF CheckpointShape, Job, WorkState
<1>2. Opened' = Opened
      BY DEF Opened
<1>3. FileFits'
      BY <1>2, FileSame, PartsOf
<1>4. plain' \subseteq plain /\ (~kept => held[p] \notin plain')
      OBVIOUS
<1>5. JobsFit' /\ SameCounts'
      BY <1>4, JobsStay, CountsStay, PartsOf
<1>6. ASSUME NEW s \in plain' PROVE Plain(s)'
  <2>1. s \in plain /\ Plain(s) /\ s \in Programs /\ \A q \in Programs : held[q] = s <=> q = s
        BY <1>4, PlainIsOwn
  <2>2. CASE s # p
    <3>1. counters'[s] = counters[s] /\ unsaved'[s] = unsaved[s]
          BY <2>1, <2>2, PartsOf DEF CheckpointShape
    <3> QED BY <2>1, <3>1, PlainStays
  <2>3. CASE s = p
    <3>1. kept
          BY <1>4, <2>1, <2>3
    <3>2. /\ counters'[s].used = counters[s].used + 1 /\ counters'[s].turns = counters[s].turns
          /\ unsaved'[s].used = unsaved[s].used + 1 /\ unsaved'[s].turns = unsaved[s].turns
          BY <2>3, <3>1, PartsOf DEF CheckpointShape, Counts
    <3>3. counters'[s].used = logged[s].used + unsaved'[s].used
          BY <2>1, <3>2, ProgramIs, SessionIs, PartsOf DEF Plain
    <3> QED BY <2>1, <2>3, <3>2, <3>3 DEF Plain
  <2> QED BY <2>2, <2>3
<1> QED BY <1>1, <1>3, <1>5, <1>6 DEF CheckpointIInv

LEMMA ExtraEntryStep ==
    ASSUME CheckpointIInv, NEW p \in Programs, ExtraEntry(p)
    PROVE  CheckpointIInv'
<1> USE DEF ExtraEntry, fileVars, daemonVars, bounds
<1>1. CheckpointShape'
  <2>1. unsaved' \in [Programs -> Counts]
    <3>1. unsaved' = [unsaved EXCEPT ![p].turns = unsaved[p].turns + 1]
          OBVIOUS
    <3>2. unsaved[p].turns + 1 \in Nat
          BY PartsOf, ProgramIs
    <3>3. unsaved \in [Programs -> Counts]
          BY PartsOf DEF CheckpointShape
    <3> QED BY <3>1, <3>2, <3>3 DEF Counts
  <2> QED BY <2>1, PartsOf DEF CheckpointShape, Job, WorkState
<1>2. Opened' = Opened
      BY DEF Opened
<1>3. FileFits'
      BY <1>2, FileSame, PartsOf
<1>4. plain' \subseteq plain /\ held[p] \notin plain'
      OBVIOUS
<1>5. JobsFit' /\ SameCounts'
      BY <1>4, JobsStay, CountsStay, PartsOf
<1>6. ASSUME NEW s \in plain' PROVE Plain(s)'
  <2>1. s \in plain /\ Plain(s) /\ s \in Programs /\ s # p
        BY <1>4, PlainIsOwn
  <2>2. unsaved'[s] = unsaved[s]
        BY <2>1, PartsOf DEF CheckpointShape
  <2> QED BY <2>1, <2>2, PlainStays
<1> QED BY <1>1, <1>3, <1>5, <1>6 DEF CheckpointIInv

LEMMA ResetCountersStep ==
    ASSUME CheckpointIInv, NEW p \in Programs, NEW s \in Programs, ResetCounters(p, s)
    PROVE  CheckpointIInv'
<1> USE DEF ResetCounters, fileVars, daemonVars, bounds
<1>1. counters \in [Programs -> Counts] /\ unsaved \in [Programs -> Counts] /\ held \in [Programs -> Programs]
      BY PartsOf DEF CheckpointShape
<1>2. counters' \in {[counters EXCEPT ![p] = Zero], counters} /\ unsaved' = [unsaved EXCEPT ![p] = Zero]
      OBVIOUS
<1>3. CheckpointShape'
  <2>1. counters' \in [Programs -> Counts] /\ unsaved' \in [Programs -> Counts]
    <3>1. Zero \in Counts
          BY DEF Zero, Counts
    <3> QED BY <1>1, <1>2, <3>1
  <2>2. held' \in [Programs -> Programs] /\ plain' \in SUBSET Programs
        BY <1>1, PartsOf DEF CheckpointShape
  <2> QED BY <2>1, <2>2, PartsOf DEF CheckpointShape, Job, WorkState
<1>4. Opened' = Opened
      BY DEF Opened
<1>5. FileFits'
      BY <1>4, FileSame, PartsOf
<1>6. plain' \subseteq plain /\ held[p] \notin plain' /\ s \notin plain'
      OBVIOUS
<1>7. SameCounts'
      BY <1>6, CountsStay, PartsOf
<1>8. JobsFit'
  <2>1. \A q \in Programs : q # p => held'[q] = held[q]
        BY <1>1
  <2> QED BY <2>1, PartsOf DEF JobsFit, JobSeesItsTurn
<1>9. ASSUME NEW t \in plain' PROVE Plain(t)'
  <2>1. t \in plain /\ Plain(t) /\ t \in Programs /\ t # p /\ t # s
        BY <1>6, PlainIsOwn
  <2>2. \A q \in Programs : held'[q] = t <=> held[q] = t
        BY <1>1, <1>6, <2>1, PlainIsOwn
  <2>3. counters'[t] = counters[t] /\ unsaved'[t] = unsaved[t]
        BY <1>1, <1>2, <2>1
  <2> QED BY <2>1, <2>2, <2>3, PlainStays
<1> QED BY <1>3, <1>5, <1>7, <1>8, <1>9 DEF CheckpointIInv

\* Sessions only grow, and what was owed of them is there.
LEMMA JobsGrow ==
    ASSUME CheckpointIInv, UNCHANGED <<held, work>>, asked' \cup jobs' \subseteq asked \cup jobs,
           \A s \in Programs : logged'[s].users \in Nat /\ logged[s].users <= logged'[s].users,
           \A p \in Programs : step'[p] \in {"saving", "saved", "open"} =>
               \/ step[p] \in {"saving", "saved", "open"} /\ owed'[p] = owed[p]
               \/ owed'[p] = logged'[held[p]].users
    PROVE  JobsFit'
<1>1. \A s \in Programs : logged[s].users \in Int /\ logged'[s].users \in Int
      BY SessionIs, PartsOf
<1>2. \A c \in asked \cup jobs : c.session \in Programs /\ c.owed \in Int
      BY PartsOf DEF CheckpointShape, Job, WorkState
<1>3. ASSUME NEW c \in asked' \cup jobs' PROVE c.owed <= logged'[c.session].users
  <2>1. c \in asked \cup jobs /\ c.owed <= logged[c.session].users
        BY PartsOf DEF JobsFit
  <2>2. c.session \in Programs /\ c.owed \in Int
        BY <1>2, <2>1
  <2> HIDE <1>2
  <2> QED BY <1>1, <2>1, <2>2
<1>4. ASSUME NEW p \in Programs, step'[p] \in {"saving", "saved", "open"}
      PROVE  owed'[p] <= logged'[held[p]].users
  <2>1. owed[p] \in Int /\ held[p] \in Programs
        BY PartsOf, ProgramIs
  <2>2. CASE owed'[p] = logged'[held[p]].users
        BY <1>1, <2>1, <2>2
  <2>3. CASE step[p] \in {"saving", "saved", "open"} /\ owed'[p] = owed[p]
    <3>1. owed[p] <= logged[held[p]].users
          BY <2>3, PartsOf DEF JobsFit
    <3> QED BY <1>1, <2>1, <2>3, <3>1
  <2> QED BY <1>4, <2>2, <2>3
<1>5. JobSeesItsTurn'
  <2> SUFFICES ASSUME work.at \in {"loaded", "open"}
               PROVE  work.owed <= work.data.turns /\ work.data.turns <= logged'[work.session].users
      BY DEF JobSeesItsTurn
  <2>1. work.session \in Programs /\ work.data \in Counts
        BY PartsOf DEF CheckpointShape, WorkState
  <2>2. work.owed <= work.data.turns /\ work.data.turns <= logged[work.session].users
        BY PartsOf DEF JobsFit, JobSeesItsTurn
  <2>3. work.data.turns \in Int
        BY <2>1, CountsAre
  <2> QED BY <1>1, <2>1, <2>2, <2>3
<1>6. \A p \in Programs : step'[p] \in {"saving", "saved", "open"} => owed'[p] <= logged'[held'[p]].users
      BY <1>4
<1> QED BY <1>3, <1>5, <1>6 DEF JobsFit

LEMMA SavePromptsStep ==
    ASSUME CheckpointIInv, NEW p \in Programs, SavePrompts(p)
    PROVE  CheckpointIInv'
<1> USE DEF SavePrompts, fileVars, daemonVars, bounds
<1>1. held[p] \in Programs /\ logged \in [Programs -> [users : Nat, used : Nat, boot : Nat]]
      BY PartsOf, ProgramIs DEF CheckpointShape
<1> DEFINE more == logged[held[p]].users + unsaved[p].turns
           boot == IF logged[held[p]].boot = 0 THEN BootEntries ELSE logged[held[p]].boot
           entry == [users |-> more, used |-> logged[held[p]].used, boot |-> boot]
<1>2. more \in Nat /\ boot \in Nat
      BY <1>1, PartsOf, ProgramIs, SessionIs, CheckpointAssumption
<1>3. logged' = [logged EXCEPT ![held[p]] = entry]
      BY <1>1
<1>4. /\ logged' \in [Programs -> [users : Nat, used : Nat, boot : Nat]]
      /\ \A s \in Programs : s # held[p] => logged'[s] = logged[s]
      /\ logged'[held[p]].users = more /\ logged'[held[p]].used = logged[held[p]].used
  <2>1. entry \in [users : Nat, used : Nat, boot : Nat]
    <3>1. logged[held[p]].used \in Nat
          BY <1>1
    <3> HIDE DEF more, boot
    <3> QED BY <1>2, <3>1
  <2>2. entry.users = more /\ entry.used = logged[held[p]].used
        OBVIOUS
  <2> HIDE DEF entry
  <2> QED BY <1>1, <1>3, <2>1, <2>2
<1>5. CheckpointShape'
  <2>1. unsaved' \in [Programs -> Counts]
    <3>1. unsaved \in [Programs -> Counts] /\ unsaved' = [unsaved EXCEPT ![p].turns = 0]
          BY PartsOf DEF CheckpointShape
    <3> QED BY <3>1 DEF Counts
  <2>2. owed' \in [Programs -> Nat]
    <3> HIDE DEF more
    <3>1. owed' = [owed EXCEPT ![p] = more]
          BY DEF more
    <3> QED BY <1>2, <3>1, PartsOf DEF CheckpointShape
  <2>3. step' \in [Programs -> {"idle", "turn", "saving", "saved", "open", "dead"}]
        BY PartsOf DEF CheckpointShape
  <2> QED BY <1>4, <2>1, <2>2, <2>3, PartsOf DEF CheckpointShape, Job, WorkState
<1>6. Opened' = Opened
      BY PartsOf DEF Opened, CheckpointShape
<1>7. FileFits'
      BY <1>6, FileSame, PartsOf
<1>8. \A s \in Programs : logged'[s].users \in Nat /\ logged[s].users <= logged'[s].users
  <2>1. logged[held[p]].users <= more
        BY <1>1, PartsOf, ProgramIs, SessionIs
  <2> HIDE DEF more, boot
  <2>2. \A s \in Programs : logged[s].users \in Nat
        BY <1>1
  <2> QED BY <1>2, <1>4, <2>1, <2>2
<1>9. JobsFit'
  <2>1. owed'[p] = logged'[held[p]].users
        BY <1>4, PartsOf DEF CheckpointShape
  <2>2. \A q \in Programs : q # p => owed'[q] = owed[q] /\ step'[q] = step[q]
        BY PartsOf DEF CheckpointShape
  <2> QED BY <1>8, <2>1, <2>2, JobsGrow
<1>10. SameCounts'
      BY CountsStay, PartsOf
<1>11. ASSUME NEW s \in plain PROVE Plain(s)'
  <2>1. Plain(s) /\ s \in Programs /\ \A q \in Programs : held[q] = s <=> q = s
        BY PlainIsOwn
  <2>2. CASE s # p
    <3>1. logged'[s] = logged[s] /\ unsaved'[s] = unsaved[s] /\ step'[s] = step[s]
          BY <1>4, <2>1, <2>2, PartsOf DEF CheckpointShape
    <3> QED BY <2>1, <3>1, PlainStays
  <2>3. CASE s = p
    <3>1. step'[s] = "saving" /\ unsaved'[s].turns = 0 /\ unsaved'[s].used = unsaved[s].used
          BY <2>3, PartsOf DEF CheckpointShape, Counts
    <3>2. logged'[s].users = logged[s].users + unsaved[s].turns /\ logged'[s].used = logged[s].used
          BY <1>4, <2>1, <2>3
    <3>3. logged'[s].users \in Nat /\ counters[s].turns = logged[s].users + unsaved[s].turns
          BY <1>8, <2>1 DEF Plain
    <3>4. counters[s].turns = logged'[s].users + unsaved'[s].turns
          BY <3>1, <3>2, <3>3
    <3> QED BY <2>1, <3>1, <3>2, <3>4 DEF Plain
  <2> QED BY <2>2, <2>3
<1> QED BY <1>5, <1>7, <1>9, <1>10, <1>11 DEF CheckpointIInv

LEMMA SaveCallsStep ==
    ASSUME CheckpointIInv, NEW p \in Programs, SaveCalls(p)
    PROVE  CheckpointIInv'
<1> USE DEF SaveCalls, fileVars, daemonVars, bounds
<1>1. held[p] \in Programs /\ logged \in [Programs -> [users : Nat, used : Nat, boot : Nat]]
      BY PartsOf, ProgramIs DEF CheckpointShape
<1> DEFINE more == logged[held[p]].used + unsaved[p].used
<1>2. more \in Nat
      BY <1>1, PartsOf, ProgramIs, SessionIs
<1>3. logged' = [logged EXCEPT ![held[p]].used = more]
      OBVIOUS
<1>4. /\ logged' \in [Programs -> [users : Nat, used : Nat, boot : Nat]]
      /\ \A s \in Programs : s # held[p] => logged'[s] = logged[s]
      /\ logged'[held[p]].users = logged[held[p]].users /\ logged'[held[p]].used = more
  <2> HIDE DEF more
  <2> QED BY <1>1, <1>2, <1>3
<1>5. /\ \A s \in Programs : s # held[p] => ends'[s] = ends[s]
      /\ ends'[held[p]] = ends[held[p]] \cup {counters[p]}
      /\ ends' \in [Programs -> SUBSET Counts]
      BY <1>1, PartsOf, ProgramIs DEF CheckpointShape
<1>6. CheckpointShape'
  <2>1. unsaved' \in [Programs -> Counts]
    <3>1. unsaved \in [Programs -> Counts] /\ unsaved' = [unsaved EXCEPT ![p].used = 0]
          BY PartsOf DEF CheckpointShape
    <3> QED BY <3>1 DEF Counts
  <2>2. step' \in [Programs -> {"idle", "turn", "saving", "saved", "open", "dead"}]
        BY PartsOf DEF CheckpointShape
  <2> QED BY <1>4, <1>5, <2>1, <2>2, PartsOf DEF CheckpointShape, Job, WorkState
<1>7. Opened' = Opened
      BY PartsOf DEF Opened, CheckpointShape
<1>8. FileFits'
      BY <1>7, FileSame, PartsOf
<1>9. JobsFit'
  <2>1. \A s \in Programs : logged'[s].users \in Nat /\ logged[s].users <= logged'[s].users
    <3>1. \A s \in Programs : logged[s].users \in Nat /\ logged'[s].users = logged[s].users
          BY <1>4, <1>1
    <3> QED BY <3>1
  <2>2. \A q \in Programs : q # p => step'[q] = step[q]
        BY PartsOf DEF CheckpointShape
  <2> QED BY <2>1, <2>2, JobsGrow
<1>10. SameCounts'
      BY <1>5, CountsStay, PartsOf
<1>11. ASSUME NEW s \in plain PROVE Plain(s)'
  <2>1. Plain(s) /\ s \in Programs /\ \A q \in Programs : held[q] = s <=> q = s
        BY PlainIsOwn
  <2>2. CASE s # p
    <3>1. logged'[s] = logged[s] /\ unsaved'[s] = unsaved[s] /\ step'[s] = step[s] /\ ends'[s] = ends[s]
          BY <1>4, <1>5, <2>1, <2>2, PartsOf DEF CheckpointShape
    <3> QED BY <2>1, <3>1, PlainStays
  <2>3. CASE s = p
    <3>1. step[s] = "saving" /\ step'[s] = "saved"
          /\ unsaved'[s].turns = unsaved[s].turns /\ unsaved'[s].used = 0
          BY <2>3, PartsOf DEF CheckpointShape, Counts
    <3>2. unsaved[s].turns = 0 /\ counters[s].turns = logged[s].users + unsaved[s].turns
          /\ counters[s].used = logged[s].used + unsaved[s].used
          BY <2>1, <3>1 DEF Plain
    <3>3. logged'[s].users = logged[s].users /\ logged'[s].used = logged[s].used + unsaved[s].used
          BY <1>4, <2>1, <2>3
    <3>4. counters[s].turns = logged'[s].users /\ counters[s].used = logged'[s].used
      <4>1. logged[s].users \in Nat
            BY <2>1, SessionIs, PartsOf
      <4> QED BY <4>1, <3>2, <3>3
    <3>5. logged'[s].users \in Nat /\ logged'[s].used \in Nat
          BY <1>4, <2>1
    <3>6. Counted(logged'[s]) = counters[s]
      <4>1. counters[s] \in Counts
            BY <2>1, ProgramIs, PartsOf
      <4>2. counters[s] = [turns |-> counters[s].turns, used |-> counters[s].used]
            BY <4>1 DEF Counts
      <4> QED BY <3>4, <4>2 DEF Counted
    <3>7. Counted(logged'[s]) \in ends'[s] /\ ends'[s] # {}
          BY <3>6, <1>5, <2>1, <2>3
    <3>8. counters[s].turns = logged'[s].users + unsaved'[s].turns
          /\ counters[s].used = logged'[s].used + unsaved'[s].used
          BY <3>1, <3>2, <3>4, <3>5
    <3> QED BY <2>1, <3>1, <3>2, <3>7, <3>8 DEF Plain
  <2> QED BY <2>2, <2>3
<1> QED BY <1>6, <1>8, <1>9, <1>10, <1>11 DEF CheckpointIInv

LEMMA SaveFailsStep ==
    ASSUME CheckpointIInv, NEW p \in Programs, SaveFails(p)
    PROVE  CheckpointIInv'
<1> USE DEF SaveFails, fileVars, daemonVars
<1>1. held[p] \in Programs /\ logged[held[p]].users \in Nat
      BY PartsOf, ProgramIs, SessionIs
<1>2. /\ step' \in [Programs -> {"idle", "turn", "saving", "saved", "open", "dead"}]
      /\ \A q \in Programs : q # p => step'[q] = step[q] /\ unsaved'[q] = unsaved[q] /\ owed'[q] = owed[q]
      /\ owed'[p] = logged[held[p]].users
      BY PartsOf DEF CheckpointShape
<1>3. CheckpointShape'
  <2>1. unsaved' \in [Programs -> Counts]
    <3>1. unsaved \in [Programs -> Counts] /\ Zero \in Counts
          BY PartsOf DEF CheckpointShape, Zero, Counts
    <3> QED BY <3>1
  <2>2. owed' \in [Programs -> Nat]
    <3>1. owed \in [Programs -> Nat]
          BY PartsOf DEF CheckpointShape
    <3> QED BY <1>1, <3>1
  <2> QED BY <1>2, <2>1, <2>2, PartsOf DEF CheckpointShape, Job, WorkState
<1>4. Opened' = Opened
      BY PartsOf DEF Opened, CheckpointShape
<1>5. FileFits'
      BY <1>4, FileSame, PartsOf
<1>6. JobsFit'
  <2>1. \A s \in Programs : logged[s].users \in Nat /\ logged[s].users <= logged[s].users
    <3>1. \A s \in Programs : logged[s].users \in Nat
          BY PartsOf, SessionIs
    <3> QED BY <3>1
  <2> QED BY <1>2, <2>1, JobsGrow
<1>7. plain' \subseteq plain /\ held[p] \notin plain'
      OBVIOUS
<1>8. SameCounts'
      BY <1>7, CountsStay, PartsOf
<1>9. ASSUME NEW s \in plain' PROVE Plain(s)'
  <2>1. s \in plain /\ Plain(s) /\ s \in Programs /\ s # p
        BY <1>7, PlainIsOwn
  <2> QED BY <1>2, <2>1, PlainStays
<1> QED BY <1>3, <1>5, <1>6, <1>8, <1>9 DEF CheckpointIInv

LEMMA OpenInlineStep ==
    ASSUME CheckpointIInv, NEW p \in Programs, OpenInline(p)
    PROVE  CheckpointIInv'
<1> USE DEF OpenInline, daemonVars, bounds
<1>1. /\ step' \in [Programs -> {"idle", "turn", "saving", "saved", "open", "dead"}]
      /\ \A q \in Programs : step'[q] = IF q = p THEN "open" ELSE step[q]
      BY PartsOf DEF CheckpointShape
<1>2. p \notin Opened /\ Opened' = Opened \cup {p}
      BY <1>1, CheckpointAssumption DEF Opened
<1>3. /\ FileFits' /\ checkpoint' \in Seq([data : Counts, whole : BOOLEAN])
      /\ last' = last /\ alone' \in BOOLEAN
  <2>1. checkpoint \in Seq([data : Counts, whole : BOOLEAN])
        BY PartsOf DEF CheckpointShape
  <2> QED BY <1>2, <2>1, FileOpened, PartsOf
<1>4. CheckpointShape'
      BY <1>1, <1>3, PartsOf DEF CheckpointShape, Job, WorkState
<1>5. JobsFit' /\ SameCounts'
      BY <1>1, JobsStay, CountsStay, PartsOf
<1>6. ASSUME NEW s \in plain PROVE Plain(s)'
  <2>1. Plain(s) /\ s \in Programs
        BY PlainIsOwn
  <2>2. CASE s # p
        BY <1>1, <2>1, <2>2, PlainStays
  <2>3. CASE s = p
        BY <1>1, <2>1, <2>3 DEF Plain
  <2> QED BY <2>2, <2>3
<1> QED BY <1>3, <1>4, <1>5, <1>6 DEF CheckpointIInv

\* A program that has the file open closes it, and asks for a job or not.
LEMMA CloseInlineStep ==
    ASSUME CheckpointIInv, NEW p \in Programs, step[p] = "open",
           WriteOver(counters[p]) \/ WriteCut(counters[p]),
           NEW to \in {"idle", "dead"}, step' = [step EXCEPT ![p] = to],
           asked' \in {asked, Submitted(p)},
           UNCHANGED <<held, counters, unsaved, logged, jobs, work, owed, ends, plain>>
    PROVE  CheckpointIInv'
<1>1. /\ step' \in [Programs -> {"idle", "turn", "saving", "saved", "open", "dead"}]
      /\ \A q \in Programs : step'[q] = IF q = p THEN to ELSE step[q]
      BY PartsOf DEF CheckpointShape
<1>2. p \in Opened /\ Opened' = Opened \ {p}
      BY <1>1, CheckpointAssumption DEF Opened
<1>3. /\ FileFits' /\ checkpoint' \in Seq([data : Counts, whole : BOOLEAN])
      /\ last' \in Counts /\ alone' \in BOOLEAN
  <2>1. checkpoint \in Seq([data : Counts, whole : BOOLEAN]) /\ last \in Counts /\ alone \in BOOLEAN
        BY PartsOf DEF CheckpointShape
  <2>2. counters[p] \in Counts
        BY PartsOf, ProgramIs
  <2> QED BY <1>2, <2>1, <2>2, FileClosed, PartsOf
<1> DEFINE c == [session |-> held[p], owed |-> owed[p]]
<1>4. c \in Job /\ c.session = held[p] /\ c.owed = owed[p] /\ asked' \subseteq asked \cup {c}
  <2>1. held[p] \in Programs /\ owed[p] \in Nat
        BY PartsOf, ProgramIs
  <2> QED BY <2>1 DEF Job, Submitted
<1>5. CheckpointShape'
  <2>1. asked' \in SUBSET Job
    <3> HIDE DEF c
    <3>1. asked \in SUBSET Job
          BY PartsOf DEF CheckpointShape
    <3> QED BY <1>4, <3>1
  <2>2. Job' = Job
        BY DEF Job
  <2> QED BY <1>1, <1>3, <2>1, <2>2, PartsOf DEF CheckpointShape
<1>6. JobsFit'
  <2> HIDE DEF c
  <2>1. owed[p] <= logged[held[p]].users
        BY PartsOf DEF JobsFit
  <2>2. \A d \in asked' \cup jobs' : d.owed <= logged[d.session].users
        BY <1>4, <2>1, PartsOf DEF JobsFit
  <2>3. \A q \in Programs : step'[q] \in {"saving", "saved", "open"} => owed[q] <= logged[held[q]].users
        BY <1>1, PartsOf DEF JobsFit
  <2>4. JobSeesItsTurn'
        BY PartsOf DEF JobsFit, JobSeesItsTurn
  <2> QED BY <2>2, <2>3, <2>4 DEF JobsFit
<1>7. SameCounts'
      BY CountsStay, PartsOf
<1>8. ASSUME NEW s \in plain PROVE Plain(s)'
  <2> HIDE DEF c
  <2>1. Plain(s) /\ s \in Programs /\ \A q \in Programs : held[q] = s <=> q = s
        BY PlainIsOwn
  <2>2. CASE s # p
    <3>1. \A d \in asked' \cup jobs' : d.session = s => d \in asked \cup jobs
          BY <1>4, <2>1, <2>2
    <3> QED BY <1>1, <2>1, <2>2, <3>1, PlainStays
  <2>3. CASE s = p
    <3>1. ends[s] # {} /\ step'[s] \in {"idle", "dead"} /\ step[s] = "open"
          BY <1>1, <2>1, <2>3 DEF Plain
    <3> QED BY <2>1, <3>1 DEF Plain
  <2> QED BY <2>2, <2>3
<1> QED BY <1>3, <1>5, <1>6, <1>7, <1>8 DEF CheckpointIInv

LEMMA CloseStep ==
    ASSUME CheckpointIInv, NEW p \in Programs, WriteInline(p) \/ \E dies \in BOOLEAN : CutInline(p, dies)
    PROVE  CheckpointIInv'
<1> USE DEF daemonVars, bounds
<1>1. CASE WriteInline(p)
  <2>1. /\ step[p] = "open" /\ WriteOver(counters[p]) /\ "idle" \in {"idle", "dead"}
        /\ step' = [step EXCEPT ![p] = "idle"] /\ asked' \in {asked, Submitted(p)}
        /\ UNCHANGED <<held, counters, unsaved, logged, jobs, work, owed, ends, plain>>
        BY <1>1 DEF WriteInline
  <2> QED BY <2>1, CloseInlineStep
<1>2. ASSUME NEW dies \in BOOLEAN, CutInline(p, dies) PROVE CheckpointIInv'
  <2> DEFINE to == IF dies THEN "dead" ELSE "idle"
  <2>1. /\ step[p] = "open" /\ WriteCut(counters[p]) /\ to \in {"idle", "dead"}
        /\ step' = [step EXCEPT ![p] = to] /\ asked' \in {asked, Submitted(p)}
        /\ UNCHANGED <<held, counters, unsaved, logged, jobs, work, owed, ends, plain>>
        BY <1>2 DEF CutInline
  <2> HIDE DEF to
  <2> QED BY <2>1, CloseInlineStep
<1> QED BY <1>1, <1>2

-----------------------------------------------------------------------------
(* The steps of the daemon *)

\* A step that leaves what the programs hold, and adds no job.
LEMMA AllPlainStay ==
    ASSUME CheckpointIInv, UNCHANGED <<held, counters, unsaved, step, logged, ends, plain>>,
           asked' \cup jobs' \subseteq asked \cup jobs
    PROVE  \A s \in plain' : Plain(s)'
<1> SUFFICES ASSUME NEW s \in plain PROVE Plain(s)'
    OBVIOUS
<1>1. Plain(s) /\ s \in Programs
      BY PlainIsOwn
<1> QED BY <1>1, PlainStays

LEMMA ProbeStep ==
    ASSUME CheckpointIInv, NEW c \in asked, Probe(c)
    PROVE  CheckpointIInv'
<1> USE DEF Probe, fileVars, bounds
<1>1. asked' \cup jobs' \subseteq asked \cup jobs
      OBVIOUS
<1>2. Opened' = Opened
      BY DEF Opened
<1>3. CheckpointShape'
  <2>1. asked' \in SUBSET Job /\ jobs' \in SUBSET Job /\ Job' = Job
        BY PartsOf DEF CheckpointShape, Job, WorkState
  <2> QED BY <2>1, PartsOf DEF CheckpointShape
<1> QED BY <1>1, <1>2, <1>3, FileSame, JobsStay, CountsStay, AllPlainStay, PartsOf DEF CheckpointIInv

\* The daemon starts, or gives a job up.
LEMMA DaemonIdles ==
    ASSUME CheckpointIInv, DaemonUp \/ JobGivesUp
    PROVE  CheckpointIInv'
<1> USE DEF DaemonUp, JobGivesUp, fileVars, programVars
<1>1. work.at \in {"down", "loaded"} /\ work' = NoWork /\ work'.at = "idle"
      BY NoWorkIs
<1>2. Opened' = Opened
      BY <1>1 DEF Opened
<1>3. CheckpointShape'
  <2>1. work' \in WorkState
        BY <1>1, NoWorkIs
  <2> QED BY <1>1, <2>1, PartsOf DEF CheckpointShape, Job, WorkState
<1>4. JobsFit' /\ SameCounts'
      BY <1>1, PartsOf DEF JobsFit, JobSeesItsTurn, SameCounts
<1>5. FileFits' /\ \A s \in plain' : Plain(s)'
      BY <1>2, FileSame, AllPlainStay, PartsOf
<1> QED BY <1>3, <1>4, <1>5 DEF CheckpointIInv

LEMMA LoadSessionStep ==
    ASSUME CheckpointIInv, NEW c \in jobs, LoadSession(c)
    PROVE  CheckpointIInv'
<1> USE DEF LoadSession, fileVars, programVars
<1> DEFINE between == \E p \in Programs : held[p] = c.session /\ step[p] = "saving"
           count == Counted(logged[c.session])
<1>1. c.session \in Programs /\ c.owed \in Nat
      BY PartsOf DEF CheckpointShape, Job, WorkState
<1>2. count \in Counts /\ count.turns = logged[c.session].users /\ between \in BOOLEAN
      BY <1>1, SessionIs, PartsOf DEF Counted
<1>3. /\ work' = [at |-> "loaded", session |-> c.session, owed |-> c.owed, data |-> count, mid |-> between]
      /\ work.at = "idle"
      OBVIOUS
<1>4. /\ work'.at = "loaded" /\ work'.session = c.session /\ work'.owed = c.owed
      /\ work'.data = count /\ work'.mid = between
      /\ work' \in WorkState
  <2> HIDE DEF between, count, LoadSession, fileVars, programVars
  <2>1. /\ work'.at = "loaded" /\ work'.session = c.session /\ work'.owed = c.owed
        /\ work'.data = count /\ work'.mid = between
        BY <1>3
  <2>2. work' \in WorkState
        BY <1>1, <1>2, <1>3 DEF WorkState
  <2> QED BY <2>1, <2>2
<1>5. asked' \cup jobs' \subseteq asked \cup jobs
      OBVIOUS
<1>6. Opened' = Opened
      BY <1>3, <1>4 DEF Opened
<1>7. CheckpointShape'
  <2>1. jobs' \in SUBSET Job /\ Job' = Job
        BY PartsOf DEF CheckpointShape, Job, WorkState
  <2> QED BY <1>1, <1>4, <2>1, PartsOf DEF CheckpointShape
<1>8. JobsFit'
  <2>1. c.owed <= logged[c.session].users
        BY PartsOf DEF JobsFit
  <2>2. JobSeesItsTurn'
    <3>1. logged[c.session].users \in Nat
          BY <1>1, SessionIs, PartsOf
    <3> HIDE DEF between, count
    <3> QED BY <1>2, <1>4, <2>1, <3>1 DEF JobSeesItsTurn
  <2> QED BY <1>5, <2>2, PartsOf DEF JobsFit
<1>9. SameCounts'
  <2> SUFFICES ASSUME ~between, c.session \in plain PROVE count \in ends[c.session]
    <3> HIDE DEF between, count
    <3> QED BY <1>4 DEF SameCounts
  <2>1. Plain(c.session) /\ held[c.session] = c.session
        BY <1>1, PlainIsOwn
  <2>2. step[c.session] # "saving"
        BY <1>1, <2>1
  <2> QED BY <2>1, <2>2 DEF Plain
<1>10. FileFits' /\ \A s \in plain' : Plain(s)'
      BY <1>5, <1>6, FileSame, AllPlainStay, PartsOf
<1> QED BY <1>7, <1>8, <1>9, <1>10 DEF CheckpointIInv

LEMMA OpenByJobStep ==
    ASSUME CheckpointIInv, OpenByJob
    PROVE  CheckpointIInv'
<1> USE DEF OpenByJob, programVars
<1>1. /\ work.at = "loaded" /\ work'.at = "open" /\ work'.session = work.session
      /\ work'.owed = work.owed /\ work'.data = work.data /\ work'.mid = work.mid
      /\ work' \in WorkState
      BY PartsOf DEF CheckpointShape, WorkState
<1>2. "daemon" \notin Opened /\ Opened' = Opened \cup {"daemon"}
      BY <1>1, CheckpointAssumption DEF Opened
<1>3. /\ FileFits' /\ checkpoint' \in Seq([data : Counts, whole : BOOLEAN])
      /\ last' = last /\ alone' \in BOOLEAN
  <2>1. checkpoint \in Seq([data : Counts, whole : BOOLEAN])
        BY PartsOf DEF CheckpointShape
  <2> QED BY <1>2, <2>1, FileOpened, PartsOf
<1>4. CheckpointShape'
      BY <1>1, <1>3, PartsOf DEF CheckpointShape, Job, WorkState
<1>5. JobsFit' /\ SameCounts'
      BY <1>1, PartsOf DEF JobsFit, JobSeesItsTurn, SameCounts
<1> QED BY <1>3, <1>4, <1>5, AllPlainStay DEF CheckpointIInv

LEMMA CloseByJobStep ==
    ASSUME CheckpointIInv, WriteByJob \/ \E dies \in BOOLEAN : CutByJob(dies)
    PROVE  CheckpointIInv'
<1> USE DEF WriteByJob, CutByJob, programVars
<1>1. /\ work.at = "open" /\ (WriteOver(work.data) \/ WriteCut(work.data))
      /\ work' \in {NoWork, Down} /\ jobs' \subseteq jobs /\ UNCHANGED <<programVars>>
  <2>1. CASE WriteByJob
        BY <2>1
  <2>2. ASSUME NEW dies \in BOOLEAN, CutByJob(dies)
        PROVE  /\ work.at = "open" /\ (WriteOver(work.data) \/ WriteCut(work.data))
               /\ work' \in {NoWork, Down} /\ jobs' \subseteq jobs /\ UNCHANGED <<programVars>>
        BY <2>2
  <2> QED BY <2>1, <2>2
<1> HIDE DEF WriteByJob, CutByJob
<1>2. work'.at \in {"idle", "down"}
      /\ work' \in WorkState
      BY <1>1, NoWorkIs
<1>3. "daemon" \in Opened /\ Opened' = Opened \ {"daemon"}
      BY <1>1, <1>2, CheckpointAssumption DEF Opened
<1>4. /\ FileFits' /\ checkpoint' \in Seq([data : Counts, whole : BOOLEAN])
      /\ last' \in Counts /\ alone' \in BOOLEAN
  <2>1. /\ checkpoint \in Seq([data : Counts, whole : BOOLEAN]) /\ last \in Counts /\ alone \in BOOLEAN
        /\ work.data \in Counts
        BY PartsOf DEF CheckpointShape, WorkState
  <2> QED BY <1>1, <1>3, <2>1, FileClosed, PartsOf
<1>5. CheckpointShape'
  <2>1. jobs' \in SUBSET Job /\ Job' = Job
        BY <1>1, PartsOf DEF CheckpointShape, Job, WorkState
  <2> QED BY <1>1, <1>2, <1>4, <2>1, PartsOf DEF CheckpointShape
<1>6. JobsFit' /\ SameCounts'
      BY <1>1, <1>2, PartsOf DEF JobsFit, JobSeesItsTurn, SameCounts
<1>7. \A s \in plain' : Plain(s)'
      BY <1>1, AllPlainStay
<1> QED BY <1>4, <1>5, <1>6, <1>7 DEF CheckpointIInv

LEMMA CheckpointStep == CheckpointIInv /\ [CheckpointNext]_checkpointVars => CheckpointIInv'
<1> SUFFICES ASSUME CheckpointIInv, [CheckpointNext]_checkpointVars PROVE CheckpointIInv'
    OBVIOUS
<1>1. CASE UNCHANGED checkpointVars
  <2> USE <1>1 DEF checkpointVars
  <2>1. Opened' = Opened /\ UNCHANGED fileVars
        BY DEF Opened, fileVars
  <2>2. CheckpointShape' /\ JobsFit' /\ SameCounts'
        BY PartsOf DEF CheckpointShape, Job, JobsFit, JobSeesItsTurn, SameCounts
  <2> QED BY <2>1, <2>2, FileSame, AllPlainStay, PartsOf DEF CheckpointIInv
<1>2. ASSUME NEW p \in Programs,
             \/ BeginTurn(p) \/ ExtraEntry(p) \/ SavePrompts(p) \/ SaveCalls(p) \/ SaveFails(p)
             \/ OpenInline(p) \/ WriteInline(p)
             \/ \E kept \in BOOLEAN : UseTool(p, kept)
             \/ \E s \in Programs : ResetCounters(p, s)
             \/ \E dies \in BOOLEAN : CutInline(p, dies)
      PROVE  CheckpointIInv'
      BY <1>2, BeginTurnStep, ExtraEntryStep, SavePromptsStep, SaveCallsStep, SaveFailsStep,
         OpenInlineStep, CloseStep, UseToolStep, ResetCountersStep
<1>3. CASE \/ \E c \in asked : Probe(c)
           \/ \E c \in jobs : LoadSession(c)
           \/ DaemonUp \/ JobGivesUp \/ OpenByJob \/ WriteByJob
           \/ \E dies \in BOOLEAN : CutByJob(dies)
      BY <1>3, ProbeStep, LoadSessionStep, DaemonIdles, OpenByJobStep, CloseByJobStep
<1> QED BY <1>1, <1>2, <1>3 DEF CheckpointNext

\* However many programs share a directory, with their turns, resets, failures and deaths, and
\* whenever the daemon reads: a writer that is alone leaves the checkpoint whole, a job counts the
\* turn that asked for it, and what it counts is what a turn came to.
THEOREM CheckpointsHold == CheckpointSpec => []CheckpointHolds
<1>1. CheckpointIInv => CheckpointHolds
  <2> SUFFICES ASSUME CheckpointIInv PROVE CheckpointHolds
      OBVIOUS
  <2>1. CheckpointTypeOK
    <3>1. \A c \in asked \cup jobs : c.session \in Programs
          BY PartsOf DEF CheckpointShape, Job, WorkState
    <3> QED BY <3>1, PartsOf DEF CheckpointTypeOK, CheckpointShape, WorkState, FileFits
  <2>2. WriteHeals /\ JobSeesItsTurn /\ SameCounts
        BY PartsOf DEF FileFits, JobsFit, WriteHeals
  <2> QED BY <2>1, <2>2 DEF CheckpointHolds
<1> QED BY <1>1, CheckpointInitInv, CheckpointStep, PTL DEF CheckpointSpec

-----------------------------------------------------------------------------
(* The clean-up (StaleCleanup) *)

Files == 1 .. Len(content)
Pcs == {"none", "next", "stale", "move", "copying", "copied"}

CleanupShape ==
    /\ written \in Nat /\ content \in Seq(SUBSET (1 .. written))
    /\ \A id \in 1 .. written : \E f \in Files : id \in content[f]
    /\ dir \in [Names -> 0 .. Len(content)] /\ archive \in [Names -> 0 .. Len(content)]
    /\ fd \in [Names -> 0 .. Len(content)] /\ aged \in SUBSET Files
    /\ sweep \in [pc : Pcs, left : Seq(Names), copy : 0 .. Len(content)]

\* A file has one name, in one directory.
OneName ==
    /\ \A n, m \in Names : dir[n] # 0 /\ dir[n] = dir[m] => n = m
    /\ \A n, m \in Names : dir[n] # 0 => dir[n] # archive[m]

\* The run stands at a file, or between two; when it moves a file its target is free; its copy is
\* its own, empty until it holds what the file held when it was copied.
SweepFits ==
    /\ sweep.pc \notin {"none", "next"} => sweep.left # <<>> /\ dir[Here] # 0
    /\ sweep.pc = "move" => archive[Here] = 0
    /\ sweep.pc \in {"copying", "copied"} <=> sweep.copy # 0
    /\ sweep.copy # 0 =>
        /\ archive[Here] = sweep.copy
        /\ \A n \in Names : dir[n] # sweep.copy /\ fd[n] # sweep.copy
        /\ \A n \in Names : archive[n] = sweep.copy => n = Here
    /\ sweep.pc = "copying" => content[sweep.copy] = {}
    /\ sweep.pc = "copied" => content[dir[Here]] \ raced \subseteq content[sweep.copy]

CleanupIInv == CleanupShape /\ OneName /\ SweepFits /\ EntryIsSomewhere /\ OnePlace

\* What contents c hold at f, a file or none.
At(c, f) == IF f = 0 THEN {} ELSE c[f]

LEMMA PlacesAre == \A n \in Names : Active(n) = At(content, dir[n]) /\ Archived(n) = At(content, archive[n])
BY DEF Active, Archived, In, At

LEMMA CleanupParts ==
    ASSUME CleanupIInv
    PROVE  CleanupShape /\ OneName /\ SweepFits /\ EntryIsSomewhere /\ OnePlace
BY DEF CleanupIInv

LEMMA CleanupFacts ==
    ASSUME CleanupShape
    PROVE  /\ written \in Nat /\ Len(content) \in Nat /\ content \in [Files -> SUBSET (1 .. written)]
           /\ \A n \in Names : /\ dir[n] \in 0 .. Len(content) /\ archive[n] \in 0 .. Len(content)
                               /\ fd[n] \in 0 .. Len(content)
                               /\ dir[n] # 0 => dir[n] \in Files
                               /\ archive[n] # 0 => archive[n] \in Files
                               /\ fd[n] # 0 => fd[n] \in Files
           /\ sweep.pc \in Pcs /\ sweep.left \in Seq(Names) /\ sweep.copy \in 0 .. Len(content)
           /\ sweep.copy # 0 => sweep.copy \in Files
           /\ sweep.left # <<>> => Here \in Names
<1>1. Len(content) \in Nat /\ content \in [Files -> SUBSET (1 .. written)]
      BY LenProperties DEF CleanupShape, Files
<1>2. sweep.left # <<>> => Here \in Names
  <2>1. sweep.left \in Seq(Names)
        BY DEF CleanupShape
  <2>2. Len(sweep.left) \in Nat /\ (sweep.left # <<>> => 1 \in 1 .. Len(sweep.left))
        BY <2>1, EmptySeq, LenProperties
  <2> QED BY <2>1, <2>2, ElementOfSeq DEF Here
<1>3. \A k \in 0 .. Len(content) : k # 0 => k \in Files
      BY <1>1 DEF Files
<1> QED BY <1>1, <1>2, <1>3 DEF CleanupShape

LEMMA SkippedIs ==
    ASSUME CleanupShape, sweep.left # <<>>
    PROVE  /\ Skipped \in [pc : Pcs, left : Seq(Names), copy : 0 .. Len(content)]
           /\ Skipped.pc = "next" /\ Skipped.copy = 0
<1>1. Tail(sweep.left) \in Seq(Names)
      BY HeadTailProperties DEF CleanupShape
<1>2. 0 \in 0 .. Len(content) /\ "next" \in Pcs
      BY CleanupFacts DEF Pcs
<1> QED BY <1>1, <1>2 DEF Skipped, CleanupShape

LEMMA NoSweepIs ==
    ASSUME CleanupShape
    PROVE  /\ NoSweep \in [pc : Pcs, left : Seq(Names), copy : 0 .. Len(content)]
           /\ NoSweep.pc = "none" /\ NoSweep.copy = 0
<1>1. <<>> \in Seq(Names) /\ 0 \in 0 .. Len(content) /\ "none" \in Pcs
      BY CleanupFacts, EmptySeq DEF Pcs
<1> QED BY <1>1 DEF NoSweep

\* A run between two files is nowhere.
LEMMA BetweenFiles ==
    ASSUME sweep'.pc \in {"none", "next"}, sweep'.copy = 0
    PROVE  SweepFits'
BY DEF SweepFits

\* A step of the run that touches no file.
LEMMA SweepMoves ==
    ASSUME CleanupIInv, UNCHANGED <<dir, archive, content, fd, written, raced>>,
           aged' \in SUBSET Files, halted \subseteq halted',
           sweep' \in [pc : Pcs, left : Seq(Names), copy : 0 .. Len(content)], SweepFits',
           sweep.pc = "copied" => Here \in halted'
    PROVE  CleanupIInv'
<1>1. CleanupShape' /\ OneName'
      BY CleanupParts DEF CleanupShape, OneName, Files, Pcs
<1>2. EntryIsSomewhere'
      BY CleanupParts DEF EntryIsSomewhere, Active, Archived, In
<1>3. OnePlace'
      BY CleanupParts DEF OnePlace, Active, Archived, In
<1> QED BY <1>1, <1>2, <1>3 DEF CleanupIInv

LEMMA AgeStep ==
    ASSUME CleanupIInv, NEW f \in DOMAIN content, Age(f)
    PROVE  CleanupIInv'
<1> USE DEF Age
<1>1. aged' \in SUBSET Files
  <2>1. DOMAIN content = Files /\ aged \in SUBSET Files
        BY CleanupParts, CleanupFacts DEF CleanupShape
  <2> QED BY <2>1
<1>2. CleanupShape' /\ OneName' /\ SweepFits'
      BY <1>1, CleanupParts DEF CleanupShape, OneName, SweepFits, Files, Pcs, Here
<1>3. EntryIsSomewhere' /\ OnePlace'
      BY CleanupParts DEF EntryIsSomewhere, OnePlace, Active, Archived, In, Here
<1> QED BY <1>2, <1>3 DEF CleanupIInv

LEMMA ListNamesStep ==
    ASSUME CleanupIInv, ListNames
    PROVE  CleanupIInv'
<1> USE DEF ListNames
<1> DEFINE S == {n \in Names : dir[n] # 0}
<1>1. PICK found \in SetToSeqs(S) : sweep' = [NoSweep EXCEPT !.pc = "next", !.left = found]
      OBVIOUS
<1>2. found \in Seq(Names)
  <2>1. S \in SUBSET Names /\ IsFiniteSet(S)
    <3>1. CASE S = {}
          BY <3>1, FS_EmptySet
    <3>2. \A n, m \in S : dir[n] = dir[m] => n = m
          BY CleanupParts DEF OneName
    <3>3. [n \in S |-> dir[n]] \in Injection(S, Files)
      <4>1. \A n \in S : dir[n] \in Files
            BY CleanupParts, CleanupFacts
      <4> HIDE DEF S
      <4> QED BY <3>2, <4>1 DEF Injection, IsInjective
    <3>4. IsFiniteSet(Files)
          BY CleanupParts, CleanupFacts, FS_Interval, 1 \in Int, Len(content) \in Int DEF Files
    <3> QED BY <3>3, <3>4, FS_Injection
  <2>2. found \in [1 .. Cardinality(S) -> Names]
    <3> HIDE DEF S
    <3> QED BY <2>1 DEF SetToSeqs
  <2>3. Cardinality(S) \in Nat
        BY <2>1, FS_CardinalityType
  <2> HIDE DEF S
  <2> QED BY <2>2, <2>3, SeqDef
<1>3. sweep' \in [pc : Pcs, left : Seq(Names), copy : 0 .. Len(content)]
      /\ sweep'.pc = "next" /\ sweep'.copy = 0
  <2>1. 0 \in 0 .. Len(content) /\ "next" \in Pcs
        BY CleanupParts, CleanupFacts DEF Pcs
  <2> QED BY <1>1, <1>2, <2>1 DEF NoSweep
<1>4. sweep.pc = "none" /\ aged' \in SUBSET Files
      BY CleanupParts DEF NoSweep, CleanupShape
<1> QED BY <1>3, <1>4, BetweenFiles, SweepMoves

LEMMA StatStep ==
    ASSUME CleanupIInv, StatSource \/ StatTarget
    PROVE  CleanupIInv'
<1> USE DEF StatSource, StatTarget
<1>1. sweep.pc \in {"next", "stale"} /\ sweep.left # <<>> /\ aged' \in SUBSET Files /\ sweep.copy = 0
      BY CleanupParts DEF SweepFits, CleanupShape
<1>2. CASE sweep' = Skipped
      BY <1>1, <1>2, CleanupParts, SkippedIs, BetweenFiles, SweepMoves
<1>3. CASE sweep' # Skipped
  <2>1. PICK to \in {"stale", "move"} : sweep' = [sweep EXCEPT !.pc = to]
                                        /\ (to = "stale" => dir[Here] \in aged)
                                        /\ (to = "move" => archive[Here] = 0 /\ sweep.pc = "stale")
        BY <1>3
  <2>2. /\ sweep' \in [pc : Pcs, left : Seq(Names), copy : 0 .. Len(content)]
        /\ sweep'.pc = to /\ sweep'.left = sweep.left /\ sweep'.copy = 0
        BY <1>1, <2>1, CleanupParts DEF CleanupShape, Pcs
  <2>3. dir[Here] # 0
    <3>1. 0 \notin aged
          BY CleanupParts, CleanupFacts DEF CleanupShape, Files
    <3> QED BY <2>1, <3>1, CleanupParts DEF SweepFits
  <2>4. SweepFits'
        BY <1>1, <2>1, <2>2, <2>3 DEF SweepFits, Here
  <2> QED BY <1>1, <2>2, <2>4, SweepMoves
<1> QED BY <1>2, <1>3

LEMMA StopStep ==
    ASSUME CleanupIInv, EndSweep \/ Halt
    PROVE  CleanupIInv'
<1>1. /\ sweep' = NoSweep /\ aged' \in SUBSET Files /\ halted \subseteq halted'
      /\ UNCHANGED <<dir, archive, content, fd, written, raced>>
      BY CleanupParts DEF EndSweep, Halt, CleanupShape
<1>2. sweep.pc = "copied" => Here \in halted'
      BY CleanupParts DEF EndSweep, Halt, SweepFits
<1> QED BY <1>1, <1>2, CleanupParts, NoSweepIs, BetweenFiles, SweepMoves

-----------------------------------------------------------------------------
(* Steps that touch files *)

\* A new file is empty, and no other is changed by it.
LEMMA NewFile ==
    ASSUME CleanupShape, content' = Append(content, {}), written' = written, NEW k, k = Len(content) + 1
    PROVE  /\ content' \in Seq(SUBSET (1 .. written)) /\ Len(content') = k /\ Files' = Files \cup {k}
           /\ \A f \in Files : content'[f] = content[f]
           /\ content'[k] = {}
           /\ \A f \in 0 .. Len(content) : f # k /\ f \in 0 .. Len(content')
                                           /\ At(content', f) = At(content, f)
           /\ k \in Files' /\ k # 0 /\ k \in 0 .. Len(content')
           /\ \A id \in 1 .. written : \E f \in Files' : id \in content'[f]
<1>1. Len(content) \in Nat /\ {} \in SUBSET (1 .. written) /\ content \in Seq(SUBSET (1 .. written))
      BY CleanupFacts DEF CleanupShape
<1>2. /\ content' \in Seq(SUBSET (1 .. written)) /\ Len(content') = k
      /\ \A f \in 1 .. Len(content) : content'[f] = content[f]
      /\ content'[k] = {}
      BY <1>1, AppendProperties
<1>3. Files' = Files \cup {k} /\ k \in Files' /\ k # 0 /\ k \in 0 .. Len(content')
      BY <1>1, <1>2 DEF Files
<1>4. \A f \in 0 .. Len(content) : f # k /\ f \in 0 .. Len(content') /\ (f # 0 => f \in 1 .. Len(content))
      BY <1>1, <1>2
<1>5. \A f \in 0 .. Len(content) : At(content', f) = At(content, f)
      BY <1>2, <1>4 DEF At
<1>6. \A id \in 1 .. written : \E f \in Files' : id \in content'[f]
      BY <1>2, <1>3 DEF CleanupShape, Files
<1> QED BY <1>2, <1>3, <1>4, <1>5, <1>6 DEF Files

\* The entries of a name, after a step.
LEMMA PlacesNext ==
    \A n \in Names : Active(n)' = At(content', dir'[n]) /\ Archived(n)' = At(content', archive'[n])
BY DEF Active, Archived, In, At

LEMMA OpenStep ==
    ASSUME CleanupIInv, NEW n \in Names, Open(n)
    PROVE  CleanupIInv'
<1> USE DEF Open
<1>1. CASE dir[n] # 0
  <2>1. /\ fd' = [fd EXCEPT ![n] = dir[n]]
        /\ UNCHANGED <<dir, content, archive, aged, sweep, written, raced, halted>>
        BY <1>1
  <2>2. fd' \in [Names -> 0 .. Len(content)]
        BY <2>1, CleanupParts, CleanupFacts DEF CleanupShape
  <2>3. CleanupShape' /\ OneName'
        BY <2>1, <2>2, CleanupParts DEF CleanupShape, OneName, Files, Pcs
  <2>4. SweepFits'
        BY <2>1, CleanupParts DEF SweepFits, CleanupShape, Here
  <2>5. EntryIsSomewhere' /\ OnePlace'
        BY <2>1, CleanupParts DEF EntryIsSomewhere, OnePlace, Active, Archived, In, Here
  <2> QED BY <2>3, <2>4, <2>5 DEF CleanupIInv
<1>2. CASE dir[n] = 0
  <2> DEFINE k == Len(content) + 1
  <2>1. /\ content' = Append(content, {}) /\ dir' = [dir EXCEPT ![n] = k] /\ fd' = [fd EXCEPT ![n] = k]
        /\ UNCHANGED <<archive, aged, sweep, written, raced, halted>>
        BY <1>2
  <2> HIDE DEF Open
  <2>2. /\ content' \in Seq(SUBSET (1 .. written)) /\ Files' = Files \cup {k}
        /\ \A f \in Files : content'[f] = content[f]
        /\ content'[k] = {}
        /\ \A f \in 0 .. Len(content) : f # k /\ f \in 0 .. Len(content')
                                        /\ At(content', f) = At(content, f)
        /\ k \in Files' /\ k # 0 /\ k \in 0 .. Len(content')
        /\ \A id \in 1 .. written : \E f \in Files' : id \in content'[f]
        BY <2>1, CleanupParts, NewFile
  <2> HIDE DEF k
  <2>3. /\ dir \in [Names -> 0 .. Len(content)] /\ archive \in [Names -> 0 .. Len(content)]
        /\ fd \in [Names -> 0 .. Len(content)] /\ sweep.copy \in 0 .. Len(content)
        BY CleanupParts DEF CleanupShape
  <2>4. /\ dir'[n] = k /\ fd'[n] = k
        /\ \A m \in Names : m # n => dir'[m] = dir[m] /\ fd'[m] = fd[m]
        BY <2>1, <2>3
  <2>5. CleanupShape'
    <3>1. /\ dir' \in [Names -> 0 .. Len(content')] /\ archive' \in [Names -> 0 .. Len(content')]
          /\ fd' \in [Names -> 0 .. Len(content')]
          BY <2>1, <2>2, <2>3
    <3>2. sweep' \in [pc : Pcs, left : Seq(Names), copy : 0 .. Len(content')]
          BY <2>1, <2>2, CleanupParts DEF CleanupShape
    <3>3. aged' \in SUBSET Files'
          BY <2>1, <2>2, CleanupParts DEF CleanupShape
    <3>4. Pcs' = Pcs
          BY DEF Pcs
    <3> QED BY <2>1, <2>2, <3>1, <3>2, <3>3, <3>4, CleanupParts DEF CleanupShape
  <2>6. OneName'
    <3>1. \A m \in Names : dir[m] # k /\ archive[m] # k
          BY <2>2, <2>3
    <3> QED BY <2>1, <2>4, <3>1, CleanupParts DEF OneName
  <2>7. SweepFits'
    <3>1. sweep.copy # k /\ (sweep.copy # 0 => content'[sweep.copy] = content[sweep.copy])
          BY <2>2, <2>3, CleanupParts, CleanupFacts
    <3>2. sweep.pc \notin {"none", "next"} => /\ Here \in Names /\ Here # n /\ dir'[Here] = dir[Here]
                                             /\ content'[dir[Here]] = content[dir[Here]]
          BY <1>2, <2>2, <2>4, CleanupParts, CleanupFacts DEF SweepFits
    <3>3. Here' = Here
          BY <2>1 DEF Here
    <3> QED BY <2>1, <2>4, <3>1, <3>2, <3>3, CleanupParts DEF SweepFits
  <2>8. \A m \in Names : Active(m)' = Active(m) /\ Archived(m)' = Archived(m)
    <3>1. At(content', k) = {} /\ Active(n) = {}
          BY <1>2, <2>2 DEF At, Active, In
    <3>2. \A m \in Names : archive'[m] = archive[m] /\ At(content', archive[m]) = At(content, archive[m])
                            /\ At(content', dir[m]) = At(content, dir[m])
          BY <2>1, <2>2, <2>3
    <3>3. \A m \in Names : Archived(m)' = Archived(m)
          BY <3>2, PlacesAre, PlacesNext
    <3>4. \A m \in Names : m # n => Active(m)' = Active(m)
          BY <2>4, <3>2, PlacesAre, PlacesNext
    <3>5. Active(n)' = {}
          BY <2>4, <3>1, PlacesNext
    <3> QED BY <3>1, <3>3, <3>4, <3>5
  <2>9. EntryIsSomewhere' /\ OnePlace'
        BY <2>1, <2>8, CleanupParts DEF EntryIsSomewhere, OnePlace, Here
  <2> QED BY <2>5, <2>6, <2>7, <2>9 DEF CleanupIInv
<1> QED BY <1>1, <1>2

LEMMA CopyOpenStep ==
    ASSUME CleanupIInv, CopyOpen
    PROVE  CleanupIInv'
<1> DEFINE k == Len(content) + 1
<1>1. /\ content' = Append(content, {}) /\ archive' = [archive EXCEPT ![Here] = k]
      /\ sweep' = [sweep EXCEPT !.pc = "copying", !.copy = k] /\ sweep.pc = "move"
      /\ UNCHANGED <<dir, fd, aged, written, raced, halted>>
      BY DEF CopyOpen
<1>2. /\ content' \in Seq(SUBSET (1 .. written)) /\ Files' = Files \cup {k}
      /\ content'[k] = {}
      /\ \A f \in 0 .. Len(content) : f # k /\ f \in 0 .. Len(content')
                                      /\ At(content', f) = At(content, f)
      /\ k \in Files' /\ k # 0 /\ k \in 0 .. Len(content')
      /\ \A id \in 1 .. written : \E f \in Files' : id \in content'[f]
      BY <1>1, CleanupParts, NewFile
<1> HIDE DEF k
<1>3. /\ dir \in [Names -> 0 .. Len(content)] /\ archive \in [Names -> 0 .. Len(content)]
      /\ fd \in [Names -> 0 .. Len(content)]
      BY CleanupParts DEF CleanupShape
<1>4. sweep.left # <<>> /\ Here \in Names /\ dir[Here] # 0 /\ archive[Here] = 0
      BY <1>1, CleanupParts, CleanupFacts DEF SweepFits
<1>5. /\ archive'[Here] = k /\ \A m \in Names : m # Here => archive'[m] = archive[m]
      BY <1>1, <1>3, <1>4
<1>6. /\ sweep'.pc = "copying" /\ sweep'.copy = k /\ Here' = Here /\ sweep'.left = sweep.left
      /\ sweep' \in [pc : Pcs, left : Seq(Names), copy : 0 .. Len(content')]
      BY <1>1, <1>2, CleanupParts DEF CleanupShape, Here, Pcs
<1>7. CleanupShape'
  <2>1. /\ dir' \in [Names -> 0 .. Len(content')] /\ archive' \in [Names -> 0 .. Len(content')]
        /\ fd' \in [Names -> 0 .. Len(content')]
        BY <1>1, <1>2, <1>3
  <2>2. aged' \in SUBSET Files' /\ Pcs' = Pcs
        BY <1>1, <1>2, CleanupParts DEF CleanupShape, Pcs
  <2> QED BY <1>1, <1>2, <1>6, <2>1, <2>2, CleanupParts DEF CleanupShape
<1>8. \A m \in Names : dir[m] # k /\ fd[m] # k /\ archive[m] # k
      BY <1>2, <1>3
<1>9. OneName'
      BY <1>1, <1>5, <1>8, CleanupParts DEF OneName
<1>10. SweepFits'
      BY <1>1, <1>2, <1>4, <1>5, <1>6, <1>8 DEF SweepFits
<1>11. \A m \in Names : Active(m)' = Active(m) /\ Archived(m)' = Archived(m)
  <2>1. At(content', k) = {} /\ Archived(Here) = {}
        BY <1>2, <1>4 DEF At, Archived, In
  <2> QED BY <1>1, <1>2, <1>3, <1>5, <2>1, PlacesAre, PlacesNext
<1>12. EntryIsSomewhere'
      BY <1>1, <1>11, CleanupParts DEF EntryIsSomewhere
<1>13. OnePlace'
      BY <1>1, <1>11, CleanupParts DEF OnePlace
<1> QED BY <1>7, <1>9, <1>10, <1>12, <1>13 DEF CleanupIInv

LEMMA RenameFileStep ==
    ASSUME CleanupIInv, RenameFile
    PROVE  CleanupIInv'
<1> PICK h : h = Here
    OBVIOUS
<1>1. /\ archive' = [archive EXCEPT ![h] = dir[h]] /\ dir' = [dir EXCEPT ![h] = 0]
      /\ sweep' = Skipped /\ sweep.pc = "move"
      /\ UNCHANGED <<content, fd, aged, written, raced, halted>>
      BY DEF RenameFile
<1>2. sweep.left # <<>> /\ h \in Names /\ dir[h] # 0 /\ archive[h] = 0
      BY <1>1, CleanupParts, CleanupFacts DEF SweepFits
<1>3. dir \in [Names -> 0 .. Len(content)] /\ archive \in [Names -> 0 .. Len(content)]
      BY CleanupParts DEF CleanupShape
<1>4. /\ archive'[h] = dir[h] /\ dir'[h] = 0
      /\ \A m \in Names : m # h => archive'[m] = archive[m] /\ dir'[m] = dir[m]
      BY <1>1, <1>2, <1>3
<1>5. CleanupShape'
  <2>1. sweep' \in [pc : Pcs, left : Seq(Names), copy : 0 .. Len(content)]
        BY <1>1, <1>2, CleanupParts, SkippedIs
  <2>2. dir' \in [Names -> 0 .. Len(content)] /\ archive' \in [Names -> 0 .. Len(content)]
    <3>1. 0 \in 0 .. Len(content)
          BY CleanupParts, CleanupFacts
    <3> QED BY <1>1, <1>2, <1>3, <3>1
  <2> QED BY <1>1, <2>1, <2>2, CleanupParts DEF CleanupShape, Files, Pcs
<1>6. OneName'
      BY <1>2, <1>4, CleanupParts DEF OneName
<1>7. SweepFits'
      BY <1>1, <1>2, CleanupParts, SkippedIs, BetweenFiles
<1>8. /\ Archived(h)' = Active(h) /\ Archived(h) = {} /\ Active(h)' = {}
      /\ \A m \in Names : m # h => Active(m)' = Active(m) /\ Archived(m)' = Archived(m)
  <2>1. At(content', 0) = {} /\ At(content, 0) = {}
        BY DEF At
  <2> QED BY <1>1, <1>2, <1>4, <2>1, PlacesAre, PlacesNext
<1>9. EntryIsSomewhere'
  <2>1. ASSUME NEW id \in 1 .. written \ raced PROVE \E n \in Names : id \in Active(n)' \cup Archived(n)'
    <3>1. PICK n \in Names : id \in Active(n) \cup Archived(n)
          BY CleanupParts DEF EntryIsSomewhere
    <3> QED BY <1>2, <1>8, <3>1
  <2> QED BY <1>1, <2>1 DEF EntryIsSomewhere
<1>10. OnePlace'
  <2>1. ASSUME NEW n \in Names, Active(n)' \cap Archived(n)' # {} PROVE n \in halted
    <3>1. n # h /\ Active(n) \cap Archived(n) # {}
          BY <1>8, <2>1
    <3> QED BY <1>1, <3>1, CleanupParts DEF OnePlace
  <2> QED BY <1>1, <2>1 DEF OnePlace
<1> QED BY <1>5, <1>6, <1>7, <1>9, <1>10 DEF CleanupIInv

\* The copy is given up, or the file that was copied is removed.
LEMMA CopyEndStep ==
    ASSUME CleanupIInv, CopyFails \/ RemoveSource
    PROVE  CleanupIInv'
<1> PICK h : h = Here
    OBVIOUS
<1>1. sweep.pc \in {"copying", "copied"} /\ UNCHANGED <<content, fd, aged, written, raced, halted>>
      BY DEF CopyFails, RemoveSource
<1>2. /\ sweep.left # <<>> /\ h \in Names /\ dir[h] # 0 /\ sweep.copy # 0 /\ archive[h] = sweep.copy
      /\ sweep.copy \in Files
      BY <1>1, CleanupParts, CleanupFacts DEF SweepFits
<1>3. dir \in [Names -> 0 .. Len(content)] /\ archive \in [Names -> 0 .. Len(content)]
      BY CleanupParts DEF CleanupShape
<1>4. \/ /\ sweep.pc = "copying" /\ archive' = [archive EXCEPT ![h] = 0] /\ dir' = dir /\ sweep' = NoSweep
      \/ /\ sweep.pc = "copied" /\ dir' = [dir EXCEPT ![h] = 0] /\ archive' = archive /\ sweep' = Skipped
      BY DEF CopyFails, RemoveSource
<1>5. /\ sweep' \in [pc : Pcs, left : Seq(Names), copy : 0 .. Len(content)]
      /\ sweep'.pc \in {"none", "next"} /\ sweep'.copy = 0
      BY <1>2, <1>4, CleanupParts, SkippedIs, NoSweepIs
<1>6. CleanupShape'
  <2>1. dir' \in [Names -> 0 .. Len(content)] /\ archive' \in [Names -> 0 .. Len(content)]
    <3>1. 0 \in 0 .. Len(content)
          BY CleanupParts, CleanupFacts
    <3> QED BY <1>4, <1>3, <3>1
  <2> QED BY <1>1, <1>5, <2>1, CleanupParts DEF CleanupShape, Files, Pcs
<1>7. \A n \in Names : dir'[n] \in {dir[n], 0} /\ archive'[n] \in {archive[n], 0}
                       /\ (n # h => dir'[n] = dir[n] /\ archive'[n] = archive[n])
      BY <1>3, <1>4
<1>8. OneName'
      BY <1>7, CleanupParts DEF OneName
<1>9. At(content, 0) = {} /\ \A n \in Names : n # h => Active(n)' = Active(n) /\ Archived(n)' = Archived(n)
  <2>1. At(content, 0) = {}
        BY DEF At
  <2> QED BY <1>1, <1>7, <2>1, PlacesAre, PlacesNext
<1>10. Active(h)' = {} \/ Archived(h)' = {}
      BY <1>1, <1>2, <1>3, <1>4, <1>9, PlacesNext
<1>11. Active(h) \cup Archived(h) \subseteq raced \cup Active(h)' \cup Archived(h)'
  <2>1. CASE sweep.pc = "copying"
    <3>1. Archived(h) = {}
          BY <1>2, <2>1, CleanupParts, PlacesAre DEF SweepFits, At
    <3>2. Active(h)' = Active(h)
          BY <1>1, <1>2, <1>4, <2>1, PlacesAre, PlacesNext
    <3> QED BY <3>1, <3>2
  <2>2. CASE sweep.pc = "copied"
    <3>1. content[dir[h]] \ raced \subseteq content[sweep.copy]
          BY <2>2, CleanupParts DEF SweepFits
    <3>2. Active(h) = content[dir[h]] /\ Archived(h) = content[sweep.copy]
          BY <1>2, PlacesAre DEF At
    <3>3. Archived(h)' = Archived(h)
          BY <1>1, <1>2, <1>4, <2>2, PlacesAre, PlacesNext
    <3> QED BY <3>1, <3>2, <3>3
  <2> QED BY <1>1, <2>1, <2>2
<1>12. EntryIsSomewhere'
  <2>1. ASSUME NEW id \in 1 .. written \ raced PROVE \E n \in Names : id \in Active(n)' \cup Archived(n)'
    <3>1. PICK n \in Names : id \in Active(n) \cup Archived(n)
          BY CleanupParts DEF EntryIsSomewhere
    <3> QED BY <1>2, <1>9, <1>11, <3>1
  <2> QED BY <1>1, <2>1 DEF EntryIsSomewhere
<1>13. OnePlace'
  <2>1. ASSUME NEW n \in Names, Active(n)' \cap Archived(n)' # {} PROVE n \in halted
    <3>1. n # h /\ Active(n) \cap Archived(n) # {}
          BY <1>9, <1>10, <2>1
    <3> QED BY <3>1, CleanupParts DEF OnePlace
  <2> QED BY <1>1, <2>1 DEF OnePlace
<1> QED BY <1>5, <1>6, <1>8, <1>12, <1>13, BetweenFiles DEF CleanupIInv

LEMMA CopyAllStep ==
    ASSUME CleanupIInv, CopyAll
    PROVE  CleanupIInv'
<1> PICK h : h = Here
    OBVIOUS
<1> PICK k : k = sweep.copy
    OBVIOUS
<1>1. /\ sweep.pc = "copying" /\ content' = [content EXCEPT ![k] = content[dir[h]]]
      /\ aged' = aged \cup {k} /\ sweep' = [sweep EXCEPT !.pc = "copied"]
      /\ UNCHANGED <<dir, archive, fd, written, raced, halted>>
      BY DEF CopyAll
<1>2. /\ h \in Names /\ dir[h] \in Files /\ k \in Files /\ archive[h] = k /\ k # 0 /\ dir[h] # 0
      /\ content[k] = {} /\ \A n \in Names : dir[n] # k /\ fd[n] # k /\ (archive[n] = k => n = h)
      BY <1>1, CleanupParts, CleanupFacts DEF SweepFits
<1>3. /\ content \in [Files -> SUBSET (1 .. written)] /\ content[dir[h]] \in SUBSET (1 .. written)
      /\ Len(content) \in Nat
      BY <1>2, CleanupParts, CleanupFacts
<1>4. /\ content' \in [Files -> SUBSET (1 .. written)] /\ content'[k] = content[dir[h]]
      /\ \A f \in Files : f # k => content'[f] = content[f]
      BY <1>1, <1>2, <1>3
<1>5. /\ content' \in Seq(SUBSET (1 .. written)) /\ Len(content') = Len(content) /\ Files' = Files
  <2>1. content' \in [1 .. Len(content) -> SUBSET (1 .. written)]
        BY <1>4 DEF Files
  <2>2. content' \in Seq(SUBSET (1 .. written))
        BY <1>3, <2>1, SeqDef
  <2>3. Len(content') = Len(content)
        BY <1>3, <2>1, <2>2, LenProperties
  <2> QED BY <2>2, <2>3 DEF Files
<1>6. /\ sweep'.pc = "copied" /\ sweep'.copy = k /\ sweep'.left = sweep.left /\ Here' = h
      /\ sweep' \in [pc : Pcs, left : Seq(Names), copy : 0 .. Len(content)]
      BY <1>1, CleanupParts DEF CleanupShape, Pcs, Here
<1>7. CleanupShape'
  <2>1. \A id \in 1 .. written : \E f \in Files : id \in content'[f]
    <3> SUFFICES ASSUME NEW id \in 1 .. written PROVE \E f \in Files : id \in content'[f]
        OBVIOUS
    <3>1. PICK f \in Files : id \in content[f]
          BY CleanupParts DEF CleanupShape
    <3> QED BY <1>2, <1>4, <3>1
  <2>2. aged' \in SUBSET Files
        BY <1>1, <1>2, CleanupParts DEF CleanupShape
  <2> QED BY <1>1, <1>5, <1>6, <2>1, <2>2, CleanupParts DEF CleanupShape, Pcs
<1>8. OneName'
      BY <1>1, CleanupParts DEF OneName
<1>9. SweepFits'
  <2>1. sweep.left # <<>>
        BY <1>1, CleanupParts DEF SweepFits
  <2> QED BY <1>1, <1>2, <1>4, <1>6, <2>1 DEF SweepFits
<1>10. /\ \A n \in Names : Active(n)' = Active(n) /\ (n # h => Archived(n)' = Archived(n))
       /\ Archived(h) = {}
  <2>1. \A n \in Names : dir[n] # k /\ (dir[n] # 0 => dir[n] \in Files)
                         /\ (n # h => archive[n] # k /\ (archive[n] # 0 => archive[n] \in Files))
        BY <1>2, CleanupParts, CleanupFacts
  <2>2. \A n \in Names : At(content', dir[n]) = At(content, dir[n])
                         /\ (n # h => At(content', archive[n]) = At(content, archive[n]))
        BY <1>4, <2>1 DEF At
  <2>3. Archived(h) = {}
        BY <1>2, PlacesAre DEF At
  <2> QED BY <1>1, <2>2, <2>3, PlacesAre, PlacesNext
<1>11. EntryIsSomewhere'
  <2>1. ASSUME NEW id \in 1 .. written \ raced PROVE \E n \in Names : id \in Active(n)' \cup Archived(n)'
    <3>1. PICK n \in Names : id \in Active(n) \cup Archived(n)
          BY CleanupParts DEF EntryIsSomewhere
    <3> QED BY <1>10, <3>1
  <2> QED BY <1>1, <2>1 DEF EntryIsSomewhere
<1>12. OnePlace'
  <2>1. ASSUME NEW n \in Names, Active(n)' \cap Archived(n)' # {}, n # h PROVE n \in halted
    <3>1. Active(n) \cap Archived(n) # {}
          BY <1>10, <2>1
    <3> QED BY <1>1, <3>1, CleanupParts DEF OnePlace
  <2> QED BY <1>1, <1>6, <2>1 DEF OnePlace
<1> QED BY <1>7, <1>8, <1>9, <1>11, <1>12 DEF CleanupIInv

LEMMA WriteStep ==
    ASSUME CleanupIInv, NEW n \in Names, Write(n)
    PROVE  CleanupIInv'
<1> PICK f : f = fd[n]
    OBVIOUS
<1> PICK new : new = written + 1
    OBVIOUS
<1>1. /\ f # 0 /\ written' = new /\ content' = [content EXCEPT ![f] = @ \cup {new}]
      /\ aged' = aged \ {f} /\ fd' = [fd EXCEPT ![n] = 0]
      /\ UNCHANGED <<dir, archive, sweep, halted>>
      BY DEF Write
<1>2. /\ raced \subseteq raced'
      /\ raced' \subseteq raced \cup {new}
      /\ sweep.pc = "copied" /\ dir[Here] = f => new \in raced'
      /\ (\A m \in Names : f \notin {dir[m], archive[m]}) => new \in raced'
      BY DEF Write
<1>3. /\ f \in Files /\ Len(content) \in Nat /\ written \in Nat /\ new \in Nat
      /\ content \in [Files -> SUBSET (1 .. written)]
      /\ 1 .. new = (1 .. written) \cup {new} /\ new \notin 1 .. written
      BY <1>1, CleanupParts, CleanupFacts
<1>4. /\ content' \in [Files -> SUBSET (1 .. new)] /\ content'[f] = content[f] \cup {new}
      /\ \A g \in Files : g # f => content'[g] = content[g]
      BY <1>1, <1>3
<1>5. /\ content' \in Seq(SUBSET (1 .. new)) /\ Len(content') = Len(content) /\ Files' = Files
  <2>1. content' \in [1 .. Len(content) -> SUBSET (1 .. new)]
        BY <1>4 DEF Files
  <2>2. content' \in Seq(SUBSET (1 .. new))
        BY <1>3, <2>1, SeqDef
  <2>3. Len(content') = Len(content)
        BY <1>3, <2>1, <2>2, LenProperties
  <2> QED BY <2>2, <2>3 DEF Files
<1>6. CleanupShape'
  <2>1. \A id \in 1 .. new : \E g \in Files : id \in content'[g]
    <3>1. ASSUME NEW id \in 1 .. written PROVE \E g \in Files : id \in content'[g]
      <4>1. PICK g \in Files : id \in content[g]
            BY CleanupParts DEF CleanupShape
      <4> QED BY <1>4, <4>1
    <3> QED BY <1>3, <1>4, <3>1
  <2>2. aged' \in SUBSET Files /\ fd' \in [Names -> 0 .. Len(content)]
    <3>1. 0 \in 0 .. Len(content)
          BY <1>3
    <3> QED BY <1>1, <3>1, CleanupParts DEF CleanupShape
  <2> QED BY <1>1, <1>3, <1>5, <2>1, <2>2, CleanupParts DEF CleanupShape, Pcs
<1>7. OneName' /\ Here' = Here
      BY <1>1, CleanupParts DEF OneName, Here
<1>8. SweepFits'
  <2>1. sweep.copy # 0 => sweep.copy # f /\ content'[sweep.copy] = content[sweep.copy]
        BY <1>1, <1>4, CleanupParts, CleanupFacts DEF SweepFits
  <2>2. \A m \in Names : fd'[m] \in {0, fd[m]}
        BY <1>1, CleanupParts DEF CleanupShape
  <2>3. sweep.pc = "copied" => content'[dir[Here]] \ raced' \subseteq content'[sweep.copy]
    <3> SUFFICES ASSUME sweep.pc = "copied" PROVE content'[dir[Here]] \ raced' \subseteq content'[sweep.copy]
        OBVIOUS
    <3>1. /\ content[dir[Here]] \ raced \subseteq content[sweep.copy] /\ sweep.copy # 0
          /\ dir[Here] \in Files
          BY CleanupParts, CleanupFacts DEF SweepFits
    <3>2. CASE dir[Here] = f
          BY <1>2, <1>4, <2>1, <3>1, <3>2
    <3>3. CASE dir[Here] # f
          BY <1>2, <1>4, <2>1, <3>1, <3>3
    <3> QED BY <3>2, <3>3
  <2> QED BY <1>1, <1>7, <2>1, <2>2, <2>3, CleanupParts DEF SweepFits
<1>9. \A g \in 0 .. Len(content) : /\ At(content', g) = At(content, g) \cup (IF g = f THEN {new} ELSE {})
                                   /\ new \notin At(content, g)
  <2>1. \A g \in 0 .. Len(content) : g # 0 => g \in Files
        BY <1>3 DEF Files
  <2> QED BY <1>1, <1>3, <1>4, <2>1 DEF At
<1>10. \A m \in Names : /\ Active(m)' = Active(m) \cup (IF dir[m] = f THEN {new} ELSE {})
                        /\ Archived(m)' = Archived(m) \cup (IF archive[m] = f THEN {new} ELSE {})
                        /\ new \notin Active(m) /\ new \notin Archived(m)
  <2>1. \A m \in Names : dir[m] \in 0 .. Len(content) /\ archive[m] \in 0 .. Len(content)
        BY CleanupParts, CleanupFacts
  <2>2. \A m \in Names : /\ Active(m)' = At(content', dir[m]) /\ Archived(m)' = At(content', archive[m])
                          /\ Active(m) = At(content, dir[m]) /\ Archived(m) = At(content, archive[m])
        BY <1>1, PlacesAre, PlacesNext
  <2> SUFFICES ASSUME NEW m \in Names
               PROVE  /\ Active(m)' = Active(m) \cup (IF dir[m] = f THEN {new} ELSE {})
                      /\ Archived(m)' = Archived(m) \cup (IF archive[m] = f THEN {new} ELSE {})
                      /\ new \notin Active(m) /\ new \notin Archived(m)
      OBVIOUS
  <2>3. /\ At(content', dir[m]) = At(content, dir[m]) \cup (IF dir[m] = f THEN {new} ELSE {})
        /\ new \notin At(content, dir[m])
        BY <1>9, <2>1
  <2>4. /\ At(content', archive[m]) = At(content, archive[m]) \cup (IF archive[m] = f THEN {new} ELSE {})
        /\ new \notin At(content, archive[m])
        BY <1>9, <2>1
  <2> QED BY <2>2, <2>3, <2>4
<1>11. EntryIsSomewhere'
  <2>1. ASSUME NEW id \in 1 .. new \ raced' PROVE \E m \in Names : id \in Active(m)' \cup Archived(m)'
    <3>1. CASE id = new
      <4>1. PICK m \in Names : f \in {dir[m], archive[m]}
            BY <1>2, <2>1, <3>1
      <4> QED BY <1>10, <3>1, <4>1
    <3>2. CASE id # new
      <4>1. id \in 1 .. written \ raced
            BY <1>2, <1>3, <2>1, <3>2
      <4>2. PICK m \in Names : id \in Active(m) \cup Archived(m)
            BY <4>1, CleanupParts DEF EntryIsSomewhere
      <4> QED BY <1>10, <4>2
    <3> QED BY <3>1, <3>2
  <2> QED BY <1>1, <2>1 DEF EntryIsSomewhere
<1>12. OnePlace'
  <2>1. ASSUME NEW m \in Names, Active(m)' \cap Archived(m)' # {} PROVE Active(m) \cap Archived(m) # {}
    <3>1. ~(dir[m] = f /\ archive[m] = f)
          BY <1>1, CleanupParts DEF OneName
    <3> QED BY <1>10, <2>1, <3>1
  <2> QED BY <1>1, <1>7, <2>1, CleanupParts DEF OnePlace
<1> QED BY <1>6, <1>7, <1>8, <1>11, <1>12 DEF CleanupIInv

LEMMA CleanupInitInv == CleanupInit => CleanupIInv
<1> SUFFICES ASSUME CleanupInit PROVE CleanupIInv
    OBVIOUS
<1> USE DEF CleanupInit
<1>1. content \in Seq(SUBSET (1 .. written)) /\ Len(content) = 0 /\ 1 .. written = {}
      BY EmptySeq
<1>2. <<>> \in Seq(Names) /\ 0 \in 0 .. Len(content)
      BY <1>1, EmptySeq
<1>3. sweep \in [pc : Pcs, left : Seq(Names), copy : 0 .. Len(content)] /\ sweep.pc = "none" /\ sweep.copy = 0
      BY <1>2 DEF NoSweep, Pcs
<1>4. CleanupShape
      BY <1>1, <1>2, <1>3 DEF CleanupShape
<1>5. OneName /\ SweepFits
      BY <1>3 DEF OneName, SweepFits
<1>6. EntryIsSomewhere /\ OnePlace
      BY <1>1 DEF EntryIsSomewhere, OnePlace, Active, In
<1> QED BY <1>4, <1>5, <1>6 DEF CleanupIInv

LEMMA CleanupStep == CleanupIInv /\ [CleanupNext]_cleanupVars => CleanupIInv'
<1> SUFFICES ASSUME CleanupIInv, [CleanupNext]_cleanupVars PROVE CleanupIInv'
    OBVIOUS
<1>1. CASE UNCHANGED cleanupVars
  <2> USE <1>1 DEF cleanupVars
  <2>1. CleanupShape' /\ OneName' /\ SweepFits'
        BY CleanupParts DEF CleanupShape, OneName, SweepFits, Files, Pcs, Here
  <2>2. EntryIsSomewhere' /\ OnePlace'
        BY CleanupParts DEF EntryIsSomewhere, OnePlace, Active, Archived, In, Here
  <2> QED BY <2>1, <2>2 DEF CleanupIInv
<1>2. CASE CleanupNext
      BY <1>2, OpenStep, WriteStep, AgeStep, ListNamesStep, StatStep, RenameFileStep, CopyOpenStep,
         CopyAllStep, CopyEndStep, StopStep DEF CleanupNext
<1> QED BY <1>1, <1>2

\* However many sessions, entries and runs there are, wherever a run stops and whatever is appended
\* beside it: every entry is in the directory or in the archive, and in both only where a run
\* stands or was killed; but for an entry appended to a file after it was copied.
THEOREM CleanupKeepsEntries == CleanupSpec => []EntriesAreMoved
<1>1. CleanupIInv => EntriesAreMoved
  <2> SUFFICES ASSUME CleanupIInv PROVE EntriesAreMoved
      OBVIOUS
  <2>1. UNION Range(content) = 1 .. written
    <3>1. DOMAIN content = Files /\ content \in [Files -> SUBSET (1 .. written)]
          BY CleanupParts, CleanupFacts
    <3>2. \A id \in 1 .. written : \E g \in Files : id \in content[g]
          BY CleanupParts DEF CleanupShape
    <3> QED BY <3>1, <3>2 DEF Range
  <2>2. CleanupTypeOK
        BY <2>1, CleanupParts DEF CleanupTypeOK, CleanupShape, SweepFits
  <2> QED BY <2>2, CleanupParts DEF EntriesAreMoved
<1> QED BY <1>1, CleanupInitInv, CleanupStep, PTL DEF CleanupSpec

-----------------------------------------------------------------------------
(* Memory files (MemoryFiles) *)

Label == {"none", "ts", "heading"} \X Nat
KeyOf == Nat \X Label
PieceOf == [is : {"begin", "end", "stitch", "torn", "head", "body"}, key : KeyOf, id : Nat]

\* The text of HOT.md: whether a torn marker takes the next one, the markers a run reads, the
\* keys of the bodies.
TornBefore(h, i) ==
    \E j \in 1 .. i - 1 : h[j].is = "torn" /\ \A k \in j + 1 .. i - 1 : h[k].is # "head"
OpenAt(h) == TornBefore(h, Len(h) + 1)
Reads(h, i) == h[i].is = "head" /\ ~TornBefore(h, i)
MarkersOf(h) == {h[i].key : i \in {n \in DOMAIN h : Reads(h, n)}}
BodiesOf(h) == {i \in DOMAIN h : h[i].is = "body"}
FoldedOf(h) == {h[i].key : i \in BodiesOf(h)}
Again(h, i) == \E j \in BodiesOf(h) : j < i /\ h[j].key = h[i].key
ExtraOf(h) == {i \in BodiesOf(h) : Again(h, i)}

\* What a torn write may have cost, or may still cost: an entry folded twice, a marker with no
\* body, a body that no run can know of, a marker that will not be read.
HollowOf(h) == MarkersOf(h) \ FoldedOf(h)
UnmarkedOf(h) == FoldedOf(h) \ MarkersOf(h)
Owing(h) == IF OpenAt(h) THEN 1 ELSE 0
DebtOf(h) ==
    Cardinality(ExtraOf(h)) + Cardinality(HollowOf(h)) + Cardinality(UnmarkedOf(h)) + Owing(h)

LEMMA PieceNext ==
    ASSUME NEW h \in Seq(PieceOf), NEW p \in PieceOf
    PROVE  /\ Append(h, p) \in Seq(PieceOf) /\ Len(h) \in Nat /\ Len(Append(h, p)) = Len(h) + 1
           /\ DOMAIN h = 1 .. Len(h) /\ DOMAIN Append(h, p) = DOMAIN h \cup {Len(h) + 1}
           /\ \A i \in DOMAIN h : Append(h, p)[i] = h[i]
           /\ Append(h, p)[Len(h) + 1] = p /\ Len(h) + 1 \notin DOMAIN h
           /\ \A i \in DOMAIN h : i < Len(h) + 1
           /\ \A i \in DOMAIN h \cup {Len(h) + 1} : TornBefore(Append(h, p), i) <=> TornBefore(h, i)
<1> DEFINE t == Append(h, p)
           n == Len(h)
<1>1. /\ t \in Seq(PieceOf) /\ Len(t) = n + 1
      /\ \A i \in 1 .. n : t[i] = h[i]
      /\ t[n + 1] = p
      BY AppendProperties
<1>2. n \in Nat /\ DOMAIN h = 1 .. n /\ DOMAIN t = 1 .. Len(t)
      BY <1>1, LenProperties
<1> HIDE DEF t, n
<1>3. DOMAIN t = DOMAIN h \cup {n + 1} /\ n + 1 \notin DOMAIN h
      BY <1>1, <1>2
<1>4. \A i \in DOMAIN h : i < n + 1
      BY <1>2
<1>5. \A i \in DOMAIN h \cup {n + 1} : TornBefore(t, i) <=> TornBefore(h, i)
  <2> TAKE i \in DOMAIN h \cup {n + 1}
  <2>1. 1 .. i - 1 \subseteq 1 .. n /\ \A j \in 1 .. i - 1 : j + 1 .. i - 1 \subseteq 1 .. n
        BY <1>2
  <2>2. \A j \in 1 .. i - 1 : t[j].is = h[j].is
        BY <1>1, <2>1
  <2>3. \A j \in 1 .. i - 1 : \A k \in j + 1 .. i - 1 : t[k].is = h[k].is
        BY <1>1, <2>1
  <2> QED BY <2>2, <2>3 DEF TornBefore
<1> QED BY <1>1, <1>2, <1>3, <1>4, <1>5 DEF t, n

LEMMA OpenNext ==
    ASSUME NEW h \in Seq(PieceOf), NEW p \in PieceOf
    PROVE  OpenAt(Append(h, p)) <=> p.is = "torn" \/ (OpenAt(h) /\ p.is # "head")
<1> DEFINE t == Append(h, p)
           n == Len(h)
<1>1. /\ Len(t) = n + 1 /\ n \in Nat /\ DOMAIN h = 1 .. n
      /\ \A i \in DOMAIN h : t[i] = h[i]
      /\ t[n + 1] = p
      BY PieceNext
<1> HIDE DEF t, n
<1>2. OpenAt(t) <=> TornBefore(t, n + 2)
      BY <1>1 DEF OpenAt
<1>3. OpenAt(h) <=> TornBefore(h, n + 1)
      BY DEF OpenAt, n
<1>4. /\ (n + 2) - 1 = n + 1 /\ (n + 1) - 1 = n /\ 1 .. n + 1 = 1 .. n \cup {n + 1}
      /\ \A j \in 1 .. n : j + 1 .. n + 1 = (j + 1 .. n) \cup {n + 1}
      /\ (n + 1) + 1 .. n + 1 = {}
      /\ \A j \in 1 .. n : j + 1 .. n \subseteq 1 .. n
      BY <1>1
<1>5. TornBefore(t, n + 2) <=> \E j \in 1 .. n + 1 : t[j].is = "torn" /\ \A k \in j + 1 .. n + 1 : t[k].is # "head"
      BY <1>4 DEF TornBefore
<1>6. TornBefore(h, n + 1) <=> \E j \in 1 .. n : h[j].is = "torn" /\ \A k \in j + 1 .. n : h[k].is # "head"
      BY <1>4 DEF TornBefore
<1>7. ASSUME p.is = "torn" PROVE TornBefore(t, n + 2)
  <2>1. n + 1 \in 1 .. n + 1 /\ t[n + 1].is = "torn" /\ \A k \in (n + 1) + 1 .. n + 1 : t[k].is # "head"
        BY <1>1, <1>4, <1>7
  <2> QED BY <1>5, <2>1
<1>8. ASSUME TornBefore(h, n + 1), p.is # "head" PROVE TornBefore(t, n + 2)
  <2>1. PICK j \in 1 .. n : h[j].is = "torn" /\ \A k \in j + 1 .. n : h[k].is # "head"
        BY <1>6, <1>8
  <2>2. j \in 1 .. n + 1 /\ t[j].is = "torn"
        BY <1>1, <1>4, <2>1
  <2>3. \A k \in j + 1 .. n : t[k] = h[k]
        BY <1>1, <1>4
  <2>4. \A k \in j + 1 .. n + 1 : t[k].is # "head"
        BY <1>1, <1>4, <1>8, <2>1, <2>3
  <2> QED BY <1>5, <2>2, <2>4
<1>9. ASSUME TornBefore(t, n + 2), p.is # "torn" PROVE TornBefore(h, n + 1) /\ p.is # "head"
  <2>1. PICK j \in 1 .. n + 1 : t[j].is = "torn" /\ \A k \in j + 1 .. n + 1 : t[k].is # "head"
        BY <1>5, <1>9
  <2>2. j \in 1 .. n
        BY <1>1, <1>4, <1>9, <2>1
  <2>3. n + 1 \in j + 1 .. n + 1 /\ \A k \in j + 1 .. n : k \in j + 1 .. n + 1 /\ t[k] = h[k]
        BY <1>1, <1>4, <2>2
  <2>4. h[j].is = "torn" /\ \A k \in j + 1 .. n : h[k].is # "head"
        BY <1>1, <2>1, <2>2, <2>3
  <2> QED BY <1>1, <1>6, <2>1, <2>2, <2>3, <2>4
<1>10. p.is = "torn" => p.is # "head"
       OBVIOUS
<1> QED BY <1>2, <1>3, <1>7, <1>8, <1>9 DEF t

LEMMA MarkersNext ==
    ASSUME NEW h \in Seq(PieceOf), NEW p \in PieceOf
    PROVE  MarkersOf(Append(h, p)) =
             IF p.is = "head" /\ ~OpenAt(h) THEN MarkersOf(h) \cup {p.key} ELSE MarkersOf(h)
<1> DEFINE t == Append(h, p)
           n == Len(h)
<1>1. /\ DOMAIN t = DOMAIN h \cup {n + 1} /\ n + 1 \notin DOMAIN h
      /\ \A i \in DOMAIN h : t[i] = h[i]
      /\ t[n + 1] = p
      /\ \A i \in DOMAIN h \cup {n + 1} : TornBefore(t, i) <=> TornBefore(h, i)
      BY PieceNext
<1>2. TornBefore(h, n + 1) <=> OpenAt(h)
      BY DEF OpenAt
<1> HIDE DEF t, n
<1>3. \A i \in DOMAIN h : Reads(t, i) <=> Reads(h, i)
      BY <1>1 DEF Reads
<1>4. Reads(t, n + 1) <=> p.is = "head" /\ ~OpenAt(h)
      BY <1>1, <1>2 DEF Reads
<1>5. \A k : k \in MarkersOf(t) <=> k \in MarkersOf(h) \/ (k = p.key /\ p.is = "head" /\ ~OpenAt(h))
      BY <1>1, <1>3, <1>4 DEF MarkersOf
<1> QED BY <1>5 DEF t

LEMMA BodiesNext ==
    ASSUME NEW h \in Seq(PieceOf), NEW p \in PieceOf
    PROVE  /\ BodiesOf(Append(h, p)) = IF p.is = "body" THEN BodiesOf(h) \cup {Len(h) + 1} ELSE BodiesOf(h)
           /\ FoldedOf(Append(h, p)) = IF p.is = "body" THEN FoldedOf(h) \cup {p.key} ELSE FoldedOf(h)
           /\ ExtraOf(Append(h, p)) =
                 IF p.is = "body" /\ p.key \in FoldedOf(h) THEN ExtraOf(h) \cup {Len(h) + 1} ELSE ExtraOf(h)
           /\ Len(h) + 1 \notin ExtraOf(h)
<1> DEFINE t == Append(h, p)
           n == Len(h)
<1>1. /\ DOMAIN t = DOMAIN h \cup {n + 1} /\ n + 1 \notin DOMAIN h
      /\ \A i \in DOMAIN h : t[i] = h[i]
      /\ t[n + 1] = p /\ n \in Nat /\ DOMAIN h = 1 .. n
      BY PieceNext
<1> HIDE DEF t, n
<1>2. \A i : i \in BodiesOf(t) <=> i \in BodiesOf(h) \/ (i = n + 1 /\ p.is = "body")
      BY <1>1 DEF BodiesOf
<1>3. \A i \in BodiesOf(h) : i \in DOMAIN h /\ t[i] = h[i] /\ i < n + 1 /\ ~(n + 1 < i)
      BY <1>1 DEF BodiesOf
<1>4. \A k : k \in FoldedOf(t) <=> k \in FoldedOf(h) \/ (k = p.key /\ p.is = "body")
      BY <1>1, <1>2, <1>3 DEF FoldedOf
<1>5. \A i \in BodiesOf(h) : Again(t, i) <=> Again(h, i)
      BY <1>2, <1>3 DEF Again
<1>6. p.is = "body" => (Again(t, n + 1) <=> p.key \in FoldedOf(h))
  <2>1. p.is = "body" => (Again(t, n + 1) <=> \E j \in BodiesOf(h) : h[j].key = p.key)
        BY <1>1, <1>2, <1>3 DEF Again
  <2> QED BY <2>1 DEF FoldedOf
<1>7. \A i : i \in ExtraOf(t) <=> i \in ExtraOf(h) \/ (i = n + 1 /\ p.is = "body" /\ p.key \in FoldedOf(h))
      BY <1>2, <1>5, <1>6 DEF ExtraOf
<1>8. n + 1 \notin ExtraOf(h)
      BY <1>1 DEF ExtraOf, BodiesOf
<1> QED BY <1>2, <1>4, <1>7, <1>8 DEF t, n

LEMMA FewPieces ==
    ASSUME NEW h \in Seq(PieceOf)
    PROVE  /\ IsFiniteSet(MarkersOf(h)) /\ IsFiniteSet(FoldedOf(h)) /\ IsFiniteSet(ExtraOf(h))
           /\ IsFiniteSet(HollowOf(h)) /\ IsFiniteSet(UnmarkedOf(h))
<1> DEFINE All == {h[i].key : i \in DOMAIN h}
           f == [i \in DOMAIN h |-> h[i].key]
<1>1. IsFiniteSet(DOMAIN h)
  <2>1. DOMAIN h = 1 .. Len(h) /\ Len(h) \in Nat
        BY LenProperties
  <2> QED BY <2>1, FS_Interval
<1>2. f \in Surjection(DOMAIN h, All)
      BY DEF Surjection
<1>3. IsFiniteSet(All)
  <2> HIDE DEF All, f
  <2> QED BY <1>1, <1>2, FS_Surjection
<1>4. MarkersOf(h) \subseteq All /\ FoldedOf(h) \subseteq All /\ ExtraOf(h) \subseteq DOMAIN h
      BY DEF MarkersOf, FoldedOf, ExtraOf, BodiesOf
<1> HIDE DEF All
<1>5. HollowOf(h) \subseteq All /\ UnmarkedOf(h) \subseteq All
      BY <1>4 DEF HollowOf, UnmarkedOf
<1> QED BY <1>1, <1>3, <1>4, <1>5, FS_Subset

LEMMA DebtIsNat ==
    ASSUME NEW h \in Seq(PieceOf)
    PROVE  /\ DebtOf(h) \in Nat
           /\ Cardinality(ExtraOf(h)) \in Nat /\ Cardinality(HollowOf(h)) \in Nat
           /\ Cardinality(UnmarkedOf(h)) \in Nat /\ Owing(h) \in Nat
<1>1. /\ Cardinality(ExtraOf(h)) \in Nat /\ Cardinality(HollowOf(h)) \in Nat
      /\ Cardinality(UnmarkedOf(h)) \in Nat
      BY FewPieces, FS_CardinalityType
<1>2. Owing(h) \in Nat
      BY DEF Owing
<1> QED BY <1>1, <1>2 DEF DebtOf

\* A note or a summary costs nothing.
LEMMA PlainPiece ==
    ASSUME NEW h \in Seq(PieceOf), NEW p \in PieceOf, p.is \notin {"torn", "head", "body"}
    PROVE  /\ DebtOf(Append(h, p)) = DebtOf(h)
           /\ MarkersOf(Append(h, p)) = MarkersOf(h) /\ FoldedOf(Append(h, p)) = FoldedOf(h)
<1> DEFINE t == Append(h, p)
<1>1. OpenAt(t) <=> OpenAt(h)
      BY OpenNext
<1>2. MarkersOf(t) = MarkersOf(h)
      BY MarkersNext
<1>3. FoldedOf(t) = FoldedOf(h) /\ ExtraOf(t) = ExtraOf(h)
      BY BodiesNext
<1> HIDE DEF t
<1>4. DebtOf(t) = DebtOf(h)
      BY <1>1, <1>2, <1>3 DEF DebtOf, HollowOf, UnmarkedOf, Owing
<1> QED BY <1>2, <1>3, <1>4 DEF t

\* A marker written in part costs at most one, and so does a heading without its body.
LEMMA TornPiece ==
    ASSUME NEW h \in Seq(PieceOf), NEW p \in PieceOf, p.is = "torn"
    PROVE  /\ DebtOf(Append(h, p)) <= DebtOf(h) + 1
           /\ MarkersOf(Append(h, p)) = MarkersOf(h) /\ FoldedOf(Append(h, p)) = FoldedOf(h)
<1> DEFINE t == Append(h, p)
<1>0. p.is # "head" /\ p.is # "body"
      OBVIOUS
<1>1. MarkersOf(t) = MarkersOf(h)
      BY <1>0, MarkersNext
<1>2. FoldedOf(t) = FoldedOf(h) /\ ExtraOf(t) = ExtraOf(h)
      BY <1>0, BodiesNext
<1>3. t \in Seq(PieceOf)
      BY PieceNext
<1> HIDE DEF t
<1>4. HollowOf(t) = HollowOf(h) /\ UnmarkedOf(t) = UnmarkedOf(h)
      BY <1>1, <1>2 DEF HollowOf, UnmarkedOf
<1>5. Owing(t) <= Owing(h) + 1
      BY DEF Owing
<1>6. DebtOf(t) <= DebtOf(h) + 1
      BY <1>2, <1>3, <1>4, <1>5, DebtIsNat DEF DebtOf
<1> QED BY <1>1, <1>2, <1>6 DEF t

LEMMA HeadPiece ==
    ASSUME NEW h \in Seq(PieceOf), NEW p \in PieceOf, p.is = "head"
    PROVE  /\ DebtOf(Append(h, p)) <= DebtOf(h) + 1
           /\ MarkersOf(Append(h, p)) \subseteq MarkersOf(h) \cup {p.key}
           /\ MarkersOf(h) \subseteq MarkersOf(Append(h, p))
           /\ FoldedOf(Append(h, p)) = FoldedOf(h)
<1> DEFINE t == Append(h, p)
<1>0. p.is # "torn" /\ p.is # "body"
      OBVIOUS
<1>1. MarkersOf(t) = IF ~OpenAt(h) THEN MarkersOf(h) \cup {p.key} ELSE MarkersOf(h)
      BY MarkersNext
<1>2. FoldedOf(t) = FoldedOf(h) /\ ExtraOf(t) = ExtraOf(h)
      BY <1>0, BodiesNext
<1>3. ~OpenAt(t)
      BY <1>0, OpenNext
<1>4. t \in Seq(PieceOf)
      BY PieceNext
<1> HIDE DEF t
<1>5. Owing(t) = 0
      BY <1>3 DEF Owing
<1>6. HollowOf(t) \subseteq HollowOf(h) \cup {p.key} /\ UnmarkedOf(t) \subseteq UnmarkedOf(h)
      BY <1>1, <1>2 DEF HollowOf, UnmarkedOf
<1>7. Cardinality(HollowOf(t)) <= Cardinality(HollowOf(h)) + 1
      BY <1>6, FewPieces, OneMore
<1>8. Cardinality(UnmarkedOf(t)) <= Cardinality(UnmarkedOf(h))
      BY <1>6, FewPieces, Smaller
<1>9. DebtOf(t) <= DebtOf(h) + 1
      BY <1>2, <1>4, <1>5, <1>7, <1>8, DebtIsNat DEF DebtOf
<1> QED BY <1>1, <1>2, <1>9 DEF t

\* An entry folded whole under a marker that was not read costs nothing more: folded a second
\* time it was a body without a marker, and a marker that is not read is owed already.
LEMMA EntryPieces ==
    ASSUME NEW h \in Seq(PieceOf), NEW p \in PieceOf, NEW q \in PieceOf,
           p.is = "head", q.is = "body", q.key = p.key, p.key \notin MarkersOf(h)
    PROVE  /\ DebtOf(Append(Append(h, p), q)) <= DebtOf(h)
           /\ MarkersOf(Append(Append(h, p), q)) \subseteq MarkersOf(h) \cup {p.key}
           /\ MarkersOf(h) \subseteq MarkersOf(Append(Append(h, p), q))
           /\ FoldedOf(Append(Append(h, p), q)) = FoldedOf(h) \cup {p.key}
<1> DEFINE t == Append(h, p)
           u == Append(t, q)
           k == p.key
<1>0. p.is # "torn" /\ p.is # "body" /\ q.is # "torn" /\ q.is # "head"
      OBVIOUS
<1>1. /\ MarkersOf(t) = IF ~OpenAt(h) THEN MarkersOf(h) \cup {k} ELSE MarkersOf(h)
      /\ FoldedOf(t) = FoldedOf(h) /\ ExtraOf(t) = ExtraOf(h) /\ ~OpenAt(t) /\ t \in Seq(PieceOf)
      BY <1>0, MarkersNext, BodiesNext, OpenNext, PieceNext
<1> HIDE DEF t
<1>2. /\ MarkersOf(u) = MarkersOf(t) /\ FoldedOf(u) = FoldedOf(t) \cup {k} /\ ~OpenAt(u)
      /\ ExtraOf(u) = IF k \in FoldedOf(t) THEN ExtraOf(t) \cup {Len(t) + 1} ELSE ExtraOf(t)
      /\ u \in Seq(PieceOf)
      BY <1>0, <1>1, MarkersNext, BodiesNext, OpenNext, PieceNext
<1> HIDE DEF u, k
<1>3. Owing(u) = 0
      BY <1>2 DEF Owing
<1>4. HollowOf(u) \subseteq HollowOf(h)
      BY <1>1, <1>2 DEF HollowOf
<1>5. Cardinality(HollowOf(u)) <= Cardinality(HollowOf(h))
      BY <1>4, FewPieces, Smaller
<1> DEFINE Sizes(s) == /\ Cardinality(ExtraOf(s)) \in Nat /\ Cardinality(HollowOf(s)) \in Nat
                       /\ Cardinality(UnmarkedOf(s)) \in Nat /\ Owing(s) \in Nat
<1>10. Sizes(h) /\ Sizes(u)
  <2>1. \A s \in Seq(PieceOf) : Sizes(s)
        BY DebtIsNat
  <2> QED BY <1>2, <2>1
<1>6. CASE OpenAt(h) /\ k \in FoldedOf(h)
  <2>1. UnmarkedOf(u) \subseteq UnmarkedOf(h) /\ ExtraOf(u) \subseteq ExtraOf(h) \cup {Len(t) + 1}
        BY <1>1, <1>2, <1>6 DEF UnmarkedOf
  <2>2. Cardinality(UnmarkedOf(u)) <= Cardinality(UnmarkedOf(h))
        BY <2>1, FewPieces, Smaller
  <2>3. Cardinality(ExtraOf(u)) <= Cardinality(ExtraOf(h)) + 1
        BY <2>1, FewPieces, OneMore
  <2>4. Owing(h) = 1
        BY <1>6 DEF Owing
  <2>5. DebtOf(u) <= DebtOf(h)
        BY <1>10, <1>3, <1>5, <2>2, <2>3, <2>4 DEF DebtOf
  <2> QED BY <1>1, <1>2, <2>5 DEF t, u, k
<1>7. CASE OpenAt(h) /\ k \notin FoldedOf(h)
  <2>1. UnmarkedOf(u) \subseteq UnmarkedOf(h) \cup {k} /\ ExtraOf(u) = ExtraOf(h)
        BY <1>1, <1>2, <1>7 DEF UnmarkedOf
  <2>2. Cardinality(UnmarkedOf(u)) <= Cardinality(UnmarkedOf(h)) + 1
        BY <2>1, FewPieces, OneMore
  <2>4. Owing(h) = 1
        BY <1>7 DEF Owing
  <2>5. DebtOf(u) <= DebtOf(h)
        BY <1>10, <1>3, <1>5, <2>1, <2>2, <2>4 DEF DebtOf
  <2> QED BY <1>1, <1>2, <2>5 DEF t, u, k
<1>8. CASE ~OpenAt(h) /\ k \in FoldedOf(h)
  <2>1. /\ k \in UnmarkedOf(h) /\ UnmarkedOf(u) \subseteq UnmarkedOf(h) \ {k}
        /\ ExtraOf(u) \subseteq ExtraOf(h) \cup {Len(t) + 1}
        BY <1>1, <1>2, <1>8 DEF UnmarkedOf, k
  <2>2. Cardinality(UnmarkedOf(u)) + 1 <= Cardinality(UnmarkedOf(h))
        BY <2>1, FewPieces, OneLess
  <2>3. Cardinality(ExtraOf(u)) <= Cardinality(ExtraOf(h)) + 1
        BY <2>1, FewPieces, OneMore
  <2>5. DebtOf(u) <= DebtOf(h)
        BY <1>10, <1>3, <1>5, <2>2, <2>3 DEF DebtOf
  <2> QED BY <1>1, <1>2, <2>5 DEF t, u, k
<1>9. CASE ~OpenAt(h) /\ k \notin FoldedOf(h)
  <2>1. UnmarkedOf(u) \subseteq UnmarkedOf(h) /\ ExtraOf(u) = ExtraOf(h)
        BY <1>1, <1>2, <1>9 DEF UnmarkedOf
  <2>2. Cardinality(UnmarkedOf(u)) <= Cardinality(UnmarkedOf(h))
        BY <2>1, FewPieces, Smaller
  <2>5. DebtOf(u) <= DebtOf(h)
        BY <1>10, <1>3, <1>5, <2>1, <2>2 DEF DebtOf
  <2> QED BY <1>1, <1>2, <2>5 DEF t, u, k
<1> QED BY <1>6, <1>7, <1>8, <1>9

EntryOf == [label : Label, id : Nat]

\* HOT.md: what it owes is paid for by torn writes.
HotFits ==
    /\ hot \in Seq(PieceOf) /\ torn \in Nat /\ DebtOf(hot) <= torn
    /\ \A i \in BodiesOf(hot) : hot[i].id \in 1 .. ids

DailyFits ==
    /\ now \in 0 .. MaxNow /\ ids \in Nat
    /\ daily \in [Days -> Seq(EntryOf)]
    /\ \A n \in 1 .. ids : \E d \in Days : \E i \in DOMAIN daily[d] : daily[d][i].id = n
    /\ \A d \in Days : \A i \in DOMAIN daily[d] : daily[d][i].id \in 1 .. ids
    /\ \A d, e \in Days : \A i \in DOMAIN daily[d], j \in DOMAIN daily[e] :
          daily[d][i].id = daily[e][j].id => d = e /\ i = j

\* An entry that was there when the run began is known to it, or before it.
InLeft(k) == \E i \in DOMAIN job.left : k = <<job.day, job.left[i].label>>
InFiles(k) == \E f \in DOMAIN job.files : \E i \in DOMAIN daily[job.files[f]] :
                  k = <<job.files[f], daily[job.files[f]][i].label>>

RunOf ==
    [pc : {"none", "listed", "files", "entries", "done"}, files : Seq(Days), day : Days,
     left : Seq(EntryOf), seen : SUBSET KeyOf, due : SUBSET KeyOf]

JobFits ==
    /\ job \in RunOf
    /\ job.pc = "none" => job = NoJob
    /\ job.pc # "entries" => job.left = <<>>
    /\ job.pc = "listed" => job.seen = {}
    /\ job.pc = "done" => job.files = <<>>
    /\ \A i \in DOMAIN job.left : job.left[i].id \in 1 .. ids
    /\ job.pc \in {"files", "entries", "done"} =>
          MarkersOf(hot) \subseteq job.seen /\ job.seen \subseteq MarkersOf(hot) \cup FoldedOf(hot)
    /\ \A k \in job.due : k \in job.seen \/ InLeft(k) \/ InFiles(k)

LockedOf(h) == {i \in DOMAIN h : h[i].is \in {"begin", "end", "stitch"}}
Told(h, n) == \A i \in DOMAIN h : h[i].is \in {"begin", "end"} => h[i].id \in 1 .. n
OneBegin(h) ==
    \A i, j \in DOMAIN h : h[i].is = "begin" /\ h[j].is = "begin" /\ h[i].id = h[j].id => i = j
WholeIn(h) ==
    \A i, j \in DOMAIN h : h[i].is = "begin" /\ h[j].is = "end" /\ h[i].id = h[j].id =>
        i < j /\ \A k \in LockedOf(h) : ~(i < k /\ k < j)
OpenNote(h, n) ==
    /\ \A j \in DOMAIN h : h[j].is = "end" => h[j].id # n
    /\ \E i \in DOMAIN h : h[i].is = "begin" /\ h[i].id = n /\ \A k \in LockedOf(h) : ~(i < k)

\* A note that is being written is the last thing under the lock.
NotesFit ==
    /\ notes \in Nat /\ note \in [Writers -> 0 .. notes]
    /\ \A v, w \in Writers : note[v] # 0 /\ note[w] # 0 => v = w
    /\ Told(hot, notes) /\ OneBegin(hot) /\ WholeIn(hot)
    /\ \A w \in Writers : note[w] # 0 => OpenNote(hot, note[w])

MemoryIInv == HotFits /\ DailyFits /\ JobFits /\ NotesFit

\* Of the days up to the last there is a latest.
LEMMA LastOf ==
    ASSUME NEW n \in Nat, NEW S \in SUBSET (0 .. n), S # {}
    PROVE  \E m \in S : \A k \in S : k <= m
<1> DEFINE Above(k) == {h \in S : h >= k}
           All == FiniteSubsetsOf(0 .. n)
           Aboves == {T \in All : \E k \in S : T = Above(k)}
           R == StrictSubsetOrdering(0 .. n)
<1>1. All = SUBSET (0 .. n)
  <2>1. IsFiniteSet(0 .. n)
        BY FS_Interval, 0 \in Int, n \in Int
  <2> QED BY <2>1, FS_FiniteSubsetsOfFinite
<1>2. \A k \in S : Above(k) \in Aboves
      BY <1>1
<1>3. IsWellFoundedOn(R, All) /\ Aboves \subseteq All /\ Aboves # {}
      BY <1>2, FS_StrictSubsetOrderingWellFounded
<1>4. PICK U \in Aboves : \A V \in Aboves : ~(<<V, U>> \in R)
  <2> HIDE DEF All, R, Aboves
  <2> QED BY <1>3, WFMin
<1>5. PICK m \in S : U = Above(m)
      BY <1>4
<1>6. ASSUME NEW k \in S, ~(k <= m) PROVE FALSE
  <2>1. Above(k) \subseteq Above(m) /\ m \in Above(m) /\ m \notin Above(k)
    <3>1. \A h \in S : h \in Int
          OBVIOUS
    <3>2. k > m
          BY <1>6, <3>1
    <3>3. \A h \in S : h >= k => h >= m
          BY <3>1, <3>2
    <3>4. ~(m >= k) /\ m >= m
          BY <3>1, <3>2
    <3> QED BY <3>3, <3>4
  <2>2. Above(k) \in SUBSET (0 .. n) /\ Above(m) \in SUBSET (0 .. n)
        OBVIOUS
  <2>3. <<Above(k), Above(m)>> \in R
        BY <2>1, <2>2 DEF StrictSubsetOrdering
  <2> HIDE DEF R, Aboves, Above
  <2> QED BY <1>2, <1>4, <1>5, <2>3
<1> QED BY <1>6

\* Every set of days can be listed in order.
LEMMA DaysInOrder ==
    ASSUME NEW n \in Nat, NEW days \in SUBSET (0 .. n)
    PROVE  \E list \in SetToSeqs(days) : \A i, j \in DOMAIN list : i < j => list[i] < list[j]
<1> DEFINE Ordered(T) == \E list \in [1 .. Cardinality(T) -> T] :
                            \A i, j \in 1 .. Cardinality(T) : i < j => list[i] < list[j]
           All == FiniteSubsetsOf(0 .. n)
           Bad == {T \in All : ~Ordered(T)}
           R == StrictSubsetOrdering(0 .. n)
<1>1. All = SUBSET (0 .. n) /\ IsFiniteSet(0 .. n)
  <2>1. IsFiniteSet(0 .. n)
        BY FS_Interval, 0 \in Int, n \in Int
  <2> QED BY <2>1, FS_FiniteSubsetsOfFinite
<1>2. ASSUME Bad # {} PROVE FALSE
  <2>1. IsWellFoundedOn(R, All) /\ Bad \subseteq All
        BY FS_StrictSubsetOrderingWellFounded
  <2>2. PICK T \in Bad : \A V \in Bad : ~(<<V, T>> \in R)
    <3> HIDE DEF All, R, Bad
    <3> QED BY <1>2, <2>1, WFMin
  <2>3. T \in SUBSET (0 .. n) /\ IsFiniteSet(T) /\ ~Ordered(T)
        BY <1>1, FS_Subset
  <2>4. CASE T = {}
    <3>1. Cardinality(T) = 0
          BY <2>4, FS_EmptySet
    <3>2. 1 .. 0 = {}
          OBVIOUS
    <3>3. [x \in {} |-> x] \in [{} -> T]
          OBVIOUS
    <3>4. Ordered(T)
          BY <3>1, <3>2, <3>3
    <3> QED BY <2>3, <3>4
  <2>5. CASE T # {}
    <3>1. PICK m \in T : \A k \in T : k <= m
          BY <2>3, <2>5, LastOf
    <3>2. PICK U \in SUBSET (0 .. n) : U = T \ {m}
          BY <2>3
    <3>3. <<U, T>> \in R
          BY <2>3, <3>1, <3>2 DEF StrictSubsetOrdering
    <3>4. Ordered(U)
      <4> HIDE DEF Ordered, R
      <4> QED BY <1>1, <2>2, <3>2, <3>3
    <3>5. PICK c \in Nat : c = Cardinality(U) /\ Cardinality(T) = c + 1
      <4>1. Cardinality(T) \in Nat /\ Cardinality(U) \in Nat /\ Cardinality(U) = Cardinality(T) - 1
            BY <2>3, <3>2, FS_RemoveElement, FS_CardinalityType
      <4> QED BY <4>1
    <3>6. PICK list \in [1 .. c -> U] : \A i, j \in 1 .. c : i < j => list[i] < list[j]
          BY <3>4, <3>5
    <3> DEFINE more == [i \in 1 .. c + 1 |-> IF i = c + 1 THEN m ELSE list[i]]
    <3>7. \A k \in U : k < m
      <4>1. \A k \in T : k \in Int
            BY <2>3
      <4> QED BY <3>1, <3>2, <4>1
    <3>8. more \in [1 .. c + 1 -> T]
          BY <3>2, <3>6
    <3>9. \A i, j \in 1 .. c + 1 : i < j => more[i] < more[j]
      <4> TAKE i \in 1 .. c + 1, j \in 1 .. c + 1
      <4> HAVE i < j
      <4>1. i \in 1 .. c /\ more[i] = list[i] /\ list[i] \in U
            BY <3>6
      <4>2. CASE j = c + 1
            BY <3>7, <4>1, <4>2
      <4>3. CASE j # c + 1
            BY <3>6, <4>1, <4>3
      <4> QED BY <4>2, <4>3
    <3> HIDE DEF more
    <3>10. Ordered(T)
          BY <3>5, <3>8, <3>9
    <3> QED BY <2>3, <3>10
  <2> QED BY <2>4, <2>5
<1>3. Ordered(days)
  <2>1. days \in All /\ days \notin Bad
        BY <1>1, <1>2
  <2> HIDE DEF Ordered, All
  <2> QED BY <2>1
<1>4. PICK list \in [1 .. Cardinality(days) -> days] :
          \A i, j \in 1 .. Cardinality(days) : i < j => list[i] < list[j]
      BY <1>3
<1>5. Cardinality(days) \in Nat
      BY <1>1, FS_Subset, FS_CardinalityType
<1>6. \A i, j \in 1 .. Cardinality(days) : i # j => list[i] # list[j]
  <2> TAKE i \in 1 .. Cardinality(days), j \in 1 .. Cardinality(days)
  <2>1. i \in Int /\ j \in Int
        BY <1>5
  <2>2. list[i] \in 0 .. n /\ list[j] \in 0 .. n
        BY <1>4
  <2>3. i < j => list[i] < list[j]
        BY <1>4
  <2>4. j < i => list[j] < list[i]
        BY <1>4
  <2> QED BY <2>1, <2>2, <2>3, <2>4
<1> QED BY <1>4, <1>6 DEF SetToSeqs

\* A run goes through every day there is a file of.
LEMMA ListedDays ==
    ASSUME NEW days \in SUBSET Days
    PROVE  /\ OldestFirst(days) \in Seq(Days)
           /\ \A d \in days : \E f \in DOMAIN OldestFirst(days) : OldestFirst(days)[f] = d
<1> DEFINE list == OldestFirst(days)
           c == Cardinality(days)
           n == MaxNow \div PerDay
<1>1. n \in Nat /\ Days = 0 .. n
  <2>1. MaxNow \in Nat /\ PerDay \in Nat /\ PerDay # 0
        BY MemoryAssumption
  <2> QED BY <2>1 DEF Days
<1>2. IsFiniteSet(days)
  <2>1. IsFiniteSet(0 .. n)
        BY <1>1, FS_Interval
  <2> QED BY <1>1, <2>1, FS_Subset
<1>3. list \in SetToSeqs(days)
  <2>1. days \in SUBSET (0 .. n)
        BY <1>1
  <2> HIDE DEF n
  <2>2. \E l \in SetToSeqs(days) : \A i, j \in DOMAIN l : i < j => l[i] < l[j]
        BY <1>1, <2>1, DaysInOrder
  <2> QED BY <2>2 DEF OldestFirst
<1>4. list \in [1 .. c -> days] /\ c \in Nat /\ \A i, j \in 1 .. c : i # j => list[i] # list[j]
      BY <1>2, <1>3, FS_CardinalityType DEF SetToSeqs
<1> HIDE DEF list, c, n
<1>5. list \in Seq(Days) /\ DOMAIN list = 1 .. c
  <2>1. list \in [1 .. c -> Days]
        BY <1>4
  <2> QED BY <1>4, <2>1, SeqDef
<1>6. \A d \in days : \E f \in 1 .. c : list[f] = d
  <2>1. list \in Injection(1 .. c, days)
        BY <1>4 DEF Injection, IsInjective
  <2>2. Cardinality(1 .. c) = c /\ IsFiniteSet(1 .. c)
        BY <1>4, FS_Interval
  <2>3. list \in Surjection(1 .. c, days)
        BY <1>2, <2>1, <2>2, FS_Injection DEF c
  <2> QED BY <1>4, <2>3 DEF Surjection
<1> QED BY <1>5, <1>6 DEF list

LEMMA DayFacts ==
    ASSUME NEW t \in 0 .. MaxNow
    PROVE  t \div PerDay \in Days /\ t \in Nat
<1>1. MaxNow \in Nat /\ PerDay \in Nat /\ PerDay # 0
      BY MemoryAssumption
<1> QED BY <1>1 DEF Days

\* What is appended to HOT.md is a piece.
LEMMA PiecesAre ==
    /\ \A n \in Nat : Piece("begin", n) \in PieceOf /\ Piece("end", n) \in PieceOf
    /\ Piece("stitch", 0) \in PieceOf /\ Piece("torn", 0) \in PieceOf
    /\ \A k \in KeyOf : Heading(k) \in PieceOf /\ \A n \in Nat : Body(k, n) \in PieceOf
<1>1. NoKey \in KeyOf
      BY DEF NoKey, KeyOf, Label
<1> QED BY <1>1 DEF Piece, Heading, Body, PieceOf

\* The notes and summaries of HOT.md, with a piece more.
LEMMA LockedNext ==
    ASSUME NEW h \in Seq(PieceOf), NEW p \in PieceOf, NEW n \in Nat, Told(h, n),
           OneBegin(h), WholeIn(h)
    PROVE  LET t == Append(h, p) IN
           /\ p.is \notin {"begin", "end"} => Told(t, n) /\ OneBegin(t) /\ WholeIn(t)
           /\ p.is = "begin" /\ p.id = n + 1 =>
                 Told(t, n + 1) /\ OneBegin(t) /\ WholeIn(t) /\ OpenNote(t, n + 1)
           /\ p.is = "end" /\ p.id \in 1 .. n /\ OpenNote(h, p.id) =>
                 Told(t, n) /\ OneBegin(t) /\ WholeIn(t)
           /\ \A m \in Nat : OpenNote(h, m) /\ p.is \notin {"begin", "end", "stitch"} => OpenNote(t, m)
<1> DEFINE t == Append(h, p)
           z == Len(h) + 1
<1>1. /\ DOMAIN t = DOMAIN h \cup {z} /\ z \notin DOMAIN h
      /\ \A i \in DOMAIN h : t[i] = h[i] /\ i < z /\ i \in Nat
      /\ t[z] = p /\ z \in Nat
      BY PieceNext
<1> HIDE DEF t, z
<1>2. /\ LockedOf(t) = IF p.is \in {"begin", "end", "stitch"} THEN LockedOf(h) \cup {z} ELSE LockedOf(h)
      /\ LockedOf(h) \subseteq DOMAIN h
  <2>1. \A i : i \in LockedOf(t) <=> i \in LockedOf(h) \/ (i = z /\ p.is \in {"begin", "end", "stitch"})
        BY <1>1 DEF LockedOf
  <2>2. LockedOf(h) \subseteq DOMAIN h
        BY DEF LockedOf
  <2> QED BY <2>1, <2>2
<1>3. \A i, j \in DOMAIN h : i < j /\ (\A k \in LockedOf(h) : ~(i < k /\ k < j)) =>
          \A k \in LockedOf(t) : ~(i < k /\ k < j)
      BY <1>1, <1>2
<1>4. ASSUME p.is \notin {"begin", "end"} PROVE Told(t, n) /\ OneBegin(t) /\ WholeIn(t)
  <2>1. Told(t, n)
        BY <1>1, <1>4 DEF Told
  <2>2. OneBegin(t)
        BY <1>1, <1>4 DEF OneBegin
  <2>3. WholeIn(t)
        BY <1>1, <1>3, <1>4 DEF WholeIn
  <2> QED BY <2>1, <2>2, <2>3
<1>5. ASSUME p.is = "begin", p.id = n + 1
      PROVE  Told(t, n + 1) /\ OneBegin(t) /\ WholeIn(t) /\ OpenNote(t, n + 1)
  <2>0. \A i \in DOMAIN h : h[i].is \in {"begin", "end"} => h[i].id \in 1 .. n /\ h[i].id # n + 1
        BY DEF Told
  <2>1. Told(t, n + 1)
        BY <1>1, <1>5, <2>0 DEF Told
  <2>2. OneBegin(t)
        BY <1>1, <1>5, <2>0 DEF OneBegin
  <2>3. WholeIn(t)
        BY <1>1, <1>3, <1>5, <2>0 DEF WholeIn
  <2>4. OpenNote(t, n + 1)
    <3>1. \A j \in DOMAIN t : t[j].is = "end" => t[j].id # n + 1
          BY <1>1, <1>5, <2>0
    <3>2. z \in DOMAIN t /\ t[z].is = "begin" /\ t[z].id = n + 1 /\ \A k \in LockedOf(t) : ~(z < k)
          BY <1>1, <1>2, <1>5
    <3> QED BY <3>1, <3>2 DEF OpenNote
  <2> QED BY <2>1, <2>2, <2>3, <2>4
<1>6. ASSUME p.is = "end", p.id \in 1 .. n, OpenNote(h, p.id)
      PROVE  Told(t, n) /\ OneBegin(t) /\ WholeIn(t)
  <2>1. Told(t, n)
        BY <1>1, <1>6 DEF Told
  <2>2. OneBegin(t)
        BY <1>1, <1>6 DEF OneBegin
  <2>3. PICK b \in DOMAIN h : h[b].is = "begin" /\ h[b].id = p.id /\ \A k \in LockedOf(h) : ~(b < k)
        BY <1>6 DEF OpenNote
  <2>4. \A i \in DOMAIN h : h[i].is = "begin" /\ h[i].id = p.id => i = b
        BY <2>3 DEF OneBegin
  <2>5. b < z /\ \A k \in LockedOf(t) : ~(b < k /\ k < z)
        BY <1>1, <1>2, <2>3
  <2>6. WholeIn(t)
    <3> SUFFICES ASSUME NEW i \in DOMAIN t, NEW j \in DOMAIN t,
                        t[i].is = "begin", t[j].is = "end", t[i].id = t[j].id
                 PROVE  i < j /\ \A k \in LockedOf(t) : ~(i < k /\ k < j)
          BY DEF WholeIn
    <3>1. i \in DOMAIN h /\ h[i].is = "begin" /\ t[i] = h[i]
          BY <1>1, <1>6
    <3>2. CASE j = z
          BY <1>1, <2>4, <2>5, <3>1, <3>2
    <3>3. CASE j # z
          BY <1>1, <1>3, <3>1, <3>3 DEF WholeIn
    <3> QED BY <3>2, <3>3
  <2> QED BY <2>1, <2>2, <2>6
<1>7. ASSUME NEW m \in Nat, OpenNote(h, m), p.is \notin {"begin", "end", "stitch"}
      PROVE  OpenNote(t, m)
  <2>1. PICK b \in DOMAIN h : h[b].is = "begin" /\ h[b].id = m /\ \A k \in LockedOf(h) : ~(b < k)
        BY <1>7 DEF OpenNote
  <2>2. b \in DOMAIN t /\ t[b] = h[b] /\ LockedOf(t) = LockedOf(h)
        BY <1>1, <1>2, <1>7
  <2>3. \A j \in DOMAIN t : t[j].is = "end" => t[j].id # m
        BY <1>1, <1>7 DEF OpenNote
  <2> QED BY <2>1, <2>2, <2>3 DEF OpenNote
<1> QED BY <1>4, <1>5, <1>6, <1>7 DEF t

\* The entries of a day, with those of a block more.
LEMMA BlockNext ==
    ASSUME NEW old \in Seq(EntryOf), NEW labels \in Seq(Label), NEW n \in Nat
    PROVE  LET new == old \o [i \in DOMAIN labels |-> [label |-> labels[i], id |-> n + i]] IN
           /\ new \in Seq(EntryOf) /\ Len(labels) \in Nat /\ DOMAIN labels = 1 .. Len(labels)
           /\ Len(old) \in Nat /\ DOMAIN old = 1 .. Len(old)
           /\ DOMAIN new = 1 .. Len(old) + Len(labels)
           /\ \A i \in DOMAIN old : new[i] = old[i]
           /\ \A i \in DOMAIN labels : new[Len(old) + i] = [label |-> labels[i], id |-> n + i]
<1> DEFINE block == [i \in DOMAIN labels |-> [label |-> labels[i], id |-> n + i]]
           new == old \o block
<1>1. /\ Len(labels) \in Nat /\ DOMAIN labels = 1 .. Len(labels)
      /\ Len(old) \in Nat /\ DOMAIN old = 1 .. Len(old)
      BY LenProperties
<1>2. \A i \in DOMAIN labels : labels[i] \in Label /\ i \in Nat
      BY <1>1
<1>3. block \in Seq(EntryOf) /\ Len(block) = Len(labels)
  <2>1. block \in [1 .. Len(labels) -> EntryOf]
        BY <1>1, <1>2 DEF EntryOf
  <2>2. block \in Seq(EntryOf)
        BY <1>1, <2>1, SeqDef
  <2>3. DOMAIN block = 1 .. Len(labels) /\ DOMAIN block = 1 .. Len(block) /\ Len(block) \in Nat
        BY <1>1, <2>2, LenProperties
  <2> QED BY <1>1, <2>2, <2>3
<1>4. \A i \in DOMAIN labels : block[i] = [label |-> labels[i], id |-> n + i]
      OBVIOUS
<1> HIDE DEF block
<1>5. /\ new \in Seq(EntryOf) /\ Len(new) = Len(old) + Len(labels)
      /\ \A i \in 1 .. Len(old) : new[i] = old[i]
      /\ \A i \in 1 .. Len(labels) : new[Len(old) + i] = block[i]
  <2>1. /\ new \in Seq(EntryOf) /\ Len(new) = Len(old) + Len(block)
        /\ \A i \in 1 .. Len(new) : new[i] = IF i <= Len(old) THEN old[i] ELSE block[i - Len(old)]
        BY <1>3, ConcatProperties
  <2>2. \A i \in 1 .. Len(old) : i \in 1 .. Len(new) /\ i <= Len(old)
        BY <1>1, <1>3, <2>1
  <2>3. \A i \in 1 .. Len(labels) : Len(old) + i \in 1 .. Len(new) /\ ~(Len(old) + i <= Len(old))
                                    /\ (Len(old) + i) - Len(old) = i
        BY <1>1, <1>3, <2>1
  <2> QED BY <1>3, <2>1, <2>2, <2>3
<1>6. DOMAIN new = 1 .. Len(old) + Len(labels)
      BY <1>5, LenProperties
<1> QED BY <1>1, <1>4, <1>5, <1>6 DEF block

\* The daily files only grow.
Grown ==
    \A d \in Days : /\ DOMAIN daily[d] \subseteq DOMAIN daily'[d]
                    /\ \A i \in DOMAIN daily[d] : daily'[d][i] = daily[d][i]

LEMMA NoRun ==
    ASSUME job' = NoJob
    PROVE  JobFits'
<1>1. 0 \in Days
      BY DayFacts, MemoryAssumption DEF Days
<1>2. <<>> \in Seq(Days) /\ <<>> \in Seq(EntryOf) /\ Len(<<>>) = 0 /\ DOMAIN <<>> = {}
      OBVIOUS
<1>3. NoJob \in RunOf
      BY <1>1, <1>2 DEF NoJob, RunOf
<1>4. /\ NoJob.pc = "none" /\ NoJob.left = <<>> /\ NoJob.due = {}
      /\ NoJob.pc \notin {"listed", "files", "entries", "done"}
      BY DEF NoJob
<1> QED BY <1>2, <1>3, <1>4 DEF JobFits

LEMMA RunKept ==
    ASSUME JobFits, job' = job, Grown, 1 .. ids \subseteq 1 .. ids',
           MarkersOf(hot') = MarkersOf(hot), FoldedOf(hot') = FoldedOf(hot)
    PROVE  JobFits'
<1>1. job.files \in Seq(Days) /\ \A f \in DOMAIN job.files : job.files[f] \in Days
  <2>1. job.files \in Seq(Days)
        BY DEF JobFits, RunOf
  <2> QED BY <2>1
<1>2. \A k : InFiles(k) => InFiles(k)'
  <2> SUFFICES ASSUME NEW k, InFiles(k) PROVE InFiles(k)'
        OBVIOUS
  <2>1. PICK f \in DOMAIN job.files : \E i \in DOMAIN daily[job.files[f]] :
                  k = <<job.files[f], daily[job.files[f]][i].label>>
        BY DEF InFiles
  <2>2. PICK i \in DOMAIN daily[job.files[f]] : k = <<job.files[f], daily[job.files[f]][i].label>>
        BY <2>1
  <2>3. i \in DOMAIN daily'[job.files[f]] /\ daily'[job.files[f]][i] = daily[job.files[f]][i]
        BY <1>1, <2>2 DEF Grown
  <2> QED BY <2>1, <2>2, <2>3 DEF InFiles
<1>3. \A k : InLeft(k)' <=> InLeft(k)
      BY DEF InLeft
<1> QED BY <1>2, <1>3 DEF JobFits

LEMMA SameDays ==
    ASSUME DailyFits, UNCHANGED <<daily, ids>>, now' \in 0 .. MaxNow
    PROVE  DailyFits' /\ Grown /\ 1 .. ids \subseteq 1 .. ids'
BY DEF DailyFits, Grown

LEMMA MemoryInitInv == MemoryInit => MemoryIInv
<1> SUFFICES ASSUME MemoryInit PROVE MemoryIInv
      OBVIOUS
<1>1. /\ now = 0 /\ daily = [d \in Days |-> <<>>] /\ hot = <<>>
      /\ note = [w \in Writers |-> 0] /\ job = NoJob /\ ids = 0 /\ notes = 0 /\ torn = 0
      BY DEF MemoryInit
<1>2. hot \in Seq(PieceOf) /\ DOMAIN hot = {} /\ Len(hot) = 0 /\ \A S : <<>> \in Seq(S)
      BY <1>1
<1>3. HotFits
  <2>1. BodiesOf(hot) = {} /\ ~OpenAt(hot)
        BY <1>2 DEF BodiesOf, OpenAt, TornBefore
  <2>2. MarkersOf(hot) = {} /\ FoldedOf(hot) = {} /\ ExtraOf(hot) = {}
        BY <1>2, <2>1 DEF MarkersOf, FoldedOf, ExtraOf
  <2>3. HollowOf(hot) = {} /\ UnmarkedOf(hot) = {} /\ Owing(hot) = 0
        BY <2>1, <2>2 DEF HollowOf, UnmarkedOf, Owing
  <2>4. DebtOf(hot) = 0
        BY <2>2, <2>3, FS_EmptySet DEF DebtOf
  <2> QED BY <1>1, <1>2, <2>1, <2>4 DEF HotFits
<1>4. DailyFits
  <2>1. 0 \in 0 .. MaxNow
        BY MemoryAssumption
  <2>2. daily \in [Days -> Seq(EntryOf)] /\ \A d \in Days : daily[d] = <<>> /\ DOMAIN daily[d] = {}
        BY <1>1, <1>2
  <2> QED BY <1>1, <2>1, <2>2 DEF DailyFits
<1>5. JobFits
  <2>1. 0 \in Days
        BY DayFacts, MemoryAssumption DEF Days
  <2>2. job \in RunOf
        BY <1>1, <1>2, <2>1 DEF NoJob, RunOf
  <2>3. job.pc = "none" /\ job.left = <<>> /\ job.due = {}
        BY <1>1 DEF NoJob
  <2>4. \A i \in DOMAIN <<>> : FALSE
        OBVIOUS
  <2> QED BY <1>1, <2>2, <2>3, <2>4 DEF JobFits
<1>6. NotesFit
  <2>1. Told(hot, notes) /\ OneBegin(hot) /\ WholeIn(hot)
        BY <1>2 DEF Told, OneBegin, WholeIn
  <2>2. \A w \in Writers : note[w] = 0
        BY <1>1
  <2> QED BY <1>1, <2>1, <2>2 DEF NotesFit
<1> QED BY <1>3, <1>4, <1>5, <1>6 DEF MemoryIInv

LEMMA LaterStep ==
    ASSUME MemoryIInv, Later
    PROVE  MemoryIInv'
<1>1. now' \in 0 .. MaxNow /\ UNCHANGED <<daily, hot, note, job, ids, notes, torn>>
      BY MemoryAssumption DEF Later, MemoryIInv, DailyFits
<1>2. DailyFits' /\ Grown /\ 1 .. ids \subseteq 1 .. ids'
      BY <1>1, SameDays DEF MemoryIInv
<1>3. JobFits'
      BY <1>1, <1>2, RunKept DEF MemoryIInv
<1>4. HotFits' /\ NotesFit'
      BY <1>1 DEF MemoryIInv, HotFits, NotesFit
<1> QED BY <1>2, <1>3, <1>4 DEF MemoryIInv

\* A block of entries is written.
LEMMA DailyGrows ==
    ASSUME DailyFits, NEW labels \in Seq(Label), UNCHANGED now,
           daily' = [daily EXCEPT ![Today] =
                        @ \o [i \in DOMAIN labels |-> [label |-> labels[i], id |-> ids + i]]],
           ids' = ids + Len(labels)
    PROVE  DailyFits' /\ Grown /\ 1 .. ids \subseteq 1 .. ids'
<1> DEFINE old == daily[Today]
           new == daily[Today] \o [i \in DOMAIN labels |-> [label |-> labels[i], id |-> ids + i]]
           n == Len(labels)
           o == Len(old)
<1>1. Today \in Days
      BY DayFacts DEF DailyFits, Today
<1>2. old \in Seq(EntryOf) /\ ids \in Nat
      BY <1>1 DEF DailyFits
<1>3. /\ new \in Seq(EntryOf) /\ n \in Nat /\ DOMAIN labels = 1 .. n
      /\ o \in Nat /\ DOMAIN old = 1 .. o /\ DOMAIN new = 1 .. o + n
      /\ \A i \in DOMAIN old : new[i] = old[i]
      /\ \A i \in DOMAIN labels : new[o + i] = [label |-> labels[i], id |-> ids + i]
      BY <1>2, BlockNext
<1>4. daily' = [daily EXCEPT ![Today] = new] /\ daily \in [Days -> Seq(EntryOf)]
      BY DEF DailyFits
<1>9. ids' = ids + n
      OBVIOUS
<1> HIDE DEF new, n, o
<1>5. /\ daily' \in [Days -> Seq(EntryOf)] /\ daily'[Today] = new
      /\ \A d \in Days : d # Today => daily'[d] = daily[d]
      BY <1>1, <1>3, <1>4
<1>6. Grown
  <2>1. DOMAIN old \subseteq DOMAIN new
        BY <1>3
  <2> QED BY <1>3, <1>5, <2>1 DEF Grown
<1>7. ids' \in Nat /\ 1 .. ids \subseteq 1 .. ids'
      BY <1>2, <1>3, <1>9
<1> DEFINE Fresh(d, i, k) == d = Today /\ k \in 1 .. n /\ i = o + k /\ daily'[d][i].id = ids + k
           Old(d, i) == i \in DOMAIN daily[d] /\ daily'[d][i].id = daily[d][i].id /\ daily[d][i].id \in 1 .. ids
<1> HIDE DEF Fresh, Old, old
<1>8. \A d \in Days : \A i \in DOMAIN daily'[d] : Old(d, i) \/ \E k \in 1 .. n : Fresh(d, i, k)
  <2> TAKE d \in Days
  <2> TAKE i \in DOMAIN daily'[d]
  <2>1. CASE i \in DOMAIN daily[d]
    <3>1. daily'[d][i] = daily[d][i]
          BY <1>6, <2>1 DEF Grown
    <3>2. daily[d][i].id \in 1 .. ids
          BY <2>1 DEF DailyFits
    <3>3. Old(d, i)
          BY <2>1, <3>1, <3>2 DEF Old
    <3> QED BY <3>3
  <2>2. CASE i \notin DOMAIN daily[d]
    <3>1. d = Today /\ i \in 1 .. o + n /\ i \notin 1 .. o
          BY <1>3, <1>5, <2>2 DEF old
    <3>2. PICK k \in 1 .. n : i = o + k
      <4>1. i - o \in 1 .. n /\ i = o + (i - o)
            BY <1>3, <3>1
      <4> QED BY <4>1
    <3>3. daily'[d][i].id = ids + k
      <4>1. k \in DOMAIN labels /\ daily'[d][i] = new[o + k]
            BY <1>3, <1>5, <3>1, <3>2
      <4>2. new[o + k] = [label |-> labels[k], id |-> ids + k]
            BY <1>3, <4>1
      <4> QED BY <4>1, <4>2
    <3>4. Fresh(d, i, k)
          BY <3>1, <3>2, <3>3 DEF Fresh
    <3> QED BY <3>4
  <2> QED BY <2>1, <2>2
<1>10. \A m \in 1 .. ids' : \E d \in Days : \E i \in DOMAIN daily'[d] : daily'[d][i].id = m
  <2> TAKE m \in 1 .. ids'
  <2>1. CASE m <= ids
    <3>1. m \in 1 .. ids
          BY <1>2, <1>7, <2>1
    <3>2. PICK d \in Days : \E i \in DOMAIN daily[d] : daily[d][i].id = m
          BY <3>1 DEF DailyFits
    <3>3. PICK i \in DOMAIN daily[d] : daily[d][i].id = m
          BY <3>2
    <3>4. i \in DOMAIN daily'[d] /\ daily'[d][i] = daily[d][i]
          BY <1>6, <3>3 DEF Grown
    <3> QED BY <3>3, <3>4
  <2>2. CASE ~(m <= ids)
    <3>1. m - ids \in 1 .. n /\ ids + (m - ids) = m /\ o + (m - ids) \in 1 .. o + n
          BY <1>2, <1>3, <1>9, <2>2
    <3>2. new[o + (m - ids)] = [label |-> labels[m - ids], id |-> ids + (m - ids)]
          BY <1>3, <3>1
    <3>3. new[o + (m - ids)].id = m
          BY <3>1, <3>2
    <3> QED BY <1>1, <1>3, <1>5, <3>1, <3>3
  <2> QED BY <2>1, <2>2
<1>11. \A d \in Days : \A i \in DOMAIN daily'[d] : daily'[d][i].id \in 1 .. ids'
  <2> TAKE d \in Days
  <2> TAKE i \in DOMAIN daily'[d]
  <2>1. CASE Old(d, i)
    <3>1. daily'[d][i].id \in 1 .. ids
          BY <2>1 DEF Old
    <3> QED BY <1>7, <3>1
  <2>2. CASE \E k \in 1 .. n : Fresh(d, i, k)
    <3>1. PICK k \in 1 .. n : daily'[d][i].id = ids + k
          BY <2>2 DEF Fresh
    <3>2. ids + k \in 1 .. ids + n
          BY <1>2, <1>3
    <3> QED BY <1>9, <3>1, <3>2
  <2> QED BY <1>8, <2>1, <2>2
<1>12. \A d, e \in Days : \A i \in DOMAIN daily'[d], j \in DOMAIN daily'[e] :
          daily'[d][i].id = daily'[e][j].id => d = e /\ i = j
  <2> TAKE d \in Days, e \in Days
  <2> TAKE i \in DOMAIN daily'[d], j \in DOMAIN daily'[e]
  <2> HAVE daily'[d][i].id = daily'[e][j].id
  <2>1. CASE Old(d, i) /\ Old(e, j)
        BY <2>1 DEF DailyFits, Old
  <2>0. \A k \in 1 .. n : ids + k \notin 1 .. ids
        BY <1>2, <1>3
  <2>2. CASE Old(d, i) /\ \E k \in 1 .. n : Fresh(e, j, k)
        BY <2>0, <2>2 DEF Old, Fresh
  <2>3. CASE Old(e, j) /\ \E k \in 1 .. n : Fresh(d, i, k)
        BY <2>0, <2>3 DEF Old, Fresh
  <2>4. CASE (\E k \in 1 .. n : Fresh(d, i, k)) /\ \E k \in 1 .. n : Fresh(e, j, k)
    <3>1. PICK k \in 1 .. n : d = Today /\ i = o + k /\ daily'[d][i].id = ids + k
          BY <2>4 DEF Fresh
    <3>2. PICK m \in 1 .. n : e = Today /\ j = o + m /\ daily'[e][j].id = ids + m
          BY <2>4 DEF Fresh
    <3>3. ids + k = ids + m
          BY <3>1, <3>2
    <3>4. k = m
          BY <1>2, <1>3, <3>3
    <3> QED BY <3>1, <3>2, <3>4
  <2> QED BY <1>8, <2>1, <2>2, <2>3, <2>4
<1>13. now' \in 0 .. MaxNow
      BY DEF DailyFits
<1>15. Days' = Days
      BY DEF Days
<1>16. DailyFits'
      BY <1>5, <1>7, <1>10, <1>11, <1>12, <1>13, <1>15 DEF DailyFits
<1> QED BY <1>6, <1>7, <1>16

LEMMA AppendDailyStep ==
    ASSUME MemoryIInv, AppendDaily
    PROVE  MemoryIInv'
<1>1. PICK hs \in {<<>>} \cup {<<h>> : h \in Headings} :
        LET labels == <<<<"ts", now>>>> \o [i \in DOMAIN hs |-> <<"heading", hs[i]>>] IN
        /\ daily' = [daily EXCEPT ![Today] =
                        @ \o [i \in DOMAIN labels |-> [label |-> labels[i], id |-> ids + i]]]
        /\ ids' = ids + Len(labels)
        /\ UNCHANGED <<now, hot, note, job, notes, runs, stitches, torn, stops>>
      BY DEF AppendDaily
<1> DEFINE labels == <<<<"ts", now>>>> \o [i \in DOMAIN hs |-> <<"heading", hs[i]>>]
<1>2. labels \in Seq(Label)
  <2>1. hs \in Seq(Nat)
    <3>1. \A h \in Headings : h \in Nat
          BY MemoryAssumption
    <3>2. \A h \in Nat : <<h>> \in Seq(Nat)
          OBVIOUS
    <3>3. <<>> \in Seq(Nat)
          OBVIOUS
    <3> QED BY <3>1, <3>2, <3>3
  <2>2. Len(hs) \in Nat /\ DOMAIN hs = 1 .. Len(hs) /\ \A i \in 1 .. Len(hs) : hs[i] \in Nat
        BY <2>1, LenProperties
  <2>3. [i \in DOMAIN hs |-> <<"heading", hs[i]>>] \in [1 .. Len(hs) -> Label]
        BY <2>2 DEF Label
  <2>4. [i \in DOMAIN hs |-> <<"heading", hs[i]>>] \in Seq(Label)
        BY <2>2, <2>3, SeqDef
  <2>5. now \in Nat
        BY MemoryAssumption DEF MemoryIInv, DailyFits
  <2>6. <<<<"ts", now>>>> \in Seq(Label)
        BY <2>5 DEF Label
  <2> QED BY <2>4, <2>6, ConcatProperties
<1>3. /\ daily' = [daily EXCEPT ![Today] =
                      @ \o [i \in DOMAIN labels |-> [label |-> labels[i], id |-> ids + i]]]
      /\ ids' = ids + Len(labels)
      /\ UNCHANGED <<now, hot, note, job, notes, torn>>
      BY <1>1
<1> HIDE DEF labels
<1>4. DailyFits' /\ Grown /\ 1 .. ids \subseteq 1 .. ids'
      BY <1>2, <1>3, DailyGrows DEF MemoryIInv
<1>5. JobFits'
      BY <1>3, <1>4, RunKept DEF MemoryIInv
<1>6. HotFits' /\ NotesFit'
      BY <1>3, <1>4 DEF MemoryIInv, HotFits, NotesFit
<1> QED BY <1>4, <1>5, <1>6 DEF MemoryIInv

LEMMA MarkersAre == Markers = MarkersOf(hot)
BY DEF Markers, Swallowed, MarkersOf, Reads, TornBefore

\* A note or a summary is appended to HOT.md.
LEMMA HotKept ==
    ASSUME HotFits, DailyFits, JobFits, NEW p \in PieceOf, p.is \in {"begin", "end", "stitch"},
           hot' = Append(hot, p), UNCHANGED <<now, daily, ids, job, torn>>
    PROVE  HotFits' /\ DailyFits' /\ JobFits'
<1>1. DailyFits' /\ Grown /\ 1 .. ids \subseteq 1 .. ids'
  <2>1. now' \in 0 .. MaxNow
        BY DEF DailyFits
  <2> QED BY <2>1, SameDays
<1>2. hot \in Seq(PieceOf) /\ p.is \notin {"torn", "head", "body"}
      BY DEF HotFits
<1>3. /\ DebtOf(hot') = DebtOf(hot) /\ MarkersOf(hot') = MarkersOf(hot)
      /\ FoldedOf(hot') = FoldedOf(hot)
      BY <1>2, PlainPiece
<1>4. HotFits'
  <2>1. hot' \in Seq(PieceOf) /\ \A i \in DOMAIN hot : hot'[i] = hot[i]
        BY <1>2, PieceNext
  <2>2. BodiesOf(hot') = BodiesOf(hot) /\ BodiesOf(hot) \subseteq DOMAIN hot
        BY <1>2, BodiesNext DEF BodiesOf
  <2> QED BY <1>3, <2>1, <2>2 DEF HotFits
<1>5. JobFits'
      BY <1>1, <1>3, RunKept
<1> QED BY <1>1, <1>4, <1>5

LEMMA NoteBeginStep ==
    ASSUME MemoryIInv, NEW w \in Writers, NoteBegin(w)
    PROVE  MemoryIInv'
<1> DEFINE p == Piece("begin", notes + 1)
<1>1. /\ notes \in Nat /\ note \in [Writers -> 0 .. notes] /\ \A v \in Writers : note[v] = 0
      /\ notes' = notes + 1 /\ note' = [note EXCEPT ![w] = notes + 1] /\ hot' = Append(hot, p)
      /\ UNCHANGED <<now, daily, job, ids, torn>>
      BY DEF NoteBegin, MemoryIInv, NotesFit, HotFree
<1>2. p \in PieceOf /\ p.is = "begin" /\ p.id = notes + 1
  <2>1. p \in PieceOf
        BY <1>1, PiecesAre
  <2> QED BY <2>1 DEF Piece
<1> HIDE DEF p
<1>3. HotFits' /\ DailyFits' /\ JobFits'
      BY <1>1, <1>2, HotKept DEF MemoryIInv
<1>4. /\ Told(hot', notes + 1) /\ OneBegin(hot') /\ WholeIn(hot') /\ OpenNote(hot', notes + 1)
  <2>1. hot \in Seq(PieceOf) /\ Told(hot, notes) /\ OneBegin(hot) /\ WholeIn(hot)
        BY DEF MemoryIInv, HotFits, NotesFit
  <2> QED BY <1>1, <1>2, <2>1, LockedNext
<1>5. /\ note' \in [Writers -> 0 .. notes'] /\ notes' \in Nat
      /\ \A v \in Writers : note'[v] # 0 => v = w /\ note'[v] = notes + 1
  <2>1. notes + 1 \in 0 .. notes + 1 /\ 0 .. notes \subseteq 0 .. notes + 1 /\ notes + 1 \in Nat
        BY <1>1
  <2>2. note \in [Writers -> 0 .. notes + 1]
        BY <1>1, <2>1
  <2>3. note' \in [Writers -> 0 .. notes + 1]
        BY <1>1, <2>1, <2>2
  <2>4. note'[w] = notes + 1 /\ \A v \in Writers : v # w => note'[v] = note[v]
        BY <1>1
  <2> QED BY <1>1, <2>1, <2>3, <2>4
<1>6. NotesFit'
      BY <1>1, <1>4, <1>5 DEF NotesFit
<1> QED BY <1>3, <1>6 DEF MemoryIInv

LEMMA NoteEndStep ==
    ASSUME MemoryIInv, NEW w \in Writers, NoteEnd(w)
    PROVE  MemoryIInv'
<1> DEFINE p == Piece("end", note[w])
<1>1. /\ notes \in Nat /\ note \in [Writers -> 0 .. notes] /\ note[w] # 0
      /\ \A v \in Writers : note[v] # 0 => v = w
      /\ notes' = notes /\ note' = [note EXCEPT ![w] = 0] /\ hot' = Append(hot, p)
      /\ UNCHANGED <<now, daily, job, ids, torn>>
      BY DEF NoteEnd, MemoryIInv, NotesFit
<1>0. note[w] \in 1 .. notes /\ note[w] \in Nat
  <2>1. note[w] \in 0 .. notes
        BY <1>1
  <2> QED BY <1>1, <2>1
<1>2. p \in PieceOf /\ p.is = "end" /\ p.id = note[w]
  <2>1. p \in PieceOf
        BY <1>0, PiecesAre
  <2> QED BY <2>1 DEF Piece
<1> HIDE DEF p
<1>3. HotFits' /\ DailyFits' /\ JobFits'
      BY <1>1, <1>2, HotKept DEF MemoryIInv
<1>4. /\ Told(hot', notes) /\ OneBegin(hot') /\ WholeIn(hot')
  <2>1. hot \in Seq(PieceOf) /\ Told(hot, notes) /\ OneBegin(hot) /\ WholeIn(hot) /\ OpenNote(hot, note[w])
        BY <1>1 DEF MemoryIInv, HotFits, NotesFit
  <2> QED BY <1>0, <1>1, <1>2, <2>1, LockedNext
<1>5. note' \in [Writers -> 0 .. notes'] /\ \A v \in Writers : note'[v] = 0
  <2>1. 0 \in 0 .. notes
        BY <1>1
  <2> QED BY <1>1, <2>1
<1>6. NotesFit'
      BY <1>1, <1>4, <1>5 DEF NotesFit
<1> QED BY <1>3, <1>6 DEF MemoryIInv

LEMMA StitchStep ==
    ASSUME MemoryIInv, Stitch
    PROVE  MemoryIInv'
<1> DEFINE p == Piece("stitch", 0)
<1>1. /\ hot' = Append(hot, p) /\ \A v \in Writers : note[v] = 0
      /\ UNCHANGED <<now, daily, note, notes, job, ids, torn>>
      BY DEF Stitch, HotFree
<1>2. p \in PieceOf /\ p.is = "stitch"
  <2>1. p \in PieceOf
        BY PiecesAre
  <2> QED BY <2>1 DEF Piece
<1> HIDE DEF p
<1>3. HotFits' /\ DailyFits' /\ JobFits'
      BY <1>1, <1>2, HotKept DEF MemoryIInv
<1>4. /\ Told(hot', notes) /\ OneBegin(hot') /\ WholeIn(hot')
  <2>1. hot \in Seq(PieceOf) /\ Told(hot, notes) /\ OneBegin(hot) /\ WholeIn(hot) /\ notes \in Nat
        BY DEF MemoryIInv, HotFits, NotesFit
  <2> QED BY <1>1, <1>2, <2>1, LockedNext
<1>5. NotesFit'
      BY <1>1, <1>4 DEF MemoryIInv, NotesFit
<1> QED BY <1>3, <1>5 DEF MemoryIInv

\* A step of a run that leaves HOT.md alone.
LEMMA HotAlone ==
    ASSUME MemoryIInv, UNCHANGED <<now, daily, hot, note, ids, notes, torn>>
    PROVE  HotFits' /\ DailyFits' /\ NotesFit'
<1>1. DailyFits'
  <2>1. now' \in 0 .. MaxNow
        BY DEF MemoryIInv, DailyFits
  <2> QED BY <2>1, SameDays DEF MemoryIInv
<1> QED BY <1>1 DEF MemoryIInv, HotFits, NotesFit

LEMMA ListDailyStep ==
    ASSUME MemoryIInv, ListDaily
    PROVE  MemoryIInv'
<1>1. /\ job = NoJob /\ job' = [NoJob EXCEPT !.pc = "listed", !.files = Listed, !.due = Keys]
      /\ UNCHANGED <<now, daily, hot, note, ids, notes, torn>>
      BY DEF ListDaily
<1>2. HotFits' /\ DailyFits' /\ NotesFit'
      BY <1>1, HotAlone
<1>3. /\ Listed \in Seq(Days)
      /\ \A d \in Days : daily[d] # <<>> => \E f \in DOMAIN Listed : Listed[f] = d
      BY ListedDays DEF Listed
<1>4. \A k \in Keys : \E d \in Days : \E i \in DOMAIN daily[d] : k = <<d, daily[d][i].label>>
      BY DEF Keys
<1>5. Keys \subseteq KeyOf
  <2> SUFFICES ASSUME NEW d \in Days, NEW i \in DOMAIN daily[d] PROVE <<d, daily[d][i].label>> \in KeyOf
        BY <1>4
  <2>1. daily[d] \in Seq(EntryOf)
        BY DEF MemoryIInv, DailyFits
  <2>2. daily[d][i] \in EntryOf
        BY <2>1
  <2>3. d \in Nat
        BY DEF Days
  <2> QED BY <2>2, <2>3 DEF EntryOf, KeyOf
<1>6. /\ job'.pc = "listed" /\ job'.files = Listed /\ job'.due = Keys /\ job'.left = <<>>
      /\ job'.seen = {} /\ job'.day = 0
      /\ job' = [pc |-> "listed", files |-> Listed, day |-> 0, left |-> <<>>, seen |-> {}, due |-> Keys]
      BY <1>1 DEF NoJob
<1>7. job' \in RunOf
  <2>1. 0 \in Days
        BY DayFacts, MemoryAssumption DEF Days
  <2>2. <<>> \in Seq(EntryOf)
        OBVIOUS
  <2> QED BY <1>3, <1>5, <1>6, <2>1, <2>2 DEF RunOf
<1>8. \A k \in Keys : InFiles(k)'
  <2> SUFFICES ASSUME NEW k \in Keys PROVE InFiles(k)'
        OBVIOUS
  <2>1. PICK d \in Days : \E i \in DOMAIN daily[d] : k = <<d, daily[d][i].label>>
        BY <1>4
  <2>2. daily[d] # <<>>
        BY <2>1
  <2>3. PICK f \in DOMAIN Listed : Listed[f] = d
        BY <1>3, <2>2
  <2> QED BY <1>1, <1>6, <2>1, <2>3 DEF InFiles
<1>9. JobFits'
  <2>1. \A i \in DOMAIN <<>> : FALSE
        OBVIOUS
  <2> QED BY <1>6, <1>7, <1>8, <2>1 DEF JobFits
<1> QED BY <1>2, <1>9 DEF MemoryIInv

\* What JobFits says of a run, part by part.
LEMMA RunFacts ==
    ASSUME JobFits
    PROVE  /\ job \in RunOf /\ job.files \in Seq(Days) /\ job.day \in Days /\ job.left \in Seq(EntryOf)
           /\ job.seen \subseteq KeyOf /\ job.due \subseteq KeyOf
           /\ \A i \in DOMAIN job.left : job.left[i].id \in 1 .. ids
           /\ \A k \in job.due : k \in job.seen \/ InLeft(k) \/ InFiles(k)
           /\ job.pc # "entries" => job.left = <<>>
           /\ job.pc \in {"files", "entries", "done"} =>
                 MarkersOf(hot) \subseteq job.seen /\ job.seen \subseteq MarkersOf(hot) \cup FoldedOf(hot)
BY DEF JobFits, RunOf

LEMMA MarkersTyped ==
    ASSUME HotFits
    PROVE  MarkersOf(hot) \subseteq KeyOf
<1>1. \A i \in DOMAIN hot : hot[i] \in PieceOf
      BY DEF HotFits
<1> QED BY <1>1 DEF MarkersOf, PieceOf

LEMMA LoadMarkersStep ==
    ASSUME MemoryIInv, LoadMarkers
    PROVE  MemoryIInv'
<1>1. /\ job.pc = "listed" /\ job' = [job EXCEPT !.pc = "files", !.seen = MarkersOf(hot)]
      /\ UNCHANGED <<now, daily, hot, note, ids, notes, torn>>
      BY MarkersAre DEF LoadMarkers
<1>2. HotFits' /\ DailyFits' /\ NotesFit'
      BY <1>1, HotAlone
<1>3. JobFits
      BY DEF MemoryIInv
<1>4. MarkersOf(hot) \subseteq KeyOf
      BY MarkersTyped DEF MemoryIInv
<1>5. job' \in RunOf
      BY <1>1, <1>3, <1>4, RunFacts DEF RunOf
<1>6. /\ job'.pc = "files" /\ job'.seen = MarkersOf(hot) /\ job'.files = job.files
      /\ job'.due = job.due /\ job'.left = job.left /\ job'.day = job.day /\ job.left = <<>>
      BY <1>1, <1>3, RunFacts DEF RunOf
<1>7. \A k \in job.due : InFiles(k)'
  <2>1. job.seen = {}
        BY <1>1, <1>3 DEF JobFits
  <2>2. \A k : ~InLeft(k)
        BY <1>6 DEF InLeft
  <2> TAKE k \in job.due
  <2>3. InFiles(k)
        BY <1>3, <2>1, <2>2, RunFacts
  <2>4. InFiles(k)' <=> InFiles(k)
        BY <1>1, <1>6 DEF InFiles
  <2> QED BY <2>3, <2>4
<1>8. JobFits'
      BY <1>1, <1>3, <1>5, <1>6, <1>7, RunFacts DEF JobFits
<1> QED BY <1>2, <1>8 DEF MemoryIInv

\* Of a sequence that is not empty, what is left without its first element.
LEMMA Rest ==
    ASSUME NEW S, NEW s \in Seq(S), s # <<>>
    PROVE  /\ s[1] \in S /\ 1 \in DOMAIN s /\ Tail(s) \in Seq(S)
           /\ \A i \in DOMAIN s : i # 1 => i - 1 \in DOMAIN Tail(s) /\ Tail(s)[i - 1] = s[i]
           /\ \A i \in DOMAIN Tail(s) : i + 1 \in DOMAIN s /\ Tail(s)[i] = s[i + 1]
<1>1. /\ Len(s) \in Nat /\ DOMAIN s = 1 .. Len(s) /\ Len(s) # 0
      /\ Tail(s) \in Seq(S) /\ Len(Tail(s)) = Len(s) - 1 /\ DOMAIN Tail(s) = 1 .. Len(Tail(s))
      /\ \A i \in 1 .. Len(Tail(s)) : Tail(s)[i] = s[i + 1]
      OBVIOUS
<1>2. \A i \in 1 .. Len(s) : i # 1 => i - 1 \in 1 .. Len(s) - 1 /\ (i - 1) + 1 = i
      BY <1>1
<1>3. \A i \in 1 .. Len(s) - 1 : i + 1 \in 1 .. Len(s)
      BY <1>1
<1>4. 1 \in 1 .. Len(s) /\ s[1] \in S
      BY <1>1
<1> QED BY <1>1, <1>2, <1>3, <1>4

LEMMA ParseStep ==
    ASSUME MemoryIInv, Parse
    PROVE  MemoryIInv'
<1> DEFINE d == job.files[1]
<1>1. /\ job.pc = "files" /\ job.files # <<>>
      /\ job' = [job EXCEPT !.pc = "entries", !.day = d, !.files = Tail(job.files), !.left = daily[d]]
      /\ UNCHANGED <<now, daily, hot, note, ids, notes, torn>>
      BY DEF Parse
<1>2. HotFits' /\ DailyFits' /\ NotesFit'
      BY <1>1, HotAlone
<1>3. JobFits
      BY DEF MemoryIInv
<1>4. /\ d \in Days /\ 1 \in DOMAIN job.files /\ Tail(job.files) \in Seq(Days)
      /\ \A f \in DOMAIN job.files : f # 1 =>
            f - 1 \in DOMAIN Tail(job.files) /\ Tail(job.files)[f - 1] = job.files[f]
      BY <1>1, <1>3, RunFacts, Rest
<1>5. daily[d] \in Seq(EntryOf) /\ \A i \in DOMAIN daily[d] : daily[d][i].id \in 1 .. ids
      BY <1>4 DEF MemoryIInv, DailyFits
<1> DEFINE left == daily[d]
<1> HIDE DEF d, left
<1>6. job' \in RunOf
      BY <1>1, <1>3, <1>4, <1>5, RunFacts DEF RunOf
<1>7. /\ job'.pc = "entries" /\ job'.seen = job.seen /\ job'.files = Tail(job.files)
      /\ job'.due = job.due /\ job'.left = daily[d] /\ job'.day = d /\ job.left = <<>>
      BY <1>1, <1>3, RunFacts DEF RunOf
<1>8. \A k \in job.due : k \in job.seen \/ InLeft(k)' \/ InFiles(k)'
  <2> TAKE k \in job.due
  <2>1. ~InLeft(k)
    <3>1. \A i \in DOMAIN <<>> : FALSE
          OBVIOUS
    <3> QED BY <1>7, <3>1 DEF InLeft
  <2>2. CASE InFiles(k)
    <3>1. PICK f \in DOMAIN job.files : \E i \in DOMAIN daily[job.files[f]] :
                  k = <<job.files[f], daily[job.files[f]][i].label>>
          BY <2>2 DEF InFiles
    <3>2. CASE f = 1
      <4>1. \E i \in DOMAIN daily[d] : k = <<d, daily[d][i].label>>
            BY <3>1, <3>2 DEF d
      <4> QED BY <1>7, <4>1 DEF InLeft
    <3>3. CASE f # 1
      <4>1. f - 1 \in DOMAIN job'.files /\ job'.files[f - 1] = job.files[f]
            BY <1>4, <1>7, <3>3
      <4>2. \E i \in DOMAIN daily'[job'.files[f - 1]] :
                  k = <<job'.files[f - 1], daily'[job'.files[f - 1]][i].label>>
            BY <1>1, <3>1, <4>1
      <4> QED BY <4>1, <4>2 DEF InFiles
    <3> QED BY <3>2, <3>3
  <2> QED BY <1>3, <2>1, <2>2, RunFacts
<1>9. JobFits'
      BY <1>1, <1>3, <1>5, <1>6, <1>7, <1>8, RunFacts DEF JobFits
<1> QED BY <1>2, <1>9 DEF MemoryIInv

LEMMA FileDoneStep ==
    ASSUME MemoryIInv, FileDone
    PROVE  MemoryIInv'
<1>1. /\ job.pc = "entries" /\ job.left = <<>> /\ job' = [job EXCEPT !.pc = "files"]
      /\ UNCHANGED <<now, daily, hot, note, ids, notes, torn>>
      BY DEF FileDone
<1>2. HotFits' /\ DailyFits' /\ NotesFit'
      BY <1>1, HotAlone
<1>3. JobFits
      BY DEF MemoryIInv
<1>4. /\ job' \in RunOf /\ job'.pc = "files" /\ job'.seen = job.seen /\ job'.files = job.files
      /\ job'.due = job.due /\ job'.left = job.left /\ job'.day = job.day
      BY <1>1, <1>3, RunFacts DEF RunOf
<1>5. \A k : (InLeft(k)' <=> InLeft(k)) /\ (InFiles(k)' <=> InFiles(k))
      BY <1>1, <1>4 DEF InLeft, InFiles
<1>6. JobFits'
      BY <1>1, <1>3, <1>4, <1>5, RunFacts DEF JobFits
<1> QED BY <1>2, <1>6 DEF MemoryIInv

LEMMA FinishStep ==
    ASSUME MemoryIInv, Finish
    PROVE  MemoryIInv'
<1>1. /\ job.pc = "files" /\ job.files = <<>> /\ job' = [job EXCEPT !.pc = "done"]
      /\ UNCHANGED <<now, daily, hot, note, ids, notes, torn>>
      BY DEF Finish
<1>2. HotFits' /\ DailyFits' /\ NotesFit'
      BY <1>1, HotAlone
<1>3. JobFits
      BY DEF MemoryIInv
<1>4. /\ job' \in RunOf /\ job'.pc = "done" /\ job'.seen = job.seen /\ job'.files = job.files
      /\ job'.due = job.due /\ job'.left = job.left /\ job'.day = job.day
      BY <1>1, <1>3, RunFacts DEF RunOf
<1>5. \A k : (InLeft(k)' <=> InLeft(k)) /\ (InFiles(k)' <=> InFiles(k))
      BY <1>1, <1>4 DEF InLeft, InFiles
<1>6. JobFits'
      BY <1>1, <1>3, <1>4, <1>5, RunFacts DEF JobFits
<1> QED BY <1>2, <1>6 DEF MemoryIInv

LEMMA CloseOrStopStep ==
    ASSUME MemoryIInv, Close \/ Stop
    PROVE  MemoryIInv'
<1>1. job' = NoJob /\ UNCHANGED <<now, daily, hot, note, ids, notes, torn>>
      BY DEF Close, Stop
<1>2. HotFits' /\ DailyFits' /\ NotesFit'
      BY <1>1, HotAlone
<1>3. JobFits'
      BY <1>1, NoRun
<1> QED BY <1>2, <1>3 DEF MemoryIInv

\* A piece of an entry is no note and no summary.
LEMMA NotesKept ==
    ASSUME MemoryIInv, NEW p \in PieceOf, p.is \in {"torn", "head", "body"},
           NEW h \in Seq(PieceOf), Told(h, notes), OneBegin(h), WholeIn(h),
           \A w \in Writers : note[w] # 0 => OpenNote(h, note[w])
    PROVE  /\ Told(Append(h, p), notes) /\ OneBegin(Append(h, p)) /\ WholeIn(Append(h, p))
           /\ \A w \in Writers : note[w] # 0 => OpenNote(Append(h, p), note[w])
<1>1. /\ notes \in Nat /\ \A w \in Writers : note[w] \in Nat
      /\ p.is \notin {"begin", "end", "stitch"} /\ p.is \notin {"begin", "end"}
  <2>1. notes \in Nat /\ note \in [Writers -> 0 .. notes]
        BY DEF MemoryIInv, NotesFit
  <2> QED BY <2>1
<1> QED BY <1>1, LockedNext

\* The entry a run stands at.
LEMMA EntryFacts ==
    ASSUME MemoryIInv, job.pc = "entries", job.left # <<>>
    PROVE  /\ Key \in KeyOf /\ job.left[1].id \in 1 .. ids /\ job.left[1].id \in Nat
           /\ Heading(Key) \in PieceOf /\ Heading(Key).is = "head" /\ Heading(Key).key = Key
           /\ Body(Key, job.left[1].id) \in PieceOf /\ Body(Key, job.left[1].id).is = "body"
           /\ Body(Key, job.left[1].id).key = Key /\ Body(Key, job.left[1].id).id = job.left[1].id
<1>0. JobFits
      BY DEF MemoryIInv
<1>1. job.left[1] \in EntryOf /\ 1 \in DOMAIN job.left /\ job.day \in Nat
  <2>1. job.left \in Seq(EntryOf) /\ job.day \in Days
        BY <1>0, RunFacts
  <2>2. job.day \in Nat
        BY <2>1 DEF Days
  <2> QED BY <2>1, <2>2, Rest
<1>2. Key \in KeyOf
      BY <1>1 DEF Key, KeyOf, EntryOf
<1>3. job.left[1].id \in 1 .. ids /\ job.left[1].id \in Nat
      BY <1>0, <1>1, RunFacts DEF EntryOf
<1>4. Heading(Key) \in PieceOf /\ Body(Key, job.left[1].id) \in PieceOf
      BY <1>2, <1>3, PiecesAre
<1> QED BY <1>2, <1>3, <1>4 DEF Heading, Body

LEMMA FoldFailsStep ==
    ASSUME MemoryIInv, FoldFails
    PROVE  MemoryIInv'
<1>1. /\ job.pc = "entries" /\ job.left # <<>> /\ torn' = torn + 1 /\ job' = NoJob
      /\ UNCHANGED <<now, daily, note, ids, notes>>
      BY DEF FoldFails
<1>2. PICK p \in {Piece("torn", 0), Heading(Key)} : hot' = Append(hot, p)
      BY DEF FoldFails
<1>3. p \in PieceOf /\ (p.is = "torn" \/ p.is = "head")
  <2>1. Piece("torn", 0).is = "torn"
        BY DEF Piece
  <2> QED BY <1>1, <1>2, <2>1, EntryFacts, PiecesAre
<1>4. hot \in Seq(PieceOf) /\ torn \in Nat /\ DebtOf(hot) <= torn
      BY DEF MemoryIInv, HotFits
<1>5. HotFits'
  <2>1. DebtOf(hot') <= DebtOf(hot) + 1
        BY <1>2, <1>3, <1>4, TornPiece, HeadPiece
  <2>2. hot' \in Seq(PieceOf) /\ \A i \in DOMAIN hot : hot'[i] = hot[i]
        BY <1>2, <1>3, <1>4, PieceNext
  <2>3. DebtOf(hot') \in Nat /\ DebtOf(hot) \in Nat
        BY <1>4, <2>2, DebtIsNat
  <2>4. DebtOf(hot') <= torn'
        BY <1>1, <1>4, <2>1, <2>3
  <2>5. BodiesOf(hot') = BodiesOf(hot) /\ BodiesOf(hot) \subseteq DOMAIN hot
    <3>1. p.is # "body"
          BY <1>3
    <3> QED BY <1>2, <1>3, <1>4, <3>1, BodiesNext DEF BodiesOf
  <2>6. \A i \in BodiesOf(hot') : hot'[i].id \in 1 .. ids'
        BY <1>1, <2>2, <2>5 DEF MemoryIInv, HotFits
  <2> QED BY <1>1, <1>4, <2>2, <2>4, <2>6 DEF HotFits
<1>6. DailyFits'
  <2>1. now' \in 0 .. MaxNow
        BY <1>1 DEF MemoryIInv, DailyFits
  <2> QED BY <1>1, <2>1, SameDays DEF MemoryIInv
<1>7. JobFits'
      BY <1>1, NoRun
<1>8. NotesFit'
  <2>1. /\ Told(hot', notes) /\ OneBegin(hot') /\ WholeIn(hot')
        /\ \A w \in Writers : note[w] # 0 => OpenNote(hot', note[w])
        BY <1>2, <1>3, <1>4, NotesKept DEF MemoryIInv, NotesFit
  <2> QED BY <1>1, <2>1 DEF MemoryIInv, NotesFit
<1> QED BY <1>5, <1>6, <1>7, <1>8 DEF MemoryIInv

\* HOT.md with an entry more, whole.
LEMMA EntryWritten ==
    ASSUME MemoryIInv, job.pc = "entries", job.left # <<>>, Key \notin MarkersOf(hot), Key \notin job.seen,
           hot' = hot \o <<Heading(Key), Body(Key, job.left[1].id)>>,
           UNCHANGED <<ids, note, notes, torn>>
    PROVE  /\ HotFits' /\ NotesFit'
           /\ MarkersOf(hot') \subseteq MarkersOf(hot) \cup {Key} /\ MarkersOf(hot) \subseteq MarkersOf(hot')
           /\ FoldedOf(hot') = FoldedOf(hot) \cup {Key}
<1> DEFINE p == Heading(Key)
           q == Body(Key, job.left[1].id)
           t == Append(hot, p)
           u == Append(t, q)
<1>1. /\ p \in PieceOf /\ p.is = "head" /\ p.key = Key /\ q \in PieceOf /\ q.is = "body" /\ q.key = Key
      /\ q.id \in 1 .. ids
      BY EntryFacts
<1>2. hot \in Seq(PieceOf) /\ torn \in Nat /\ DebtOf(hot) <= torn
      BY DEF MemoryIInv, HotFits
<1>10. hot' = hot \o <<p, q>>
      OBVIOUS
<1> HIDE DEF p, q
<1>3. hot' = u
      BY <1>1, <1>2, <1>10
<1>4. t \in Seq(PieceOf) /\ u \in Seq(PieceOf)
      BY <1>1, <1>2
<1>5. /\ DebtOf(u) <= DebtOf(hot)
      /\ MarkersOf(u) \subseteq MarkersOf(hot) \cup {Key} /\ MarkersOf(hot) \subseteq MarkersOf(u)
      /\ FoldedOf(u) = FoldedOf(hot) \cup {Key}
      BY <1>1, <1>2, EntryPieces
<1>6. HotFits'
  <2>1. DebtOf(u) \in Nat /\ DebtOf(hot) \in Nat
        BY <1>2, <1>4, DebtIsNat
  <2>2. DebtOf(u) <= torn
        BY <1>2, <1>5, <2>1
  <2>3. \A i \in BodiesOf(u) : u[i].id \in 1 .. ids
    <3>1. BodiesOf(t) = BodiesOf(hot) /\ \A i \in DOMAIN hot : t[i] = hot[i]
      <4>1. p.is # "body"
            BY <1>1
      <4> QED BY <1>1, <1>2, <4>1, BodiesNext, PieceNext
    <3> HIDE DEF t
    <3>2. /\ BodiesOf(u) = BodiesOf(t) \cup {Len(t) + 1} /\ u[Len(t) + 1] = q
          /\ \A i \in DOMAIN t : u[i] = t[i]
          BY <1>1, <1>4, BodiesNext, PieceNext
    <3>3. BodiesOf(t) \subseteq DOMAIN t /\ BodiesOf(hot) \subseteq DOMAIN hot
          BY DEF BodiesOf
    <3>4. \A i \in BodiesOf(hot) : hot[i].id \in 1 .. ids
          BY DEF MemoryIInv, HotFits
    <3> HIDE DEF u
    <3> QED BY <1>1, <3>1, <3>2, <3>3, <3>4
  <2> HIDE DEF u
  <2> QED BY <1>2, <1>3, <1>4, <2>2, <2>3 DEF HotFits
<1>7. NotesFit'
  <2>1. /\ Told(t, notes) /\ OneBegin(t) /\ WholeIn(t)
        /\ \A w \in Writers : note[w] # 0 => OpenNote(t, note[w])
        BY <1>1, <1>2, NotesKept DEF MemoryIInv, NotesFit
  <2> HIDE DEF t
  <2>2. /\ Told(u, notes) /\ OneBegin(u) /\ WholeIn(u)
        /\ \A w \in Writers : note[w] # 0 => OpenNote(u, note[w])
        BY <1>1, <1>4, <2>1, NotesKept
  <2> HIDE DEF u
  <2> QED BY <1>3, <2>2 DEF MemoryIInv, NotesFit
<1> HIDE DEF u
<1> QED BY <1>3, <1>5, <1>6, <1>7

LEMMA FoldStep ==
    ASSUME MemoryIInv, Fold
    PROVE  MemoryIInv'
<1>1. /\ job.pc = "entries" /\ job.left # <<>>
      /\ job' = [job EXCEPT !.left = Tail(job.left), !.seen = job.seen \cup {Key}]
      /\ hot' = IF Key \in job.seen THEN hot ELSE hot \o <<Heading(Key), Body(Key, job.left[1].id)>>
      /\ UNCHANGED <<now, daily, note, ids, notes, torn>>
      BY DEF Fold
<1>2. JobFits
      BY DEF MemoryIInv
<1>3. Key \in KeyOf
      BY <1>1, EntryFacts
<1>4. MarkersOf(hot) \subseteq job.seen /\ job.seen \subseteq MarkersOf(hot) \cup FoldedOf(hot)
      BY <1>1, <1>2, RunFacts
<1>5. /\ HotFits' /\ NotesFit'
      /\ MarkersOf(hot') \subseteq job.seen \cup {Key}
      /\ job.seen \cup {Key} \subseteq MarkersOf(hot') \cup FoldedOf(hot')
  <2>1. CASE Key \in job.seen
    <3>1. hot' = hot /\ HotFits' /\ NotesFit'
          BY <1>1, <2>1 DEF MemoryIInv, HotFits, NotesFit
    <3> QED BY <1>4, <2>1, <3>1
  <2>2. CASE Key \notin job.seen
    <3>1. hot' = hot \o <<Heading(Key), Body(Key, job.left[1].id)>> /\ Key \notin MarkersOf(hot)
          BY <1>1, <1>4, <2>2
    <3> QED BY <1>1, <1>4, <2>2, <3>1, EntryWritten
  <2> QED BY <2>1, <2>2
<1>6. DailyFits'
  <2>1. now' \in 0 .. MaxNow
        BY <1>1 DEF MemoryIInv, DailyFits
  <2> QED BY <1>1, <2>1, SameDays DEF MemoryIInv
<1>7. /\ job.left \in Seq(EntryOf) /\ Tail(job.left) \in Seq(EntryOf) /\ 1 \in DOMAIN job.left
      /\ \A i \in DOMAIN job.left : i # 1 =>
            i - 1 \in DOMAIN Tail(job.left) /\ Tail(job.left)[i - 1] = job.left[i]
      /\ \A i \in DOMAIN Tail(job.left) : i + 1 \in DOMAIN job.left /\ Tail(job.left)[i] = job.left[i + 1]
      BY <1>1, <1>2, RunFacts, Rest
<1>8. job' \in RunOf
      BY <1>1, <1>2, <1>3, <1>7, RunFacts DEF RunOf
<1>9. /\ job'.pc = "entries" /\ job'.seen = job.seen \cup {Key} /\ job'.files = job.files
      /\ job'.due = job.due /\ job'.left = Tail(job.left) /\ job'.day = job.day
      BY <1>1, <1>2, RunFacts DEF RunOf
<1>10. \A k \in job.due : k \in job'.seen \/ InLeft(k)' \/ InFiles(k)'
  <2> TAKE k \in job.due
  <2>1. CASE InLeft(k)
    <3>1. PICK i \in DOMAIN job.left : k = <<job.day, job.left[i].label>>
          BY <2>1 DEF InLeft
    <3>2. CASE i = 1
          BY <1>9, <3>1, <3>2 DEF Key
    <3>3. CASE i # 1
      <4>1. i - 1 \in DOMAIN job'.left /\ k = <<job'.day, job'.left[i - 1].label>>
            BY <1>7, <1>9, <3>1, <3>3
      <4> QED BY <4>1 DEF InLeft
    <3> QED BY <3>2, <3>3
  <2>2. InFiles(k)' <=> InFiles(k)
        BY <1>1, <1>9 DEF InFiles
  <2> QED BY <1>2, <1>9, <2>1, <2>2, RunFacts
<1>11. \A i \in DOMAIN job'.left : job'.left[i].id \in 1 .. ids
      BY <1>2, <1>7, <1>9, RunFacts
<1>12. JobFits'
      BY <1>1, <1>5, <1>8, <1>9, <1>10, <1>11 DEF JobFits
<1> QED BY <1>5, <1>6, <1>12 DEF MemoryIInv

LEMMA MemorySame ==
    ASSUME MemoryIInv, UNCHANGED memoryVars
    PROVE  MemoryIInv'
<1>1. UNCHANGED <<now, daily, hot, note, job, ids, notes, torn>>
      BY DEF memoryVars
<1>2. HotFits' /\ DailyFits' /\ NotesFit'
      BY <1>1, HotAlone
<1>3. Grown /\ 1 .. ids \subseteq 1 .. ids'
      BY <1>1 DEF Grown
<1>4. JobFits'
      BY <1>1, <1>3, RunKept DEF MemoryIInv
<1> QED BY <1>2, <1>4 DEF MemoryIInv

LEMMA MemoryIsKeptBy == ASSUME MemoryIInv PROVE MemoryIsKept
<1>1. /\ hot \in Seq(PieceOf) /\ torn \in Nat /\ DebtOf(hot) <= torn
      /\ \A i \in BodiesOf(hot) : hot[i].id \in 1 .. ids
      BY DEF MemoryIInv, HotFits
<1>2. TornCostsOne
  <2> DEFINE missing == IF job.pc = "done" THEN {k \in job.due : \A i \in Bodies : hot[i].key # k} ELSE {}
  <2>1. Bodies = BodiesOf(hot)
        BY DEF Bodies, BodiesOf
  <2>2. {i \in Bodies : \E j \in Bodies : j < i /\ hot[j].key = hot[i].key} = ExtraOf(hot)
        BY <2>1 DEF ExtraOf, Again
  <2>3. missing \subseteq HollowOf(hot)
    <3> SUFFICES ASSUME job.pc = "done", NEW k \in job.due, \A i \in Bodies : hot[i].key # k
                 PROVE  k \in HollowOf(hot)
          OBVIOUS
    <3>0. JobFits
          BY DEF MemoryIInv
    <3>1. \A i \in DOMAIN <<>> : FALSE
          OBVIOUS
    <3>2. ~InLeft(k) /\ ~InFiles(k)
          BY <3>0, <3>1 DEF JobFits, InLeft, InFiles
    <3>3. k \in MarkersOf(hot) \cup FoldedOf(hot)
          BY <3>0, <3>2, RunFacts
    <3>4. k \notin FoldedOf(hot)
          BY <2>1 DEF FoldedOf
    <3> QED BY <3>3, <3>4 DEF HollowOf
  <2> HIDE DEF missing
  <2>4. Cardinality(missing) <= Cardinality(HollowOf(hot)) /\ Cardinality(missing) \in Nat
    <3>1. IsFiniteSet(HollowOf(hot)) /\ IsFiniteSet(missing)
          BY <1>1, <2>3, FewPieces, FS_Subset
    <3> QED BY <2>3, <3>1, Smaller, FS_CardinalityType
  <2>5. Cardinality(ExtraOf(hot)) + Cardinality(missing) <= torn
    <3>1. /\ Cardinality(ExtraOf(hot)) \in Nat /\ Cardinality(HollowOf(hot)) \in Nat
          /\ Cardinality(UnmarkedOf(hot)) \in Nat /\ Owing(hot) \in Nat
          BY <1>1, DebtIsNat
    <3> QED BY <1>1, <2>4, <3>1 DEF DebtOf
  <2> QED BY <2>2, <2>5 DEF TornCostsOne, missing
<1>3. EntriesAreWhole
  <2> SUFFICES ASSUME NEW i \in UnderLock, NEW j \in UnderLock,
                      hot[i].is = "begin", hot[j] = Piece("end", hot[i].id)
               PROVE  i < j /\ UnderLock \cap i + 1 .. j - 1 = {}
        BY DEF EntriesAreWhole
  <2>1. UnderLock = LockedOf(hot) /\ LockedOf(hot) \subseteq DOMAIN hot
        BY DEF UnderLock, LockedOf
  <2>2. hot[j].is = "end" /\ hot[j].id = hot[i].id
        BY DEF Piece
  <2>3. i < j /\ \A k \in LockedOf(hot) : ~(i < k /\ k < j)
        BY <2>1, <2>2 DEF MemoryIInv, NotesFit, WholeIn
  <2>4. DOMAIN hot = 1 .. Len(hot) /\ Len(hot) \in Nat
        BY <1>1, LenProperties
  <2>5. i \in Nat /\ j \in Nat
        BY <2>1, <2>4
  <2>6. \A k \in i + 1 .. j - 1 : i < k /\ k < j
        BY <2>5
  <2> QED BY <2>1, <2>3, <2>6
<1>4. MemoryTypeOK
  <2>1. /\ now \in 0 .. MaxNow
        /\ \A n \in 1 .. ids : \E d \in Days : \E i \in DOMAIN daily[d] : daily[d][i].id = n
        /\ \A d, e \in Days : \A i \in DOMAIN daily[d], j \in DOMAIN daily[e] :
              /\ daily[d][i].id \in 1 .. ids
              /\ daily[d][i].id = daily[e][j].id => d = e /\ i = j
        BY DEF MemoryIInv, DailyFits
  <2>2. \A p \in Range(hot) : p.is \in {"begin", "end", "stitch", "torn", "head", "body"}
    <3>1. \A i \in DOMAIN hot : hot[i] \in PieceOf
          BY <1>1
    <3> QED BY <3>1 DEF Range, PieceOf
  <2>3. Cardinality({w \in Writers : note[w] # 0}) <= 1
    <3>1. \A v, w \in Writers : note[v] # 0 /\ note[w] # 0 => v = w
          BY DEF MemoryIInv, NotesFit
    <3>2. CASE \A w \in Writers : note[w] = 0
      <4>1. {w \in Writers : note[w] # 0} = {}
            BY <3>2
      <4> QED BY <4>1, FS_EmptySet
    <3>3. CASE \E w \in Writers : note[w] # 0
      <4>1. PICK w \in Writers : note[w] # 0
            BY <3>3
      <4>2. {v \in Writers : note[v] # 0} = {w}
            BY <3>1, <4>1
      <4>3. Cardinality({w}) = 1
            BY FS_Singleton
      <4> QED BY <4>2, <4>3
    <3> QED BY <3>2, <3>3
  <2>4. {p.id : p \in {q \in Range(hot) : q.is = "body"}} \subseteq 1 .. ids
        BY <1>1 DEF Range, BodiesOf
  <2> QED BY <2>1, <2>2, <2>3, <2>4 DEF MemoryTypeOK
<1> QED BY <1>2, <1>3, <1>4 DEF MemoryIsKept

\* Of the memory files of a scope nothing is lost and nothing is kept twice but for a write that
\* ended early, each of which costs one entry over all the runs that follow, and no note is written
\* into another: for every number of writers, days, entries, runs, torn writes and stops.
THEOREM MemoryKept == MemorySpec => []MemoryIsKept
<1>1. MemoryIInv /\ [MemoryNext]_memoryVars => MemoryIInv'
  <2> SUFFICES ASSUME MemoryIInv, [MemoryNext]_memoryVars PROVE MemoryIInv'
        OBVIOUS
  <2>1. CASE UNCHANGED memoryVars
        BY <2>1, MemorySame
  <2>2. CASE MemoryNext
    <3>1. CASE Consolidate
          BY <3>1, ListDailyStep, LoadMarkersStep, ParseStep, FoldStep, FoldFailsStep, FileDoneStep,
             FinishStep, CloseOrStopStep DEF Consolidate
    <3> QED BY <2>2, <3>1, LaterStep, AppendDailyStep, StitchStep, NoteBeginStep, NoteEndStep
            DEF MemoryNext
  <2> QED BY <2>1, <2>2
<1>2. MemoryIInv => MemoryIsKept
      BY MemoryIsKeptBy
<1> QED BY <1>1, <1>2, MemoryInitInv, PTL DEF MemorySpec
=============================================================================

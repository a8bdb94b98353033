------------------------------- MODULE Focus -------------------------------
(***************************************************************************)
(* The open contexts of the chat window (ui/context.go), who was invited   *)
(* into which channel (ui/membership.go), the commands that change them    *)
(* (/join, /query, /part, /invite, /kick) and the two files that bring     *)
(* them back after a restart.                                              *)
(*                                                                         *)
(* A save is one WriteFile: it succeeds, fails before it touches the file, *)
(* or leaves the file cut short, which the next start cannot parse.        *)
(*                                                                         *)
(* A channel's name is what was typed, in lower case and without its first *)
(* '#': /join ##dev opens one whose name still begins with '#'.            *)
(***************************************************************************)
EXTENDS Naturals, Sequences, SequencesExt

CONSTANTS
    Channels,     \* channel names as typed, lower case
    Bare,         \* each of them without its first '#', if it begins with one
    Nameless,     \* the empty name
    MainChannel,  \* "main"
    Nicks,        \* personas
    MaxFaults     \* bound: saves that fail and programs that are killed

ASSUME FocusAssumption ==
    /\ MainChannel \in Channels /\ Nameless \in Channels \ {MainChannel}
    /\ Bare \in [Channels -> Channels]
    /\ Bare[MainChannel] = MainChannel /\ Bare[Nameless] = Nameless
    /\ MaxFaults \in Nat

VARIABLES
    running,      \* the program runs
    contexts,     \* f.contexts
    active,       \* f.active, counted from 1
    roster,       \* MembershipManager.channels
    focusFile,    \* .bitchtea_focus.json
    rosterFile,   \* .bitchtea_membership.json
    faults,       \* failed saves and kills so far
  (* history variables *)
    focusKept,    \* the newest focus save of this run of the program succeeded
    rosterKept,   \* the same for its membership saves
    notes,        \* the newest membership note the agent has on a persona, per channel
    misspelt,     \* members whose newest note went to another spelling of the channel
    shortened     \* a load has taken a '#' off a channel's name

focusVars == <<running, contexts, active, roster, focusFile, rosterFile, faults,
               focusKept, rosterKept, notes, misspelt, shortened>>
contextVars == <<contexts, active, focusFile, focusKept, shortened>>
memberVars == <<roster, rosterFile, rosterKept, notes, misspelt>>

-----------------------------------------------------------------------------
Channel(c) ==
    [kind |-> "channel", name |-> IF Bare[c] = Nameless THEN MainChannel ELSE Bare[c]]
Direct(n) == [kind |-> "direct", name |-> n]
Context == {Channel(c) : c \in Channels} \cup {Direct(n) : n \in Nicks}

Nothing == <<>>     \* no file, or one that cannot be parsed
Whole(state) == <<state>>
FocusState == [contexts : Seq(Context), active : Nat]
Rosters == [Channels -> SUBSET Nicks]
Nobody == [c \in Channels |-> {}]
NoNotes == [c \in Channels |-> [n \in Nicks |-> "none"]]

\* At least one context, the active one among them, none twice: but for those that a load
\* has made the same by taking a '#' off a name.
FocusTypeOK ==
    /\ running \in BOOLEAN /\ faults \in 0 .. MaxFaults
    /\ focusKept \in BOOLEAN /\ rosterKept \in BOOLEAN
    /\ shortened \in BOOLEAN
    /\ contexts \in Seq(Context) /\ (shortened \/ IsInjective(contexts))
    /\ active \in 1 .. Len(contexts)
    /\ roster \in Rosters
    /\ Len(focusFile) <= 1 /\ Range(focusFile) \subseteq FocusState
    /\ Len(rosterFile) <= 1 /\ Range(rosterFile) \subseteq Rosters
    /\ notes \in [Channels -> [Nicks -> {"none", "joined", "left"}]]
    /\ misspelt \subseteq Channels \X Nicks

FocusInit ==
    /\ running = TRUE
    /\ contexts = <<Channel(MainChannel)>> /\ active = 1
    /\ roster = Nobody
    /\ focusFile = Nothing /\ rosterFile = Nothing
    /\ faults = 0 /\ focusKept = TRUE /\ rosterKept = TRUE
    /\ notes = NoNotes /\ misspelt = {} /\ shortened = FALSE

Active == contexts[active]

-----------------------------------------------------------------------------
(* Saving *)

\* The outcomes of one os.WriteFile over a file.
Written(old, new) == {[file |-> Whole(new), ok |-> TRUE], [file |-> old, ok |-> FALSE],
                      [file |-> Nothing, ok |-> FALSE]}

\* FocusManager.Save, of what the handler has just made of the focus.
SaveFocus(nextFaults) ==
    \E w \in Written(focusFile, [contexts |-> contexts', active |-> active']) :
        /\ w.ok \/ faults < MaxFaults
        /\ focusFile' = w.file
        /\ focusKept' = w.ok
        /\ nextFaults = IF w.ok THEN faults ELSE faults + 1

\* MembershipManager.Save; /invite and /kick ignore its error.
SaveMembership(nextFaults) ==
    \E w \in Written(rosterFile, roster') :
        /\ w.ok \/ faults < MaxFaults
        /\ rosterFile' = w.file
        /\ rosterKept' = w.ok
        /\ nextFaults = IF w.ok THEN faults ELSE faults + 1

-----------------------------------------------------------------------------
(* Commands on contexts *)

\* Fault: a context that is open is opened again.
FaultSetFocus(ctx) ==
    /\ contexts' = Append(contexts, ctx)
    /\ active' = Len(contexts')

SetFocus(ctx) ==
    IF Contains(contexts, ctx)
    THEN /\ \E i \in DOMAIN contexts :
            /\ contexts[i] = ctx /\ \A j \in 1 .. i - 1 : contexts[j] # ctx
            /\ active' = i
         /\ UNCHANGED contexts
    ELSE /\ contexts' = Append(contexts, ctx)
         /\ active' = Len(contexts')

\* Fault: the focus goes to the newest context whatever was removed.
FaultRemove(ctx) ==
    /\ Len(contexts) > 1
    /\ Contains(contexts, ctx)
    /\ contexts' = Remove(contexts, ctx)
    /\ active' = Len(contexts')

\* FocusManager.Remove: the index stays where it is, or moves to the last context
\* when it is past the end.
RemoveContext(ctx) ==
    /\ Len(contexts) > 1
    /\ \E i \in DOMAIN contexts :
        /\ contexts[i] = ctx /\ \A j \in 1 .. i - 1 : contexts[j] # ctx
        /\ contexts' = RemoveAt(contexts, i)
    /\ active' = IF active > Len(contexts') THEN Len(contexts') ELSE active

\* Fault: /part saves the focus before it removes the context.
FaultPart(ctx) ==
    /\ running
    /\ RemoveContext(ctx)
    /\ focusFile' = Whole([contexts |-> contexts, active |-> active])
    /\ UNCHANGED <<running, memberVars, focusKept, faults, shortened>>

\* /join and /query.
Open(ctx) ==
    /\ running
    /\ SetFocus(ctx)
    /\ SaveFocus(faults')
    /\ UNCHANGED <<running, memberVars, shortened>>

\* /part; the last context and an unknown one are refused.
Part(ctx) ==
    /\ running
    /\ RemoveContext(ctx)
    /\ SaveFocus(faults')
    /\ UNCHANGED <<running, memberVars, shortened>>

\* agentDoneMsg saves the focus again.
TurnEnds ==
    /\ running
    /\ UNCHANGED <<contexts, active>>
    /\ SaveFocus(faults')
    /\ UNCHANGED <<running, memberVars, shortened>>

-----------------------------------------------------------------------------
(* Commands on members *)

\* The note on a change to the members of a channel goes into the context spelt c, or in
\* capitals, which nobody else opens; the channel's other spellings hear nothing, and neither
\* does anyone of a channel without a name, which has no members.
Tell(n, c, what, capitals) ==
    /\ notes' = IF capitals THEN notes ELSE [notes EXCEPT ![c][n] = what]
    /\ misspelt' = {told \in Channels \X Nicks :
                      IF told[2] = n /\ Bare[told[1]] = Bare[c]
                      THEN told[1] # c \/ capitals \/ Bare[c] = Nameless
                      ELSE told \in misspelt}

\* normalizeMembershipKey: the roster of c goes by its bare name.
Members(c) == roster[Bare[c]]

\* /invite n [#channel]: without a channel, that of the active context.
Invite(n, c, capitals) ==
    /\ running
    /\ n \notin Members(c)
    /\ roster' = IF Bare[c] = Nameless THEN roster ELSE [roster EXCEPT ![Bare[c]] = @ \cup {n}]
    /\ SaveMembership(faults')
    /\ Tell(n, c, "joined", capitals)
    /\ UNCHANGED <<running, contextVars>>

\* The channel of /kick: the active one, or main from a direct context.
KickedFrom == IF Active.kind = "channel" THEN Active.name ELSE MainChannel
Without(n) == [roster EXCEPT ![Bare[KickedFrom]] = @ \ {n}]

\* Fault: the agent is not told.
FaultKick(n) ==
    /\ running
    /\ n \in Members(KickedFrom)
    /\ roster' = Without(n)
    /\ SaveMembership(faults')
    /\ UNCHANGED <<running, contextVars, notes, misspelt>>

\* Fault: the membership is not saved.
FaultKickUnsaved(n) ==
    /\ running
    /\ n \in Members(KickedFrom)
    /\ roster' = Without(n)
    /\ Tell(n, KickedFrom, "left", FALSE)
    /\ UNCHANGED <<running, contextVars, rosterFile, rosterKept, faults>>

Kick(n) ==
    /\ running
    /\ n \in Members(KickedFrom)
    /\ roster' = Without(n)
    /\ SaveMembership(faults')
    /\ Tell(n, KickedFrom, "left", FALSE)
    /\ UNCHANGED <<running, contextVars>>

-----------------------------------------------------------------------------
(* The program stops and starts *)

Stop ==
    /\ running
    /\ running' = FALSE
    /\ UNCHANGED <<contextVars, memberVars, faults>>

\* Killed in the middle of a save: one of the files is cut short.
KilledInSave ==
    /\ running
    /\ faults < MaxFaults
    /\ faults' = faults + 1
    /\ running' = FALSE
    /\ \/ focusFile' = Nothing /\ focusKept' = FALSE /\ UNCHANGED <<rosterFile, rosterKept>>
       \/ rosterFile' = Nothing /\ rosterKept' = FALSE /\ UNCHANGED <<focusFile, focusKept>>
    /\ UNCHANGED <<contexts, active, roster, notes, misspelt, shortened>>

\* recordToContext makes a channel of its name once more, which takes a second '#' off it.
\* (A direct record without a target, which it drops, is never saved.)
Reloaded(ctx) == IF ctx.kind = "channel" THEN Channel(ctx.name) ELSE ctx

\* RestoreState: the contexts of the file with the index put back into bounds.
Restored(state) ==
    [contexts |-> [i \in DOMAIN state.contexts |-> Reloaded(state.contexts[i])],
     active |-> IF state.active > Len(state.contexts) THEN Len(state.contexts) ELSE state.active]

\* LoadFocusManager and LoadMembershipManager: no file, or one that cannot be
\* parsed, gives the default.  The notes are in the history that a resume brings
\* back; a program that starts afresh has none.
Start ==
    /\ ~running
    /\ running' = TRUE
    /\ IF focusFile = Nothing
       THEN contexts' = <<Channel(MainChannel)>> /\ active' = 1
       ELSE contexts' = Restored(focusFile[1]).contexts /\ active' = Restored(focusFile[1]).active
    /\ roster' = IF rosterFile = Nothing THEN Nobody ELSE rosterFile[1]
    /\ focusKept' = TRUE /\ rosterKept' = TRUE
    /\ shortened' = (shortened \/ (focusFile # Nothing /\ contexts' # focusFile[1].contexts))
    /\ notes' = NoNotes /\ misspelt' = {}
    /\ UNCHANGED <<focusFile, rosterFile, faults>>

FocusNext ==
    \/ \E ctx \in Context : Open(ctx) \/ Part(ctx)
    \/ TurnEnds
    \/ \E n \in Nicks : Kick(n) \/ \E c \in Channels : Invite(n, c, FALSE) \/ Invite(n, c, TRUE)
    \/ Stop \/ KilledInSave \/ Start

FocusSpec == FocusInit /\ [][FocusNext]_focusVars

-----------------------------------------------------------------------------
(* Properties *)

\* A channel whose name begins with '#', as /join ##dev opens it.
Hashed(ctx) == ctx.kind = "channel" /\ Bare[ctx.name] # ctx.name

\* A program that is stopped at any point comes back with the contexts and the
\* focus the user left, each in its place, unless a save of its last run failed.  (A channel
\* whose name begins with '#' comes back under a shorter one, maybe that of another that is
\* open: nothing that is saved tells a name from its spelling.)
RestartKeepsFocus ==
    [][~running /\ running' /\ focusKept =>
        /\ Len(contexts') = Len(contexts) /\ active' = active
        /\ \A i \in DOMAIN contexts : contexts'[i] = contexts[i] \/ Hashed(contexts[i])]_focusVars

\* The same for who was invited where, whose failed saves nobody is told of.
RestartKeepsRoster == [][~running /\ running' /\ rosterKept => roster' = roster]_focusVars

\* /part of a context opened after the active one leaves the user where they are.
\* (/part of one opened before it does not: the index stays and the list moves.)
PartKeepsPlace ==
    [][Len(contexts') < Len(contexts) /\ running /\ running' =>
        \A i \in DOMAIN contexts :
            ~Contains(contexts', contexts[i]) /\ i > active => contexts'[active'] = Active]_focusVars

\* What the agent was last told about a persona in a channel is what the roster
\* says, through any order of invitations, kicks and restarts, unless the newest
\* word on them went to another spelling of the channel.
NotesFollowRoster ==
    \A c \in Channels, n \in Nicks :
        notes[c][n] # "none" /\ <<c, n>> \notin misspelt =>
            (notes[c][n] = "joined" <=> n \in Members(c))

\* The user is where they were, after a /part and after a restart, among those they invited
\* and the agent was told of.
PlacesAreKept ==
    /\ [](FocusTypeOK /\ NotesFollowRoster)
    /\ RestartKeepsFocus /\ RestartKeepsRoster /\ PartKeepsPlace
=============================================================================

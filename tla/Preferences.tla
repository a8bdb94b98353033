----------------------------- MODULE Preferences -----------------------------
(***************************************************************************)
(* The settings that are no part of the connection (config/rc.go, /set and *)
(* /save of ui/commands.go, --init-config of main.go): who takes each of   *)
(* them, and when, and what of them is in the rc file.                     *)
(*                                                                         *)
(* One key stands for those that are handled alike: sound for auto-next    *)
(* and auto-idea, temperature for top_k, top_p and repetition_penalty.  A  *)
(* value is what is typed; the empty one is none.                          *)
(***************************************************************************)
EXTENDS Naturals, Sequences, SequencesExt, TLC

CONSTANTS
    TypedValues, \* what may be typed after /set and a key
    Defaults,    \* DefaultConfig
    HandWritten, \* rc files as a user may have written them: sequences of lines
    MaxEdits,    \* bound: /set
    MaxSaves,    \* bound: /save and --init-config
    MaxStarts2,  \* bound: restarts
    MaxTicks     \* bound: the second

Key == {"nick", "apikey", "persona_file", "sound", "banner", "temperature", "effort",
        "tool_timeout", "tool_verbosity"}
OnStart == {"banner", "temperature", "effort", "tool_timeout", "tool_verbosity", "persona_file"}

Efforts == {"low", "medium", "high", "max"}
Verbosities == {"terse", "normal", "verbose"}
Numbers == {"0", "7", "300"}
Long == {"secret12345"}

\* What DefaultConfig sets is what /set allows (config.go:84-117); the lines of a file are
\* those of known keys.
ASSUME PreferencesAssumption ==
    /\ Defaults \in [Key -> STRING]
    /\ Defaults["effort"] \in Efforts \cup {""} /\ Defaults["tool_timeout"] \in Numbers \ {"0"}
    /\ Defaults["tool_verbosity"] \in Verbosities /\ Defaults["temperature"] \in Numbers \cup {""}
    /\ Defaults["sound"] \in {"on", "off"} /\ Defaults["banner"] \in {"on", "off"}
    /\ TypedValues \subseteq STRING /\ HandWritten \subseteq Seq([key : Key, value : STRING])
    /\ {MaxEdits, MaxSaves, MaxStarts2, MaxTicks} \subseteq Nat

VARIABLES
    prefs,   \* m.config
    inUse,   \* what the client, the tools, the prompt, the panel and the splash have taken
    rcFile,  \* the lines of bitchtearc that are no comments
    rcThere, \* there is a bitchtearc
    backups, \* second -> the file that /save put aside then
    tick,
    pending, \* history: the keys that were set since they were taken
    own,     \* history: the rc file as the user wrote it
    savedPrefs, \* history: the settings that are saved, while none was set since
    buried,  \* history: was a file written over that no backup has?
    edits, saves, starts2

prefVars == <<prefs, inUse, rcFile, rcThere, backups, tick, pending, own, savedPrefs, buried,
              edits, saves, starts2>>

Unset == {"", "<unset>"}

-----------------------------------------------------------------------------

\* Fault: any number is taken for a timeout, and any word for an effort.
FaultAccepts(k, v) ==
    CASE k \in {"nick", "apikey", "persona_file"} -> v # ""
      [] k \in {"sound", "banner", "effort"} -> TRUE
      [] k = "temperature" -> v \in Numbers \cup Unset
      [] k = "tool_timeout" -> v \in Numbers
      [] k = "tool_verbosity" -> v \in Verbosities

\* applySetToConfig: is the value stored?  If not, nothing is said but the value that is.
Accepts(k, v) ==
    CASE k \in {"nick", "apikey", "persona_file"} -> v # ""
      [] k \in {"sound", "banner"} -> TRUE
      [] k = "temperature" -> v \in Numbers \cup Unset
      [] k = "effort" -> v \in Efforts \cup Unset
      [] k = "tool_timeout" -> v \in Numbers \ {"0"}
      [] k = "tool_verbosity" -> v \in Verbosities

\* parseBoolSetting; <unset> clears what is optional.
AsStored(k, v) ==
    IF k \in {"sound", "banner"} THEN IF v = "on" THEN v ELSE "off"
    ELSE IF k \in {"temperature", "effort"} /\ v \in Unset THEN ""
    ELSE v

SetKey(c, k, v) == IF Accepts(k, v) THEN [c EXCEPT ![k] = AsStored(k, v)] ELSE c

\* Fault: what is not set is shown as zero.
FaultDisplayed(c, k) ==
    IF k = "apikey" /\ c[k] \in Long THEN "secr...2345"
    ELSE IF k = "temperature" /\ c[k] = "" THEN "0" ELSE c[k]

\* GetSetting
Displayed(c, k) ==
    IF k = "apikey" /\ c[k] \in Long THEN "secr...2345"
    ELSE IF c[k] = "" /\ k \in {"apikey", "persona_file", "temperature", "effort"} THEN "<unset>"
    ELSE c[k]

Line(k, v) == [key |-> k, value |-> v]

\* buildRCSnapshot, of these keys: an empty value is not written.
SavedLine(c, k) == IF c[k] = "" THEN <<>> ELSE <<Line(k, c[k])>>
SavedLines(c) == SavedLine(c, "apikey") \o SavedLine(c, "nick") \o SavedLine(c, "sound")

\* ApplyRCSetCommands, over the defaults
ApplyLine(c, l) == SetKey(c, l.key, l.value)
Started(lines) == FoldLeft(ApplyLine, Defaults, lines)

\* Fault: the agent is not told of what it samples with.
FaultTaken(c) == [k \in OnStart |-> IF k = "temperature" THEN "" ELSE c[k]]

\* NewAgentWithStreamer, the panel and the splash take what the configuration holds.
Taken(c) == [k \in OnStart |-> c[k]]

NothingKept == [key \in {} |-> ""]

PreferencesInit ==
    /\ rcFile \in HandWritten /\ rcThere \in {TRUE, rcFile # <<>>} /\ own = rcFile
    /\ prefs = Started(rcFile) /\ inUse = Taken(prefs)
    /\ backups = [t \in {} |-> <<>>] /\ tick = 0
    /\ pending = {} /\ savedPrefs = NothingKept /\ buried = FALSE
    /\ edits = 0 /\ saves = 0 /\ starts2 = 0

Tick ==
    /\ tick < MaxTicks /\ tick' = tick + 1
    /\ UNCHANGED <<own, prefs, inUse, rcFile, rcThere, backups, pending, savedPrefs, buried, edits,
                   saves, starts2>>

\* /set k v
SetCommand(k, v) ==
    /\ edits < MaxEdits /\ edits' = edits + 1
    /\ prefs' = SetKey(prefs, k, v)
    /\ pending' = IF prefs' = prefs THEN pending ELSE pending \cup ({k} \cap OnStart)
    /\ savedPrefs' = NothingKept
    /\ UNCHANGED <<own, inUse, rcFile, rcThere, backups, tick, buried, saves, starts2>>

\* Fault: the panel goes on as it began.
FaultToolStarts ==
    /\ pending' = pending \ {"tool_verbosity"}
    /\ UNCHANGED <<own, prefs, inUse, rcFile, rcThere, backups, tick, savedPrefs, buried, edits, saves,
                   starts2>>

\* A call is shown: the panel takes the verbosity.
ToolStarts ==
    /\ inUse' = [inUse EXCEPT !["tool_verbosity"] = prefs["tool_verbosity"]]
    /\ pending' = pending \ {"tool_verbosity"}
    /\ UNCHANGED <<own, prefs, rcFile, rcThere, backups, tick, savedPrefs, buried, edits, saves, starts2>>

\* /restart, and a session that is resumed: buildSystemPrompt reads the persona again.
NewPrompt ==
    /\ inUse' = [inUse EXCEPT !["persona_file"] = prefs["persona_file"]]
    /\ pending' = pending \ {"persona_file"}
    /\ UNCHANGED <<own, prefs, rcFile, rcThere, backups, tick, savedPrefs, buried, edits, saves, starts2>>

-----------------------------------------------------------------------------
(* The file *)

\* Fault: the file is written where it is.
FaultPutAside == UNCHANGED <<backups, buried>>

\* The file, be it of comments alone, is renamed to one named after the second, over what an
\* earlier /save of that second has put there.
PutAside ==
    /\ backups' = IF ~rcThere THEN backups
                  ELSE [t \in DOMAIN backups \cup {tick} |-> IF t = tick THEN rcFile ELSE backups[t]]
    /\ buried' = (buried \/ (rcThere /\ tick \in DOMAIN backups /\ backups[tick] # rcFile))

\* /save; the write may end early, or make no file, which is told.
SavePreferences ==
    /\ saves < MaxSaves /\ saves' = saves + 1 /\ PutAside
    /\ \E n \in 0 .. Len(SavedLines(prefs)) :
        /\ rcFile' = SubSeq(SavedLines(prefs), 1, n) /\ rcThere' \in {TRUE, n > 0}
        /\ savedPrefs' = IF n < Len(SavedLines(prefs)) THEN NothingKept
                   ELSE [k \in {l.key : l \in ToSet(rcFile')} |-> prefs[k]]
    /\ UNCHANGED <<own, prefs, inUse, tick, pending, edits, starts2>>

\* --init-config --force, in a program of its own: every line is a comment, and nothing is
\* put aside.
WriteDefaults ==
    /\ saves < MaxSaves /\ saves' = saves + 1
    /\ rcFile' = <<>> /\ rcThere' = TRUE /\ buried' = (buried \/ rcFile # <<>>)
    /\ savedPrefs' = NothingKept
    /\ UNCHANGED <<own, prefs, inUse, backups, tick, pending, edits, starts2>>

StartAgain ==
    /\ starts2 < MaxStarts2 /\ starts2' = starts2 + 1
    /\ prefs' = Started(rcFile) /\ inUse' = Taken(prefs') /\ pending' = {}
    /\ UNCHANGED <<own, rcFile, rcThere, backups, tick, savedPrefs, buried, edits, saves>>

PreferencesNext ==
    \/ \E k \in Key, v \in TypedValues : SetCommand(k, v)
    \/ Tick \/ ToolStarts \/ NewPrompt \/ SavePreferences \/ WriteDefaults \/ StartAgain

PreferencesSpec == PreferencesInit /\ [][PreferencesNext]_prefVars

-----------------------------------------------------------------------------
(* Properties *)

\* What is stored is what the settings allow, whoever typed it.
PreferencesTypeOK ==
    /\ prefs["effort"] \in Efforts \cup {""} /\ prefs["tool_timeout"] \in Numbers \ {"0"}
    /\ prefs["tool_verbosity"] \in Verbosities /\ prefs["sound"] \in {"on", "off"}
    /\ pending \subseteq OnStart /\ DOMAIN inUse = OnStart

\* What /set shows is what is used, or what the next start, the next call or the next prompt
\* is to take.
ShownIsUsed == \A k \in OnStart : inUse[k] = prefs[k] \/ k \in pending

\* A line that --init-config wrote says what is: without its "#" it changes nothing ("Uncomment
\* any `# set ...` line to activate it", main.go), but for a key too long to be shown and a
\* persona that is not set.  The lines of the connection are Settings' concern: some of those
\* (provider, baseurl) end a profile when they are uncommented.
LinesSayWhatIs ==
    \A k \in Key :
        \/ SetKey(prefs, k, Displayed(prefs, k)) = prefs
        \/ k = "apikey" /\ prefs[k] \in Long \cup {""}
        \/ k = "persona_file" /\ prefs[k] = ""

\* What was saved comes back at the next start.
KeptComesBack ==
    \A k \in DOMAIN savedPrefs : prefs[k] = savedPrefs[k]

\* Lines of the user's own are in the file or in a backup, unless a second /save of one second
\* or --init-config --force buried them.
OwnLinesStay ==
    ~buried /\ own # <<>> => own = rcFile \/ \E t \in DOMAIN backups : backups[t] = own

\* A setting is what it is shown as, and a user's own file is put aside before it is replaced.
PreferencesHold ==
    PreferencesTypeOK /\ ShownIsUsed /\ LinesSayWhatIs /\ KeptComesBack /\ OwnLinesStay
=============================================================================

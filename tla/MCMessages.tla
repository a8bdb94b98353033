----------------------------- MODULE MCMessages -----------------------------
(* What becomes of messages, what requests are sent with, and the catalog of models, on *)
(* small instances: a behaviour is one of a module's, and the others' state stays as it *)
(* began.                                                                               *)
EXTENDS Transcript, HistoryRepair, EntryProjection, FollowUp, Settings, Preferences, Catalog, TLC

To(p, s, u, k, m) == [provider |-> p, service |-> s, baseURL |-> u, apiKey |-> k, model |-> m]

\* One service whose address is its own, and the one that needs no key.
Profiles ==
    [openrouter |-> To("openai", "openrouter", "openrouter", "kR", "mR"),
     ollama |-> To("openai", "ollama", "local", "", "mL")]

\* OPENAI_API_KEY alone, OPENROUTER_API_KEY alone (DetectProvider) and with BITCHTEA_MODEL, and
\* no key.
Environments ==
    {To("openai", "openai", "api", "kE", "m") @@ [profile |-> ""],
     To("openai", "openrouter", "openrouter", "kR", "mR") @@ [profile |-> "openrouter"],
     To("openai", "openrouter", "openrouter", "kR", "mB") @@ [profile |-> "openrouter"],
     To("openai", "openai", "api", "", "m") @@ [profile |-> ""]}

TypedWords == {"", "<unset>", "on", "low", "7", "0", "terse", "secret12345"}

\* DefaultConfig, of these keys.
Found ==
    [k \in Key |->
        CASE k = "nick" -> "me" [] k = "sound" -> "off" [] k = "banner" -> "on"
          [] k = "effort" -> "high" [] k = "tool_timeout" -> "300"
          [] k = "tool_verbosity" -> "normal" [] OTHER -> ""]

\* No file, and one with a word mistyped.
OwnFiles == {<<>>, <<Line("temperature", "7"), Line("effort", "hihg")>>}

VARIABLE part

Init ==
    /\ part \in {"turns", "repair", "entry", "follow", "settings", "preferences", "catalog"}
    /\ TranscriptInit /\ RepairInit /\ FollowInit /\ SettingsInit /\ PreferencesInit /\ CatalogInit
    /\ EntryInit
    /\ part # "entry" => msg = Msg("assistant", <<>>)
    /\ part # "settings" => config.service = "openai"
    /\ part # "preferences" => rcFile = <<>> /\ ~rcThere
    /\ part # "catalog" => cache = Nothing

MessageVars == <<transcriptVars, history, entryVars, followVars>>

\* Bound: of /set, /save and --init-config three.
ThreeOfThese == edits' + saves' <= 3

Next ==
    /\ UNCHANGED part
    /\ \/ /\ part \in {"turns", "repair", "entry", "follow"}
          /\ UNCHANGED <<settingsVars, prefVars, catalogVars>>
          /\ \/ part = "turns" /\ TranscriptNext /\ UNCHANGED <<history, entryVars, followVars>>
             \/ part = "repair" /\ Add /\ UNCHANGED <<transcriptVars, entryVars, followVars>>
             \/ part = "entry" /\ Save /\ UNCHANGED <<transcriptVars, history, followVars>>
             \/ part = "follow" /\ FollowNext /\ UNCHANGED <<transcriptVars, history, entryVars>>
       \/ part = "settings" /\ SettingsNext /\ UNCHANGED <<MessageVars, prefVars, catalogVars>>
       \/ /\ part = "preferences" /\ PreferencesNext /\ ThreeOfThese
          /\ UNCHANGED <<MessageVars, settingsVars, catalogVars>>
       \/ part = "catalog" /\ CatalogNext /\ UNCHANGED <<MessageVars, settingsVars, prefVars>>

Spec == Init /\ [][Next]_<<part, MessageVars, settingsVars, prefVars, catalogVars>>

\* What a setting is shown as is what the next request or the next start is made with, and what
\* /save keeps comes back.
SettingsHold == RequestsFollowSettings /\ PreferencesHold
=============================================================================

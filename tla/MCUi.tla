-------------------------------- MODULE MCUi --------------------------------
(* Six parts of the chat window on small instances: the key ladders, the open     *)
(* contexts, the MP3 player, the streamed answer, the panel of tool calls and the *)
(* picker of models.  A behaviour is one of the modules, and the others' state    *)
(* stays as it began.                                                             *)
EXTENDS KeyLadder, Focus, Mp3, StreamView, ToolPanel, ModelPicker

\* A service with a list longer than the picker shows, one with one model, one without.
Services ==
    [many |-> [models |-> <<<<"b">>, <<"a">>, <<"a", "b">>, <<>>, <<"a">>, <<"b", "b">>,
                            <<"b", "a">>, <<"a", "b", "a">>>>,
               default |-> <<"a", "b">>],
     one |-> [models |-> <<<<"a">>>>, default |-> <<"b">>],
     none |-> [models |-> <<>>, default |-> <<>>]]

\* Names of channels as they are typed, and without their first '#'.
Spellings == {"", "main", "#main", "##main", "dev"}
FirstOff ==
    [c \in Spellings |-> CASE c = "#main" -> "main" [] c = "##main" -> "#main" [] OTHER -> c]

\* Bounds: three open contexts; once somebody was invited two, and no name that a load has
\* made shorter; no invitation to ##main, whose members no open context here can have.
Calm == roster' = Nobody /\ notes' = NoNotes /\ misspelt' = {}
FewContexts == Len(contexts') <= 2 \/ (Calm /\ Len(contexts') = 3)
FewSpellings ==
    /\ Calm \/ ~shortened'
    /\ \A n \in Nicks : notes'["##main"][n] = "none" /\ <<"##main", n>> \notin misspelt'

VARIABLE part

Init ==
    /\ part \in {"keys", "focus", "mp3", "view", "panel", "picker"}
    /\ KeyInit /\ FocusInit /\ Mp3Init /\ ViewInit /\ PanelInit /\ PickerInit
    /\ part # "mp3" => library = {}
    /\ part # "view" => answer = <<>>
    /\ part # "picker" => service = "none" /\ ~tagged /\ chat = <<>>

overlayVars == <<panelVars, pickerVars>>

Next ==
    /\ UNCHANGED part
    /\ \/ part = "keys" /\ KeyNext /\ UNCHANGED <<focusVars, mp3Vars, viewVars, overlayVars>>
       \/ /\ part = "focus" /\ FocusNext /\ FewContexts /\ FewSpellings
          /\ UNCHANGED <<keyVars, mp3Vars, viewVars, overlayVars>>
       \/ part = "mp3" /\ Mp3Next /\ UNCHANGED <<keyVars, focusVars, viewVars, overlayVars>>
       \/ part = "view" /\ ViewNext /\ UNCHANGED <<keyVars, focusVars, mp3Vars, overlayVars>>
       \/ /\ part = "panel" /\ PanelNext
          /\ UNCHANGED <<keyVars, focusVars, mp3Vars, viewVars, pickerVars>>
       \/ /\ part = "picker" /\ PickerNext
          /\ UNCHANGED <<keyVars, focusVars, mp3Vars, viewVars, panelVars>>

Spec == Init /\ [][Next]_<<part, keyVars, focusVars, mp3Vars, viewVars, overlayVars>>
=============================================================================

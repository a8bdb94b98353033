---------------------------- MODULE ModelPicker -----------------------------
(***************************************************************************)
(* The picker that /models opens over the chat (ui/model_picker.go,        *)
(* model_picker_keys.go, commands.go): the models that the catalog has for *)
(* the service, filtered as the user types, in a message of the chat that  *)
(* is written anew at every key, while other messages arrive below it.     *)
(*                                                                         *)
(* The name of a model, and what is typed, is a sequence of characters.    *)
(***************************************************************************)
EXTENDS Naturals, Sequences, SequencesExt

CONSTANTS
    Catalogue,  \* the catalog: per service, [models, default]
    Keys,       \* characters that are typed
    VisibleRows,\* pickerVisibleRows
    MaxQuery,   \* bound: characters of the filter
    MaxMessages \* bound: messages of the chat

ASSUME PickerAssumption ==
    VisibleRows \in Nat \ {0} /\ MaxQuery \in Nat /\ MaxMessages \in Nat

NoName == <<>>
Remark == [rows |-> <<>>, marked |-> 0, filter |-> <<>>] \* a message that is not the picker's
NoPicker == [models |-> <<>>, query |-> <<>>, cursor |-> 0, filtered |-> <<>>]

VARIABLES
    overlay,    \* m.picker, or NoPicker
    place,     \* m.pickerMsgIdx, from 1
    chat,      \* m.messages: what the picker's shows
    service,   \* m.config.Service
    model,     \* the agent's model
    tagged,    \* m.config.Profile is set
    silent     \* the picker was opened by a line of bitchtearc, whose messages are suppressed

pickerVars == <<overlay, place, chat, service, model, tagged, silent>>

Names == UNION {ToSet(Catalogue[s].models) : s \in DOMAIN Catalogue} \cup {NoName}
IsOpen == overlay # NoPicker

PickerTypeOK ==
    /\ overlay.cursor \in Nat /\ ToSet(overlay.models) \cup ToSet(overlay.filtered) \subseteq Names
    /\ overlay.query \in Seq(Keys)
    /\ place \in 0 .. MaxMessages /\ Len(chat) <= MaxMessages
    /\ service \in DOMAIN Catalogue /\ model \in Names /\ {tagged, silent} \subseteq BOOLEAN

-----------------------------------------------------------------------------
(* model_picker.go *)

\* Fault: the default is put in front and listed again.
FaultDefaultTwice(provider) ==
    (IF provider.default = NoName THEN <<>> ELSE <<provider.default>>)
        \o SelectSeq(provider.models, LAMBDA m : m # NoName)

\* modelsForService: the default in front if it is one of them, and each once.
ModelsForService(provider) ==
    FoldLeft(LAMBDA ids, m : IF m = NoName \/ Contains(ids, m) THEN ids ELSE Append(ids, m),
             IF provider.default # NoName /\ Contains(provider.models, provider.default)
             THEN <<provider.default>> ELSE <<>>,
             provider.models)

\* strings.TrimSpace
Trim(text) ==
    LET marks == {i \in DOMAIN text : text[i] # " "}
    IN  IF marks = {} THEN <<>>
        ELSE SubSeq(text, CHOOSE i \in marks : \A j \in marks : i <= j,
                          CHOOSE i \in marks : \A j \in marks : i >= j)

\* strings.Contains
Has(name, text) ==
    \E i \in 0 .. Len(name) : \E j \in i .. Len(name) : SubSeq(name, i + 1, j) = text

Clamp(cursor, rows) == IF cursor < rows THEN cursor ELSE IF rows = 0 THEN 0 ELSE rows - 1

\* refilter
Refilter(p) ==
    LET filtered == SelectSeq(p.models, LAMBDA m : Has(m, Trim(p.query)))
    IN  [p EXCEPT !.filtered = filtered, !.cursor = Clamp(@, Len(filtered))]

\* Fault: the cursor goes on past the last row.
FaultMoved(p, up, by) ==
    [p EXCEPT !.cursor = IF up THEN (IF by > @ THEN 0 ELSE @ - by) ELSE @ + by]

\* moveCursor, up or down
Moved(p, up, by) ==
    [p EXCEPT !.cursor = IF up THEN (IF by > @ THEN 0 ELSE @ - by)
                               ELSE Clamp(@ + by, Len(p.filtered))]

\* Fault: the window of rows begins too late for a cursor at the end.
FaultWindow(p) ==
    LET start == IF p.cursor > VisibleRows \div 2 THEN p.cursor - (VisibleRows \div 2) ELSE 0
        end == IF start + VisibleRows > Len(p.filtered) THEN Len(p.filtered) ELSE start + VisibleRows
    IN  [rows |-> SubSeq(p.filtered, start + 1, end), marked |-> p.cursor - start, filter |-> p.query]

\* view: the rows about the cursor.  What is marked counts from 1 within them.
View(p) ==
    LET rows == IF VisibleRows < 5 THEN 5 ELSE VisibleRows
        first == IF p.cursor > rows \div 2 THEN p.cursor - (rows \div 2) ELSE 0
        end == IF first + rows > Len(p.filtered) THEN Len(p.filtered) ELSE first + rows
        start == IF end = first + rows THEN first ELSE IF end > rows THEN end - rows ELSE 0
    IN  [rows |-> SubSeq(p.filtered, start + 1, end), marked |-> p.cursor - start + 1,
         filter |-> p.query]

-----------------------------------------------------------------------------
\* With a picker from the start, if bitchtearc says so: its place is that of the last message
\* of the session resumed, if any.
PickerInit ==
    /\ service \in DOMAIN Catalogue /\ model = NoName /\ tagged \in BOOLEAN
    /\ chat \in {<<>>, <<Remark>>}
    /\ LET ids == ModelsForService(Catalogue[service])
       IN  \/ silent = FALSE /\ overlay = NoPicker /\ place = 0
           \/ /\ silent = TRUE /\ ids # <<>>
              /\ overlay = Refilter([NoPicker EXCEPT !.models = ids]) /\ place = Len(chat)

\* What comes in while the picker is open, and what a command says.
Say(message) == Len(chat) < MaxMessages /\ chat' = Append(chat, message)

Arrive == Say(Remark) /\ UNCHANGED <<overlay, place, service, model, tagged, silent>>

\* /models: a picker over what the catalog has for the service, or an error.
Models ==
    /\ ~IsOpen
    /\ LET ids == ModelsForService(Catalogue[service])
           p == Refilter([NoPicker EXCEPT !.models = ids])
       IN  IF ids = <<>> THEN Say(Remark) /\ UNCHANGED <<overlay, place>>
           ELSE Say(View(p)) /\ overlay' = p /\ place' = Len(chat')
    /\ UNCHANGED <<service, model, tagged, silent>>

\* /set service or /profile, and /clear: keys are the picker's while it is open.
Command ==
    /\ ~IsOpen
    /\ \/ service' \in DOMAIN Catalogue /\ tagged' \in BOOLEAN /\ UNCHANGED chat
       \/ chat' = <<>> /\ UNCHANGED <<service, tagged>>
    /\ UNCHANGED <<overlay, place, model, silent>>

ClosePicker == overlay' = NoPicker /\ place' = 0 /\ silent' = FALSE

\* Fault: the list that was there before the filter is picked from.
FaultPick ==
    /\ IsOpen
    /\ ClosePicker
    /\ IF overlay.filtered = <<>> THEN UNCHANGED <<model, tagged>>
       ELSE model' = overlay.models[overlay.cursor + 1] /\ tagged' = FALSE
    /\ Say(Remark)
    /\ UNCHANGED service

\* Enter: the highlighted model, if there is one, replaces the agent's.
Pick ==
    /\ IsOpen
    /\ ClosePicker
    /\ IF overlay.filtered = <<>> THEN UNCHANGED <<model, tagged>>
       ELSE model' = overlay.filtered[overlay.cursor + 1] /\ tagged' = FALSE
    /\ Say(Remark)
    /\ UNCHANGED service

\* Esc, Ctrl+C
Cancel == IsOpen /\ ClosePicker /\ Say(Remark) /\ UNCHANGED <<service, model, tagged>>

\* Fault: the newest message is written over.
FaultRerender(p) ==
    /\ overlay' = p
    /\ chat' = [chat EXCEPT ![Len(chat)] = View(p)]
    /\ UNCHANGED <<place, service, model, tagged, silent>>

\* rerenderPicker: in its place, if it has one, whatever came after it.
Rerender(p) ==
    /\ overlay' = p
    /\ chat' = [i \in DOMAIN chat |-> IF i = place THEN View(p) ELSE chat[i]]
    /\ UNCHANGED <<place, service, model, tagged, silent>>

Move == IsOpen /\ \E up \in BOOLEAN, by \in {1, VisibleRows} : Rerender(Moved(overlay, up, by))

\* appendQuery and backspace
Requery(query) == Rerender(Refilter([overlay EXCEPT !.query = query, !.cursor = 0]))
Edit ==
    /\ IsOpen
    /\ \/ Len(overlay.query) < MaxQuery /\ \E k \in Keys : Requery(Append(overlay.query, k))
       \/ IF overlay.query = <<>> THEN Rerender(overlay) ELSE Requery(Front(overlay.query))

PickerNext == Arrive \/ Models \/ Command \/ Pick \/ Cancel \/ Move \/ Edit

-----------------------------------------------------------------------------
(* Properties *)

\* The message of a picker that /models opened shows what the picker has, wherever it stands
\* in the chat, with the cursor's row among the rows and marked.
MarkedIsSelected ==
    IsOpen /\ ~silent =>
        /\ chat[place] = View(overlay)
        /\ overlay.filtered # <<>> =>
            /\ chat[place].marked \in DOMAIN chat[place].rows
            /\ chat[place].rows[chat[place].marked] = overlay.filtered[overlay.cursor + 1]

\* The list has every model of the service once, and the filter drops none that matches.
ListIsTheCatalogues ==
    IsOpen =>
        /\ IsInjective(overlay.models)
        /\ ToSet(overlay.models) = ToSet(Catalogue[service].models) \ {NoName}
        /\ overlay.filtered = SelectSeq(overlay.models, LAMBDA m : Has(m, Trim(overlay.query)))

\* The agent's model changes only to the one marked, which the configured service has, and
\* the profile's name goes with the old one.  No key writes over another message.
PickedWasMarked ==
    [][ /\ model' # model =>
            /\ IsOpen /\ ~IsOpen' /\ ~tagged'
            /\ silent \/ model' = chat[place].rows[chat[place].marked]
            /\ model' \in ToSet(Catalogue[service].models)
        /\ ~silent => \A i \in DOMAIN chat \cap DOMAIN chat' : chat[i] = Remark => chat'[i] = Remark
      ]_pickerVars

\* What Enter takes is what the user saw marked, of the models of the service.
PickIsMarked == [](PickerTypeOK /\ MarkedIsSelected /\ ListIsTheCatalogues) /\ PickedWasMarked
=============================================================================

---------------------------- MODULE CaptureDialog ----------------------------
(***************************************************************************)
(* CaptureHotkey of internal/win32, which records the keys that are        *)
(* pressed, between the beginning and the end of actionHotkey: from the    *)
(* stored text to the echo, and from the keyboard to the text that is      *)
(* stored.  What else is refused before it is stored is Fenster's.         *)
(***************************************************************************)
EXTENDS HotkeyText

CONSTANTS
    ModifierKeys,        \* those the keyboard has
    Keys,                \* virtual-key codes of its other keys
    Taken,               \* combinations somebody has registered
    StoredTexts,         \* what layouts.json may say
    Pending, Cancelled, Cleared

ASSUME CaptureAssumption ==
    /\ ModifierKeys \subseteq {"control", "menu", "shift", "lwin", "rwin"}
    /\ Keys \subseteq 1 .. 255
    /\ StoredTexts \subseteq Seq(STRING)

VARIABLES
    stored,              \* the layout's hotkey
    held,                \* the modifier keys that are down
    down,                \* another key that is down, or 0
    mods, vk, valid,     \* captureState
    echo,                \* what the dialog shows
    quit,                \* WM_QUIT is set for the thread
    answer,              \* what CaptureHotkey has returned
    over,                \* actionHotkey has: nothing, "kept" or "assigned"
    pressed              \* history: what was down at the last press that arrived

keyboard == <<held, down>>
state    == <<mods, vk, valid, echo, pressed>>
vars     == <<stored, keyboard, state, quit, answer, over>>

vkReturn == 13
vkEscape == 27

Open == answer = Pending

\* Input is retrieved after WM_QUIT.
UserActs == Open /\ ~quit

-----------------------------------------------------------------------------
(* From the keyboard to the rules.                                         *)

WinMods == {"MOD_CONTROL", "MOD_ALT", "MOD_SHIFT", "MOD_WIN"}

\* currentMods, of the keys that are down.
currentMods(keys) ==
    {m \in WinMods : CASE m = "MOD_CONTROL" -> "control" \in keys
                       [] m = "MOD_ALT"     -> "menu" \in keys
                       [] m = "MOD_SHIFT"   -> "shift" \in keys
                       [] m = "MOD_WIN"     -> {"lwin", "rwin"} \cap keys # {}}

\* Mutant of hotkeyMods: two of the branches are mixed up.
hotkeyModsMixed(ms) ==
    {m \in Mod : CASE m = "Alt"   -> "MOD_ALT" \in ms
                   [] m = "Ctrl"  -> "MOD_SHIFT" \in ms
                   [] m = "Shift" -> "MOD_CONTROL" \in ms
                   [] m = "Win"   -> "MOD_WIN" \in ms}

hotkeyMods(ms) ==
    {m \in Mod : CASE m = "Alt"   -> "MOD_ALT" \in ms
                   [] m = "Ctrl"  -> "MOD_CONTROL" \in ms
                   [] m = "Shift" -> "MOD_SHIFT" \in ms
                   [] m = "Win"   -> "MOD_WIN" \in ms}

IsValid(h) == "error" \notin DOMAIN h

\* describeCapture's first result: the combination, or the modifiers held.
Display(ms, key) ==
    LET hk == FromKeys(hotkeyMods(ms), key)
    IN  IF IsValid(hk) THEN Label(hk) ELSE ModLabel(hotkeyMods(ms))

\* A modifier by itself is no key.
capture(key) ==
    /\ mods' = currentMods(held')
    /\ vk' = key
    /\ valid' = IsValid(FromKeys(hotkeyMods(mods'), key))
    /\ echo' = Display(mods', key)
    /\ pressed' = [held |-> held', key |-> key]

-----------------------------------------------------------------------------
(* Keys.  The dialog gets every press while it is open, but for Enter and  *)
(* Escape, which are the buttons, and a combination that is registered,    *)
(* which goes to its owner.                                                *)

\* A modifier is pressed, or held down so that it repeats.
PressModifier(m) ==
    /\ UserActs
    /\ held' = held \cup {m}
    /\ capture(0)
    /\ UNCHANGED <<stored, down, quit, answer, over>>

ReleaseModifier(m) ==
    /\ UserActs
    /\ m \in held
    /\ held' = held \ {m}
    /\ UNCHANGED <<stored, down, state, quit, answer, over>>

IsTaken(k) == \E t \in Taken : t.key = k /\ t.mods = currentMods(held)

\* A key is pressed, or held down so that it repeats.
PressKey(k) ==
    /\ UserActs
    /\ down \in {0, k}
    /\ down' = k
    /\ UNCHANGED held
    /\ IF IsTaken(k) THEN UNCHANGED state ELSE capture(k)
    /\ UNCHANGED <<stored, quit, answer, over>>

ReleaseKey ==
    /\ UserActs
    /\ down # 0
    /\ down' = 0
    /\ UNCHANGED <<stored, held, state, quit, answer, over>>

-----------------------------------------------------------------------------
(* The end of the dialog.                                                  *)

Return(a) ==
    /\ answer' = a
    /\ UNCHANGED <<stored, keyboard, state, over>>

\* OK, or Enter: IDOK arrives even if the button is disabled.
Confirm ==
    /\ UserActs
    /\ valid
    /\ Return([mods |-> mods, vk |-> vk])
    /\ UNCHANGED quit

Clear == UserActs /\ Return(Cleared) /\ UNCHANGED quit

\* "Abbrechen", Escape, or the window is closed, or could not be created.
Cancel == UserActs /\ Return(Cancelled) /\ UNCHANGED quit

\* The message window was destroyed by a message this loop delivered.
QuitArrives ==
    /\ Open
    /\ quit' = TRUE
    /\ UNCHANGED <<stored, keyboard, state, answer, over>>

\* Mutant of LeaveOnQuit: WM_QUIT is not posted again.
LeaveOnQuitSilently ==
    /\ Open
    /\ quit
    /\ quit' = FALSE
    /\ Return(Cancelled)

LeaveOnQuit ==
    /\ Open
    /\ quit
    /\ quit' = TRUE
    /\ Return(Cancelled)

-----------------------------------------------------------------------------
(* actionHotkey, before and after.                                         *)

\* An unparseable text counts as none.
Current == IF IsValid(ParseText(stored)) THEN ParseText(stored) ELSE ZeroHotkey

Chosen == IF answer = Cleared THEN ZeroHotkey
          ELSE FromKeys(hotkeyMods(answer.mods), answer.vk)

\* Nothing would change; or it is refused.
Keep ==
    /\ ~Open
    /\ over = "no"
    /\ over' = "kept"
    /\ UNCHANGED <<stored, keyboard, state, quit, answer>>

Assign ==
    /\ answer \notin {Pending, Cancelled}
    /\ over = "no"
    /\ IsValid(Chosen)
    /\ ~(Chosen = Current /\ CanonicalText(Chosen) = stored)
    /\ stored' = CanonicalText(Chosen)
    /\ over' = "assigned"
    /\ UNCHANGED <<keyboard, state, quit, answer>>

-----------------------------------------------------------------------------
Init ==
    /\ stored \in StoredTexts
    /\ held \in SUBSET ModifierKeys /\ down = 0
    /\ mods = {} /\ vk = 0 /\ valid = FALSE
    /\ echo = Label(Current)
    /\ quit = FALSE /\ answer = Pending /\ over = "no"
    /\ pressed = [held |-> {}, key |-> 0]

Next ==
    \/ \E m \in ModifierKeys : PressModifier(m) \/ ReleaseModifier(m)
    \/ \E k \in Keys \ {vkReturn, vkEscape} : PressKey(k)
    \/ ReleaseKey \/ Confirm \/ Clear \/ Cancel
    \/ QuitArrives \/ LeaveOnQuit
    \/ Keep \/ Assign

Spec == Init /\ [][Next]_vars /\ WF_vars(LeaveOnQuit)

-----------------------------------------------------------------------------
(***************************************************************************)
(* "What cannot be pressed cannot be saved": the text that is stored means *)
(* the key last pressed with the modifiers held at that moment, through    *)
(* every conversion in between, and is what the dialog showed; whatever    *)
(* was released, repeated, or went to another owner before Enter.          *)
(***************************************************************************)
Meaning(m) == CASE m = "control" -> "Ctrl" [] m = "menu" -> "Alt" [] m = "shift" -> "Shift"
                [] m \in {"lwin", "rwin"} -> "Win"

PressedIsSaved ==
    over = "assigned" /\ answer # Cleared =>
        /\ ParseText(stored)
              = Hotkey({Meaning(m) : m \in pressed.held}, pressed.key)
        /\ pressed.key \in Keys
        /\ echo = Label(ParseText(stored))

(***************************************************************************)
(* Parse is "lenient about spelling, strict about meaning": of any text it *)
(* understands what every word of it says, in any order, and nothing else; *)
(* and it understands every text and label the program writes.             *)
(***************************************************************************)
Means(text) ==
    LET words == {i \in DOMAIN text : text[i] \notin Separators}
        keys  == {i \in words : text[i] \in DOMAIN keyByName}
        ms    == {i \in words : text[i] \in DOMAIN modNames}
    IN  IF \A i \in DOMAIN text : text[i] = " " THEN {ZeroHotkey}
        ELSE {Hotkey({modNames[text[i]] : i \in ms}, keyByName[text[k]]) :
                 k \in {i \in keys : words = ms \cup keys /\ keys = {i} /\ ms # {}}}

ReadsBack ==
    \A ms \in (SUBSET Mod) \ {{}}, key \in validVK, german \in BOOLEAN :
        ParseText(Format(Hotkey(ms, key), german)) = Hotkey(ms, key)

ParseMeans ==
    /\ Means(stored) = IF IsValid(ParseText(stored)) THEN {ParseText(stored)} ELSE {}
    /\ ReadsBack

(***************************************************************************)
(* The dialog keeps the promises of a modal dialog: it ends once, with a   *)
(* combination the rules accept, "clear" or nothing, and it does not       *)
(* swallow a WM_QUIT that was not meant for it.                            *)
(***************************************************************************)
Promised ==
    {[mods |-> ms, vk |-> k] :
        ms \in (SUBSET WinMods) \ {{}}, k \in validVK} \cup {Cleared}

Dialog == INSTANCE ModalDialog WITH Answers <- Promised

IsModalDialog == Dialog!Spec
==============================================================================

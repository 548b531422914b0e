----------------------------- MODULE HotkeyText ------------------------------
(***************************************************************************)
(* internal/hotkey/hotkey.go: key combinations and their texts.  A text is *)
(* a sequence of words and separators, a word being all that stands        *)
(* between two separators; case makes no difference to Parse, and all      *)
(* words are in lower case here.                                           *)
(***************************************************************************)
EXTENDS Naturals, Sequences

Mod == {"Alt", "Ctrl", "Shift", "Win"}

\* A modifier set and a virtual-key code.
Hotkey(ms, key) == [mods |-> ms, key |-> key]
ZeroHotkey == Hotkey({}, 0)
IsZero(h) == h = ZeroHotkey

modNames ==
    [w \in {"strg", "ctrl", "control", "steuerung", "alt", "umschalt", "shift", "win",
            "windows"} |->
        CASE w \in {"strg", "ctrl", "control", "steuerung"} -> "Ctrl"
          [] w = "alt" -> "Alt"
          [] w \in {"umschalt", "shift"} -> "Shift"
          [] w \in {"win", "windows"} -> "Win"]

Named(code, canonical, label, aliases) ==
    [vk |-> code, canonical |-> canonical, label |-> label, aliases |-> aliases]

namedKeys == <<
    Named(37, "left", "links", {}),       Named(38, "up", "hoch", {"auf"}),
    Named(39, "right", "rechts", {}),     Named(40, "down", "runter", {"ab"}),
    Named(36, "home", "pos1", {}),        Named(35, "end", "ende", {}),
    Named(33, "pageup", "bild^", {"bildauf", "bildhoch"}),
    Named(34, "pagedown", "bildv", {"bildab", "bildrunter"}),
    Named(45, "insert", "einfg", {"einfuegen"}),
    Named(46, "delete", "entf", {"entfernen", "del"}),
    Named(32, "space", "leertaste", {}),  Named(27, "escape", "esc", {}),
    Named(9, "tab", "tab", {"tabulator"}),
    Named(13, "enter", "eingabe", {"return"}) >>

letters == <<"a", "b", "c", "d", "e", "f", "g", "h", "i", "j", "k", "l", "m", "n", "o",
             "p", "q", "r", "s", "t", "u", "v", "w", "x", "y", "z">>
digits == <<"0", "1", "2", "3", "4", "5", "6", "7", "8", "9">>
functionKeys == <<"f1", "f2", "f3", "f4", "f5", "f6", "f7", "f8", "f9", "f10", "f11", "f12",
                  "f13", "f14", "f15", "f16", "f17", "f18", "f19", "f20", "f21", "f22",
                  "f23", "f24">>

Run(names, first) ==
    [n \in {names[i] : i \in DOMAIN names} |->
        first - 1 + CHOOSE i \in DOMAIN names : names[i] = n]

Spellings(i) == {namedKeys[i].canonical, namedKeys[i].label} \cup namedKeys[i].aliases

\* Of two keys with one name the later has it.
namedRun ==
    [n \in UNION {Spellings(i) : i \in DOMAIN namedKeys} |->
        namedKeys[CHOOSE i \in DOMAIN namedKeys :
            n \in Spellings(i) /\ \A j \in DOMAIN namedKeys : n \in Spellings(j) => j <= i].vk]

\* What is entered later replaces what is there.
Over(first, later) ==
    [n \in DOMAIN first \cup DOMAIN later |-> IF n \in DOMAIN later THEN later[n] ELSE first[n]]

keyByName ==
    Over(Over(Over(Run(letters, 65), Run(digits, 48)), Run(functionKeys, 112)), namedRun)

validVK == {keyByName[n] : n \in DOMAIN keyByName}

Separators == {"+", "-", " "}

-----------------------------------------------------------------------------
Error(why) == [error |-> why]

\* Mutant of Token: a second key replaces the first.
TokenLastKey(h, w) ==
    IF "error" \in DOMAIN h THEN h
    ELSE IF w \in DOMAIN modNames THEN [h EXCEPT !.mods = @ \cup {modNames[w]}]
    ELSE IF w \notin DOMAIN keyByName THEN Error("unknown key")
    ELSE [h EXCEPT !.key = keyByName[w]]

\* One turn of Parse's loop.
Token(h, w) ==
    IF "error" \in DOMAIN h THEN h
    ELSE IF w \in DOMAIN modNames THEN [h EXCEPT !.mods = @ \cup {modNames[w]}]
    ELSE IF w \notin DOMAIN keyByName THEN Error("unknown key")
    ELSE IF h.key # 0 THEN Error("two keys")
    ELSE [h EXCEPT !.key = keyByName[w]]

\* The loop over the first n words, between which separators may stand.
Tokens(text, n) ==
    LET upTo[k \in 0 .. n] ==
            IF k = 0 THEN ZeroHotkey
            ELSE IF text[k] \in Separators THEN upTo[k - 1]
            ELSE Token(upTo[k - 1], text[k])
    IN  upTo[n]

ParseText(text) ==
    LET h == Tokens(text, Len(text))
    IN  IF \A i \in DOMAIN text : text[i] = " " THEN ZeroHotkey
        ELSE IF "error" \in DOMAIN h THEN h
        ELSE IF h.key = 0 THEN Error("no key")
        ELSE IF h.mods = {} THEN Error("no modifier")
        ELSE h

FromKeys(ms, code) ==
    CASE code = 0 -> Error("no key pressed")
      [] code = 255 -> Error("no key signal")
      [] code \notin validVK \cup {0, 255} -> Error("unsupported key")
      [] code \in validVK /\ ms = {} -> Error("no modifier")
      [] OTHER -> Hotkey(ms, code)

-----------------------------------------------------------------------------
\* The order is fixed.
modParts(ms, german) ==
    LET Part(m, word) == IF m \in ms THEN <<word>> ELSE <<>>
    IN  Part("Ctrl", IF german THEN "strg" ELSE "ctrl") \o Part("Alt", "alt")
        \o Part("Shift", IF german THEN "umschalt" ELSE "shift") \o Part("Win", "win")

keyName(code, german) ==
    IF code \in 65 .. 90 THEN letters[code - 64]
    ELSE IF code \in 48 .. 57 THEN digits[code - 47]
    ELSE IF code \in 112 .. 135 THEN functionKeys[code - 111]
    ELSE IF \E i \in DOMAIN namedKeys : namedKeys[i].vk = code
         THEN LET k == namedKeys[CHOOSE i \in DOMAIN namedKeys : namedKeys[i].vk = code]
              IN  IF german THEN k.label ELSE k.canonical
         ELSE "vk"

Join(words) ==
    IF words = <<>> THEN <<>>
    ELSE [i \in 1 .. 2 * Len(words) - 1 |-> IF i % 2 = 1 THEN words[(i + 1) \div 2] ELSE "+"]

Format(h, german) ==
    IF IsZero(h) THEN <<>>
    ELSE Join(modParts(h.mods, german) \o <<keyName(h.key, german)>>)

CanonicalText(h) == Format(h, FALSE)
Label(h)         == Format(h, TRUE)
ModLabel(ms)   == Join(modParts(ms, TRUE))
==============================================================================

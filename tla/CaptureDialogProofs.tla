------------------------- MODULE CaptureDialogProofs -------------------------
(***************************************************************************)
(* The texts of the hotkeys, for every text; and the hotkey dialog, for    *)
(* every keyboard, any keys in any order, and whatever combinations others *)
(* have registered.                                                        *)
(***************************************************************************)
EXTENDS CaptureDialog, NaturalsInduction, SequenceTheorems, WellFoundedInduction, TLAPS

(***************************************************************************)
(* The tables: no name occurs twice, and none is a modifier or separates.  *)
(***************************************************************************)
Distinct(s, n)    == DOMAIN s = 1 .. n /\ \A i, j \in 1 .. n : s[i] = s[j] => i = j
Apart(s, m, t, n) == \A i \in 1 .. m, j \in 1 .. n : s[i] # t[j]
Unlike(i, t, n)   == \A w \in Spellings(i) : \A j \in 1 .. n : w # t[j]

ModifierWords == <<"strg", "ctrl", "control", "steuerung", "alt", "umschalt", "shift",
                   "win", "windows">>

LEMMA NamesDiffer ==
    /\ Distinct(letters, 26) /\ Distinct(digits, 10) /\ Distinct(functionKeys, 24)
    /\ Apart(letters, 26, digits, 10) /\ Apart(letters, 26, functionKeys, 24)
    /\ Apart(digits, 10, functionKeys, 24)
    /\ Apart(letters, 26, ModifierWords, 9) /\ Apart(digits, 10, ModifierWords, 9)
    /\ Apart(functionKeys, 24, ModifierWords, 9)
    <1>1. Distinct(letters, 26)
        BY DEF letters, Distinct
    <1>2. Distinct(digits, 10)
        BY DEF digits, Distinct
    <1>3. Distinct(functionKeys, 24)
        BY DEF functionKeys, Distinct
    <1>4. Apart(letters, 26, digits, 10)
        BY DEF letters, digits, Apart
    <1>5. Apart(letters, 26, functionKeys, 24)
        BY DEF letters, functionKeys, Apart
    <1>6. Apart(digits, 10, functionKeys, 24)
        BY DEF digits, functionKeys, Apart
    <1>7. Apart(letters, 26, ModifierWords, 9)
        BY DEF letters, ModifierWords, Apart
    <1>8. Apart(digits, 10, ModifierWords, 9)
        BY DEF digits, ModifierWords, Apart
    <1>9. Apart(functionKeys, 24, ModifierWords, 9)
        BY DEF functionKeys, ModifierWords, Apart
    <1> QED
        BY <1>1, <1>2, <1>3, <1>4, <1>5, <1>6, <1>7, <1>8, <1>9

LEMMA SpellingsDiffer ==
    /\ DOMAIN namedKeys = 1 .. 14
    /\ \A i \in 1 .. 14 : /\ Unlike(i, letters, 26) /\ Unlike(i, digits, 10)
                          /\ Unlike(i, functionKeys, 24) /\ Unlike(i, ModifierWords, 9)
    /\ \A i, j \in 1 .. 14 : \A n \in Spellings(i) : n \in Spellings(j) => i = j
    <1>1. DOMAIN namedKeys = 1 .. 14
        BY DEF namedKeys
    <1>2. ASSUME NEW i \in 1 .. 14
          PROVE  /\ Unlike(i, letters, 26) /\ Unlike(i, digits, 10)
                 /\ Unlike(i, functionKeys, 24) /\ Unlike(i, ModifierWords, 9)
        <2>1. Unlike(i, letters, 26)
            BY DEF letters, Unlike, Spellings, namedKeys, Named
        <2>2. Unlike(i, digits, 10)
            BY DEF digits, Unlike, Spellings, namedKeys, Named
        <2>3. Unlike(i, functionKeys, 24)
            BY DEF functionKeys, Unlike, Spellings, namedKeys, Named
        <2>4. Unlike(i, ModifierWords, 9)
            BY DEF ModifierWords, Unlike, Spellings, namedKeys, Named
        <2> QED
            BY <2>1, <2>2, <2>3, <2>4
    <1>3. ASSUME NEW i \in 1 .. 14, NEW j \in 1 .. 14, NEW n \in Spellings(i), n \in Spellings(j)
          PROVE  i = j
        BY <1>3 DEF Spellings, namedKeys, Named
    <1> QED
        BY <1>1, <1>2, <1>3

NameWords ==
    {"left", "links", "up", "hoch", "auf", "right", "rechts", "down", "runter", "ab", "home",
     "pos1", "end", "ende", "pageup", "bild^", "bildauf", "bildhoch", "pagedown", "bildv",
     "bildab", "bildrunter", "insert", "einfg", "einfuegen", "delete", "entf", "entfernen",
     "del", "space", "leertaste", "escape", "esc", "tab", "tabulator", "enter", "eingabe",
     "return"}

LetterWords == {"a", "b", "c", "d", "e", "f", "g", "h", "i", "j", "k", "l", "m", "n", "o",
                "p", "q", "r", "s", "t", "u", "v", "w", "x", "y", "z"}
DigitWords == {"0", "1", "2", "3", "4", "5", "6", "7", "8", "9"}
FunctionWords == {"f1", "f2", "f3", "f4", "f5", "f6", "f7", "f8", "f9", "f10", "f11", "f12",
                  "f13", "f14", "f15", "f16", "f17", "f18", "f19", "f20", "f21", "f22",
                  "f23", "f24"}

LEMMA NoneSeparates ==
    /\ \A i \in 1 .. 26 : letters[i] \notin Separators
    /\ \A i \in 1 .. 10 : digits[i] \notin Separators
    /\ \A i \in 1 .. 24 : functionKeys[i] \notin Separators
    /\ \A i \in 1 .. 14 : Spellings(i) \cap Separators = {}
    /\ DOMAIN modNames \cap Separators = {}
    <1>1. /\ \A i \in 1 .. 26 : letters[i] \in LetterWords
          /\ \A i \in 1 .. 10 : digits[i] \in DigitWords
          /\ \A i \in 1 .. 24 : functionKeys[i] \in FunctionWords
        <2>1. \A i \in 1 .. 26 : letters[i] \in LetterWords
            BY DEF letters, LetterWords
        <2>2. \A i \in 1 .. 10 : digits[i] \in DigitWords
            BY DEF digits, DigitWords
        <2>3. \A i \in 1 .. 24 : functionKeys[i] \in FunctionWords
            BY DEF functionKeys, FunctionWords
        <2> QED
            BY <2>1, <2>2, <2>3
    <1>2. \A i \in 1 .. 14 : Spellings(i) \subseteq NameWords
        BY DEF Spellings, namedKeys, Named, NameWords
    <1>3. /\ "+" \notin LetterWords /\ "+" \notin DigitWords /\ "+" \notin FunctionWords
          /\ "+" \notin NameWords
        BY Zenon DEF LetterWords, DigitWords, FunctionWords, NameWords
    <1>4. /\ "-" \notin LetterWords /\ "-" \notin DigitWords /\ "-" \notin FunctionWords
          /\ "-" \notin NameWords
        BY Zenon DEF LetterWords, DigitWords, FunctionWords, NameWords
    <1>5. /\ " " \notin LetterWords /\ " " \notin DigitWords /\ " " \notin FunctionWords
          /\ " " \notin NameWords
        BY Zenon DEF LetterWords, DigitWords, FunctionWords, NameWords
    <1>6. /\ LetterWords \cap Separators = {} /\ DigitWords \cap Separators = {}
          /\ FunctionWords \cap Separators = {} /\ NameWords \cap Separators = {}
        BY <1>3, <1>4, <1>5, Zenon DEF Separators
    <1>7. DOMAIN modNames \cap Separators = {}
        BY Zenon DEF modNames, Separators
    <1> QED
        BY <1>1, <1>2, <1>6, <1>7

\* The code of a named key is that of no other.
OtherCode(code) ==
    code \in Nat /\ code # 0 /\ code \notin 65 .. 90 /\ code \notin 48 .. 57
        /\ code \notin 112 .. 135

LEMMA NamedCodes ==
    /\ \A i \in 1 .. 14 : OtherCode(namedKeys[i].vk)
    /\ \A i, j \in 1 .. 14 : namedKeys[i].vk = namedKeys[j].vk => i = j
    <1>1. \A i \in 1 .. 14 : OtherCode(namedKeys[i].vk)
        BY DEF namedKeys, Named, OtherCode
    <1>2. \A i, j \in 1 .. 14 : namedKeys[i].vk = namedKeys[j].vk => i = j
        BY DEF namedKeys, Named
    <1> QED
        BY <1>1, <1>2

IsRun(run, names, n, first) ==
    /\ DOMAIN run = {names[i] : i \in 1 .. n}
    /\ \A i \in 1 .. n : run[names[i]] = first - 1 + i

LEMMA RunIs ==
    ASSUME NEW names, NEW n \in Nat, Distinct(names, n), NEW first \in Nat \ {0}
    PROVE  IsRun(Run(names, first), names, n, first)
    <1>1. DOMAIN Run(names, first) = {names[i] : i \in 1 .. n}
        BY DEF Run, Distinct
    <1>2. ASSUME NEW i \in 1 .. n PROVE Run(names, first)[names[i]] = first - 1 + i
        <2> DEFINE Is(j) == names[j] = names[i]
                   at == CHOOSE j \in DOMAIN names : Is(j)
        <2>1. Run(names, first)[names[i]] = first - 1 + at
            BY DEF Run, Distinct
        <2>2. at \in 1 .. n /\ Is(at)
            <3> HIDE DEF Is
            <3>1. Is(i)
                BY DEF Is
            <3> QED
                BY <3>1 DEF Distinct
        <2> HIDE DEF at
        <2>3. at = i
            BY <2>2 DEF Distinct
        <2> QED
            BY <2>1, <2>3
    <1> QED
        BY <1>1, <1>2 DEF IsRun

LEMMA NamedRunIs ==
    /\ DOMAIN namedRun = UNION {Spellings(i) : i \in 1 .. 14}
    /\ \A i \in 1 .. 14 : \A n \in Spellings(i) : namedRun[n] = namedKeys[i].vk
    <1>1. DOMAIN namedRun = UNION {Spellings(i) : i \in 1 .. 14}
        BY SpellingsDiffer DEF namedRun
    <1>2. ASSUME NEW i \in 1 .. 14, NEW n \in Spellings(i)
          PROVE  namedRun[n] = namedKeys[i].vk
        <2> DEFINE Has(j) == /\ n \in Spellings(j)
                             /\ \A k \in DOMAIN namedKeys : n \in Spellings(k) => k <= j
                   at == CHOOSE j \in DOMAIN namedKeys : Has(j)
        <2>1. \A j \in 1 .. 14 : n \in Spellings(j) => i = j
            BY SpellingsDiffer
        <2>2. namedRun[n] = namedKeys[at].vk
            BY <1>1 DEF namedRun
        <2>3. Has(i)
            BY <2>1, SpellingsDiffer
        <2>4. at \in DOMAIN namedKeys /\ Has(at)
            <3> HIDE DEF Has
            <3> QED
                BY <2>3, SpellingsDiffer
        <2> HIDE DEF at
        <2>5. at = i
            BY <2>1, <2>4, SpellingsDiffer
        <2> QED
            BY <2>2, <2>5
    <1> QED
        BY <1>1, <1>2

NamesOf(t, n) == {t[j] : j \in 1 .. n}
AllSpellings  == UNION {Spellings(i) : i \in 1 .. 14}

LEMMA ApartFrom ==
    ASSUME NEW s, NEW m, NEW t, NEW n, Apart(s, m, t, n), NEW i \in 1 .. m
    PROVE  s[i] \notin NamesOf(t, n)
    BY DEF Apart, NamesOf

LEMMA UnlikeAll ==
    ASSUME NEW t, NEW n, \A i \in 1 .. 14 : Unlike(i, t, n), NEW j \in 1 .. n
    PROVE  t[j] \notin AllSpellings
    BY DEF Unlike, AllSpellings

LEMMA ModifierWordsAre == DOMAIN modNames = NamesOf(ModifierWords, 9)
    <1>1. DOMAIN modNames = {"strg", "ctrl", "control", "steuerung", "alt", "umschalt", "shift",
                             "win", "windows"}
        BY DEF modNames
    <1>2. NamesOf(ModifierWords, 9) = {"strg", "ctrl", "control", "steuerung", "alt", "umschalt",
                                       "shift", "win", "windows"}
        BY DEF NamesOf, ModifierWords
    <1> QED
        BY <1>1, <1>2

(***************************************************************************)
(* What Parse looks a word up in: every name of every key, ...             *)
(***************************************************************************)
Holds(table, names, n, first) ==
    \A i \in 1 .. n : names[i] \in DOMAIN table /\ table[names[i]] = first - 1 + i
HoldsNamed(table) ==
    \A i \in 1 .. 14 : \A n \in Spellings(i) :
        n \in DOMAIN table /\ table[n] = namedKeys[i].vk

LEMMA OverKeeps ==
    ASSUME NEW f, NEW g, NEW names, NEW n, NEW first, Holds(f, names, n, first),
           \A i \in 1 .. n : names[i] \notin DOMAIN g
    PROVE  Holds(Over(f, g), names, n, first)
    BY DEF Over, Holds

LEMMA OverEnters ==
    ASSUME NEW f, NEW g, NEW names, NEW n, NEW first, Holds(g, names, n, first)
    PROVE  Holds(Over(f, g), names, n, first)
    BY DEF Over, Holds

LEMMA RunHolds ==
    ASSUME NEW run, NEW names, NEW n, NEW first, IsRun(run, names, n, first)
    PROVE  Holds(run, names, n, first) /\ DOMAIN run = NamesOf(names, n)
    BY DEF IsRun, Holds, NamesOf

LEMMA KeysAre ==
    /\ Holds(keyByName, letters, 26, 65) /\ Holds(keyByName, digits, 10, 48)
    /\ Holds(keyByName, functionKeys, 24, 112) /\ HoldsNamed(keyByName)
    /\ DOMAIN keyByName =
          NamesOf(letters, 26) \cup NamesOf(digits, 10) \cup NamesOf(functionKeys, 24)
              \cup AllSpellings
    <1> DEFINE L == Run(letters, 65)
               D == Run(digits, 48)
               F == Run(functionKeys, 112)
               N == namedRun
    <1>1. IsRun(L, letters, 26, 65) /\ IsRun(D, digits, 10, 48) /\ IsRun(F, functionKeys, 24, 112)
        <2>1. 26 \in Nat /\ 10 \in Nat /\ 24 \in Nat
            OBVIOUS
        <2>2. 65 \in Nat \ {0} /\ 48 \in Nat \ {0} /\ 112 \in Nat \ {0}
            OBVIOUS
        <2> QED
            BY <2>1, <2>2, NamesDiffer, RunIs, Zenon
    <1>2. keyByName = Over(Over(Over(L, D), F), N)
        BY DEF keyByName
    <1>3. DOMAIN N = AllSpellings /\ HoldsNamed(N)
        BY NamedRunIs DEF HoldsNamed, AllSpellings
    <1> HIDE DEF L, D, F, N
    <1>4. Holds(L, letters, 26, 65) /\ DOMAIN L = NamesOf(letters, 26)
        BY <1>1, RunHolds, Zenon
    <1>5. Holds(D, digits, 10, 48) /\ DOMAIN D = NamesOf(digits, 10)
        BY <1>1, RunHolds, Zenon
    <1>6. Holds(F, functionKeys, 24, 112) /\ DOMAIN F = NamesOf(functionKeys, 24)
        BY <1>1, RunHolds, Zenon
    <1>7. Holds(keyByName, letters, 26, 65)
        <2>1. \A i \in 1 .. 26 : letters[i] \notin DOMAIN D
            BY <1>5, NamesDiffer, ApartFrom, Zenon
        <2>2. \A i \in 1 .. 26 : letters[i] \notin DOMAIN F
            BY <1>6, NamesDiffer, ApartFrom, Zenon
        <2>3. \A i \in 1 .. 26 : letters[i] \notin DOMAIN N
            BY <1>3, SpellingsDiffer, UnlikeAll, Zenon
        <2>4. Holds(Over(L, D), letters, 26, 65)
            BY <1>4, <2>1, OverKeeps, Zenon
        <2>5. Holds(Over(Over(L, D), F), letters, 26, 65)
            BY <2>2, <2>4, OverKeeps, Zenon
        <2> QED
            BY <1>2, <2>3, <2>5, OverKeeps, Zenon
    <1>8. Holds(keyByName, digits, 10, 48)
        <2>1. \A i \in 1 .. 10 : digits[i] \notin DOMAIN F
            BY <1>6, NamesDiffer, ApartFrom, Zenon
        <2>2. \A i \in 1 .. 10 : digits[i] \notin DOMAIN N
            BY <1>3, SpellingsDiffer, UnlikeAll, Zenon
        <2>3. Holds(Over(L, D), digits, 10, 48)
            BY <1>5, OverEnters, Zenon
        <2>4. Holds(Over(Over(L, D), F), digits, 10, 48)
            BY <2>1, <2>3, OverKeeps, Zenon
        <2> QED
            BY <1>2, <2>2, <2>4, OverKeeps, Zenon
    <1>9. Holds(keyByName, functionKeys, 24, 112)
        <2>1. \A i \in 1 .. 24 : functionKeys[i] \notin DOMAIN N
            BY <1>3, SpellingsDiffer, UnlikeAll, Zenon
        <2>2. Holds(Over(Over(L, D), F), functionKeys, 24, 112)
            BY <1>6, OverEnters, Zenon
        <2> QED
            BY <1>2, <2>1, <2>2, OverKeeps, Zenon
    <1>10. HoldsNamed(keyByName)
        BY <1>2, <1>3 DEF HoldsNamed, Over
    <1>11. DOMAIN keyByName = DOMAIN L \cup DOMAIN D \cup DOMAIN F \cup DOMAIN N
        BY <1>2 DEF Over
    <1> QED
        BY <1>3, <1>4, <1>5, <1>6, <1>7, <1>8, <1>9, <1>10, <1>11, Zenon

(***************************************************************************)
(* ... and nothing else.                                                   *)
(***************************************************************************)
IsLetter(n)      == \E i \in 1 .. 26 : n = letters[i]
IsDigit(n)       == \E i \in 1 .. 10 : n = digits[i]
IsFunctionKey(n) == \E i \in 1 .. 24 : n = functionKeys[i]
IsNamed(n)       == \E i \in 1 .. 14 : n \in Spellings(i)

LEMMA EveryKey ==
    \A n \in DOMAIN keyByName : IsLetter(n) \/ IsDigit(n) \/ IsFunctionKey(n) \/ IsNamed(n)
    BY KeysAre DEF IsLetter, IsDigit, IsFunctionKey, IsNamed, NamesOf, AllSpellings

LEMMA NamesAre ==
    ASSUME NEW n \in DOMAIN keyByName
    PROVE  /\ keyByName[n] \in Nat \ {0}
           /\ n \notin Separators /\ n \notin DOMAIN modNames
    <1> DEFINE Other == NamesOf(ModifierWords, 9)
    <1>0. DOMAIN modNames = Other
        BY ModifierWordsAre
    <1>1. CASE IsLetter(n)
        <2>1. PICK i \in 1 .. 26 : n = letters[i]
            BY <1>1 DEF IsLetter
        <2>2. n \notin Separators /\ n \notin Other
            BY <2>1, NoneSeparates, NamesDiffer, ApartFrom, Zenon
        <2>3. keyByName[n] = 65 - 1 + i
            BY <2>1, KeysAre DEF Holds
        <2> QED
            BY <1>0, <2>2, <2>3
    <1>2. CASE IsDigit(n)
        <2>1. PICK i \in 1 .. 10 : n = digits[i]
            BY <1>2 DEF IsDigit
        <2>2. n \notin Separators /\ n \notin Other
            BY <2>1, NoneSeparates, NamesDiffer, ApartFrom, Zenon
        <2>3. keyByName[n] = 48 - 1 + i
            BY <2>1, KeysAre DEF Holds
        <2> QED
            BY <1>0, <2>2, <2>3
    <1>3. CASE IsFunctionKey(n)
        <2>1. PICK i \in 1 .. 24 : n = functionKeys[i]
            BY <1>3 DEF IsFunctionKey
        <2>2. n \notin Separators /\ n \notin Other
            BY <2>1, NoneSeparates, NamesDiffer, ApartFrom, Zenon
        <2>3. keyByName[n] = 112 - 1 + i
            BY <2>1, KeysAre DEF Holds
        <2> QED
            BY <1>0, <2>2, <2>3
    <1>4. CASE IsNamed(n)
        <2>1. PICK i \in 1 .. 14 : n \in Spellings(i)
            BY <1>4 DEF IsNamed
        <2>2. n \notin Separators
            BY <2>1, NoneSeparates
        <2>3. n \notin Other
            <3>1. Unlike(i, ModifierWords, 9)
                BY SpellingsDiffer
            <3> QED
                BY <2>1, <3>1 DEF Unlike, NamesOf
        <2>4. keyByName[n] = namedKeys[i].vk
            BY <2>1, KeysAre DEF HoldsNamed
        <2>5. keyByName[n] \in Nat \ {0}
            BY <2>4, NamedCodes DEF OtherCode
        <2> QED
            BY <1>0, <2>2, <2>3, <2>5
    <1> QED
        BY <1>1, <1>2, <1>3, <1>4, EveryKey

\* keyName is the inverse of the lookup, in both languages.
LEMMA KeyNameIs ==
    ASSUME NEW code \in validVK, NEW german \in BOOLEAN
    PROVE  keyName(code, german) \in DOMAIN keyByName /\ keyByName[keyName(code, german)] = code
    <1>1. PICK n \in DOMAIN keyByName : code = keyByName[n]
        BY DEF validVK
    <1>2. CASE IsLetter(n)
        <2>1. PICK i \in 1 .. 26 : n = letters[i]
            BY <1>2 DEF IsLetter
        <2>2. code = 65 - 1 + i
            BY <1>1, <2>1, KeysAre DEF Holds
        <2>3. keyName(code, german) = n
            BY <2>1, <2>2 DEF keyName
        <2> QED
            BY <1>1, <2>3
    <1>3. CASE IsDigit(n)
        <2>1. PICK i \in 1 .. 10 : n = digits[i]
            BY <1>3 DEF IsDigit
        <2>2. code = 48 - 1 + i
            BY <1>1, <2>1, KeysAre DEF Holds
        <2>3. keyName(code, german) = n
            BY <2>1, <2>2 DEF keyName
        <2> QED
            BY <1>1, <2>3
    <1>4. CASE IsFunctionKey(n)
        <2>1. PICK i \in 1 .. 24 : n = functionKeys[i]
            BY <1>4 DEF IsFunctionKey
        <2>2. code = 112 - 1 + i
            BY <1>1, <2>1, KeysAre DEF Holds
        <2>3. keyName(code, german) = n
            BY <2>1, <2>2 DEF keyName
        <2> QED
            BY <1>1, <2>3
    <1>5. CASE IsNamed(n)
        <2>1. PICK i \in 1 .. 14 : n \in Spellings(i)
            BY <1>5 DEF IsNamed
        <2>2. code = namedKeys[i].vk
            BY <1>1, <2>1, KeysAre DEF HoldsNamed
        <2> DEFINE Is(j) == namedKeys[j].vk = code
                   at == CHOOSE j \in DOMAIN namedKeys : Is(j)
        <2>3. at \in 1 .. 14 /\ Is(at) /\ \E j \in DOMAIN namedKeys : Is(j)
            <3>1. Is(i)
                BY <2>2
            <3> HIDE DEF Is
            <3> QED
                BY <3>1, SpellingsDiffer
        <2>4. at = i
            <3> HIDE DEF at
            <3> QED
                BY <2>2, <2>3, NamedCodes
        <2>5. keyName(code, german) =
                 IF german THEN namedKeys[at].label ELSE namedKeys[at].canonical
            <3>1. OtherCode(code)
                BY <2>2, NamedCodes, Zenon
            <3>2. code \notin 65 .. 90 /\ code \notin 48 .. 57 /\ code \notin 112 .. 135
                BY <3>1 DEF OtherCode
            <3> QED
                BY <2>3, <3>2 DEF keyName
        <2>6. keyName(code, german) \in Spellings(i)
            BY <2>4, <2>5 DEF Spellings
        <2> HIDE DEF at
        <2> QED
            BY <2>2, <2>6, KeysAre DEF HoldsNamed
    <1> QED
        BY <1>1, <1>2, <1>3, <1>4, <1>5, EveryKey

-----------------------------------------------------------------------------
(***************************************************************************)
(* A nonempty set of numbers has a least member: the form of induction the *)
(* provers can use.                                                        *)
(***************************************************************************)
Smaller == {p \in Nat \X Nat : p[1] < p[2]}

LEMMA SmallerIsWellFounded == IsWellFoundedOn(Smaller, Nat)
    BY NatLessThanWellFounded DEF OpToRel, Smaller

LEMMA LeastMember ==
    ASSUME NEW T, T \subseteq Nat, T # {}
    PROVE  \E n \in T : \A m \in T : n <= m
    <1>1. PICK n \in T : \A m \in T : ~(<<m, n>> \in Smaller)
        BY SmallerIsWellFounded, WFMin
    <1>2. ASSUME NEW m \in T PROVE n <= m
        <2>1. <<m, n>> \in Nat \X Nat /\ <<m, n>>[1] = m /\ <<m, n>>[2] = n
            OBVIOUS
        <2>2. ~(m < n)
            BY <1>1, <2>1 DEF Smaller
        <2> QED
            BY <2>2
    <1> QED
        BY <1>2

(***************************************************************************)
(* Tokens: the loop exists for every text, and goes word by word.          *)
(***************************************************************************)
Turn(before, w) == IF w \in Separators THEN before ELSE Token(before, w)

Loops(f, text, n) ==
    f = [k \in 0 .. n |->
            IF k = 0 THEN ZeroHotkey
            ELSE IF text[k] \in Separators THEN f[k - 1]
            ELSE Token(f[k - 1], text[k])]

LEMMA LoopExists ==
    ASSUME NEW text, NEW n \in Nat
    PROVE  \E f : Loops(f, text, n)
    <1> DEFINE Step(f, k) == IF k = 0 THEN ZeroHotkey
                             ELSE IF text[k] \in Separators THEN f[k - 1]
                             ELSE Token(f[k - 1], text[k])
               Fcn(f, m)  == f = [k \in 0 .. m |-> Step(f, k)]
               Wrong      == {m \in Nat : ~\E f : Fcn(f, m)}
    <1>1. ASSUME Wrong # {} PROVE FALSE
        <2>1. PICK m \in Wrong : \A j \in Wrong : m <= j
            <3>1. Wrong \subseteq Nat
                OBVIOUS
            <3> HIDE DEF Wrong
            <3> QED
                BY <1>1, <3>1, LeastMember
        <2>2. CASE m = 0
            <3> DEFINE f == [k \in 0 .. 0 |-> ZeroHotkey]
            <3>1. \A k \in 0 .. 0 : k = 0
                OBVIOUS
            <3>2. [k \in 0 .. 0 |-> ZeroHotkey] = [k \in 0 .. 0 |-> Step(f, k)]
                BY <3>1
            <3>3. Fcn(f, m)
                BY <2>2, <3>2
            <3> QED
                BY <2>1, <3>3
        <2>3. CASE m # 0
            <3>1. m \in Nat /\ m - 1 \in Nat /\ ~(m <= m - 1)
                BY <2>1, <2>3
            <3>2. PICK f : Fcn(f, m - 1)
                BY <2>1, <3>1
            <3> DEFINE g == [k \in 0 .. m |-> IF k = m THEN Step(f, m) ELSE f[k]]
            <3>3. ASSUME NEW k \in 0 .. m PROVE g[k] = Step(g, k)
                <4>1. k # 0 => k - 1 \in 0 .. m /\ k - 1 # m
                    BY <3>1
                <4>2. k # 0 => g[k - 1] = f[k - 1]
                    BY <4>1
                <4>3. Step(g, k) = Step(f, k)
                    BY <4>2
                <4>4. CASE k = m
                    BY <4>3, <4>4
                <4>5. CASE k # m
                    <5>1. k \in 0 .. m - 1
                        BY <3>1, <4>5
                    <5>2. f[k] = Step(f, k)
                        BY <3>2, <5>1
                    <5> QED
                        BY <4>3, <4>5, <5>2
                <4> QED
                    BY <4>4, <4>5
            <3>4. g = [k \in 0 .. m |-> g[k]]
                OBVIOUS
            <3> HIDE DEF g
            <3>5. Fcn(g, m)
                BY <3>3, <3>4
            <3> QED
                BY <2>1, <3>5
        <2> QED
            BY <2>2, <2>3
    <1>2. \E f : Fcn(f, n)
        BY <1>1
    <1> QED
        BY <1>2 DEF Loops

Steps(f, text, n) ==
    /\ f[0] = ZeroHotkey
    /\ \A k \in 1 .. n : f[k] = Turn(f[k - 1], text[k])
    /\ Tokens(text, n) = f[n]

LEMMA TokenSteps ==
    ASSUME NEW text, NEW n \in Nat
    PROVE  \E f : Steps(f, text, n)
    <1> DEFINE Step(f, k) == IF k = 0 THEN ZeroHotkey
                             ELSE IF text[k] \in Separators THEN f[k - 1]
                             ELSE Token(f[k - 1], text[k])
               Fcn(f) == f = [k \in 0 .. n |-> Step(f, k)]
               f      == CHOOSE f : Fcn(f)
    <1>1. Fcn(f)
        <2>1. \E g : Fcn(g)
            BY LoopExists DEF Loops
        <2> HIDE DEF Fcn
        <2> QED
            BY <2>1
    <1>2. Tokens(text, n) = f[n]
        BY DEF Tokens
    <1> HIDE DEF f
    <1>3. \A k \in 0 .. n : f[k] = Step(f, k)
        <2> DEFINE Body(k) == Step(f, k)
        <2>1. f = [k \in 0 .. n |-> Body(k)]
            BY <1>1
        <2> HIDE DEF Body
        <2>2. \A k \in 0 .. n : f[k] = Body(k)
            BY <2>1
        <2> QED
            BY <2>2 DEF Body
    <1>4. f[0] = ZeroHotkey
        <2>1. 0 \in 0 .. n
            OBVIOUS
        <2> QED
            BY <1>3, <2>1
    <1>5. ASSUME NEW k \in 1 .. n PROVE f[k] = Turn(f[k - 1], text[k])
        <2>1. k \in 0 .. n /\ k # 0
            OBVIOUS
        <2> QED
            BY <1>3, <2>1 DEF Turn
    <1> QED
        BY <1>2, <1>4, <1>5 DEF Steps

(***************************************************************************)
(* What the loop has understood after k words: what the words say, or that *)
(* one of them is unknown or two are keys.                                 *)
(***************************************************************************)
WordsIn(text, k) == {i \in 1 .. k : text[i] \notin Separators}
KeysIn(text, k)  == {i \in WordsIn(text, k) : text[i] \in DOMAIN keyByName}
ModsIn(text, k)  == {i \in WordsIn(text, k) : text[i] \in DOMAIN modNames}
ModsOf(text, k)  == {modNames[text[i]] : i \in ModsIn(text, k)}

Known(text, k) == WordsIn(text, k) = ModsIn(text, k) \cup KeysIn(text, k)

NoKeyYet(h, text, k) == KeysIn(text, k) = {} /\ h = Hotkey(ModsOf(text, k), 0)
OneKey(h, text, k) ==
    \E i \in 1 .. k :
        KeysIn(text, k) = {i} /\ h = Hotkey(ModsOf(text, k), keyByName[text[i]])
Refused(h, text, k) ==
    /\ "error" \in DOMAIN h
    /\ Known(text, k) => \E i, j \in KeysIn(text, k) : i # j

Understood(h, text, k) ==
    \/ Known(text, k) /\ (NoKeyYet(h, text, k) \/ OneKey(h, text, k))
    \/ Refused(h, text, k)

LEMMA HotkeyHas ==
    ASSUME NEW ms, NEW key
    PROVE  /\ "error" \notin DOMAIN Hotkey(ms, key)
           /\ Hotkey(ms, key).mods = ms /\ Hotkey(ms, key).key = key
           /\ \A c : [Hotkey(ms, key) EXCEPT !.key = c] = Hotkey(ms, c)
    BY DEF Hotkey

\* A turn that finds a separator, a modifier, a key or something else.
LEMMA InsNext ==
    ASSUME NEW text, NEW k \in Nat \ {0}
    PROVE  /\ text[k] \in Separators =>
                 /\ WordsIn(text, k) = WordsIn(text, k - 1) /\ KeysIn(text, k) = KeysIn(text, k - 1)
                 /\ ModsIn(text, k) = ModsIn(text, k - 1) /\ ModsOf(text, k) = ModsOf(text, k - 1)
           /\ text[k] \in DOMAIN modNames =>
                 /\ WordsIn(text, k) = WordsIn(text, k - 1) \cup {k}
                 /\ KeysIn(text, k) = KeysIn(text, k - 1)
                 /\ ModsIn(text, k) = ModsIn(text, k - 1) \cup {k}
                 /\ ModsOf(text, k) = ModsOf(text, k - 1) \cup {modNames[text[k]]}
           /\ text[k] \in DOMAIN keyByName =>
                 /\ WordsIn(text, k) = WordsIn(text, k - 1) \cup {k}
                 /\ KeysIn(text, k) = KeysIn(text, k - 1) \cup {k}
                 /\ ModsIn(text, k) = ModsIn(text, k - 1) /\ ModsOf(text, k) = ModsOf(text, k - 1)
           /\ text[k] \notin Separators \cup DOMAIN modNames \cup DOMAIN keyByName => ~Known(text, k)
           /\ ~Known(text, k - 1) => ~Known(text, k)
           /\ KeysIn(text, k - 1) \subseteq KeysIn(text, k)
           /\ k \notin WordsIn(text, k - 1)
    <1>1. /\ k \in 1 .. k /\ 1 .. k = (1 .. k - 1) \cup {k} /\ k \notin 1 .. k - 1
        OBVIOUS
    <1>2. text[k] \in DOMAIN modNames => text[k] \notin Separators /\ text[k] \notin DOMAIN keyByName
        BY NamesAre, NoneSeparates
    <1>3. text[k] \in DOMAIN keyByName => text[k] \notin Separators /\ text[k] \notin DOMAIN modNames
        BY NamesAre
    <1>4. /\ text[k] \in Separators => WordsIn(text, k) = WordsIn(text, k - 1)
          /\ text[k] \notin Separators => WordsIn(text, k) = WordsIn(text, k - 1) \cup {k}
          /\ k \notin WordsIn(text, k - 1)
        BY <1>1 DEF WordsIn
    <1>5. /\ text[k] \in Separators =>
                KeysIn(text, k) = KeysIn(text, k - 1) /\ ModsIn(text, k) = ModsIn(text, k - 1)
          /\ text[k] \in DOMAIN modNames =>
                KeysIn(text, k) = KeysIn(text, k - 1) /\ ModsIn(text, k) = ModsIn(text, k - 1) \cup {k}
          /\ text[k] \in DOMAIN keyByName =>
                KeysIn(text, k) = KeysIn(text, k - 1) \cup {k} /\ ModsIn(text, k) = ModsIn(text, k - 1)
          /\ KeysIn(text, k - 1) \subseteq KeysIn(text, k)
        BY <1>2, <1>3, <1>4 DEF KeysIn, ModsIn
    <1>6. /\ text[k] \in Separators => ModsOf(text, k) = ModsOf(text, k - 1)
          /\ text[k] \in DOMAIN modNames => ModsOf(text, k) = ModsOf(text, k - 1) \cup {modNames[text[k]]}
          /\ text[k] \in DOMAIN keyByName => ModsOf(text, k) = ModsOf(text, k - 1)
        BY <1>5 DEF ModsOf
    <1>7. text[k] \notin Separators \cup DOMAIN modNames \cup DOMAIN keyByName => ~Known(text, k)
        BY <1>4 DEF Known, ModsIn, KeysIn
    <1>8. ~Known(text, k - 1) => ~Known(text, k)
        BY <1>4 DEF Known, ModsIn, KeysIn
    <1> QED
        BY <1>2, <1>3, <1>4, <1>5, <1>6, <1>7, <1>8

LEMMA TurnUnderstood ==
    ASSUME NEW text, NEW k \in Nat \ {0}, NEW h, Understood(h, text, k - 1)
    PROVE  Understood(Turn(h, text[k]), text, k)
    <1>1. CASE text[k] \in Separators
        <2>1. Turn(h, text[k]) = h
            BY <1>1 DEF Turn
        <2>2. /\ WordsIn(text, k) = WordsIn(text, k - 1) /\ KeysIn(text, k) = KeysIn(text, k - 1)
              /\ ModsIn(text, k) = ModsIn(text, k - 1) /\ ModsOf(text, k) = ModsOf(text, k - 1)
            BY <1>1, InsNext
        <2>3. \A i \in 1 .. k - 1 : i \in 1 .. k
            OBVIOUS
        <2> QED
            BY <2>1, <2>2, <2>3 DEF Understood, Known, NoKeyYet, OneKey, Refused
    <1>2. CASE text[k] \notin Separators /\ Refused(h, text, k - 1)
        <2>1. Turn(h, text[k]) = h
            BY <1>2 DEF Turn, Token, Refused
        <2>2. KeysIn(text, k - 1) \subseteq KeysIn(text, k) /\ (~Known(text, k - 1) => ~Known(text, k))
            BY InsNext
        <2>3. Refused(h, text, k)
            BY <1>2, <2>2 DEF Refused
        <2> QED
            BY <2>1, <2>3 DEF Understood
    <1>3. CASE /\ text[k] \notin Separators /\ Known(text, k - 1)
               /\ NoKeyYet(h, text, k - 1) \/ OneKey(h, text, k - 1)
        <2>1. PICK c : h = Hotkey(ModsOf(text, k - 1), c)
            BY <1>3 DEF NoKeyYet, OneKey
        <2>2. "error" \notin DOMAIN h /\ h.key = c
            BY <2>1, HotkeyHas
        <2>3. Turn(h, text[k]) = Token(h, text[k])
            BY <1>3 DEF Turn
        <2>4. CASE text[k] \in DOMAIN modNames
            <3>1. /\ KeysIn(text, k) = KeysIn(text, k - 1) /\ Known(text, k)
                  /\ ModsOf(text, k) = ModsOf(text, k - 1) \cup {modNames[text[k]]}
                BY <1>3, <2>4, InsNext DEF Known
            <3>2. Turn(h, text[k]) = [h EXCEPT !.mods = @ \cup {modNames[text[k]]}]
                BY <2>2, <2>3, <2>4 DEF Token
            <3>3. \A d : h = Hotkey(ModsOf(text, k - 1), d) =>
                            Turn(h, text[k]) = Hotkey(ModsOf(text, k), d)
                <4> SUFFICES ASSUME NEW d, h = Hotkey(ModsOf(text, k - 1), d)
                             PROVE  Turn(h, text[k]) = Hotkey(ModsOf(text, k), d)
                    OBVIOUS
                <4> DEFINE A == ModsOf(text, k - 1)
                           w == modNames[text[k]]
                <4>1. [Hotkey(A, d) EXCEPT !.mods = @ \cup {w}] = Hotkey(A \cup {w}, d)
                    <5> HIDE DEF A, w
                    <5> QED
                        BY DEF Hotkey
                <4>2. Turn(h, text[k]) = [Hotkey(A, d) EXCEPT !.mods = @ \cup {w}]
                    BY <3>2, Zenon
                <4> QED
                    BY <3>1, <4>1, <4>2
            <3>4. \A i \in 1 .. k - 1 : i \in 1 .. k
                OBVIOUS
            <3> QED
                BY <1>3, <3>1, <3>3, <3>4 DEF Understood, NoKeyYet, OneKey
        <2>5. CASE text[k] \in DOMAIN keyByName
            <3>1. /\ KeysIn(text, k) = KeysIn(text, k - 1) \cup {k} /\ Known(text, k)
                  /\ ModsOf(text, k) = ModsOf(text, k - 1) /\ text[k] \notin DOMAIN modNames
                  /\ k \notin KeysIn(text, k - 1)
                BY <1>3, <2>5, InsNext, NamesAre DEF Known, KeysIn
            <3>2. CASE NoKeyYet(h, text, k - 1)
                <4>1. h = Hotkey(ModsOf(text, k - 1), 0) /\ h.key = 0 /\ KeysIn(text, k) = {k}
                    BY <3>1, <3>2, HotkeyHas DEF NoKeyYet
                <4>2. Turn(h, text[k]) = [h EXCEPT !.key = keyByName[text[k]]]
                    BY <2>2, <2>3, <2>5, <3>1, <4>1 DEF Token
                <4>3. Turn(h, text[k]) = Hotkey(ModsOf(text, k), keyByName[text[k]])
                    BY <3>1, <4>1, <4>2, HotkeyHas
                <4>4. k \in 1 .. k
                    OBVIOUS
                <4> QED
                    BY <3>1, <4>1, <4>3, <4>4 DEF Understood, OneKey
            <3>3. CASE OneKey(h, text, k - 1)
                <4>1. PICK i \in 1 .. k - 1 :
                         /\ KeysIn(text, k - 1) = {i}
                         /\ h = Hotkey(ModsOf(text, k - 1), keyByName[text[i]])
                    BY <3>3 DEF OneKey
                <4>2. h.key # 0
                    <5>1. text[i] \in DOMAIN keyByName
                        BY <4>1 DEF KeysIn
                    <5>2. keyByName[text[i]] # 0
                        BY <5>1, NamesAre
                    <5> QED
                        BY <4>1, <5>2, HotkeyHas
                <4>3. Turn(h, text[k]) = Error("two keys")
                    BY <2>2, <2>3, <2>5, <3>1, <4>2 DEF Token
                <4>4. "error" \in DOMAIN Error("two keys")
                    BY DEF Error
                <4>5. i # k /\ i \in KeysIn(text, k) /\ k \in KeysIn(text, k)
                    BY <3>1, <4>1
                <4> QED
                    BY <4>3, <4>4, <4>5 DEF Understood, Refused
            <3> QED
                BY <1>3, <3>2, <3>3
        <2>6. CASE text[k] \notin DOMAIN modNames \cup DOMAIN keyByName
            <3>1. Turn(h, text[k]) = Error("unknown key")
                BY <2>2, <2>3, <2>6 DEF Token
            <3>2. "error" \in DOMAIN Error("unknown key")
                BY DEF Error
            <3>3. ~Known(text, k)
                BY <1>3, <2>6, InsNext
            <3> QED
                BY <3>1, <3>2, <3>3 DEF Understood, Refused
        <2> QED
            BY <2>4, <2>5, <2>6
    <1> QED
        BY <1>1, <1>2, <1>3 DEF Understood

LEMMA TokensUnderstood ==
    ASSUME NEW text, NEW n \in Nat
    PROVE  Understood(Tokens(text, n), text, n)
    <1>1. PICK f : Steps(f, text, n)
        BY TokenSteps
    <1> DEFINE Wrong == {k \in 0 .. n : ~Understood(f[k], text, k)}
    <1>2. Understood(f[0], text, 0)
        <2>1. WordsIn(text, 0) = {}
            BY DEF WordsIn
        <2>2. KeysIn(text, 0) = {} /\ ModsIn(text, 0) = {} /\ ModsOf(text, 0) = {}
            BY <2>1 DEF KeysIn, ModsIn, ModsOf
        <2>3. f[0] = Hotkey({}, 0)
            BY <1>1 DEF Steps, ZeroHotkey
        <2> QED
            BY <2>1, <2>2, <2>3 DEF Understood, Known, NoKeyYet
    <1>3. ASSUME Wrong # {} PROVE FALSE
        <2>1. PICK k \in Wrong : \A j \in Wrong : k <= j
            <3>1. Wrong \subseteq Nat
                OBVIOUS
            <3> HIDE DEF Wrong
            <3> QED
                BY <1>3, <3>1, LeastMember
        <2>2. k \in 1 .. n /\ k \in Nat \ {0} /\ k - 1 \in 0 .. n /\ ~(k <= k - 1)
            BY <1>2, <2>1
        <2>3. Understood(f[k - 1], text, k - 1)
            BY <2>1, <2>2
        <2>4. f[k] = Turn(f[k - 1], text[k])
            BY <1>1, <2>2 DEF Steps
        <2>5. Understood(f[k], text, k)
            BY <2>2, <2>3, <2>4, TurnUnderstood
        <2> QED
            BY <2>1, <2>5
    <1>4. Understood(f[n], text, n)
        <2>1. n \in 0 .. n
            OBVIOUS
        <2> QED
            BY <1>3, <2>1
    <1> QED
        BY <1>1, <1>4 DEF Steps

IsText(text) == Len(text) \in Nat /\ DOMAIN text = 1 .. Len(text)
Blank(text)  == \A i \in DOMAIN text : text[i] = " "

\* The one key of a text whose every word is known.
TheKey(text, n) ==
    {i \in KeysIn(text, n) : Known(text, n) /\ KeysIn(text, n) = {i} /\ ModsIn(text, n) # {}}

LEMMA MeansIs ==
    ASSUME NEW text, IsText(text)
    PROVE  /\ Blank(text) => Means(text) = {ZeroHotkey}
           /\ ~Blank(text) =>
                 Means(text) = {Hotkey(ModsOf(text, Len(text)), keyByName[text[i]]) :
                                   i \in TheKey(text, Len(text))}
    <1>1. Blank(text) => Means(text) = {ZeroHotkey}
        BY Zenon DEF Blank, Means
    <1>2. ASSUME ~Blank(text)
          PROVE  Means(text) = {Hotkey(ModsOf(text, Len(text)), keyByName[text[i]]) :
                                   i \in TheKey(text, Len(text))}
        <2> DEFINE n == Len(text)
                   W == {i \in DOMAIN text : text[i] \notin Separators}
                   K == {i \in W : text[i] \in DOMAIN keyByName}
                   M == {i \in W : text[i] \in DOMAIN modNames}
        <2>1. Means(text) = {Hotkey({modNames[text[i]] : i \in M}, keyByName[text[k]]) :
                                k \in {i \in K : W = M \cup K /\ K = {i} /\ M # {}}}
            BY <1>2, Zenon DEF Blank, Means
        <2>2. W = WordsIn(text, n)
            BY DEF IsText, WordsIn
        <2>3. K = KeysIn(text, n) /\ M = ModsIn(text, n)
            BY <2>2, Zenon DEF KeysIn, ModsIn
        <2> HIDE DEF W, K, M
        <2>4. {modNames[text[i]] : i \in M} = ModsOf(text, n)
            BY <2>3, Zenon DEF ModsOf
        <2>5. {i \in K : W = M \cup K /\ K = {i} /\ M # {}} = TheKey(text, n)
            BY <2>2, <2>3, Zenon DEF TheKey, Known
        <2> QED
            BY <2>1, <2>4, <2>5, Zenon
    <1> QED
        BY <1>1, <1>2

LEMMA ParseIs ==
    ASSUME NEW text, IsText(text)
    PROVE  Means(text) = IF IsValid(ParseText(text)) THEN {ParseText(text)} ELSE {}
    <1> DEFINE n == Len(text)
               h == Tokens(text, n)
               P == ParseText(text)
    <1>1. n \in Nat
        BY DEF IsText
    <1>2. CASE Blank(text)
        <2>1. P = ZeroHotkey
            BY <1>2, Zenon DEF Blank, ParseText
        <2>2. IsValid(ZeroHotkey)
            BY HotkeyHas DEF IsValid, ZeroHotkey
        <2>3. Means(text) = {ZeroHotkey}
            BY <1>2, MeansIs
        <2> HIDE DEF P
        <2>4. Means(text) = IF IsValid(P) THEN {P} ELSE {}
            BY <2>1, <2>2, <2>3
        <2> QED
            BY <2>4 DEF P
    <1>3. CASE ~Blank(text)
        <2>1. P = IF "error" \in DOMAIN h THEN h
                  ELSE IF h.key = 0 THEN Error("no key")
                  ELSE IF h.mods = {} THEN Error("no modifier")
                  ELSE h
            BY <1>3, Zenon DEF Blank, ParseText
        <2>2. Means(text) = {Hotkey(ModsOf(text, n), keyByName[text[i]]) : i \in TheKey(text, n)}
            BY <1>3, MeansIs
        <2>3. Understood(h, text, n)
            BY <1>1, TokensUnderstood
        <2>4. \A why : ~IsValid(Error(why))
            BY DEF IsValid, Error
        <2> HIDE DEF P, h, n
        <2>5. CASE Refused(h, text, n)
            <3>1. ~IsValid(P)
                BY <2>1, <2>5 DEF Refused, IsValid
            <3>2. TheKey(text, n) = {}
                BY <2>5 DEF Refused, TheKey
            <3> QED
                BY <2>2, <3>1, <3>2 DEF P
        <2>6. CASE Known(text, n) /\ NoKeyYet(h, text, n)
            <3>1. P = Error("no key")
                BY <2>1, <2>6, HotkeyHas DEF NoKeyYet
            <3>2. TheKey(text, n) = {}
                BY <2>6 DEF NoKeyYet, TheKey
            <3> QED
                BY <2>2, <2>4, <3>1, <3>2 DEF P
        <2>7. CASE Known(text, n) /\ OneKey(h, text, n)
            <3>1. PICK k \in 1 .. n :
                     KeysIn(text, n) = {k} /\ h = Hotkey(ModsOf(text, n), keyByName[text[k]])
                BY <2>7 DEF OneKey
            <3>2. h.key # 0 /\ h.mods = ModsOf(text, n) /\ "error" \notin DOMAIN h
                <4>1. text[k] \in DOMAIN keyByName
                    BY <3>1 DEF KeysIn
                <4>2. keyByName[text[k]] # 0
                    BY <4>1, NamesAre
                <4> QED
                    BY <3>1, <4>2, HotkeyHas
            <3>3. ModsIn(text, n) = {} <=> ModsOf(text, n) = {}
                BY DEF ModsOf
            <3>4. CASE ModsOf(text, n) = {}
                <4>1. P = Error("no modifier")
                    BY <2>1, <3>2, <3>4
                <4>2. TheKey(text, n) = {}
                    BY <3>3, <3>4 DEF TheKey
                <4> QED
                    BY <2>2, <2>4, <4>1, <4>2 DEF P
            <3>5. CASE ModsOf(text, n) # {}
                <4>1. P = h /\ IsValid(h)
                    BY <2>1, <3>2, <3>5 DEF IsValid
                <4>2. TheKey(text, n) = {k}
                    BY <2>7, <3>1, <3>3, <3>5 DEF TheKey
                <4>3. Means(text) = {h}
                    BY <2>2, <3>1, <4>2
                <4> QED
                    BY <4>1, <4>3 DEF P
            <3> QED
                BY <3>4, <3>5
        <2> QED
            BY <2>3, <2>5, <2>6, <2>7 DEF Understood
    <1> QED
        BY <1>2, <1>3

(***************************************************************************)
(* modParts names the modifiers of a set, and no other words.              *)
(***************************************************************************)
Denotes(parts, ms) ==
    /\ parts \in Seq(DOMAIN modNames)
    /\ {modNames[parts[j]] : j \in 1 .. Len(parts)} = ms

LEMMA DenotesBoth ==
    ASSUME NEW p, NEW q, NEW A, NEW B, Denotes(p, A), Denotes(q, B)
    PROVE  Denotes(p \o q, A \cup B)
    <1> DEFINE D == DOMAIN modNames
               r == p \o q
    <1>1. p \in Seq(D) /\ q \in Seq(D)
        BY DEF Denotes
    <1> HIDE DEF D
    <1>2. /\ r \in Seq(D) /\ Len(r) = Len(p) + Len(q) /\ Len(p) \in Nat /\ Len(q) \in Nat
          /\ \A j \in 1 .. Len(p) : r[j] = p[j]
          /\ \A j \in 1 .. Len(q) : r[Len(p) + j] = q[j]
        BY <1>1
    <1> HIDE DEF r
    <1>3. ASSUME NEW j \in 1 .. Len(r) PROVE modNames[r[j]] \in A \cup B
        <2>1. CASE j <= Len(p)
            BY <1>2, <2>1 DEF Denotes
        <2>2. CASE ~(j <= Len(p))
            <3>1. j - Len(p) \in 1 .. Len(q) /\ Len(p) + (j - Len(p)) = j
                BY <1>2, <2>2
            <3>2. r[j] = q[j - Len(p)]
                BY <1>2, <3>1
            <3> QED
                BY <3>1, <3>2 DEF Denotes
        <2> QED
            BY <2>1, <2>2
    <1>4. ASSUME NEW m \in A PROVE \E j \in 1 .. Len(r) : m = modNames[r[j]]
        <2>1. PICK j \in 1 .. Len(p) : m = modNames[p[j]]
            BY DEF Denotes
        <2>2. j \in 1 .. Len(r) /\ r[j] = p[j]
            BY <1>2
        <2> QED
            BY <2>1, <2>2
    <1>5. ASSUME NEW m \in B PROVE \E j \in 1 .. Len(r) : m = modNames[r[j]]
        <2>1. PICK j \in 1 .. Len(q) : m = modNames[q[j]]
            BY DEF Denotes
        <2>2. Len(p) + j \in 1 .. Len(r) /\ r[Len(p) + j] = q[j]
            BY <1>2
        <2> QED
            BY <2>1, <2>2
    <1>6. {modNames[r[j]] : j \in 1 .. Len(r)} = A \cup B
        BY <1>3, <1>4, <1>5
    <1> QED
        BY <1>2, <1>6 DEF Denotes, D, r

LEMMA PartDenotes ==
    ASSUME NEW m, NEW word \in DOMAIN modNames, modNames[word] = m, NEW ms
    PROVE  Denotes(IF m \in ms THEN <<word>> ELSE <<>>, {m} \cap ms)
    <1> DEFINE D == DOMAIN modNames
               p == IF m \in ms THEN <<word>> ELSE <<>>
    <1>0. word \in D
        OBVIOUS
    <1> HIDE DEF D
    <1>1. CASE m \in ms
        <2>1. p = <<word>> /\ p \in Seq(D) /\ Len(p) = 1 /\ p[1] = word
            BY <1>0, <1>1
        <2>2. \A j \in 1 .. 1 : j = 1
            OBVIOUS
        <2> HIDE DEF p
        <2>3. {modNames[p[j]] : j \in 1 .. Len(p)} = {m}
            BY <2>1, <2>2
        <2>4. {m} \cap ms = {m}
            BY <1>1
        <2> QED
            BY <2>1, <2>3, <2>4 DEF Denotes, D, p
    <1>2. CASE m \notin ms
        <2>1. p = <<>> /\ p \in Seq(D) /\ Len(p) = 0
            BY <1>2
        <2>2. 1 .. 0 = {}
            OBVIOUS
        <2> HIDE DEF p
        <2>3. {modNames[p[j]] : j \in 1 .. Len(p)} = {}
            BY <2>1, <2>2
        <2>4. {m} \cap ms = {}
            BY <1>2
        <2> QED
            BY <2>1, <2>3, <2>4 DEF Denotes, D, p
    <1> QED
        BY <1>1, <1>2

LEMMA ModPartsDenote ==
    ASSUME NEW ms \in SUBSET Mod, NEW german \in BOOLEAN
    PROVE  Denotes(modParts(ms, german), ms)
    <1> DEFINE Part(m, word) == IF m \in ms THEN <<word>> ELSE <<>>
               ctrl  == IF german THEN "strg" ELSE "ctrl"
               shift == IF german THEN "umschalt" ELSE "shift"
    <1>1. /\ ctrl \in DOMAIN modNames /\ modNames[ctrl] = "Ctrl"
          /\ shift \in DOMAIN modNames /\ modNames[shift] = "Shift"
          /\ "alt" \in DOMAIN modNames /\ modNames["alt"] = "Alt"
          /\ "win" \in DOMAIN modNames /\ modNames["win"] = "Win"
        BY DEF modNames
    <1>2. modParts(ms, german) =
             Part("Ctrl", ctrl) \o Part("Alt", "alt") \o Part("Shift", shift) \o Part("Win", "win")
        BY DEF modParts
    <1> HIDE DEF ctrl, shift
    <1>3. /\ Denotes(Part("Ctrl", ctrl), {"Ctrl"} \cap ms)
          /\ Denotes(Part("Alt", "alt"), {"Alt"} \cap ms)
          /\ Denotes(Part("Shift", shift), {"Shift"} \cap ms)
          /\ Denotes(Part("Win", "win"), {"Win"} \cap ms)
        BY <1>1, PartDenotes
    <1> HIDE DEF Part
    <1>4. Denotes(Part("Ctrl", ctrl) \o Part("Alt", "alt"), ({"Ctrl"} \cap ms) \cup ({"Alt"} \cap ms))
        BY <1>3, DenotesBoth
    <1>5. Denotes(Part("Ctrl", ctrl) \o Part("Alt", "alt") \o Part("Shift", shift),
                  ({"Ctrl"} \cap ms) \cup ({"Alt"} \cap ms) \cup ({"Shift"} \cap ms))
        BY <1>3, <1>4, DenotesBoth
    <1>6. Denotes(modParts(ms, german),
                  ({"Ctrl"} \cap ms) \cup ({"Alt"} \cap ms) \cup ({"Shift"} \cap ms)
                      \cup ({"Win"} \cap ms))
        BY <1>2, <1>3, <1>5, DenotesBoth
    <1>7. ({"Ctrl"} \cap ms) \cup ({"Alt"} \cap ms) \cup ({"Shift"} \cap ms)
             \cup ({"Win"} \cap ms) = ms
        BY DEF Mod
    <1> QED
        BY <1>6, <1>7

(***************************************************************************)
(* Join puts a "+" between the words.                                      *)
(***************************************************************************)
Joins(text, words) ==
    /\ IsText(text) /\ Len(text) = 2 * Len(words) - 1
    /\ \A i \in 1 .. Len(text) :
          \/ text[i] = "+"
          \/ \E j \in 1 .. Len(words) : i = 2 * j - 1 /\ text[i] = words[j]
    /\ \A j \in 1 .. Len(words) : 2 * j - 1 \in 1 .. Len(text) /\ text[2 * j - 1] = words[j]

LEMMA JoinJoins ==
    ASSUME NEW S, NEW words \in Seq(S), words # <<>>
    PROVE  Joins(Join(words), words)
    <1> DEFINE n == Len(words)
               Word(i) == IF i % 2 = 1 THEN words[(i + 1) \div 2] ELSE "+"
               t == [i \in 1 .. 2 * n - 1 |-> Word(i)]
    <1>1. n \in Nat /\ n >= 1 /\ 2 * n - 1 \in Nat
        <2>1. n \in Nat /\ n # 0
            OBVIOUS
        <2> HIDE DEF n
        <2> QED
            BY <2>1
    <1>2. Join(words) = t
        BY DEF Join
    <1>3. \A j \in 1 .. n : /\ 2 * j - 1 \in 1 .. 2 * n - 1 /\ (2 * j - 1) % 2 = 1
                            /\ ((2 * j - 1) + 1) \div 2 = j
        <2> HIDE DEF n
        <2> QED
            BY <1>1
    <1>4. \A i \in 1 .. 2 * n - 1 :
             i % 2 = 1 => (i + 1) \div 2 \in 1 .. n /\ i = 2 * ((i + 1) \div 2) - 1
        <2> HIDE DEF n
        <2> QED
            BY <1>1
    <1>5. t \in [1 .. 2 * n - 1 -> {Word(i) : i \in 1 .. 2 * n - 1}]
        <2> HIDE DEF n, Word
        <2> QED
            OBVIOUS
    <1>6. IsText(t) /\ Len(t) = 2 * n - 1
        <2> DEFINE m == 2 * n - 1
                   T == {Word(i) : i \in 1 .. 2 * n - 1}
        <2>1. m \in Nat /\ t \in [1 .. m -> T]
            BY <1>1, <1>5
        <2> HIDE DEF t, m, T
        <2>2. t \in Seq(T) /\ DOMAIN t = 1 .. m
            BY <2>1, SeqDef
        <2>3. Len(t) = m
            BY <2>1, <2>2
        <2> QED
            BY <2>1, <2>2, <2>3 DEF IsText, m
    <1>7. \A i \in 1 .. 2 * n - 1 : t[i] = Word(i)
        <2> HIDE DEF n, Word
        <2> QED
            OBVIOUS
    <1> HIDE DEF t, n
    <1>8. ASSUME NEW i \in 1 .. Len(t)
          PROVE  t[i] = "+" \/ \E j \in 1 .. n : i = 2 * j - 1 /\ t[i] = words[j]
        <2>1. CASE i % 2 = 1
            BY <1>4, <1>6, <1>7, <2>1
        <2>2. CASE i % 2 # 1
            BY <1>6, <1>7, <2>2
        <2> QED
            BY <2>1, <2>2
    <1>9. ASSUME NEW j \in 1 .. n PROVE 2 * j - 1 \in 1 .. Len(t) /\ t[2 * j - 1] = words[j]
        BY <1>3, <1>6, <1>7
    <1> QED
        BY <1>2, <1>6, <1>8, <1>9 DEF Joins, n

(***************************************************************************)
(* Words of which the last is a key and the others modifiers are           *)
(* understood as that.                                                     *)
(***************************************************************************)
LEMMA JoinedMean ==
    ASSUME NEW text, NEW p, NEW ms, Denotes(p, ms), ms # {},
           NEW name \in DOMAIN keyByName, Joins(text, p \o <<name>>)
    PROVE  Means(text) = {Hotkey(ms, keyByName[name])}
    <1> DEFINE words == p \o <<name>>
               N == Len(text)
               n == Len(p)
    <1>1. /\ n \in Nat /\ Len(words) = n + 1 /\ words[n + 1] = name
          /\ \A j \in 1 .. n : words[j] = p[j] /\ p[j] \in DOMAIN modNames
        <2> DEFINE D == DOMAIN modNames
        <2>1. p \in Seq(D)
            BY DEF Denotes
        <2> HIDE DEF D
        <2>2. /\ n \in Nat /\ Len(words) = n + 1 /\ words[n + 1] = name
              /\ \A j \in 1 .. n : words[j] = p[j] /\ p[j] \in D
            BY <2>1
        <2> QED
            BY <2>2 DEF D
    <1> HIDE DEF words, n
    <1>2. /\ IsText(text) /\ N = 2 * n + 1
          /\ \A i \in 1 .. N : \/ text[i] = "+"
                               \/ \E j \in 1 .. n + 1 : i = 2 * j - 1 /\ text[i] = words[j]
          /\ \A j \in 1 .. n + 1 : 2 * j - 1 \in 1 .. N /\ text[2 * j - 1] = words[j]
        <2>1. Joins(text, words)
            BY DEF words
        <2> QED
            BY <1>1, <2>1 DEF Joins
    <1> HIDE DEF N
    <1>3. "+" \in Separators
        BY Zenon DEF Separators
    <1>4. ASSUME NEW i \in 1 .. N
          PROVE  \/ text[i] \in Separators
                 \/ \E j \in 1 .. n : i = 2 * j - 1 /\ text[i] = p[j]
                 \/ i = N /\ text[i] = name
        <2>1. CASE text[i] = "+"
            BY <1>3, <2>1
        <2>2. CASE text[i] # "+"
            <3>1. PICK j \in 1 .. n + 1 : i = 2 * j - 1 /\ text[i] = words[j]
                BY <1>2, <2>2
            <3>2. CASE j = n + 1
                BY <1>1, <1>2, <3>1, <3>2
            <3>3. CASE j # n + 1
                <4>1. j \in 1 .. n
                    BY <1>1, <3>3
                <4> QED
                    BY <1>1, <3>1, <4>1
            <3> QED
                BY <3>2, <3>3
        <2> QED
            BY <2>1, <2>2
    <1>5. /\ N \in 1 .. N /\ text[N] = name
          /\ \A j \in 1 .. n : 2 * j - 1 \in 1 .. N /\ text[2 * j - 1] = p[j] /\ 2 * j - 1 # N
        <2>1. n + 1 \in 1 .. n + 1 /\ 2 * (n + 1) - 1 = 2 * n + 1
              /\ \A j \in 1 .. n : j \in 1 .. n + 1 /\ 2 * j - 1 # 2 * n + 1
            BY <1>1
        <2> QED
            BY <1>1, <1>2, <2>1
    <1>6. /\ name \notin Separators /\ name \notin DOMAIN modNames
          /\ \A j \in 1 .. n : p[j] \notin Separators /\ p[j] \notin DOMAIN keyByName
        BY <1>1, NamesAre, NoneSeparates
    <1>7. WordsIn(text, N) = {2 * j - 1 : j \in 1 .. n} \cup {N}
        <2>1. ASSUME NEW i \in WordsIn(text, N) PROVE i \in {2 * j - 1 : j \in 1 .. n} \cup {N}
            BY <1>4 DEF WordsIn
        <2>2. \A j \in 1 .. n : 2 * j - 1 \in WordsIn(text, N)
            BY <1>5, <1>6 DEF WordsIn
        <2>3. N \in WordsIn(text, N)
            BY <1>5, <1>6 DEF WordsIn
        <2> QED
            BY <2>1, <2>2, <2>3
    <1>8. KeysIn(text, N) = {N}
        BY <1>5, <1>6, <1>7 DEF KeysIn
    <1>9. ModsIn(text, N) = {2 * j - 1 : j \in 1 .. n}
        BY <1>1, <1>5, <1>6, <1>7 DEF ModsIn
    <1>10. ModsOf(text, N) = ms
        <2>1. \A m : m \in ModsOf(text, N) <=> \E j \in 1 .. n : m = modNames[p[j]]
            BY <1>5, <1>9 DEF ModsOf
        <2>2. {modNames[p[j]] : j \in 1 .. n} = ms
            BY DEF Denotes, n
        <2> QED
            BY <2>1, <2>2
    <1>11. TheKey(text, N) = {N}
        <2>1. ModsIn(text, N) # {}
            BY <1>10 DEF ModsOf
        <2>2. Known(text, N)
            BY <1>7, <1>8, <1>9 DEF Known
        <2> QED
            BY <1>8, <2>1, <2>2 DEF TheKey
    <1>12. ~Blank(text)
        <2>1. text[N] # " "
            BY <1>5, <1>6, Zenon DEF Separators
        <2>2. N \in DOMAIN text
            BY <1>2, <1>5 DEF IsText, N
        <2> QED
            BY <2>1, <2>2, Zenon DEF Blank
    <1>13. Means(text) = {Hotkey(ModsOf(text, N), keyByName[text[i]]) : i \in TheKey(text, N)}
        BY <1>2, <1>12, MeansIs DEF N
    <1> QED
        BY <1>5, <1>10, <1>11, <1>13

\* What Format writes is a text, of which Parse understands what was meant.
LEMMA FormatJoins ==
    ASSUME NEW ms \in (SUBSET Mod) \ {{}}, NEW key \in validVK, NEW german \in BOOLEAN
    PROVE  /\ Denotes(modParts(ms, german), ms)
           /\ keyName(key, german) \in DOMAIN keyByName /\ keyByName[keyName(key, german)] = key
           /\ Joins(Format(Hotkey(ms, key), german),
                    modParts(ms, german) \o <<keyName(key, german)>>)
    <1> DEFINE p == modParts(ms, german)
               name == keyName(key, german)
               words == p \o <<name>>
               S == DOMAIN modNames \cup {name}
    <1>1. Denotes(p, ms)
        BY ModPartsDenote
    <1>2. name \in DOMAIN keyByName /\ keyByName[name] = key
        BY KeyNameIs
    <1>3. Format(Hotkey(ms, key), german) = Join(words)
        <2>1. ~IsZero(Hotkey(ms, key))
            <3>1. ZeroHotkey.mods = {} /\ Hotkey(ms, key).mods = ms
                BY HotkeyHas DEF ZeroHotkey
            <3> QED
                BY <3>1 DEF IsZero
        <2> QED
            BY <2>1, HotkeyHas DEF Format
    <1>4. words \in Seq(S) /\ words # <<>>
        <2> DEFINE D == DOMAIN modNames
        <2>1. p \in Seq(D)
            BY <1>1 DEF Denotes
        <2> HIDE DEF D, p, name
        <2>2. words \in Seq(D \cup {name}) /\ Len(words) = Len(p) + 1 /\ Len(p) \in Nat
            BY <2>1
        <2>3. Len(words) # 0
            BY <2>2
        <2> QED
            BY <2>2, <2>3 DEF D
    <1> HIDE DEF words, S
    <1>5. Joins(Join(words), words)
        BY <1>4, JoinJoins
    <1> QED
        BY <1>1, <1>2, <1>3, <1>5 DEF words

LEMMA ReadsBackAlways == ReadsBack
    <1> SUFFICES ASSUME NEW ms \in (SUBSET Mod) \ {{}}, NEW key \in validVK, NEW german \in BOOLEAN
                 PROVE  ParseText(Format(Hotkey(ms, key), german)) = Hotkey(ms, key)
        BY DEF ReadsBack
    <1> DEFINE text == Format(Hotkey(ms, key), german)
               p == modParts(ms, german)
               name == keyName(key, german)
    <1>1. /\ Denotes(p, ms) /\ name \in DOMAIN keyByName /\ keyByName[name] = key
          /\ Joins(text, p \o <<name>>)
        BY FormatJoins
    <1>2. ms # {} /\ IsText(text)
        BY <1>1 DEF Joins
    <1> HIDE DEF text, p, name
    <1>3. Means(text) = {Hotkey(ms, key)}
        BY <1>1, <1>2, JoinedMean
    <1>4. Means(text) = IF IsValid(ParseText(text)) THEN {ParseText(text)} ELSE {}
        BY <1>2, ParseIs
    <1> QED
        BY <1>3, <1>4 DEF text

-----------------------------------------------------------------------------

(***************************************************************************)
(* What the rules accept is a key of the table with a modifier, unchanged. *)
(***************************************************************************)
LEMMA FromKeysAccepts ==
    ASSUME NEW ms, NEW code, IsValid(FromKeys(ms, code))
    PROVE  /\ code \in validVK /\ code # 0 /\ ms # {}
           /\ FromKeys(ms, code) = Hotkey(ms, code)
    BY DEF FromKeys, IsValid, Error

LEMMA NoKeyIsInvalid == \A ms : ~IsValid(FromKeys(ms, 0))
    <1> SUFFICES ASSUME NEW ms, IsValid(FromKeys(ms, 0)) PROVE FALSE
        OBVIOUS
    <1> QED
        BY FromKeysAccepts

(***************************************************************************)
(* Both conversions of the modifiers keep their meaning.                   *)
(***************************************************************************)
AllModifierKeys == {"control", "menu", "shift", "lwin", "rwin"}

LEMMA ModifiersMean ==
    ASSUME NEW keys \in SUBSET AllModifierKeys
    PROVE  /\ currentMods(keys) \in SUBSET WinMods
           /\ hotkeyMods(currentMods(keys)) \in SUBSET Mod
           /\ hotkeyMods(currentMods(keys)) = {Meaning(m) : m \in keys}
           /\ hotkeyMods(currentMods(keys)) # {} => currentMods(keys) # {}
    <1>1. currentMods(keys) \in SUBSET WinMods /\ hotkeyMods(currentMods(keys)) \in SUBSET Mod
        BY DEF currentMods, hotkeyMods
    <1>2. /\ "MOD_CONTROL" \in currentMods(keys) <=> "control" \in keys
          /\ "MOD_ALT" \in currentMods(keys) <=> "menu" \in keys
          /\ "MOD_SHIFT" \in currentMods(keys) <=> "shift" \in keys
          /\ "MOD_WIN" \in currentMods(keys) <=> "lwin" \in keys \/ "rwin" \in keys
        BY DEF currentMods, WinMods
    <1>3. /\ "Ctrl" \in hotkeyMods(currentMods(keys)) <=> "control" \in keys
          /\ "Alt" \in hotkeyMods(currentMods(keys)) <=> "menu" \in keys
          /\ "Shift" \in hotkeyMods(currentMods(keys)) <=> "shift" \in keys
          /\ "Win" \in hotkeyMods(currentMods(keys)) <=> "lwin" \in keys \/ "rwin" \in keys
        BY <1>2 DEF hotkeyMods, Mod
    <1>4. hotkeyMods(currentMods(keys)) \subseteq {Meaning(m) : m \in keys}
        <2> SUFFICES ASSUME NEW x \in hotkeyMods(currentMods(keys))
                     PROVE  \E m \in keys : x = Meaning(m)
            OBVIOUS
        <2>1. x \in Mod
            BY <1>1
        <2> QED
            BY <1>3, <2>1 DEF Mod, Meaning
    <1>5. \A m \in keys : Meaning(m) \in hotkeyMods(currentMods(keys))
        BY <1>3 DEF Meaning, AllModifierKeys
    <1>6. hotkeyMods(currentMods(keys)) # {} => currentMods(keys) # {}
        <2> SUFFICES ASSUME NEW x \in hotkeyMods(currentMods(keys)) PROVE currentMods(keys) # {}
            OBVIOUS
        <2> QED
            BY <1>1, <1>2, <1>3 DEF Mod
    <1> QED
        BY <1>1, <1>4, <1>5, <1>6

-----------------------------------------------------------------------------
(***************************************************************************)
(* The inductive invariant: the captureState is what was pressed last,     *)
(* what is confirmed is the captureState, and what is stored is what was   *)
(* confirmed.                                                              *)
(***************************************************************************)
TypeInv ==
    /\ held \in SUBSET ModifierKeys
    /\ pressed \in [held : SUBSET ModifierKeys, key : Keys \cup {0}]
    /\ quit \in BOOLEAN

Captured == FromKeys(hotkeyMods(mods), vk)

CapturesPress ==
    /\ mods = currentMods(pressed.held)
    /\ vk = pressed.key
    /\ valid <=> IsValid(Captured)
    /\ valid => echo = Label(Captured)

AnswerInv ==
    /\ answer \notin {Pending, Cancelled, Cleared} =>
          valid /\ answer = [mods |-> mods, vk |-> vk]
    /\ over = "assigned" /\ answer # Cleared =>
          valid /\ stored = CanonicalText(Captured)
    /\ over = "assigned" => ~Open

CaptureInv == TypeInv /\ CapturesPress /\ AnswerInv

LEMMA CaptureInit == Init => CaptureInv
    <1> SUFFICES ASSUME Init PROVE CaptureInv
        OBVIOUS
    <1>1. TypeInv
        BY DEF Init, TypeInv
    <1>2. currentMods({}) = {}
        BY DEF currentMods, WinMods
    <1>3. CapturesPress
        BY <1>2, NoKeyIsInvalid DEF Init, CapturesPress, Captured
    <1> QED
        BY <1>1, <1>3 DEF Init, CaptureInv, AnswerInv

\* A press that arrives.
LEMMA PressCaptured ==
    ASSUME CaptureInv, Open, NEW key \in Keys \cup {0}, held' \in SUBSET ModifierKeys,
           capture(key), UNCHANGED <<stored, quit, answer, over>>
    PROVE  CaptureInv'
    <1>1. TypeInv'
        BY DEF CaptureInv, TypeInv, capture
    <1>2. CapturesPress'
        <2>1. /\ pressed' = [held |-> held', key |-> key] /\ mods' = currentMods(held')
              /\ vk' = key
              /\ valid' = IsValid(FromKeys(hotkeyMods(mods'), key))
              /\ echo' = Display(mods', key)
            BY DEF capture
        <2>2. valid' => echo' = Label(FromKeys(hotkeyMods(mods'), key))
            BY <2>1 DEF Display
        <2> QED
            BY <2>1, <2>2 DEF CapturesPress, Captured
    <1>3. AnswerInv'
        BY DEF CaptureInv, AnswerInv, Open
    <1> QED
        BY <1>1, <1>2, <1>3 DEF CaptureInv

LEMMA CaptureKept ==
    ASSUME CaptureInv, held' \in SUBSET ModifierKeys, quit' \in BOOLEAN, UNCHANGED state,
           AnswerInv'
    PROVE  CaptureInv'
    BY DEF CaptureInv, TypeInv, CapturesPress, Captured, state

LEMMA CaptureNext == CaptureInv /\ [Next]_vars => CaptureInv'
    <1> SUFFICES ASSUME CaptureInv, [Next]_vars PROVE CaptureInv'
        OBVIOUS
    <1> USE DEF state, keyboard
    <1>0. held \in SUBSET ModifierKeys /\ quit \in BOOLEAN /\ AnswerInv
        BY DEF CaptureInv, TypeInv
    <1>1. ASSUME NEW m \in ModifierKeys, PressModifier(m) PROVE CaptureInv'
        <2>1. held' \in SUBSET ModifierKeys
            BY <1>0, <1>1 DEF PressModifier
        <2> QED
            BY <1>1, <2>1, PressCaptured DEF PressModifier, UserActs
    <1>2. ASSUME NEW m \in ModifierKeys, ReleaseModifier(m) PROVE CaptureInv'
        <2>1. AnswerInv'
            BY <1>0, <1>2 DEF ReleaseModifier, AnswerInv, Captured, Open
        <2> QED
            BY <1>0, <1>2, <2>1, CaptureKept DEF ReleaseModifier
    <1>3. ASSUME NEW k \in Keys, PressKey(k) PROVE CaptureInv'
        <2>1. CASE IsTaken(k)
            <3>1. AnswerInv'
                BY <1>0, <1>3, <2>1 DEF PressKey, AnswerInv, Captured, Open
            <3> QED
                BY <1>0, <1>3, <2>1, <3>1, CaptureKept DEF PressKey
        <2>2. CASE ~IsTaken(k)
            BY <1>0, <1>3, <2>2, PressCaptured DEF PressKey, UserActs
        <2> QED
            BY <2>1, <2>2
    <1>4. CASE ReleaseKey \/ QuitArrives \/ UNCHANGED vars
        <2>1. UNCHANGED <<stored, held, state, answer, over>> /\ quit' \in BOOLEAN
            BY <1>0, <1>4 DEF ReleaseKey, QuitArrives, vars
        <2>2. AnswerInv'
            BY <1>0, <2>1 DEF AnswerInv, Captured, Open
        <2> QED
            BY <1>0, <2>1, <2>2, CaptureKept
    <1>5. CASE Confirm \/ Clear \/ Cancel \/ LeaveOnQuit
        <2>1. /\ UNCHANGED <<stored, held, state, over>> /\ quit' \in BOOLEAN /\ Open
              /\ answer' \in {Cleared, Cancelled} \/ (valid /\ answer' = [mods |-> mods, vk |-> vk])
            BY <1>0, <1>5 DEF Confirm, Clear, Cancel, LeaveOnQuit, Return, UserActs
        <2>2. AnswerInv'
            BY <1>0, <2>1 DEF AnswerInv, Captured
        <2> QED
            BY <1>0, <2>1, <2>2, CaptureKept
    <1>6. CASE Keep
        <2>1. AnswerInv'
            BY <1>0, <1>6 DEF Keep, AnswerInv, Captured
        <2> QED
            BY <1>0, <1>6, <2>1, CaptureKept DEF Keep
    <1>7. CASE Assign
        <2>1. answer # Cleared => valid /\ Chosen = Captured
            BY <1>0, <1>7 DEF Assign, AnswerInv, Chosen, Captured
        <2>2. AnswerInv'
            BY <1>0, <1>7, <2>1 DEF Assign, AnswerInv, Captured, Open
        <2> QED
            BY <1>0, <1>7, <2>2, CaptureKept DEF Assign
    <1> QED
        BY <1>1, <1>2, <1>3, <1>4, <1>5, <1>6, <1>7 DEF Next

LEMMA CaptureInvariant == Spec => []CaptureInv
    BY CaptureInit, CaptureNext, PTL DEF Spec

(***************************************************************************)
(* What is stored is what was pressed, whatever was pressed, released and  *)
(* taken by others before.                                                 *)
(***************************************************************************)
THEOREM PressedIsSavedAlways == Spec => []PressedIsSaved
    <1>1. CaptureInv => PressedIsSaved
        <2> SUFFICES ASSUME CaptureInv, over = "assigned", answer # Cleared
                     PROVE  /\ ParseText(stored)
                                  = Hotkey({Meaning(m) : m \in pressed.held}, pressed.key)
                            /\ pressed.key \in Keys
                            /\ echo = Label(ParseText(stored))
            BY DEF PressedIsSaved
        <2> DEFINE ms == hotkeyMods(mods)
        <2>1. /\ valid /\ stored = CanonicalText(Captured) /\ IsValid(FromKeys(ms, vk))
              /\ echo = Label(Captured) /\ mods = currentMods(pressed.held) /\ vk = pressed.key
              /\ pressed.key \in Keys \cup {0} /\ pressed.held \in SUBSET AllModifierKeys
            BY CaptureAssumption
            DEF CaptureInv, AnswerInv, CapturesPress, TypeInv, Captured, AllModifierKeys
        <2>2. ms = {Meaning(m) : m \in pressed.held} /\ ms \in SUBSET Mod
            BY <2>1, ModifiersMean
        <2> HIDE DEF ms
        <2>3. vk \in validVK /\ vk # 0 /\ ms # {} /\ FromKeys(ms, vk) = Hotkey(ms, vk)
            BY <2>1, FromKeysAccepts
        <2>4. Captured = Hotkey(ms, vk)
            BY <2>3 DEF Captured, ms
        <2>5. ParseText(Format(Hotkey(ms, vk), FALSE)) = Hotkey(ms, vk)
            BY <2>2, <2>3, ReadsBackAlways DEF ReadsBack
        <2>6. ParseText(stored) = Hotkey(ms, vk)
            BY <2>1, <2>4, <2>5 DEF CanonicalText
        <2> QED
            BY <2>1, <2>2, <2>3, <2>4, <2>6
    <1> QED
        BY CaptureInvariant, <1>1, PTL

\* What is stored is a text: the one that was, or one that Format has written.
LEMMA StoredIsText == IsText(stored) /\ [Next]_vars => IsText(stored)'
    <1> SUFFICES ASSUME IsText(stored), [Next]_vars PROVE IsText(stored')
        OBVIOUS
    <1>1. CASE Assign
        <2>1. stored' = Format(Chosen, FALSE)
            BY <1>1 DEF Assign, CanonicalText
        <2>2. CASE answer = Cleared
            <3>1. stored' = <<>>
                BY <2>1, <2>2 DEF Chosen, Format, IsZero
            <3> QED
                BY <3>1 DEF IsText
        <2>3. CASE answer # Cleared
            <3> DEFINE ms == hotkeyMods(answer.mods)
                       key == answer.vk
            <3>1. Chosen = FromKeys(ms, key) /\ IsValid(FromKeys(ms, key))
                BY <1>1, <2>3 DEF Assign, Chosen
            <3>2. ms \in SUBSET Mod
                BY DEF hotkeyMods
            <3> HIDE DEF ms, key
            <3>3. ms \in (SUBSET Mod) \ {{}} /\ key \in validVK /\ Chosen = Hotkey(ms, key)
                BY <3>1, <3>2, FromKeysAccepts
            <3>4. IsText(Format(Hotkey(ms, key), FALSE))
                BY <3>3, FormatJoins DEF Joins
            <3> QED
                BY <2>1, <3>3, <3>4
        <2> QED
            BY <2>2, <2>3
    <1>2. CASE ~Assign
        <2>1. stored' = stored
            BY <1>2
            DEF Next, vars, keyboard, state, PressModifier, ReleaseModifier, PressKey, ReleaseKey,
                Confirm, Clear, Cancel, QuitArrives, LeaveOnQuit, Keep, Return
        <2> QED
            BY <2>1
    <1> QED
        BY <1>1, <1>2

(***************************************************************************)
(* Parse understands of every text that layouts.json may hold, and of all  *)
(* that is stored later, what its words say and nothing else; and it reads *)
(* back every combination that can be written, in both languages.          *)
(***************************************************************************)
THEOREM ParseMeansAlways == Spec => []ParseMeans
    <1>1. Init => IsText(stored)
        <2> SUFFICES ASSUME Init PROVE IsText(stored)
            OBVIOUS
        <2>1. stored \in Seq(STRING)
            BY CaptureAssumption DEF Init
        <2> QED
            BY <2>1, LenProperties DEF IsText
    <1>2. IsText(stored) => ParseMeans
        BY ParseIs, ReadsBackAlways DEF ParseMeans
    <1> QED
        BY StoredIsText, <1>1, <1>2, PTL DEF Spec

\* What OK returns.
LEMMA ConfirmsPromised ==
    ASSUME CaptureInv, valid
    PROVE  [mods |-> mods, vk |-> vk] \in Promised
    <1>1. /\ IsValid(FromKeys(hotkeyMods(mods), vk)) /\ mods = currentMods(pressed.held)
          /\ pressed.held \in SUBSET AllModifierKeys
        BY CaptureAssumption DEF CaptureInv, CapturesPress, TypeInv, Captured, AllModifierKeys
    <1>2. vk \in validVK /\ hotkeyMods(mods) # {}
        BY <1>1, FromKeysAccepts
    <1>3. mods \in (SUBSET WinMods) \ {{}}
        BY <1>1, <1>2, ModifiersMean
    <1> QED
        BY <1>2, <1>3 DEF Promised

LEMMA DialogNext == CaptureInv /\ [Next]_vars => [Dialog!Next]_<<answer, quit>>
    <1> SUFFICES ASSUME CaptureInv, [Next]_vars
                 PROVE  Dialog!Next \/ UNCHANGED <<answer, quit>>
        OBVIOUS
    <1> USE DEF state, keyboard
    <1>1. CASE Confirm
        BY <1>1, ConfirmsPromised
        DEF Confirm, Return, UserActs, Open, Dialog!Next, Dialog!Answer
    <1>2. CASE Clear \/ Cancel
        BY <1>2 DEF Clear, Cancel, Return, UserActs, Open, Promised, Dialog!Next, Dialog!Answer
    <1>3. CASE QuitArrives
        BY <1>3 DEF QuitArrives, Dialog!Next, Dialog!QuitArrives
    <1>4. CASE LeaveOnQuit
        BY <1>4 DEF LeaveOnQuit, Return, Open, CaptureInv, TypeInv, Dialog!Next, Dialog!GiveUp
    <1>5. CASE UNCHANGED <<answer, quit>>
        BY <1>5
    <1> QED
        BY <1>1, <1>2, <1>3, <1>4, <1>5
        DEF Next, vars, PressModifier, ReleaseModifier, PressKey, ReleaseKey, Keep, Assign

(***************************************************************************)
(* The dialog ends once, with an answer the rules accept or with none, and *)
(* passes on what it is told to pass on: all that ModalDialog promises but *)
(* for its liveness.                                                       *)
(***************************************************************************)
THEOREM ImplementsModalDialog == Spec => Dialog!Safety
    <1>1. Init => Dialog!Init
        BY DEF Init, Dialog!Init
    <1> QED
        BY CaptureInvariant, DialogNext, <1>1, PTL DEF Spec, Dialog!Safety
==============================================================================

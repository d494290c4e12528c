---------------------------- MODULE TermReader ------------------------------
(* Decoding what the terminal sends (pkg/cli/term/reader_unix.go) into key, *)
(* mouse, cursor and paste events, and the names of keys (pkg/ui/key.go).   *)
(*                                                                          *)
(* The input is a sequence of runes, named by tokens ("esc" is the escape   *)
(* character, "^A" the control character that Ctrl-A sends), and "timeout"  *)
(* where more than keySeqTimeout passes before the next rune.               *)
EXTENDS Integers, Sequences, SequencesExt, FiniteSetsExt

----------------------------------------------------------------------------
(* Events.                                                                  *)

K(r, mods) == [rune |-> r, mod |-> mods]
noKey == K("", {})
KeyEvent(k) == [kind |-> "key", key |-> k, args |-> <<>>]
argsEvent(kind, args) == [kind |-> kind, key |-> noKey, args |-> args]
seqError == argsEvent("error", <<>>)

Digits == <<"0", "1", "2", "3", "4", "5", "6", "7", "8", "9">>
digit(r) == CHOOSE d \in 0..9 : Digits[d + 1] = r

\* The code points of the runes that carry numbers in an X10 mouse report.
ord == (" " :> 32) @@ ("!" :> 33) @@ ("#" :> 35) @@ ("$" :> 36) @@ ("0" :> 48)

bit(n, b) == (n \div b) % 2 = 1

----------------------------------------------------------------------------
(* The key tables.                                                          *)

arrows == ("A" :> "Up") @@ ("B" :> "Down") @@ ("C" :> "Right") @@ ("D" :> "Left")
lowArrows == ("a" :> "Up") @@ ("b" :> "Down") @@ ("c" :> "Right") @@ ("d" :> "Left")

g3Seq == [r \in DOMAIN arrows |-> K(arrows[r], {})]
         @@ [r \in DOMAIN lowArrows |-> K(lowArrows[r], {"Ctrl"})]
         @@ ("H" :> K("Home", {})) @@ ("F" :> K("End", {})) @@ ("M" :> K("Insert", {}))
         @@ ("P" :> K("F1", {})) @@ ("Q" :> K("F2", {})) @@ ("R" :> K("F3", {})) @@ ("S" :> K("F4", {}))

csiSeqByLast == [r \in DOMAIN arrows |-> K(arrows[r], {})]
                @@ [r \in DOMAIN lowArrows |-> K(lowArrows[r], {"Shift"})]
                @@ ("H" :> K("Home", {})) @@ ("F" :> K("End", {})) @@ ("Z" :> K("^I", {"Shift"}))

csiSeqTilde == (1 :> "Home") @@ (4 :> "End") @@ (2 :> "Insert") @@ (3 :> "Delete")
               @@ (5 :> "PageUp") @@ (6 :> "PageDown") @@ (7 :> "Home") @@ (8 :> "End")
               @@ (11 :> "F1") @@ (12 :> "F2") @@ (13 :> "F3") @@ (14 :> "F4") @@ (15 :> "F5")
               @@ (17 :> "F6") @@ (18 :> "F7") @@ (19 :> "F8") @@ (20 :> "F9") @@ (21 :> "F10")
               @@ (23 :> "F11") @@ (24 :> "F12")

csiSeqTilde27 == (9 :> "^I") @@ (13 :> "^M") @@ (33 :> "!") @@ (35 :> "#") @@ (39 :> "'")
                 @@ (40 :> "(") @@ (41 :> ")") @@ (43 :> "+") @@ (44 :> ",") @@ (45 :> "-")
                 @@ (46 :> ".") @@ [n \in 48..57 |-> Digits[n - 47]] @@ (58 :> ":") @@ (59 :> ";")
                 @@ (60 :> "<") @@ (61 :> "=") @@ (62 :> ">") @@ (63 :> ";")

\* The modifiers are read without subtracting the 1.
xtermModify_notMinusOne(k, mod) ==
    IF mod \notin 0..16 THEN noKey
    ELSE [k EXCEPT !.mod = @ \union (IF bit(mod, 1) THEN {"Shift"} ELSE {})
                             \union (IF bit(mod, 2) \/ bit(mod, 8) THEN {"Alt"} ELSE {})
                             \union (IF bit(mod, 4) THEN {"Ctrl"} ELSE {})]

\* xtermModify: 1 plus the sum of Shift 1, Alt 2, Ctrl 4, Meta 8.
xtermModify(k, mod) ==
    LET f == mod - 1
    IN  IF mod \notin 0..16 THEN noKey
        ELSE IF mod = 0 THEN k
        ELSE [k EXCEPT !.mod = @ \union (IF bit(f, 1) THEN {"Shift"} ELSE {})
                                 \union (IF bit(f, 2) \/ bit(f, 8) THEN {"Alt"} ELSE {})
                                 \union (IF bit(f, 4) THEN {"Ctrl"} ELSE {})]

mouseModify(n) == (IF bit(n, 4) THEN {"Shift"} ELSE {}) \union (IF bit(n, 8) THEN {"Alt"} ELSE {})
                  \union (IF bit(n, 16) THEN {"Ctrl"} ELSE {})

urxvtMod == ("$" :> {"Shift"}) @@ ("^" :> {"Ctrl"}) @@ ("@" :> {"Shift", "Ctrl"})

parseCSI(nums, last) ==
    LET n == Len(nums)
    IN  CASE last \in DOMAIN csiSeqByLast ->
               IF n = 0 THEN csiSeqByLast[last]
               ELSE IF n = 2 /\ nums[1] = 1 THEN xtermModify(csiSeqByLast[last], nums[2])
               ELSE noKey
          [] last = "~" /\ n \in {1, 2} /\ nums[1] \in DOMAIN csiSeqTilde ->
               LET k == K(csiSeqTilde[nums[1]], {})
               IN  IF n = 1 THEN k ELSE xtermModify(k, nums[2])
          [] last = "~" /\ n = 3 /\ nums[1] = 27 /\ nums[3] \in DOMAIN csiSeqTilde27 ->
               xtermModify(K(csiSeqTilde27[nums[3]], {}), nums[2])
          [] last \in DOMAIN urxvtMod /\ n = 1 /\ nums[1] \in DOMAIN csiSeqTilde ->
               K(csiSeqTilde[nums[1]], urxvtMod[last])
          [] OTHER -> noKey

\* Control characters, below 0x20, and the rune 0x40 after each.
controlled == ("^@" :> "@") @@ ("^A" :> "A") @@ ("^C" :> "C") @@ ("^H" :> "H") @@ ("^I" :> "I") @@ ("^J" :> "J")
              @@ ("^M" :> "M") @@ ("esc" :> "[") @@ ("^^" :> "^") @@ ("^_" :> "_")

\* ^I, ^J and ^? are kept as Tab, Enter and Backspace.
ctrlModify(r) ==
    CASE r = "^@" -> K("bq", {"Ctrl"})
      [] r = "^^" -> K("6", {"Ctrl"})
      [] r = "^_" -> K("/", {"Ctrl"})
      [] r \in DOMAIN controlled \ {"^@", "^^", "^_", "^I", "^J"} -> K(controlled[r], {"Ctrl"})
      [] OTHER -> K(r, {})

----------------------------------------------------------------------------
(* Reading one event.                                                       *)

\* readRune with keySeqTimeout: the next rune, or "end" on a timeout.
peek(s) == IF s = <<>> \/ Head(s) = "timeout" THEN "end" ELSE Head(s)
rest(s) == IF s = <<>> THEN <<>> ELSE Tail(s)

\* The result of a read: the event, and the input after what it consumed.
result(e, s) == [event |-> e, left |-> s]

addAlt(k, two) == IF two THEN [k EXCEPT !.mod = @ \union {"Alt"}] ELSE k

\* The numbers of a CSI sequence and what follows them.
readNums(s) ==
    LET stop == Min({i \in 1..Len(s) : s[i] \notin Range(Digits) \union {";"}} \union {Len(s) + 1})
        step(nums, r) ==
            IF r = ";" THEN Append(nums, 0)
            ELSE LET ns == IF nums = <<>> THEN <<0>> ELSE nums
                 IN  [ns EXCEPT ![Len(ns)] = @ * 10 + digit(r)]
    IN  [nums |-> FoldLeft(step, <<>>, SubSeq(s, 1, stop - 1)), left |-> SubSeq(s, stop, Len(s))]

\* The rest of a sequence that began with "esc" "[".
readCSI(s, two) ==
    LET sgr == peek(s) = "<"
        p == readNums(IF sgr THEN rest(s) ELSE s)
        last == peek(p.left)
        nums == p.nums
        k == parseCSI(nums, last)
        event ==
            CASE last = "end" -> seqError
              [] last = "R" /\ ~sgr ->
                   IF Len(nums) # 2 THEN seqError ELSE argsEvent("cursor", nums)
              [] sgr /\ last \in {"m", "M"} ->
                   IF Len(nums) # 3 THEN seqError
                   ELSE argsEvent("mouse", <<nums[3], nums[2], IF last = "M" THEN 1 ELSE 0,
                                             nums[1] % 4, mouseModify(nums[1])>>)
              [] last = "~" /\ Len(nums) = 1 /\ nums[1] \in {200, 201} ->
                   argsEvent("paste", <<nums[1]>>)
              [] OTHER -> IF k = noKey THEN seqError ELSE KeyEvent(addAlt(k, two))
        \* An X10 mouse report: three more runes.
        three == [i \in 1..3 |-> IF i < Len(s) THEN s[i + 1] ELSE "timeout"]
        short == {i \in 1..3 : three[i] = "timeout"}
        cb == ord[three[1]]
    IN  CASE peek(s) = "end" -> result(KeyEvent(K("[", {"Alt"})), rest(s))
          [] peek(s) = "M" ->
               IF short # {} THEN result(seqError, SubSeq(s, Min(short) + 2, Len(s)))
               ELSE result(argsEvent("mouse", <<ord[three[3]] - 32, ord[three[2]] - 32,
                                                IF cb % 4 = 3 THEN 0 ELSE 1,
                                                IF cb % 4 = 3 THEN -1 ELSE cb % 4, mouseModify(cb)>>),
                           SubSeq(s, 5, Len(s)))
          [] OTHER -> result(event, rest(p.left))

\* The rest of a sequence that began with "esc" "O".
readG3(s, two) ==
    result(CASE peek(s) = "end" -> KeyEvent(K("O", {"Alt"}))
             [] peek(s) \in DOMAIN g3Seq -> KeyEvent(addAlt(g3Seq[peek(s)], two))
             [] OTHER -> seqError,
           rest(s))

\* The reader does not look for a second escape character.
readEscape_oneEscape(s) ==
    CASE peek(s) = "end" -> result(KeyEvent(K("[", {"Ctrl"})), rest(s))
      [] peek(s) = "[" -> readCSI(rest(s), FALSE)
      [] peek(s) = "O" -> readG3(rest(s), FALSE)
      [] OTHER -> result(KeyEvent(addAlt(ctrlModify(peek(s)), TRUE)), rest(s))

\* The rest of a sequence that began with "esc", once or twice.
readEscape(s0) ==
    LET two == peek(s0) = "esc"
        s == IF two THEN rest(s0) ELSE s0
        k == ctrlModify(peek(s))
    IN  CASE peek(s) = "end" -> result(KeyEvent(K("[", {"Ctrl"})), rest(s))
          [] peek(s) = "[" -> readCSI(rest(s), two)
          [] peek(s) = "O" -> readG3(rest(s), two)
          [] OTHER -> result(KeyEvent(addAlt(k, TRUE)), rest(s))

\* readEvent: waits for the first rune as long as it takes.
readEvent(s) ==
    IF Head(s) = "esc" THEN readEscape(Tail(s))
    ELSE result(KeyEvent(ctrlModify(Head(s))), Tail(s))

----------------------------------------------------------------------------
(* Names of keys: tokens between which "+" and "-" stand on their own.      *)

keyNames == {"F1", "F2", "F3", "F4", "F5", "F6", "F7", "F8", "F9", "F10", "F11", "F12",
             "Up", "Down", "Right", "Left", "Home", "Insert", "Delete", "End",
             "PageUp", "PageDown", "Default"}
asciiNames == ("^I" :> "Tab") @@ ("^J" :> "Enter") @@ ("^?" :> "Backspace")

\* Key.String
keyString(k) ==
    (IF "Ctrl" \in k.mod THEN <<"Ctrl", "-">> ELSE <<>>)
    \o (IF "Alt" \in k.mod THEN <<"Alt", "-">> ELSE <<>>)
    \o (IF "Shift" \in k.mod THEN <<"Shift", "-">> ELSE <<>>)
    \o <<IF k.rune \in DOMAIN asciiNames THEN asciiNames[k.rune] ELSE k.rune>>

modifierByName == ("S" :> "Shift") @@ ("Shift" :> "Shift") @@ ("A" :> "Alt") @@ ("Alt" :> "Alt")
                  @@ ("M" :> "Alt") @@ ("Meta" :> "Alt") @@ ("C" :> "Ctrl") @@ ("Ctrl" :> "Ctrl")

upper == ("a" :> "A") @@ ("c" :> "C") @@ ("h" :> "H") @@ ("i" :> "I") @@ ("j" :> "J") @@ ("m" :> "M")

\* What a single character stands for, given the modifiers before it.
bareKey(r, mods) ==
    LET control == r \in DOMAIN controlled
        m == IF control THEN mods \union {"Ctrl"} ELSE mods
        u == CASE control -> controlled[r]
               [] ~control /\ "Ctrl" \in mods /\ r \in DOMAIN upper -> upper[r]
               [] OTHER -> r
    IN  CASE control /\ "Ctrl" \in mods -> noKey
          [] "Ctrl" \in m /\ u = "I" -> K("^I", m \ {"Ctrl"})
          [] "Ctrl" \in m /\ u = "J" -> K("^J", m \ {"Ctrl"})
          [] OTHER -> K(u, m)

\* ParseKey; noKey for an error.  The wide rune stands for those of several
\* bytes, which the test for a single character does not let through.
RECURSIVE parseKeyFrom(_, _)
parseKeyFrom(s, mods) ==
    LET i == SelectInSeq(s, LAMBDA r : r \in {"+", "-"})
        name == IF s = <<>> THEN "" ELSE Last(s)
    IN  CASE i = 2 /\ s[1] \in DOMAIN modifierByName ->
               parseKeyFrom(SubSeq(s, 3, Len(s)), mods \union {modifierByName[s[1]]})
          [] i > 0 /\ ~(i = 2 /\ s[1] \in DOMAIN modifierByName) -> noKey
          [] i = 0 /\ Len(s) # 1 -> noKey
          [] i = 0 /\ name \in keyNames -> K(name, mods)
          [] i = 0 /\ name \in Range(asciiNames) ->
               K(CHOOSE r \in DOMAIN asciiNames : asciiNames[r] = name, mods)
          [] i = 0 /\ name = "wide" -> noKey
          [] OTHER -> bareKey(name, mods)

ParseKey(s) == parseKeyFrom(s, {})

----------------------------------------------------------------------------
(* What terminals send (external), and the property.                        *)

modNumber(mods) == 1 + (IF "Shift" \in mods THEN 1 ELSE 0) + (IF "Alt" \in mods THEN 2 ELSE 0)
                   + (IF "Ctrl" \in mods THEN 4 ELSE 0)

\* A CSI sequence with the given numbers, each a sequence of digits.
csi(nums, last) == <<"esc", "[">> \o FoldLeft(LAMBDA acc, k : acc \o (IF k > 1 THEN <<";">> ELSE <<>>)
                                                             \o nums[k], <<>>, [k \in 1..Len(nums) |-> k])
                   \o <<last>>

d(n) == IF n < 10 THEN <<Digits[n + 1]>> ELSE <<Digits[(n \div 10) + 1], Digits[(n % 10) + 1]>>

\* The sequences, each with the event that it encodes.
Arrow(last, mods) == [send |-> IF mods = {} THEN csi(<<>>, last) ELSE csi(<<d(1), d(modNumber(mods))>>, last),
                      event |-> KeyEvent(K(arrows[last], mods))]
RxvtAlt(last) == [send |-> <<"esc">> \o csi(<<>>, last), event |-> KeyEvent(K(arrows[last], {"Alt"}))]
Tilde(n, mods) == [send |-> IF mods = {} THEN csi(<<d(n)>>, "~") ELSE csi(<<d(n), d(modNumber(mods))>>, "~"),
                   event |-> KeyEvent(K(csiSeqTilde[n], mods))]
Keypad(n, mods) == [send |-> csi(<<d(27), d(modNumber(mods)), d(n)>>, "~"),
                    event |-> KeyEvent(K(csiSeqTilde27[n], mods))]
G3(last) == [send |-> <<"esc", "O", last>>, event |-> KeyEvent(g3Seq[last])]
Plain(r) == [send |-> <<r>>, event |-> KeyEvent(ctrlModify(r))]
AltKey(r) == [send |-> <<"esc", r>>, event |-> KeyEvent(addAlt(ctrlModify(r), TRUE))]
Paste(on) == [send |-> csi(<<IF on THEN <<"2", "0", "0">> ELSE <<"2", "0", "1">>>>, "~"),
              event |-> argsEvent("paste", <<IF on THEN 200 ELSE 201>>)]
CursorReport(line, col) == [send |-> csi(<<d(line), d(col)>>, "R"), event |-> argsEvent("cursor", <<line, col>>)]
Click(cb, x, y) == [send |-> <<"esc", "[", "M", cb, x, y>>,
                    event |-> argsEvent("mouse", <<ord[y] - 32, ord[x] - 32, 1, ord[cb] % 4, mouseModify(ord[cb])>>)]

\* All events of an input, which is read one after the other.
skipTimeouts(s) == LET n == {i \in 1..Len(s) : s[i] # "timeout"}
                   IN  IF n = {} THEN <<>> ELSE SubSeq(s, Min(n), Len(s))

RECURSIVE readAll(_)
readAll(s0) == LET s == skipTimeouts(s0)
               IN  IF s = <<>> THEN <<>>
                   ELSE LET r == readEvent(s) IN <<r.event>> \o readAll(r.left)

\* Keys that are a prefix of other keys' sequences need a pause after them.
needsPause(p) == p.send \in {<<"esc">>, <<"esc", "[">>, <<"esc", "O">>}

\* What the user types is what the editor gets.  The events read from the
\* sequences of typed, one after the other, are theirs, in order, whether or
\* not there is a pause between them (two are fused only if the first is a
\* prefix of sequences, as the Escape key is); if the first arrives with a
\* delay inside, at most its own event is garbled: the second is still read;
\* and each key that was read has a name that ParseKey understands, except
\* those whose character is a modifier's separator, takes several bytes or is
\* the carriage return of a keypad.
TypedKeysAreRead(typed, delayAt) ==
    LET first == typed[1]
        second == typed[2]
        events == <<first.event, second.event>>
        delayed == SubSeq(first.send, 1, delayAt) \o <<"timeout">>
                   \o SubSeq(first.send, delayAt + 1, Len(first.send)) \o <<"timeout">> \o second.send
    IN  /\ readAll(first.send \o <<"timeout">> \o second.send) = events
        /\ ~needsPause(first) => readAll(first.send \o second.send) = events
        /\ Last(readAll(delayed)) = second.event
        /\ (first.event.kind = "key" /\ first.event.key.rune \notin {"+", "-", "wide", "^M"})
             => ParseKey(keyString(first.event.key)) = first.event.key
============================================================================

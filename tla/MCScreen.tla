------------------------------ MODULE MCScreen ------------------------------
(* A small instance of Screen.                                             *)
EXTENDS Screen, TLC

LShift == Key("lshift", FALSE, "", "", "")
RShift == Key("rshift", FALSE, "", "", "")
LCtrl == Key("ctrl", FALSE, "", "", "")
RCtrl == Key("ctrl", TRUE, "", "", "")
LetterA == Key("a", FALSE, "a", "A", "ctrl-a")
Backspace == Key("backspace", FALSE, "backspace", "backspace", "backspace")
LeftArrow == Key("left", TRUE, "", "", "")
PageUp == Key("pgup", TRUE, "", "", "")
PageDown == Key("pgdn", TRUE, "", "", "")

Bytes == {Nul, Blank, "a", "A", "ctrl-a", "backspace", "newline", "tab", "up", "left"}

\* The modifier keys, alone and with a letter; the keys that reach the buffer
\* or are echoed; console output and the keys that scroll it; tab stops.
Modifiers == Workload({LShift, RShift, LCtrl, RCtrl}, {}, Unbounded)
Chords == Workload({LShift, LCtrl, LetterA}, {}, 3)
Typing == Workload({LetterA, Backspace}, {}, 4)
Output == Workload({PageUp, PageDown}, {<<"a">>, <<"newline">>}, Unbounded)
Tabs == Workload({LeftArrow}, {<<"a">>, <<"tab">>}, 3)

AllWorkloads == {Modifiers, Chords, Typing, Output, Tabs}

\* The processes are interchangeable.
ProcSymmetry == Permutations(Proc)
=============================================================================

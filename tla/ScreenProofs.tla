---------------------------- MODULE ScreenProofs ----------------------------
(***************************************************************************)
(* The key buffer, the keyboard, the terminal and the owner of the screen, *)
(* for every size of buffer, screen and scrollback, every keyboard, every  *)
(* text and every number of processes.  The ring of utils/kring.c is a     *)
(* bounded FIFO, also as key_buffer; no modifier key is ever stuck; in     *)
(* text mode the screen shows the last lines written; and the kernel's     *)
(* variables agree about who has the screen.                               *)
(***************************************************************************)
EXTENDS Screen, WellFoundedInduction, TLAPS

(* Loops.                                                                  *)
(* A nonempty set of naturals has a least element.                         *)
LEMMA LeastExists ==
    ASSUME NEW S \in SUBSET Nat, S # {}
    PROVE  \E m \in S : \A k \in S : m <= k
  <1>1. \E m \in S : \A k \in S : ~ (<<k, m>> \in OpToRel(<, Nat))
    BY NatLessThanWellFounded, WFMin
  <1>2. \A m, k \in Nat : ~ (<<k, m>> \in OpToRel(<, Nat)) => m <= k
    BY DEF OpToRel
  <1> QED BY <1>1, <1>2

(* A loop of n rounds over states of T, that starts in a and does g[i] in  *)
(* round i, and the states it goes through.                                *)
IsLoop(T, a, n, g) == a \in T /\ n \in Nat /\ g \in [1 .. n -> [T -> T]]
IsRun(f, T, a, n, g) ==
    f \in [0 .. n -> T] /\ f[0] = a /\ \A i \in 1 .. n : f[i] = g[i][f[i - 1]]

(* Every loop has a run.                                                   *)
LEMMA LoopExists ==
    ASSUME NEW T, NEW a, NEW n, NEW g, IsLoop(T, a, n, g)
    PROVE  \E f : IsRun(f, T, a, n, g)
  <1> USE DEF IsLoop, IsRun
  <1> DEFINE Runs(f, m) == /\ f \in [0 .. m -> T] /\ f[0] = a
                           /\ \A i \in 1 .. m : f[i] = g[i][f[i - 1]]
             Bad == {m \in 0 .. n : ~\E f : Runs(f, m)}
  <1>1. SUFFICES ASSUME Bad # {} PROVE FALSE
    <2>1. n \in 0 .. n
      OBVIOUS
    <2> QED BY <2>1, Zenon
  <1>2. PICK m \in Bad : \A k \in Bad : m <= k
    <2>1. Bad \in SUBSET Nat
      OBVIOUS
    <2> HIDE DEF Bad
    <2> QED BY <1>1, <2>1, LeastExists, Zenon
  <1>3. m \in 0 .. n /\ ~\E f : Runs(f, m)
    OBVIOUS
  <1>4. m # 0
    <2>1. Runs([i \in 0 .. 0 |-> a], 0)
      OBVIOUS
    <2> QED BY <1>3, <2>1, Zenon
  <1>5. m - 1 \in 0 .. n /\ ~(m <= m - 1)
    BY <1>3, <1>4
  <1>6. PICK f : Runs(f, m - 1)
    BY <1>2, <1>5, Zenon
  <1> DEFINE h == [i \in 0 .. m |-> IF i = m THEN g[m][f[m - 1]] ELSE f[i]]
  <1>7. g[m][f[m - 1]] \in T
    BY <1>3, <1>4, <1>6
  <1>8. h \in [0 .. m -> T] /\ h[0] = a
    BY <1>3, <1>4, <1>6, <1>7
  <1>9. ASSUME NEW i \in 1 .. m PROVE h[i] = g[i][h[i - 1]]
    BY <1>3, <1>4, <1>6
  <1>10. Runs(h, m)
    BY <1>8, <1>9, Zenon
  <1> QED BY <1>3, <1>10, Zenon

(* A loop whose rounds do not leave T ends in T.                           *)
LEMMA LoopStays ==
    ASSUME NEW T, NEW n \in Nat, NEW f, f[0] \in T,
           \A i \in 1 .. n : f[i - 1] \in T => f[i] \in T
    PROVE  f[n] \in T
  <1> DEFINE Bad == {i \in 0 .. n : f[i] \notin T}
  <1>1. SUFFICES ASSUME Bad # {} PROVE FALSE
    OBVIOUS
  <1>2. PICK m \in Bad : \A k \in Bad : m <= k
    <2>1. Bad \in SUBSET Nat
      OBVIOUS
    <2> HIDE DEF Bad
    <2> QED BY <1>1, <2>1, LeastExists, Zenon
  <1>3. m \in 1 .. n /\ m - 1 \in 0 .. n /\ m - 1 \notin Bad
    BY <1>2
  <1> QED BY <1>2, <1>3

-----------------------------------------------------------------------------
(* The terminal.  The scrollback is a ring of lines that ends at           *)
(* cursor_line; the log is its contents unrolled.                          *)
Chars == Byte \cup {"pixel"}
Line == [Column -> Chars]
Screenful == [Row -> Line]
Stored == 0 .. SCROLLBACK_LINES - 1

TermRecord ==
    [scrollback : [Stored -> Line], cursor_line : Stored, total_lines : Nat,
     scroll_offset : Nat, row : Row, column : Nat, terminal_buffer : Screenful,
     mode : {"text", "mode13h", "bga"}, saved : Screenful \cup {NotSaved},
     log : Seq(Line), stale : BOOLEAN]

(* The k-th line back from line c of the ring is the k-th last of the log. *)
RingHolds(ring, c, log) ==
    \A k \in 0 .. Len(log) - 1 : ring[(c - k) % SCROLLBACK_LINES] = log[Len(log) - k]

RingHoldsLog(t) ==
    /\ t.total_lines \in 1 .. SCROLLBACK_LINES /\ Len(t.log) = t.total_lines
    /\ RingHolds(t.scrollback, t.cursor_line, t.log)

(* The text that is on the screen, or comes back to it, is what is shown.  *)
TextShown(t) ==
    ~t.stale => IF t.mode = "text" THEN t.terminal_buffer = Shown(t) ELSE t.saved = Shown(t)

Terms == {t \in TermRecord : t.column < TTY_WIDTH /\ RingHoldsLog(t) /\ TextShown(t)}

(* Terminals that new output goes to.                                      *)
LiveTerms == {t \in Terms : t.mode = "text" /\ t.scroll_offset = 0}

(* An index that goes back by less than the size of the ring.              *)
LEMMA ModBack ==
    ASSUME NEW c \in Stored, NEW k \in Stored
    PROVE  /\ (c - k) % SCROLLBACK_LINES = IF k <= c THEN c - k ELSE c - k + SCROLLBACK_LINES
           /\ (c - k) % SCROLLBACK_LINES \in Stored
  BY TerminalAssumption DEF Stored

(* An index that goes on by one.                                           *)
LEMMA ModNext ==
    ASSUME NEW c \in Stored
    PROVE  /\ (c + 1) % SCROLLBACK_LINES = IF c + 1 = SCROLLBACK_LINES THEN 0 ELSE c + 1
           /\ (c + 1) % SCROLLBACK_LINES \in Stored
  BY TerminalAssumption DEF Stored

(* The blank line and screen are lines and screens.                        *)
LEMMA Blanks ==
    /\ Blank \in Chars /\ BlankLine \in Line /\ BlankScreen \in Screenful
    /\ Pixels \in Screenful
  BY WorkloadsAssumption DEF Chars, Line, Screenful, BlankLine, BlankScreen, Pixels

(* A screenful is not what stands for none.                                *)
LEMMA ScreenfulSaved ==
    ASSUME NEW s \in Screenful
    PROVE  s # NotSaved
  <1>1. DOMAIN s = Row /\ 0 \in Row
    BY TerminalAssumption DEF Screenful, Row
  <1>2. DOMAIN NotSaved = {}
    BY DEF NotSaved
  <1> QED BY <1>1, <1>2

(* What is shown is a screenful.                                           *)
LEMMA ShownType ==
    ASSUME NEW t \in TermRecord
    PROVE  Shown(t) \in Screenful
  <1>1. t.log \in Seq(Line) /\ t.row \in Int /\ t.scroll_offset \in Int
    BY TerminalAssumption DEF TermRecord, Row
  <1>2. \A i \in 1 .. Len(t.log) : t.log[i] \in Line
    BY <1>1
  <1>3. Len(t.log) \in Nat
    BY <1>1
  <1>4. ASSUME NEW y \in Row
        PROVE  LET back == t.row - y + t.scroll_offset IN
               (IF back \in 0 .. Len(t.log) - 1 THEN t.log[Len(t.log) - back] ELSE BlankLine)
                  \in Line
    <2> DEFINE back == t.row - y + t.scroll_offset
    <2>1. back \in Int
      BY <1>1, TerminalAssumption DEF Row
    <2> HIDE DEF back
    <2>2. CASE back \in 0 .. Len(t.log) - 1
      <3>1. Len(t.log) - back \in 1 .. Len(t.log)
        BY <1>3, <2>1, <2>2
      <3> QED BY <1>2, <2>2, <3>1 DEF back
    <2> QED BY <2>2, Blanks DEF back
  <1> QED BY <1>4 DEF Shown, Screenful

(* terminal_redraw draws what is shown.                                    *)
LEMMA RedrawShows ==
    ASSUME NEW t \in TermRecord, RingHoldsLog(t)
    PROVE  [y \in Row |-> RowContents(t, y)] = Shown(t)
  <1>1. t.row \in Int /\ t.scroll_offset \in Nat /\ t.total_lines \in Nat /\ t.cursor_line \in Stored
    BY TerminalAssumption DEF TermRecord, Row
  <1>2. ASSUME NEW y \in Row
        PROVE  RowContents(t, y) = Shown(t)[y]
    <2> DEFINE back == t.row - y + t.scroll_offset
    <2>1. back \in Int
      BY <1>1, TerminalAssumption DEF Row
    <2>2. Shown(t)[y] = IF back \in 0 .. t.total_lines - 1 THEN t.log[t.total_lines - back]
                        ELSE BlankLine
      BY DEF Shown, RingHoldsLog
    <2>3. RowContents(t, y) = IF back < 0 \/ back >= t.total_lines THEN BlankLine
                              ELSE t.scrollback[(t.cursor_line - back) % SCROLLBACK_LINES]
      BY DEF RowContents
    <2> HIDE DEF back
    <2> QED BY <1>1, <2>1, <2>2, <2>3 DEF RingHoldsLog, RingHolds
  <1> QED BY <1>2 DEF Shown

(* The same as Shown, of the fields it reads.                              *)
View(row, offset, log) ==
    [y \in Row |-> LET back == row - y + offset IN
                   IF back \in 0 .. Len(log) - 1 THEN log[Len(log) - back] ELSE BlankLine]

(* new is the log with a blank line added, or what is left of it: the same *)
(* lines, one further back.                                                *)
LineAdded(log, new) ==
    /\ log \in Seq(Line) /\ Len(log) \in 1 .. SCROLLBACK_LINES
    /\ new \in Seq(Line) /\ Len(new) \in 1 .. SCROLLBACK_LINES
    /\ Len(new) = IF Len(log) < SCROLLBACK_LINES THEN Len(log) + 1 ELSE Len(log)
    /\ new[Len(new)] = BlankLine
    /\ \A k \in 1 .. Len(new) - 1 : new[Len(new) - k] = log[Len(log) - (k - 1)]

(* A newline adds a blank line to the log, which drops its oldest when it  *)
(* is full.                                                                *)
LEMMA LogAfterNewline ==
    ASSUME NEW log \in Seq(Line), Len(log) \in 1 .. SCROLLBACK_LINES
    PROVE  LineAdded(log, LastLines(Append(log, BlankLine)))
  <1>1. PICK n : n = Len(log)
    BY Zenon
  <1>2. PICK longer : longer = Append(log, BlankLine)
    BY Zenon
  <1>3. n \in Nat /\ SCROLLBACK_LINES \in Nat /\ n <= SCROLLBACK_LINES /\ n >= 1
    BY <1>1, TerminalAssumption
  <1>4. /\ longer \in Seq(Line) /\ Len(longer) = n + 1
        /\ longer[n + 1] = BlankLine
        /\ \A i \in 1 .. n : longer[i] = log[i]
    BY <1>1, <1>2, Blanks
  <1>5. CASE n < SCROLLBACK_LINES
    <2>1. LastLines(longer) = longer
      BY <1>3, <1>4, <1>5 DEF LastLines
    <2>2. \A k \in 1 .. n : longer[n + 1 - k] = log[n - (k - 1)]
      BY <1>3, <1>4
    <2> QED BY <1>1, <1>2, <1>3, <1>4, <1>5, <2>1, <2>2 DEF LineAdded
  <1>6. CASE n = SCROLLBACK_LINES
    <2>1. PICK rest : rest = Tail(longer)
      BY Zenon
    <2>2. LastLines(longer) = rest
      BY <1>3, <1>4, <1>6, <2>1 DEF LastLines
    <2>3. /\ rest \in Seq(Line) /\ Len(rest) = n
          /\ \A i \in 1 .. n : rest[i] = longer[i + 1]
      BY <1>3, <1>4, <2>1
    <2>4. \A k \in 1 .. n - 1 : rest[n - k] = log[n - (k - 1)]
      BY <1>3, <1>4, <2>3
    <2>5. rest[n] = BlankLine
      BY <1>3, <1>4, <2>3
    <2> QED BY <1>1, <1>2, <1>3, <1>6, <2>2, <2>3, <2>4, <2>5 DEF LineAdded
  <1> QED BY <1>3, <1>5, <1>6

(* The ring after a line is added.                                         *)
LEMMA RingAfterNewline ==
    ASSUME NEW sb \in [Stored -> Line], NEW c \in Stored, NEW log, NEW new,
           LineAdded(log, new),
           RingHolds(sb, c, log),
           NEW line \in Stored, line = IF c + 1 = SCROLLBACK_LINES THEN 0 ELSE c + 1
    PROVE  RingHolds([sb EXCEPT ![line] = BlankLine], line, new)
  <1>1. PICK n : n = Len(log)
    BY Zenon
  <1>2. PICK m : m = Len(new)
    BY Zenon
  <1>3. /\ n \in 1 .. SCROLLBACK_LINES /\ m \in 1 .. SCROLLBACK_LINES
        /\ m = IF n < SCROLLBACK_LINES THEN n + 1 ELSE n
        /\ new[m] = BlankLine
        /\ \A k \in 1 .. m - 1 : new[m - k] = log[n - (k - 1)]
    BY <1>1, <1>2 DEF LineAdded
  <1>3a. n \in Nat /\ m \in Nat /\ m <= SCROLLBACK_LINES /\ m <= n + 1 /\ SCROLLBACK_LINES \in Nat
    BY <1>3, TerminalAssumption
  <1>5. SUFFICES ASSUME NEW k \in 0 .. m - 1
                 PROVE  [sb EXCEPT ![line] = BlankLine][(line - k) % SCROLLBACK_LINES] = new[m - k]
    BY <1>2 DEF RingHolds
  <1>6. k \in Stored
    BY <1>3a DEF Stored
  <1>7. PICK i : i = (line - k) % SCROLLBACK_LINES
    BY Zenon
  <1>8. i \in Stored /\ i = IF k <= line THEN line - k ELSE line - k + SCROLLBACK_LINES
    BY <1>6, <1>7, ModBack, Zenon
  <1>9. CASE k = 0
    <2>1. i = line
      BY <1>8, <1>9 DEF Stored
    <2> QED BY <1>3, <1>7, <1>9, <2>1
  <1>10. CASE k # 0
    <2>1. k - 1 \in Stored /\ k - 1 \in 0 .. n - 1 /\ k \in 1 .. m - 1
      BY <1>3a, <1>10 DEF Stored
    <2>2. PICK j : j = (c - (k - 1)) % SCROLLBACK_LINES
      BY Zenon
    <2>2a. j = IF k - 1 <= c THEN c - (k - 1) ELSE c - (k - 1) + SCROLLBACK_LINES
      BY <2>1, <2>2, ModBack, Zenon
    <2>3. i = j /\ i # line
      BY <1>3a, <1>6, <1>8, <1>10, <2>2a DEF Stored
    <2>4. sb[i] = log[n - (k - 1)]
      BY <1>1, <2>1, <2>2, <2>3, Zenon DEF RingHolds
    <2>5. [sb EXCEPT ![line] = BlankLine][i] = sb[i]
      BY <1>8, <2>3
    <2>6. new[m - k] = log[n - (k - 1)]
      BY <1>3, <2>1
    <2> QED BY <1>7, <2>4, <2>5, <2>6
  <1> QED BY <1>9, <1>10

(* The screen after a line is added, below the last or by scrolling.       *)
LEMMA ViewAfterNewline ==
    ASSUME NEW row \in Row, NEW log, NEW new, LineAdded(log, new)
    PROVE  /\ row + 1 < TTY_HEIGHT => View(row, 0, log) = View(row + 1, 0, new)
           /\ ~(row + 1 < TTY_HEIGHT) => Scrolled(View(row, 0, log)) = View(row, 0, new)
  <1>1. PICK n : n = Len(log)
    BY Zenon
  <1>2. PICK m : m = Len(new)
    BY Zenon
  <1>3. /\ n \in 1 .. SCROLLBACK_LINES /\ m \in 1 .. SCROLLBACK_LINES
        /\ m = IF n < SCROLLBACK_LINES THEN n + 1 ELSE n
        /\ new[m] = BlankLine
        /\ \A k \in 1 .. m - 1 : new[m - k] = log[n - (k - 1)]
    BY <1>1, <1>2, Zenon DEF LineAdded
  <1>4. /\ row \in Nat /\ row <= TTY_HEIGHT - 1 /\ TTY_HEIGHT \in Nat
        /\ TTY_HEIGHT <= SCROLLBACK_LINES /\ SCROLLBACK_LINES \in Nat
        /\ \A y \in Row : y \in Nat /\ y <= TTY_HEIGHT - 1
    BY TerminalAssumption DEF Row
  <1> DEFINE Old(back) == IF back \in 0 .. n - 1 THEN log[n - back] ELSE BlankLine
             New(back) == IF back \in 0 .. m - 1 THEN new[m - back] ELSE BlankLine
  <1>5. \A back \in Int : back < SCROLLBACK_LINES => New(back) = Old(back - 1)
    <2> SUFFICES ASSUME NEW back \in Int, back < SCROLLBACK_LINES
                 PROVE  New(back) = Old(back - 1)
      OBVIOUS
    <2>1. CASE back <= 0
      <3>1. Old(back - 1) = BlankLine
        BY <2>1
      <3>2. New(back) = BlankLine
        BY <1>3, <2>1
      <3> QED BY <3>1, <3>2
    <2>2. CASE back >= 1
      <3>1. back \in 0 .. m - 1 <=> back - 1 \in 0 .. n - 1
        BY <1>3, <1>4, <2>2
      <3>2. back \in 0 .. m - 1 => new[m - back] = log[n - (back - 1)]
        BY <1>3, <2>2
      <3> QED BY <3>1, <3>2
    <2> QED BY <2>1, <2>2
  <1>6. \A r \in Int : /\ View(r, 0, log) = [y \in Row |-> Old(r - y)]
                       /\ View(r, 0, new) = [y \in Row |-> New(r - y)]
    <2> SUFFICES ASSUME NEW r \in Int
                 PROVE  /\ View(r, 0, log) = [y \in Row |-> Old(r - y)]
                        /\ View(r, 0, new) = [y \in Row |-> New(r - y)]
      OBVIOUS
    <2>1. \A y \in Row : r - y + 0 = r - y
      BY <1>4
    <2> QED BY <1>1, <1>2, <2>1, Zenon DEF View
  <1> HIDE DEF Old, New
  <1>7. ASSUME row + 1 < TTY_HEIGHT
        PROVE  View(row, 0, log) = View(row + 1, 0, new)
    <2>1. PICK r \in Int : r = row + 1
      BY <1>4
    <2>2. ASSUME NEW y \in Row
          PROVE  New(r - y) = Old(row - y)
      <3>1. PICK b : b = r - y
        BY Zenon
      <3>2. b \in Int /\ b < SCROLLBACK_LINES /\ b - 1 = row - y
        BY <1>4, <1>7, <2>1, <3>1
      <3>3. New(b) = Old(b - 1)
        BY <1>5, <3>2, Zenon
      <3> QED BY <3>1, <3>2, <3>3, Zenon
    <2>3. View(row, 0, log) = [y \in Row |-> Old(row - y)]
      <3>1. row \in Int
        BY <1>4
      <3> QED BY <1>6, <3>1, Zenon
    <2>4. View(r, 0, new) = [y \in Row |-> New(r - y)]
      BY <1>6, Zenon
    <2> QED BY <2>1, <2>2, <2>3, <2>4, Zenon
  <1>8. ASSUME ~(row + 1 < TTY_HEIGHT)
        PROVE  Scrolled(View(row, 0, log)) = View(row, 0, new)
    <2>1. row = TTY_HEIGHT - 1 /\ row \in Int
      BY <1>4, <1>8
    <2>2. ASSUME NEW y \in Row
          PROVE  Scrolled(View(row, 0, log))[y] = New(row - y)
      <3>1. row - y \in Int /\ row - y < SCROLLBACK_LINES /\ row - y - 1 = row - (y + 1)
        BY <1>4
      <3>2. New(row - y) = Old(row - (y + 1))
        BY <1>5, <3>1
      <3>3. CASE y + 1 \in Row
        BY <1>6, <2>1, <3>2, <3>3 DEF Scrolled
      <3>4. CASE y + 1 \notin Row
        <4>1. row - (y + 1) = -1
          BY <1>4, <2>1, <3>4, TerminalAssumption DEF Row
        <4>2. Old(row - (y + 1)) = BlankLine
          BY <1>3, <4>1 DEF Old
        <4> QED BY <3>2, <3>4, <4>2 DEF Scrolled
      <3> QED BY <3>3, <3>4
    <2> QED BY <1>6, <2>1, <2>2 DEF Scrolled
  <1> QED BY <1>7, <1>8

(* A terminal with other contents.                                         *)
Rewritten(t, ring, c, n, log, row, column, screen) ==
    [t EXCEPT !.scrollback = ring, !.cursor_line = c, !.total_lines = n, !.log = log,
              !.row = row, !.column = column, !.terminal_buffer = screen]

Fits(ring, c, n, log, row, column, screen) ==
    /\ ring \in [Stored -> Line] /\ c \in Stored /\ n \in Nat /\ log \in Seq(Line)
    /\ row \in Row /\ column \in Nat /\ screen \in Screenful

(* The fields of a terminal rewritten so.                                  *)
LEMMA RewrittenFields ==
    ASSUME NEW t \in TermRecord, NEW ring, NEW c, NEW n, NEW log, NEW row, NEW column,
           NEW screen, Fits(ring, c, n, log, row, column, screen),
           NEW u, u = Rewritten(t, ring, c, n, log, row, column, screen)
    PROVE  /\ u \in TermRecord
           /\ u.scrollback = ring /\ u.cursor_line = c /\ u.total_lines = n
           /\ u.log = log /\ u.row = row /\ u.column = column
           /\ u.terminal_buffer = screen
           /\ u.mode = t.mode /\ u.scroll_offset = t.scroll_offset /\ u.stale = t.stale
           /\ u.saved = t.saved
  <1>1. u \in TermRecord
    BY ZenonT(60) DEF Rewritten, TermRecord, Fits
  <1>2. /\ u.scrollback = ring /\ u.cursor_line = c /\ u.total_lines = n
        /\ u.log = log /\ u.row = row /\ u.column = column
        /\ u.terminal_buffer = screen
        /\ u.mode = t.mode /\ u.scroll_offset = t.scroll_offset /\ u.stale = t.stale
        /\ u.saved = t.saved
    BY ZenonT(60) DEF Rewritten, TermRecord
  <1> QED BY <1>1, <1>2, Zenon

(* An element of a sequence, and one replaced.                             *)
LEMMA ElementOf ==
    ASSUME NEW S, NEW q \in Seq(S), NEW i \in 1 .. Len(q), NEW e \in S
    PROVE  /\ q[i] \in S
           /\ [q EXCEPT ![i] = e] \in Seq(S) /\ Len([q EXCEPT ![i] = e]) = Len(q)
           /\ \A j \in 1 .. Len(q) : [q EXCEPT ![i] = e][j] = IF j = i THEN e ELSE q[j]
  OBVIOUS

(* The types of a terminal's fields.                                       *)
LEMMA TermFields ==
    ASSUME NEW t \in TermRecord
    PROVE  /\ t.scrollback \in [Stored -> Line] /\ t.cursor_line \in Stored
           /\ t.total_lines \in Nat /\ t.scroll_offset \in Nat /\ t.row \in Row
           /\ t.column \in Nat /\ t.terminal_buffer \in Screenful /\ t.log \in Seq(Line)
           /\ t.saved \in Screenful \cup {NotSaved} /\ t.stale \in BOOLEAN
           /\ t.mode \in {"text", "mode13h", "bga"}
  BY Zenon DEF TermRecord

(* What belongs on the screen, as a view of the log.                       *)
LEMMA ShownIsView ==
    ASSUME NEW t
    PROVE  Shown(t) = View(t.row, t.scroll_offset, t.log)
  BY Zenon DEF Shown, View

(* terminal_newline keeps the ring, the log and the screen in step.        *)
LEMMA NewlineKeeps ==
    ASSUME NEW t \in TermRecord, RingHoldsLog(t), TextShown(t),
           t.mode = "text", t.scroll_offset = 0
    PROVE  terminal_newline(t) \in LiveTerms
  <1>1. PICK line : line = (t.cursor_line + 1) % SCROLLBACK_LINES
    BY Zenon
  <1>2. PICK new : new = LastLines(Append(t.log, BlankLine))
    BY Zenon
  <1>3. PICK m : m = IF t.total_lines < SCROLLBACK_LINES THEN t.total_lines + 1 ELSE t.total_lines
    BY Zenon
  <1>4. PICK row : row = IF t.row + 1 < TTY_HEIGHT THEN t.row + 1 ELSE t.row
    BY Zenon
  <1>5. PICK screen : screen = IF t.row + 1 < TTY_HEIGHT THEN t.terminal_buffer
                               ELSE Scrolled(t.terminal_buffer)
    BY Zenon
  <1>6. PICK ring : ring = [t.scrollback EXCEPT ![line] = BlankLine]
    BY Zenon
  <1>7. PICK u : u = Rewritten(t, ring, line, m, new, row, 0, screen)
    BY Zenon
  <1>8. terminal_newline(t) = u
    BY <1>1, <1>2, <1>3, <1>4, <1>5, <1>6, <1>7, ZenonT(60)
       DEF terminal_newline, TermRecord, Rewritten
  <1>9. LineAdded(t.log, new) /\ Len(t.log) = t.total_lines
    <2>1. t.log \in Seq(Line)
      BY TermFields
    <2>2. Len(t.log) \in 1 .. SCROLLBACK_LINES /\ Len(t.log) = t.total_lines
      BY DEF RingHoldsLog
    <2> QED BY <1>2, <2>1, <2>2, LogAfterNewline, Zenon
  <1>10. new \in Seq(Line) /\ Len(new) = m /\ m \in Nat /\ m \in 1 .. SCROLLBACK_LINES
    BY <1>3, <1>9, TerminalAssumption DEF LineAdded
  <1>11. line \in Stored /\ line = IF t.cursor_line + 1 = SCROLLBACK_LINES THEN 0 ELSE t.cursor_line + 1
    BY <1>1, TermFields, ModNext, Zenon
  <1>12. ring \in [Stored -> Line]
    BY <1>6, <1>11, TermFields, Blanks
  <1>13. row \in Row
    BY <1>4, TermFields, TerminalAssumption DEF Row
  <1>14. screen \in Screenful
    <2>1. t.terminal_buffer \in Screenful
      BY TermFields
    <2>2. Scrolled(t.terminal_buffer) \in Screenful
      BY <2>1, Blanks DEF Scrolled, Screenful
    <2> QED BY <1>5, <2>1, <2>2
  <1>15. /\ u \in TermRecord
         /\ u.scrollback = ring /\ u.cursor_line = line /\ u.total_lines = m
         /\ u.log = new /\ u.row = row /\ u.column = 0 /\ u.terminal_buffer = screen
         /\ u.mode = "text" /\ u.scroll_offset = 0 /\ u.stale = t.stale
    <2>1. Fits(ring, line, m, new, row, 0, screen)
      BY <1>10, <1>11, <1>12, <1>13, <1>14 DEF Fits
    <2> QED BY <1>7, <2>1, RewrittenFields
  <1>16. RingHoldsLog(u)
    <2>1. RingHolds(t.scrollback, t.cursor_line, t.log)
      BY DEF RingHoldsLog
    <2>2. RingHolds(ring, line, new)
      BY <1>6, <1>9, <1>11, <2>1, TermFields, RingAfterNewline, Zenon
    <2> QED BY <1>10, <1>15, <2>2 DEF RingHoldsLog
  <1>17. ASSUME ~t.stale PROVE screen = Shown(u)
    <2>1. t.terminal_buffer = View(t.row, 0, t.log)
      BY <1>17, ShownIsView DEF TextShown
    <2>2. Shown(u) = View(row, 0, new)
      BY <1>15, ShownIsView, Zenon
    <2>3. t.row \in Row
      BY TermFields
    <2>4. /\ t.row + 1 < TTY_HEIGHT => View(t.row, 0, t.log) = View(t.row + 1, 0, new)
          /\ ~(t.row + 1 < TTY_HEIGHT) => Scrolled(View(t.row, 0, t.log)) = View(t.row, 0, new)
      BY <1>9, <2>3, ViewAfterNewline, ZenonT(60)
    <2>5. CASE t.row + 1 < TTY_HEIGHT
      BY <1>4, <1>5, <2>1, <2>2, <2>4, <2>5, Zenon
    <2>6. CASE ~(t.row + 1 < TTY_HEIGHT)
      BY <1>4, <1>5, <2>1, <2>2, <2>4, <2>6, Zenon
    <2> QED BY <2>5, <2>6
  <1>18. TextShown(u)
    BY <1>15, <1>17 DEF TextShown
  <1>19. 0 < TTY_WIDTH
    BY TerminalAssumption
  <1> QED BY <1>8, <1>15, <1>16, <1>18, <1>19, Zenon DEF LiveTerms, Terms

(* terminal_putentryat writes the same character in all three places.      *)
LEMMA PutKeeps ==
    ASSUME NEW t \in LiveTerms, NEW ch \in Chars
    PROVE  LET u == [terminal_putentryat(t, ch, t.column, t.row) EXCEPT !.column = @ + 1] IN
           /\ u \in TermRecord /\ RingHoldsLog(u) /\ TextShown(u)
           /\ u.mode = "text" /\ u.scroll_offset = 0 /\ u.column = t.column + 1
  <1>1. /\ t \in TermRecord /\ t.mode = "text" /\ t.scroll_offset = 0
        /\ t.column < TTY_WIDTH /\ RingHoldsLog(t) /\ TextShown(t)
    BY DEF LiveTerms, Terms
  <1>2. PICK x : x = t.column
    BY Zenon
  <1>3. PICK c : c = t.cursor_line
    BY Zenon
  <1>4. PICK n : n = Len(t.log)
    BY Zenon
  <1>5. /\ t.scrollback \in [Stored -> Line] /\ c \in Stored /\ t.row \in Row
        /\ t.column \in Nat /\ t.terminal_buffer \in Screenful /\ t.log \in Seq(Line)
    BY <1>1, <1>3, TermFields
  <1>6. x \in Column /\ x + 1 \in Nat
    BY <1>1, <1>2, <1>5, TerminalAssumption DEF Column
  <1>7. n \in 1 .. SCROLLBACK_LINES /\ n = t.total_lines /\ n \in Nat
    BY <1>1, <1>4 DEF RingHoldsLog
  <1>8. scrollback_index_for_row(t, t.row) = c
    <2>1. t.row \in Int /\ 0 \in Stored /\ c \in Int
      BY <1>5, TerminalAssumption DEF Row, Stored
    <2>2. t.row - t.row = 0
      BY <2>1
    <2>3. (c - 0) % SCROLLBACK_LINES = IF 0 <= c THEN c - 0 ELSE c - 0 + SCROLLBACK_LINES
      BY <1>5, <2>1, ModBack, Zenon
    <2>4. 0 <= c /\ c - 0 = c
      BY <1>5 DEF Stored
    <2> QED BY <1>3, <2>2, <2>3, <2>4, Zenon DEF scrollback_index_for_row
  <1>9. PICK line : line = t.log[n]
    BY Zenon
  <1>10. PICK new : new = [line EXCEPT ![x] = ch]
    BY Zenon
  <1>11. line \in Line /\ new \in Line
    <2>1. line \in Line
      <3>1. n \in 1 .. Len(t.log)
        BY <1>4, <1>7
      <3> QED BY <1>5, <1>9, <3>1, Blanks, ElementOf, Zenon
    <2> QED BY <1>6, <1>10, <2>1 DEF Line
  <1>12. RingHolds(t.scrollback, c, t.log) /\ t.scrollback[c] = line
    <2>1. RingHolds(t.scrollback, c, t.log)
      BY <1>1, <1>3 DEF RingHoldsLog
    <2>2. 0 \in Stored /\ 0 \in 0 .. n - 1 /\ n - 0 = n /\ 0 <= c /\ c - 0 = c
      BY <1>5, <1>7, TerminalAssumption DEF Stored
    <2>3. (c - 0) % SCROLLBACK_LINES = IF 0 <= c THEN c - 0 ELSE c - 0 + SCROLLBACK_LINES
      BY <1>5, <2>2, ModBack, Zenon
    <2> QED BY <1>4, <1>9, <2>1, <2>2, <2>3, Zenon DEF RingHolds
  <1>13. PICK ring : ring = [t.scrollback EXCEPT ![c] = new]
    BY Zenon
  <1>14. PICK log : log = [t.log EXCEPT ![n] = new]
    BY Zenon
  <1>15. PICK screen : screen = [t.terminal_buffer EXCEPT ![t.row][x] = ch]
    BY Zenon
  <1>16. ring \in [Stored -> Line] /\ ring[c] = new /\ \A i \in Stored : i # c => ring[i] = t.scrollback[i]
    BY <1>5, <1>11, <1>13
  <1>17. log \in Seq(Line) /\ Len(log) = n /\ log[n] = new /\ \A i \in 1 .. n : i # n => log[i] = t.log[i]
    <2>1. n \in 1 .. Len(t.log)
      BY <1>4, <1>7
    <2>2. /\ log \in Seq(Line) /\ Len(log) = Len(t.log)
          /\ \A j \in 1 .. Len(t.log) : log[j] = IF j = n THEN new ELSE t.log[j]
      BY <1>5, <1>11, <1>14, <2>1, ElementOf
    <2> QED BY <1>4, <2>1, <2>2, Zenon
  <1>18. screen \in Screenful
    BY <1>5, <1>6, <1>15 DEF Screenful, Line
  <1>19. PICK u : u = Rewritten(t, ring, c, n, log, t.row, x + 1, screen)
    BY Zenon
  <1>20. [terminal_putentryat(t, ch, t.column, t.row) EXCEPT !.column = @ + 1] = u
    <2>1. [t.scrollback EXCEPT ![c][x] = ch] = ring
      BY <1>10, <1>12, <1>13, Zenon
    <2>2. [t.log EXCEPT ![n][x] = ch] = log
      BY <1>9, <1>10, <1>14, Zenon
    <2>3. terminal_putentryat(t, ch, t.column, t.row) =
            [t EXCEPT !.scrollback = ring, !.terminal_buffer = screen, !.log = log]
      BY <1>2, <1>4, <1>8, <1>15, <2>1, <2>2, ZenonT(60) DEF terminal_putentryat, TermRecord
    <2> QED BY <1>1, <1>2, <1>3, <1>7, <1>19, <2>3, ZenonT(60) DEF Rewritten, TermRecord
  <1>21. /\ u \in TermRecord
         /\ u.scrollback = ring /\ u.cursor_line = c /\ u.total_lines = n
         /\ u.log = log /\ u.row = t.row /\ u.column = x + 1 /\ u.terminal_buffer = screen
         /\ u.mode = "text" /\ u.scroll_offset = 0 /\ u.stale = t.stale
    <2>1. Fits(ring, c, n, log, t.row, x + 1, screen)
      BY <1>5, <1>6, <1>7, <1>16, <1>17, <1>18, Zenon DEF Fits
    <2> QED BY <1>1, <1>19, <2>1, RewrittenFields
  <1>22. RingHolds(ring, c, log)
    <2>1. SUFFICES ASSUME NEW k \in 0 .. n - 1
                   PROVE  ring[(c - k) % SCROLLBACK_LINES] = log[n - k]
      BY <1>17, Zenon DEF RingHolds
    <2>2. k \in Stored /\ n - k \in 1 .. n
      BY <1>7, TerminalAssumption DEF Stored
    <2>3. PICK i : i = (c - k) % SCROLLBACK_LINES
      BY Zenon
    <2>4. i \in Stored /\ i = IF k <= c THEN c - k ELSE c - k + SCROLLBACK_LINES
      BY <1>5, <2>2, <2>3, ModBack, Zenon
    <2>5. t.scrollback[i] = t.log[n - k]
      BY <1>4, <1>12, <2>3, Zenon DEF RingHolds
    <2>6. CASE k = 0
      <3>1. i = c /\ n - k = n
        BY <1>5, <1>7, <2>4, <2>6 DEF Stored
      <3> QED BY <1>16, <1>17, <2>3, <3>1, Zenon
    <2>7. CASE k # 0
      <3>1. i # c /\ n - k # n
        BY <1>5, <1>7, <2>2, <2>4, <2>7, TerminalAssumption DEF Stored
      <3> QED BY <1>16, <1>17, <2>2, <2>3, <2>4, <2>5, <3>1, Zenon
    <2> QED BY <2>6, <2>7
  <1>23. RingHoldsLog(u)
    BY <1>7, <1>17, <1>21, <1>22 DEF RingHoldsLog
  <1>24. ASSUME ~t.stale PROVE screen = Shown(u)
    <2>1. t.terminal_buffer = View(t.row, 0, t.log)
      BY <1>1, <1>24, ShownIsView DEF TextShown
    <2>2. Shown(u) = View(t.row, 0, log)
      BY <1>21, ShownIsView, Zenon
    <2>3. PICK r \in Row : r = t.row
      BY <1>5, Zenon
    <2>4. r \in Nat /\ \A y \in Row : y \in Nat
      BY TerminalAssumption DEF Row
    <2>5. ASSUME NEW y \in Row
          PROVE  screen[y] = View(r, 0, log)[y]
      <3>1. View(r, 0, log)[y] = IF r - y \in 0 .. n - 1 THEN log[n - (r - y)] ELSE BlankLine
        BY <1>17, <2>4 DEF View
      <3>2. View(r, 0, t.log)[y] = IF r - y \in 0 .. n - 1 THEN t.log[n - (r - y)] ELSE BlankLine
        BY <1>4, <2>4 DEF View
      <3>3. CASE y = r
        <4>1. r - y = 0 /\ r - y \in 0 .. n - 1 /\ n - (r - y) = n
          BY <1>7, <2>4, <3>3
        <4>2. screen[y] = [t.terminal_buffer[y] EXCEPT ![x] = ch]
          BY <1>5, <1>15, <2>3, <3>3 DEF Screenful
        <4>3. t.terminal_buffer[y] = line
          BY <1>9, <2>1, <2>3, <3>2, <4>1, Zenon
        <4> QED BY <1>10, <1>17, <3>1, <4>1, <4>2, <4>3, Zenon
      <3>4. CASE y # r
        <4>1. screen[y] = t.terminal_buffer[y]
          BY <1>5, <1>15, <2>3, <3>4 DEF Screenful
        <4>2. r - y \in 0 .. n - 1 => n - (r - y) \in 1 .. n /\ n - (r - y) # n
          BY <1>7, <2>4, <3>4
        <4> QED BY <1>17, <2>1, <2>3, <3>1, <3>2, <4>1, <4>2, Zenon
      <3> QED BY <3>3, <3>4
    <2>6. screen = [y \in Row |-> screen[y]] /\ View(r, 0, log) = [y \in Row |-> View(r, 0, log)[y]]
      BY <1>18 DEF Screenful, View
    <2> QED BY <2>2, <2>3, <2>5, <2>6, Zenon
  <1>25. TextShown(u)
    BY <1>21, <1>24 DEF TextShown
  <1> QED BY <1>2, <1>20, <1>21, <1>23, <1>25, Zenon

(* One character, which may end the line.                                  *)
LEMMA GlyphKeeps ==
    ASSUME NEW t \in LiveTerms, NEW ch \in Chars
    PROVE  PutGlyph(t, ch) \in LiveTerms
  <1>1. PICK u : u = [terminal_putentryat(t, ch, t.column, t.row) EXCEPT !.column = @ + 1]
    BY Zenon
  <1>2. /\ u \in TermRecord /\ RingHoldsLog(u) /\ TextShown(u)
        /\ u.mode = "text" /\ u.scroll_offset = 0
    BY <1>1, PutKeeps, Zenon
  <1>3. CASE u.column >= TTY_WIDTH
    <2>1. PutGlyph(t, ch) = terminal_newline(u)
      BY <1>1, <1>3, Zenon DEF PutGlyph
    <2> QED BY <1>2, <2>1, NewlineKeeps, Zenon
  <1>4. CASE ~(u.column >= TTY_WIDTH)
    <2>1. PutGlyph(t, ch) = u
      BY <1>1, <1>4, Zenon DEF PutGlyph
    <2>2. u.column < TTY_WIDTH
      BY <1>2, <1>4, TermFields, TerminalAssumption
    <2> QED BY <1>2, <2>1, <2>2 DEF LiveTerms, Terms
  <1> QED BY <1>3, <1>4

(* A tab is a number of blanks.                                            *)
LEMMA BlanksKeep ==
    ASSUME NEW t \in LiveTerms, NEW spaces \in Nat
    PROVE  PutBlanks(t, spaces) \in LiveTerms
  <1> DEFINE G(x) == PutGlyph(x, Blank)
             g == [i \in 1 .. spaces |-> [x \in LiveTerms |-> G(x)]]
             Is(f) == f = [i \in 0 .. spaces |-> IF i = 0 THEN t ELSE G(f[i - 1])]
             h == CHOOSE k : Is(k)
  <1>1. \A x \in LiveTerms : G(x) \in LiveTerms
    BY GlyphKeeps, Blanks, Zenon
  <1>2. PutBlanks(t, spaces) = h[spaces]
    BY DEF PutBlanks
  <1> HIDE DEF G
  <1>3. PICK f : IsRun(f, LiveTerms, t, spaces, g)
    <2>1. IsLoop(LiveTerms, t, spaces, g)
      BY <1>1 DEF IsLoop
    <2> HIDE DEF g
    <2> QED BY <2>1, LoopExists, Zenon
  <1>4. Is(f)
    <2>1. \A i \in 1 .. spaces : f[i - 1] \in LiveTerms
      BY <1>3 DEF IsRun
    <2>2. \A i \in 1 .. spaces : f[i] = G(f[i - 1])
      BY <1>3, <2>1, Zenon DEF IsRun
    <2> QED BY <1>3, <2>2 DEF IsRun
  <1>5. Is(h)
    BY <1>4, Zenon
  <1> HIDE DEF h
  <1>6. h[spaces] \in LiveTerms
    BY <1>1, <1>5, LoopStays
  <1> QED BY <1>2, <1>6

(* Redrawing after a change of the offset.                                 *)
LEMMA RedrawKeeps ==
    ASSUME NEW t \in Terms, t.mode = "text", NEW offset \in Nat
    PROVE  LET u == terminal_redraw([t EXCEPT !.scroll_offset = offset]) IN
           u \in Terms /\ u.mode = "text" /\ u.scroll_offset = offset
  <1>1. t \in TermRecord /\ t.column < TTY_WIDTH /\ RingHoldsLog(t)
    BY DEF Terms
  <1>2. PICK s : s = [t EXCEPT !.scroll_offset = offset]
    BY Zenon
  <1>3. /\ s \in TermRecord /\ s.mode = "text" /\ s.scroll_offset = offset
        /\ s.column = t.column /\ s.scrollback = t.scrollback
        /\ s.cursor_line = t.cursor_line /\ s.total_lines = t.total_lines
        /\ s.log = t.log /\ s.row = t.row
    BY <1>1, <1>2, ZenonT(60) DEF TermRecord
  <1>4. RingHoldsLog(s)
    BY <1>1, <1>3, Zenon DEF RingHoldsLog
  <1>5. [y \in Row |-> RowContents(s, y)] = Shown(s) /\ Shown(s) \in Screenful
    BY <1>3, <1>4, RedrawShows, ShownType, Zenon
  <1>6. PICK u : u = [s EXCEPT !.terminal_buffer = Shown(s), !.stale = FALSE]
    BY Zenon
  <1>7. terminal_redraw(s) = u
    BY <1>3, <1>5, <1>6, Zenon DEF terminal_redraw, vga_is_graphics
  <1>8. PICK screen \in Screenful : screen = Shown(s)
    BY <1>5, Zenon
  <1>9. /\ u \in TermRecord /\ u.mode = "text" /\ u.scroll_offset = offset
        /\ u.column = t.column /\ u.scrollback = s.scrollback
        /\ u.cursor_line = s.cursor_line /\ u.total_lines = s.total_lines
        /\ u.log = s.log /\ u.row = s.row /\ u.terminal_buffer = screen
    BY <1>3, <1>6, <1>8, ZenonT(60) DEF TermRecord
  <1>10. RingHoldsLog(u)
    BY <1>4, <1>9, Zenon DEF RingHoldsLog
  <1>11. Shown(u) = Shown(s)
    BY <1>3, <1>9, ShownIsView, Zenon
  <1>12. TextShown(u)
    BY <1>8, <1>9, <1>11, Zenon DEF TextShown
  <1> QED BY <1>1, <1>2, <1>7, <1>9, <1>10, <1>12, Zenon DEF Terms

(* New output first snaps the view back to the bottom.                     *)
LEMMA LiveKeeps ==
    ASSUME NEW t \in Terms, t.mode = "text"
    PROVE  Live(t) \in LiveTerms
  <1>1. CASE t.scroll_offset = 0
    BY <1>1, Zenon DEF Live, LiveTerms
  <1>2. CASE t.scroll_offset # 0
    <2>1. 0 \in Nat
      OBVIOUS
    <2> QED BY <1>2, <2>1, RedrawKeeps, Zenon DEF Live, LiveTerms
  <1> QED BY <1>1, <1>2

(* Whatever character is put out.                                          *)
LEMMA CharKeeps ==
    ASSUME NEW t \in LiveTerms, NEW c \in Byte
    PROVE  PutChar(t, c) \in LiveTerms
  <1>1. /\ t \in TermRecord /\ t.column < TTY_WIDTH /\ RingHoldsLog(t) /\ TextShown(t)
        /\ t.mode = "text" /\ t.scroll_offset = 0
    BY DEF LiveTerms, Terms
  <1>2. CASE c = "newline"
    <2>1. PutChar(t, c) = terminal_newline(t)
      BY <1>2 DEF PutChar
    <2> QED BY <1>1, <2>1, NewlineKeeps, Zenon
  <1>3. CASE c = "backspace"
    <2>1. PICK column : column = IF t.column > 0 THEN t.column - 1 ELSE 0
      BY Zenon
    <2>2. PICK u : u = [t EXCEPT !.column = column]
      BY Zenon
    <2>3. PutChar(t, c) = u
      BY <1>3, <2>1, <2>2 DEF PutChar
    <2>4. column \in Nat /\ column < TTY_WIDTH
      BY <1>1, <2>1, TermFields, TerminalAssumption
    <2>5. /\ u \in TermRecord /\ u.column = column /\ u.scrollback = t.scrollback
          /\ u.cursor_line = t.cursor_line /\ u.total_lines = t.total_lines
          /\ u.log = t.log /\ u.row = t.row /\ u.mode = "text" /\ u.stale = t.stale
          /\ u.scroll_offset = 0 /\ u.terminal_buffer = t.terminal_buffer
      BY <1>1, <2>2, <2>4, ZenonT(60) DEF TermRecord
    <2>6. Shown(u) = Shown(t)
      BY <1>1, <2>5, ShownIsView, Zenon
    <2>7. RingHoldsLog(u) /\ TextShown(u)
      BY <1>1, <2>5, <2>6, Zenon DEF RingHoldsLog, TextShown
    <2> QED BY <2>3, <2>4, <2>5, <2>7, Zenon DEF LiveTerms, Terms
  <1>4. CASE c = "tab"
    <2>1. TabStop - (t.column % TabStop) \in Nat
      <3>1. t.column \in Nat
        BY <1>1, TermFields
      <3> QED BY <3>1, TerminalAssumption
    <2>2. PutChar(t, c) = PutBlanks(t, TabStop - (t.column % TabStop))
      BY <1>4 DEF PutChar
    <2> QED BY <2>1, <2>2, BlanksKeep, Zenon
  <1>5. CASE c \notin {"newline", "backspace", "tab"}
    <2>1. PutChar(t, c) = PutGlyph(t, c)
      BY <1>5 DEF PutChar
    <2>2. c \in Chars
      BY DEF Chars
    <2> QED BY <2>1, <2>2, GlyphKeeps, Zenon
  <1> QED BY <1>2, <1>3, <1>4, <1>5

(* In a graphics mode nothing is written to the terminal.                  *)
LEMMA PutcharKeeps ==
    ASSUME NEW m, NEW t \in {x \in Terms : x.mode = m}, NEW c \in Byte
    PROVE  term_putchar(t, c) \in {x \in Terms : x.mode = m}
  <1>1. CASE t.mode # "text"
    BY <1>1, Zenon DEF term_putchar, vga_is_graphics
  <1>2. CASE t.mode = "text"
    <2>1. term_putchar(t, c) = PutChar(Live(t), c)
      BY <1>2, Zenon DEF term_putchar, vga_is_graphics
    <2>2. term_putchar(t, c) \in LiveTerms
      BY <1>2, <2>1, LiveKeeps, CharKeeps, Zenon
    <2> QED BY <1>2, <2>2, Zenon DEF LiveTerms
  <1> QED BY <1>1, <1>2

(* A whole text is written.                                                *)
LEMMA WriteKeeps ==
    ASSUME NEW t \in Terms, NEW text \in Seq(Byte)
    PROVE  terminal_write(t, text) \in Terms /\ terminal_write(t, text).mode = t.mode
  <1>1. PICK n : n = Len(text)
    BY Zenon
  <1>2. PICK T : T = {x \in Terms : x.mode = t.mode}
    BY Zenon
  <1> DEFINE G(x, i) == term_putchar(x, text[i])
             Is(f) == f = [i \in 0 .. n |-> IF i = 0 THEN t ELSE G(f[i - 1], i)]
             h == CHOOSE k : Is(k)
  <1>3. n \in Nat
    BY <1>1
  <1>4. \A i \in 1 .. n : text[i] \in Byte
    BY <1>1
  <1>5. \A i \in 1 .. n : \A x \in T : G(x, i) \in T
    BY <1>2, <1>4, PutcharKeeps, Zenon
  <1>6. terminal_write(t, text) = h[n]
    BY <1>1 DEF terminal_write
  <1>7. t \in T
    BY <1>2, Zenon
  <1> HIDE DEF G
  <1>8. PICK g : g = [i \in 1 .. n |-> [x \in T |-> G(x, i)]]
    BY Zenon
  <1>9. PICK f : IsRun(f, T, t, n, g)
    <2>1. IsLoop(T, t, n, g)
      BY <1>3, <1>5, <1>7, <1>8 DEF IsLoop
    <2> QED BY <2>1, LoopExists, Zenon
  <1>10. Is(f)
    <2>1. \A i \in 1 .. n : f[i - 1] \in T
      BY <1>3, <1>9 DEF IsRun
    <2>2. \A i \in 1 .. n : f[i] = G(f[i - 1], i)
      BY <1>8, <1>9, <2>1, Zenon DEF IsRun
    <2> QED BY <1>3, <1>9, <2>2 DEF IsRun
  <1>11. Is(h)
    BY <1>10, Zenon
  <1> HIDE DEF h
  <1>12. h[n] \in T
    <2>1. h[0] = t /\ \A i \in 1 .. n : h[i] = G(h[i - 1], i)
      BY <1>3, <1>11
    <2>2. h[0] \in T /\ \A i \in 1 .. n : h[i - 1] \in T => h[i] \in T
      BY <1>5, <1>7, <2>1, Zenon
    <2> QED BY <1>3, <2>2, LoopStays, Zenon
  <1> QED BY <1>2, <1>6, <1>12, Zenon

(* Page Up and Page Down.                                                  *)
LEMMA ScrollKeeps ==
    ASSUME NEW t \in Terms
    PROVE  /\ terminal_scroll_up(t) \in Terms /\ terminal_scroll_up(t).mode = t.mode
           /\ terminal_scroll_down(t) \in Terms /\ terminal_scroll_down(t).mode = t.mode
  <1>1. CASE t.mode # "text"
    BY <1>1, Zenon DEF terminal_scroll_up, terminal_scroll_down, vga_is_graphics
  <1>2. CASE t.mode = "text"
    <2>1. t.scroll_offset \in Nat /\ t.total_lines \in Nat
      <3>1. t \in TermRecord
        BY DEF Terms
      <3> QED BY <3>1 DEF TermRecord
    <2>2. PICK up : up = IF t.scroll_offset + ScrollStep > MaxOffset(t) THEN MaxOffset(t)
                         ELSE t.scroll_offset + ScrollStep
      BY Zenon
    <2>3. PICK dn : dn = IF t.scroll_offset < ScrollStep THEN 0
                         ELSE t.scroll_offset - ScrollStep
      BY Zenon
    <2>4. MaxOffset(t) \in Nat
      BY <2>1, TerminalAssumption DEF MaxOffset
    <2>5. up \in Nat /\ dn \in Nat
      BY <2>1, <2>2, <2>3, <2>4, TerminalAssumption
    <2>6. terminal_scroll_up(t) = terminal_redraw([t EXCEPT !.scroll_offset = up])
      BY <1>2, <2>2 DEF terminal_scroll_up, vga_is_graphics
    <2>7. terminal_scroll_down(t) = terminal_redraw([t EXCEPT !.scroll_offset = dn])
      BY <1>2, <2>3 DEF terminal_scroll_down, vga_is_graphics
    <2>8. terminal_scroll_up(t) \in Terms /\ terminal_scroll_up(t).mode = "text"
      BY <1>2, <2>5, <2>6, RedrawKeeps, Zenon
    <2>9. terminal_scroll_down(t) \in Terms /\ terminal_scroll_down(t).mode = "text"
      BY <1>2, <2>5, <2>7, RedrawKeeps, ZenonT(60)
    <2> QED BY <1>2, <2>8, <2>9, Zenon
  <1> QED BY <1>1, <1>2

(* From t to u only the mode, video memory, saved text and history change, *)
(* and the text that belongs on the screen is there or kept.               *)
ModeSwitch(t, u, m, screen, saved, stale) ==
    /\ m \in {"text", "mode13h", "bga"} /\ screen \in Screenful
    /\ saved \in Screenful \cup {NotSaved} /\ stale \in BOOLEAN
    /\ ~stale => IF m = "text" THEN screen = Shown(t) ELSE saved = Shown(t)
    /\ u = [t EXCEPT !.mode = m, !.terminal_buffer = screen, !.saved = saved, !.stale = stale]

(* Such a switch of mode keeps the terminal sound.                         *)
LEMMA ModeKeeps ==
    ASSUME NEW t \in Terms, NEW u, NEW m, NEW screen, NEW saved, NEW stale,
           ModeSwitch(t, u, m, screen, saved, stale)
    PROVE  u \in Terms /\ u.mode = m
  <1>1. t \in TermRecord /\ t.column < TTY_WIDTH /\ RingHoldsLog(t)
    BY DEF Terms
  <1>2. /\ u \in TermRecord /\ u.mode = m /\ u.scroll_offset = t.scroll_offset
        /\ u.column = t.column /\ u.scrollback = t.scrollback
        /\ u.cursor_line = t.cursor_line /\ u.total_lines = t.total_lines
        /\ u.log = t.log /\ u.row = t.row
        /\ u.terminal_buffer = screen /\ u.saved = saved /\ u.stale = stale
    BY <1>1, ZenonT(60) DEF ModeSwitch, TermRecord
  <1>3. RingHoldsLog(u)
    BY <1>1, <1>2, Zenon DEF RingHoldsLog
  <1>4. Shown(u) = Shown(t)
    BY <1>1, <1>2, ShownIsView, Zenon
  <1>5. TextShown(u)
    BY <1>2, <1>4, Zenon DEF ModeSwitch, TextShown
  <1> QED BY <1>1, <1>2, <1>3, <1>5, Zenon DEF Terms

(* Both ways into graphics keep the text, or know that it is stale.        *)
LEMMA EnterKeeps ==
    ASSUME NEW t \in Terms, t.mode = "text"
    PROVE  /\ vga_enter_mode13h(t) \in Terms /\ vga_enter_mode13h(t).mode = "mode13h"
           /\ vga_enter_bga_mode(t) \in Terms /\ vga_enter_bga_mode(t).mode = "bga"
  <1>1. /\ t \in TermRecord /\ TextShown(t)
    BY DEF Terms
  <1>2. PICK screen, saved, stale :
           /\ screen = t.terminal_buffer /\ saved = t.saved /\ stale = t.stale
    BY Zenon
  <1>3. screen \in Screenful /\ saved \in Screenful \cup {NotSaved} /\ stale \in BOOLEAN
    BY <1>1, <1>2 DEF TermRecord
  <1>4. ~stale => screen = Shown(t)
    BY <1>1, <1>2, Zenon DEF TextShown
  <1>5. PICK u : u = vga_enter_mode13h(t)
    BY Zenon
  <1>6. u = [t EXCEPT !.mode = "mode13h", !.terminal_buffer = Pixels, !.saved = screen,
                      !.stale = stale]
    BY <1>1, <1>2, <1>5, Zenon DEF vga_enter_mode13h, vga_save_state, TermRecord
  <1>7. PICK v : v = vga_enter_bga_mode(t)
    BY Zenon
  <1>8. u \in Terms /\ u.mode = "mode13h"
    <2>1. ModeSwitch(t, u, "mode13h", Pixels, screen, stale)
      BY <1>3, <1>4, <1>6, Blanks, Zenon DEF ModeSwitch
    <2> QED BY <2>1, ModeKeeps, Zenon
  <1>9. CASE saved = NotSaved
    <2>1. v = [t EXCEPT !.mode = "bga", !.terminal_buffer = Pixels, !.saved = screen,
                        !.stale = stale]
      BY <1>1, <1>2, <1>7, <1>9, Zenon DEF vga_enter_bga_mode, vga_save_state, TermRecord
    <2>2. v \in Terms /\ v.mode = "bga"
      <3>1. ModeSwitch(t, v, "bga", Pixels, screen, stale)
        BY <1>3, <1>4, <2>1, Blanks, Zenon DEF ModeSwitch
      <3> QED BY <3>1, ModeKeeps, Zenon
    <2> QED BY <1>5, <1>7, <1>8, <2>2, Zenon
  <1>10. CASE saved # NotSaved
    <2>1. v = [t EXCEPT !.mode = "bga", !.terminal_buffer = Pixels, !.saved = saved,
                        !.stale = TRUE]
      BY <1>1, <1>2, <1>7, <1>10, Zenon DEF vga_enter_bga_mode, vga_save_state, TermRecord
    <2>2. v \in Terms /\ v.mode = "bga"
      <3>1. ModeSwitch(t, v, "bga", Pixels, saved, TRUE)
        BY <1>3, <2>1, Blanks, Zenon DEF ModeSwitch
      <3> QED BY <3>1, ModeKeeps, Zenon
    <2> QED BY <1>5, <1>7, <1>8, <2>2, Zenon
  <1> QED BY <1>9, <1>10

(* Both ways back to text bring back the text that was saved.              *)
LEMMA LeaveKeeps ==
    ASSUME NEW t \in Terms, t.mode # "text"
    PROVE  /\ vga_enter_text_mode(t) \in Terms /\ vga_enter_text_mode(t).mode = "text"
           /\ t.mode = "bga" =>
                 vga_exit_bga_mode(t) \in Terms /\ vga_exit_bga_mode(t).mode = "text"
  <1>1. t \in TermRecord /\ TextShown(t)
    BY DEF Terms
  <1>2. PICK saved, stale : saved = t.saved /\ stale = t.stale
    BY Zenon
  <1>3. PICK screen : screen = IF saved = NotSaved THEN t.terminal_buffer ELSE saved
    BY Zenon
  <1>4. screen \in Screenful /\ saved \in Screenful \cup {NotSaved} /\ stale \in BOOLEAN
    BY <1>1, <1>2, <1>3 DEF TermRecord
  <1>5. ~stale => screen = Shown(t)
    BY <1>1, <1>2, <1>3, ShownType, ScreenfulSaved, Zenon DEF TextShown
  <1>6. PICK u : u = [t EXCEPT !.mode = "text", !.terminal_buffer = screen, !.saved = saved,
                               !.stale = stale]
    BY Zenon
  <1>7. vga_enter_text_mode(t) = u
    BY <1>1, <1>2, <1>3, <1>6, Zenon DEF vga_enter_text_mode, vga_restore_state, TermRecord
  <1>8. t.mode = "bga" => vga_exit_bga_mode(t) = u
    BY <1>1, <1>2, <1>3, <1>6, Zenon DEF vga_exit_bga_mode, vga_restore_state, TermRecord
  <1>9. u \in Terms /\ u.mode = "text"
    <2>1. ModeSwitch(t, u, "text", screen, saved, stale)
      BY <1>4, <1>5, <1>6, Zenon DEF ModeSwitch
    <2> QED BY <2>1, ModeKeeps, Zenon
  <1> QED BY <1>7, <1>8, <1>9, Zenon

(* The terminal as it starts.                                              *)
LEMMA InitTerm == init_term \in Terms /\ init_term.mode = "text"
  <1>1. PICK t : t = init_term
    BY Zenon
  <1>2. /\ t.scrollback = [i \in Stored |-> BlankLine] /\ t.cursor_line = 0
        /\ t.total_lines = 1 /\ t.scroll_offset = 0 /\ t.row = 0 /\ t.column = 0
        /\ t.terminal_buffer = BlankScreen /\ t.mode = "text" /\ t.saved = NotSaved
        /\ t.log = <<BlankLine>> /\ t.stale = FALSE
    BY <1>1 DEF init_term, Stored
  <1>3. t \in TermRecord
    <2>1. /\ 0 \in Stored /\ 0 \in Row /\ 1 \in Nat /\ 0 \in Nat /\ <<BlankLine>> \in Seq(Line)
          /\ [i \in Stored |-> BlankLine] \in [Stored -> Line]
      BY Blanks, TerminalAssumption DEF Stored, Row
    <2> QED BY <1>1, <2>1, Blanks DEF TermRecord, init_term, Stored
  <1>4. RingHoldsLog(t)
    <2>1. ASSUME NEW k \in 0 .. Len(<<BlankLine>>) - 1
          PROVE  [i \in Stored |-> BlankLine][(0 - k) % SCROLLBACK_LINES]
                    = <<BlankLine>>[Len(<<BlankLine>>) - k]
      <3>1. k = 0 /\ 0 \in Stored
        BY TerminalAssumption DEF Stored
      <3>2. (0 - k) % SCROLLBACK_LINES \in Stored
        BY <3>1, ModBack
      <3> QED BY <3>1, <3>2
    <2>2. 1 \in 1 .. SCROLLBACK_LINES /\ Len(<<BlankLine>>) = 1
      BY TerminalAssumption
    <2> QED BY <1>2, <2>1, <2>2 DEF RingHoldsLog, RingHolds
  <1>5. Shown(t) = BlankScreen
    <2>1. ASSUME NEW y \in Row
          PROVE  (LET back == 0 - y + 0 IN
                  IF back \in 0 .. Len(<<BlankLine>>) - 1
                  THEN <<BlankLine>>[Len(<<BlankLine>>) - back] ELSE BlankLine) = BlankLine
      <3>1. y \in Nat
        BY TerminalAssumption DEF Row
      <3> QED BY <3>1
    <2> QED BY <1>2, <2>1 DEF Shown, BlankScreen
  <1>6. TextShown(t)
    BY <1>2, <1>5 DEF TextShown
  <1>7. t.column < TTY_WIDTH
    BY <1>2, TerminalAssumption
  <1> QED BY <1>1, <1>2, <1>3, <1>4, <1>6, <1>7 DEF Terms

-----------------------------------------------------------------------------
(* The ring.                                                               *)
(* Stepping an index past the end of the storage wraps it once.            *)
LEMMA ModSmall ==
    ASSUME NEW n \in Nat \ {0}, NEW x \in 0 .. n - 1
    PROVE  x % n = x
  OBVIOUS

(* An index past the storage comes back into it.                           *)
LEMMA ModOnce ==
    ASSUME NEW n \in Nat \ {0}, NEW x \in n .. 2 * n - 1
    PROVE  x % n = x - n
  OBVIOUS

(* An index up to twice the capacity, brought back into the storage.      *)
LEMMA WrapIndex ==
    ASSUME NEW x \in 0 .. 2 * Capacity - 1
    PROVE  /\ Wrap(x) = IF x < Capacity THEN x ELSE x - Capacity
           /\ Wrap(x) \in Index
  <1>1. CASE x < Capacity
    <2>1. x \in 0 .. Capacity - 1
      BY <1>1, CapacityAssumption
    <2>2. Wrap(x) = x
      BY <2>1, CapacityAssumption, ModSmall DEF Wrap
    <2> QED BY <1>1, <2>1, <2>2 DEF Index
  <1>2. CASE x >= Capacity
    <2>1. x \in Capacity .. 2 * Capacity - 1
      BY <1>2, CapacityAssumption
    <2>2. Wrap(x) = x - Capacity
      BY <2>1, CapacityAssumption, ModOnce DEF Wrap
    <2> QED BY <1>2, <2>1, <2>2, CapacityAssumption DEF Index
  <1> QED BY <1>1, <1>2, CapacityAssumption

(* The successor of an index, without the remainder.                       *)
LEMMA SuccIndex ==
    ASSUME NEW i \in Index
    PROVE  Succ(i) = IF i = Capacity - 1 THEN 0 ELSE i + 1
  BY CapacityAssumption, WrapIndex, i + 1 \in 0 .. 2 * Capacity - 1 DEF Succ, Index

(* The state of a ring keeps its type: both indexes stay inside the        *)
(* storage, whatever is pushed, popped or reset (kring.c).                 *)
THEOREM TypeCorrect == Spec => []TypeOK
  <1> USE CapacityAssumption DEF Index
  <1>1. kring_u8_init => TypeOK
    BY DEF kring_u8_init, TypeOK
  <1>2. TypeOK /\ [Next]_vars => TypeOK'
    <2> SUFFICES ASSUME TypeOK, [Next]_vars PROVE TypeOK'
      OBVIOUS
    <2>1. ASSUME NEW v \in Byte, kring_u8_push(v) PROVE TypeOK'
      BY <2>1, SuccIndex DEF kring_u8_push, TypeOK
    <2>2. CASE kring_u8_pop
      BY <2>2, SuccIndex DEF kring_u8_pop, TypeOK
    <2>3. CASE kring_u8_reset
      BY <2>3 DEF kring_u8_reset, TypeOK
    <2>4. CASE UNCHANGED vars
      BY <2>4 DEF vars, TypeOK
    <2> QED BY <2>1, <2>2, <2>3, <2>4 DEF Next
  <1> QED BY <1>1, <1>2, PTL DEF Spec

(* The unread bytes are a sequence whose length is kring_u8_used, which is *)
(* at most one less than the storage, zero exactly when the indexes meet,  *)
(* and the most it can be exactly when head is just behind tail.           *)
LEMMA UnreadType ==
    ASSUME NEW b \in [Index -> Byte], NEW h \in Index, NEW t \in Index
    PROVE  /\ Used(h, t) \in 0 .. Capacity - 1
           /\ Unread(b, h, t) \in Seq(Byte)
           /\ Len(Unread(b, h, t)) = Used(h, t)
           /\ Used(h, t) = 0 <=> h = t
           /\ Capacity >= 2 => (Used(h, t) = Capacity - 1 <=> Succ(h) = t)
  <1> USE CapacityAssumption DEF Index
  <1>1. Used(h, t) \in 0 .. Capacity - 1
    BY DEF Used
  <1>2. ASSUME NEW i \in 1 .. Used(h, t)
        PROVE  Wrap(t + i - 1) \in Index
    BY <1>1, WrapIndex, t + i - 1 \in 0 .. 2 * Capacity - 1
  <1>3. Unread(b, h, t) \in [1 .. Used(h, t) -> Byte]
    BY <1>2 DEF Unread
  <1>4. Unread(b, h, t) \in Seq(Byte) /\ Len(Unread(b, h, t)) = Used(h, t)
    BY <1>1, <1>3
  <1>5. Used(h, t) = 0 <=> h = t
    BY DEF Used
  <1>6. Capacity >= 2 => (Used(h, t) = Capacity - 1 <=> Succ(h) = t)
    BY SuccIndex DEF Used
  <1> QED BY <1>1, <1>4, <1>5, <1>6

(* Writing at head and stepping it appends to the unread bytes.            *)
LEMMA WriteAppends ==
    ASSUME NEW b \in [Index -> Byte], NEW h \in Index, NEW t \in Index,
           NEW v \in Byte, Capacity >= 2, Succ(h) # t
    PROVE  Unread([b EXCEPT ![h] = v], Succ(h), t) = Append(Unread(b, h, t), v)
  <1> DEFINE c == [b EXCEPT ![h] = v]
             old == Unread(b, h, t)
             new == Unread(c, Succ(h), t)
             n == Used(h, t)
  <1> USE CapacityAssumption
  <1>1. Succ(h) \in Index /\ c \in [Index -> Byte]
    BY SuccIndex DEF Index
  <1>2. n \in 0 .. Capacity - 1 /\ old \in Seq(Byte) /\ Len(old) = n
    BY UnreadType
  <1>3. Used(Succ(h), t) = n + 1
    BY SuccIndex DEF Index, Used
  <1>4. new \in Seq(Byte) /\ Len(new) = n + 1
    <2>1. ASSUME NEW d \in [Index -> Byte], NEW g \in Index
          PROVE  Unread(d, g, t) \in Seq(Byte) /\ Len(Unread(d, g, t)) = Used(g, t)
      BY UnreadType
    <2> HIDE DEF c
    <2>2. new \in Seq(Byte) /\ Len(new) = Used(Succ(h), t)
      BY <1>1, <2>1
    <2> QED BY <1>3, <2>2
  <1>5. Wrap(t + n) = h
    BY WrapIndex, <1>2, t + n \in 0 .. 2 * Capacity - 1 DEF Index, Used
  <1>6. new[n + 1] = v
    <2>1. n + 1 \in 1 .. n + 1 /\ t + (n + 1) - 1 = t + n
      BY <1>2 DEF Index
    <2>2. new[n + 1] = c[Wrap(t + (n + 1) - 1)]
      BY <1>3, <2>1 DEF Unread
    <2> QED BY <1>5, <2>1, <2>2
  <1>7. ASSUME NEW i \in 1 .. n
        PROVE  new[i] = old[i]
    <2>1. i \in 1 .. n + 1
      BY <1>2
    <2>2. new[i] = c[Wrap(t + i - 1)] /\ old[i] = b[Wrap(t + i - 1)]
      BY <1>3, <2>1 DEF Unread
    <2>3. Wrap(t + i - 1) \in Index /\ Wrap(t + i - 1) # h
      BY WrapIndex, <1>2, t + i - 1 \in 0 .. 2 * Capacity - 1 DEF Index, Used
    <2> QED BY <2>2, <2>3
  <1> HIDE DEF c, old, new, n
  <1>8. /\ Append(old, v) \in Seq(Byte)
        /\ Len(Append(old, v)) = n + 1
        /\ \A i \in 1 .. n : Append(old, v)[i] = old[i]
        /\ Append(old, v)[n + 1] = v
    BY <1>2
  <1>9. \A i \in 1 .. Len(new) : new[i] = Append(old, v)[i]
    BY <1>2, <1>4, <1>6, <1>7, <1>8
  <1>10. new = Append(old, v)
    BY <1>4, <1>8, <1>9
  <1> QED BY <1>10, Zenon DEF c, old, new

(* The byte at tail is the oldest, and stepping tail drops it.             *)
LEMMA ReadTakesHead ==
    ASSUME NEW b \in [Index -> Byte], NEW h \in Index, NEW t \in Index,
           Capacity >= 2, h # t
    PROVE  /\ Unread(b, h, t) # <<>>
           /\ Head(Unread(b, h, t)) = b[t]
           /\ Unread(b, h, Succ(t)) = Tail(Unread(b, h, t))
  <1> DEFINE old == Unread(b, h, t)
             new == Unread(b, h, Succ(t))
             n == Used(h, t)
  <1> USE CapacityAssumption
  <1>1. Succ(t) \in Index
    BY SuccIndex DEF Index
  <1>2. n \in 1 .. Capacity - 1 /\ old \in Seq(Byte) /\ Len(old) = n
    BY UnreadType
  <1>3. Used(h, Succ(t)) = n - 1
    BY SuccIndex DEF Index, Used
  <1>4. new \in Seq(Byte) /\ Len(new) = n - 1
    BY <1>1, <1>3, UnreadType
  <1>5. \A i \in 1 .. n : old[i] = b[Wrap(t + i - 1)]
    BY DEF Unread
  <1>6. old[1] = b[t]
    BY <1>2, <1>5, WrapIndex, t + 1 - 1 = t, t \in 0 .. 2 * Capacity - 1 DEF Index
  <1>7. ASSUME NEW i \in 1 .. n - 1
        PROVE  new[i] = old[i + 1]
    <2>1. i + 1 \in 1 .. n
      BY <1>2
    <2>2. old[i + 1] = b[Wrap(t + (i + 1) - 1)]
      BY <1>5, <2>1
    <2>3. new[i] = b[Wrap(Succ(t) + i - 1)]
      BY <1>3 DEF Unread
    <2>4. Wrap(Succ(t) + i - 1) = Wrap(t + (i + 1) - 1)
      <3>1. t + (i + 1) - 1 = t + i
        BY <1>2 DEF Index
      <3>2. CASE t = Capacity - 1
        <4>1. Succ(t) + i - 1 = i - 1
          BY <3>2, SuccIndex
        <4>2. i - 1 \in 0 .. 2 * Capacity - 1 /\ t + i \in 0 .. 2 * Capacity - 1
          BY <3>2, <1>2
        <4>3. Wrap(i - 1) = i - 1
          BY <4>2, <1>2, WrapIndex
        <4>4. Wrap(t + i) = i - 1
          BY <3>2, <4>2, WrapIndex
        <4> QED BY <3>1, <4>1, <4>3, <4>4
      <3>3. CASE t # Capacity - 1
        BY <3>3, <3>1, SuccIndex DEF Index
      <3> QED BY <3>2, <3>3
    <2> QED BY <2>2, <2>3, <2>4
  <1> HIDE DEF old, new, n
  <1>8. old # <<>>
    BY <1>2
  <1>9. /\ Tail(old) \in Seq(Byte)
        /\ Len(Tail(old)) = n - 1
        /\ \A i \in 1 .. n - 1 : Tail(old)[i] = old[i + 1]
    BY <1>2, <1>8
  <1>10. new = Tail(old)
    BY <1>4, <1>7, <1>9
  <1>11. Head(old) = old[1]
    BY <1>2, <1>8
  <1> QED BY <1>6, <1>8, <1>10, <1>11 DEF old, new

(* kring_u8_push appends to the unread bytes, or refuses when the ring     *)
(* already holds Capacity - 1 of them.                                     *)
LEMMA PushRefines ==
    ASSUME TypeOK, NEW v \in Byte, kring_u8_push(v)
    PROVE  Fifo!Put(v)
  <1>1. CASE Capacity < 2 \/ Succ(head) = tail
    <2>1. ret' = Refused /\ UNCHANGED <<buf, head, tail>>
      BY <1>1, CapacityAssumption DEF kring_u8_push
    <2>2. Len(Contents) >= Capacity - 1
      BY <1>1, UnreadType, CapacityAssumption DEF Contents, TypeOK
    <2>3. Contents' = Contents
      BY <2>1 DEF Contents
    <2> QED BY <2>1, <2>2, <2>3 DEF Fifo!Put, Fifo!Refused, Refused
  <1>2. CASE Capacity >= 2 /\ Succ(head) # tail
    <2>1. Len(Contents) < Capacity - 1
      BY <1>2, UnreadType, CapacityAssumption DEF Contents, TypeOK
    <2>2. /\ buf' = [buf EXCEPT ![head] = v]
          /\ head' = Succ(head)
          /\ tail' = tail
          /\ ret' = Ok(v)
      BY <1>2, CapacityAssumption DEF kring_u8_push
    <2>3. Unread([buf EXCEPT ![head] = v], Succ(head), tail) = Append(Contents, v)
      BY <1>2, WriteAppends, Zenon DEF Contents, TypeOK
    <2>4. Contents' = Append(Contents, v) /\ ret' = Ok(v)
      BY <2>2, <2>3, Zenon DEF Contents
    <2> QED BY <2>1, <2>4 DEF Fifo!Put, Fifo!Ok, Ok
  <1> QED BY <1>1, <1>2, CapacityAssumption

(* kring_u8_pop removes and returns the oldest unread byte, or refuses     *)
(* when there is none.                                                     *)
LEMMA PopRefines ==
    ASSUME TypeOK, kring_u8_pop
    PROVE  Fifo!Get
  <1>1. CASE Capacity < 2 \/ head = tail
    <2>1. ret' = Refused /\ UNCHANGED <<buf, head, tail>>
      BY <1>1, CapacityAssumption DEF kring_u8_pop
    <2>2. Contents = <<>>
      <3>1. Contents \in Seq(Byte) /\ Len(Contents) = 0
        BY <1>1, UnreadType, CapacityAssumption DEF Contents, TypeOK
      <3> QED BY <3>1
    <2>3. Contents' = Contents
      BY <2>1, Zenon DEF Contents
    <2> QED BY <2>1, <2>2, <2>3 DEF Fifo!Get, Fifo!Refused, Refused
  <1>2. CASE Capacity >= 2 /\ head # tail
    <2>1. /\ ret' = Ok(buf[tail])
          /\ tail' = Succ(tail)
          /\ buf' = buf /\ head' = head
      BY <1>2, CapacityAssumption DEF kring_u8_pop
    <2>2. /\ Contents # <<>>
          /\ Head(Contents) = buf[tail]
          /\ Unread(buf, head, Succ(tail)) = Tail(Contents)
      BY <1>2, ReadTakesHead DEF Contents, TypeOK
    <2>3. Contents' = Tail(Contents)
      BY <2>1, <2>2 DEF Contents
    <2> QED BY <2>1, <2>2, <2>3 DEF Fifo!Get, Fifo!Ok, Ok
  <1> QED BY <1>1, <1>2, CapacityAssumption

(* Every behaviour of the ring is a behaviour of the bounded FIFO: pushes, *)
(* pops and resets map to Put, Get and Clear of a queue of Capacity - 1.   *)
THEOREM RingImplementsFifo == Spec => ImplementsFifo
  <1>1. kring_u8_init => Fifo!Init
    BY CapacityAssumption
       DEF kring_u8_init, Fifo!Init, Contents, Unread, Used, Refused, Fifo!Refused
  <1>2. TypeOK /\ [Next]_vars => [Fifo!Next]_Fifo!vars
    <2> SUFFICES ASSUME TypeOK, [Next]_vars
                 PROVE  [Fifo!Next]_Fifo!vars
      OBVIOUS
    <2>1. ASSUME NEW v \in Byte, kring_u8_push(v) PROVE Fifo!Next
      BY <2>1, PushRefines DEF Fifo!Next
    <2>2. CASE kring_u8_pop
      BY <2>2, PopRefines DEF Fifo!Next
    <2>3. CASE kring_u8_reset
      BY <2>3, CapacityAssumption
         DEF kring_u8_reset, Fifo!Next, Fifo!Clear, Contents, Unread, Used
    <2>4. CASE UNCHANGED vars
      BY <2>4 DEF vars, Fifo!vars, Contents
    <2> QED BY <2>1, <2>2, <2>3, <2>4 DEF Next
  <1> QED BY <1>1, <1>2, TypeCorrect, PTL DEF Spec, Fifo!Spec, ImplementsFifo

(* kring_u8_empty and kring_u8_used agree in every reachable state.        *)
THEOREM UsedAgreesWithEmpty == Spec => []UsedAgrees
  <1>1. TypeOK => UsedAgrees
    BY CapacityAssumption, UnreadType
       DEF UsedAgrees, kring_u8_empty, kring_u8_used, Used, TypeOK, Index
  <1> QED BY <1>1, TypeCorrect, PTL
-----------------------------------------------------------------------------
(* The keyboard: the invariant says what the bytes still on their way from *)
(* it will make of the driver's flags.                                     *)
Shifts == {"lshift", "rshift"}
CtrlAgrees == ctrl_held <=> "ctrl" \in down
ShiftAgrees == shift_held => down \cap Shifts # {}

(* The one byte of key k that is still to come, with or without its prefix.*)
Pending(k, b) ==
    /\ b \in {Make(k), Break(k)}
    /\ \/ wire = <<Prefix, b>> /\ k.extended /\ ~kb_extended
       \/ wire = <<b>> /\ (k.extended <=> kb_extended)

(* When that byte is in, the driver's flags agree with the keys again.     *)
Settles(k, b) ==
    /\ (Modifier(k) /\ k.code = "ctrl") => (~b.up <=> "ctrl" \in down)
    /\ ~(Modifier(k) /\ k.code = "ctrl") => CtrlAgrees
    /\ (Modifier(k) /\ k.code \in Shifts) => (~b.up => k.code \in down)
    /\ ~(Modifier(k) /\ k.code \in Shifts) => ShiftAgrees

KeyInv ==
    /\ load \in Workloads
    /\ shift_held \in BOOLEAN /\ ctrl_held \in BOOLEAN /\ kb_extended \in BOOLEAN
    /\ \/ wire = <<>> /\ ~kb_extended /\ CtrlAgrees /\ ShiftAgrees
       \/ \E k \in load.keys : \E b \in {Make(k), Break(k)} :
             Pending(k, b) /\ Settles(k, b)

(* The keyboard is idle and nothing is held when the kernel starts.        *)
LEMMA KeyInvInit == ScreenInit => KeyInv
  BY Zenon DEF ScreenInit, KeyInv, CtrlAgrees, ShiftAgrees

(* A key that goes down or comes up while nothing is on its way.           *)
LEMMA KeyInvKeys ==
    ASSUME KeyInv, NEW k \in load.keys, Press(k) \/ Release(k)
    PROVE  KeyInv'
<1>1. wire = <<>> /\ ~kb_extended /\ CtrlAgrees /\ ShiftAgrees
  <2>1. wire = <<>>
    BY Zenon DEF Press, Release, Sends
  <2>2. \A b : wire # <<b>> /\ wire # <<Prefix, b>>
    BY <2>1
  <2>3. \A key, b : ~Pending(key, b)
    BY <2>2, Zenon DEF Pending
  <2> QED BY <2>1, <2>3, Zenon DEF KeyInv
<1>2. load' = load /\ UNCHANGED <<shift_held, ctrl_held, kb_extended>>
  BY DEF Press, Release, Spend, inputVars
<1>3. k.extended \in BOOLEAN /\ k.code # "E0"
  BY WorkloadsAssumption DEF KeyInv
<1>4. CASE Press(k)
  <2>1. Pending(k, Make(k))'
    <3>1. wire' = IF k.extended THEN <<Prefix, Make(k)>> ELSE <<Make(k)>>
      BY <1>4 DEF Press, Sends
    <3>2. CASE k.extended
      BY <1>1, <1>2, <3>1, <3>2, Zenon DEF Pending
    <3>3. CASE ~k.extended
      BY <1>1, <1>2, <3>1, <3>3, Zenon DEF Pending
    <3> QED BY <3>2, <3>3, Zenon
  <2>2. Settles(k, Make(k))'
    <3>1. Make(k).up = FALSE
      BY DEF Make
    <3>2. down' = IF Modifier(k) THEN down \cup {k.code} ELSE down
      BY <1>4, Zenon DEF Press
    <3>3. CASE ~Modifier(k)
      BY <1>1, <1>2, <3>1, <3>2, <3>3, Zenon DEF Settles, CtrlAgrees, ShiftAgrees
    <3>4. CASE Modifier(k)
      <4>1. down' = down \cup {k.code}
        BY <3>2, <3>4, Zenon
      <4>2. /\ k.code \in down' /\ (k.code # "ctrl" => CtrlAgrees')
            /\ (k.code \notin Shifts => ShiftAgrees')
        BY <1>1, <1>2, <4>1 DEF CtrlAgrees, ShiftAgrees
      <4> QED BY <3>1, <3>4, <4>2, Zenon DEF Settles
    <3> QED BY <3>3, <3>4, Zenon
  <2> QED BY <1>2, <2>1, <2>2 DEF KeyInv
<1>5. CASE Release(k)
  <2>1. Pending(k, Break(k))'
    <3>1. wire' = IF k.extended THEN <<Prefix, Break(k)>> ELSE <<Break(k)>>
      BY <1>5 DEF Release, Sends
    <3>2. CASE k.extended
      BY <1>1, <1>2, <3>1, <3>2, Zenon DEF Pending
    <3>3. CASE ~k.extended
      BY <1>1, <1>2, <3>1, <3>3, Zenon DEF Pending
    <3> QED BY <3>2, <3>3
  <2>2. Settles(k, Break(k))'
    <3>1. Break(k).up = TRUE
      BY DEF Break
    <3>2. down' = down \ (IF Modifier(k) THEN {k.code} ELSE {})
      BY <1>5, Zenon DEF Release
    <3>3. CASE ~Modifier(k)
      <4>1. down' = down
        BY <3>2, <3>3
      <4> QED BY <1>1, <1>2, <3>1, <3>3, <4>1, Zenon DEF Settles, CtrlAgrees, ShiftAgrees
    <3>4. CASE Modifier(k)
      <4>1. down' = down \ {k.code}
        BY <3>2, <3>4, Zenon
      <4>2. /\ k.code \notin down' /\ (k.code # "ctrl" => CtrlAgrees')
            /\ (k.code \notin Shifts => ShiftAgrees')
        BY <1>1, <1>2, <4>1 DEF CtrlAgrees, ShiftAgrees
      <4> QED BY <3>1, <3>4, <4>2, Zenon DEF Settles
    <3> QED BY <3>3, <3>4, Zenon
  <2> QED BY <1>2, <2>1, <2>2, Zenon DEF KeyInv
<1> QED BY <1>4, <1>5, Zenon

(* The interrupt takes in a prefix, the byte after one, or a byte alone.   *)
LEMMA KeyInvInterrupt ==
    ASSUME KeyInv, keyboard_irq_handler
    PROVE  KeyInv'
<1>1. PICK k \in load.keys : \E b \in {Make(k), Break(k)} : Pending(k, b) /\ Settles(k, b)
  BY DEF KeyInv, keyboard_irq_handler
<1>2. PICK b \in {Make(k), Break(k)} : Pending(k, b) /\ Settles(k, b)
  BY <1>1
<1>3. k.extended \in BOOLEAN /\ k.code # "E0"
  BY WorkloadsAssumption DEF KeyInv
<1>4. b # Prefix /\ b.code = k.code /\ b.up \in BOOLEAN
  <2>1. b.code = k.code
    BY DEF Make, Break
  <2>2. b.up = FALSE \/ b.up = TRUE
    <3>1. Make(k).up = FALSE
      BY DEF Make
    <3>2. Break(k).up = TRUE
      BY DEF Break
    <3> QED BY <3>1, <3>2
  <2>3. Prefix.code = "E0"
    BY DEF Prefix
  <2> QED BY <1>3, <2>1, <2>2, <2>3, Zenon
<1>5. load' = load /\ down' = down
  BY Zenon DEF keyboard_irq_handler, inputVars
<1>6. CASE wire = <<Prefix, b>> /\ k.extended /\ ~kb_extended
  <2>1. Head(wire) = Prefix /\ Tail(wire) = <<b>>
    BY <1>6, SMTT(30)
  <2>2. wire' = <<b>> /\ kb_extended' = TRUE /\ UNCHANGED <<shift_held, ctrl_held>>
    BY <1>6, <2>1, Zenon DEF keyboard_irq_handler
  <2>3. Pending(k, b)' /\ Settles(k, b)'
    BY <1>2, <1>5, <1>6, <2>2, Zenon DEF Pending, Settles, CtrlAgrees, ShiftAgrees
  <2> QED BY <1>5, <2>2, <2>3, Zenon DEF KeyInv
<1>7. CASE wire = <<b>> /\ (k.extended <=> kb_extended)
  <2>1. Head(wire) = b /\ Tail(wire) = <<>>
    BY <1>7
  <2>2. wire' = <<>>
    BY <2>1 DEF keyboard_irq_handler
  <2>3. CASE kb_extended
    <3>1. kb_extended' = FALSE /\ UNCHANGED <<shift_held, ctrl_held>>
      BY <1>4, <2>1, <2>3, Zenon DEF keyboard_irq_handler, ExtendedByte
    <3>2. CtrlAgrees /\ ShiftAgrees
      BY <1>2, <1>7, <2>3, Zenon DEF Settles, Modifier
    <3> QED BY <1>5, <2>2, <3>1, <3>2, Zenon DEF KeyInv, CtrlAgrees, ShiftAgrees
  <2>4. CASE ~kb_extended
    <3>1. keyboard_translate(b) /\ UNCHANGED kb_extended
      BY <1>4, <2>1, <2>4 DEF keyboard_irq_handler, PlainByte
    <3>2. CtrlAgrees'
      BY <1>2, <1>4, <1>5, <1>7, <2>4, <3>1, Zenon
         DEF keyboard_translate, Settles, Modifier, CtrlAgrees, Shifts
    <3>3. ShiftAgrees'
      BY <1>2, <1>4, <1>5, <1>7, <2>4, <3>1, Zenon
         DEF keyboard_translate, Settles, Modifier, ShiftAgrees, Shifts
    <3>4. shift_held' \in BOOLEAN /\ ctrl_held' \in BOOLEAN
      BY <1>4, <3>1, ZenonT(30) DEF keyboard_translate, KeyInv
    <3> QED BY <1>5, <2>2, <2>4, <3>1, <3>2, <3>3, <3>4, Zenon DEF KeyInv
  <2> QED BY <2>3, <2>4 DEF KeyInv
<1> QED BY <1>2, <1>6, <1>7, Zenon DEF Pending

(* What the other steps leave alone.                                       *)
LEMMA KeyInvUnchanged ==
    ASSUME KeyInv, UNCHANGED <<keyVars, load>>
    PROVE  KeyInv'
  <1>1. UNCHANGED <<wire, down, kb_extended, shift_held, ctrl_held, load>>
    BY Zenon DEF keyVars
  <1>2. CtrlAgrees' = CtrlAgrees /\ ShiftAgrees' = ShiftAgrees
    BY <1>1, Zenon DEF CtrlAgrees, ShiftAgrees
  <1>3. \A k, b : (Pending(k, b) <=> Pending(k, b)') /\ (Settles(k, b) <=> Settles(k, b)')
    BY <1>1, <1>2, Zenon DEF Pending, Settles
  <1> QED BY <1>1, <1>2, <1>3, Zenon DEF KeyInv

(* No system call and no end of a process touches the keyboard's state.    *)
LEMMA KeyInvNext == KeyInv /\ [ScreenNext]_screenVars => KeyInv'
<1> SUFFICES ASSUME KeyInv, [ScreenNext]_screenVars PROVE KeyInv'
  OBVIOUS
<1>1. CASE keyboard_irq_handler
  BY <1>1, KeyInvInterrupt
<1>2. ASSUME NEW k \in load.keys, Press(k) \/ Release(k) PROVE KeyInv'
  BY <1>2, KeyInvKeys
<1>3. ASSUME NEW p \in Proc, paging_create_address_space(p) PROVE KeyInv'
  BY <1>3, KeyInvUnchanged DEF paging_create_address_space, inputVars
<1>4. ASSUME NEW p \in Proc, sys_do_getkey(p) PROVE KeyInv'
  BY <1>4, KeyInvUnchanged, Zenon DEF sys_do_getkey, inputVars
<1>5. ASSUME NEW p \in Proc, NEW text \in load.texts, sys_do_write(p, text) PROVE KeyInv'
  BY <1>5, KeyInvUnchanged DEF sys_do_write, Spend
<1>6. ASSUME NEW p \in Proc, sys_do_gfx_init(p) PROVE KeyInv'
  BY <1>6, KeyInvUnchanged DEF sys_do_gfx_init, inputVars
<1>7. ASSUME NEW p \in Proc, sys_do_gfx_exit(p) PROVE KeyInv'
  BY <1>7, KeyInvUnchanged DEF sys_do_gfx_exit, inputVars
<1>8. ASSUME NEW p \in Proc, sys_do_exit(p) PROVE KeyInv'
  BY <1>8, KeyInvUnchanged DEF sys_do_exit, inputVars
<1>9. ASSUME NEW p \in Proc, task_terminate(p) PROVE KeyInv'
  BY <1>9, KeyInvUnchanged DEF task_terminate, inputVars
<1>10. CASE UNCHANGED screenVars
  BY <1>10, KeyInvUnchanged DEF screenVars, inputVars
<1> QED
  BY <1>1, <1>2, <1>3, <1>4, <1>5, <1>6, <1>7, <1>8, <1>9, <1>10, ZenonT(60) DEF ScreenNext

(* No modifier key is ever stuck in keyboard_translate's flags, whatever   *)
(* takes and gives back the keyboard between the bytes of a key.           *)
THEOREM ModifiersAreNotStuck == ScreenSpec => []ModifiersFollowKeys
<1>1. KeyInv => ModifiersFollowKeys
  BY DEF KeyInv, ModifiersFollowKeys, Pending, CtrlAgrees, ShiftAgrees, Shifts
<1> QED BY KeyInvInit, KeyInvNext, <1>1, PTL DEF ScreenSpec
-----------------------------------------------------------------------------
(* Who has the screen.                                                     *)
ScreenInv ==
    /\ tty \in Terms
    /\ user_gfx_active \in BOOLEAN /\ user_gfx_bga \in BOOLEAN
    /\ gfx_owner_pid \in Proc \cup {NoTask}
    /\ task \in [Proc -> {"new", "alive", "gone", "killed"}]
    /\ fb \in [Proc -> {"none", "own", "shared"}]
    /\ GraphicsStateAgrees

(* A byte that is not the prefix is of a key, and types what is stored.    *)
LEMMA KeyBytes ==
    ASSUME KeyInv, wire # <<>>, Head(wire) # Prefix
    PROVE  Translated(Head(wire)) \in Byte \cup {""}
  <1>1. PICK k \in load.keys : \E b \in {Make(k), Break(k)} : Pending(k, b)
    BY Zenon DEF KeyInv
  <1>2. PICK b \in {Make(k), Break(k)} : Pending(k, b)
    BY <1>1, Zenon
  <1>3. Head(wire) = b
    <2>1. CASE wire = <<Prefix, b>>
      BY <2>1
    <2>2. CASE wire = <<b>>
      BY <2>2
    <2> QED BY <1>2, <2>1, <2>2, Zenon DEF Pending
  <1>4. b.key = k
    BY DEF Make, Break
  <1>5. {k.plain, k.shifted, k.control} \subseteq Byte \cup {""}
    BY WorkloadsAssumption, Zenon DEF KeyInv
  <1> QED BY <1>3, <1>4, <1>5, Zenon DEF Translated

(* The terminal may change, but not its mode, nor who has the screen.      *)
LEMMA OutputKeeps ==
    ASSUME ScreenInv, tty' \in Terms, tty'.mode = tty.mode,
           UNCHANGED <<kb_enabled, gfxVars, taskVars>>
    PROVE  ScreenInv'
  BY Zenon DEF ScreenInv, GraphicsStateAgrees, vga_is_graphics, gfxVars, taskVars

(* What the keyboard interrupt does to the terminal.                       *)
LEMMA InterruptKeeps ==
    ASSUME KeyInv, ScreenInv, keyboard_irq_handler
    PROVE  ScreenInv'
  <1>1. wire # <<>> /\ UNCHANGED <<kb_enabled, gfxVars, taskVars>>
    BY Zenon DEF keyboard_irq_handler
  <1>2. tty \in Terms
    BY Zenon DEF ScreenInv
  <1>3. tty' \in Terms /\ tty'.mode = tty.mode
    <2>1. CASE tty' = tty
      BY <1>2, <2>1
    <2>2. CASE tty' = terminal_scroll_up(tty) \/ tty' = terminal_scroll_down(tty)
      BY <1>2, <2>2, ScrollKeeps, Zenon
    <2>3. CASE Head(wire) # Prefix /\ Translated(Head(wire)) # ""
               /\ tty' = console_handle_key(Translated(Head(wire)))
      <3>1. PICK c : c = Translated(Head(wire))
        BY Zenon
      <3>2. c \in Byte
        BY <1>1, <2>3, <3>1, KeyBytes, Zenon
      <3>3. <<c>> \in Seq(Byte) /\ <<"backspace", Blank, "backspace">> \in Seq(Byte)
        <4>1. "backspace" \in Byte /\ Blank \in Byte
          BY WorkloadsAssumption, Zenon
        <4> QED BY <3>2, <4>1
      <3>4. PICK text \in Seq(Byte) : tty' = terminal_write(tty, text)
        BY <2>3, <3>1, <3>3, Zenon DEF console_handle_key
      <3> QED BY <1>2, <3>4, WriteKeeps, Zenon
    <2>4. \/ tty' = tty
          \/ tty' = terminal_scroll_up(tty) \/ tty' = terminal_scroll_down(tty)
          \/ /\ Head(wire) # Prefix /\ Translated(Head(wire)) # ""
             /\ tty' = console_handle_key(Translated(Head(wire)))
      BY Zenon DEF keyboard_irq_handler, ExtendedByte, PlainByte
    <2> QED BY <2>1, <2>2, <2>3, <2>4, Zenon
  <1> QED BY <1>1, <1>3, OutputKeeps, Zenon

(* A program takes the screen, whichever the adapter is.                   *)
LEMMA EnterGraphicsKeeps ==
    ASSUME ScreenInv, NEW p \in Proc, task[p] = "alive", ~user_gfx_active,
           EnterGraphics(p), UNCHANGED task
    PROVE  ScreenInv'
  <1>1. tty \in Terms /\ tty.mode = "text"
    BY Zenon DEF ScreenInv, GraphicsStateAgrees, vga_is_graphics
  <1>2. /\ tty' \in Terms /\ tty'.mode # "text"
        /\ tty'.mode = "bga" <=> adapter = "bga"
    BY <1>1, EnterKeeps DEF EnterGraphics
  <1>3. /\ user_gfx_active' = TRUE /\ user_gfx_bga' = (adapter = "bga")
        /\ gfx_owner_pid' = p /\ kb_enabled' = TRUE
    BY Zenon DEF EnterGraphics, EnableKeys
  <1>4. fb' \in [Proc -> {"none", "own", "shared"}] /\ fb'[p] # "none"
    BY DEF EnterGraphics, ScreenInv
  <1>5. p # NoTask
    BY ProcAssumption
  <1>6. GraphicsStateAgrees'
    BY <1>2, <1>3, <1>4, <1>5, Zenon DEF GraphicsStateAgrees, vga_is_graphics
  <1> QED BY <1>2, <1>3, <1>4, <1>6, Zenon DEF ScreenInv

(* The owner gives the screen back, and may end.                           *)
LEMMA LeaveGraphicsKeeps ==
    ASSUME ScreenInv, user_gfx_active, LeaveGraphics,
           task' \in [Proc -> {"new", "alive", "gone", "killed"}],
           fb' \in [Proc -> {"none", "own", "shared"}]
    PROVE  ScreenInv'
  <1>1. tty \in Terms /\ tty.mode # "text" /\ (user_gfx_bga <=> tty.mode = "bga")
    BY Zenon DEF ScreenInv, GraphicsStateAgrees, vga_is_graphics
  <1>2. tty' \in Terms /\ tty'.mode = "text"
    BY <1>1, LeaveKeeps, Zenon DEF LeaveGraphics
  <1>3. user_gfx_active' = FALSE /\ user_gfx_bga' = FALSE /\ gfx_owner_pid' = NoTask
    BY Zenon DEF LeaveGraphics
  <1>4. GraphicsStateAgrees'
    BY <1>2, <1>3 DEF GraphicsStateAgrees, vga_is_graphics
  <1> QED BY <1>2, <1>3, <1>4, Zenon DEF ScreenInv

(* A process that does not have the screen starts or ends.                 *)
LEMMA OthersKeep ==
    ASSUME ScreenInv, NEW p \in Proc, ~IsOwner(p),
           NEW s \in {"alive", "gone"}, NEW f \in {"none", "shared"},
           task' = [task EXCEPT ![p] = s], fb' = [fb EXCEPT ![p] = f],
           UNCHANGED <<tty, kb_enabled, gfxVars>>
    PROVE  ScreenInv'
  <1>1. /\ task' \in [Proc -> {"new", "alive", "gone", "killed"}]
        /\ fb' \in [Proc -> {"none", "own", "shared"}]
        /\ \A q \in Proc : q # p => task'[q] = task[q] /\ fb'[q] = fb[q]
    BY DEF ScreenInv
  <1>2. user_gfx_active => gfx_owner_pid \in Proc /\ gfx_owner_pid # p
    BY Zenon DEF ScreenInv, GraphicsStateAgrees, IsOwner
  <1>3. GraphicsStateAgrees'
    BY <1>1, <1>2, Zenon DEF ScreenInv, GraphicsStateAgrees, vga_is_graphics, gfxVars
  <1> QED BY <1>1, <1>3, Zenon DEF ScreenInv, gfxVars

(* Every step keeps the screen and its owner in order.                     *)
LEMMA ScreenInvNext ==
    KeyInv /\ ScreenInv /\ [ScreenNext]_screenVars => ScreenInv'
  <1> SUFFICES ASSUME KeyInv, ScreenInv, [ScreenNext]_screenVars PROVE ScreenInv'
    OBVIOUS
  <1>1. CASE keyboard_irq_handler
    BY <1>1, InterruptKeeps, Zenon
  <1>2. ASSUME UNCHANGED <<tty, kb_enabled, gfxVars, taskVars>> PROVE ScreenInv'
    BY <1>2, Zenon DEF ScreenInv, GraphicsStateAgrees, vga_is_graphics, gfxVars, taskVars
  <1>3. ASSUME NEW k \in load.keys, Press(k) \/ Release(k) PROVE ScreenInv'
    BY <1>2, <1>3, Zenon DEF Press, Release
  <1>4. ASSUME NEW p \in Proc, paging_create_address_space(p) PROVE ScreenInv'
    <2>1. ~IsOwner(p)
      BY <1>4 DEF paging_create_address_space, ScreenInv, GraphicsStateAgrees, IsOwner
    <2>2. /\ task' = [task EXCEPT ![p] = "alive"]
          /\ \E f \in {"none", "shared"} : fb' = [fb EXCEPT ![p] = f]
          /\ UNCHANGED <<tty, kb_enabled, gfxVars>>
      BY <1>4, Zenon DEF paging_create_address_space
    <2> QED BY <2>1, <2>2, OthersKeep, Zenon
  <1>5. ASSUME NEW p \in Proc, sys_do_getkey(p) PROVE ScreenInv'
    BY <1>2, <1>5, Zenon DEF sys_do_getkey
  <1>6. ASSUME NEW p \in Proc, NEW text \in load.texts, sys_do_write(p, text) PROVE ScreenInv'
    <2>1. text \in Seq(Byte)
      BY WorkloadsAssumption, Zenon DEF KeyInv
    <2>2. tty' \in Terms /\ tty'.mode = tty.mode
      BY <1>6, <2>1, WriteKeeps, Zenon DEF sys_do_write, ScreenInv
    <2> QED BY <1>6, <2>2, OutputKeeps, Zenon DEF sys_do_write
  <1>7. ASSUME NEW p \in Proc, sys_do_gfx_init(p) PROVE ScreenInv'
    <2>1. CASE user_gfx_active
      BY <1>2, <1>7, <2>1, Zenon DEF sys_do_gfx_init, taskVars
    <2>2. CASE ~user_gfx_active
      BY <1>7, <2>2, EnterGraphicsKeeps, Zenon DEF sys_do_gfx_init
    <2> QED BY <2>1, <2>2
  <1>8. ASSUME NEW p \in Proc, sys_do_gfx_exit(p) PROVE ScreenInv'
    <2>1. CASE IsOwner(p)
      BY <1>8, <2>1, LeaveGraphicsKeeps, Zenon DEF sys_do_gfx_exit, taskVars, ScreenInv, IsOwner
    <2>2. CASE ~IsOwner(p)
      BY <1>2, <1>8, <2>2, Zenon DEF sys_do_gfx_exit
    <2> QED BY <2>1, <2>2
  <1>9. ASSUME NEW p \in Proc, sys_do_exit(p) PROVE ScreenInv'
    <2>1. CASE IsOwner(p)
      <3>1. /\ task' \in [Proc -> {"new", "alive", "gone", "killed"}]
            /\ fb' \in [Proc -> {"none", "own", "shared"}]
        BY <1>9 DEF sys_do_exit, Ends, ScreenInv
      <3> QED BY <1>9, <2>1, <3>1, LeaveGraphicsKeeps, Zenon DEF sys_do_exit, IsOwner
    <2>2. CASE ~IsOwner(p)
      BY <1>9, <2>2, OthersKeep, Zenon DEF sys_do_exit, Ends
    <2> QED BY <2>1, <2>2
  <1>10. ASSUME NEW p \in Proc, task_terminate(p) PROVE ScreenInv'
    <2>1. CASE IsOwner(p)
      <3>1. /\ task' \in [Proc -> {"new", "alive", "gone", "killed"}]
            /\ fb' \in [Proc -> {"none", "own", "shared"}] /\ task'[p] = "killed"
        BY <1>10, <2>1 DEF task_terminate, Ends, ScreenInv
      <3>2. UNCHANGED <<tty, kb_enabled, gfxVars>>
        BY <1>10, Zenon DEF task_terminate
      <3>3. GraphicsStateAgrees'
        BY <2>1, <3>1, <3>2, Zenon
           DEF ScreenInv, GraphicsStateAgrees, vga_is_graphics, gfxVars, IsOwner
      <3> QED BY <3>1, <3>2, <3>3, Zenon DEF ScreenInv, gfxVars
    <2>2. CASE ~IsOwner(p)
      BY <1>10, <2>2, OthersKeep, Zenon DEF task_terminate, Ends
    <2> QED BY <2>1, <2>2
  <1>11. CASE UNCHANGED screenVars
    BY <1>2, <1>11, Zenon DEF screenVars
  <1> QED
    BY <1>1, <1>3, <1>4, <1>5, <1>6, <1>7, <1>8, <1>9, <1>10, <1>11, ZenonT(60) DEF ScreenNext

(* The state in which the kernel starts.                                   *)
LEMMA ScreenInvInit == ScreenInit => ScreenInv
  BY InitTerm, Zenon DEF ScreenInit, ScreenInv, GraphicsStateAgrees, vga_is_graphics

(* In text mode the screen always shows the console's last lines, at the   *)
(* offset the user scrolled to, for every size of screen and scrollback    *)
(* and everything written, unless an old text was kept on entering the BGA *)
(* mode (legacytty.c and the mode switches of vga.c).                      *)
THEOREM TextIsShown == ScreenSpec => []ScreenShowsText
  <1>1. ScreenInv => ScreenShowsText
    BY Zenon DEF ScreenInv, Terms, TextShown, ScreenShowsText, vga_is_graphics
  <1> QED BY KeyInvInit, KeyInvNext, ScreenInvInit, ScreenInvNext, <1>1, PTL DEF ScreenSpec

(* The kernel's variables for who has the screen never disagree with the   *)
(* mode of the adapter and the state of the owner (sys_do_gfx_init,        *)
(* sys_do_gfx_exit, sys_do_exit, task_terminate).                          *)
THEOREM GraphicsHasOneOwner == ScreenSpec => []GraphicsStateAgrees
  <1>1. ScreenInv => GraphicsStateAgrees
    BY DEF ScreenInv
  <1> QED BY KeyInvInit, KeyInvNext, ScreenInvInit, ScreenInvNext, <1>1, PTL DEF ScreenSpec

(* All the handlers do with key_buffer are pushes of bytes, pops and       *)
(* resets, so what its readers see is a bounded FIFO (keyboard.c).         *)
THEOREM KeyBufferIsFifo == ScreenSpec => ImplementsFifo
  <1>1. ScreenInit => kring_u8_init
    BY Zenon DEF ScreenInit
  <1>2. KeyInv /\ [ScreenNext]_screenVars => [Next]_vars
    <2> SUFFICES ASSUME KeyInv, [ScreenNext]_screenVars, ~UNCHANGED vars PROVE Next
      BY Zenon
    <2>1. CASE keyboard_irq_handler
      <3>1. wire # <<>>
        BY <2>1, Zenon DEF keyboard_irq_handler
      <3>2. \/ Head(wire).code \in Arrows /\ kring_u8_push(Head(wire).code)
            \/ /\ Head(wire) # Prefix /\ Translated(Head(wire)) # ""
               /\ kring_u8_push(Translated(Head(wire)))
        BY <2>1, Zenon
           DEF keyboard_irq_handler, ExtendedByte, PlainByte, keyboard_buffer_push
      <3>3. Arrows \subseteq Byte
        BY WorkloadsAssumption, Zenon
      <3> QED BY <3>1, <3>2, <3>3, KeyBytes, Zenon DEF Next
    <2>2. CASE \E p \in Proc : sys_do_getkey(p)
      BY <2>2, Zenon DEF sys_do_getkey, Next
    <2>3. CASE \E p \in Proc : sys_do_gfx_init(p)
      BY <2>3, Zenon DEF sys_do_gfx_init, EnterGraphics, EnableKeys, Next
    <2> QED
      BY <2>1, <2>2, <2>3, Zenon
         DEF ScreenNext, Press, Release, paging_create_address_space, sys_do_write,
             sys_do_gfx_exit, sys_do_exit, task_terminate, LeaveGraphics, DisableKeys,
             screenVars
  <1>3. ScreenSpec => Spec
    BY <1>1, <1>2, KeyInvInit, KeyInvNext, PTL DEF ScreenSpec, Spec
  <1> QED BY <1>3, RingImplementsFifo, PTL
=============================================================================

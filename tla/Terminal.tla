------------------------------ MODULE Terminal ------------------------------
(***************************************************************************)
(* arch/i686/legacytty.c, the text console with its circular scrollback,   *)
(* and the mode switches of arch/i686/vga.c that take its video memory     *)
(* away and bring it back.  A terminal is a record; every operation maps   *)
(* one to the next, for the handlers of Screen to use.                     *)
(***************************************************************************)
EXTENDS Integers, Sequences

CONSTANTS TTY_WIDTH, TTY_HEIGHT,
          SCROLLBACK_LINES,
          ScrollStep,              \* lines one Page Up scrolls
          TabStop

ASSUME TerminalAssumption ==
    /\ TTY_WIDTH \in Nat \ {0} /\ TTY_HEIGHT \in Nat \ {0}
    /\ SCROLLBACK_LINES \in Nat /\ SCROLLBACK_LINES >= TTY_HEIGHT
    /\ ScrollStep \in Nat \ {0} /\ TabStop \in Nat \ {0}

Blank == " "
Column == 0 .. TTY_WIDTH - 1
Row == 0 .. TTY_HEIGHT - 1
BlankLine == [x \in Column |-> Blank]
BlankScreen == [y \in Row |-> BlankLine]

(* Video memory while a graphics mode uses it for pixels.                  *)
Pixels == [y \in Row |-> [x \in Column |-> "pixel"]]

(* No text mode state has been saved yet: state_saved is 0.                *)
NotSaved == <<>>

(* terminal_buffer is video memory.  log and stale are history: the last   *)
(* lines written, oldest first, and whether video memory holds, or will    *)
(* get back, a text that was saved before an earlier session.              *)
init_term ==
    [scrollback      |-> [i \in 0 .. SCROLLBACK_LINES - 1 |-> BlankLine],
     cursor_line     |-> 0,
     total_lines     |-> 1,
     scroll_offset   |-> 0,
     row             |-> 0,
     column          |-> 0,
     terminal_buffer |-> BlankScreen,
     mode            |-> "text",
     saved           |-> NotSaved,
     log             |-> <<BlankLine>>,
     stale           |-> FALSE]

vga_is_graphics(t) == t.mode # "text"

scrollback_index_for_row(t, row) ==
    (t.cursor_line - (t.row - row)) % SCROLLBACK_LINES

RowContents(t, y) ==
    LET lines_back == t.row - y + t.scroll_offset IN
    IF lines_back < 0 \/ lines_back >= t.total_lines THEN BlankLine
    ELSE t.scrollback[(t.cursor_line - lines_back) % SCROLLBACK_LINES]

terminal_redraw(t) ==
    IF vga_is_graphics(t) THEN t
    ELSE [t EXCEPT !.terminal_buffer = [y \in Row |-> RowContents(t, y)],
                   !.stale = FALSE]

(* Called by term_putchar only, so the view is live and the mode is text.  *)
terminal_putentryat(t, c, x, y) ==
    [t EXCEPT !.scrollback[scrollback_index_for_row(t, y)][x] = c,
              !.terminal_buffer[y][x] = c,
              !.log[Len(t.log)][x] = c]

Scrolled(screen) ==
    [y \in Row |-> IF y + 1 \in Row THEN screen[y + 1] ELSE BlankLine]

LastLines(log) ==
    IF Len(log) > SCROLLBACK_LINES THEN Tail(log) ELSE log

terminal_newline(t) ==
    LET line == (t.cursor_line + 1) % SCROLLBACK_LINES
        next == [t EXCEPT !.column = 0,
                          !.cursor_line = line,
                          !.scrollback[line] = BlankLine,
                          !.total_lines = IF @ < SCROLLBACK_LINES THEN @ + 1 ELSE @,
                          !.log = LastLines(Append(@, BlankLine))]
    IN  IF t.row + 1 < TTY_HEIGHT THEN [next EXCEPT !.row = @ + 1]
        ELSE [next EXCEPT !.terminal_buffer = Scrolled(@)]

PutGlyph(t, c) ==
    LET put == [terminal_putentryat(t, c, t.column, t.row) EXCEPT !.column = @ + 1]
    IN  IF put.column >= TTY_WIDTH THEN terminal_newline(put) ELSE put

(* New output snaps the view back to the bottom.                           *)
Live(t) ==
    IF t.scroll_offset = 0 THEN t
    ELSE terminal_redraw([t EXCEPT !.scroll_offset = 0])

(* A tab: so many blanks.                                                  *)
PutBlanks(t, spaces) ==
    LET after[i \in 0 .. spaces] == IF i = 0 THEN t ELSE PutGlyph(after[i - 1], Blank)
    IN  after[spaces]

PutChar(t, c) ==
    CASE c = "newline" -> terminal_newline(t)
      [] c = "backspace" -> [t EXCEPT !.column = IF @ > 0 THEN @ - 1 ELSE 0]
      [] c = "tab" -> PutBlanks(t, TabStop - (t.column % TabStop))
      [] OTHER -> PutGlyph(t, c)

(* Mutant: output goes out below a view that stays scrolled up.            *)
term_putchar_NoSnap(t, c) == IF vga_is_graphics(t) THEN t ELSE PutChar(t, c)

term_putchar(t, c) ==
    IF vga_is_graphics(t) THEN t ELSE PutChar(Live(t), c)

terminal_write(t, text) ==
    LET after[i \in 0 .. Len(text)] ==
            IF i = 0 THEN t ELSE term_putchar(after[i - 1], text[i])
    IN  after[Len(text)]

MaxOffset(t) ==
    IF t.total_lines < TTY_HEIGHT THEN 0 ELSE t.total_lines - TTY_HEIGHT

terminal_scroll_up(t) ==
    IF vga_is_graphics(t) THEN t
    ELSE terminal_redraw([t EXCEPT !.scroll_offset =
                            IF @ + ScrollStep > MaxOffset(t) THEN MaxOffset(t)
                            ELSE @ + ScrollStep])

terminal_scroll_down(t) ==
    IF vga_is_graphics(t) THEN t
    ELSE terminal_redraw([t EXCEPT !.scroll_offset =
                            IF @ < ScrollStep THEN 0 ELSE @ - ScrollStep])
-----------------------------------------------------------------------------
vga_save_state(t) == [t EXCEPT !.saved = t.terminal_buffer]

vga_restore_state(t) ==
    IF t.saved = NotSaved THEN t ELSE [t EXCEPT !.terminal_buffer = t.saved]

vga_enter_mode13h(t) ==
    [vga_save_state(t) EXCEPT !.mode = "mode13h", !.terminal_buffer = Pixels]

vga_enter_text_mode(t) == [vga_restore_state(t) EXCEPT !.mode = "text"]

(* The text is saved only if none has been saved before.                   *)
vga_enter_bga_mode(t) ==
    LET kept == IF t.saved = NotSaved THEN vga_save_state(t)
                ELSE [t EXCEPT !.stale = TRUE]
    IN  [kept EXCEPT !.mode = "bga", !.terminal_buffer = Pixels]

vga_exit_bga_mode(t) ==
    IF t.mode # "bga" THEN t ELSE vga_restore_state([t EXCEPT !.mode = "text"])
-----------------------------------------------------------------------------
(* The lines of the log that belong on the screen, at the present scroll   *)
(* offset: what a reader of the console should see.                        *)
Shown(t) ==
    [y \in Row |->
        LET back == t.row - y + t.scroll_offset IN
        IF back \in 0 .. Len(t.log) - 1 THEN t.log[Len(t.log) - back]
        ELSE BlankLine]
=============================================================================

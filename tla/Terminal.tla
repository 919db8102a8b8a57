------------------------------ MODULE Terminal ------------------------------
(***************************************************************************)
(* terminal_putchar() and terminal_scroll() of src/kernel/terminal.c.      *)
(* Whoever prints calls them without a lock: a task inside a monitor, the  *)
(* shell, the echo of IRQ1.  The build does not optimise, so an update of  *)
(* terminal_row or terminal_column is a load and a store, and another call *)
(* may come between any two of them: nested, when an interrupt prints, or  *)
(* interleaved, when the timer switches tasks.                             *)
(*                                                                         *)
(* The frame buffer is the set of the glyphs on it, each at its upper left *)
(* pixel.  A glyph is drawn in one step: that two printers may tear one    *)
(* another's glyphs is left out.                                           *)
(***************************************************************************)
EXTENDS Integers, Sequences, SequencesExt

CONSTANTS
  Printers,
  Letters,                  \* the characters that are not '\n'
  WIDTH, HEIGHT,            \* of the VBE mode, in pixels
  MaxChars                  \* bound: the characters printed in all

CELL       == 8
ROW_HEIGHT == 10

ASSUME TerminalAssumption ==
  /\ WIDTH \in Nat /\ WIDTH > 2 * CELL
  /\ HEIGHT \in Nat /\ HEIGHT > 2 * ROW_HEIGHT /\ HEIGHT % ROW_HEIGHT >= CELL
  /\ MaxChars \in Nat

VARIABLES
  terminal_row, terminal_column,
  screen,                   \* the glyphs in the frame buffer
  pc,                       \* the statement a printer is about to execute
  ch, reg,                  \* its argument c, and the register of an update
  stack,                    \* the calls in progress, the latest first
  text,                     \* what has been printed, as long as calls never met
  met,                      \* two calls have been in progress at once
  raced,                    \* and not the latest one went on first
  printed                   \* how many characters

cursor == <<terminal_row, terminal_column>>
history == <<text, met, printed>>
vars    == <<cursor, screen, pc, ch, reg, stack, raced, history>>

NewLine == "\n"
Char    == Letters \cup {NewLine}

Points == {"idle", "glyph", "load_column", "store_column", "check_column",
           "wrap", "load_row", "store_row", "check_row", "copy", "clear",
           "load_scrolled", "store_scrolled"}

TypeOK ==
  /\ terminal_row \in Int /\ terminal_column \in Nat
  /\ pc \in [Printers -> Points]
  /\ ch \in [Printers -> Char] /\ reg \in [Printers -> Nat]
  /\ stack \in Seq(Printers) /\ text \in Seq(Char)
  /\ met \in BOOLEAN /\ raced \in BOOLEAN /\ printed \in 0 .. MaxChars

(* terminal_initialize() *)
Init ==
  /\ terminal_row = 0 /\ terminal_column = 0
  /\ screen = {}
  /\ pc = [p \in Printers |-> "idle"]
  /\ ch = [p \in Printers |-> NewLine]
  /\ reg = [p \in Printers |-> 0]
  /\ stack = <<>> /\ text = <<>>
  /\ met = FALSE /\ raced = FALSE /\ printed = 0

Goto(p, from, to) ==
  /\ pc[p] = from
  /\ pc' = [pc EXCEPT ![p] = to]
  /\ stack' = IF to = "idle" THEN Remove(stack, p) ELSE stack
  /\ raced' = (raced \/ Head(stack) # p)

-----------------------------------------------------------------------------
(* terminal_putchar(c) up to its first access to the cursor: '\n' starts with
   the store to the column.  Nothing is said of what is printed after a race. *)
Call(p, c) ==
  /\ printed < MaxChars /\ ~raced
  /\ pc[p] = "idle"
  /\ pc' = [pc EXCEPT ![p] = IF c = NewLine THEN "wrap" ELSE "glyph"]
  /\ ch' = [ch EXCEPT ![p] = c]
  /\ stack' = <<p>> \o stack
  /\ printed' = printed + 1
  /\ met' = (met \/ stack # <<>>)
  /\ text' = IF met' THEN <<>> ELSE Append(text, c)
  /\ UNCHANGED <<cursor, screen, reg, raced>>

(* The 64 put_pixel(). *)
Glyph(p) ==
  /\ Goto(p, "glyph", "load_column")
  /\ screen' = screen \cup {[c |-> ch[p], x |-> terminal_column, y |-> terminal_row]}
  /\ UNCHANGED <<cursor, ch, reg, history>>

(* An update `variable += n`: the load, then the store of the sum. *)
Load(p, from, to, value) ==
  /\ Goto(p, from, to)
  /\ reg' = [reg EXCEPT ![p] = value]
  /\ UNCHANGED <<cursor, screen, ch, history>>

Store(p, from, to, row, column) ==
  /\ Goto(p, from, to)
  /\ terminal_row' = row
  /\ terminal_column' = column
  /\ reg' = [reg EXCEPT ![p] = 0]
  /\ UNCHANGED <<screen, ch, history>>

Test(p, from, to) ==
  /\ Goto(p, from, to)
  /\ UNCHANGED <<cursor, screen, ch, reg, history>>

\* Mutant: a line is one character too long.
LastColumnAt(width) == width

LastColumn(width) == width - CELL

\* Mutant: the screen scrolls with every new line.
ScrollFrom(height) == 0

LastRow(height) == height - ROW_HEIGHT

Column(p) ==
  \/ Load(p, "load_column", "store_column", terminal_column)
  \/ Store(p, "store_column", "check_column", terminal_row, reg[p] + CELL)
  \/ Test(p, "check_column",
       IF terminal_column >= LastColumn(WIDTH) THEN "wrap" ELSE "idle")

(* terminal_column = 0; terminal_row += 10; if (...) terminal_scroll(). *)
Row(p) ==
  \/ Store(p, "wrap", "load_row", terminal_row, 0)
  \/ Load(p, "load_row", "store_row", terminal_row)
  \/ Store(p, "store_row", "check_row", reg[p] + ROW_HEIGHT, terminal_column)
  \/ Test(p, "check_row",
       IF terminal_row >= LastRow(HEIGHT) THEN "copy" ELSE "idle")

(* The memcpy of terminal_scroll: everything but the first row moves up. *)
Copy(p) ==
  /\ Goto(p, "copy", "clear")
  /\ screen' = {[g EXCEPT !.y = @ - ROW_HEIGHT] : g \in {h \in screen : h.y >= ROW_HEIGHT}}
               \cup {g \in screen : g.y + CELL > HEIGHT - ROW_HEIGHT}
  /\ UNCHANGED <<cursor, ch, reg, history>>

(* Its loop of memset over the last 10 lines of pixels. *)
Clear(p) ==
  /\ Goto(p, "clear", "load_scrolled")
  /\ screen' = {g \in screen : g.y + CELL <= HEIGHT - ROW_HEIGHT}
  /\ UNCHANGED <<cursor, ch, reg, history>>

Scrolled(p) ==
  \/ Load(p, "load_scrolled", "store_scrolled", terminal_row)
  \/ Store(p, "store_scrolled", "idle", reg[p] - ROW_HEIGHT, terminal_column)

Next ==
  \E p \in Printers :
    \/ \E c \in Char : Call(p, c)
    \/ Glyph(p) \/ Column(p) \/ Row(p) \/ Copy(p) \/ Clear(p) \/ Scrolled(p)

Spec == Init /\ [][Next]_vars

-----------------------------------------------------------------------------
(* How text is laid out: lines of Columns characters, a full line and '\n' each
   followed by a new one, of which the screen shows the last Rows. *)
Columns == (WIDTH - CELL + CELL - 1) \div CELL
Rows    == (HEIGHT - ROW_HEIGHT + ROW_HEIGHT - 1) \div ROW_HEIGHT

AddChar(c, lines) ==
  LET last == Len(lines)
      line == IF c = NewLine THEN lines[last] ELSE Append(lines[last], c)
      full == [lines EXCEPT ![last] = line]
  IN  IF c = NewLine \/ Len(line) = Columns THEN Append(full, <<>>) ELSE full

Lines   == FoldRight(AddChar, Reverse(text), << <<>> >>)
Visible == IF Len(Lines) <= Rows THEN Lines
           ELSE SubSeq(Lines, Len(Lines) - Rows + 1, Len(Lines))

(* As long as no two calls of terminal_putchar met, the screen shows the last
   lines of all that was printed, every character in its place, none lost by
   the wrap or the scroll and none left over from before; and the cursor is
   where the next character belongs. *)
ShowsTheText ==
  ~met /\ stack = <<>> =>
    /\ screen = UNION {{[c |-> Visible[r][k], x |-> (k - 1) * CELL, y |-> (r - 1) * ROW_HEIGHT]
                          : k \in DOMAIN Visible[r]} : r \in DOMAIN Visible}
    /\ terminal_row = (Len(Visible) - 1) * ROW_HEIGHT
    /\ terminal_column = Len(Visible[Len(Visible)]) * CELL

(* A call that runs to its end inside another one, as the echo of a key does
   unless the timer interrupts it, may displace text but never draws outside
   the frame buffer, wherever in the other call it comes. *)
NestedStaysOnScreen ==
  /\ TypeOK
  /\ ~raced => \A g \in screen :
    g.x \in 0 .. WIDTH - CELL /\ g.y \in 0 .. HEIGHT - CELL
=============================================================================

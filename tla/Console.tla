------------------------------ MODULE Console ------------------------------
(***************************************************************************)
(* Keys and text: the keyboard ring (kernel/src/kbd.rs) with the line      *)
(* reader of shell.rs, the text of the window program (tty_* of desk.rs),  *)
(* the terminal screen (term.rs), the editor (editor.rs) and the input     *)
(* method (ime.rs).  They share nothing, so each has an Init and a Next of *)
(* its own.  A call runs with interrupts off and is one step; the kernel's *)
(* own loops poll the keyboard with interrupts on.                         *)
(***************************************************************************)
EXTENDS Integers, Sequences, FiniteSets, SequencesExt

CONSTANTS BUF_SIZE,   \* scan codes in the ring (256)
          LINE_MAX,   \* characters the shell accepts in a line
          TTY_ROWS, TTY_COL,   \* the window's text (24 x 40)
          TW, TH,     \* the terminal's screen (80 x 25)
          ED_CAP,     \* the editor's buffer (1024)
          IM_MAX,     \* letters the input method takes (15)
          TABLE       \* what it knows: letters |-> candidates

ASSUME ConsoleAssumption ==
  /\ BUF_SIZE \in Nat \ {0, 1} /\ {LINE_MAX, ED_CAP, IM_MAX} \subseteq Nat
  /\ {TTY_ROWS, TTY_COL, TW, TH} \subseteq Nat \ {0}

VARIABLES
  ring,       \* KBD_BUF, KBD_HEAD, KBD_TAIL
  poll,       \* try_poll of the kernel: idle, or the head and code it has read
  line,       \* read_line's buffer
  typed,      \* history: codes the ring accepted and nobody has taken
  twoReaders, \* history: a program polled inside the kernel's own poll
  TTY_LINES, TTY_ROW, TTY_ROW_N, TTY_COL_POS,
  said,       \* history: the last lines the program wrote, the present one last
  SCR, SCR_ROW, SCR_COL,
  paper,      \* history: the lines fed to the terminal, as it should break them
  lapped,    \* history: a line was broken at the bottom of the screen
  painted,    \* history: a program wrote into the screen directly
  text, insert, row, col,   \* the editor's BUF[..LEN], INSERT, ROW, COL
  letters,    \* IM_BUF[..IM_LEN]
  HANZI_OUT

keyVars  == <<ring, poll, line, typed, twoReaders>>
ttyVars  == <<TTY_LINES, TTY_ROW, TTY_ROW_N, TTY_COL_POS, said>>
termVars == <<SCR, SCR_ROW, SCR_COL, paper, lapped, painted>>
edVars   == <<text, insert, row, col>>
imeVars  == <<letters, HANZI_OUT>>
consoleVars == <<keyVars, ttyVars, termVars, edVars, imeVars>>

LesserOf(a, b) == IF a < b THEN a ELSE b
LeastIn(S) == CHOOSE x \in S : \A y \in S : x <= y

-----------------------------------------------------------------------------
(* The keyboard.                                                           *)

Codes == {"letter", "enter", "backspace", "released"}
NoKey == "none"

\* decode: every release, and every key outside the table, is no character.
Decode(sc) == IF sc = "released" THEN NoKey ELSE sc

RingFull == (ring.tail + 1) % BUF_SIZE = ring.head

\* fujo_kbd_irq: a full ring drops the code.
KbdIrqUnchecked(sc) ==
  /\ ring' = [ring EXCEPT !.buf[ring.tail] = sc, !.tail = (@ + 1) % BUF_SIZE]
  /\ typed' = IF RingFull THEN typed ELSE Append(typed, sc)
  /\ UNCHANGED <<poll, line, twoReaders>>

KbdIrq(sc) ==
  /\ IF RingFull THEN UNCHANGED <<ring, typed>>
     ELSE /\ ring' = [ring EXCEPT !.buf[ring.tail] = sc,
                                  !.tail = (@ + 1) % BUF_SIZE]
          /\ typed' = Append(typed, sc)
  /\ UNCHANGED <<poll, line, twoReaders>>

\* try_poll, from the kernel: read head and tail, read the code, move the head.
Idle == [at |-> "idle"]

PollHead ==
  /\ poll = Idle /\ ring.head /= ring.tail
  /\ poll' = [at |-> "head", h |-> ring.head]
  /\ UNCHANGED <<ring, line, typed, twoReaders>>

PollCode ==
  /\ poll.at = "head"
  /\ poll' = [at |-> "code", h |-> poll.h, sc |-> ring.buf[poll.h]]
  /\ UNCHANGED <<ring, line, typed, twoReaders>>

\* read_line: a line ends with Enter; Backspace takes a character off it, and
\* what does not fit is dropped.
LineAfter(c) ==
  CASE c = "enter" -> <<>>
    [] c = "backspace" -> IF line = <<>> THEN line ELSE SubSeq(line, 1, Len(line) - 1)
    [] c = NoKey -> line
    [] OTHER -> IF Len(line) < LINE_MAX THEN Append(line, c) ELSE line

TakenFrom(q) == IF q = <<>> THEN q ELSE Tail(q)

PollTake ==
  /\ poll.at = "code"
  /\ ring' = [ring EXCEPT !.head = (poll.h + 1) % BUF_SIZE]
  /\ typed' = TakenFrom(typed)
  /\ line' = LineAfter(Decode(poll.sc))
  /\ poll' = Idle
  /\ UNCHANGED twoReaders

\* 0x5103: the same poll from a program, in one step.
ProgramPoll ==
  /\ ring.head /= ring.tail
  /\ ring' = [ring EXCEPT !.head = (@ + 1) % BUF_SIZE]
  /\ typed' = TakenFrom(typed)
  /\ twoReaders' = (twoReaders \/ poll /= Idle)
  /\ UNCHANGED <<poll, line>>

KeyInit ==
  /\ ring = [buf |-> [i \in 0 .. BUF_SIZE - 1 |-> "letter"], head |-> 0, tail |-> 0]
  /\ poll = Idle /\ line = <<>> /\ typed = <<>> /\ twoReaders = FALSE

KeyNext == \/ \E sc \in Codes : KbdIrq(sc)
           \/ PollHead \/ PollCode \/ PollTake
           \/ ProgramPoll

-----------------------------------------------------------------------------
(* The text of the window program.                                         *)

TtyIndex == 0 .. TTY_ROWS - 1
TtyChars == {"x", "tab", "nul"}
EmptyLine == [i \in 0 .. TTY_COL - 1 |-> "nul"]

\* tty_put_char('\n'): only the next row is cleared.
TtyNewlineDirty ==
  /\ TTY_COL_POS' = 0
  /\ TTY_ROW' = (TTY_ROW + 1) % TTY_ROWS
  /\ TTY_ROW_N' = LesserOf(TTY_ROW_N + 1, TTY_ROWS)
  /\ said' = IF Len(said) = TTY_ROWS THEN Append(Tail(said), <<>>)
             ELSE Append(said, <<>>)
  /\ UNCHANGED TTY_LINES

TtyNewline ==
  /\ TTY_COL_POS' = 0
  /\ TTY_ROW' = (TTY_ROW + 1) % TTY_ROWS
  /\ TTY_ROW_N' = LesserOf(TTY_ROW_N + 1, TTY_ROWS)
  /\ TTY_LINES' = [TTY_LINES EXCEPT ![TTY_ROW'] = EmptyLine]
  /\ said' = IF Len(said) = TTY_ROWS THEN Append(Tail(said), <<>>)
             ELSE Append(said, <<>>)

\* tty_put_char: the last column stays empty.
TtyPut(c) ==
  /\ IF TTY_COL_POS < TTY_COL - 1
     THEN /\ TTY_LINES' = [TTY_LINES EXCEPT ![TTY_ROW][TTY_COL_POS] = c]
          /\ TTY_COL_POS' = TTY_COL_POS + 1
          /\ said' = [said EXCEPT ![Len(said)] = Append(@, c)]
     ELSE UNCHANGED <<TTY_LINES, TTY_COL_POS, said>>
  /\ UNCHANGED <<TTY_ROW, TTY_ROW_N>>

\* kill_program, before the next program starts: the text itself stays.
TtyRestart ==
  /\ TTY_ROW' = 0 /\ TTY_ROW_N' = 0 /\ TTY_COL_POS' = 0
  /\ said' = <<<<>>>>
  /\ UNCHANGED TTY_LINES

\* tty_draw_window: a row ends at the first NUL, only printable ones are drawn.
Printed(l) ==
  LET stops == {i \in 1 .. Len(l) : l[i] = "nul"}
      shown == IF stops = {} THEN l ELSE SubSeq(l, 1, LeastIn(stops) - 1)
  IN  SelectSeq(shown, LAMBDA c : c = "x")

TtyDrawn ==
  [r \in 1 .. TTY_ROW_N |->
     LET l == TTY_LINES[(TTY_ROW + TTY_ROWS - TTY_ROW_N + r) % TTY_ROWS]
     IN  Printed([i \in 1 .. TTY_COL |-> l[i - 1]])]

TtyInit ==
  /\ TTY_LINES = [i \in TtyIndex |-> EmptyLine]
  /\ TTY_ROW = 0 /\ TTY_ROW_N = 0 /\ TTY_COL_POS = 0 /\ said = <<<<>>>>

TtyNext == \/ TtyNewline
           \/ \E c \in TtyChars : TtyPut(c)
           \/ TtyRestart

-----------------------------------------------------------------------------
(* The terminal.                                                           *)

BlankRow == [x \in 0 .. TW - 1 |-> "blank"]
Scrolled(s) == [y \in 0 .. TH - 1 |-> IF y < TH - 1 THEN s[y + 1] ELSE BlankRow]

\* term_feed('\n') scrolls at the bottom.
TermNewlineStuck ==
  /\ SCR_COL' = 0 /\ SCR_ROW' = LesserOf(SCR_ROW + 1, TH - 1)
  /\ paper' = Append(paper, BlankRow)
  /\ UNCHANGED <<SCR, lapped, painted>>

TermNewline ==
  /\ SCR_COL' = 0
  /\ IF SCR_ROW + 1 >= TH THEN SCR' = Scrolled(SCR) /\ SCR_ROW' = TH - 1
     ELSE SCR' = SCR /\ SCR_ROW' = SCR_ROW + 1
  /\ paper' = Append(paper, BlankRow)
  /\ UNCHANGED <<lapped, painted>>

\* A character in the last column breaks the line, and does not scroll.
TermChar(c) ==
  LET breaks == SCR_COL + 1 >= TW
      put == [paper EXCEPT ![Len(paper)][SCR_COL] = c]
  IN  /\ SCR' = [SCR EXCEPT ![SCR_ROW][SCR_COL] = c]
      /\ SCR_COL' = IF breaks THEN 0 ELSE SCR_COL + 1
      /\ SCR_ROW' = IF breaks THEN LesserOf(SCR_ROW + 1, TH - 1) ELSE SCR_ROW
      /\ paper' = IF breaks THEN Append(put, BlankRow) ELSE put
      /\ lapped' = (lapped \/ (breaks /\ SCR_ROW = TH - 1))
      /\ UNCHANGED painted

TermReturn == SCR_COL' = 0 /\ UNCHANGED <<SCR, SCR_ROW, paper, lapped, painted>>

TermBackspace ==
  /\ SCR_COL > 0 /\ SCR_COL' = SCR_COL - 1
  /\ UNCHANGED <<SCR, SCR_ROW, paper, lapped, painted>>

\* 0x5A01.
TermPut(x, y, c) ==
  /\ SCR' = [SCR EXCEPT ![y][x] = c] /\ painted' = TRUE
  /\ UNCHANGED <<SCR_ROW, SCR_COL, paper, lapped>>

TermInit ==
  /\ SCR = [y \in 0 .. TH - 1 |-> BlankRow] /\ SCR_ROW = 0 /\ SCR_COL = 0
  /\ paper = <<BlankRow>> /\ lapped = FALSE /\ painted = FALSE

TermNext ==
  \/ TermNewline \/ TermReturn \/ TermBackspace
  \/ \E c \in {"x", "blank"} : TermChar(c)
  \/ \E x \in 0 .. TW - 1, y \in 0 .. TH - 1 : TermPut(x, y, "y")

-----------------------------------------------------------------------------
(* The editor.  Rows and columns are counted from 0, positions too.        *)

EdChars == {"x", "nl"}
EdKeys == {"x", "nl", "i", "j", "k", "del", "home", "end", "esc"}

Newlines(t, n) == Cardinality({p \in 1 .. n : t[p] = "nl"})
LineCount(t) == Newlines(t, Len(t)) + 1

\* row_start stops at the end of the text when there is no such row.
RowStart(t, r) ==
  LET starts == {p \in 0 .. Len(t) : Newlines(t, p) = r}
  IN  IF starts = {} THEN Len(t) ELSE LeastIn(starts)

RowLen(t, r) ==
  LET s == RowStart(t, r)
  IN  LeastIn({n \in 0 .. Len(t) - s : s + n = Len(t) \/ t[s + n + 1] = "nl"})

EdInit == /\ text' = <<>> /\ insert' = FALSE /\ row' = 0 /\ col' = 0

\* 0x7402 replaces the text and goes to its end; the mode stays.
EdText(t) ==
  /\ text' = SubSeq(t, 1, LesserOf(Len(t), ED_CAP))
  /\ row' = LineCount(text') - 1 /\ col' = RowLen(text', row')
  /\ UNCHANGED insert

\* ins_char.
InsCharStays(c) ==
  LET pos == RowStart(text, row) + col
  IN  /\ text' = IF Len(text) >= ED_CAP THEN text
                 ELSE InsertAt(text, pos + 1, c)
      /\ row' = IF Len(text) < ED_CAP /\ c = "nl" THEN row + 1 ELSE row
      /\ col' = IF Len(text) < ED_CAP THEN col + 1 ELSE col
      /\ UNCHANGED insert

InsChar(c) ==
  /\ insert
  /\ LET pos == RowStart(text, row) + col
     IN  IF Len(text) >= ED_CAP THEN UNCHANGED <<text, row, col>>
         ELSE /\ text' = InsertAt(text, pos + 1, c)
              /\ row' = IF c = "nl" THEN row + 1 ELSE row
              /\ col' = IF c = "nl" THEN 0 ELSE col + 1
  /\ UNCHANGED insert

\* del_char: what decides whether the cursor goes up a row is the character
\* behind the deleted one.
DelChar ==
  /\ ~insert
  /\ LET pos == RowStart(text, row) + col
         up == pos > 0 /\ pos < Len(text') /\ text'[pos + 1] = "nl"
     IN  IF pos >= Len(text) THEN UNCHANGED <<text, row, col>>
         ELSE /\ text' = RemoveAt(text, pos + 1)
              /\ row' = IF up /\ row > 0 THEN row - 1 ELSE row
              /\ col' = IF up THEN RowLen(text', row') ELSE col
  /\ UNCHANGED insert

GoTo(r) ==
  /\ row' = r /\ col' = LesserOf(col, RowLen(text, r))
  /\ UNCHANGED <<text, insert>>

\* 0x7403, the keys that are not text.
EdKey(k) ==
  \/ insert /\ k = "esc" /\ insert' = FALSE /\ UNCHANGED <<text, row, col>>
  \/ ~insert /\ k = "i" /\ insert' = TRUE /\ UNCHANGED <<text, row, col>>
  \/ ~insert /\ k = "j" /\ row + 1 < LineCount(text) /\ GoTo(row + 1)
  \/ ~insert /\ k = "k" /\ row > 0 /\ GoTo(row - 1)
  \/ ~insert /\ k = "home" /\ col' = 0 /\ UNCHANGED <<text, insert, row>>
  \/ ~insert /\ k = "end" /\ col' = RowLen(text, row)
             /\ UNCHANGED <<text, insert, row>>

EditorInit == text = <<>> /\ insert = FALSE /\ row = 0 /\ col = 0

EditorNext ==
  \/ EdInit
  \/ \E n \in 0 .. ED_CAP + 1 : \E t \in [1 .. n -> EdChars] : EdText(t)
  \/ \E c \in EdChars : InsChar(c)
  \/ DelChar
  \/ \E k \in EdKeys : EdKey(k)

-----------------------------------------------------------------------------
(* The input method.                                                       *)

Known(l) == IF l \in DOMAIN TABLE THEN TABLE[l] ELSE <<>>

\* 0x5702.
ImeKey(c) ==
  /\ Len(letters) < IM_MAX
  /\ letters' = Append(letters, c)
  /\ UNCHANGED HANZI_OUT

\* 0x5704 keeps the letters.
ImeCommit(i) ==
  /\ i < Len(Known(letters))
  /\ HANZI_OUT' = Known(letters)[i + 1]
  /\ UNCHANGED letters

\* 0x5701 and 0x5705.
ImeBegin == letters' = <<>> /\ UNCHANGED HANZI_OUT
ImeReset == letters' = <<>> /\ UNCHANGED HANZI_OUT

ImeInit == letters = <<>> /\ HANZI_OUT = "nothing"

Alphabet == UNION {{l[i] : i \in 1 .. Len(l)} : l \in DOMAIN TABLE}

ImeNext == \/ \E c \in Alphabet : ImeKey(c)
           \/ \E i \in 0 .. 3 : ImeCommit(i)
           \/ ImeBegin \/ ImeReset

-----------------------------------------------------------------------------
(* Properties.                                                             *)

ConsoleInit == KeyInit /\ TtyInit /\ TermInit /\ EditorInit /\ ImeInit

\* The rings' positions, the cursors and the buffers stay within their bounds
\* (kbd.rs:90, desk.rs:249, term.rs:46, editor.rs:95, ime.rs:50).
ConsoleTypeOK ==
  /\ ring \in [buf : [0 .. BUF_SIZE - 1 -> Codes],
               head : 0 .. BUF_SIZE - 1, tail : 0 .. BUF_SIZE - 1]
  /\ poll.at \in {"idle", "head", "code"} /\ Len(line) <= LINE_MAX
  /\ TTY_LINES \in [TtyIndex -> [0 .. TTY_COL - 1 -> TtyChars]]
  /\ TTY_ROW \in TtyIndex /\ TTY_ROW_N \in 0 .. TTY_ROWS
  /\ TTY_COL_POS \in 0 .. TTY_COL - 1
  /\ SCR_ROW \in 0 .. TH - 1 /\ SCR_COL \in 0 .. TW - 1
  /\ Len(text) <= ED_CAP /\ insert \in BOOLEAN
  /\ Len(letters) <= IM_MAX

\* Keys arrive in the order they were typed, each once, whatever the interrupt
\* does between the steps of a poll (kbd.rs:174) -- unless a program polls
\* inside the kernel's own poll, which rewinds the head.
KeysInOrder ==
  ~twoReaders =>
    LET n == (ring.tail - ring.head + BUF_SIZE) % BUF_SIZE
    IN  /\ typed = [i \in 1 .. n |-> ring.buf[(ring.head + i - 1) % BUF_SIZE]]
        /\ poll.at = "code" => poll.sc = typed[1]

\* The window shows the last lines the present program wrote and never a line
\* of the program before it, although a restart clears no line (desk.rs:511,
\* 330): it is the first line of every program, never drawn, that covers it.
TtyShowsTail ==
  TtyDrawn = [r \in 1 .. TTY_ROW_N |->
                Printed(said[Len(said) - TTY_ROW_N + r])]

\* The screen shows the end of what was fed (term.rs:20), except after a line
\* was broken at the bottom, where the code writes over the last row instead
\* of scrolling (term.rs:52).
TermShowsTail ==
  ~lapped /\ ~painted =>
    \A y \in 0 .. TH - 1 :
      SCR[y] = IF y <= SCR_ROW THEN paper[Len(paper) - SCR_ROW + y] ELSE BlankRow

\* The cursor is on a row the text has and within that row, after every
\* insertion, deletion, movement and replacement (editor.rs:95, 115).
CursorInText == row < LineCount(text) /\ col <= RowLen(text, row)

\* The three surfaces that show text agree with what was written to them.
TextSurfaces == TtyShowsTail /\ TermShowsTail /\ CursorInText
=============================================================================

------------------------------ MODULE Windows ------------------------------
(***************************************************************************)
(* Windows, the message queue and the mouse: kernel/src/wmsg.rs, mouse.rs, *)
(* the drop of clip.rs and the desktop loop of desk.rs.  Programs call     *)
(* with interrupts off, so that a call is one step.  The desktop loop runs *)
(* in the kernel with interrupts on: a mouse packet may arrive between any *)
(* two steps of what it does.  One coordinate stands for both.             *)
(***************************************************************************)
EXTENDS Integers, Sequences, FiniteSets

CONSTANTS WMAX,       \* windows, and rectangles for the mouse (8)
          QLEN,       \* slots of the message queue (56)
          XMAX,       \* the last position on the screen
          Width,      \* of every window
          MouseBytes  \* what the mouse may send

ASSUME WindowsAssumption ==
  /\ WMAX \in Nat \ {0} /\ QLEN \in Nat \ {0, 1}
  /\ XMAX \in Nat /\ Width \in Nat /\ MouseBytes \subseteq 0 .. 255

VARIABLES
  WINS,       \* the table of windows; the last one is on top
  HIT_RECTS,  \* what the mouse looks for: rectangles, the first match wins
  FOCUS_ID, MS_X, MS_BTN,
  MS_PKT,     \* the bytes of the packet so far
  queue,      \* the ring of messages: Q, QRD, QWR
  TTY_PID,    \* the desktop runs a window program
  WIN_PID,    \* its window
  WIN_STATE,  \* "min" and "max", as far as set
  WIN_DRAG, WX,
  prev_btn, last_hit,   \* the desktop loop's view of the mouse
  todo,       \* what it still has to do of a call it has begun
  owed,       \* history: messages queued and not yet read
  raced,      \* history: a packet queued a message inside the loop's own
  foreign     \* history: a program set the rectangles itself

mouseVars == <<FOCUS_ID, MS_X, MS_BTN, MS_PKT>>
queueVars == <<queue, owed, raced>>
deskVars  == <<TTY_PID, WIN_PID, WIN_STATE, WIN_DRAG, WX, prev_btn, last_hit>>
winVars   == <<WINS, HIT_RECTS, FOCUS_ID, MS_X, MS_BTN, MS_PKT, queue, TTY_PID,
               WIN_PID, WIN_STATE, WIN_DRAG, WX, prev_btn, last_hit, todo,
               owed, raced, foreign>>

WinSlots == 0 .. WMAX - 1
Positions == 0 .. XMAX
NoWindow == 0             \* 0xFFFFFFFF: no window, no focus
Least(S) == CHOOSE x \in S : \A y \in S : x <= y
Clamp(x) == IF x < 0 THEN 0 ELSE IF x > XMAX THEN XMAX ELSE x

FreeWin == [id |-> NoWindow, x |-> 0]
Holding(w) == {i \in WinSlots : WINS[i].id = w}

-----------------------------------------------------------------------------
(* The queue.                                                              *)

Full(q) == (q.wr + 1) % QLEN = q.rd

\* push_msg: a full queue drops the message.  The accepted ones are recorded.
PushUnchecked(s, m) ==
  [q |-> [s.q EXCEPT !.buf[s.q.wr] = m, !.wr = (@ + 1) % QLEN],
   owed |-> IF Full(s.q) THEN s.owed ELSE Append(s.owed, m)]

Push(s, m) ==
  IF Full(s.q) THEN s
  ELSE [q |-> [s.q EXCEPT !.buf[s.q.wr] = m, !.wr = (@ + 1) % QLEN],
        owed |-> Append(s.owed, m)]

PushAll(s, ms) ==
  LET n == Len(ms)
      f[k \in 0 .. n] == IF k = 0 THEN s ELSE Push(f[k - 1], ms[k])
  IN  f[n]

Queued(ms) ==
  LET s == PushAll([q |-> queue, owed |-> owed], ms)
  IN  queue' = s.q /\ owed' = s.owed

Msg(kind, win) == <<kind, win>>

\* 0x5522.
WmGetmsg ==
  /\ todo = <<>> /\ queue.rd /= queue.wr
  /\ queue' = [queue EXCEPT !.rd = (@ + 1) % QLEN]
  /\ owed' = IF owed = <<>> THEN owed ELSE Tail(owed)
  /\ UNCHANGED <<WINS, HIT_RECTS, mouseVars, deskVars, todo, raced, foreign>>

-----------------------------------------------------------------------------
(* The table of windows.                                                   *)

\* refresh_rects: every window in the order of the table.
RectsOf(wins) ==
  LET taken == {i \in WinSlots : wins[i].id /= NoWindow}
      at(k) == CHOOSE i \in taken : Cardinality({j \in taken : j <= i}) = k
  IN  [k \in 1 .. Cardinality(taken) |->
         [lo |-> wins[at(k)].x, hi |-> wins[at(k)].x + Width,
          id |-> wins[at(k)].id]]

\* fujo_wm_create puts a window into the first free slot and names it after
\* the slot.
Created(wins, i, x) == [wins EXCEPT ![i] = [id |-> i + 1, x |-> x]]

WmCreate(x) ==
  /\ todo = <<>> /\ Holding(NoWindow) /= {}
  /\ LET i == Least(Holding(NoWindow))
     IN  /\ WINS' = Created(WINS, i, x)
         /\ Queued(<<Msg("create", i + 1)>>)
  /\ HIT_RECTS' = RectsOf(WINS')
  /\ UNCHANGED <<mouseVars, deskVars, todo, raced, foreign>>

WmRemove(w) ==
  /\ todo = <<>> /\ w /= NoWindow /\ Holding(w) /= {}
  /\ WINS' = [WINS EXCEPT ![Least(Holding(w))] = FreeWin]
  /\ HIT_RECTS' = RectsOf(WINS')
  /\ Queued(<<Msg("destroy", w)>>)
  /\ UNCHANGED <<mouseVars, deskVars, todo, raced, foreign>>

\* 0x5523 moves the row of a window to the end of those in use and leaves the
\* rectangles of the mouse as they are.
WmTop(w) ==
  /\ todo = <<>> /\ w /= NoWindow /\ Holding(w) /= {}
  /\ LET i == CHOOSE i \in Holding(w) : \A j \in Holding(w) : j <= i
         n == CHOOSE n \in WinSlots : /\ WINS[n].id /= NoWindow
                                   /\ \A j \in WinSlots :
                                        j > n => WINS[j].id = NoWindow
     IN  WINS' = [j \in WinSlots |->
                   IF j \in i .. n - 1 THEN WINS[j + 1]
                   ELSE IF j = n THEN WINS[i] ELSE WINS[j]]
  /\ Queued(<<Msg("zorder", w)>>)
  /\ UNCHANGED <<HIT_RECTS, mouseVars, deskVars, todo, raced, foreign>>

WmMoveUnseen(w, dx) ==
  /\ todo = <<>> /\ w /= NoWindow /\ Holding(w) /= {}
  /\ WINS' = [WINS EXCEPT ![Least(Holding(w))].x = Clamp(@ + dx)]
  /\ Queued(<<Msg("move", w)>>)
  /\ UNCHANGED <<HIT_RECTS, mouseVars, deskVars, todo, raced, foreign>>

WmMove(w, dx) ==
  /\ todo = <<>> /\ w /= NoWindow /\ Holding(w) /= {}
  /\ WINS' = [WINS EXCEPT ![Least(Holding(w))].x = Clamp(@ + dx)]
  /\ HIT_RECTS' = RectsOf(WINS')
  /\ Queued(<<Msg("move", w)>>)
  /\ UNCHANGED <<mouseVars, deskVars, todo, raced, foreign>>

\* 0x5411: a program replaces the rectangles.
MouseRects(rects) ==
  /\ todo = <<>>
  /\ HIT_RECTS' = rects /\ foreign' = TRUE
  /\ UNCHANGED <<WINS, mouseVars, queueVars, deskVars, todo>>

\* The first rectangle with x in it.
Hit(x) ==
  LET hits == {k \in 1 .. Len(HIT_RECTS) :
                 HIT_RECTS[k].lo <= x /\ x <= HIT_RECTS[k].hi}
  IN  IF hits = {} THEN NoWindow ELSE HIT_RECTS[Least(hits)].id

\* 0x5806.
DndDrop(x) ==
  /\ todo = <<>> /\ Hit(x) /= NoWindow
  /\ Queued(<<Msg("dropfiles", Hit(x))>>)
  /\ UNCHANGED <<WINS, HIT_RECTS, mouseVars, deskVars, todo, raced, foreign>>

-----------------------------------------------------------------------------
(* fujo_ms_irq.                                                            *)

\* A byte as a signed distance.
Signed(b) == IF b >= 128 THEN b - 256 ELSE b

\* A packet begins with a byte that has bit 3 set; other bytes are skipped
\* until one comes.
FirstByte(b) ==
  /\ MS_PKT = <<>>
  /\ MS_PKT' = IF (b \div 8) % 2 = 1 THEN <<b>> ELSE <<>>
  /\ UNCHANGED <<WINS, HIT_RECTS, FOCUS_ID, MS_X, MS_BTN, queueVars, deskVars,
                 todo, foreign>>

SecondByte(b) ==
  /\ Len(MS_PKT) = 1
  /\ MS_PKT' = Append(MS_PKT, b)
  /\ UNCHANGED <<WINS, HIT_RECTS, FOCUS_ID, MS_X, MS_BTN, queueVars, deskVars,
                 todo, foreign>>

Inside == todo /= <<>> /\ Head(todo)[1] = "advance"

\* The third byte (the other coordinate) completes it.
LastByte ==
  /\ Len(MS_PKT) = 2
  /\ MS_PKT' = <<>>
  /\ MS_X' = Clamp(MS_X + Signed(MS_PKT[2])) /\ MS_BTN' = MS_PKT[1] % 8
  /\ FOCUS_ID' = Hit(MS_X')
  /\ LET left == IF FOCUS_ID /= NoWindow /\ FOCUS_ID /= FOCUS_ID'
                 THEN <<Msg("leave", FOCUS_ID)>> ELSE <<>>
         entered == IF FOCUS_ID' /= NoWindow /\ FOCUS_ID /= FOCUS_ID'
                    THEN <<Msg("enter", FOCUS_ID')>> ELSE <<>>
         moved == IF FOCUS_ID' = NoWindow THEN <<>>
                  ELSE <<Msg("mousemove", FOCUS_ID')>>
         button == IF FOCUS_ID' = NoWindow \/ MS_BTN' = 0 THEN <<>>
                   ELSE <<Msg("button", FOCUS_ID')>>
     IN  Queued(left \o entered \o moved \o button)
  /\ raced' = (raced \/ (Inside /\ queue' /= queue))
  /\ UNCHANGED <<WINS, HIT_RECTS, deskVars, todo, foreign>>

-----------------------------------------------------------------------------
(* The desktop loop.  What it does to the windows is spread over the steps *)
(* of todo: take a window out, put a message into a slot, move the end of   *)
(* the queue, rebuild the rectangles.                                       *)

WithRest(ops) == todo' = ops \o Tail(todo)

Kill == (IF WIN_PID = NoWindow THEN <<>> ELSE << <<"remove">> >>)
        \o << <<"forget">> >>

\* launch_program ends the program before it, whether or not the next one
\* can be loaded.
LoopLaunch ==
  /\ todo = <<>>
  /\ todo' = Kill \o << <<"start">> >>
  /\ UNCHANGED <<WINS, HIT_RECTS, mouseVars, queueVars, deskVars, foreign>>

StepRemove ==
  /\ Head(todo) = <<"remove">>
  /\ IF Holding(WIN_PID) = {}
     THEN WithRest(<<>>) /\ UNCHANGED WINS
     ELSE /\ WINS' = [WINS EXCEPT ![Least(Holding(WIN_PID))] = FreeWin]
          /\ WithRest(<< <<"slot", Msg("destroy", WIN_PID)>>, <<"rects">> >>)
  /\ UNCHANGED <<HIT_RECTS, mouseVars, queueVars, deskVars, foreign>>

StepForget ==
  /\ Head(todo) = <<"forget">>
  /\ TTY_PID' = FALSE /\ WIN_PID' = NoWindow /\ WithRest(<<>>)
  /\ UNCHANGED <<WINS, HIT_RECTS, mouseVars, queueVars, WIN_STATE, WIN_DRAG,
                 WX, prev_btn, last_hit, foreign>>

\* The image cannot be loaded or no task slot is left, or the program starts.
StepStart ==
  /\ Head(todo) = <<"start">>
  /\ \/ WithRest(<<>>) /\ UNCHANGED TTY_PID
     \/ WithRest(<< <<"create">> >>) /\ TTY_PID' = TRUE
  /\ UNCHANGED <<WINS, HIT_RECTS, mouseVars, queueVars, WIN_PID, WIN_STATE,
                 WIN_DRAG, WX, prev_btn, last_hit, foreign>>

\* A full table leaves the program without a window.
StepCreate ==
  /\ Head(todo) = <<"create">>
  /\ IF Holding(NoWindow) = {}
     THEN WithRest(<<>>) /\ WIN_PID' = -12 /\ UNCHANGED WINS
     ELSE LET i == Least(Holding(NoWindow))
          IN  /\ WINS' = Created(WINS, i, WX)
              /\ WIN_PID' = i + 1
              /\ WithRest(<< <<"rects">>, <<"slot", Msg("create", i + 1)>> >>)
  /\ UNCHANGED <<HIT_RECTS, mouseVars, queueVars, TTY_PID, WIN_STATE, WIN_DRAG,
                 WX, prev_btn, last_hit, foreign>>

StepRects ==
  /\ Head(todo) = <<"rects">>
  /\ HIT_RECTS' = RectsOf(WINS) /\ WithRest(<<>>)
  /\ UNCHANGED <<WINS, mouseVars, queueVars, deskVars, foreign>>

StepSlot ==
  /\ Head(todo)[1] = "slot"
  /\ IF Full(queue)
     THEN WithRest(<<>>) /\ UNCHANGED <<queue, owed>>
     ELSE /\ queue' = [queue EXCEPT !.buf[queue.wr] = Head(todo)[2]]
          /\ WithRest(<< <<"advance", Head(todo)[2], queue.wr>> >>)
          /\ UNCHANGED owed
  /\ UNCHANGED <<WINS, HIT_RECTS, mouseVars, raced, deskVars, foreign>>

\* QWR is a plain variable: it may be read again here or be kept from before.
StepAdvance ==
  /\ Head(todo)[1] = "advance"
  /\ \E w \in {Head(todo)[3], queue.wr} :
       queue' = [queue EXCEPT !.wr = (w + 1) % QLEN]
  /\ owed' = Append(owed, Head(todo)[2])
  /\ WithRest(<<>>)
  /\ UNCHANGED <<WINS, HIT_RECTS, mouseVars, raced, deskVars, foreign>>

\* One turn of the loop sees the button go down.  What lies under the pointer
\* is left open: a button of the window, its title, an icon, or nothing.
LoopPress(target, quick) ==
  /\ todo = <<>> /\ prev_btn = 0 /\ MS_BTN /= 0
  /\ prev_btn' = MS_BTN
  /\ target \in {"minimise", "maximise", "close", "title"} =>
       TTY_PID /\ "min" \notin WIN_STATE
  /\ target = "title" => "max" \notin WIN_STATE
  /\ WIN_STATE' = CASE target = "minimise" -> WIN_STATE \cup {"min"}
                    [] target = "maximise" -> IF "max" \in WIN_STATE
                                              THEN WIN_STATE \ {"max"}
                                              ELSE WIN_STATE \cup {"max"}
                    [] OTHER -> WIN_STATE
  /\ WIN_DRAG' = (WIN_DRAG \/ target = "title")
  /\ todo' = IF target = "close" THEN Kill
             ELSE IF target = "icon" /\ last_hit = "icon" /\ quick
             THEN Kill \o << <<"start">> >> ELSE <<>>
  /\ last_hit' = IF target = "nothing" THEN last_hit
                 ELSE IF target = "icon" /\ todo' = <<>> THEN "icon"
                 ELSE "none"
  /\ UNCHANGED <<WINS, HIT_RECTS, mouseVars, queueVars, TTY_PID, WIN_PID, WX,
                 foreign>>

LoopRelease ==
  /\ todo = <<>> /\ prev_btn /= 0 /\ MS_BTN = 0
  /\ prev_btn' = 0 /\ WIN_DRAG' = FALSE
  /\ UNCHANGED <<WINS, HIT_RECTS, mouseVars, queueVars, TTY_PID, WIN_PID,
                 WIN_STATE, WX, last_hit, todo, foreign>>

\* Dragging moves the desktop's picture of the window, not the window of the
\* table.
LoopDrag(x) ==
  /\ todo = <<>> /\ prev_btn /= 0 /\ MS_BTN /= 0 /\ WIN_DRAG
  /\ WX' = x
  /\ UNCHANGED <<WINS, HIT_RECTS, mouseVars, queueVars, TTY_PID, WIN_PID,
                 WIN_STATE, WIN_DRAG, prev_btn, last_hit, todo, foreign>>

-----------------------------------------------------------------------------
WinInit ==
  /\ WINS = [i \in WinSlots |-> FreeWin] /\ HIT_RECTS = <<>>
  /\ FOCUS_ID = NoWindow /\ MS_X = 0 /\ MS_BTN = 0 /\ MS_PKT = <<>>
  /\ queue = [buf |-> [k \in 0 .. QLEN - 1 |-> Msg("none", NoWindow)],
              rd |-> 0, wr |-> 0]
  /\ TTY_PID = FALSE /\ WIN_PID = NoWindow /\ WIN_STATE = {} /\ WIN_DRAG = FALSE
  /\ WX = 0 /\ prev_btn = 0 /\ last_hit = "none" /\ todo = <<>>
  /\ owed = <<>> /\ raced = FALSE /\ foreign = FALSE

Targets == {"minimise", "maximise", "close", "title", "icon", "nothing"}

Packets == \/ \E b \in MouseBytes : FirstByte(b) \/ SecondByte(b)
           \/ LastByte

ProgramCalls ==
  \/ \E x \in Positions : WmCreate(x) \/ DndDrop(x)
  \/ \E w \in 1 .. WMAX : \/ WmRemove(w) \/ WmTop(w)
                          \/ \E dx \in {-1, 1} : WmMove(w, dx)
  \/ MouseRects(<<>>)

LoopSteps ==
  \/ LoopLaunch
  \/ /\ todo /= <<>>
     /\ \/ StepRemove \/ StepForget \/ StepStart \/ StepCreate
        \/ StepRects \/ StepSlot \/ StepAdvance

LoopMouse ==
  \/ \E t \in Targets, quick \in BOOLEAN : LoopPress(t, quick)
  \/ LoopRelease
  \/ \E x \in Positions : LoopDrag(x)

WinNext == Packets \/ WmGetmsg \/ ProgramCalls \/ LoopSteps \/ LoopMouse

-----------------------------------------------------------------------------
WinTypeOK ==
  /\ \A i \in WinSlots : WINS[i].id \in 0 .. WMAX
  /\ Len(HIT_RECTS) <= WMAX /\ FOCUS_ID \in 0 .. WMAX
  /\ MS_X \in Positions /\ Len(MS_PKT) <= 2
  /\ queue.rd \in 0 .. QLEN - 1 /\ queue.wr \in 0 .. QLEN - 1

\* However packets interleave with the steps of the desktop loop and with
\* calls, what the ring holds are exactly the messages it has accepted, in
\* their order, less those already read; a packet that queues a message while
\* the loop is between its slot and the end of the queue is the exception.
Waiting ==
  [k \in 1 .. ((queue.wr - queue.rd) + QLEN) % QLEN |->
     queue.buf[(queue.rd + k - 1) % QLEN]]

QueueIsFifo == raced \/ Waiting = owed

\* Whenever the loop is between two turns, the mouse looks for exactly the
\* windows there are, where they are.
RectsMatchWindows ==
  todo = <<>> /\ ~foreign =>
    {HIT_RECTS[k] : k \in 1 .. Len(HIT_RECTS)} =
    {[lo |-> WINS[i].x, hi |-> WINS[i].x + Width, id |-> WINS[i].id] :
       i \in {j \in WinSlots : WINS[j].id /= NoWindow}}
=============================================================================

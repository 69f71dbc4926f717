--------------------------- MODULE ServicesProofs ---------------------------
(***************************************************************************)
(* Theorems about the services of the kernel as MCServices composes them,  *)
(* for every value of the constants: what PartsProofs and FormatProofs     *)
(* show of a part holds when it runs next to the others; the rings of the  *)
(* tables, the surfaces that show text, the keyboard and the mixer have    *)
(* their invariants here.                                                  *)
(***************************************************************************)
EXTENDS MCServices, PartsProofs, FormatProofs

-----------------------------------------------------------------------------
(* A step of the composition is a step of one part or leaves it alone. *)

LEMMA PartSteps ==
  [Next]_allVars => /\ [FilesNext]_filesVars /\ [PcNext]_pcVars
                    /\ [BlkNext]_blkVars /\ [RxNext]_rxVars /\ [AhNext]_ahVars
                    /\ [FrameNext]_frameVars /\ [HeapNext]_heapVars
                    /\ [WinNext]_winVars /\ [KeyNext]_keyVars
                    /\ UNCHANGED part
<1>1. UNCHANGED <<storageVars, part>> => /\ UNCHANGED filesVars /\ UNCHANGED pcVars /\ UNCHANGED part
                                         /\ UNCHANGED <<blkVars, rxVars, ahVars>>
  BY DEF storageVars, deviceVars
<1>2. UNCHANGED allVars => UNCHANGED <<storageVars, part>>
  BY DEF allVars
<1>3. Next => StorageNext \/ UNCHANGED storageVars
  BY DEF Next
<1>4. StorageNext => /\ [FilesNext]_filesVars /\ [PcNext]_pcVars
                     /\ [BlkNext]_blkVars /\ [RxNext]_rxVars /\ [AhNext]_ahVars
  BY DEF StorageNext, deviceVars, FilesOfMix
<1>5. Next => UNCHANGED part
  BY DEF Next
<1>6. UNCHANGED <<memoryVars, part>> => UNCHANGED frameVars /\ UNCHANGED heapVars
  BY DEF memoryVars
<1>7. UNCHANGED allVars => UNCHANGED <<memoryVars, part>>
  BY DEF allVars
<1>8. Next => MemoryNext \/ UNCHANGED memoryVars
  BY DEF Next
<1>9. MemoryNext => [FrameNext]_frameVars /\ [HeapNext]_heapVars
  BY DEF MemoryNext
<1>10. UNCHANGED memoryVars => UNCHANGED frameVars /\ UNCHANGED heapVars
  BY DEF memoryVars
<1>11. UNCHANGED <<screenVars, part>> => UNCHANGED winVars /\ UNCHANGED keyVars
  BY DEF screenVars, consoleVars
<1>12. UNCHANGED allVars => UNCHANGED <<screenVars, part>>
  BY DEF allVars
<1>13. Next => DeskNext \/ UNCHANGED screenVars
  BY DEF Next
<1>14. DeskNext => [WinNext]_winVars
  <2>1. 0 \in Positions
    BY WindowsAssumption DEF Positions
  <2> QED
    BY <2>1 DEF DeskNext, WinNext, ProgramCalls
<1>15. DeskNext => [KeyNext]_keyVars
  BY DEF DeskNext, consoleVars
<1>16. UNCHANGED screenVars => UNCHANGED winVars /\ UNCHANGED keyVars
  BY DEF screenVars, consoleVars
<1> QED
  BY <1>1, <1>2, <1>3, <1>4, <1>5, <1>6, <1>7, <1>8, <1>9, <1>10,
     <1>11, <1>12, <1>13, <1>14, <1>15, <1>16

-----------------------------------------------------------------------------
(* The descriptor table, the pipes and the objects. *)

LEMMA FilesInvAlways == Spec => []FilesInv
<1>1. Init => FilesInv
  BY FilesInitInv DEF Init
<1>2. FilesInv /\ [Next]_allVars => FilesInv'
  BY PartSteps, FilesInvStep
<1> QED
  BY <1>1, <1>2, PTL DEF Spec

\* Pipes count the open ends of both sides, the object table knows the ends one
\* for one as long as programs free what is theirs, and the buffer is that of
\* the only open disk file (vfs.rs, ipc.rs, kobj.rs).
THEOREM DescriptorsExactCorrect == Spec => []DescriptorsExact
<1>1. FilesInv => DescriptorsExact
  BY FilesInvShows DEF DescriptorsExact
<1> QED
  BY <1>1, FilesInvAlways, PTL

-----------------------------------------------------------------------------
(* The drivers. *)

LEMMA DeviceInvAlways == Spec => [](BlkInv /\ RxInv /\ AhInv)
<1>1. Init => BlkInv /\ RxInv /\ AhInv
  BY BlkInitInv, RxInitInv, AhInitInv DEF Init
<1>2. (BlkInv /\ RxInv /\ AhInv) /\ [Next]_allVars => (BlkInv /\ RxInv /\ AhInv)'
  BY PartSteps, BlkInvStep, RxInvStep, AhInvStep
<1> QED
  BY <1>1, <1>2, PTL DEF Spec

\* A request that the block driver or cmd reports done was done with its own
\* sector, as long as none was abandoned, and frames are handed out as they
\* came until the ring has gone round once (virtio.rs, ahci.rs, net.rs).
THEOREM DriversAnswerOwnCorrect == Spec => DriversAnswerOwn
<1> DEFINE P == BlkAnswered /\ status = 0 /\ ~gaveUp =>
                  disk[call.lba] = IF call.ty = "read" THEN data ELSE call.val
           Q == AhciSucceeds /\ ~ahGaveUp /\ ahCall.ty = "write" =>
                  ahDisk[ahCall.lba] = ahCall.val
           R == RX_LAST' # RX_LAST /\ taking' # NoFrame /\ RX_LAST < SLOTS =>
                  taking' = [frame |-> RX_LAST', n |-> FrameLen(RX_LAST')]
<1>1. (BlkInv /\ RxInv /\ AhInv) /\ [Next]_allVars => [P]_blkVars /\ [Q]_ahVars /\ [R]_rxVars
  BY PartSteps, BlkInvShows, AhInvShows, RxInvShows
<1> HIDE DEF P, Q, R
<1>2. Spec => [][P]_blkVars /\ [][Q]_ahVars /\ [][R]_rxVars
  BY <1>1, DeviceInvAlways, PTL DEF Spec
<1> QED
  BY <1>2 DEF P, Q, R, DriversAnswerOwn, BlkAnswersOwn, AhciAnswersOwn, RxInOrder

-----------------------------------------------------------------------------
(* The memory. *)

LEMMA MemoryInvAlways == Spec => [](FrameInv /\ HeapInv)
<1>1. Init => FrameInv /\ HeapInv
  BY FrameInitInv, HeapInitInv DEF Init
<1>2. (FrameInv /\ HeapInv) /\ [Next]_allVars => (FrameInv /\ HeapInv)'
  BY PartSteps, FrameInvStep, HeapInvStep
<1> QED
  BY <1>1, <1>2, PTL DEF Spec

\* The bitmap marks exactly the frames something refers to, and each of them
\* has one owner, through faults, forks that copy and munmap, as long as the
\* window region did not come over frames in use (mem.rs).
THEOREM FramesAccountedCorrect == Spec => []FramesAccounted
<1>1. FrameInv => FramesAccounted
  BY FrameInvShows
<1> QED
  BY <1>1, MemoryInvAlways, PTL

\* A space sees in its private pages what it or its parent put there, reaches
\* the shared page, and is granted regions of the heap that do not overlap and
\* are long enough (mem.rs).
THEOREM MemoryApartCorrect == Spec => []MemoryApart
<1>1. FrameInv /\ HeapInv => MemoryApart
  BY FrameInvShows DEF MemoryApart, HeapInv
<1> QED
  BY <1>1, MemoryInvAlways, PTL

-----------------------------------------------------------------------------
(* The keyboard. *)

\* The ring, and where a poll of the kernel is.
KeySlots == 0 .. BUF_SIZE - 1
Rings == [buf : [KeySlots -> Codes], head : KeySlots, tail : KeySlots]
Polls == {Idle} \cup [at : {"head"}, h : KeySlots] \cup [at : {"code"}, h : KeySlots, sc : Codes]

KeyShape ==
  /\ ring \in Rings /\ poll \in Polls /\ typed \in Seq(Codes)
  /\ line \in Seq(Codes) /\ Len(line) <= LINE_MAX

\* While only one reader is at the ring, what the poll has read is still the
\* oldest code.
PollIsFirst ==
  /\ typed = RingSeq(ring.buf, ring.head, ring.tail, BUF_SIZE)
  /\ poll # Idle => poll.h = ring.head /\ ring.head # ring.tail
  /\ poll.at = "code" => poll.sc = ring.buf[ring.head]

KeyInv == KeyShape /\ (twoReaders \/ PollIsFirst)

LEMMA KeyNumbers == BUF_SIZE \in Nat \ {0, 1} /\ LINE_MAX \in Nat
BY ConsoleAssumption

LEMMA PollsAre ==
  ASSUME NEW p \in Polls
  PROVE  /\ p.at = "head" => p # Idle /\ p.h \in KeySlots
         /\ p.at = "code" => p # Idle /\ p.h \in KeySlots /\ p.sc \in Codes
         /\ p.at \in {"idle", "head", "code"}
<1>1. CASE p = Idle
  BY <1>1 DEF Idle
<1>2. CASE p \in [at : {"head"}, h : KeySlots]
  BY <1>2 DEF Idle
<1>3. CASE p \in [at : {"code"}, h : KeySlots, sc : Codes]
  BY <1>3 DEF Idle
<1> QED
  BY <1>1, <1>2, <1>3 DEF Polls

LEMMA RingIs ==
  ASSUME KeyShape
  PROVE  /\ ring.buf \in [0 .. BUF_SIZE - 1 -> Codes]
         /\ ring.head \in 0 .. BUF_SIZE - 1 /\ ring.tail \in 0 .. BUF_SIZE - 1
         /\ BUF_SIZE \in Nat \ {0, 1}
BY KeyNumbers DEF KeyShape, Rings, KeySlots

LEMMA KbdIrqKeeps ==
  ASSUME KeyInv, NEW sc \in Codes, KbdIrq(sc)
  PROVE  KeyInv'
<1>1. UNCHANGED <<poll, line, twoReaders>>
  BY DEF KbdIrq
<1>2. CASE RingFull
  BY <1>1, <1>2 DEF KbdIrq, KeyInv, KeyShape, PollIsFirst
<1>3. CASE ~RingFull
  <2> DEFINE b == ring.buf
             rd == ring.head
             wr == ring.tail
             w == (wr + 1) % BUF_SIZE
             new == [b EXCEPT ![wr] = sc]
  <2>1. ring' = [ring EXCEPT !.buf[wr] = sc, !.tail = w] /\ typed' = Append(typed, sc)
    BY <1>3 DEF KbdIrq
  <2>2. /\ ring \in Rings /\ b \in [0 .. BUF_SIZE - 1 -> Codes]
        /\ rd \in 0 .. BUF_SIZE - 1 /\ wr \in 0 .. BUF_SIZE - 1 /\ BUF_SIZE \in Nat \ {0, 1}
    BY RingIs DEF KeyInv, KeyShape
  <2>3. w \in 0 .. BUF_SIZE - 1 /\ w # rd
    BY <1>3, <2>2, NextSlot DEF RingFull
  <2>4. new \in [0 .. BUF_SIZE - 1 -> Codes] /\ new[wr] = sc
        /\ \A p \in 0 .. BUF_SIZE - 1 : p # wr => new[p] = b[p]
    BY <2>2
  <2>5. ring' = [ring EXCEPT !.buf = new, !.tail = w]
    BY <2>1, <2>2 DEF Rings
  <2>6. ring' \in Rings /\ ring'.buf = new /\ ring'.head = rd /\ ring'.tail = w
    <3> HIDE DEF new, w
    <3> QED
      BY <2>2, <2>3, <2>4, <2>5 DEF Rings, KeySlots
  <2>7. typed' \in Seq(Codes)
    BY <2>1, AppendProperties DEF KeyInv, KeyShape
  <2> HIDE DEF b, rd, wr
  <2>8. PutIsLast(b, rd, wr, BUF_SIZE, sc)
    BY <2>2, <2>3, RingPuts DEF w
  <2> HIDE DEF new, w
  <2>9. KeyShape'
    BY <1>1, <2>6, <2>7 DEF KeyInv, KeyShape
  <2>10. PollIsFirst => PollIsFirst'
    <3> SUFFICES ASSUME PollIsFirst
                 PROVE  PollIsFirst'
      OBVIOUS
    <3>1. typed' = RingSeq(new, rd, w, BUF_SIZE)
      BY <2>1, <2>8 DEF PollIsFirst, PutIsLast, new, w, b, rd, wr
    <3>2. poll # Idle => poll.h = rd /\ rd # wr
      BY DEF PollIsFirst, rd, wr
    <3>3. poll.at = "code" => poll # Idle /\ poll.sc = b[rd]
      BY PollsAre DEF PollIsFirst, KeyInv, KeyShape, b, rd
    <3>4. poll.at = "code" => poll.sc = new[rd]
      BY <2>2, <2>4, <3>2, <3>3
    <3> QED
      BY <1>1, <2>3, <2>6, <3>1, <3>2, <3>4 DEF PollIsFirst
  <2> QED
    BY <1>1, <2>9, <2>10 DEF KeyInv
<1> QED
  BY <1>2, <1>3

LEMMA PollHeadKeeps ==
  ASSUME KeyInv, PollHead
  PROVE  KeyInv'
<1> DEFINE p == [at |-> "head", h |-> ring.head]
<1>1. ring.head # ring.tail /\ poll' = p /\ UNCHANGED <<ring, line, typed, twoReaders>>
  BY DEF PollHead
<1>2. p \in Polls /\ p.at = "head" /\ p.h = ring.head
  BY DEF Polls, KeyInv, KeyShape, Rings
<1> HIDE DEF p
<1>3. KeyShape'
  BY <1>1, <1>2 DEF KeyInv, KeyShape
<1>4. PollIsFirst => PollIsFirst'
  BY <1>1, <1>2 DEF PollIsFirst
<1> QED
  BY <1>1, <1>3, <1>4 DEF KeyInv

LEMMA PollCodeKeeps ==
  ASSUME KeyInv, PollCode
  PROVE  KeyInv'
<1> DEFINE p == [at |-> "code", h |-> poll.h, sc |-> ring.buf[poll.h]]
<1>1. poll.at = "head" /\ poll' = p /\ UNCHANGED <<ring, line, typed, twoReaders>>
  BY DEF PollCode
<1>2. poll # Idle /\ poll.h \in KeySlots
  BY <1>1, PollsAre DEF KeyInv, KeyShape
<1>3. p \in Polls /\ p.at = "code" /\ p.h = poll.h /\ p.sc = ring.buf[poll.h]
  BY <1>2 DEF Polls, KeyInv, KeyShape, Rings
<1> HIDE DEF p
<1>4. KeyShape'
  BY <1>1, <1>3 DEF KeyInv, KeyShape
<1>5. PollIsFirst => PollIsFirst'
  BY <1>1, <1>2, <1>3 DEF PollIsFirst
<1> QED
  BY <1>1, <1>4, <1>5 DEF KeyInv

\* Taking a code moves the head by one.
LEMMA HeadMoved ==
  ASSUME KeyInv, NEW h \in KeySlots, ring' = [ring EXCEPT !.head = (h + 1) % BUF_SIZE],
         typed' = TakenFrom(typed)
  PROVE  /\ ring' \in Rings /\ typed' \in Seq(Codes)
         /\ PollIsFirst /\ h = ring.head /\ ring.head # ring.tail =>
              typed' = RingSeq(ring'.buf, ring'.head, ring'.tail, BUF_SIZE)
<1> DEFINE b == ring.buf
           rd == ring.head
           wr == ring.tail
           r == (h + 1) % BUF_SIZE
<1>1. /\ ring \in Rings /\ b \in [0 .. BUF_SIZE - 1 -> Codes]
      /\ rd \in 0 .. BUF_SIZE - 1 /\ wr \in 0 .. BUF_SIZE - 1 /\ BUF_SIZE \in Nat \ {0, 1}
      /\ h \in 0 .. BUF_SIZE - 1
  BY RingIs DEF KeyInv, KeyShape, KeySlots
<1>2. r \in 0 .. BUF_SIZE - 1
  BY <1>1, NextSlot
<1>3. ring' = [ring EXCEPT !.head = r]
  OBVIOUS
<1> HIDE DEF r
<1>4. ring' \in Rings /\ ring'.buf = b /\ ring'.head = r /\ ring'.tail = wr
  BY <1>1, <1>2, <1>3 DEF Rings, KeySlots
<1>5. typed' \in Seq(Codes)
  BY HeadTailProperties DEF KeyInv, KeyShape, TakenFrom
<1>6. ASSUME PollIsFirst, h = ring.head, ring.head # ring.tail
      PROVE  typed' = RingSeq(b, r, wr, BUF_SIZE)
  <2>0. h = rd /\ rd # wr /\ typed = RingSeq(b, rd, wr, BUF_SIZE)
    BY <1>6 DEF PollIsFirst
  <2> HIDE DEF b, rd, wr
  <2>1. FirstIsTaken(b, rd, wr, BUF_SIZE)
    BY <1>1, <2>0, RingTakes
  <2> QED
    BY <2>0, <2>1 DEF FirstIsTaken, TakenFrom, r
<1> QED
  BY <1>4, <1>5, <1>6

LEMMA LineKept ==
  ASSUME KeyShape, NEW sc \in Codes
  PROVE  LineAfter(Decode(sc)) \in Seq(Codes) /\ Len(LineAfter(Decode(sc))) <= LINE_MAX
<1> DEFINE c == Decode(sc)
<1>1. line \in Seq(Codes) /\ Len(line) \in Nat /\ Len(line) <= LINE_MAX /\ LINE_MAX \in Nat
  BY KeyNumbers DEF KeyShape
<1>2. c = NoKey \/ c \in Codes
  BY DEF Decode
<1> HIDE DEF c
<1>3. << >> \in Seq(Codes) /\ Len(<< >>) = 0
  OBVIOUS
<1> DEFINE shorter == SubSeq(line, 1, Len(line) - 1)
<1>4. line # << >> => shorter \in Seq(Codes) /\ Len(shorter) <= LINE_MAX
  <2> SUFFICES ASSUME line # << >>
               PROVE  shorter \in Seq(Codes) /\ Len(shorter) <= LINE_MAX
    OBVIOUS
  <2>1. Len(line) - 1 \in Nat /\ Len(line) - 1 <= Len(line)
    BY <1>1
  <2>2. shorter = [k \in 1 .. Len(line) - 1 |-> line[k]]
    BY <1>1, <2>1
  <2>3. \A k \in 1 .. Len(line) - 1 : line[k] \in Codes
    <3>1. \A k \in 1 .. Len(line) - 1 : k \in 1 .. Len(line)
      BY <1>1
    <3> QED
      BY <1>1, <3>1, ElementOfSeq
  <2> QED
    BY <1>1, <2>1, <2>2, <2>3
<1>5. CASE c = "enter" \/ c = NoKey
  BY <1>1, <1>3, <1>5 DEF LineAfter, NoKey, c
<1>6. CASE c = "backspace"
  <2>1. LineAfter(c) = IF line = << >> THEN line ELSE shorter
    BY <1>6 DEF LineAfter, NoKey
  <2> QED
    BY <1>1, <1>4, <2>1 DEF c
<1>7. CASE c \notin {"enter", "backspace", NoKey}
  <2>1. LineAfter(c) = IF Len(line) < LINE_MAX THEN Append(line, c) ELSE line
    BY <1>7 DEF LineAfter, NoKey
  <2>2. Append(line, c) \in Seq(Codes) /\ Len(Append(line, c)) = Len(line) + 1
    BY <1>1, <1>2, <1>7, AppendProperties
  <2> QED
    BY <1>1, <2>1, <2>2 DEF c
<1> QED
  BY <1>5, <1>6, <1>7

LEMMA PollTakeKeeps ==
  ASSUME KeyInv, PollTake
  PROVE  KeyInv'
<1> DEFINE h == poll.h
           sc == poll.sc
<1>1. /\ poll.at = "code" /\ ring' = [ring EXCEPT !.head = (h + 1) % BUF_SIZE]
      /\ typed' = TakenFrom(typed) /\ line' = LineAfter(Decode(sc)) /\ poll' = Idle
      /\ twoReaders' = twoReaders
  BY DEF PollTake
<1>2. poll # Idle /\ h \in KeySlots /\ sc \in Codes
  BY <1>1, PollsAre DEF KeyInv, KeyShape
<1>3. PollIsFirst => h = ring.head /\ ring.head # ring.tail
  BY <1>2 DEF PollIsFirst
<1> HIDE DEF h, sc
<1>4. /\ ring' \in Rings /\ typed' \in Seq(Codes)
      /\ PollIsFirst => typed' = RingSeq(ring'.buf, ring'.head, ring'.tail, BUF_SIZE)
  BY <1>1, <1>2, <1>3, HeadMoved
<1>5. line' \in Seq(Codes) /\ Len(line') <= LINE_MAX
  BY <1>1, <1>2, LineKept DEF KeyInv
<1>6. KeyShape'
  BY <1>1, <1>4, <1>5 DEF KeyShape, Polls
<1>7. PollIsFirst => PollIsFirst'
  BY <1>1, <1>4 DEF PollIsFirst, Idle
<1> QED
  BY <1>1, <1>6, <1>7 DEF KeyInv

LEMMA ProgramPollKeeps ==
  ASSUME KeyInv, ProgramPoll
  PROVE  KeyInv'
<1> DEFINE h == ring.head
<1>1. /\ ring.head # ring.tail /\ ring' = [ring EXCEPT !.head = (h + 1) % BUF_SIZE]
      /\ typed' = TakenFrom(typed) /\ UNCHANGED <<poll, line>>
  BY DEF ProgramPoll, KeyInv, KeyShape, Rings
<1>2. twoReaders' = (twoReaders \/ poll /= Idle)
  BY DEF ProgramPoll
<1>3. h \in KeySlots /\ h = ring.head
  BY RingIs DEF KeyInv, KeySlots
<1> HIDE DEF h
<1>4. /\ ring' \in Rings /\ typed' \in Seq(Codes)
      /\ PollIsFirst => typed' = RingSeq(ring'.buf, ring'.head, ring'.tail, BUF_SIZE)
  BY <1>1, <1>3, HeadMoved
<1>5. KeyShape'
  BY <1>1, <1>4 DEF KeyInv, KeyShape
<1>6. PollIsFirst /\ poll = Idle => PollIsFirst'
  BY <1>1, <1>4 DEF PollIsFirst, Idle
<1>7. twoReaders' \/ (~twoReaders /\ poll = Idle)
  BY <1>2, Zenon
<1> QED
  BY <1>5, <1>6, <1>7 DEF KeyInv

LEMMA KeyInvStep == KeyInv /\ [KeyNext]_keyVars => KeyInv'
<1>1. KeyInv /\ UNCHANGED keyVars => KeyInv'
  BY DEF keyVars, KeyInv, KeyShape, PollIsFirst
<1> QED
  BY <1>1, KbdIrqKeeps, PollHeadKeeps, PollCodeKeeps, PollTakeKeeps, ProgramPollKeeps DEF KeyNext

LEMMA KeyInitInv == KeyInit => KeyInv
<1> SUFFICES ASSUME KeyInit
             PROVE  KeyInv
  OBVIOUS
<1>1. /\ ring = [buf |-> [i \in 0 .. BUF_SIZE - 1 |-> "letter"], head |-> 0, tail |-> 0]
      /\ poll = Idle /\ line = << >> /\ typed = << >>
  BY DEF KeyInit
<1>2. ring \in Rings /\ ring.head = 0 /\ ring.tail = 0
  BY <1>1, KeyNumbers DEF Rings, KeySlots, Codes
<1>3. << >> \in Seq(Codes) /\ Len(<< >>) = 0
  OBVIOUS
<1>4. KeyShape
  BY <1>1, <1>2, <1>3, KeyNumbers DEF KeyShape, Polls
<1>5. RingSeq(ring.buf, 0, 0, BUF_SIZE) = << >>
  <2> DEFINE b == ring.buf
  <2>1. b \in [0 .. BUF_SIZE - 1 -> Codes] /\ 0 \in 0 .. BUF_SIZE - 1 /\ BUF_SIZE \in Nat \ {0, 1}
    BY <1>2, KeyNumbers DEF Rings, KeySlots
  <2> HIDE DEF b
  <2>2. Lists(RingSeq(b, 0, 0, BUF_SIZE), b, 0, 0, BUF_SIZE, Codes)
    BY <2>1, RingSeqIs
  <2>3. RingSeq(b, 0, 0, BUF_SIZE) \in Seq(Codes) /\ Len(RingSeq(b, 0, 0, BUF_SIZE)) = 0
    BY <2>2 DEF Lists
  <2>4. RingSeq(b, 0, 0, BUF_SIZE) = << >>
    BY <2>3
  <2> QED
    BY <2>4 DEF b
<1>6. PollIsFirst
  BY <1>1, <1>2, <1>5 DEF PollIsFirst, Idle
<1> QED
  BY <1>4, <1>6 DEF KeyInv

\* What the invariant says of the keys.
LEMMA KeyInvShows == KeyInv => KeysInOrder
<1> SUFFICES ASSUME KeyInv, ~twoReaders
             PROVE  /\ typed = RingSeq(ring.buf, ring.head, ring.tail, BUF_SIZE)
                    /\ poll.at = "code" => poll.sc = typed[1]
  BY DEF KeysInOrder, RingSeq
<1>1. PollIsFirst
  BY DEF KeyInv
<1>2. poll.at = "code" => ring.head # ring.tail /\ poll.sc = ring.buf[ring.head]
  BY <1>1, PollsAre DEF PollIsFirst, KeyInv, KeyShape
<1>3. ring.head # ring.tail => RingSeq(ring.buf, ring.head, ring.tail, BUF_SIZE)[1] = ring.buf[ring.head]
  <2> DEFINE b == ring.buf
             rd == ring.head
             wr == ring.tail
  <2>1. /\ b \in [0 .. BUF_SIZE - 1 -> Codes] /\ rd \in 0 .. BUF_SIZE - 1
        /\ wr \in 0 .. BUF_SIZE - 1 /\ BUF_SIZE \in Nat \ {0, 1}
    BY RingIs DEF KeyInv
  <2> HIDE DEF b, rd, wr
  <2>2. rd # wr => FirstIsTaken(b, rd, wr, BUF_SIZE)
    BY <2>1, RingTakes
  <2>3. rd # wr => RingSeq(b, rd, wr, BUF_SIZE)[1] = b[rd]
    BY <2>2 DEF FirstIsTaken
  <2> QED
    BY <2>3 DEF b, rd, wr
<1> QED
  BY <1>1, <1>2, <1>3 DEF PollIsFirst

-----------------------------------------------------------------------------
(* The page cache, the windows and the rings. *)

LEMMA CacheInvAlways == Spec => []PcInv
<1>1. Init => PcInv
  BY PcInitInv DEF Init
<1>2. PcInv /\ [Next]_allVars => PcInv'
  BY PartSteps, PcInvStep
<1> QED
  BY <1>1, <1>2, PTL DEF Spec

\* Every block of the memory disk is empty or a page some program wrote to
\* that block, through allocations, prefetches and flushes that check nothing
\* (pcache.rs).
THEOREM DiskHasOwnPagesCorrect == Spec => []DiskHasOwnPages
<1>1. PcInv => DiskHasOwnPages
  BY DEF PcInv
<1> QED
  BY <1>1, CacheInvAlways, PTL

LEMMA RingInvAlways == Spec => [](WinInv /\ KeyInv)
<1>1. Init => WinInv /\ KeyInv
  BY WinInitInv, KeyInitInv DEF Init, ConsoleInit
<1>2. (WinInv /\ KeyInv) /\ [Next]_allVars => (WinInv /\ KeyInv)'
  BY PartSteps, WinInvStep, KeyInvStep
<1> QED
  BY <1>1, <1>2, PTL DEF Spec

\* What is put into a pipe, the message queue or the keyboard ring comes out in
\* order, once, however interrupts interleave with the loops that use them,
\* unless a packet or a second reader falls between two halves of what a loop
\* does (ipc.rs, wmsg.rs, kbd.rs).
THEOREM QueuesInOrderCorrect == Spec => []QueuesInOrder
<1>1. FilesInv /\ WinInv /\ KeyInv => QueuesInOrder
  BY FilesInvShows, WinInvShows, KeyInvShows DEF QueuesInOrder
<1> QED
  BY <1>1, FilesInvAlways, RingInvAlways, PTL

\* Between two turns of the desktop loop the mouse looks for exactly the
\* windows there are, unless a program set the rectangles itself (wmsg.rs,
\* mouse.rs).
THEOREM RectsMatchWindowsCorrect == Spec => []RectsMatchWindows
<1>1. WinInv => RectsMatchWindows
  BY WinInvShows
<1> QED
  BY <1>1, RingInvAlways, PTL

-----------------------------------------------------------------------------
(* Rings that keep the last entries. *)

\* An index that is less than three turns around.
LEMMA TurnedBack ==
  ASSUME NEW N \in Nat \ {0}, NEW x \in 0 .. 3 * N - 1
  PROVE  x % N = IF x < N THEN x ELSE IF x < 2 * N THEN x - N ELSE x - 2 * N
<1>1. CASE x < N
  BY <1>1, ModIs
<1>2. CASE x >= N /\ x < 2 * N
  <2> DEFINE b == x - N
  <2>1. b \in 0 .. N - 1 /\ x = b + 1 * N
    BY <1>2
  <2> HIDE DEF b
  <2>2. x % N = b
    BY <2>1, ModIs
  <2> QED
    BY <1>2, <2>2 DEF b
<1>3. CASE x >= 2 * N
  <2> DEFINE b == x - 2 * N
  <2>1. b \in 0 .. N - 1 /\ x = b + 2 * N
    BY <1>3
  <2> HIDE DEF b
  <2>2. x % N = b
    BY <2>1, ModIs
  <2> QED
    BY <1>3, <2>2 DEF b
<1> QED
  BY <1>1, <1>2, <1>3

\* The slot of an index within the ring, and the one after it.
LEMMA SlotAfter ==
  ASSUME NEW N \in Nat \ {0}, NEW p \in 0 .. N - 1
  PROVE  /\ p % N = p
         /\ (p + 1) % N = IF p + 1 = N THEN 0 ELSE p + 1
         /\ (p + 1) % N \in 0 .. N - 1
<1> DEFINE x == p + 1
<1>1. /\ p \in 0 .. 3 * N - 1 /\ p < N
      /\ x \in 0 .. 3 * N - 1 /\ x < 2 * N /\ (x < N <=> x # N)
  OBVIOUS
<1> HIDE DEF x
<1>2. p % N = p
  BY <1>1, TurnedBack
<1>3. x % N = IF x < N THEN x ELSE x - N
  BY <1>1, TurnedBack
<1>4. x % N = (IF x = N THEN 0 ELSE x) /\ x % N \in 0 .. N - 1
  BY <1>1, <1>3
<1> QED
  BY <1>2, <1>4 DEF x

\* Sequence s is what a ring of N entries holds when the next one goes to here.
Remembers(s, buf, here, N, S) ==
  /\ s \in Seq(S) /\ Len(s) <= N
  /\ \A i \in 1 .. Len(s) : s[i] = buf[(here + N - Len(s) + i - 1) % N]

\* Written out, the slot of the i-th of the last m entries.
LEMMA SlotOfLast ==
  ASSUME NEW N \in Nat \ {0}, NEW here \in 0 .. N - 1, NEW m \in 0 .. N,
         NEW i \in 1 .. m
  PROVE  /\ (here + N - m + i - 1) % N =
              IF here + i - 1 >= m THEN here + i - 1 - m ELSE here + i - 1 - m + N
         /\ (here + N - m + i - 1) % N \in 0 .. N - 1
<1> DEFINE x == here + N - m + i - 1
<1>1. x \in 0 .. 3 * N - 1 /\ x < 2 * N /\ x = here + i - 1 - m + N
  OBVIOUS
<1> HIDE DEF x
<1>2. x % N = IF x < N THEN x ELSE x - N
  BY <1>1, TurnedBack
<1>3. x % N = IF here + i - 1 >= m THEN here + i - 1 - m ELSE here + i - 1 - m + N
  BY <1>1, <1>2
<1>4. x % N \in 0 .. N - 1
  BY <1>1, <1>2
<1> QED
  BY <1>3, <1>4 DEF x

\* Showing the last m of them.
ShownIsEnd(s, buf, here, N, m) ==
  [i \in 1 .. m |-> buf[(here + N - m + i - 1) % N]]
    = SubSeq(s, Len(s) - m + 1, Len(s))

LEMMA ShowsLast ==
  ASSUME NEW N \in Nat \ {0}, NEW here \in 0 .. N - 1, NEW S, NEW buf, NEW s,
         Remembers(s, buf, here, N, S), NEW m \in 0 .. Len(s)
  PROVE  ShownIsEnd(s, buf, here, N, m)
<1> DEFINE n == Len(s)
           shown == [i \in 1 .. m |-> buf[(here + N - m + i - 1) % N]]
           sub == SubSeq(s, n - m + 1, n)
<1>1. s \in Seq(S) /\ n \in 0 .. N /\ m \in 0 .. n /\ n \in Nat /\ m \in Nat
  BY DEF Remembers
<1>1a. \A i \in 1 .. n : s[i] \in S /\ s[i] = buf[(here + N - n + i - 1) % N]
  BY DEF Remembers
<1> HIDE DEF n
<1>2. ASSUME NEW i \in 1 .. m
      PROVE  /\ n - m + i \in 1 .. n
             /\ buf[(here + N - m + i - 1) % N] = s[n - m + i]
             /\ s[n - m + i] \in S
  <2>1. n - m + i \in 1 .. n /\ here + N - n + (n - m + i) - 1 = here + N - m + i - 1
    BY <1>1
  <2> QED
    BY <1>1a, <2>1
<1>3. shown \in [1 .. m -> S]
  BY <1>2
<1>7. \A i \in 1 .. m : shown[i] = s[n - m + i]
  BY <1>2
<1> HIDE DEF shown
<1>4. shown \in Seq(S) /\ Len(shown) = m /\ \A i \in 1 .. m : shown[i] = s[n - m + i]
  BY <1>1, <1>3, <1>7
<1>5. /\ sub \in Seq(S) /\ Len(sub) = m
      /\ \A i \in 1 .. m : sub[i] = s[n - m + i]
  <2> DEFINE a == n - m + 1
  <2>1. a \in Int /\ n \in Int /\ (\A i \in a .. n : s[i] \in S) /\ sub = SubSeq(s, a, n)
    BY <1>1, <1>1a
  <2>5. n - a + 1 = m /\ (~(a <= n) => m = 0) /\ \A i \in 1 .. m : a + i - 1 = n - m + i
    BY <1>1
  <2> HIDE DEF sub, a, n
  <2>2. /\ sub \in Seq(S)
        /\ Len(sub) = IF a <= n THEN n - a + 1 ELSE 0
        /\ \A i \in 1 .. n - a + 1 : sub[i] = s[a + i - 1]
    BY <2>1, SubSeqProperties
  <2> QED
    BY <2>2, <2>5
<1> HIDE DEF sub
<1>6. shown = sub
  BY <1>4, <1>5, SeqEqual
<1> QED
  BY <1>6 DEF shown, sub, n, ShownIsEnd

\* Writing one more.
OneMoreKept(s, buf, here, next, N, S, e) ==
  LET t == IF Len(s) = N THEN Append(Tail(s), e) ELSE Append(s, e)
  IN  /\ Remembers(t, [buf EXCEPT ![here] = e], next, N, S)
      /\ Len(t) = IF Len(s) = N THEN N ELSE Len(s) + 1

LEMMA RemembersOneMore ==
  ASSUME NEW N \in Nat \ {0}, NEW here \in 0 .. N - 1, NEW S,
         NEW buf \in [0 .. N - 1 -> S], NEW s, Remembers(s, buf, here, N, S),
         NEW e \in S, NEW next \in 0 .. N - 1,
         next = IF here + 1 = N THEN 0 ELSE here + 1
  PROVE  OneMoreKept(s, buf, here, next, N, S, e)
<1> DEFINE n == Len(s)
           new == [buf EXCEPT ![here] = e]
           t == IF Len(s) = N THEN Append(Tail(s), e) ELSE Append(s, e)
           k == IF n = N THEN N - 1 ELSE n
<1>1. s \in Seq(S) /\ n \in 0 .. N /\ n \in Nat /\ k \in 0 .. N - 1 /\ k \in Nat /\ k <= n
  BY DEF Remembers
<1>1a. \A i \in 1 .. n : s[i] = buf[(here + N - n + i - 1) % N]
  BY DEF Remembers
<1>2. new[here] = e /\ \A p \in 0 .. N - 1 : p # here => new[p] = buf[p]
  OBVIOUS
<1>3. /\ t \in Seq(S) /\ Len(t) = k + 1 /\ t[k + 1] = e
      /\ \A i \in 1 .. k : t[i] = s[n - k + i]
  <2>1. CASE n = N
    <3>1. s # <<>>
      BY <1>1, <2>1
    <3>2. /\ Tail(s) \in Seq(S) /\ Len(Tail(s)) = N - 1
          /\ \A i \in 1 .. N - 1 : Tail(s)[i] = s[i + 1]
      BY <1>1, <2>1, <3>1, HeadTailProperties
    <3> DEFINE tl == Tail(s)
    <3> HIDE DEF tl
    <3>3. tl \in Seq(S) /\ Len(tl) = N - 1 /\ \A i \in 1 .. N - 1 : tl[i] = s[i + 1]
      BY <3>2 DEF tl
    <3>4. /\ Append(tl, e) \in Seq(S) /\ Len(Append(tl, e)) = N /\ Append(tl, e)[N] = e
          /\ \A i \in 1 .. N - 1 : Append(tl, e)[i] = tl[i]
      BY <3>3
    <3>5. t = Append(tl, e) /\ k = N - 1
      BY <2>1 DEF tl
    <3>6. \A i \in 1 .. N - 1 : n - k + i = i + 1
      BY <2>1, <3>5
    <3> HIDE DEF t, k, n
    <3>7. k + 1 = N
      BY <3>5
    <3>8. \A i \in 1 .. k : t[i] = s[n - k + i]
      BY <3>3, <3>4, <3>5, <3>6
    <3> QED
      BY <3>4, <3>5, <3>7, <3>8
  <2>2. CASE n # N
    <3>1. t = Append(s, e) /\ k = n
      BY <2>2
    <3>2. /\ Append(s, e) \in Seq(S) /\ Len(Append(s, e)) = n + 1 /\ Append(s, e)[n + 1] = e
          /\ \A i \in 1 .. n : Append(s, e)[i] = s[i]
      BY <1>1
    <3> HIDE DEF t, k, n
    <3>3. \A i \in 1 .. k : n - k + i = i
      BY <1>1, <3>1
    <3> QED
      BY <3>1, <3>2, <3>3
  <2> QED
    BY <2>1, <2>2
<1>4. n - k \in 0 .. 1 /\ (k + 1 = IF n = N THEN N ELSE n + 1) /\ k + 1 <= N
  BY <1>1
<1> HIDE DEF n, new, t, k
<1>5. ASSUME NEW i \in 1 .. k + 1
      PROVE  t[i] = new[(next + N - (k + 1) + i - 1) % N]
  <2> DEFINE q == (next + N - (k + 1) + i - 1) % N
  <2>1. /\ q = IF next + i - 1 >= k + 1 THEN next + i - 1 - (k + 1)
                                        ELSE next + i - 1 - (k + 1) + N
        /\ q \in 0 .. N - 1
    <3>1. k + 1 \in 0 .. N /\ i \in 1 .. k + 1
      BY <1>1
    <3> QED
      BY <3>1, SlotOfLast
  <2> HIDE DEF q
  <2>2. CASE i = k + 1
    <3>1. q = here
      BY <1>1, <2>1, <2>2
    <3> QED
      BY <1>2, <1>3, <2>2, <3>1 DEF q
  <2>3. CASE i # k + 1
    <3>1. i \in 1 .. k /\ n - k + i \in 1 .. n
      BY <1>1, <1>4, <2>3
    <3> DEFINE r == (here + N - n + (n - k + i) - 1) % N
    <3>2. /\ r = IF here + (n - k + i) - 1 >= n THEN here + (n - k + i) - 1 - n
                                              ELSE here + (n - k + i) - 1 - n + N
          /\ r \in 0 .. N - 1
      BY <1>1, <3>1, SlotOfLast
    <3> HIDE DEF r
    <3>6. /\ here + (n - k + i) - 1 - n = here + i - 1 - k
          /\ here + (n - k + i) - 1 >= n <=> here + i - 1 >= k
      BY <1>1, <3>1
    <3>7. r = IF here + i - 1 >= k THEN here + i - 1 - k ELSE here + i - 1 - k + N
      BY <3>2, <3>6
    <3>8. here + 1 = N => q = r
      <4> HAVE here + 1 = N
      <4>1. next = 0 /\ here + i - 1 >= k /\ ~(next + i - 1 >= k + 1)
        BY <1>1, <3>1
      <4> QED
        BY <1>1, <2>1, <3>1, <3>7, <4>1
    <3>9. here + 1 # N => q = r
      <4> HAVE here + 1 # N
      <4>1. next = here + 1
        OBVIOUS
      <4> QED
        BY <1>1, <2>1, <3>1, <3>7, <4>1
    <3>3. q = r
      BY <3>8, <3>9
    <3>4. q # here
      BY <1>1, <2>1, <3>1
    <3>5. t[i] = buf[r]
      BY <1>1a, <1>3, <3>1 DEF r
    <3> QED
      BY <1>2, <2>1, <3>3, <3>4, <3>5 DEF q
  <2> QED
    BY <2>2, <2>3
<1>6. Remembers(t, new, next, N, S) /\ Len(t) = IF n = N THEN N ELSE n + 1
  BY <1>3, <1>4, <1>5 DEF Remembers
<1> QED
  BY <1>6 DEF t, new, n, OneMoreKept

-----------------------------------------------------------------------------
(* The model card: its audit and its account. *)

\* The account of the card is the sum of what it granted, within its budget.
AuditEntry == [tokens : Nat, granted : BOOLEAN]

Account ==
  card.registered /\ spent < TOKEN_MOD =>
    /\ card.tokens = spent
    /\ card.budget \notin {0, Unlimited} => spent <= card.budget

\* The number of entries is counted up to the size of the ring, and the ring
\* remembers that many answers.
CardInv ==
  /\ card \in [registered : BOOLEAN, perm : Perms, budget : Tokens,
               tokens : Tokens, calls : Nat]
  /\ AUDIT \in [0 .. AUDIT_N - 1 -> AuditEntry] /\ AUDIT_POS \in 0 .. AUDIT_N - 1
  /\ Remembers(verdicts, AUDIT, AUDIT_POS, AUDIT_N, AuditEntry)
  /\ AUDIT_NUM = Len(verdicts) /\ spent \in Nat /\ Account

LEMMA TableSizes ==
  /\ NS \in Nat \ {0} /\ SAVES \in Nat \ {0} /\ AUDIT_N \in Nat \ {0}
  /\ MODELS \in Nat \ {0} /\ KONE \in Nat \ {0} /\ TRACE_N \in Nat \ {0}
  /\ NCH \in Nat \ {0} /\ CLIP_MAX \in Nat \ {0} /\ TOKEN_MOD \in Nat \ {0}
  /\ CK \in Nat /\ SAVE_SZ \in Nat /\ CBUF \in Nat /\ SAMPLE_MAX \in Nat
  /\ COUNT_MAX \in Nat /\ SHOWN \in 0 .. TRACE_N
  /\ \A d \in Data : d \in Seq(Nat)
BY TablesAssumption

LEMMA CardInitInv == CardInit => CardInv
<1> SUFFICES ASSUME CardInit
             PROVE  CardInv
  OBVIOUS
<1>1. /\ card = NoCard /\ AUDIT_POS = 0 /\ AUDIT_NUM = 0 /\ verdicts = <<>> /\ spent = 0
      /\ AUDIT = [i \in 0 .. AUDIT_N - 1 |-> [tokens |-> 0, granted |-> TRUE]]
  BY DEF CardInit
<1>2. AUDIT_N \in Nat \ {0} /\ TOKEN_MOD \in Nat \ {0}
  BY TableSizes
<1>3. card \in [registered : BOOLEAN, perm : Perms, budget : Tokens,
                tokens : Tokens, calls : Nat]
  BY <1>1, <1>2 DEF NoCard, Tokens, Perms
<1>4. AUDIT \in [0 .. AUDIT_N - 1 -> AuditEntry] /\ AUDIT_POS \in 0 .. AUDIT_N - 1
  BY <1>1, <1>2 DEF AuditEntry
<1>5. Remembers(verdicts, AUDIT, AUDIT_POS, AUDIT_N, AuditEntry)
  BY <1>1, <1>2 DEF Remembers
<1>6. AUDIT_NUM = Len(verdicts) /\ spent \in Nat /\ Account
  BY <1>1 DEF Account, NoCard
<1> QED
  BY <1>3, <1>4, <1>5, <1>6 DEF CardInv

\* A granted call keeps the account exact as long as nothing wrapped around,
\* and within the budget.
LEMMA CallKeepsAccount ==
  ASSUME CardInv, NEW tokens \in Tokens, NEW need \in Perms, McCall(tokens, need)
  PROVE  /\ card' \in [registered : BOOLEAN, perm : Perms, budget : Tokens,
                       tokens : Tokens, calls : Nat]
         /\ spent' \in Nat /\ Account'
<1> DEFINE ok == need \subseteq card.perm /\ ~OverBudget(tokens)
           sum == (card.tokens + tokens) % TOKEN_MOD
<1>1. /\ card' = IF ~ok THEN card
                 ELSE [card EXCEPT !.tokens = (@ + tokens) % TOKEN_MOD,
                                   !.calls = Lesser(@ + 1, COUNT_MAX)]
      /\ spent' = IF ok THEN Lesser(spent + tokens, TOKEN_MOD) ELSE spent
  BY DEF McCall
<1>2. TOKEN_MOD \in Nat \ {0} /\ COUNT_MAX \in Nat /\ tokens \in 0 .. TOKEN_MOD - 1
      /\ card.tokens \in 0 .. TOKEN_MOD - 1 /\ spent \in Nat /\ card.budget \in Int
  BY TableSizes DEF CardInv, Tokens
<1>3. CASE ~ok
  <2>1. card' = card /\ spent' = spent
    BY <1>1, <1>3
  <2> QED
    BY <2>1 DEF CardInv, Account
<1>4. CASE ok
  <2>1. sum \in Tokens /\ (card.tokens + tokens < TOKEN_MOD => sum = card.tokens + tokens)
    <3> DEFINE x == card.tokens + tokens
    <3>1. x \in 0 .. 3 * TOKEN_MOD - 1 /\ x < 2 * TOKEN_MOD
      BY <1>2
    <3> HIDE DEF x
    <3>2. x % TOKEN_MOD = IF x < TOKEN_MOD THEN x ELSE x - TOKEN_MOD
      BY <1>2, <3>1, TurnedBack
    <3>3. x % TOKEN_MOD \in 0 .. TOKEN_MOD - 1 /\ (x < TOKEN_MOD => x % TOKEN_MOD = x)
      BY <1>2, <3>1, <3>2
    <3> QED
      BY <3>3 DEF x, Tokens
  <2>2. Lesser(card.calls + 1, COUNT_MAX) \in Nat
    BY <1>2 DEF Lesser, CardInv
  <2>3. /\ card' = [card EXCEPT !.tokens = sum,
                                !.calls = Lesser(card.calls + 1, COUNT_MAX)]
        /\ spent' = Lesser(spent + tokens, TOKEN_MOD)
    BY <1>1, <1>4 DEF CardInv
  <2>4. /\ card' \in [registered : BOOLEAN, perm : Perms, budget : Tokens,
                      tokens : Tokens, calls : Nat]
        /\ card'.tokens = sum /\ card'.budget = card.budget
        /\ card'.registered = card.registered
    <3> DEFINE calls == Lesser(card.calls + 1, COUNT_MAX)
    <3> HIDE DEF sum, calls
    <3> QED
      BY <2>1, <2>2, <2>3 DEF CardInv, calls
  <2>5. spent' \in Nat
    BY <1>2, <2>3 DEF Lesser
  <2>6. ~(card.budget \notin {0, Unlimited} /\ sum > card.budget)
    BY <1>4 DEF OverBudget
  <2>7. spent' < TOKEN_MOD => /\ spent < TOKEN_MOD /\ spent' = spent + tokens
                              /\ spent + tokens < TOKEN_MOD
    BY <1>2, <2>3 DEF Lesser
  <2>8. card.registered /\ spent' < TOKEN_MOD =>
          /\ sum = spent'
          /\ card.budget \notin {0, Unlimited} => spent' <= card.budget
    <3> HAVE card.registered /\ spent' < TOKEN_MOD
    <3>1. card.tokens = spent
      BY <2>7 DEF CardInv, Account
    <3>2. sum = spent'
      BY <2>1, <2>7, <3>1
    <3> HIDE DEF sum
    <3>3. sum \in Int
      BY <1>2, <2>1 DEF Tokens
    <3> QED
      BY <1>2, <2>6, <3>2, <3>3
  <2>9. Account'
    BY <2>4, <2>8 DEF Account
  <2> QED
    BY <2>4, <2>5, <2>9
<1> QED
  BY <1>3, <1>4

LEMMA CallKeepsAudit ==
  ASSUME CardInv, NEW tokens \in Tokens, NEW need \in Perms, McCall(tokens, need)
  PROVE  /\ AUDIT' \in [0 .. AUDIT_N - 1 -> AuditEntry] /\ AUDIT_POS' \in 0 .. AUDIT_N - 1
         /\ (Remembers(verdicts, AUDIT, AUDIT_POS, AUDIT_N, AuditEntry))'
         /\ AUDIT_NUM' = Len(verdicts')
<1> DEFINE ok == need \subseteq card.perm /\ ~OverBudget(tokens)
           entry == [tokens |-> tokens, granted |-> ok]
<1>1. /\ AUDIT' = [AUDIT EXCEPT ![SlotOfAudit(AUDIT_POS)] = entry]
      /\ AUDIT_POS' = (AUDIT_POS + 1) % AUDIT_N
      /\ AUDIT_NUM' = Lesser(AUDIT_NUM + 1, AUDIT_N)
      /\ verdicts' = IF Len(verdicts) = AUDIT_N
                     THEN Append(Tail(verdicts), entry)
                     ELSE Append(verdicts, entry)
  BY DEF McCall
<1>2. ok \in BOOLEAN
  BY DEF OverBudget
<1>3. tokens \in Nat
  BY TableSizes DEF Tokens
<1> HIDE DEF ok
<1>4. entry \in AuditEntry
  BY <1>2, <1>3 DEF AuditEntry
<1> HIDE DEF entry
<1>5. AUDIT_N \in Nat \ {0} /\ AUDIT_POS \in 0 .. AUDIT_N - 1 /\ AUDIT_NUM = Len(verdicts)
      /\ AUDIT \in [0 .. AUDIT_N - 1 -> AuditEntry]
      /\ Remembers(verdicts, AUDIT, AUDIT_POS, AUDIT_N, AuditEntry)
  BY TableSizes DEF CardInv
<1>6. PICK next, slot : next = (AUDIT_POS + 1) % AUDIT_N /\ slot = SlotOfAudit(AUDIT_POS)
  OBVIOUS
<1>7. next \in 0 .. AUDIT_N - 1 /\ next = (IF AUDIT_POS + 1 = AUDIT_N THEN 0 ELSE AUDIT_POS + 1)
      /\ slot = AUDIT_POS
  <2>1. slot = AUDIT_POS % AUDIT_N
    BY <1>6 DEF SlotOfAudit
  <2> QED
    BY <1>5, <1>6, <2>1, SlotAfter
<1>8. PICK new, seq : /\ new = [AUDIT EXCEPT ![AUDIT_POS] = entry]
                      /\ seq = IF Len(verdicts) = AUDIT_N
                               THEN Append(Tail(verdicts), entry)
                               ELSE Append(verdicts, entry)
  OBVIOUS
<1>9. /\ Remembers(seq, new, next, AUDIT_N, AuditEntry)
      /\ Len(seq) = IF Len(verdicts) = AUDIT_N THEN AUDIT_N ELSE Len(verdicts) + 1
  <2>1. OneMoreKept(verdicts, AUDIT, AUDIT_POS, next, AUDIT_N, AuditEntry, entry)
    BY <1>4, <1>5, <1>7, RemembersOneMore
  <2> QED
    BY <1>8, <2>1 DEF OneMoreKept
<1>10. AUDIT' = new /\ verdicts' = seq /\ AUDIT_POS' = next
  BY <1>1, <1>6, <1>7, <1>8
<1>11. new \in [0 .. AUDIT_N - 1 -> AuditEntry]
  BY <1>4, <1>5, <1>8
<1>12. Len(verdicts) \in Nat /\ Len(verdicts) <= AUDIT_N
  BY <1>5 DEF Remembers
<1>13. Len(seq) = Lesser(AUDIT_NUM + 1, AUDIT_N)
  BY <1>5, <1>9, <1>12 DEF Lesser
<1>14. (Remembers(verdicts, AUDIT, AUDIT_POS, AUDIT_N, AuditEntry))'
  BY <1>9, <1>10 DEF Remembers, AuditEntry
<1> QED
  BY <1>1, <1>7, <1>10, <1>11, <1>13, <1>14

LEMMA CardInvStep == CardInv /\ [CardNext]_cardVars => CardInv'
<1> SUFFICES ASSUME CardInv, [CardNext]_cardVars
             PROVE  CardInv'
  OBVIOUS
<1>1. ASSUME NEW tokens \in Tokens, NEW need \in Perms, McCall(tokens, need)
      PROVE  CardInv'
  BY <1>1, CallKeepsAccount, CallKeepsAudit DEF CardInv
<1>2. ASSUME NEW perm \in Perms, NEW budget \in Tokens, McRegister(perm, budget)
      PROVE  CardInv'
  <2>1. /\ card' = [registered |-> TRUE, perm |-> perm, budget |-> budget,
                    tokens |-> 0, calls |-> 0]
        /\ spent' = 0 /\ UNCHANGED <<AUDIT, AUDIT_POS, AUDIT_NUM, verdicts>>
    BY <1>2 DEF McRegister
  <2>2. 0 \in Tokens /\ \A b \in Tokens : b >= 0
    BY TableSizes DEF Tokens
  <2>3. card' \in [registered : BOOLEAN, perm : Perms, budget : Tokens,
                   tokens : Tokens, calls : Nat]
    BY <2>1, <2>2
  <2>4. card'.tokens = 0 /\ card'.budget = budget /\ spent' = 0
    BY <2>1
  <2>5. spent' \in Nat /\ Account'
    BY <2>2, <2>4 DEF Account
  <2> QED
    BY <2>1, <2>3, <2>5 DEF CardInv, Remembers
<1>3. CASE UNCHANGED cardVars
  BY <1>3 DEF cardVars, CardInv, Account, Remembers
<1> QED
  BY <1>1, <1>2, <1>3 DEF CardNext

\* 0x7D04 shows the last answers, whatever room it is given.
LEMMA AuditShowsLast ==
  ASSUME CardInv, NEW n \in 0 .. AUDIT_N
  PROVE  McAudit(n) = SubSeq(verdicts, Len(verdicts) - Lesser(n, Len(verdicts)) + 1,
                             Len(verdicts))
<1> DEFINE m == Lesser(n, Len(verdicts))
<1>1. AUDIT_N \in Nat \ {0} /\ AUDIT_POS \in 0 .. AUDIT_N - 1 /\ AUDIT_NUM = Len(verdicts)
      /\ Remembers(verdicts, AUDIT, AUDIT_POS, AUDIT_N, AuditEntry)
  BY TableSizes DEF CardInv
<1>2. Len(verdicts) \in Nat
  BY <1>1 DEF Remembers
<1>3. m \in 0 .. Len(verdicts)
  BY <1>1, <1>2 DEF Lesser
<1>4. McAudit(n) = [i \in 1 .. m |-> AUDIT[(AUDIT_POS + AUDIT_N - m + i - 1) % AUDIT_N]]
  BY <1>1 DEF McAudit
<1> HIDE DEF m
<1>6. ShownIsEnd(verdicts, AUDIT, AUDIT_POS, AUDIT_N, m)
  BY <1>1, <1>3, ShowsLast
<1>5. McAudit(n) = SubSeq(verdicts, Len(verdicts) - m + 1, Len(verdicts))
  BY <1>4, <1>6 DEF ShownIsEnd
<1> QED
  BY <1>5 DEF m

-----------------------------------------------------------------------------
(* The call trace. *)

\* The position, taken modulo the ring, is where the next call is written; the
\* ring is full once the position has passed its end.
TraceInv ==
  /\ TRACE_POS \in 0 .. 2 * TRACE_N - 1 /\ TRACE_RING \in [0 .. TRACE_N - 1 -> Nat]
  /\ Len(traced) = Lesser(TRACE_POS, TRACE_N)
  /\ Remembers(traced, TRACE_RING, TRACE_POS % TRACE_N, TRACE_N, Nat)

\* The position wraps around above the ring, so that a full ring stays full.
LEMMA TraceTurns ==
  ASSUME NEW p \in 0 .. 2 * TRACE_N - 1
  PROVE  /\ TracePos(p) \in 0 .. 2 * TRACE_N - 1 /\ p % TRACE_N \in 0 .. TRACE_N - 1
         /\ p % TRACE_N = IF p < TRACE_N THEN p ELSE p - TRACE_N
         /\ TracePos(p) % TRACE_N = IF (p % TRACE_N) + 1 = TRACE_N THEN 0 ELSE (p % TRACE_N) + 1
         /\ TracePos(p) % TRACE_N \in 0 .. TRACE_N - 1
         /\ Lesser(TracePos(p), TRACE_N) =
              IF Lesser(p, TRACE_N) = TRACE_N THEN TRACE_N ELSE Lesser(p, TRACE_N) + 1
<1> DEFINE q == TracePos(p)
<1>1. TRACE_N \in Nat \ {0}
  BY TableSizes
<1>2. q = IF p + 1 = 2 * TRACE_N THEN TRACE_N ELSE p + 1
  BY DEF TracePos
<1> HIDE DEF q
<1>3. q \in 0 .. 2 * TRACE_N - 1 /\ q \in 0 .. 3 * TRACE_N - 1 /\ p \in 0 .. 3 * TRACE_N - 1
  BY <1>1, <1>2
<1>4. p % TRACE_N = IF p < TRACE_N THEN p ELSE p - TRACE_N
  <2>1. p < 2 * TRACE_N
    BY <1>1
  <2> QED
    BY <1>1, <1>3, <2>1, TurnedBack
<1>5. q % TRACE_N = IF q < TRACE_N THEN q ELSE q - TRACE_N
  <2>1. q < 2 * TRACE_N
    BY <1>1, <1>3
  <2> QED
    BY <1>1, <1>3, <2>1, TurnedBack
<1>6. p % TRACE_N \in 0 .. TRACE_N - 1 /\ q % TRACE_N \in 0 .. TRACE_N - 1
  BY <1>1, <1>3, <1>4, <1>5
<1>7. q % TRACE_N = IF (p % TRACE_N) + 1 = TRACE_N THEN 0 ELSE (p % TRACE_N) + 1
  <2> DEFINE a == p % TRACE_N
             b == q % TRACE_N
  <2>1. /\ a = (IF p < TRACE_N THEN p ELSE p - TRACE_N)
        /\ b = (IF q < TRACE_N THEN q ELSE q - TRACE_N)
        /\ a \in 0 .. TRACE_N - 1 /\ b \in 0 .. TRACE_N - 1
    BY <1>4, <1>5, <1>6
  <2> HIDE DEF a, b
  <2>2. b = IF a + 1 = TRACE_N THEN 0 ELSE a + 1
    BY <1>1, <1>2, <1>3, <2>1
  <2> QED
    BY <2>2 DEF a, b
<1>8. Lesser(q, TRACE_N) =
        IF Lesser(p, TRACE_N) = TRACE_N THEN TRACE_N ELSE Lesser(p, TRACE_N) + 1
  BY <1>1, <1>2 DEF Lesser
<1> QED
  BY <1>3, <1>4, <1>6, <1>7, <1>8 DEF q

LEMMA TraceInitInv == TraceInit => TraceInv
<1> SUFFICES ASSUME TraceInit
             PROVE  TraceInv
  OBVIOUS
<1>1. /\ TRACE_POS = 0 /\ traced = << >> /\ TRACE_RING = [i \in 0 .. TRACE_N - 1 |-> 0]
      /\ TRACE_N \in Nat \ {0}
  BY TableSizes DEF TraceInit
<1> QED
  BY <1>1 DEF TraceInv, Lesser, Remembers

LEMMA NoteKeepsTrace ==
  ASSUME TraceInv, NEW nr \in Nat, TraceNote(nr)
  PROVE  TraceInv'
<1>1. CASE UNCHANGED <<TRACE_RING, TRACE_POS, traced>>
  BY <1>1 DEF TraceInv, Remembers
<1>2. CASE /\ TRACE_RING' = [TRACE_RING EXCEPT ![TRACE_POS % TRACE_N] = nr]
           /\ TRACE_POS' = TracePos(TRACE_POS)
           /\ traced' = IF Len(traced) = TRACE_N THEN Append(Tail(traced), nr)
                        ELSE Append(traced, nr)
  <2>1. PICK here, next, new, seq :
          /\ here = TRACE_POS % TRACE_N /\ next = TracePos(TRACE_POS) % TRACE_N
          /\ new = [TRACE_RING EXCEPT ![TRACE_POS % TRACE_N] = nr]
          /\ seq = IF Len(traced) = TRACE_N THEN Append(Tail(traced), nr)
                   ELSE Append(traced, nr)
    OBVIOUS
  <2>2. /\ TRACE_N \in Nat \ {0} /\ TRACE_POS \in 0 .. 2 * TRACE_N - 1
        /\ TRACE_RING \in [0 .. TRACE_N - 1 -> Nat]
        /\ Len(traced) = Lesser(TRACE_POS, TRACE_N)
        /\ Remembers(traced, TRACE_RING, here, TRACE_N, Nat)
    BY <2>1, TableSizes DEF TraceInv
  <2>3. /\ here \in 0 .. TRACE_N - 1 /\ next \in 0 .. TRACE_N - 1
        /\ next = (IF here + 1 = TRACE_N THEN 0 ELSE here + 1)
        /\ TracePos(TRACE_POS) \in 0 .. 2 * TRACE_N - 1
        /\ Lesser(TracePos(TRACE_POS), TRACE_N) =
             IF Len(traced) = TRACE_N THEN TRACE_N ELSE Len(traced) + 1
    BY <2>1, <2>2, TraceTurns
  <2>4. OneMoreKept(traced, TRACE_RING, here, next, TRACE_N, Nat, nr)
    BY <2>2, <2>3, RemembersOneMore
  <2>5. /\ Remembers(seq, new, next, TRACE_N, Nat)
        /\ Len(seq) = IF Len(traced) = TRACE_N THEN TRACE_N ELSE Len(traced) + 1
    BY <2>1, <2>4 DEF OneMoreKept
  <2>6. new \in [0 .. TRACE_N - 1 -> Nat]
    BY <2>1, <2>2
  <2>7. TRACE_RING' = new /\ traced' = seq /\ TRACE_POS' = TracePos(TRACE_POS)
    BY <1>2, <2>1
  <2>8. TRACE_POS' % TRACE_N = next /\ Lesser(TRACE_POS', TRACE_N) = Len(seq)
    BY <2>1, <2>3, <2>5, <2>7
  <2>9. (Remembers(traced, TRACE_RING, TRACE_POS % TRACE_N, TRACE_N, Nat))'
    BY <2>5, <2>7, <2>8 DEF Remembers
  <2>10. Len(traced') = Lesser(TRACE_POS', TRACE_N)
    BY <2>7, <2>8
  <2>11. TRACE_POS' \in 0 .. 2 * TRACE_N - 1 /\ TRACE_RING' \in [0 .. TRACE_N - 1 -> Nat]
    BY <2>3, <2>6, <2>7
  <2> QED
    BY <2>9, <2>10, <2>11 DEF TraceInv, Lesser
<1> QED
  BY <1>1, <1>2 DEF TraceNote

LEMMA TraceInvStep == TraceInv /\ [TraceNext]_traceVars => TraceInv'
<1>1. TraceInv /\ UNCHANGED traceVars => TraceInv'
  BY DEF traceVars, TraceInv, Remembers
<1>2. TraceInv /\ TraceNext => TraceInv'
  BY NoteKeepsTrace DEF TraceNext, TraceEnable, TraceFilter, OtherCall
<1> QED
  BY <1>1, <1>2

\* 0x7702 shows the last calls that were recorded.
LEMMA TraceShowsLast ==
  TraceInv => TraceShown = SubSeq(traced, Len(traced) - Lesser(SHOWN, Len(traced)) + 1,
                                  Len(traced))
<1> SUFFICES ASSUME TraceInv
             PROVE  TraceShown = SubSeq(traced, Len(traced) - Lesser(SHOWN, Len(traced)) + 1,
                                        Len(traced))
  OBVIOUS
<1> DEFINE m == Lesser(SHOWN, Len(traced))
           here == TRACE_POS % TRACE_N
<1>1. /\ TRACE_N \in Nat \ {0} /\ SHOWN \in 0 .. TRACE_N /\ TRACE_POS \in 0 .. 2 * TRACE_N - 1
      /\ Len(traced) = Lesser(TRACE_POS, TRACE_N) /\ Len(traced) \in 0 .. TRACE_N
      /\ Remembers(traced, TRACE_RING, here, TRACE_N, Nat)
  BY TableSizes DEF TraceInv, Lesser
<1>2. m \in 0 .. Len(traced) /\ m = Lesser(TRACE_POS, SHOWN) /\ m \in 0 .. TRACE_N
  BY <1>1 DEF Lesser
<1>3. here \in 0 .. TRACE_N - 1 /\ here = IF TRACE_POS < TRACE_N THEN TRACE_POS
                                          ELSE TRACE_POS - TRACE_N
  BY <1>1, TraceTurns
<1> HIDE DEF m, here
<1>4. ASSUME NEW k \in 1 .. m
      PROVE  (TRACE_POS + TRACE_N - m + k - 1) % TRACE_N = (here + TRACE_N - m + k - 1) % TRACE_N
  <2> DEFINE x == TRACE_POS + TRACE_N - m + k - 1
             y == here + TRACE_N - m + k - 1
  <2>1. /\ x \in 0 .. 3 * TRACE_N - 1 /\ y \in 0 .. 3 * TRACE_N - 1 /\ y < 2 * TRACE_N
        /\ x = y \/ x = y + TRACE_N
    <3>1. /\ TRACE_N \in Nat /\ m \in 0 .. TRACE_N /\ k \in 1 .. m
          /\ TRACE_POS \in 0 .. 2 * TRACE_N - 1 /\ here \in 0 .. TRACE_N - 1
      BY <1>1, <1>2, <1>3
    <3>2. x \in 0 .. 3 * TRACE_N - 1
      BY <3>1
    <3>3. y \in 0 .. 3 * TRACE_N - 1 /\ y < 2 * TRACE_N
      BY <3>1
    <3>4. here = TRACE_POS \/ here + TRACE_N = TRACE_POS
      BY <1>1, <1>3
    <3>5. x = y \/ x = y + TRACE_N
      BY <3>1, <3>4
    <3> QED
      BY <3>2, <3>3, <3>5
  <2> HIDE DEF x, y
  <2>2. x % TRACE_N = IF x < TRACE_N THEN x
                      ELSE IF x < 2 * TRACE_N THEN x - TRACE_N ELSE x - 2 * TRACE_N
    BY <1>1, <2>1, TurnedBack
  <2>3. y % TRACE_N = IF y < TRACE_N THEN y ELSE y - TRACE_N
    BY <1>1, <2>1, TurnedBack
  <2>4. x % TRACE_N = y % TRACE_N
    BY <1>1, <2>1, <2>2, <2>3
  <2> QED
    BY <2>4 DEF x, y
<1>5. TraceShown = [k \in 1 .. m |-> TRACE_RING[(here + TRACE_N - m + k - 1) % TRACE_N]]
  BY <1>2, <1>4 DEF TraceShown
<1>6. ShownIsEnd(traced, TRACE_RING, here, TRACE_N, m)
  BY <1>1, <1>2, <1>3, ShowsLast
<1>7. TraceShown = SubSeq(traced, Len(traced) - m + 1, Len(traced))
  BY <1>5, <1>6 DEF ShownIsEnd
<1> QED
  BY <1>7 DEF m

-----------------------------------------------------------------------------
(* The registry of models and the image on the drive. *)

\* The two properties of the registry and the drive are inductive as they are.
ImageInv ==
  /\ models \in [0 .. MODELS - 1 -> [size : Nat, active : BOOLEAN]]
  /\ OneActiveModel
  /\ upd \in [pending : BOOLEAN, count : Nat, boot : Nat] /\ cutShort \in BOOLEAN
  /\ UnverifiedIsPending

LEMMA ImageInitInv == ImageInit => ImageInv
<1> SUFFICES ASSUME ImageInit
             PROVE  ImageInv
  OBVIOUS
<1>1. models \in [0 .. MODELS - 1 -> [size : Nat, active : BOOLEAN]]
  BY DEF ImageInit, NotInstalled
<1>2. OneActiveModel
  BY DEF ImageInit, NotInstalled, OneActiveModel
<1>3. upd \in [pending : BOOLEAN, count : Nat, boot : Nat] /\ cutShort \in BOOLEAN
  BY DEF ImageInit
<1>4. UnverifiedIsPending
  <2>1. image.what = "none"
    BY DEF ImageInit
  <2>2. image.what # "damaged"
    BY <2>1
  <2> QED
    BY <2>2 DEF UnverifiedIsPending
<1> QED
  BY <1>1, <1>2, <1>3, <1>4 DEF ImageInv

\* Installing a model takes a free slot, removing and activating one an
\* installed slot.
LEMMA ModelsStep ==
  ASSUME ImageInv,
         \/ \E size \in 0 .. 1 : FupmInstall(size)
         \/ \E idx \in 0 .. MODELS : RegActive(idx) \/ FupmRemove(idx)
  PROVE  ImageInv'
<1>1. /\ models \in [0 .. MODELS - 1 -> [size : Nat, active : BOOLEAN]]
      /\ OneActiveModel /\ MODELS \in Nat \ {0}
  BY TableSizes DEF ImageInv
<1>2. ASSUME NEW size \in 0 .. 1, FupmInstall(size)
      PROVE  ImageInv'
  <2> DEFINE i == LeastOf(FreeModels)
  <2>1. i \in FreeModels
    <3>1. FreeModels \subseteq Nat /\ FreeModels # {}
      BY <1>1, <1>2 DEF FupmInstall, FreeModels
    <3>2. \E least \in FreeModels : \A y \in FreeModels : least <= y
      BY <3>1, Minimum
    <3> QED
      BY <3>2 DEF LeastOf
  <2>2. models' = [models EXCEPT ![i].size = size] /\ UNCHANGED <<image, upd, cutShort>>
    BY <1>2 DEF FupmInstall
  <2> HIDE DEF i
  <2>3. i \in 0 .. MODELS - 1 /\ models[i].size = 0 /\ ~models[i].active
    BY <1>1, <2>1 DEF FreeModels, OneActiveModel
  <2>4. /\ models' \in [0 .. MODELS - 1 -> [size : Nat, active : BOOLEAN]]
        /\ \A k \in 0 .. MODELS - 1 : /\ models'[k].active = models[k].active
                                      /\ k # i => models'[k] = models[k]
    BY <1>1, <2>2, <2>3
  <2>5. OneActiveModel'
    BY <1>1, <2>3, <2>4 DEF OneActiveModel
  <2> QED
    BY <2>2, <2>4, <2>5 DEF ImageInv, UnverifiedIsPending
<1>3. ASSUME NEW idx \in 0 .. MODELS, RegActive(idx) \/ FupmRemove(idx)
      PROVE  ImageInv'
  <2> DEFINE i == Lesser(idx, MODELS - 1)
  <2>1. i \in 0 .. MODELS - 1
    BY <1>1 DEF Lesser
  <2>2. models[i].size # 0 /\ UNCHANGED <<image, upd, cutShort>>
    BY <1>3 DEF RegActive, FupmRemove
  <2>3. \/ models' = [k \in DOMAIN models |-> [models[k] EXCEPT !.active = k = i]]
        \/ models' = [models EXCEPT ![i] = NotInstalled]
    BY <1>3 DEF RegActive, FupmRemove
  <2> HIDE DEF i
  <2>4. CASE models' = [models EXCEPT ![i] = NotInstalled]
    <3>1. /\ models' \in [0 .. MODELS - 1 -> [size : Nat, active : BOOLEAN]]
          /\ ~models'[i].active
          /\ \A k \in 0 .. MODELS - 1 : k # i => models'[k] = models[k]
      BY <1>1, <2>1, <2>4 DEF NotInstalled
    <3>2. OneActiveModel'
      BY <1>1, <3>1 DEF OneActiveModel
    <3> QED
      BY <2>2, <3>1, <3>2 DEF ImageInv, UnverifiedIsPending
  <2>5. CASE models' = [k \in DOMAIN models |-> [models[k] EXCEPT !.active = k = i]]
    <3>1. /\ models' \in [0 .. MODELS - 1 -> [size : Nat, active : BOOLEAN]]
          /\ \A k \in 0 .. MODELS - 1 : /\ models'[k].active <=> k = i
                                        /\ models'[k].size = models[k].size
      BY <1>1, <2>5
    <3>2. models[i].size > 0
      BY <1>1, <2>1, <2>2
    <3>3. OneActiveModel'
      BY <3>1, <3>2 DEF OneActiveModel
    <3> QED
      BY <2>2, <3>1, <3>3 DEF ImageInv, UnverifiedIsPending
  <2> QED
    BY <2>3, <2>4, <2>5
<1> QED
  BY <1>2, <1>3

\* An update that did not read back as it was sent is marked or was cut short,
\* and an installation does not come from an update.
LEMMA UpdApplyKeeps ==
  ASSUME ImageInv, NEW new \in Images, NEW onDrive, UpdApply(new, onDrive)
  PROVE  ImageInv'
<1>1. /\ new.what = "update" /\ UNCHANGED models
      /\ image' = [what |-> onDrive.what, len |-> onDrive.len, from |-> "update"]
      /\ IF new.len > READBACK THEN upd' = upd /\ cutShort' = TRUE
         ELSE /\ cutShort' = FALSE
              /\ upd' = IF onDrive = new
                        THEN [upd EXCEPT !.count = Lesser(@ + 1, COUNT_MAX), !.pending = FALSE]
                        ELSE [upd EXCEPT !.pending = TRUE]
  BY DEF UpdApply
<1>2. upd \in [pending : BOOLEAN, count : Nat, boot : Nat]
  BY DEF ImageInv
<1>3. Lesser(upd.count + 1, COUNT_MAX) \in Nat
  BY <1>2, TableSizes DEF Lesser
<1>4. cutShort' \in BOOLEAN /\ upd' \in [pending : BOOLEAN, count : Nat, boot : Nat]
  BY <1>1, <1>2, <1>3
<1>5. UnverifiedIsPending'
  <2>1. image'.what = onDrive.what
    BY <1>1
  <2>2. onDrive = new => image'.what # "damaged"
    BY <1>1, <2>1
  <2>3. onDrive # new => upd'.pending \/ cutShort'
    BY <1>1, <1>2
  <2> QED
    BY <2>2, <2>3 DEF UnverifiedIsPending
<1>6. OneActiveModel'
  BY <1>1 DEF ImageInv, OneActiveModel
<1> QED
  BY <1>1, <1>4, <1>5, <1>6 DEF ImageInv

LEMMA InstallKeeps ==
  ASSUME ImageInv, NEW onDrive, NEW readable \in BOOLEAN, NEW writes \in BOOLEAN,
         InstInstall(onDrive, readable, writes), bootcount \in Nat
  PROVE  ImageInv' /\ bootcount' \in Nat
<1>1. /\ UNCHANGED <<models, cutShort>>
      /\ image' = [what |-> onDrive.what, len |-> onDrive.len, from |-> "install"]
      /\ upd' = [upd EXCEPT !.boot = (IF readable THEN bootcount ELSE 0) + 1]
      /\ bootcount' = IF writes THEN upd'.boot ELSE bootcount
  BY DEF InstInstall
<1>2. upd \in [pending : BOOLEAN, count : Nat, boot : Nat]
  BY DEF ImageInv
<1>3. upd' \in [pending : BOOLEAN, count : Nat, boot : Nat]
  BY <1>1, <1>2
<1>4. UnverifiedIsPending'
  BY <1>1 DEF UnverifiedIsPending
<1>5. OneActiveModel'
  BY <1>1 DEF ImageInv, OneActiveModel
<1> QED
  BY <1>1, <1>3, <1>4, <1>5 DEF ImageInv

DriveInv == ImageInv /\ bootcount \in Nat

LEMMA DriveInvStep == DriveInv /\ [ImageNext]_imageVars => DriveInv'
<1> SUFFICES ASSUME DriveInv, [ImageNext]_imageVars
             PROVE  DriveInv'
  OBVIOUS
<1>1. CASE UNCHANGED imageVars
  BY <1>1 DEF imageVars, DriveInv, ImageInv, OneActiveModel, UnverifiedIsPending
<1>2. CASE \/ \E size \in 0 .. 1 : FupmInstall(size)
           \/ \E idx \in 0 .. MODELS : RegActive(idx) \/ FupmRemove(idx)
  <2>1. ImageInv'
    BY <1>2, ModelsStep DEF DriveInv
  <2>2. UNCHANGED bootcount
    BY <1>2 DEF FupmInstall, RegActive, FupmRemove
  <2> QED
    BY <2>1, <2>2 DEF DriveInv
<1>3. CASE \E img \in Images : UpdApply(img, img) \/ UpdApply(img, Damaged(img))
  <2>1. ImageInv'
    BY <1>3, UpdApplyKeeps DEF DriveInv
  <2>2. UNCHANGED bootcount
    BY <1>3 DEF UpdApply
  <2> QED
    BY <2>1, <2>2 DEF DriveInv
<1>4. CASE \E img \in Images, readable, writes \in BOOLEAN :
             \/ InstInstall(img, readable, writes)
             \/ InstInstall(Damaged(img), readable, writes)
  BY <1>4, InstallKeeps DEF DriveInv
<1> QED
  BY <1>1, <1>2, <1>3, <1>4 DEF ImageNext

-----------------------------------------------------------------------------
(* The records together. *)

LEMMA RecordSteps ==
  [Next]_allVars => [CardNext]_cardVars /\ [TraceNext]_traceVars /\ [ImageNext]_imageVars
<1>1. UNCHANGED tableVars => UNCHANGED cardVars /\ UNCHANGED traceVars /\ UNCHANGED imageVars
  BY DEF tableVars
<1>2. UNCHANGED allVars => UNCHANGED tableVars
  BY DEF allVars
<1>3. Next => TablesNext \/ UNCHANGED tableVars
  BY DEF Next
<1>4. TablesNext => [CardNext]_cardVars /\ [TraceNext]_traceVars /\ [ImageNext]_imageVars
  BY DEF TablesNext
<1> QED
  BY <1>1, <1>2, <1>3, <1>4

\* The parts that keep records.
RecordsInv == CardInv /\ TraceInv /\ DriveInv

LEMMA RecordsInvAlways == Spec => []RecordsInv
<1>1. Init => RecordsInv
  <2>1. Init => CardInit /\ TraceInit /\ ImageInit
    BY DEF Init, TableInit
  <2>2. ImageInit => bootcount \in Nat
    BY DEF ImageInit
  <2> QED
    BY <2>1, <2>2, CardInitInv, TraceInitInv, ImageInitInv DEF RecordsInv, DriveInv
<1>2. RecordsInv /\ [Next]_allVars => RecordsInv'
  BY RecordSteps, CardInvStep, TraceInvStep, DriveInvStep DEF RecordsInv
<1> QED
  BY <1>1, <1>2, PTL DEF Spec

\* The audit of the model card and the call trace show the last entries in
\* their order, whatever room there is to show them and however often the rings
\* turned; the card's account is the sum of what it granted; at most one model
\* is active; and an update that came out damaged is marked unless it was cut
\* short (modelcard.rs, syscall.rs, modelreg.rs, upd.rs).
THEOREM RecordsHonestCorrect == Spec => []RecordsHonest
<1>1. RecordsInv => RecordsHonest
  <2> SUFFICES ASSUME RecordsInv
               PROVE  RecordsHonest
    OBVIOUS
  <2>1. CardInv /\ TraceInv /\ ImageInv
    BY DEF RecordsInv, DriveInv
  <2>2. \A n \in 0 .. AUDIT_N :
          McAudit(n) = SubSeq(verdicts, Len(verdicts) - Lesser(n, Len(verdicts)) + 1,
                              Len(verdicts))
    BY <2>1, AuditShowsLast
  <2>3. AccountsAgree
    BY <2>1, <2>2, TraceShowsLast DEF CardInv, Account, AccountsAgree
  <2> QED
    BY <2>1, <2>3 DEF ImageInv, RecordsHonest
<1> QED
  BY <1>1, RecordsInvAlways, PTL

-----------------------------------------------------------------------------
(* The editor: rows are counted by the line ends before them. *)

NewlineAt(t, n) == {p \in 1 .. n : t[p] = "nl"}

LEMMA NewlinesIs ==
  ASSUME NEW t, NEW n \in Nat
  PROVE  /\ NewlineAt(t, n) \subseteq 1 .. n /\ IsFiniteSet(NewlineAt(t, n))
         /\ Newlines(t, n) = Cardinality(NewlineAt(t, n)) /\ Newlines(t, n) \in Nat
<1>1. NewlineAt(t, n) \subseteq 1 .. n /\ Newlines(t, n) = Cardinality(NewlineAt(t, n))
  BY DEF NewlineAt, Newlines
<1>2. IsFiniteSet(1 .. n)
  BY FS_Interval
<1>3. IsFiniteSet(NewlineAt(t, n))
  BY <1>1, <1>2, FS_Subset
<1> QED
  BY <1>1, <1>3, FS_CardinalityType

LEMMA NewlineCounted ==
  ASSUME NEW t, NEW n \in Nat
  PROVE  /\ Newlines(t, 0) = 0
         /\ Newlines(t, n + 1) = IF t[n + 1] = "nl" THEN Newlines(t, n) + 1 ELSE Newlines(t, n)
<1>1. NewlineAt(t, 0) = {}
  BY DEF NewlineAt
<1>2. Newlines(t, 0) = 0
  BY <1>1, NewlinesIs, FS_EmptySet
<1>3. CASE t[n + 1] = "nl"
  <2>1. NewlineAt(t, n + 1) = NewlineAt(t, n) \cup {n + 1} /\ n + 1 \notin NewlineAt(t, n)
    BY <1>3 DEF NewlineAt
  <2>2. Cardinality(NewlineAt(t, n) \cup {n + 1}) = Cardinality(NewlineAt(t, n)) + 1
    BY <2>1, NewlinesIs, FS_AddElement
  <2>3. n + 1 \in Nat
    OBVIOUS
  <2>4. Newlines(t, n + 1) = Newlines(t, n) + 1
    BY <2>1, <2>2, <2>3, NewlinesIs
  <2> QED
    BY <1>2, <1>3, <2>4
<1>4. CASE t[n + 1] # "nl"
  <2>1. NewlineAt(t, n + 1) = NewlineAt(t, n)
    BY <1>4 DEF NewlineAt
  <2>2. Newlines(t, n + 1) = Newlines(t, n)
    BY <2>1, NewlinesIs
  <2> QED
    BY <1>2, <1>4, <2>2
<1> QED
  BY <1>3, <1>4

LEMMA NewlinesGrow ==
  ASSUME NEW t, NEW n \in Nat, NEW m \in 0 .. n
  PROVE  /\ Newlines(t, m) <= Newlines(t, n)
         /\ (\A p \in m + 1 .. n : t[p] # "nl") => Newlines(t, m) = Newlines(t, n)
<1>1. NewlineAt(t, m) \subseteq NewlineAt(t, n) /\ m \in Nat
  BY DEF NewlineAt
<1>2. Newlines(t, m) <= Newlines(t, n)
  BY <1>1, NewlinesIs, FS_Subset
<1>3. (\A p \in m + 1 .. n : t[p] # "nl") => NewlineAt(t, m) = NewlineAt(t, n)
  BY DEF NewlineAt
<1> QED
  BY <1>1, <1>2, <1>3, NewlinesIs

LEMMA NewlinesAgree ==
  ASSUME NEW t, NEW u, NEW n \in Nat, \A p \in 1 .. n : t[p] = u[p]
  PROVE  \A m \in 0 .. n : Newlines(t, m) = Newlines(u, m)
<1> SUFFICES ASSUME NEW m \in 0 .. n
             PROVE  Newlines(t, m) = Newlines(u, m)
  OBVIOUS
<1>1. NewlineAt(t, m) = NewlineAt(u, m) /\ m \in Nat
  BY DEF NewlineAt
<1> QED
  BY <1>1, NewlinesIs

\* Row r starts at s, and is n characters long.
Starts(t, r, s) ==
  /\ s \in 0 .. Len(t) /\ Newlines(t, s) = r
  /\ \A p \in 0 .. Len(t) : Newlines(t, p) = r => s <= p

LEMMA LeastInIs ==
  ASSUME NEW S \in SUBSET Nat, S # {}
  PROVE  LeastIn(S) \in S /\ \A y \in S : LeastIn(S) <= y
<1>1. \E x \in S : \A y \in S : x <= y
  BY Minimum
<1> QED
  BY <1>1 DEF LeastIn

LEMMA RowStartIs ==
  ASSUME NEW t \in Seq(EdChars), NEW r \in Nat, r <= Newlines(t, Len(t))
  PROVE  Starts(t, r, RowStart(t, r))
<1> DEFINE starts == {p \in 0 .. Len(t) : Newlines(t, p) = r}
           reached == {p \in 0 .. Len(t) : Newlines(t, p) >= r}
<1>1. Len(t) \in Nat
  OBVIOUS
<1>2. reached \in SUBSET Nat /\ reached # {}
  <2>1. Len(t) \in reached
    BY <1>1, NewlinesIs
  <2> QED
    BY <1>1, <2>1
<1>3. PICK p \in reached : \A y \in reached : p <= y
  BY <1>2, Minimum
<1>4. p \in 0 .. Len(t) /\ Newlines(t, p) >= r /\ Newlines(t, p) \in Nat
  BY <1>1, <1>3, NewlinesIs
<1>5. Newlines(t, p) = r
  <2>1. CASE p = 0
    BY <1>4, <2>1, NewlineCounted
  <2>2. CASE p # 0
    <3>1. p - 1 \in Nat /\ p - 1 \in 0 .. Len(t) /\ ~(p <= p - 1) /\ (p - 1) + 1 = p
      BY <1>4, <2>2
    <3>2. ~(Newlines(t, p - 1) >= r) /\ Newlines(t, p - 1) \in Nat
      BY <1>3, <3>1, NewlinesIs
    <3>3. Newlines(t, p) <= Newlines(t, p - 1) + 1
      <4>1. Newlines(t, (p - 1) + 1) \in {Newlines(t, p - 1) + 1, Newlines(t, p - 1)}
        BY <3>1, NewlineCounted
      <4> QED
        BY <3>1, <3>2, <4>1
    <3> QED
      BY <1>4, <3>2, <3>3
  <2> QED
    BY <2>1, <2>2
<1>6. starts \in SUBSET Nat /\ starts # {}
  BY <1>1, <1>4, <1>5
<1>7. RowStart(t, r) = LeastIn(starts)
  BY <1>6 DEF RowStart
<1> HIDE DEF starts
<1>8. RowStart(t, r) \in starts /\ \A y \in starts : RowStart(t, r) <= y
  BY <1>6, <1>7, LeastInIs
<1> QED
  BY <1>8 DEF starts, Starts

LEMMA StartsOnce ==
  ASSUME NEW t \in Seq(EdChars), NEW r \in Nat, NEW s, NEW q, Starts(t, r, s), Starts(t, r, q)
  PROVE  s = q
<1>1. Len(t) \in Nat
  OBVIOUS
<1> QED
  BY <1>1 DEF Starts

\* The length of the row that starts at s.
Reaches(t, s, n) ==
  /\ n \in 0 .. Len(t) - s
  /\ \A k \in 0 .. Len(t) - s : k < n => s + k # Len(t) /\ t[s + k + 1] # "nl"
  /\ s + n = Len(t) \/ t[s + n + 1] = "nl"

LEMMA RowLenIs ==
  ASSUME NEW t \in Seq(EdChars), NEW r, RowStart(t, r) \in 0 .. Len(t)
  PROVE  Reaches(t, RowStart(t, r), RowLen(t, r))
<1> DEFINE s == RowStart(t, r)
           ends == {n \in 0 .. Len(t) - s : s + n = Len(t) \/ t[s + n + 1] = "nl"}
<1>1. Len(t) \in Nat /\ s \in 0 .. Len(t)
  OBVIOUS
<1>2. RowLen(t, r) = LeastIn(ends)
  BY DEF RowLen
<1> HIDE DEF s
<1>3. ends \in SUBSET Nat
  BY <1>1
<1>4. ends # {}
  <2>1. Len(t) - s \in 0 .. Len(t) - s /\ s + (Len(t) - s) = Len(t)
    BY <1>1
  <2> QED
    BY <2>1
<1> HIDE DEF ends
<1>5. RowLen(t, r) \in ends /\ \A y \in ends : RowLen(t, r) <= y
  BY <1>2, <1>3, <1>4, LeastInIs
<1>6. RowLen(t, r) \in 0 .. Len(t) - s
      /\ (s + RowLen(t, r) = Len(t) \/ t[s + RowLen(t, r) + 1] = "nl")
  BY <1>5 DEF ends
<1>7. ASSUME NEW k \in 0 .. Len(t) - s, k < RowLen(t, r)
      PROVE  s + k # Len(t) /\ t[s + k + 1] # "nl"
  <2>1. ~(RowLen(t, r) <= k)
    BY <1>1, <1>6, <1>7
  <2> QED
    BY <1>5, <2>1 DEF ends
<1> QED
  BY <1>6, <1>7 DEF s, Reaches

\* Where the cursor is.
At(t, r, c) == RowStart(t, r) + c
InText(t, r, c) == r < LineCount(t) /\ c <= RowLen(t, r)

LEMMA CursorIs ==
  ASSUME NEW t \in Seq(EdChars), NEW r \in Nat, NEW c \in Nat, InText(t, r, c)
  PROVE  /\ Starts(t, r, RowStart(t, r)) /\ At(t, r, c) \in 0 .. Len(t)
         /\ RowStart(t, r) <= At(t, r, c) /\ Newlines(t, At(t, r, c)) = r
         /\ \A p \in RowStart(t, r) + 1 .. At(t, r, c) : t[p] # "nl"
<1> DEFINE s == RowStart(t, r)
           n == RowLen(t, r)
<1>1. Len(t) \in Nat /\ Newlines(t, Len(t)) \in Nat
  BY NewlinesIs
<1>2. r <= Newlines(t, Len(t)) /\ c <= n
  BY <1>1 DEF InText, LineCount
<1>3. Starts(t, r, s)
  BY <1>1, <1>2, RowStartIs
<1>4. s \in 0 .. Len(t) /\ Newlines(t, s) = r
  BY <1>3 DEF Starts
<1>5. Reaches(t, s, n)
  BY <1>4, RowLenIs
<1> HIDE DEF s, n
<1>6. n \in 0 .. Len(t) - s /\ \A k \in 0 .. Len(t) - s : k < n => t[s + k + 1] # "nl"
  BY <1>5 DEF Reaches
<1>7. s + c \in 0 .. Len(t) /\ s <= s + c
  BY <1>1, <1>2, <1>4, <1>6
<1>8. ASSUME NEW p \in s + 1 .. s + c
      PROVE  t[p] # "nl"
  <2>1. p - s - 1 \in 0 .. Len(t) - s /\ p - s - 1 < n /\ s + (p - s - 1) + 1 = p
    BY <1>1, <1>2, <1>4, <1>6, <1>8
  <2> QED
    BY <1>6, <2>1
<1>9. Newlines(t, s + c) = r
  <2>1. s + c \in Nat /\ s \in 0 .. s + c
    BY <1>4, <1>7
  <2> QED
    BY <1>4, <1>8, <2>1, NewlinesGrow
<1> QED
  BY <1>3, <1>7, <1>8, <1>9 DEF s, At

\* What changes behind the cursor leaves it in the text, and another character
\* there lets it move on.
LEMMA CursorKept ==
  ASSUME NEW t \in Seq(EdChars), NEW u \in Seq(EdChars), NEW r \in Nat, NEW c \in Nat,
         InText(t, r, c), At(t, r, c) <= Len(u),
         \A p \in 1 .. At(t, r, c) : t[p] = u[p]
  PROVE  /\ InText(u, r, c)
         /\ At(t, r, c) < Len(u) /\ u[At(t, r, c) + 1] # "nl" => InText(u, r, c + 1)
<1> DEFINE s == RowStart(t, r)
           q == At(t, r, c)
<1>1. /\ Starts(t, r, s) /\ q \in 0 .. Len(t) /\ s <= q /\ Newlines(t, q) = r
      /\ q = s + c /\ \A p \in s + 1 .. q : t[p] # "nl"
  BY CursorIs DEF At
<1>2. /\ Len(t) \in Nat /\ Len(u) \in Nat /\ s \in 0 .. Len(t) /\ Newlines(t, s) = r
      /\ \A p \in 0 .. Len(t) : Newlines(t, p) = r => s <= p
  BY <1>1 DEF Starts
<1>3. q <= Len(u) /\ \A p \in 1 .. q : t[p] = u[p]
  OBVIOUS
<1> HIDE DEF s, q
<1>4. \A m \in 0 .. q : Newlines(t, m) = Newlines(u, m)
  <2>1. q \in Nat
    BY <1>1, <1>2
  <2> QED
    BY <1>3, <2>1, NewlinesAgree
<1>5. Newlines(u, q) = r /\ Newlines(u, s) = r
  BY <1>1, <1>2, <1>4
<1>6. Newlines(u, Len(u)) \in Nat /\ r <= Newlines(u, Len(u))
  <2>1. q \in 0 .. Len(u)
    BY <1>1, <1>2, <1>3
  <2> QED
    BY <1>2, <1>5, <2>1, NewlinesGrow, NewlinesIs
<1>7. Starts(u, r, s)
  <2>1. s \in 0 .. Len(u)
    BY <1>1, <1>2, <1>3
  <2>2. ASSUME NEW p \in 0 .. Len(u), Newlines(u, p) = r
        PROVE  s <= p
    <3>1. CASE p <= q
      <4>1. p \in 0 .. q /\ p \in 0 .. Len(t)
        BY <1>1, <1>2, <3>1
      <4> QED
        BY <1>2, <1>4, <2>2, <4>1
    <3>2. CASE ~(p <= q)
      BY <1>1, <1>2, <3>2
    <3> QED
      BY <3>1, <3>2
  <2> QED
    BY <1>5, <2>1, <2>2 DEF Starts
<1>8. RowStart(u, r) = s
  BY <1>6, <1>7, RowStartIs, StartsOnce
<1> DEFINE n == RowLen(u, r)
<1>9. Reaches(u, s, n)
  <2>1. RowStart(u, r) \in 0 .. Len(u)
    BY <1>7, <1>8 DEF Starts
  <2> QED
    BY <1>8, <2>1, RowLenIs
<1> HIDE DEF n
<1>10. n \in 0 .. Len(u) - s /\ (s + n = Len(u) \/ u[s + n + 1] = "nl")
  BY <1>9 DEF Reaches
<1>11. c <= n
  <2> SUFFICES ASSUME n < c
               PROVE  FALSE
    BY <1>1, <1>2, <1>10
  <2>1. s + n # Len(u) /\ s + n + 1 \in s + 1 .. q /\ s + n + 1 \in 1 .. q
    BY <1>1, <1>2, <1>3, <1>10
  <2>2. u[s + n + 1] # "nl"
    BY <1>1, <1>3, <2>1
  <2> QED
    BY <1>10, <2>1, <2>2
<1>12. q < Len(u) /\ u[q + 1] # "nl" => c + 1 <= n
  <2> HAVE q < Len(u) /\ u[q + 1] # "nl"
  <2>1. n # c
    BY <1>1, <1>2, <1>10
  <2> QED
    BY <1>2, <1>10, <1>11, <2>1
<1>13. r < LineCount(u)
  BY <1>6 DEF LineCount
<1> QED
  BY <1>11, <1>12, <1>13 DEF n, q, InText

\* The first column of any row is in the text.
LEMMA RowInText ==
  ASSUME NEW t \in Seq(EdChars), NEW r \in Nat, r < LineCount(t)
  PROVE  InText(t, r, 0) /\ InText(t, r, RowLen(t, r)) /\ RowLen(t, r) \in Nat
<1>1. Len(t) \in Nat /\ Newlines(t, Len(t)) \in Nat
  BY NewlinesIs
<1>2. r <= Newlines(t, Len(t))
  BY <1>1 DEF LineCount
<1>3. Starts(t, r, RowStart(t, r))
  BY <1>1, <1>2, RowStartIs
<1>4. RowStart(t, r) \in 0 .. Len(t)
  BY <1>3 DEF Starts
<1>5. Reaches(t, RowStart(t, r), RowLen(t, r))
  BY <1>4, RowLenIs
<1>6. RowLen(t, r) \in Nat
  BY <1>5 DEF Reaches
<1> QED
  BY <1>6 DEF InText

-----------------------------------------------------------------------------
(* The editor's invariant. *)

\* The text fits its buffer and the cursor is on a row it has.
EdInv ==
  /\ text \in Seq(EdChars) /\ Len(text) <= ED_CAP /\ insert \in BOOLEAN
  /\ row \in Nat /\ col \in Nat /\ InText(text, row, col)

\* Two texts one after the other.
JoinsTo(a, b, S) ==
  /\ a \o b \in Seq(S) /\ Len(a \o b) = Len(a) + Len(b)
  /\ \A p \in 1 .. Len(a) : (a \o b)[p] = a[p]
  /\ Len(b) > 0 => (a \o b)[Len(a) + 1] = b[1]

LEMMA JoinedIs ==
  ASSUME NEW S, NEW a \in Seq(S), NEW b \in Seq(S)
  PROVE  JoinsTo(a, b, S)
<1>1. /\ a \o b \in Seq(S) /\ Len(a \o b) = Len(a) + Len(b)
      /\ \A i \in 1 .. Len(a) + Len(b) : (a \o b)[i] =
           IF i <= Len(a) THEN a[i] ELSE b[i - Len(a)]
  BY ConcatProperties
<1> DEFINE ab == a \o b
           m == Len(a)
           n == Len(b)
<1>2. m \in Nat /\ n \in Nat
  OBVIOUS
<1>3. \A i \in 1 .. m + n : ab[i] = IF i <= m THEN a[i] ELSE b[i - m]
  BY <1>1
<1> HIDE DEF ab, m, n
<1>4. \A p \in 1 .. m : ab[p] = a[p]
  BY <1>2, <1>3
<1>5. n > 0 => ab[m + 1] = b[1]
  <2> HAVE n > 0
  <2>1. m + 1 \in 1 .. m + n /\ ~(m + 1 <= m) /\ (m + 1) - m = 1
    BY <1>2
  <2> QED
    BY <1>3, <2>1
<1> QED
  BY <1>1, <1>4, <1>5 DEF ab, m, n, JoinsTo

\* A text with a character more, or one less, behind a position.
LEMMA InsertedIs ==
  ASSUME NEW t \in Seq(EdChars), NEW q \in 0 .. Len(t), NEW c \in EdChars
  PROVE  /\ InsertAt(t, q + 1, c) \in Seq(EdChars)
         /\ Len(InsertAt(t, q + 1, c)) = Len(t) + 1
         /\ InsertAt(t, q + 1, c)[q + 1] = c
         /\ \A p \in 1 .. q : t[p] = InsertAt(t, q + 1, c)[p]
<1> DEFINE a == SubSeq(t, 1, (q + 1) - 1)
           b == <<c>>
           d == SubSeq(t, q + 1, Len(t))
<1>1. Len(t) \in Nat /\ q \in Nat /\ q <= Len(t) /\ \A p \in 1 .. Len(t) : t[p] \in EdChars
  OBVIOUS
<1>2. a \in Seq(EdChars) /\ Len(a) = q /\ \A p \in 1 .. q : a[p] = t[p]
  <2>1. 1 \in Int /\ (q + 1) - 1 \in Int /\ (q + 1) - 1 = q /\ \A i \in 1 .. (q + 1) - 1 : t[i] \in EdChars
    BY <1>1
  <2>2. /\ a \in Seq(EdChars)
        /\ Len(a) = IF 1 <= (q + 1) - 1 THEN (q + 1) - 1 - 1 + 1 ELSE 0
        /\ \A i \in 1 .. (q + 1) - 1 - 1 + 1 : a[i] = t[1 + i - 1]
    BY <2>1, SubSeqProperties
  <2> HIDE DEF a
  <2> QED
    BY <1>1, <2>2
<1>3. b \in Seq(EdChars) /\ Len(b) = 1 /\ b[1] = c
  OBVIOUS
<1>4. d \in Seq(EdChars) /\ Len(d) = Len(t) - q
  <2>1. q + 1 \in Int /\ Len(t) \in Int /\ \A i \in q + 1 .. Len(t) : t[i] \in EdChars
    BY <1>1
  <2>2. /\ d \in Seq(EdChars)
        /\ Len(d) = IF q + 1 <= Len(t) THEN Len(t) - (q + 1) + 1 ELSE 0
    BY <2>1, SubSeqProperties
  <2> HIDE DEF d
  <2> QED
    BY <1>1, <2>2
<1>5. InsertAt(t, q + 1, c) = (a \o b) \o d
  BY DEF InsertAt
<1> HIDE DEF a, b, d
<1> DEFINE ab == a \o b
<1>6. ab \in Seq(EdChars) /\ Len(ab) = q + 1 /\ (\A p \in 1 .. q : ab[p] = a[p]) /\ ab[q + 1] = b[1]
  <2>1. Len(a) + Len(b) = q + 1 /\ Len(b) > 0
    BY <1>1, <1>2, <1>3
  <2>2. JoinsTo(a, b, EdChars)
    BY <1>2, <1>3, JoinedIs
  <2>3. /\ ab \in Seq(EdChars) /\ Len(ab) = Len(a) + Len(b)
        /\ \A p \in 1 .. Len(a) : ab[p] = a[p]
        /\ Len(b) > 0 => ab[Len(a) + 1] = b[1]
    BY <2>2 DEF JoinsTo
  <2> HIDE DEF ab
  <2> QED
    BY <1>2, <2>1, <2>3
<1>7. ab[q + 1] = c /\ \A p \in 1 .. q : ab[p] = t[p]
  BY <1>2, <1>3, <1>6
<1> HIDE DEF ab
<1>8. /\ ab \o d \in Seq(EdChars) /\ Len(ab \o d) = Len(t) + 1
      /\ \A p \in 1 .. q + 1 : (ab \o d)[p] = ab[p]
  <2>1. /\ ab \o d \in Seq(EdChars) /\ Len(ab \o d) = Len(ab) + Len(d)
        /\ \A p \in 1 .. Len(ab) : (ab \o d)[p] = ab[p]
    <3>1. JoinsTo(ab, d, EdChars)
      BY <1>4, <1>6, JoinedIs
    <3> QED
      BY <3>1 DEF JoinsTo
  <2> QED
    BY <1>1, <1>4, <1>6, <2>1
<1>9. q + 1 \in 1 .. q + 1 /\ \A p \in 1 .. q : p \in 1 .. q + 1
  BY <1>1
<1> QED
  BY <1>5, <1>7, <1>8, <1>9 DEF ab

LEMMA RemovedIs ==
  ASSUME NEW t \in Seq(EdChars), NEW q \in 0 .. Len(t) - 1
  PROVE  /\ RemoveAt(t, q + 1) \in Seq(EdChars)
         /\ Len(RemoveAt(t, q + 1)) = Len(t) - 1
         /\ \A p \in 1 .. q : t[p] = RemoveAt(t, q + 1)[p]
<1> DEFINE a == SubSeq(t, 1, (q + 1) - 1)
           d == SubSeq(t, (q + 1) + 1, Len(t))
<1>1. Len(t) \in Nat /\ q \in Nat /\ q < Len(t) /\ \A p \in 1 .. Len(t) : t[p] \in EdChars
  OBVIOUS
<1>2. a \in Seq(EdChars) /\ Len(a) = q /\ \A p \in 1 .. q : a[p] = t[p]
  <2>1. 1 \in Int /\ (q + 1) - 1 \in Int /\ (q + 1) - 1 = q /\ \A i \in 1 .. (q + 1) - 1 : t[i] \in EdChars
    BY <1>1
  <2>2. /\ a \in Seq(EdChars)
        /\ Len(a) = IF 1 <= (q + 1) - 1 THEN (q + 1) - 1 - 1 + 1 ELSE 0
        /\ \A i \in 1 .. (q + 1) - 1 - 1 + 1 : a[i] = t[1 + i - 1]
    BY <2>1, SubSeqProperties
  <2> HIDE DEF a
  <2> QED
    BY <1>1, <2>2
<1>4. d \in Seq(EdChars) /\ Len(d) = Len(t) - q - 1
  <2>1. (q + 1) + 1 \in Int /\ Len(t) \in Int /\ \A i \in (q + 1) + 1 .. Len(t) : t[i] \in EdChars
    BY <1>1
  <2>2. /\ d \in Seq(EdChars)
        /\ Len(d) = IF (q + 1) + 1 <= Len(t) THEN Len(t) - ((q + 1) + 1) + 1 ELSE 0
    BY <2>1, SubSeqProperties
  <2> HIDE DEF d
  <2> QED
    BY <1>1, <2>2
<1>5. RemoveAt(t, q + 1) = a \o d
  BY DEF RemoveAt
<1> HIDE DEF a, d
<1>6. /\ a \o d \in Seq(EdChars) /\ Len(a \o d) = Len(t) - 1
      /\ \A p \in 1 .. q : (a \o d)[p] = a[p]
  <2>1. /\ a \o d \in Seq(EdChars) /\ Len(a \o d) = Len(a) + Len(d)
        /\ \A p \in 1 .. Len(a) : (a \o d)[p] = a[p]
    <3>1. JoinsTo(a, d, EdChars)
      BY <1>2, <1>4, JoinedIs
    <3> QED
      BY <3>1 DEF JoinsTo
  <2> QED
    BY <1>1, <1>2, <1>4, <2>1
<1> QED
  BY <1>2, <1>5, <1>6

LEMMA EdInitKeeps ==
  ASSUME text = << >>, row = 0, col = 0, insert \in BOOLEAN
  PROVE  EdInv
<1>1. text \in Seq(EdChars) /\ Len(text) = 0 /\ row \in Nat /\ col \in Nat
  OBVIOUS
<1>2. Newlines(text, 0) = 0
  BY NewlineCounted
<1>3. row < LineCount(text)
  BY <1>1, <1>2 DEF LineCount
<1>4. InText(text, row, 0)
  BY <1>1, <1>3, RowInText
<1>5. Len(text) <= ED_CAP
  BY <1>1, ConsoleAssumption
<1> QED
  BY <1>1, <1>4, <1>5 DEF EdInv

LEMMA EdTextKeeps ==
  ASSUME EdInv, NEW t \in Seq(EdChars), EdText(t)
  PROVE  EdInv'
<1> DEFINE u == SubSeq(t, 1, LesserOf(Len(t), ED_CAP))
<1>1. /\ text' = u /\ row' = LineCount(text') - 1 /\ col' = RowLen(text', row')
      /\ insert' = insert
  BY DEF EdText
<1>2. LesserOf(Len(t), ED_CAP) \in 0 .. Len(t) /\ LesserOf(Len(t), ED_CAP) <= ED_CAP
  BY ConsoleAssumption DEF LesserOf
<1>3. u \in Seq(EdChars) /\ Len(u) = LesserOf(Len(t), ED_CAP)
  BY <1>2
<1> HIDE DEF u
<1>4. LineCount(u) - 1 \in Nat /\ LineCount(u) - 1 < LineCount(u)
  <2>1. Newlines(u, Len(u)) \in Nat
    BY <1>3, NewlinesIs
  <2> QED
    BY <2>1 DEF LineCount
<1>5. InText(u, row', RowLen(u, row')) /\ RowLen(u, row') \in Nat /\ row' \in Nat
  BY <1>1, <1>3, <1>4, RowInText
<1>6. text' = u /\ col' = RowLen(u, row') /\ insert' = insert
  BY <1>1
<1> QED
  BY <1>2, <1>3, <1>5, <1>6 DEF EdInv, InText

LEMMA InsCharKeeps ==
  ASSUME EdInv, NEW c \in EdChars, InsChar(c)
  PROVE  EdInv'
<1> DEFINE q == At(text, row, col)
           u == InsertAt(text, q + 1, c)
<1>1. CASE Len(text) >= ED_CAP
  <2>1. UNCHANGED <<text, row, col, insert>>
    BY <1>1 DEF InsChar
  <2> QED
    BY <2>1 DEF EdInv, InText
<1>2. CASE ~(Len(text) >= ED_CAP)
  <2>1. /\ text' = u /\ row' = (IF c = "nl" THEN row + 1 ELSE row)
        /\ col' = (IF c = "nl" THEN 0 ELSE col + 1) /\ insert' = insert
    BY <1>2 DEF InsChar, At
  <2>2. /\ text \in Seq(EdChars) /\ row \in Nat /\ col \in Nat /\ InText(text, row, col)
        /\ insert \in BOOLEAN /\ Len(text) \in Nat /\ ED_CAP \in Nat
    BY ConsoleAssumption DEF EdInv
  <2>3. q \in 0 .. Len(text) /\ Newlines(text, q) = row
    BY <2>2, CursorIs
  <2> HIDE DEF q
  <2>4. /\ u \in Seq(EdChars) /\ Len(u) = Len(text) + 1 /\ u[q + 1] = c
        /\ \A p \in 1 .. q : text[p] = u[p]
    BY <2>2, <2>3, InsertedIs
  <2> HIDE DEF u
  <2>5. q < Len(u) /\ q \in Nat /\ q <= Len(u)
    BY <2>2, <2>3, <2>4
  <2>6. c # "nl" => InText(u, row, col + 1)
    BY <2>2, <2>4, <2>5, CursorKept DEF q
  <2>7. c = "nl" => row + 1 < LineCount(u)
    <3> HAVE c = "nl"
    <3>1. Newlines(u, q) = row
      <4>1. Newlines(text, q) = Newlines(u, q)
        <5>1. q \in 0 .. q
          BY <2>5
        <5> QED
          BY <2>4, <2>5, <5>1, NewlinesAgree
      <4> QED
        BY <2>3, <4>1
    <3>2. Newlines(u, q + 1) = row + 1
      BY <2>4, <2>5, <3>1, NewlineCounted
    <3>3. Newlines(u, q + 1) <= Newlines(u, Len(u)) /\ Newlines(u, Len(u)) \in Nat
      <4>1. Len(u) \in Nat /\ q + 1 \in 0 .. Len(u)
        BY <2>2, <2>3, <2>4
      <4> QED
        BY <4>1, NewlinesGrow, NewlinesIs
    <3> QED
      BY <2>2, <3>2, <3>3 DEF LineCount
  <2>8. c = "nl" => InText(u, row + 1, 0)
    BY <2>2, <2>4, <2>7, RowInText
  <2>9. InText(u, row', col') /\ row' \in Nat /\ col' \in Nat
    BY <2>1, <2>2, <2>6, <2>8
  <2>10. text' = u /\ Len(u) <= ED_CAP /\ insert' \in BOOLEAN
    BY <1>2, <2>1, <2>2, <2>4
  <2> QED
    BY <2>4, <2>9, <2>10 DEF EdInv, InText
<1> QED
  BY <1>1, <1>2

LEMMA DelCharKeeps ==
  ASSUME EdInv, DelChar
  PROVE  EdInv'
<1> DEFINE q == At(text, row, col)
           u == RemoveAt(text, q + 1)
<1>1. CASE q >= Len(text)
  <2>1. UNCHANGED <<text, row, col, insert>>
    BY <1>1 DEF DelChar, At
  <2> QED
    BY <2>1 DEF EdInv, InText
<1>2. CASE ~(q >= Len(text))
  <2>1. /\ text' = u /\ insert' = insert
        /\ \/ row' = row /\ col' = col
           \/ row' = (IF row > 0 THEN row - 1 ELSE row) /\ col' = RowLen(text', row')
    BY <1>2 DEF DelChar, At
  <2>2. /\ text \in Seq(EdChars) /\ row \in Nat /\ col \in Nat /\ InText(text, row, col)
        /\ insert \in BOOLEAN /\ Len(text) \in Nat /\ ED_CAP \in Nat /\ Len(text) <= ED_CAP
    BY ConsoleAssumption DEF EdInv
  <2>3. q \in 0 .. Len(text)
    BY <2>2, CursorIs
  <2> HIDE DEF q
  <2>4. q \in 0 .. Len(text) - 1 /\ q \in Nat
    BY <1>2, <2>2, <2>3
  <2>5. /\ u \in Seq(EdChars) /\ Len(u) = Len(text) - 1
        /\ \A p \in 1 .. q : text[p] = u[p]
    BY <2>2, <2>4, RemovedIs
  <2> HIDE DEF u
  <2>6. q <= Len(u)
    BY <2>2, <2>4, <2>5
  <2>7. InText(u, row, col)
    BY <2>2, <2>5, <2>6, CursorKept DEF q
  <2>8. row < LineCount(u) /\ LineCount(u) \in Nat
    <3>1. Newlines(u, Len(u)) \in Nat
      BY <2>5, NewlinesIs
    <3> QED
      BY <2>7, <3>1 DEF InText, LineCount
  <2>9. text' = u
    BY <2>1
  <2>10. CASE row' = row /\ col' = col
    BY <2>1, <2>2, <2>5, <2>7, <2>10 DEF EdInv, InText
  <2>11. CASE row' = (IF row > 0 THEN row - 1 ELSE row) /\ col' = RowLen(text', row')
    <3>1. row' \in Nat /\ row' < LineCount(u)
      BY <2>2, <2>8, <2>11
    <3>2. InText(u, row', RowLen(u, row')) /\ RowLen(u, row') \in Nat
      BY <2>5, <3>1, RowInText
    <3>3. col' = RowLen(u, row')
      BY <2>9, <2>11
    <3>4. Len(u) <= ED_CAP /\ insert' \in BOOLEAN
      BY <2>1, <2>2, <2>5
    <3> QED
      BY <2>5, <2>9, <3>1, <3>2, <3>3, <3>4 DEF EdInv, InText
  <2> QED
    BY <2>1, <2>10, <2>11
<1> QED
  BY <1>1, <1>2

LEMMA EdKeyKeeps ==
  ASSUME EdInv, NEW k \in EdKeys, EdKey(k)
  PROVE  EdInv'
<1>1. /\ text \in Seq(EdChars) /\ row \in Nat /\ col \in Nat /\ InText(text, row, col)
      /\ insert \in BOOLEAN /\ Len(text) <= ED_CAP
  BY DEF EdInv
<1>2. LineCount(text) \in Nat /\ row < LineCount(text)
  <2>1. Newlines(text, Len(text)) \in Nat
    BY <1>1, NewlinesIs
  <2> QED
    BY <1>1, <2>1 DEF InText, LineCount
<1>3. ASSUME NEW r \in Nat, r < LineCount(text), GoTo(r)
      PROVE  EdInv'
  <2>1. row' = r /\ col' = LesserOf(col, RowLen(text, r)) /\ text' = text /\ insert' = insert
    BY <1>3 DEF GoTo
  <2>2. RowLen(text, r) \in Nat
    BY <1>1, <1>3, RowInText
  <2>3. LesserOf(col, RowLen(text, r)) \in Nat /\ LesserOf(col, RowLen(text, r)) <= RowLen(text, r)
    BY <1>1, <2>2 DEF LesserOf
  <2>4. InText(text, r, LesserOf(col, RowLen(text, r)))
    BY <1>3, <2>3 DEF InText
  <2> QED
    BY <1>1, <1>3, <2>1, <2>3, <2>4 DEF EdInv, InText
<1>4. ASSUME UNCHANGED <<text, row, col>>, insert' \in BOOLEAN
      PROVE  EdInv'
  BY <1>1, <1>4 DEF EdInv, InText
<1>5. ASSUME UNCHANGED <<text, insert, row>>, col' \in {0, RowLen(text, row)}
      PROVE  EdInv'
  <2>1. InText(text, row, 0) /\ InText(text, row, RowLen(text, row)) /\ RowLen(text, row) \in Nat
    BY <1>1, <1>2, RowInText
  <2>2. InText(text, row, col') /\ col' \in Nat
    BY <1>5, <2>1
  <2> QED
    BY <1>1, <1>5, <2>2 DEF EdInv, InText
<1>6. /\ row + 1 < LineCount(text) => row + 1 \in Nat
      /\ row > 0 => row - 1 \in Nat /\ row - 1 < LineCount(text)
  BY <1>1, <1>2
<1> QED
  BY <1>1, <1>3, <1>4, <1>5, <1>6 DEF EdKey

LEMMA EdInvStep == EdInv /\ [EditorNext]_edVars => EdInv'
<1> SUFFICES ASSUME EdInv, [EditorNext]_edVars
             PROVE  EdInv'
  OBVIOUS
<1>1. CASE UNCHANGED edVars
  BY <1>1 DEF edVars, EdInv, InText
<1>2. CASE EdInit
  <2>1. ASSUME text' = << >>, row' = 0, col' = 0, insert' \in BOOLEAN
        PROVE  EdInv'
    <3>1. text' \in Seq(EdChars) /\ Len(text') = 0 /\ row' \in Nat /\ col' \in Nat
      BY <2>1
    <3>2. Newlines(text', 0) = 0
      BY NewlineCounted
    <3>3. row' < LineCount(text')
      BY <2>1, <3>1, <3>2 DEF LineCount
    <3>4. InText(text', row', 0)
      BY <3>1, <3>3, RowInText
    <3>5. Len(text') <= ED_CAP
      BY <3>1, ConsoleAssumption
    <3> QED
      BY <2>1, <3>1, <3>4, <3>5 DEF EdInv, InText
  <2> QED
    BY <1>2, <2>1 DEF EdInit
<1>3. ASSUME NEW n \in 0 .. ED_CAP + 1, NEW t \in [1 .. n -> EdChars], EdText(t)
      PROVE  EdInv'
  <2>1. t \in Seq(EdChars)
    <3>1. n \in Nat
      BY ConsoleAssumption
    <3> QED
      BY <3>1
  <2> QED
    BY <1>3, <2>1, EdTextKeeps
<1> QED
  BY <1>1, <1>2, <1>3, InsCharKeeps, DelCharKeeps, EdKeyKeeps DEF EditorNext

-----------------------------------------------------------------------------
(* The terminal. *)

Cells == {"x", "blank", "y"}

\* The paper has at least the lines that are on the screen.
TermInv ==
  /\ SCR \in [0 .. TH - 1 -> [0 .. TW - 1 -> Cells]]
  /\ SCR_ROW \in 0 .. TH - 1 /\ SCR_COL \in 0 .. TW - 1
  /\ paper \in Seq([0 .. TW - 1 -> Cells]) /\ Len(paper) > SCR_ROW
  /\ TermShowsTail

LEMMA ScreenSizes ==
  /\ TW \in Nat \ {0} /\ TH \in Nat \ {0} /\ TTY_ROWS \in Nat \ {0} /\ TTY_COL \in Nat \ {0}
  /\ BlankRow \in [0 .. TW - 1 -> Cells]
BY ConsoleAssumption DEF BlankRow, Cells

\* What the screen shows when m lines were fed and the cursor is in row r.
ShowsRow(scr, r, lines, m, y) ==
  scr[y] = IF y <= r THEN lines[m - r + y] ELSE BlankRow
ShowsEnd(scr, r, lines, m) == \A y \in 0 .. TH - 1 : ShowsRow(scr, r, lines, m, y)

LEMMA ScreenIs ==
  /\ TermShowsTail <=> (~lapped /\ ~painted => ShowsEnd(SCR, SCR_ROW, paper, Len(paper)))
  /\ TermShowsTail' <=> (~lapped' /\ ~painted' => ShowsEnd(SCR', SCR_ROW', paper', Len(paper')))
BY DEF TermShowsTail, ShowsEnd, ShowsRow, BlankRow

LEMMA TermInitInv == TermInit => TermInv
<1> SUFFICES ASSUME TermInit
             PROVE  TermInv
  OBVIOUS
<1>1. /\ SCR = [y \in 0 .. TH - 1 |-> BlankRow] /\ SCR_ROW = 0 /\ SCR_COL = 0
      /\ paper = <<BlankRow>>
  BY DEF TermInit
<1>2. paper \in Seq([0 .. TW - 1 -> Cells]) /\ Len(paper) = 1 /\ paper[1] = BlankRow
  BY <1>1, ScreenSizes
<1>3. TermShowsTail
  <2> SUFFICES ASSUME NEW y \in 0 .. TH - 1
               PROVE  SCR[y] = IF y <= SCR_ROW THEN paper[Len(paper) - SCR_ROW + y] ELSE BlankRow
    BY DEF TermShowsTail
  <2>1. SCR[y] = BlankRow
    BY <1>1
  <2>2. y <= SCR_ROW => Len(paper) - SCR_ROW + y = 1
    BY <1>1, <1>2
  <2> QED
    BY <1>2, <2>1, <2>2
<1> QED
  BY <1>1, <1>2, <1>3, ScreenSizes DEF TermInv

LEMMA TermNewlineKeeps == TermInv /\ TermNewline => TermInv'
<1> SUFFICES ASSUME TermInv, TermNewline
             PROVE  TermInv'
  OBVIOUS
<1> DEFINE n == Len(paper)
           lines == Append(paper, BlankRow)
<1>1. /\ SCR \in [0 .. TH - 1 -> [0 .. TW - 1 -> Cells]] /\ SCR_ROW \in 0 .. TH - 1
      /\ paper \in Seq([0 .. TW - 1 -> Cells]) /\ n > SCR_ROW /\ n \in Nat
      /\ TH \in Nat \ {0} /\ TW \in Nat \ {0} /\ BlankRow \in [0 .. TW - 1 -> Cells]
  BY ScreenSizes DEF TermInv
<1>2. /\ SCR_COL' = 0 /\ paper' = lines /\ lapped' = lapped /\ painted' = painted
      /\ IF SCR_ROW + 1 >= TH THEN SCR' = Scrolled(SCR) /\ SCR_ROW' = TH - 1
         ELSE SCR' = SCR /\ SCR_ROW' = SCR_ROW + 1
  BY DEF TermNewline
<1>3. /\ lines \in Seq([0 .. TW - 1 -> Cells]) /\ Len(lines) = n + 1
      /\ lines[n + 1] = BlankRow /\ \A i \in 1 .. n : lines[i] = paper[i]
  BY <1>1
<1>4. ~lapped /\ ~painted =>
        \A y \in 0 .. TH - 1 :
          SCR[y] = IF y <= SCR_ROW THEN paper[n - SCR_ROW + y] ELSE BlankRow
  BY DEF TermInv, TermShowsTail
<1> HIDE DEF n, lines
<1>5. CASE SCR_ROW + 1 >= TH
  <2>1. SCR_ROW = TH - 1 /\ SCR_ROW' = TH - 1 /\ SCR' = Scrolled(SCR)
    BY <1>1, <1>2, <1>5
  <2>2. SCR' \in [0 .. TH - 1 -> [0 .. TW - 1 -> Cells]]
    BY <1>1, <2>1 DEF Scrolled
  <2>3. ASSUME ~lapped, ~painted, NEW y \in 0 .. TH - 1
        PROVE  SCR'[y] = lines[n + 1 - (TH - 1) + y]
    <3>1. CASE y = TH - 1
      <4>1. SCR'[y] = BlankRow /\ n + 1 - (TH - 1) + y = n + 1
        BY <1>1, <2>1, <3>1 DEF Scrolled
      <4> QED
        BY <1>3, <4>1
    <3>2. CASE y # TH - 1
      <4>1. SCR'[y] = SCR[y + 1] /\ y + 1 \in 0 .. TH - 1 /\ y + 1 <= SCR_ROW
        BY <1>1, <2>1, <3>2 DEF Scrolled
      <4>2. SCR[y + 1] = paper[n - SCR_ROW + (y + 1)]
        BY <1>4, <2>3, <4>1
      <4>3. n - SCR_ROW + (y + 1) = n + 1 - (TH - 1) + y /\ n + 1 - (TH - 1) + y \in 1 .. n
        BY <1>1, <2>1, <4>1
      <4> QED
        BY <1>3, <4>1, <4>2, <4>3
    <3> QED
      BY <3>1, <3>2
  <2>4. TermShowsTail'
    <3>1. ~lapped /\ ~painted => ShowsEnd(Scrolled(SCR), TH - 1, lines, n + 1)
      <4>1. \A y \in 0 .. TH - 1 : y <= TH - 1
        BY <1>1
      <4>2. ASSUME ~lapped, ~painted, NEW y \in 0 .. TH - 1
            PROVE  ShowsRow(Scrolled(SCR), TH - 1, lines, n + 1, y)
        <5>1. Scrolled(SCR)[y] = lines[n + 1 - (TH - 1) + y]
          BY <2>1, <2>3, <4>2, Zenon
        <5> QED
          BY <1>1, <4>1, <5>1 DEF ShowsRow
      <4> QED
        BY <4>2, Zenon DEF ShowsEnd
    <3>2. /\ SCR' = Scrolled(SCR) /\ SCR_ROW' = TH - 1 /\ paper' = lines /\ Len(paper') = n + 1
          /\ lapped' = lapped /\ painted' = painted
      BY <1>2, <1>3, <2>1
    <3> QED
      BY <3>1, <3>2, ScreenIs, Zenon
  <2> QED
    BY <1>1, <1>2, <1>3, <2>1, <2>2, <2>4 DEF TermInv
<1>6. CASE ~(SCR_ROW + 1 >= TH)
  <2>1. SCR_ROW' = SCR_ROW + 1 /\ SCR' = SCR /\ SCR_ROW + 1 \in 0 .. TH - 1
    BY <1>1, <1>2, <1>6
  <2>2. ASSUME ~lapped, ~painted, NEW y \in 0 .. TH - 1
        PROVE  SCR[y] = IF y <= SCR_ROW + 1 THEN lines[n + 1 - (SCR_ROW + 1) + y] ELSE BlankRow
    <3>1. CASE y <= SCR_ROW
      <4>1. n + 1 - (SCR_ROW + 1) + y = n - SCR_ROW + y /\ n - SCR_ROW + y \in 1 .. n
        BY <1>1, <3>1
      <4>2. SCR[y] = paper[n - SCR_ROW + y] /\ y <= SCR_ROW + 1
        BY <1>1, <1>4, <2>2, <3>1
      <4> QED
        BY <1>3, <4>1, <4>2
    <3>2. CASE y = SCR_ROW + 1
      <4>1. n + 1 - (SCR_ROW + 1) + y = n + 1 /\ ~(y <= SCR_ROW)
        BY <1>1, <3>2
      <4>2. SCR[y] = BlankRow
        BY <1>4, <2>2, <4>1
      <4> QED
        BY <1>1, <1>3, <3>2, <4>1, <4>2
    <3>3. CASE ~(y <= SCR_ROW + 1)
      <4>1. ~(y <= SCR_ROW)
        BY <1>1, <3>3
      <4> QED
        BY <1>4, <2>2, <3>3, <4>1
    <3> QED
      BY <1>1, <3>1, <3>2, <3>3
  <2>3. TermShowsTail'
    <3>1. ~lapped /\ ~painted => ShowsEnd(SCR, SCR_ROW + 1, lines, n + 1)
      <4>1. ASSUME ~lapped, ~painted, NEW y \in 0 .. TH - 1
            PROVE  ShowsRow(SCR, SCR_ROW + 1, lines, n + 1, y)
        BY <1>1, <2>2, <4>1 DEF ShowsRow
      <4> QED
        BY <4>1, Zenon DEF ShowsEnd
    <3>2. /\ SCR' = SCR /\ SCR_ROW' = SCR_ROW + 1 /\ paper' = lines /\ Len(paper') = n + 1
          /\ lapped' = lapped /\ painted' = painted
      BY <1>2, <1>3, <2>1
    <3> QED
      BY <3>1, <3>2, ScreenIs, Zenon
  <2> QED
    BY <1>1, <1>2, <1>3, <2>1, <2>3 DEF TermInv
<1> QED
  BY <1>5, <1>6

LEMMA TermCharKeeps ==
  ASSUME TermInv, NEW c \in {"x", "blank"}, TermChar(c)
  PROVE  TermInv'
<1> DEFINE n == Len(paper)
           breaks == SCR_COL + 1 >= TW
           put == [paper EXCEPT ![n][SCR_COL] = c]
           lines == IF breaks THEN Append(put, BlankRow) ELSE put
           scr == [SCR EXCEPT ![SCR_ROW][SCR_COL] = c]
<1>1. /\ SCR \in [0 .. TH - 1 -> [0 .. TW - 1 -> Cells]] /\ SCR_ROW \in 0 .. TH - 1
      /\ paper \in Seq([0 .. TW - 1 -> Cells]) /\ n > SCR_ROW /\ n \in Nat /\ n \in 1 .. Len(paper)
      /\ TH \in Nat \ {0} /\ TW \in Nat \ {0} /\ BlankRow \in [0 .. TW - 1 -> Cells]
      /\ SCR_COL \in 0 .. TW - 1 /\ c \in Cells
  BY ScreenSizes DEF TermInv, Cells
<1>2. /\ SCR' = scr /\ SCR_COL' = (IF breaks THEN 0 ELSE SCR_COL + 1)
      /\ SCR_ROW' = (IF breaks THEN LesserOf(SCR_ROW + 1, TH - 1) ELSE SCR_ROW)
      /\ paper' = lines /\ painted' = painted
      /\ lapped' = (lapped \/ (breaks /\ SCR_ROW = TH - 1))
  BY DEF TermChar
<1>3. ~lapped /\ ~painted =>
        \A y \in 0 .. TH - 1 :
          SCR[y] = IF y <= SCR_ROW THEN paper[n - SCR_ROW + y] ELSE BlankRow
  BY DEF TermInv, TermShowsTail
<1>4. /\ put \in Seq([0 .. TW - 1 -> Cells]) /\ Len(put) = n
      /\ put[n] = [paper[n] EXCEPT ![SCR_COL] = c]
      /\ \A i \in 1 .. n : i # n => put[i] = paper[i]
  <2>1. paper[n] \in [0 .. TW - 1 -> Cells]
    BY <1>1
  <2>2. [paper[n] EXCEPT ![SCR_COL] = c] \in [0 .. TW - 1 -> Cells]
    BY <1>1, <2>1
  <2> DEFINE now == [paper[n] EXCEPT ![SCR_COL] = c]
  <2>3. put = [paper EXCEPT ![n] = now]
    OBVIOUS
  <2> HIDE DEF now, put
  <2>4. put \in Seq([0 .. TW - 1 -> Cells]) /\ Len(put) = Len(paper)
    BY <1>1, <2>2, <2>3 DEF now
  <2>5. put[n] = now /\ \A i \in 1 .. n : i # n => put[i] = paper[i]
    BY <1>1, <2>3
  <2> QED
    BY <2>4, <2>5 DEF now
<1>5. /\ scr \in [0 .. TH - 1 -> [0 .. TW - 1 -> Cells]]
      /\ scr[SCR_ROW] = [SCR[SCR_ROW] EXCEPT ![SCR_COL] = c]
      /\ \A y \in 0 .. TH - 1 : y # SCR_ROW => scr[y] = SCR[y]
  BY <1>1
<1> HIDE DEF n, put, scr, breaks
\* The row written to shows the last line.
<1>6. ASSUME ~lapped, ~painted, NEW y \in 0 .. TH - 1
      PROVE  scr[y] = IF y <= SCR_ROW THEN put[n - SCR_ROW + y] ELSE BlankRow
  <2>1. SCR[y] = IF y <= SCR_ROW THEN paper[n - SCR_ROW + y] ELSE BlankRow
    BY <1>3, <1>6
  <2>2. CASE y = SCR_ROW
    <3>1. n - SCR_ROW + y = n /\ y <= SCR_ROW
      BY <1>1, <2>2
    <3>2. SCR[SCR_ROW] = paper[n]
      BY <2>1, <2>2, <3>1
    <3> QED
      BY <1>4, <1>5, <2>2, <3>1, <3>2
  <2>3. CASE y # SCR_ROW
    <3>1. scr[y] = SCR[y]
      BY <1>5, <2>3
    <3>2. y <= SCR_ROW => n - SCR_ROW + y \in 1 .. n /\ n - SCR_ROW + y # n
      BY <1>1, <2>3
    <3> QED
      BY <1>4, <2>1, <3>1, <3>2
  <2> QED
    BY <2>2, <2>3
<1>7. CASE ~breaks
  <2>1. /\ SCR_COL' = SCR_COL + 1 /\ SCR_ROW' = SCR_ROW /\ paper' = put /\ (lapped => lapped')
        /\ SCR_COL + 1 \in 0 .. TW - 1
    <3>1. SCR_COL + 1 \in 0 .. TW - 1
      BY <1>1, <1>7 DEF breaks
    <3>2. lapped => lapped'
      BY <1>2
    <3> QED
      BY <1>2, <1>7, <3>1, <3>2
  <2>2. TermShowsTail'
    <3> SUFFICES ASSUME ~lapped, ~painted, NEW y \in 0 .. TH - 1
                 PROVE  SCR'[y] = IF y <= SCR_ROW' THEN paper'[Len(paper') - SCR_ROW' + y]
                                  ELSE BlankRow
      BY <1>2, <2>1 DEF TermShowsTail, BlankRow
    <3> QED
      BY <1>2, <1>4, <1>6, <2>1
  <2> QED
    BY <1>1, <1>2, <1>4, <1>5, <2>1, <2>2 DEF TermInv
<1>8. CASE breaks
  <2> DEFINE more == Append(put, BlankRow)
  <2>1. /\ SCR_COL' = 0 /\ SCR_ROW' = LesserOf(SCR_ROW + 1, TH - 1) /\ paper' = more
        /\ ~lapped' => ~lapped /\ SCR_ROW # TH - 1
    BY <1>2, <1>8
  <2>2. /\ more \in Seq([0 .. TW - 1 -> Cells]) /\ Len(more) = n + 1
        /\ more[n + 1] = BlankRow /\ \A i \in 1 .. n : more[i] = put[i]
    BY <1>1, <1>4
  <2> HIDE DEF more
  <2>3. SCR_ROW' \in 0 .. TH - 1 /\ n + 1 > SCR_ROW' /\ (SCR_ROW # TH - 1 => SCR_ROW' = SCR_ROW + 1)
    BY <1>1, <2>1 DEF LesserOf
  <2>4. ASSUME ~lapped, ~painted, SCR_ROW # TH - 1, NEW y \in 0 .. TH - 1
        PROVE  scr[y] = IF y <= SCR_ROW + 1 THEN more[n + 1 - (SCR_ROW + 1) + y] ELSE BlankRow
    <3>1. scr[y] = IF y <= SCR_ROW THEN put[n - SCR_ROW + y] ELSE BlankRow
      BY <1>6, <2>4
    <3>2. CASE y <= SCR_ROW
      <4>1. n + 1 - (SCR_ROW + 1) + y = n - SCR_ROW + y /\ n - SCR_ROW + y \in 1 .. n /\ y <= SCR_ROW + 1
        BY <1>1, <3>2
      <4> QED
        BY <2>2, <3>1, <3>2, <4>1
    <3>3. CASE y = SCR_ROW + 1
      <4>1. n + 1 - (SCR_ROW + 1) + y = n + 1 /\ ~(y <= SCR_ROW) /\ y <= SCR_ROW + 1
        BY <1>1, <3>3
      <4> QED
        BY <2>2, <3>1, <4>1
    <3>4. CASE ~(y <= SCR_ROW + 1)
      <4>1. ~(y <= SCR_ROW)
        BY <1>1, <3>4
      <4> QED
        BY <3>1, <3>4, <4>1
    <3> QED
      BY <1>1, <3>2, <3>3, <3>4
  <2>5. TermShowsTail'
    <3>1. ~lapped /\ ~painted /\ SCR_ROW # TH - 1 => ShowsEnd(scr, SCR_ROW + 1, more, n + 1)
      <4>1. ASSUME ~lapped, ~painted, SCR_ROW # TH - 1, NEW y \in 0 .. TH - 1
            PROVE  ShowsRow(scr, SCR_ROW + 1, more, n + 1, y)
        BY <1>1, <2>4, <4>1 DEF ShowsRow
      <4> QED
        BY <4>1, Zenon DEF ShowsEnd
    <3>2. SCR' = scr /\ paper' = more /\ Len(paper') = n + 1 /\ painted' = painted
      BY <1>2, <2>1, <2>2
    <3>3. ~lapped' => ~lapped /\ SCR_ROW # TH - 1 /\ SCR_ROW' = SCR_ROW + 1
      BY <2>1, <2>3
    <3> QED
      BY <3>1, <3>2, <3>3, ScreenIs, Zenon
  <2>6. SCR' = scr /\ SCR_COL' \in 0 .. TW - 1 /\ Len(paper') = n + 1 /\ paper' = more
    BY <1>1, <1>2, <2>1, <2>2
  <2> QED
    BY <1>5, <2>2, <2>3, <2>5, <2>6 DEF TermInv
<1> QED
  BY <1>7, <1>8

LEMMA TermInvStep == TermInv /\ [TermNext]_termVars => TermInv'
<1> SUFFICES ASSUME TermInv, [TermNext]_termVars
             PROVE  TermInv'
  OBVIOUS
<1>1. /\ SCR \in [0 .. TH - 1 -> [0 .. TW - 1 -> Cells]]
      /\ SCR_ROW \in 0 .. TH - 1 /\ SCR_COL \in 0 .. TW - 1
      /\ paper \in Seq([0 .. TW - 1 -> Cells]) /\ Len(paper) > SCR_ROW
      /\ TermShowsTail /\ TW \in Nat \ {0}
  BY ScreenSizes DEF TermInv
<1>2. CASE UNCHANGED termVars
  BY <1>2 DEF termVars, TermInv, TermShowsTail, BlankRow
<1>3. CASE TermReturn \/ TermBackspace
  <2>1. UNCHANGED <<SCR, SCR_ROW, paper, lapped, painted>> /\ SCR_COL' \in 0 .. TW - 1
    BY <1>1, <1>3 DEF TermReturn, TermBackspace
  <2>2. TermShowsTail'
    BY <1>1, <2>1 DEF TermShowsTail, BlankRow
  <2> QED
    BY <1>1, <2>1, <2>2 DEF TermInv
<1>4. ASSUME NEW x \in 0 .. TW - 1, NEW y \in 0 .. TH - 1, TermPut(x, y, "y")
      PROVE  TermInv'
  <2>1. /\ SCR' = [SCR EXCEPT ![y][x] = "y"] /\ painted'
        /\ UNCHANGED <<SCR_ROW, SCR_COL, paper>>
    BY <1>4 DEF TermPut
  <2>2. SCR' \in [0 .. TH - 1 -> [0 .. TW - 1 -> Cells]]
    BY <1>1, <2>1 DEF Cells
  <2>3. TermShowsTail'
    BY <2>1 DEF TermShowsTail
  <2> QED
    BY <1>1, <2>1, <2>2, <2>3 DEF TermInv
<1> QED
  BY <1>2, <1>3, <1>4, TermNewlineKeeps, TermCharKeeps DEF TermNext

-----------------------------------------------------------------------------
(* The text of the window program. *)

\* A row of the window holds what was written to a line, then NULs.
RowHolds(l, s) ==
  /\ Len(s) <= TTY_COL - 1
  /\ \A i \in 1 .. Len(s) : l[i - 1] = s[i]
  /\ \A i \in Len(s) .. TTY_COL - 1 : l[i] = "nul"

\* Where the r-th of the last n rows is when the last one is at p.
RowAt(p, n, r) == (p + TTY_ROWS - n + r) % TTY_ROWS

\* As many lines are remembered as the window has rows to hold them, and the
\* column is where the last one ends.
TtyShape ==
  /\ TTY_LINES \in [TtyIndex -> [0 .. TTY_COL - 1 -> TtyChars]]
  /\ TTY_ROW \in 0 .. TTY_ROWS - 1 /\ TTY_ROW_N \in 0 .. TTY_ROWS
  /\ TTY_COL_POS \in 0 .. TTY_COL - 1
  /\ said \in Seq(Seq(TtyChars)) /\ Len(said) = LesserOf(TTY_ROW_N + 1, TTY_ROWS)
  /\ TTY_COL_POS = Len(said[Len(said)])

\* The last TTY_ROW_N rows of the ring hold the last lines that were written,
\* whatever a program before left in the others.
TtyInv ==
  /\ TtyShape
  /\ \A r \in 1 .. TTY_ROW_N :
       RowHolds(TTY_LINES[RowAt(TTY_ROW, TTY_ROW_N, r)], said[Len(said) - TTY_ROW_N + r])

LEMMA RowAtIs ==
  ASSUME NEW p \in 0 .. TTY_ROWS - 1, NEW n \in 0 .. TTY_ROWS, NEW r \in 1 .. n
  PROVE  /\ RowAt(p, n, r) = IF p + r >= n THEN p + r - n ELSE p + r - n + TTY_ROWS
         /\ RowAt(p, n, r) \in 0 .. TTY_ROWS - 1
         /\ RowAt(p, n, r) = p <=> r = n
<1> DEFINE x == p + TTY_ROWS - n + r
<1>1. TTY_ROWS \in Nat \ {0}
  BY ScreenSizes
<1>2. x \in 0 .. 3 * TTY_ROWS - 1 /\ x < 2 * TTY_ROWS /\ x = p + r - n + TTY_ROWS
  BY <1>1
<1>3. x % TTY_ROWS = RowAt(p, n, r)
  BY DEF RowAt
<1> HIDE DEF x
<1>4. x % TTY_ROWS = IF x < TTY_ROWS THEN x ELSE x - TTY_ROWS
  BY <1>1, <1>2, TurnedBack
<1>5. RowAt(p, n, r) = IF p + r >= n THEN p + r - n ELSE p + r - n + TTY_ROWS
  BY <1>1, <1>2, <1>3, <1>4
<1> QED
  BY <1>1, <1>5

\* After a new line the rows above the last are those shown before, but for the
\* first one once the window is full.
RowsMoved(p, n, q, m) ==
  /\ q \in 0 .. TTY_ROWS - 1 /\ m \in 1 .. TTY_ROWS
  /\ \A r \in 1 .. m - 1 :
       LET o == IF n < TTY_ROWS THEN r ELSE r + 1
       IN  /\ o \in 1 .. n /\ RowAt(q, m, r) = RowAt(p, n, o) /\ RowAt(q, m, r) # q

LEMMA RowsMove ==
  ASSUME NEW p \in 0 .. TTY_ROWS - 1, NEW n \in 0 .. TTY_ROWS, NEW q, NEW m,
         q = (p + 1) % TTY_ROWS, m = LesserOf(n + 1, TTY_ROWS)
  PROVE  RowsMoved(p, n, q, m)
<1>1. TTY_ROWS \in Nat \ {0} /\ p \in Nat /\ n \in Nat
  BY ScreenSizes
<1>2. q = IF p + 1 = TTY_ROWS THEN 0 ELSE p + 1
  BY <1>1, SlotAfter
<1>3. q \in 0 .. TTY_ROWS - 1
  BY <1>1, <1>2
<1>4. m \in 1 .. TTY_ROWS /\ m = IF n < TTY_ROWS THEN n + 1 ELSE TTY_ROWS
  BY <1>1 DEF LesserOf
<1>5. ASSUME NEW r \in 1 .. m - 1, NEW o, o = IF n < TTY_ROWS THEN r ELSE r + 1
      PROVE  o \in 1 .. n /\ RowAt(q, m, r) = RowAt(p, n, o) /\ RowAt(q, m, r) # q
  <2>1. o \in 1 .. n /\ r \in 1 .. m /\ r # m
    BY <1>1, <1>4, <1>5
  <2>2. /\ RowAt(q, m, r) = IF q + r >= m THEN q + r - m ELSE q + r - m + TTY_ROWS
        /\ RowAt(q, m, r) = q <=> r = m
    <3>1. m \in 0 .. TTY_ROWS
      BY <1>1, <1>4
    <3> QED
      BY <1>3, <2>1, <3>1, RowAtIs
  <2>3. RowAt(p, n, o) = IF p + o >= n THEN p + o - n ELSE p + o - n + TTY_ROWS
    BY <2>1, RowAtIs
  <2>4. RowAt(q, m, r) = RowAt(p, n, o)
    BY <1>1, <1>2, <1>4, <1>5, <2>1, <2>2, <2>3
  <2> QED
    BY <2>1, <2>2, <2>4
<1> QED
  BY <1>3, <1>4, <1>5 DEF RowsMoved

LEMMA TtyNewlineKeeps == TtyInv /\ TtyNewline => TtyInv'
<1> SUFFICES ASSUME TtyInv, TtyNewline
             PROVE  TtyInv'
  OBVIOUS
<1>1. PICK q, m, k, e, next :
        /\ q = (TTY_ROW + 1) % TTY_ROWS /\ m = LesserOf(TTY_ROW_N + 1, TTY_ROWS)
        /\ k = Len(said) /\ e = << >>
        /\ next = IF k = TTY_ROWS THEN Append(Tail(said), e) ELSE Append(said, e)
  OBVIOUS
<1>2. /\ TTY_ROW' = q /\ TTY_ROW_N' = m /\ TTY_COL_POS' = 0 /\ said' = next
      /\ TTY_LINES' = [TTY_LINES EXCEPT ![q] = EmptyLine]
  BY <1>1 DEF TtyNewline
<1>3. /\ TTY_LINES \in [TtyIndex -> [0 .. TTY_COL - 1 -> TtyChars]]
      /\ TTY_ROW \in 0 .. TTY_ROWS - 1 /\ TTY_ROW_N \in 0 .. TTY_ROWS
      /\ said \in Seq(Seq(TtyChars)) /\ k = LesserOf(TTY_ROW_N + 1, TTY_ROWS)
      /\ TTY_ROWS \in Nat \ {0} /\ TTY_COL \in Nat \ {0}
  BY <1>1, ScreenSizes DEF TtyInv, TtyShape
<1>4. /\ q \in 0 .. TTY_ROWS - 1 /\ m \in 1 .. TTY_ROWS
      /\ \A r \in 1 .. m - 1 :
           LET o == IF TTY_ROW_N < TTY_ROWS THEN r ELSE r + 1
           IN  /\ o \in 1 .. TTY_ROW_N /\ RowAt(q, m, r) = RowAt(TTY_ROW, TTY_ROW_N, o)
               /\ RowAt(q, m, r) # q
  <2>1. RowsMoved(TTY_ROW, TTY_ROW_N, q, m)
    BY <1>1, <1>3, RowsMove
  <2> QED
    BY <2>1 DEF RowsMoved
<1>5. EmptyLine \in [0 .. TTY_COL - 1 -> TtyChars] /\ RowHolds(EmptyLine, e) /\ e \in Seq(TtyChars)
  BY <1>1, <1>3 DEF EmptyLine, TtyChars, RowHolds
<1>6. k \in 1 .. TTY_ROWS /\ k = IF TTY_ROW_N < TTY_ROWS THEN TTY_ROW_N + 1 ELSE TTY_ROWS
  BY <1>3 DEF LesserOf
<1>7. /\ next \in Seq(Seq(TtyChars)) /\ Len(next) = LesserOf(m + 1, TTY_ROWS)
      /\ next[Len(next)] = e
      /\ \A i \in 1 .. Len(next) - 1 : next[i] = IF k = TTY_ROWS THEN said[i + 1] ELSE said[i]
  <2> DEFINE Texts == Seq(TtyChars)
  <2>1. e \in Texts /\ said \in Seq(Texts) /\ Len(said) = k /\ k \in Nat /\ k > 0
    BY <1>1, <1>3, <1>5, <1>6
  <2> HIDE DEF Texts
  <2>2. CASE k = TTY_ROWS
    <3>1. said # << >>
      BY <2>1
    <3> DEFINE tl == Tail(said)
    <3>2. tl \in Seq(Texts) /\ Len(tl) = k - 1 /\ \A i \in 1 .. k - 1 : tl[i] = said[i + 1]
      BY <2>1, <3>1, HeadTailProperties
    <3>3. next = Append(tl, e)
      BY <1>1, <2>2
    <3> HIDE DEF tl
    <3>4. /\ next \in Seq(Texts) /\ Len(next) = k /\ next[k] = e
          /\ \A i \in 1 .. k - 1 : next[i] = tl[i]
      BY <2>1, <3>2, <3>3
    <3>5. LesserOf(m + 1, TTY_ROWS) = k
      BY <1>1, <1>3, <1>4, <1>6, <2>2 DEF LesserOf
    <3> QED
      BY <2>2, <3>2, <3>4, <3>5 DEF Texts
  <2>3. CASE k # TTY_ROWS
    <3>1. next = Append(said, e)
      BY <1>1, <2>3
    <3>2. /\ next \in Seq(Texts) /\ Len(next) = k + 1 /\ next[k + 1] = e
          /\ \A i \in 1 .. k : next[i] = said[i]
      BY <2>1, <3>1
    <3>3. LesserOf(m + 1, TTY_ROWS) = k + 1
      BY <1>1, <1>3, <1>4, <1>6, <2>3 DEF LesserOf
    <3> QED
      BY <1>6, <2>3, <3>2, <3>3 DEF Texts
  <2> QED
    BY <2>2, <2>3
<1>8. TtyShape'
  <2>1. TTY_LINES' \in [TtyIndex -> [0 .. TTY_COL - 1 -> TtyChars]]
    BY <1>2, <1>3, <1>4, <1>5
  <2>2. TTY_COL_POS' \in 0 .. TTY_COL - 1 /\ m \in 0 .. TTY_ROWS
    BY <1>2, <1>3, <1>4
  <2>3. TTY_COL_POS' = Len(said'[Len(said')])
    <3>1. Len(e) = 0
      BY <1>1
    <3> QED
      BY <1>2, <1>7, <3>1
  <2> QED
    BY <1>2, <1>4, <1>7, <2>1, <2>2, <2>3 DEF TtyShape, TtyIndex, TtyChars
<1>9. ASSUME NEW r \in 1 .. m
      PROVE  RowHolds(TTY_LINES'[RowAt(q, m, r)], next[Len(next) - m + r])
  <2>1. CASE r = m
    <3>1. RowAt(q, m, r) = q
      <4>1. m \in 0 .. TTY_ROWS
        BY <1>4
      <4> QED
        BY <1>4, <2>1, <4>1, RowAtIs
    <3>2. TTY_LINES'[q] = EmptyLine
      BY <1>2, <1>3, <1>4 DEF TtyIndex
    <3>3. Len(next) - m + r = Len(next)
      BY <1>4, <1>7, <2>1
    <3> QED
      BY <1>5, <1>7, <3>1, <3>2, <3>3
  <2>2. CASE r # m
    <3>1. r \in 1 .. m - 1
      BY <1>4, <2>2
    <3>2. PICK o : o = IF TTY_ROW_N < TTY_ROWS THEN r ELSE r + 1
      OBVIOUS
    <3>3. /\ o \in 1 .. TTY_ROW_N /\ RowAt(q, m, r) = RowAt(TTY_ROW, TTY_ROW_N, o)
          /\ RowAt(q, m, r) # q
      BY <1>4, <3>1, <3>2
    <3>4. RowAt(TTY_ROW, TTY_ROW_N, o) \in 0 .. TTY_ROWS - 1
      BY <1>3, <3>3, RowAtIs
    <3>5. TTY_LINES'[RowAt(q, m, r)] = TTY_LINES[RowAt(TTY_ROW, TTY_ROW_N, o)]
      BY <1>2, <1>3, <3>3, <3>4 DEF TtyIndex
    <3>6. RowHolds(TTY_LINES[RowAt(TTY_ROW, TTY_ROW_N, o)], said[k - TTY_ROW_N + o])
      BY <1>1, <3>3 DEF TtyInv
    <3>7. Len(next) = IF m < TTY_ROWS THEN m + 1 ELSE TTY_ROWS
      BY <1>3, <1>4, <1>7 DEF LesserOf
    <3>8. /\ Len(next) - m + r \in 1 .. Len(next) - 1
          /\ k - TTY_ROW_N + o = IF k = TTY_ROWS THEN Len(next) - m + r + 1 ELSE Len(next) - m + r
      <4>1. m = k
        BY <1>1, <1>3
      <4> QED
        BY <1>3, <1>4, <1>6, <3>1, <3>2, <3>3, <3>7, <4>1
    <3>9. next[Len(next) - m + r] = said[k - TTY_ROW_N + o]
      BY <1>7, <3>8
    <3> QED
      BY <3>5, <3>6, <3>9
  <2> QED
    BY <2>1, <2>2
<1>10. /\ TTY_ROW' = q /\ TTY_ROW_N' = m /\ said' = next
  BY <1>2
<1>11. (\A r \in 1 .. TTY_ROW_N :
          RowHolds(TTY_LINES[RowAt(TTY_ROW, TTY_ROW_N, r)], said[Len(said) - TTY_ROW_N + r]))'
  BY <1>9, <1>10, Zenon DEF RowAt, RowHolds
<1> QED
  BY <1>8, <1>11 DEF TtyInv

\* A row that holds a line holds it with one more character.
LEMMA RowExtended ==
  ASSUME NEW l \in [0 .. TTY_COL - 1 -> TtyChars], NEW s \in Seq(TtyChars), RowHolds(l, s),
         Len(s) < TTY_COL - 1, NEW c \in TtyChars
  PROVE  RowHolds([l EXCEPT ![Len(s)] = c], Append(s, c))
<1> DEFINE n == Len(s)
           new == [l EXCEPT ![n] = c]
           more == Append(s, c)
<1>1. n \in Nat /\ TTY_COL \in Nat \ {0} /\ n < TTY_COL - 1
  BY ScreenSizes
<1>2. Len(more) = n + 1 /\ more[n + 1] = c /\ \A i \in 1 .. n : more[i] = s[i]
  OBVIOUS
<1>3. new[n] = c /\ \A i \in 0 .. TTY_COL - 1 : i # n => new[i] = l[i]
  BY <1>1
<1>4. (\A i \in 1 .. n : l[i - 1] = s[i]) /\ \A i \in n .. TTY_COL - 1 : l[i] = "nul"
  BY DEF RowHolds
<1> HIDE DEF n, new, more
<1>5. ASSUME NEW i \in 1 .. n + 1
      PROVE  new[i - 1] = more[i]
  <2>1. CASE i = n + 1
    <3>1. i - 1 = n
      BY <1>1, <2>1
    <3> QED
      BY <1>2, <1>3, <2>1, <3>1
  <2>2. CASE i # n + 1
    <3>1. i \in 1 .. n /\ i - 1 \in 0 .. TTY_COL - 1 /\ i - 1 # n
      BY <1>1, <2>2
    <3> QED
      BY <1>2, <1>3, <1>4, <3>1
  <2> QED
    BY <2>1, <2>2
<1>6. ASSUME NEW i \in n + 1 .. TTY_COL - 1
      PROVE  new[i] = "nul"
  <2>1. i \in n .. TTY_COL - 1 /\ i \in 0 .. TTY_COL - 1 /\ i # n
    BY <1>1
  <2> QED
    BY <1>3, <1>4, <2>1
<1>7. RowHolds(new, more)
  BY <1>1, <1>2, <1>5, <1>6 DEF RowHolds
<1> QED
  BY <1>7 DEF n, new, more

LEMMA TtyPutKeeps ==
  ASSUME TtyInv, NEW c \in TtyChars, TtyPut(c)
  PROVE  TtyInv'
<1>1. CASE ~(TTY_COL_POS < TTY_COL - 1)
  <2>1. UNCHANGED ttyVars
    BY <1>1 DEF TtyPut, ttyVars
  <2> QED
    BY <2>1 DEF TtyInv, TtyShape, ttyVars, RowAt, RowHolds, TtyIndex, TtyChars
<1>2. CASE TTY_COL_POS < TTY_COL - 1
  <2>1. PICK k, last, more, next, lines :
          /\ k = Len(said) /\ last = said[k] /\ more = Append(last, c)
          /\ next = [said EXCEPT ![Len(said)] = Append(@, c)]
          /\ lines = [TTY_LINES EXCEPT ![TTY_ROW][TTY_COL_POS] = c]
    OBVIOUS
  <2>2. /\ TTY_LINES' = lines /\ TTY_COL_POS' = TTY_COL_POS + 1 /\ said' = next
        /\ TTY_ROW' = TTY_ROW /\ TTY_ROW_N' = TTY_ROW_N
    BY <1>2, <2>1 DEF TtyPut
  <2>3. /\ TTY_LINES \in [TtyIndex -> [0 .. TTY_COL - 1 -> TtyChars]]
        /\ TTY_ROW \in 0 .. TTY_ROWS - 1 /\ TTY_ROW_N \in 0 .. TTY_ROWS
        /\ TTY_COL_POS \in 0 .. TTY_COL - 1 /\ TTY_COL_POS = Len(last)
        /\ said \in Seq(Seq(TtyChars)) /\ k = LesserOf(TTY_ROW_N + 1, TTY_ROWS)
        /\ TTY_ROWS \in Nat \ {0} /\ TTY_COL \in Nat \ {0}
    BY <2>1, ScreenSizes DEF TtyInv, TtyShape
  <2>4. k \in 1 .. TTY_ROWS /\ k >= TTY_ROW_N
    BY <2>3 DEF LesserOf
  <2>5. /\ last \in Seq(TtyChars) /\ more \in Seq(TtyChars) /\ Len(more) = Len(last) + 1
    <3> DEFINE Texts == Seq(TtyChars)
    <3>1. said \in Seq(Texts) /\ k \in 1 .. Len(said)
      BY <2>1, <2>3, <2>4
    <3> HIDE DEF Texts
    <3>2. last \in Texts
      BY <2>1, <3>1
    <3> QED
      BY <2>1, <3>2 DEF Texts
  <2>6. /\ next \in Seq(Seq(TtyChars)) /\ Len(next) = k /\ next[k] = more
        /\ \A i \in 1 .. k : i # k => next[i] = said[i]
    <3> DEFINE Texts == Seq(TtyChars)
    <3>1. said \in Seq(Texts) /\ k \in 1 .. Len(said) /\ more \in Texts /\ Len(said) = k
      BY <2>1, <2>3, <2>4, <2>5
    <3>2. next = [said EXCEPT ![k] = more]
      BY <2>1
    <3> HIDE DEF Texts
    <3>3. next \in Seq(Texts) /\ Len(next) = k /\ next[k] = more
          /\ \A i \in 1 .. k : i # k => next[i] = said[i]
      BY <3>1, <3>2
    <3> QED
      BY <3>3 DEF Texts
  <2>7. /\ lines \in [TtyIndex -> [0 .. TTY_COL - 1 -> TtyChars]]
        /\ lines[TTY_ROW] = [TTY_LINES[TTY_ROW] EXCEPT ![Len(last)] = c]
        /\ \A i \in TtyIndex : i # TTY_ROW => lines[i] = TTY_LINES[i]
    BY <2>1, <2>3 DEF TtyIndex
  <2>8. TtyShape'
    <3>1. TTY_COL_POS' \in 0 .. TTY_COL - 1 /\ TTY_COL_POS' = Len(more)
      BY <1>2, <2>2, <2>3, <2>5
    <3>2. Len(said') = k /\ said'[Len(said')] = more
      BY <2>2, <2>6
    <3>3. TTY_LINES' \in [TtyIndex -> [0 .. TTY_COL - 1 -> TtyChars]]
      BY <2>2, <2>7
    <3>4. Len(said') = LesserOf(TTY_ROW_N' + 1, TTY_ROWS) /\ said' \in Seq(Seq(TtyChars))
      BY <2>2, <2>3, <2>6, <3>2
    <3> QED
      BY <2>2, <2>3, <3>1, <3>2, <3>3, <3>4 DEF TtyShape, TtyIndex, TtyChars
  <2>9. ASSUME NEW r \in 1 .. TTY_ROW_N
        PROVE  RowHolds(lines[RowAt(TTY_ROW, TTY_ROW_N, r)], next[k - TTY_ROW_N + r])
    <3>1. /\ RowHolds(TTY_LINES[RowAt(TTY_ROW, TTY_ROW_N, r)], said[k - TTY_ROW_N + r])
          /\ RowAt(TTY_ROW, TTY_ROW_N, r) \in TtyIndex
          /\ RowAt(TTY_ROW, TTY_ROW_N, r) = TTY_ROW <=> r = TTY_ROW_N
      BY <2>1, <2>3, RowAtIs DEF TtyInv, TtyIndex
    <3>2. CASE r = TTY_ROW_N
      <4>1. k - TTY_ROW_N + r = k
        BY <2>3, <2>4, <3>2
      <4>2. RowHolds(TTY_LINES[TTY_ROW], last)
        BY <2>1, <3>1, <3>2, <4>1
      <4>3. TTY_LINES[TTY_ROW] \in [0 .. TTY_COL - 1 -> TtyChars] /\ Len(last) < TTY_COL - 1
        BY <1>2, <2>3 DEF TtyIndex
      <4>4. RowHolds([TTY_LINES[TTY_ROW] EXCEPT ![Len(last)] = c], more)
        BY <2>1, <2>5, <4>2, <4>3, RowExtended
      <4> QED
        BY <2>6, <2>7, <3>1, <3>2, <4>1, <4>4
    <3>3. CASE r # TTY_ROW_N
      <4>1. k - TTY_ROW_N + r \in 1 .. k /\ k - TTY_ROW_N + r # k
        BY <2>3, <2>4, <3>3
      <4> QED
        BY <2>6, <2>7, <3>1, <3>3, <4>1
    <3> QED
      BY <3>2, <3>3
  <2>10. Len(said') = k /\ said' = next /\ TTY_LINES' = lines
    BY <2>2, <2>6
  <2>11. ASSUME NEW r \in 1 .. TTY_ROW_N'
         PROVE  RowHolds(TTY_LINES'[RowAt(TTY_ROW', TTY_ROW_N', r)],
                         said'[Len(said') - TTY_ROW_N' + r])
    <3>1. r \in 1 .. TTY_ROW_N
      BY <2>2
    <3>2. RowHolds(lines[RowAt(TTY_ROW, TTY_ROW_N, r)], next[k - TTY_ROW_N + r])
      BY <2>9, <3>1
    <3> QED
      BY <2>2, <2>10, <3>2
  <2> QED
    BY <2>8, <2>11 DEF TtyInv, RowAt, RowHolds
<1> QED
  BY <1>1, <1>2

LEMMA TtyBeginning ==
  ASSUME NEW e, e = << >>
  PROVE  /\ <<e>> \in Seq(Seq(TtyChars)) /\ Len(<<e>>) = 1 /\ <<e>>[1] = e /\ Len(e) = 0
         /\ LesserOf(0 + 1, TTY_ROWS) = 1
<1> DEFINE Texts == Seq(TtyChars)
<1>1. e \in Texts
  OBVIOUS
<1> HIDE DEF Texts
<1>2. <<e>> \in Seq(Texts) /\ Len(<<e>>) = 1 /\ <<e>>[1] = e
  BY <1>1
<1>3. LesserOf(0 + 1, TTY_ROWS) = 1
  BY ScreenSizes DEF LesserOf
<1> QED
  BY <1>2, <1>3 DEF Texts

LEMMA TtyInitInv == TtyInit => TtyInv
<1> SUFFICES ASSUME TtyInit
             PROVE  TtyInv
  OBVIOUS
<1>1. PICK e : e = << >>
  OBVIOUS
<1>2. /\ TTY_LINES = [i \in TtyIndex |-> EmptyLine]
      /\ TTY_ROW = 0 /\ TTY_ROW_N = 0 /\ TTY_COL_POS = 0 /\ said = <<e>>
  BY <1>1 DEF TtyInit
<1>3. EmptyLine \in [0 .. TTY_COL - 1 -> TtyChars]
  BY DEF EmptyLine, TtyChars
<1>4. TtyShape
  BY <1>1, <1>2, <1>3, TtyBeginning, ScreenSizes DEF TtyShape
<1> QED
  BY <1>2, <1>4 DEF TtyInv

LEMMA TtyRestartKeeps == TtyInv /\ TtyRestart => TtyInv'
<1> SUFFICES ASSUME TtyInv, TtyRestart
             PROVE  TtyInv'
  OBVIOUS
<1>1. PICK e : e = << >>
  OBVIOUS
<1>2. /\ TTY_LINES' = TTY_LINES
      /\ TTY_ROW' = 0 /\ TTY_ROW_N' = 0 /\ TTY_COL_POS' = 0 /\ said' = <<e>>
  BY <1>1 DEF TtyRestart
<1>3. TTY_LINES \in [TtyIndex -> [0 .. TTY_COL - 1 -> TtyChars]]
  BY DEF TtyInv, TtyShape
<1>4. TtyShape'
  <2>1. Len(said') = 1 /\ said' \in Seq(Seq(TtyChars)) /\ Len(said'[Len(said')]) = 0
        /\ LesserOf(TTY_ROW_N' + 1, TTY_ROWS) = 1
    BY <1>1, <1>2, TtyBeginning
  <2> QED
    BY <1>2, <1>3, <2>1, ScreenSizes DEF TtyShape, TtyIndex, TtyChars
<1> QED
  BY <1>2, <1>4 DEF TtyInv

LEMMA TtyInvStep == TtyInv /\ [TtyNext]_ttyVars => TtyInv'
<1>1. TtyInv /\ UNCHANGED ttyVars => TtyInv'
  BY DEF TtyInv, TtyShape, ttyVars, RowAt, RowHolds, TtyIndex, TtyChars
<1> QED
  BY <1>1, TtyNewlineKeeps, TtyPutKeeps, TtyRestartKeeps DEF TtyNext

\* What is drawn of a row is what is printable of the line it holds.
UpToNul(l) ==
  LET stops == {i \in 1 .. Len(l) : l[i] = "nul"}
  IN  IF stops = {} THEN l ELSE SubSeq(l, 1, LeastIn(stops) - 1)

LEMMA PrintedIs ==
  ASSUME NEW l, NEW s, UpToNul(l) = UpToNul(s)
  PROVE  Printed(l) = Printed(s)
BY DEF Printed, UpToNul

LEMMA RowIsPrinted ==
  ASSUME NEW l \in [0 .. TTY_COL - 1 -> TtyChars], NEW s \in Seq(TtyChars), RowHolds(l, s)
  PROVE  Printed([i \in 1 .. TTY_COL |-> l[i - 1]]) = Printed(s)
<1> DEFINE w == [i \in 1 .. TTY_COL |-> l[i - 1]]
           n == Len(s)
<1>1. n \in Nat /\ TTY_COL \in Nat \ {0} /\ n <= TTY_COL - 1
  BY ScreenSizes DEF RowHolds
<1>2. (\A i \in 1 .. n : l[i - 1] = s[i]) /\ \A i \in n .. TTY_COL - 1 : l[i] = "nul"
  BY DEF RowHolds
<1>3. w \in [1 .. TTY_COL -> TtyChars] /\ \A i \in 1 .. TTY_COL : w[i] = l[i - 1]
  BY <1>1
<1> HIDE DEF w
<1>4. w \in Seq(TtyChars) /\ Len(w) = TTY_COL
  BY <1>1, <1>3
<1>5. s \in Seq(TtyChars) /\ Len(s) = n /\ \A i \in 1 .. n : s[i] \in TtyChars
  OBVIOUS
<1> HIDE DEF n
<1>6. (\A i \in 1 .. n : w[i] = s[i]) /\ \A i \in n + 1 .. TTY_COL : w[i] = "nul"
  <2>1. \A i \in 1 .. n : w[i] = s[i]
    BY <1>1, <1>2, <1>3
  <2>2. ASSUME NEW i \in n + 1 .. TTY_COL
        PROVE  w[i] = "nul"
    <3>1. i \in 1 .. TTY_COL /\ i - 1 \in n .. TTY_COL - 1
      BY <1>1
    <3> QED
      BY <1>2, <1>3, <3>1
  <2> QED
    BY <2>1, <2>2
<1> DEFINE ws == {i \in 1 .. Len(w) : w[i] = "nul"}
           ss == {i \in 1 .. Len(s) : s[i] = "nul"}
           p == LeastIn(ws)
<1>7. ws \in SUBSET Nat /\ n + 1 \in ws /\ ss \in SUBSET Nat
  <2>1. n + 1 \in 1 .. Len(w) /\ n + 1 \in n + 1 .. TTY_COL
    BY <1>1, <1>4
  <2>2. w[n + 1] = "nul"
    BY <1>6, <2>1
  <2> QED
    BY <1>1, <1>4, <1>5, <2>1, <2>2
<1>8. p \in ws /\ \A i \in ws : p <= i
  BY <1>7, LeastInIs
<1>9. p \in 1 .. n + 1 /\ w[p] = "nul" /\ \A i \in 1 .. p - 1 : w[i] # "nul"
  <2>1. p \in 1 .. TTY_COL /\ w[p] = "nul" /\ p <= n + 1
    BY <1>4, <1>7, <1>8
  <2> HIDE DEF p
  <2>2. ASSUME NEW i \in 1 .. p - 1
        PROVE  w[i] # "nul"
    <3>1. i \in 1 .. Len(w) /\ ~(p <= i)
      BY <1>1, <1>4, <2>1
    <3>2. i \notin ws
      BY <1>8, <3>1
    <3> QED
      BY <3>1, <3>2
  <2> QED
    BY <1>1, <2>1, <2>2
<1>10. UpToNul(w) = SubSeq(w, 1, p - 1)
  <2>1. ws # {}
    BY <1>7
  <2> QED
    BY <2>1 DEF UpToNul
<1>11. UpToNul(s) = SubSeq(s, 1, p - 1)
  <2>1. CASE ss = {}
    <3>1. UpToNul(s) = s
      BY <2>1 DEF UpToNul
    <3>2. p = n + 1
      <4> SUFFICES ASSUME p # n + 1
                   PROVE  FALSE
        OBVIOUS
      <4>1. p \in 1 .. n
        BY <1>1, <1>9
      <4>2. s[p] = "nul"
        BY <1>6, <1>9, <4>1
      <4> QED
        BY <1>5, <2>1, <4>1, <4>2
    <3> HIDE DEF p
    <3>3. SubSeq(s, 1, p - 1) = s
      <4>1. p - 1 = Len(s)
        BY <1>1, <1>5, <3>2
      <4>2. SubSeq(s, 1, Len(s)) = s
        BY <1>5
      <4> QED
        BY <4>1, <4>2
    <3> QED
      BY <3>1, <3>3
  <2>2. CASE ss # {}
    <3> DEFINE q == LeastIn(ss)
    <3>1. q \in ss /\ \A i \in ss : q <= i
      BY <1>7, <2>2, LeastInIs
    <3>2. q \in 1 .. n /\ s[q] = "nul"
      BY <1>5, <3>1
    <3>3. UpToNul(s) = SubSeq(s, 1, q - 1)
      BY <2>2 DEF UpToNul
    <3> HIDE DEF q, p
    <3>4. q \in ws
      BY <1>1, <1>4, <1>6, <3>2
    <3>5. p <= q
      BY <1>8, <3>4
    <3>6. p \in 1 .. n /\ s[p] = "nul"
      BY <1>1, <1>6, <1>9, <3>2, <3>5
    <3>7. q <= p
      BY <1>5, <3>1, <3>6
    <3>8. q = p
      BY <1>1, <3>2, <3>5, <3>6, <3>7
    <3> QED
      BY <3>3, <3>8
  <2> QED
    BY <2>1, <2>2
<1> HIDE DEF p
<1>12. SubSeq(w, 1, p - 1) = SubSeq(s, 1, p - 1)
  <2> DEFINE a == SubSeq(w, 1, p - 1)
             b == SubSeq(s, 1, p - 1)
  <2>1. /\ a \in Seq(TtyChars) /\ Len(a) = p - 1 /\ \A i \in 1 .. p - 1 : a[i] = w[i]
    BY <1>1, <1>4, <1>9
  <2>2. /\ b \in Seq(TtyChars) /\ Len(b) = p - 1 /\ \A i \in 1 .. p - 1 : b[i] = s[i]
    BY <1>1, <1>5, <1>9
  <2>3. \A i \in 1 .. p - 1 : w[i] = s[i]
    BY <1>1, <1>6, <1>9
  <2> HIDE DEF a, b
  <2>4. a = b
    BY <2>1, <2>2, <2>3, SeqEqual
  <2> QED
    BY <2>4 DEF a, b
<1>13. Printed(w) = Printed(s)
  BY <1>10, <1>11, <1>12, PrintedIs
<1> QED
  BY <1>13 DEF w

LEMMA TtyInvShows == TtyInv => TtyShowsTail
<1> SUFFICES ASSUME TtyInv
             PROVE  TtyShowsTail
  OBVIOUS
<1>1. /\ TTY_LINES \in [TtyIndex -> [0 .. TTY_COL - 1 -> TtyChars]]
      /\ TTY_ROW \in 0 .. TTY_ROWS - 1 /\ TTY_ROW_N \in 0 .. TTY_ROWS
      /\ said \in Seq(Seq(TtyChars)) /\ Len(said) = LesserOf(TTY_ROW_N + 1, TTY_ROWS)
      /\ TTY_ROWS \in Nat \ {0}
  BY ScreenSizes DEF TtyInv, TtyShape
<1>2. ASSUME NEW r \in 1 .. TTY_ROW_N
      PROVE  Printed([i \in 1 .. TTY_COL |->
                        TTY_LINES[(TTY_ROW + TTY_ROWS - TTY_ROW_N + r) % TTY_ROWS][i - 1]])
             = Printed(said[Len(said) - TTY_ROW_N + r])
  <2> DEFINE at == RowAt(TTY_ROW, TTY_ROW_N, r)
             s == said[Len(said) - TTY_ROW_N + r]
  <2>1. at \in TtyIndex /\ RowHolds(TTY_LINES[at], s)
    BY <1>1, RowAtIs DEF TtyInv, TtyIndex
  <2>2. s \in Seq(TtyChars)
    <3> DEFINE Texts == Seq(TtyChars)
    <3>1. said \in Seq(Texts) /\ Len(said) - TTY_ROW_N + r \in 1 .. Len(said)
      BY <1>1 DEF LesserOf
    <3> HIDE DEF Texts
    <3>2. s \in Texts
      BY <3>1
    <3> QED
      BY <3>2 DEF Texts
  <2>3. TTY_LINES[at] \in [0 .. TTY_COL - 1 -> TtyChars]
    BY <1>1, <2>1
  <2> HIDE DEF at, s
  <2>4. Printed([i \in 1 .. TTY_COL |-> TTY_LINES[at][i - 1]]) = Printed(s)
    BY <2>1, <2>2, <2>3, RowIsPrinted
  <2> QED
    BY <2>4 DEF at, s, RowAt
<1> QED
  BY <1>2 DEF TtyShowsTail, TtyDrawn

-----------------------------------------------------------------------------
(* The surfaces next to each other. *)

LEMMA SurfaceSteps ==
  [Next]_allVars => /\ [EditorNext]_edVars /\ [TermNext]_termVars /\ [TtyNext]_ttyVars
                    /\ [ImeNext]_imeVars
<1>1. UNCHANGED consoleVars => /\ UNCHANGED edVars /\ UNCHANGED termVars /\ UNCHANGED ttyVars
                               /\ UNCHANGED imeVars
  BY DEF consoleVars
<1>2. UNCHANGED screenVars => UNCHANGED consoleVars
  BY DEF screenVars
<1>3. UNCHANGED allVars => UNCHANGED screenVars
  BY DEF allVars
<1>4. Next => DeskNext \/ UNCHANGED screenVars
  BY DEF Next
<1>5. DeskNext => /\ [EditorNext]_edVars /\ [TermNext]_termVars /\ [TtyNext]_ttyVars
                  /\ [ImeNext]_imeVars
  BY <1>1 DEF DeskNext
<1> QED
  BY <1>1, <1>2, <1>3, <1>4, <1>5

\* The parts that show text.
SurfacesInv == TtyInv /\ TermInv /\ EdInv

LEMMA SurfacesInvAlways == Spec => []SurfacesInv
<1>1. Init => SurfacesInv
  <2>1. Init => TtyInit /\ TermInit /\ EditorInit
    BY DEF Init, ConsoleInit
  <2>2. EditorInit => EdInv
    BY EdInitKeeps DEF EditorInit
  <2> QED
    BY <2>1, <2>2, TtyInitInv, TermInitInv DEF SurfacesInv
<1>2. SurfacesInv /\ [Next]_allVars => SurfacesInv'
  BY SurfaceSteps, TtyInvStep, TermInvStep, EdInvStep DEF SurfacesInv
<1> QED
  BY <1>1, <1>2, PTL DEF Spec

\* The window of a program shows the last lines it wrote, whatever the program
\* before it left in the ring of lines; the terminal shows the end of what was
\* fed until a line is broken on its last row; and the cursor of the editor is
\* within the text (desk.rs, term.rs, editor.rs).
THEOREM TextSurfacesCorrect == Spec => []TextSurfaces
<1>1. SurfacesInv => TextSurfaces
  BY TtyInvShows DEF SurfacesInv, TermInv, EdInv, InText, CursorInText, TextSurfaces
<1> QED
  BY <1>1, SurfacesInvAlways, PTL

-----------------------------------------------------------------------------
(* What is stored, and the mixer. *)

LEMMA FirstOfFits ==
  ASSUME NEW S, NEW d \in Seq(S), NEW n \in Nat
  PROVE  FirstOf(d, n) \in Seq(S) /\ Len(FirstOf(d, n)) <= n
<1> DEFINE m == Lesser(Len(d), n)
<1>1. Len(d) \in Nat /\ m \in Int /\ 1 \in Int /\ m \in 0 .. n /\ m <= Len(d)
  BY DEF Lesser
<1>2. \A i \in 1 .. m : d[i] \in S
  BY <1>1
<1> HIDE DEF m
<1>3. /\ SubSeq(d, 1, m) \in Seq(S)
      /\ Len(SubSeq(d, 1, m)) = IF 1 <= m THEN m - 1 + 1 ELSE 0
  BY <1>1, <1>2, SubSeqProperties
<1>4. Len(SubSeq(d, 1, m)) <= n
  BY <1>1, <1>3
<1> QED
  BY <1>3, <1>4 DEF m, FirstOf

\* What is stored fits where it is stored.
StoreShape ==
  /\ \A i \in 0 .. NS - 1 : Len(sessions[i].data) <= CK
  /\ \A s \in 0 .. SAVES - 1 : SAVE[s].used => Len(SAVE[s].data) < SAVE_SZ
  /\ Len(CLIP) < CLIP_MAX

StoreInv ==
  /\ sessions \in [0 .. NS - 1 -> [active : BOOLEAN, gen : Nat, tokens : Nat, data : Seq(Nat)]]
  /\ SAVE \in [0 .. SAVES - 1 -> [used : BOOLEAN, data : Seq(Nat)]]
  /\ StoreShape

LEMMA StoreInitInv == StoreInit => StoreInv
<1> SUFFICES ASSUME StoreInit
             PROVE  StoreInv
  OBVIOUS
<1> DEFINE e == [FreshSession EXCEPT !.active = FALSE]
<1>1. /\ sessions = [i \in 0 .. NS - 1 |-> e]
      /\ SAVE = [s \in 0 .. SAVES - 1 |-> [used |-> FALSE, data |-> << >>]] /\ CLIP = << >>
  BY DEF StoreInit, Unused
<1>2. << >> \in Seq(Nat) /\ Len(<< >>) = 0 /\ CK \in Nat /\ CLIP_MAX \in Nat \ {0}
  BY TablesAssumption
<1>3. /\ FreshSession \in [active : BOOLEAN, gen : Nat, tokens : Nat, data : Seq(Nat)]
      /\ FreshSession.data = << >>
  BY <1>2 DEF FreshSession
<1>4. /\ e \in [active : BOOLEAN, gen : Nat, tokens : Nat, data : Seq(Nat)]
      /\ e.data = << >>
  BY <1>3
<1> HIDE DEF e
<1>5. sessions \in [0 .. NS - 1 -> [active : BOOLEAN, gen : Nat, tokens : Nat, data : Seq(Nat)]]
  BY <1>1, <1>4
<1>6. SAVE \in [0 .. SAVES - 1 -> [used : BOOLEAN, data : Seq(Nat)]]
  BY <1>1, <1>2
<1>7. \A i \in 0 .. NS - 1 : Len(sessions[i].data) <= CK
  BY <1>1, <1>2, <1>4
<1>8. \A s \in 0 .. SAVES - 1 : ~SAVE[s].used
  BY <1>1
<1> QED
  BY <1>1, <1>2, <1>5, <1>6, <1>7, <1>8 DEF StoreInv, StoreShape

LEMMA StoreInvStep == StoreInv /\ [StoreNext]_storeVars => StoreInv'
<1> SUFFICES ASSUME StoreInv, [StoreNext]_storeVars
             PROVE  StoreInv'
  OBVIOUS
<1> DEFINE Sess == [active : BOOLEAN, gen : Nat, tokens : Nat, data : Seq(Nat)]
<1>0. /\ NS \in Nat \ {0} /\ CK \in Nat /\ CLIP_MAX - 1 \in Nat /\ CLIP_MAX \in Nat
      /\ \A d \in Data : d \in Seq(Nat)
  <2>1. NS \in Nat \ {0} /\ CK \in Nat /\ CLIP_MAX \in Nat \ {0}
    BY TablesAssumption
  <2>2. Data \subseteq Seq(Nat)
    BY TablesAssumption
  <2> QED
    BY <2>1, <2>2
<1>1. \A id \in Ids : SlotOfId(id) \in 0 .. NS - 1
  BY <1>0 DEF Ids, SlotOfId, Lesser
<1>2. ASSUME NEW i \in 0 .. NS - 1, NEW e \in Sess, Len(e.data) <= CK,
             sessions' = [sessions EXCEPT ![i] = e], UNCHANGED <<SAVE, CLIP>>
      PROVE  StoreInv'
  BY <1>2 DEF StoreInv, StoreShape
<1>3. ASSUME NEW id \in Ids, SessCreate(id)
      PROVE  StoreInv'
  <2> DEFINE e == [active |-> TRUE, gen |-> 0, tokens |-> 0, data |-> << >>]
  <2>1. e \in Sess /\ Len(e.data) <= CK
    BY <1>0
  <2>2. sessions' = [sessions EXCEPT ![SlotOfId(id)] = e] /\ UNCHANGED <<SAVE, CLIP>>
    BY <1>3 DEF SessCreate, FreshSession
  <2> HIDE DEF e, Sess
  <2> QED
    BY <1>1, <1>2, <2>1, <2>2
<1>4. ASSUME NEW id \in Ids, SessLoad(id) \/ SessTick(id) \/ \E d \in Data : SessSave(id, d)
      PROVE  StoreInv'
  <2> DEFINE i == SlotOfId(id)
             s == sessions[i]
  <2>1. i \in 0 .. NS - 1 /\ s \in Sess /\ Len(s.data) <= CK
    BY <1>1 DEF StoreInv, StoreShape
  <2>2. CASE SessLoad(id)
    <3> DEFINE e == [s EXCEPT !.gen = @ + 1]
    <3>1. e \in Sess /\ e.data = s.data
      BY <2>1
    <3>2. sessions' = [sessions EXCEPT ![i] = e] /\ UNCHANGED <<SAVE, CLIP>>
      BY <2>1, <2>2 DEF SessLoad, StoreInv
    <3> HIDE DEF e, i, s, Sess
    <3> QED
      BY <1>2, <2>1, <3>1, <3>2
  <2>3. CASE SessTick(id)
    <3> DEFINE e == [s EXCEPT !.tokens = @ + 1]
    <3>1. e \in Sess /\ e.data = s.data
      BY <2>1
    <3>2. sessions' = [sessions EXCEPT ![i] = e] /\ UNCHANGED <<SAVE, CLIP>>
      BY <2>1, <2>3 DEF SessTick, StoreInv
    <3> HIDE DEF e, i, s, Sess
    <3> QED
      BY <1>2, <2>1, <3>1, <3>2
  <2>4. ASSUME NEW d \in Data, SessSave(id, d)
        PROVE  StoreInv'
    <3> DEFINE f == FirstOf(d, CK)
               e == [s EXCEPT !.data = f]
    <3>1. f \in Seq(Nat) /\ Len(f) <= CK
      BY <1>0, FirstOfFits
    <3>2. sessions' = [sessions EXCEPT ![i] = e] /\ UNCHANGED <<SAVE, CLIP>>
      BY <2>1, <2>4 DEF SessSave, StoreInv
    <3> HIDE DEF f
    <3>3. e \in Sess /\ e.data = f
      BY <2>1, <3>1
    <3> HIDE DEF e, i, s, Sess
    <3> QED
      BY <1>2, <2>1, <3>1, <3>2, <3>3
  <2> QED
    BY <1>4, <2>2, <2>3, <2>4
<1>5. ASSUME NEW s \in 0 .. SAVES - 1, NEW d \in Data, SaveWrite(s, d)
      PROVE  StoreInv'
  <2> DEFINE e == [used |-> TRUE, data |-> d]
  <2>1. SAVE' = [SAVE EXCEPT ![s] = e] /\ Len(d) < SAVE_SZ /\ UNCHANGED <<sessions, CLIP>>
    BY <1>5 DEF SaveWrite
  <2>2. e \in [used : BOOLEAN, data : Seq(Nat)] /\ e.data = d
    BY <1>0
  <2> HIDE DEF e
  <2> QED
    BY <2>1, <2>2 DEF StoreInv, StoreShape
<1>6. ASSUME NEW d \in Data, ClipSet(d)
      PROVE  StoreInv'
  <2>1. Len(FirstOf(d, CLIP_MAX - 1)) <= CLIP_MAX - 1 /\ FirstOf(d, CLIP_MAX - 1) \in Seq(Nat)
    BY <1>0, FirstOfFits
  <2>2. CLIP' = FirstOf(d, CLIP_MAX - 1) /\ UNCHANGED <<sessions, SAVE>>
    BY <1>6 DEF ClipSet
  <2>3. Len(CLIP') \in Nat /\ Len(CLIP') <= CLIP_MAX - 1
    BY <2>1, <2>2
  <2>4. Len(CLIP') < CLIP_MAX
    BY <1>0, <2>3
  <2> QED
    BY <2>2, <2>4 DEF StoreInv, StoreShape
<1>7. UNCHANGED storeVars => StoreInv'
  BY DEF StoreInv, StoreShape, storeVars
<1> QED
  BY <1>3, <1>4, <1>5, <1>6, <1>7 DEF StoreNext

-----------------------------------------------------------------------------
(* The filter of a channel. *)

\* What 16 bits hold.
SampleRange == -SAMPLE_MAX - 1 .. SAMPLE_MAX

\* A part of a distance is not longer than it.
LEMMA PartOfDistance ==
  ASSUME NEW K \in Nat \ {0}, NEW e \in Nat, NEW k \in 0 .. K
  PROVE  e * k \in Nat /\ (e * k) \div K \in 0 .. e
<1> DEFINE a == e * k
           q == a \div K
<1>1. a \in Nat /\ a <= e * K /\ e * K \in Nat
  <2>1. K - k \in Nat /\ e * (K - k) \in Nat /\ e * k \in Nat
    OBVIOUS
  <2>2. e * K = e * k + e * (K - k)
    OBVIOUS
  <2> QED
    BY <2>1, <2>2
<1> HIDE DEF a
<1>2. q \in Nat /\ K * q <= a
  BY <1>1
<1> HIDE DEF q
<1>3. CASE q > e
  <2>1. q - e - 1 \in Nat /\ K * (q - e - 1) \in Nat
    BY <1>2, <1>3
  <2>2. K * q = K * (q - e - 1) + K * e + K /\ K * e = e * K
    BY <1>2
  <2> QED
    BY <1>1, <1>2, <2>1, <2>2
<1> QED
  BY <1>1, <1>2, <1>3 DEF a, q

\* A filter that moves by a part of the distance to its sample does not leave
\* the range the two of them are in.
LEMMA FilterStays ==
  ASSUME NEW y \in SampleRange, NEW x \in SampleRange, NEW k \in 0 .. KONE
  PROVE  y + Quotient((x - y) * k, KONE) \in SampleRange
<1>1. KONE \in Nat \ {0} /\ SAMPLE_MAX \in Nat /\ x \in Int /\ y \in Int /\ k \in Nat
  BY TablesAssumption DEF SampleRange
<1>2. CASE x >= y
  <2> DEFINE e == x - y
             q == (e * k) \div KONE
  <2>1. e \in Nat
    BY <1>1, <1>2
  <2> HIDE DEF e
  <2>2. e * k \in Nat /\ q \in 0 .. e
    BY <1>1, <2>1, PartOfDistance
  <2>3. Quotient(e * k, KONE) = q
    BY <2>2 DEF Quotient
  <2> HIDE DEF q
  <2>4. y + q \in SampleRange
    BY <1>1, <2>2 DEF e, SampleRange
  <2> QED
    BY <2>3, <2>4 DEF e
<1>3. CASE x < y
  <2> DEFINE e == y - x
             a == (x - y) * k
             q == (e * k) \div KONE
  <2>1. e \in Nat
    BY <1>1, <1>3
  <2>2. a = -(e * k) /\ -a = e * k
    BY <1>1
  <2> HIDE DEF e, a
  <2>3. e * k \in Nat /\ q \in 0 .. e
    BY <1>1, <2>1, PartOfDistance
  <2>4. CASE a >= 0
    <3>1. a = 0
      BY <2>2, <2>3, <2>4
    <3>2. Quotient(a, KONE) = 0
      BY <1>1, <3>1 DEF Quotient
    <3> QED
      BY <1>1, <3>2 DEF a
  <2>5. CASE ~(a >= 0)
    <3>1. Quotient(a, KONE) = -q
      BY <2>2, <2>5 DEF Quotient
    <3> HIDE DEF q
    <3>2. y + -q \in SampleRange
      BY <1>1, <2>3 DEF e, SampleRange
    <3> QED
      BY <3>1, <3>2 DEF a
  <2> QED
    BY <2>4, <2>5
<1> QED
  BY <1>1, <1>2, <1>3

\* However many samples move it.
LEMMA FilteredStays ==
  ASSUME NEW c \in Channels, NEW n \in Nat, CH_BUF[c] \in Seq(SampleRange),
         CH_K[c] \in 0 .. KONE, CH_Y[c] \in SampleRange
  PROVE  Filtered(c, n) \in SampleRange
<1> DEFINE m == Lesser(n, Len(CH_BUF[c]))
           Step(y, i) == y + Quotient((CH_BUF[c][i] - y) * CH_K[c], KONE)
           Computes(t) == t = [i \in 0 .. m |->
                            IF i = 0 THEN CH_Y[c]
                            ELSE t[i - 1] + Quotient((CH_BUF[c][i] - t[i - 1]) * CH_K[c], KONE)]
           ys == CHOOSE t : Computes(t)
<1>1. m \in Nat /\ m <= Len(CH_BUF[c])
  BY DEF Lesser
<1>2. Filtered(c, n) = ys[m]
  BY DEF Filtered
<1>3. \A i \in 1 .. m : CH_BUF[c][i] \in SampleRange
  BY <1>1
<1> HIDE DEF m
<1>4. \A i \in 1 .. m : \A y \in SampleRange : Step(y, i) \in SampleRange
  <2> SUFFICES ASSUME NEW i \in 1 .. m, NEW y \in SampleRange
               PROVE  Step(y, i) \in SampleRange
    OBVIOUS
  <2>1. CH_BUF[c][i] \in SampleRange
    BY <1>3
  <2> QED
    BY <2>1, FilterStays
<1> DEFINE a == CH_Y[c]
<1>5. a \in SampleRange
  OBVIOUS
<1>6. Computes(ys)
  <2> DEFINE g == [i \in 1 .. m |-> [y \in SampleRange |-> Step(y, i)]]
  <2>1. g \in [1 .. m -> [SampleRange -> SampleRange]]
    <3> HIDE DEF Step
    <3>1. \A i \in 1 .. m : [y \in SampleRange |-> Step(y, i)] \in [SampleRange -> SampleRange]
      BY <1>4
    <3> QED
      BY <3>1
  <2>2. \A i \in 1 .. m : \A y \in SampleRange : g[i][y] = Step(y, i)
    OBVIOUS
  <2> HIDE DEF g, Step, Computes, ys, a
  <2>3. PICK f \in [0 .. m -> SampleRange] : f[0] = a /\ \A i \in 1 .. m : f[i] = g[i][f[i - 1]]
    <3>1. HasRun(m, SampleRange, a, g)
      BY <1>1, <1>5, <2>1, RecursionDefines
    <3> QED
      BY <3>1 DEF HasRun
  <2>4. \A i \in 0 .. m : f[i] = IF i = 0 THEN a ELSE Step(f[i - 1], i)
    <3> SUFFICES ASSUME NEW i \in 0 .. m, i # 0
                 PROVE  f[i] = Step(f[i - 1], i)
      BY <2>3
    <3>1. i \in 1 .. m /\ i - 1 \in 0 .. m
      BY <1>1
    <3> QED
      BY <2>2, <2>3, <3>1
  <2>5. f = [i \in 0 .. m |-> IF i = 0 THEN a ELSE Step(f[i - 1], i)]
    BY <2>4
  <2>6. Computes(f)
    BY <2>5 DEF Computes, Step, a
  <2> QED
    BY <2>6 DEF ys
<1> HIDE DEF ys
<1>7. ys[0] = a /\ \A i \in 1 .. m : ys[i] = Step(ys[i - 1], i)
  BY <1>1, <1>6
<1> HIDE DEF Computes, Step, a
<1>8. \A i \in 1 .. m : ys[i - 1] \in SampleRange => ys[i] \in SampleRange
  BY <1>4, <1>7
<1>9. \A i \in 0 .. m : ys[i] \in SampleRange
  <2>1. ys[0] \in SampleRange
    BY <1>5, <1>7
  <2> QED
    BY <1>1, <1>8, <2>1, StepsStay
<1> QED
  BY <1>1, <1>2, <1>9

\* Samples, coefficients and the states of the filters stay in their ranges.
MixInv ==
  /\ CH_BUF \in [Channels -> Seq(SampleRange)]
  /\ CH_K \in [Channels -> 0 .. KONE] /\ CH_Y \in [Channels -> SampleRange]

LEMMA MixNumbers ==
  /\ KONE \in Nat \ {0} /\ SAMPLE_MAX \in Nat /\ CBUF \in Nat /\ NCH \in Nat \ {0}
  /\ 0 \in SampleRange /\ Samples \subseteq SampleRange
  /\ \A ch \in 0 .. NCH : ChannelOf(ch) \in Channels
<1>1. KONE \in Nat \ {0} /\ SAMPLE_MAX \in Nat /\ CBUF \in Nat /\ NCH \in Nat \ {0}
  BY TablesAssumption
<1> QED
  BY <1>1 DEF SampleRange, Samples, ChannelOf, Channels, Lesser

LEMMA MixInitInv == MixInit => MixInv
<1>1. << >> \in Seq(SampleRange)
  OBVIOUS
<1> QED
  BY <1>1, MixNumbers DEF MixInit, MixInv

LEMMA MixInvStep == MixInv /\ [MixNext]_mixVars => MixInv'
<1> SUFFICES ASSUME MixInv, [MixNext]_mixVars
             PROVE  MixInv'
  OBVIOUS
<1>0. SampleRange' = SampleRange /\ Channels' = Channels
  BY DEF SampleRange, Channels
<1>1. ASSUME NEW ch \in 0 .. NCH, MixOpen(ch)
      PROVE  MixInv'
  <2>1. ChannelOf(ch) \in Channels /\ << >> \in Seq(SampleRange) /\ KONE \in 0 .. KONE
    BY MixNumbers
  <2> QED
    BY <1>0, <1>1, <2>1, MixNumbers DEF MixOpen, MixInv
<1>2. ASSUME NEW ch \in 0 .. NCH, NEW n \in 0 .. CBUF, NEW s \in [1 .. n -> Samples], MixPush(ch, s)
      PROVE  MixInv'
  <2>1. s \in Seq(SampleRange)
    BY MixNumbers
  <2>2. FirstOf(s, CBUF) \in Seq(SampleRange)
    BY <2>1, MixNumbers, FirstOfFits
  <2> QED
    BY <1>0, <1>2, <2>2, MixNumbers DEF MixPush, MixInv
<1>3. ASSUME NEW ch \in 0 .. NCH, NEW kind \in 1 .. 2, NEW param \in 0 .. KONE + 1,
             MixEffect(ch, kind, param)
      PROVE  MixInv'
  <2>1. Lesser(param, KONE) \in 0 .. KONE
    BY MixNumbers DEF Lesser
  <2> QED
    BY <1>0, <1>3, <2>1, MixNumbers DEF MixEffect, MixInv
<1>4. ASSUME NEW n \in 0 .. CBUF, MixRender(n)
      PROVE  MixInv'
  <2>1. \A c \in Channels : Filtered(c, n) \in SampleRange
    BY FilteredStays, MixNumbers DEF MixInv
  <2> QED
    BY <1>0, <1>4, <2>1 DEF MixRender, MixInv
<1>5. UNCHANGED mixVars => MixInv'
  BY DEF MixInv, mixVars
<1> QED
  BY <1>1, <1>2, <1>3, <1>4, <1>5 DEF MixNext

-----------------------------------------------------------------------------
(* The types of all parts. *)

\* The letters of the input method fit their buffer.
ImeInv == letters \in Seq(Alphabet) /\ Len(letters) <= IM_MAX

LEMMA ImeInvStep == ImeInv /\ [ImeNext]_imeVars => ImeInv'
<1> SUFFICES ASSUME ImeInv, [ImeNext]_imeVars
             PROVE  ImeInv'
  OBVIOUS
<1>0. IM_MAX \in Nat
  BY ConsoleAssumption
<1>1. ASSUME NEW c \in Alphabet, ImeKey(c)
      PROVE  ImeInv'
  <2>1. letters' = Append(letters, c) /\ Len(letters) < IM_MAX
    BY <1>1 DEF ImeKey
  <2>2. letters' \in Seq(Alphabet) /\ Len(letters') = Len(letters) + 1 /\ Len(letters) \in Nat
    BY <2>1, AppendProperties DEF ImeInv
  <2> QED
    BY <1>0, <2>1, <2>2 DEF ImeInv, Alphabet
<1>2. CASE ImeBegin \/ ImeReset
  <2>1. letters' = << >>
    BY <1>2 DEF ImeBegin, ImeReset
  <2>2. << >> \in Seq(Alphabet) /\ Len(<< >>) = 0
    OBVIOUS
  <2> QED
    BY <1>0, <2>1, <2>2 DEF ImeInv, Alphabet
<1>3. CASE UNCHANGED letters
  BY <1>3 DEF ImeInv, Alphabet
<1>4. (\E i \in 0 .. 3 : ImeCommit(i)) \/ UNCHANGED imeVars => UNCHANGED letters
  BY DEF ImeCommit, imeVars
<1> QED
  BY <1>1, <1>2, <1>3, <1>4 DEF ImeNext

LEMMA RestSteps ==
  [Next]_allVars => [FsNext]_fsVars /\ [StoreNext]_storeVars /\ [MixNext]_mixVars
<1>1. UNCHANGED allVars => UNCHANGED <<fsVars, storeVars, mixVars>>
  BY DEF allVars, storageVars, tableVars
<1>2. Next => StorageNext \/ UNCHANGED storageVars
  BY DEF Next
<1>3. StorageNext \/ UNCHANGED storageVars => [FsNext]_fsVars
  BY DEF StorageNext, storageVars
<1>4. Next => TablesNext \/ UNCHANGED tableVars
  BY DEF Next
<1>5. TablesNext \/ UNCHANGED tableVars => [StoreNext]_storeVars /\ [MixNext]_mixVars
  BY DEF TablesNext, tableVars
<1> QED
  BY <1>1, <1>2, <1>3, <1>4, <1>5

\* The parts whose promise is about their types.
RestInv == FsInv /\ FsBounds /\ StoreInv /\ MixInv /\ ImeInv

LEMMA RestInvAlways == Spec => []RestInv
<1>1. Init => RestInv
  <2>1. Init => FsInit /\ StoreInit /\ MixInit /\ ImeInit
    BY DEF Init, TableInit, ConsoleInit
  <2>2. << >> \in Seq(Alphabet) /\ Len(<< >>) = 0 /\ IM_MAX \in Nat
    BY ConsoleAssumption
  <2>3. ImeInit => ImeInv
    BY <2>2 DEF ImeInit, ImeInv
  <2> QED
    BY <2>1, <2>3, FsInvInit, FsBoundsInit, StoreInitInv, MixInitInv DEF RestInv
<1>2. RestInv /\ [Next]_allVars => RestInv'
  BY RestSteps, SurfaceSteps, FsInvNext, FsBoundsStep, StoreInvStep, MixInvStep, ImeInvStep
  DEF RestInv
<1> QED
  BY <1>1, <1>2, PTL DEF Spec

-----------------------------------------------------------------------------
(* The debugger. *)

BpInv == DOMAIN debuggee = DOMAIN DbgCode /\ BreakpointsRestore

LEMMA BpStep == BpInv /\ [DbgNext]_dbgVars => BpInv'
<1> SUFFICES ASSUME BpInv, [DbgNext]_dbgVars
             PROVE  BpInv'
  OBVIOUS
<1>1. ASSUME NEW a \in DOMAIN debuggee, Bp0(a)
      PROVE  BpInv'
  <2>1. ~overwrote' =>
          /\ \A b \in DOMAIN debuggee : debuggee[b] = DbgCode[b]
          /\ BP_ORIG' = DbgCode[a]
    BY <1>1 DEF Bp0, BpInv, BreakpointsRestore
  <2> QED
    BY <1>1, <2>1 DEF Bp0, BpInv, BreakpointsRestore
<1>2. CASE BpExc
  <2>1. rip \in DOMAIN debuggee /\ debuggee' = [debuggee EXCEPT ![rip] = BP_ORIG]
    BY <1>2 DEF BpExc, BpHit
  <2>2. ~overwrote => BP_ORIG = DbgCode[rip]
    BY <1>2, <2>1, DebuggeeAssumption DEF BpExc, BpInv, BreakpointsRestore
  <2> QED
    BY <1>2, <2>1, <2>2 DEF BpExc, BpInv, BreakpointsRestore
<1>3. CASE (\E a \in DOMAIN debuggee : Run(a)) \/ DbgClear \/ UNCHANGED dbgVars
  BY <1>3 DEF Run, DbgClear, dbgVars, BpInv, BreakpointsRestore
<1> QED
  BY <1>1, <1>2, <1>3 DEF DbgNext

LEMMA DebuggerSteps == [Next]_allVars => [DbgNext]_dbgVars
<1>1. ToolsNext => [DbgNext]_dbgVars
  BY DEF ToolsNext, Assemble, Link, Compile
<1>2. Next => ToolsNext \/ UNCHANGED toolVars
  BY DEF Next
<1> QED
  BY <1>1, <1>2 DEF allVars, toolVars

\* Until a breakpoint is set on top of another one, every byte of the program
\* under the debugger is its own or can be put back from BP_ORIG, wherever
\* breakpoints are set, hit and cleared (dbg.rs); one part of ProgramsLoaded.
THEOREM BreakpointsRestoreCorrect == Spec => []BreakpointsRestore
<1>1. Init => BpInv
  BY DEF Init, ToolInit, BpInv, BreakpointsRestore
<1>2. BpInv /\ [Next]_allVars => BpInv'
  BY BpStep, DebuggerSteps
<1>3. BpInv => BreakpointsRestore
  BY DEF BpInv
<1> QED
  BY <1>1, <1>2, <1>3, PTL DEF Spec

-----------------------------------------------------------------------------
(* Programs: packed, loaded and built. *)

LEMMA ProgramSteps ==
  [Next]_allVars => [ContainerNext]_containerVars /\ [LoadNext]_loadVars
<1>1. UNCHANGED allVars => UNCHANGED <<containerVars, loadVars>>
  BY DEF allVars, memoryVars, loaderVars
<1>2. Next => MemoryNext \/ UNCHANGED memoryVars
  BY DEF Next
<1>3. UNCHANGED memoryVars \/ UNCHANGED loaderVars => UNCHANGED <<containerVars, loadVars>>
  BY DEF memoryVars, loaderVars
<1>4. ContainerNext => UNCHANGED loadVars
  BY DEF ContainerNext, Pack, DamageByte, Truncate, Mount
<1>5. LoadNext => UNCHANGED containerVars
  BY DEF LoadNext, LoadElf, LoadElfRebase, LoadPe, LoadMacho
<1>6. MemoryNext => ContainerNext \/ LoadNext \/ UNCHANGED loaderVars
  BY DEF MemoryNext
<1> QED
  BY <1>1, <1>2, <1>3, <1>4, <1>5, <1>6

\* The containers and the mounted resources are those that were packed, and the
\* program loaded last lies in memory.
ProgramsInv == ContainerInv /\ LoadedInv

LEMMA ProgramsInvAlways == Spec => []ProgramsInv
<1>1. Init => ProgramsInv
  BY ContainerInvInit, LoadedInvInit DEF Init, LoadersInit, ProgramsInv
<1>2. ProgramsInv /\ [Next]_allVars => ProgramsInv'
  BY ProgramSteps, ContainerInvStep, LoadedInvStep DEF ProgramsInv
<1> QED
  BY <1>1, <1>2, PTL DEF Spec

\* What the last assembly, link and compilation put out.
BuiltInv == BranchesLand /\ TextsLinked /\ ReturnsConstant

LEMMA BuiltInit ==
  ASSUME ToolInit
  PROVE  BuiltInv
<1>1. code = <<>> /\ compiled = <<>> /\ LAST_SIZE = 0
  BY DEF ToolInit
<1>2. ~(LAST_SIZE \in 1 .. OUT)
  BY <1>1, ToolsAssumption
<1> QED
  BY <1>1, <1>2 DEF BuiltInv, BranchesLand, TextsLinked, ReturnsConstant

LEMMA BuiltKeptAsm ==
  ASSUME BuiltInv, UNCHANGED asmVars
  PROVE  BranchesLand'
<1>1. source' = source /\ code' = code
  BY DEF asmVars
<1>2. BranchesLand' <=> LandsIn(source', code')
  BY DEF BranchesLand, LandsIn
<1>3. BranchesLand <=> LandsIn(source, code)
  BY DEF BranchesLand, LandsIn
<1> QED
  BY <1>1, <1>2, <1>3 DEF BuiltInv

LEMMA BuiltKeptLd ==
  ASSUME BuiltInv, UNCHANGED ldVars
  PROVE  TextsLinked' /\ ReturnsConstant'
<1>1. dst' = dst /\ LAST_SIZE' = LAST_SIZE /\ linked' = linked /\ compiled' = compiled
  BY DEF ldVars
<1>2. TextsLinked' <=> LinkedIn(linked', dst', LAST_SIZE')
  BY DEF TextsLinked, LinkedIn, Word
<1>3. TextsLinked <=> LinkedIn(linked, dst, LAST_SIZE)
  BY DEF TextsLinked, LinkedIn, Word
<1>4. ReturnsConstant' <=> ReturnsIn(compiled', dst', LAST_SIZE')
  BY DEF ReturnsConstant, ReturnsIn
<1>5. ReturnsConstant <=> ReturnsIn(compiled, dst, LAST_SIZE)
  BY DEF ReturnsConstant, ReturnsIn
<1> QED
  BY <1>1, <1>2, <1>3, <1>4, <1>5 DEF BuiltInv

LEMMA BuiltStep ==
  ASSUME BuiltInv, [Next]_allVars
  PROVE  BuiltInv'
<1>1. Next => ToolsNext \/ UNCHANGED toolVars
  BY DEF Next
<1>2. UNCHANGED allVars => UNCHANGED toolVars
  BY DEF allVars
<1>3. CASE UNCHANGED toolVars
  <2>1. UNCHANGED asmVars /\ UNCHANGED ldVars
    BY <1>3 DEF toolVars
  <2> QED
    BY <2>1, BuiltKeptAsm, BuiltKeptLd DEF BuiltInv
<1>4. ASSUME NEW src \in AsmSources, NEW room \in BOOLEAN, Assemble(src, room)
      PROVE  BuiltInv'
  <2>1. UNCHANGED ldVars /\ (IF Supported(src) /\ room THEN Assembled(src) ELSE UNCHANGED asmVars)
    BY <1>4 DEF Assemble
  <2>2. BranchesLand'
    BY <2>1, SourcesAre, BranchesLandStep, BuiltKeptAsm
  <2> QED
    BY <2>1, <2>2, BuiltKeptLd DEF BuiltInv
<1>5. ASSUME NEW in \in LinkInputs, Link(in)
      PROVE  BuiltInv'
  <2>1. UNCHANGED asmVars
    BY <1>5 DEF Link
  <2>2. TextsLinked' /\ ReturnsConstant'
    BY <1>5, LinkInputStep
  <2> QED
    BY <2>1, <2>2, BuiltKeptAsm DEF BuiltInv
<1>6. ASSUME NEW tokens \in CcSources, NEW abi, Compile(tokens, abi)
      PROVE  BuiltInv'
  <2>1. tokens \in Seq(Seq(Nat))
    BY ToolsAssumption
  <2>2. CASE abi \in ABI_T
    BY <1>6, <2>1, <2>2, CompileStep DEF BuiltInv
  <2>3. CASE abi \notin ABI_T
    <3>1. UNCHANGED asmVars /\ UNCHANGED ldVars
      BY <1>6, <2>3 DEF Compile
    <3> QED
      BY <3>1, BuiltKeptAsm, BuiltKeptLd DEF BuiltInv
  <2> QED
    BY <2>2, <2>3
<1>7. CASE DbgNext
  <2>1. UNCHANGED asmVars /\ UNCHANGED ldVars
    BY <1>7 DEF DbgNext, Bp0, Run, BpExc, DbgClear
  <2> QED
    BY <2>1, BuiltKeptAsm, BuiltKeptLd DEF BuiltInv
<1>8. CASE ToolsNext
  BY <1>4, <1>5, <1>6, <1>7, <1>8 DEF ToolsNext
<1> QED
  BY <1>1, <1>2, <1>3, <1>8

LEMMA BuiltInvAlways == Spec => []BuiltInv
<1>1. Init => BuiltInv
  BY BuiltInit DEF Init
<1>2. BuiltInv /\ [Next]_allVars => BuiltInv'
  BY BuiltStep
<1> QED
  BY <1>1, <1>2, PTL DEF Spec

\* Whatever is packed, damaged and mounted, in whatever order: an untouched
\* container is accepted by the host and by the kernel, a damaged one that is
\* accepted has the program that was packed, and /runres shows the resources of
\* the container mounted last (main.rs of fujopack, run.rs, fujr.rs).
THEOREM ContainersCorrect == Spec => [](ContainersKept /\ MountedIsPacked)
<1>1. ProgramsInv => ContainersKept /\ MountedIsPacked
  BY ContainersKeptHolds, MountedIsPackedHolds DEF ProgramsInv
<1> QED
  BY <1>1, ProgramsInvAlways, PTL

\* Whatever was loaded before, a program that elf_loader.rs, pe_loader.rs or
\* macho_loader.rs reports as loaded lies in memory byte for byte, zeroes
\* included, and its entry is where the file names it.  Its imports are answered
\* up to the loader's limits of descriptors and imports; a PE program that has
\* more is reported as loaded too, with the later slots as the file has them.
THEOREM ImagesCorrect == Spec => []ImagesExact
<1>1. ProgramsInv => ImagesExact
  BY DEF ProgramsInv, LoadedInv
<1> QED
  BY <1>1, ProgramsInvAlways, PTL

\* For every source, set of objects and program: branches land behind their
\* label, texts are linked whole but for the relocations to symbols of the
\* snapshot (the first MAX_SYMS), which hold the addresses, and a compiled program
\* returns its constant (asm.rs, ld.rs, fujocc.rs).  Relocations to later symbols
\* leave the texts alone and are no error.  With the breakpoints of dbg.rs, that
\* is all ToolsBuild says.
THEOREM ToolsBuildCorrect == Spec => []ToolsBuild
<1>1. BuiltInv /\ BreakpointsRestore => ToolsBuild
  BY DEF BuiltInv, ToolsBuild
<1> QED
  BY <1>1, BuiltInvAlways, BreakpointsRestoreCorrect, PTL

\* What was packed, loaded, assembled or linked is the program that was given,
\* within the limits of the loader's and the linker's tables, in every part and
\* for every value of the constants (fujr.rs, the loaders and the tools).
THEOREM ProgramsLoadedCorrect == Spec => []ProgramsLoaded
<1>1. (ContainersKept /\ MountedIsPacked) /\ ImagesExact /\ ToolsBuild => ProgramsLoaded
  BY DEF ProgramsLoaded
<1> QED
  BY <1>1, ContainersCorrect, ImagesCorrect, ToolsBuildCorrect, PTL

-----------------------------------------------------------------------------
(* All types. *)

LEMMA ConsoleTypes ==
  ASSUME KeyInv, TtyInv, TermInv, EdInv, ImeInv
  PROVE  ConsoleTypeOK
<1>1. poll.at \in {"idle", "head", "code"}
  BY PollsAre DEF KeyInv, KeyShape
<1>2. TTY_ROW \in TtyIndex
  BY DEF TtyInv, TtyShape, TtyIndex
<1> QED
  BY <1>1, <1>2 DEF KeyInv, KeyShape, Rings, KeySlots, TtyInv, TtyShape, TermInv, EdInv, ImeInv,
     ConsoleTypeOK

LEMMA TableTypes ==
  ASSUME StoreInv, CardInv, TraceInv, MixInv
  PROVE  TablesTypeOK
<1>1. \A c \in Channels : CH_Y[c] \in -SAMPLE_MAX - 1 .. SAMPLE_MAX
  BY DEF MixInv, SampleRange
<1>2. AUDIT_POS \in 0 .. AUDIT_N - 1 /\ TRACE_POS \in 0 .. 2 * TRACE_N - 1
  BY DEF CardInv, TraceInv
<1> QED
  BY <1>1, <1>2 DEF StoreInv, StoreShape, TablesTypeOK

\* Indices, cursors and lengths stay within their tables and buffers, the
\* state of a mixer's filter stays within the range of the samples, and no
\* directory names a cluster the volume does not have, for every size of all of
\* them.
THEOREM ServicesTypeCorrect == Spec => []ServicesTypeOK
<1>1. /\ PcInv /\ FilesInv /\ FrameInv /\ HeapInv /\ WinInv /\ KeyInv
      /\ SurfacesInv /\ RecordsInv /\ RestInv
      => ServicesTypeOK
  <2> SUFFICES ASSUME PcInv, FilesInv, FrameInv, HeapInv, WinInv, KeyInv, SurfacesInv, RecordsInv,
                      RestInv
               PROVE  ServicesTypeOK
    OBVIOUS
  <2>1. FsTypeOK
    BY FsBoundsShow DEF RestInv
  <2>2. PcTypeOK /\ FilesTypeOK /\ MemTypeOK /\ WinTypeOK
    BY FilesInvShows, MemInvShowsTypes, WinInvShows DEF PcInv
  <2>3. ConsoleTypeOK
    BY ConsoleTypes DEF SurfacesInv, RestInv
  <2>4. TablesTypeOK
    BY TableTypes DEF RecordsInv, RestInv
  <2> QED
    BY <2>1, <2>2, <2>3, <2>4 DEF ServicesTypeOK
<1> QED
  BY <1>1, CacheInvAlways, FilesInvAlways, MemoryInvAlways, RingInvAlways, SurfacesInvAlways,
     RecordsInvAlways, RestInvAlways, PTL
=============================================================================

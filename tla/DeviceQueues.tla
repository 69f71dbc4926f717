---------------------------- MODULE DeviceQueues ----------------------------
(***************************************************************************)
(* The drivers that share memory with a device and poll it for completion: *)
(* the block device of kernel/src/virtio.rs, the receive queue of          *)
(* kernel/src/net.rs and the AHCI disk of kernel/src/ahci.rs.  The device  *)
(* works on its own; a driver that gives up waiting leaves its request     *)
(* with the device.                                                        *)
(***************************************************************************)
EXTENDS Integers, Sequences

CONSTANTS VQ_SIZE,    \* entries of a virtqueue (256 in net.rs)
          SLOTS,      \* receive buffers posted (16)
          Sectors,    \* sectors of a disk
          Values,     \* contents of a sector
          ATTEMPTS,   \* times cmd issues a command (4)
          FRAME_MAX,  \* bytes of a receive buffer
          MaxFrames,  \* bound on the frames that arrive
          MaxCalls    \* bound on the block requests

ASSUME QueueAssumption ==
  /\ VQ_SIZE \in Nat \ {0} /\ SLOTS \in 1 .. VQ_SIZE
  /\ ATTEMPTS \in Nat \ {0} /\ FRAME_MAX \in Nat /\ MaxFrames \in Nat /\ MaxCalls \in Nat

VARIABLES
  disk,    \* the block device's sectors
  header,  \* the request header in shared memory
  data,    \* the data buffer in shared memory
  status,  \* the status byte of the last request the device finished
  posted,  \* avail.idx: requests handed over
  taken,   \* the request the device works on, of those it took
  used,    \* used.idx: requests the device has finished
  LAST_USED,  \* the driver's copy of it
  call,    \* the request the caller waits for
  gaveUp   \* history: a request was abandoned

blkVars == <<disk, header, data, status, posted, taken, used, LAST_USED, call, gaveUp>>

None == [ty |-> "none", lba |-> 0, val |-> 0]
Requests == [ty : {"read"}, lba : Sectors, val : {0}]
              \cup [ty : {"write"}, lba : Sectors, val : Values]

\* submit_req up to the notification: there is one header, one data buffer
\* and one descriptor chain, whatever the device still does with them.  The
\* status byte keeps what the last answer left in it.
BlkSubmit(r) ==
  /\ call = None /\ posted < MaxCalls
  /\ call' = r
  /\ header' = r
  /\ data' = IF r.ty = "write" THEN r.val ELSE data
  /\ posted' = posted + 1
  /\ UNCHANGED <<disk, status, taken, used, LAST_USED, gaveUp>>

\* The device takes the chain as it finds it.
DeviceTakes ==
  /\ taken = None /\ used < posted
  /\ taken' = header
  /\ UNCHANGED <<disk, header, data, status, posted, used, LAST_USED, call, gaveUp>>

DeviceDone ==
  /\ taken /= None
  /\ disk' = IF taken.ty = "write" THEN [disk EXCEPT ![taken.lba] = data]
             ELSE disk
  /\ data' = IF taken.ty = "read" THEN disk[taken.lba] ELSE data
  /\ status' = 0
  /\ used' = used + 1
  /\ taken' = None
  /\ UNCHANGED <<header, posted, LAST_USED, call, gaveUp>>

\* An error of the device: nothing was read or written.
DeviceFails ==
  /\ taken /= None
  /\ status' = 1
  /\ used' = used + 1
  /\ taken' = None
  /\ UNCHANGED <<disk, header, data, posted, LAST_USED, call, gaveUp>>

BlkAnsweredKeepsIdx ==
  /\ call /= None /\ used /= LAST_USED
  /\ call' = None
  /\ UNCHANGED <<disk, header, data, status, posted, taken, used, LAST_USED, gaveUp>>

\* Any movement of used.idx is taken for the answer; submit_req returns 0 if
\* the status byte is 0, and -1 otherwise.
BlkAnswered ==
  /\ call /= None /\ used /= LAST_USED
  /\ LAST_USED' = used
  /\ call' = None
  /\ UNCHANGED <<disk, header, data, status, posted, taken, used, gaveUp>>

BlkTimeout ==
  /\ call /= None /\ used = LAST_USED
  /\ call' = None
  /\ gaveUp' = TRUE
  /\ UNCHANGED <<disk, header, data, status, posted, taken, used, LAST_USED>>

BlkInit ==
  /\ disk = [s \in Sectors |-> 0]
  /\ header = None /\ data = 0 /\ status = 0 /\ taken = None /\ call = None
  /\ posted = 0 /\ used = 0 /\ LAST_USED = 0
  /\ gaveUp = FALSE

BlkNext ==
  \/ \E r \in Requests : BlkSubmit(r)
  \/ DeviceTakes \/ DeviceDone \/ DeviceFails
  \/ BlkAnswered \/ BlkTimeout

\* As long as no request was abandoned, a read that is answered with success
\* finds its own sector in the buffer, and a write that is, is on the disk.
BlkAnswersOwn ==
  [][BlkAnswered /\ status = 0 /\ ~gaveUp =>
       disk[call.lba] = IF call.ty = "read" THEN data ELSE call.val]_blkVars

-----------------------------------------------------------------------------
VARIABLES
  avail,    \* buffers posted to the device and not yet filled, in order
  usedRing, \* used ring: buffer and length of every entry
  usedIdx,  \* used.idx, in frames
  RX_LAST,  \* the driver's position
  buffer,   \* the frame in every buffer
  taking,   \* the frame the last receive handed out
  lost      \* history: a frame was refused

rxVars == <<avail, usedRing, usedIdx, RX_LAST, buffer, taking, lost>>

\* Frames are numbered as they arrive; their lengths differ.
FrameLen(f) == 1 + (f % 2)

NoFrame == [frame |-> 0, n |-> 0]

FrameArrives ==
  /\ avail /= <<>> /\ usedIdx < MaxFrames
  /\ usedIdx' = usedIdx + 1
  /\ buffer' = [buffer EXCEPT ![Head(avail)] = usedIdx + 1]
  /\ usedRing' = [usedRing EXCEPT ![usedIdx % VQ_SIZE] =
                    [id |-> Head(avail), len |-> FrameLen(usedIdx + 1)]]
  /\ avail' = Tail(avail)
  /\ UNCHANGED <<RX_LAST, taking, lost>>

\* The device is at fault: it puts down an entry without a frame, of a frame
\* that its buffer cannot hold, or of a buffer that was never posted.
FaultyEntries ==
  {[id |-> Head(avail), len |-> 0], [id |-> Head(avail), len |-> FRAME_MAX + 1],
   [id |-> SLOTS, len |-> 1]}
FrameMalformed ==
  /\ avail /= <<>> /\ usedIdx < MaxFrames
  /\ usedIdx' = usedIdx + 1
  /\ \E e \in FaultyEntries : usedRing' = [usedRing EXCEPT ![usedIdx % VQ_SIZE] = e]
  /\ avail' = Tail(avail)
  /\ UNCHANGED <<RX_LAST, buffer, taking, lost>>

EntryNext(p) == usedRing[(p + 1) % SLOTS]

\* The used ring has VQ_SIZE entries; the driver looks at the first SLOTS.
Entry(p) == usedRing[p % SLOTS]

Malformed(e) == e.len = 0 \/ e.len > FRAME_MAX \/ e.id >= SLOTS

\* fujo_net_rx.  A malformed entry is passed over, as if there were no frame; a
\* frame that does not fit the caller is gone.  Neither's buffer is posted again.
NetRx(cap) ==
  LET e == Entry(RX_LAST)
  IN  /\ RX_LAST /= usedIdx
      /\ RX_LAST' = RX_LAST + 1
      /\ IF Malformed(e) THEN taking' = NoFrame /\ UNCHANGED <<avail, lost>>
         ELSE IF cap < e.len
         THEN lost' = TRUE /\ taking' = NoFrame /\ UNCHANGED avail
         ELSE /\ taking' = [frame |-> buffer[e.id], n |-> e.len]
              /\ avail' = Append(avail, e.id)
              /\ UNCHANGED lost
      /\ UNCHANGED <<usedRing, usedIdx, buffer>>

RxInit ==
  /\ avail = [i \in 1 .. SLOTS |-> i - 1]
  /\ usedRing = [p \in 0 .. VQ_SIZE - 1 |-> [id |-> 0, len |-> 0]]
  /\ usedIdx = 0 /\ RX_LAST = 0
  /\ buffer = [i \in 0 .. SLOTS - 1 |-> 0]
  /\ taking = NoFrame /\ lost = FALSE

RxNext ==
  \/ FrameArrives \/ FrameMalformed
  \/ \E cap \in 1 .. 2 : NetRx(cap)

\* fujo_net_rx hands out the frames as they arrived, each with its length, until
\* it has gone once through the buffers: from then on the device writes entries
\* of the used ring that the driver does not look at.
RxInOrder ==
  [][RX_LAST' /= RX_LAST /\ taking' /= NoFrame /\ RX_LAST < SLOTS =>
       taking' = [frame |-> RX_LAST', n |-> FrameLen(RX_LAST')]]_rxVars
-----------------------------------------------------------------------------
VARIABLES
  ahDisk,   \* the sectors of the AHCI disk
  table,    \* the command table in shared memory
  ci,       \* PxCI: the command slot is issued
  doing,    \* the command the controller works on
  err,      \* an error bit of PxIS or PxTFD is set
  ahCall,   \* the command cmd waits for
  tries,    \* times it was issued
  ahGaveUp  \* history: a command was abandoned

ahVars == <<ahDisk, table, ci, doing, err, ahCall, tries, ahGaveUp>>

\* cmd issues slot 0.  Nothing looks whether the slot is still busy with a
\* command that was given up.
AhciIssue(r) ==
  /\ ahCall = None
  /\ ahCall' = r /\ table' = r
  /\ ci' = TRUE /\ tries' = 1
  /\ UNCHANGED <<ahDisk, doing, err, ahGaveUp>>

ControllerTakes ==
  /\ ci /\ doing = None
  /\ doing' = table
  /\ UNCHANGED <<ahDisk, table, ci, err, ahCall, tries, ahGaveUp>>

\* The data of a write is what the table points to when it is moved.
ControllerDone ==
  /\ doing /= None
  /\ doing' = None /\ ci' = FALSE
  /\ \/ /\ ahDisk' = IF doing.ty = "write"
                      THEN [ahDisk EXCEPT ![doing.lba] = doing.val] ELSE ahDisk
        /\ UNCHANGED err
     \/ err' = TRUE /\ UNCHANGED ahDisk
  /\ UNCHANGED <<table, ahCall, tries, ahGaveUp>>

\* Done without error; the status register is cleared on the way.
AhciSucceeds ==
  /\ ahCall /= None /\ ~ci /\ ~err
  /\ ahCall' = None
  /\ UNCHANGED <<ahDisk, table, ci, doing, err, tries, ahGaveUp>>

AhciAgainNotIssued ==
  /\ ahCall /= None /\ (ci \/ err)
  /\ err' = FALSE
  /\ IF tries < ATTEMPTS
     THEN tries' = tries + 1 /\ UNCHANGED <<ci, ahCall, ahGaveUp>>
     ELSE ahCall' = None /\ ahGaveUp' = TRUE /\ UNCHANGED <<tries, ci>>
  /\ UNCHANGED <<ahDisk, table, doing>>

\* An error or no completion in time: issue again, or report failure.
AhciAgain ==
  /\ ahCall /= None /\ (ci \/ err)
  /\ err' = FALSE
  /\ IF tries < ATTEMPTS
     THEN tries' = tries + 1 /\ ci' = TRUE /\ UNCHANGED <<ahCall, ahGaveUp>>
     ELSE ahCall' = None /\ ahGaveUp' = TRUE /\ UNCHANGED <<tries, ci>>
  /\ UNCHANGED <<ahDisk, table, doing>>

AhInit ==
  /\ ahDisk = [s \in Sectors |-> 0]
  /\ table = None /\ doing = None /\ ahCall = None
  /\ ci = FALSE /\ err = FALSE /\ tries = 0 /\ ahGaveUp = FALSE

AhNext ==
  \/ \E r \in Requests : AhciIssue(r)
  \/ ControllerTakes \/ ControllerDone
  \/ AhciSucceeds \/ AhciAgain

\* As long as no command was abandoned, a write that cmd reports done is on
\* the disk, however often it was issued.
AhciAnswersOwn ==
  [][AhciSucceeds /\ ~ahGaveUp /\ ahCall.ty = "write" =>
       ahDisk[ahCall.lba] = ahCall.val]_ahVars
=============================================================================

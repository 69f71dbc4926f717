------------------------------ MODULE EventRing ------------------------------
(***************************************************************************)
(* The perception channel of kernel/src/ctx.rs: a ring of EV_N slots with  *)
(* one write position, one read cursor and one mask.  Positions only grow; *)
(* position p lives in slot p % EV_N.                                      *)
(***************************************************************************)
EXTENDS Integers, Sequences, FiniteSets

CONSTANTS EV_N,      \* slots of the ring (128 in the kernel)
          Kinds,     \* event kinds that are pushed
          Masks,     \* masks of subscribers: sets of bits 0 .. 63
          Critical,  \* bits of the kinds that make a suggestion obsolete
          MaxRoom,   \* events that fit the reader's buffer, at most
          MaxPushes  \* bound on the write position

ASSUME RingAssumption   == EV_N \in Nat \ {0}
ASSUME KindsAssumption  == Kinds \subseteq 0 .. 255
ASSUME MasksAssumption  == \A m \in Masks : m \subseteq 0 .. 63
ASSUME BoundsAssumption == MaxRoom \in Nat /\ MaxPushes \in Nat

VARIABLES
  ring,   \* EV: the event in every slot
  w,      \* EV_W, the next position to write
  c,      \* EV_C, the next position to read
  mask,   \* EV_SUB
  batch,  \* the events the last read copied out
  log     \* history: every event, by position + 1

vars == <<ring, w, c, mask, batch, log>>

\* The serial number stands for the payload, which tells events apart.
Events == [kind : Kinds, serial : 0 .. MaxPushes]

NoEvent == [kind |-> 0, serial |-> 0]   \* the zeroed ring

SlotOf(p) == p % EV_N

\* fujo_ctx_events tests bit (kind & 63) - 1 of the mask, in wrapping 64-bit
\* arithmetic.
Selects(m, kind) == ((kind % 64) + 63) % 64 \in m

\* ev_delta_critical tests bit kind - 1 and ignores kinds without one.
IsCritical(kind) == kind \in 1 .. 64 /\ kind - 1 \in Critical

CursorAfterTight(pos) == IF pos + 1 - c >= EV_N THEN pos + 2 - EV_N ELSE c

CursorAfterLate(pos) == IF pos - c > EV_N THEN pos + 1 - EV_N ELSE c

CursorAfterUnguarded(pos) == pos + 1 - EV_N

\* ev_push: a reader that is too slow loses the oldest event.
CursorAfter(pos) == IF pos + 1 - c > EV_N THEN pos + 1 - EV_N ELSE c

\* ev_push, reached through inject, sys_note and the kernel's own sources.
EvPush(kind) ==
  LET e == [kind |-> kind, serial |-> w]
  IN  /\ w < MaxPushes
      /\ ring' = [ring EXCEPT ![SlotOf(w)] = e]
      /\ log' = Append(log, e)
      /\ w' = w + 1
      /\ c' = CursorAfter(w)
      /\ UNCHANGED <<mask, batch>>

\* fujo_ctx_subscribe.
Subscribe(m) ==
  /\ mask' = m
  /\ c' = w
  /\ UNCHANGED <<ring, w, batch, log>>

\* Positions in [c, upTo) whose event the mask admits.
Admitted(upTo) == {p \in c .. upTo - 1 : Selects(mask, ring[SlotOf(p)].kind)}

\* The events at a set of positions, in order.
InOrder(ps) ==
  [i \in 1 .. Cardinality(ps) |->
     LET p == CHOOSE q \in ps : Cardinality({r \in ps : r <= q}) = i
     IN  ring[SlotOf(p)]]

\* The loop stops at the first admitted event that does not fit, after its
\* position was passed.
StopsAt(room, upTo) ==
  \/ upTo = w /\ Cardinality(Admitted(w)) <= room
  \/ /\ upTo - 1 \in Admitted(upTo)
     /\ Cardinality(Admitted(upTo)) = room + 1

\* fujo_ctx_events with a buffer of `room` events.
CtxEvents(room) ==
  \E upTo \in c .. w :
    /\ StopsAt(room, upTo)
    /\ c' = upTo
    /\ batch' = LET got == Admitted(upTo)
                IN  InOrder(IF Cardinality(got) > room
                            THEN got \ {upTo - 1} ELSE got)
    /\ UNCHANGED <<ring, w, mask, log>>

\* How far back ev_delta_critical looks for a snapshot taken at `from`.
DeltaLimitUnlimited(from) == from

DeltaLimit(from) == IF w - from > EV_N THEN w - EV_N ELSE from

\* ev_delta_critical: critical events since position `from`.
DeltaCritical(from) ==
  Cardinality({p \in DeltaLimit(from) .. w - 1 :
                 IsCritical(ring[SlotOf(p)].kind)})

Init ==
  /\ ring = [s \in 0 .. EV_N - 1 |-> NoEvent]
  /\ w = 0
  /\ c = 0
  /\ mask \in Masks
  /\ batch = <<>>
  /\ log = <<>>

Next ==
  \/ \E k \in Kinds : EvPush(k)
  \/ \E m \in Masks : Subscribe(m)
  \/ \E room \in 0 .. MaxRoom : CtxEvents(room)

Spec == Init /\ [][Next]_vars

-----------------------------------------------------------------------------
TypeOK ==
  /\ ring \in [0 .. EV_N - 1 -> Events \cup {NoEvent}]
  /\ w \in 0 .. MaxPushes
  /\ c \in 0 .. MaxPushes
  /\ mask \in Masks
  /\ batch \in Seq(Events)
  /\ log \in Seq(Events)

\* The ring keeps the last EV_N events, whatever the cursor does, and the
\* cursor points into them: every unread position still has its own event.
RingHoldsLog ==
  /\ Len(log) = w
  /\ c <= w /\ w - c <= EV_N
  /\ \A p \in 0 .. w - 1 : p >= w - EV_N => ring[SlotOf(p)] = log[p + 1]

\* The time-consistency check of the model link sees every critical event
\* since the snapshot as long as at most EV_N events came after it, and of a
\* longer past at least those the ring still has.
DeltaExact ==
  \A from \in 0 .. w :
    DeltaCritical(from) =
      Cardinality({p \in 0 .. w - 1 : /\ p >= from /\ p >= w - EV_N
                                      /\ IsCritical(log[p + 1].kind)})

Queue == INSTANCE EventLog
           WITH queue <- [i \in 1 .. w - c |-> ring[SlotOf(c + i - 1)]]

\* The subscriber sees a queue: in order, nothing twice, and only an overrun
\* or a short buffer loses an event.
ImplementsEventLog == Queue!Spec
=============================================================================

-------------------------- MODULE EventRingProofs --------------------------
(***************************************************************************)
(* Proofs about EventRing for every ring size, every set of kinds and      *)
(* masks, and every bound on the number of pushes.                         *)
(***************************************************************************)
EXTENDS EventRing, LeastNumber, SequenceTheorems, TLAPS

USE RingAssumption, BoundsAssumption

-----------------------------------------------------------------------------
(* The slot arithmetic. *)

\* Two positions less than a ring apart live in different slots.
LEMMA SlotsDiffer ==
  ASSUME NEW p \in Nat, NEW q \in Nat, p < q, q - p < EV_N
  PROVE  SlotOf(p) # SlotOf(q)
<1> DEFINE a == p \div EV_N
           b == q \div EV_N
<1>1. p = EV_N * a + (p % EV_N) /\ a \in Nat
  OBVIOUS
<1>2. q = EV_N * b + (q % EV_N) /\ b \in Nat
  OBVIOUS
<1> SUFFICES ASSUME p % EV_N = q % EV_N
             PROVE  FALSE
  BY DEF SlotOf
<1>3. q - p = EV_N * b - EV_N * a
  BY <1>1, <1>2
<1> HIDE DEF a, b
<1>4. EV_N * b - EV_N * a = EV_N * (b - a)
  BY <1>1, <1>2
<1>5. CASE b - a <= 0
  <2>1. EV_N * (b - a) <= 0
    BY <1>1, <1>2, <1>5
  <2> QED
    BY <2>1, <1>3, <1>4
<1>6. CASE b - a >= 1
  <2>1. EV_N * (b - a) >= EV_N
    BY <1>1, <1>2, <1>6
  <2> QED
    BY <2>1, <1>3, <1>4
<1> QED
  BY <1>1, <1>2, <1>5, <1>6

LEMMA SlotInRing ==
  ASSUME NEW p \in Nat
  PROVE  SlotOf(p) \in 0 .. EV_N - 1
BY DEF SlotOf

-----------------------------------------------------------------------------
(* The ring and the log agree. *)

\* What the steps keep: positions are numbers, the log is a sequence with an
\* entry per position, and the ring holds its end.
RingInv ==
  /\ ring \in [0 .. EV_N - 1 -> Events \cup {NoEvent}]
  /\ w \in 0 .. MaxPushes
  /\ c \in Nat
  /\ log \in Seq(Events)
  /\ RingHoldsLog

LEMMA RingInit == Init => RingInv
BY DEF Init, RingInv, RingHoldsLog

\* A push writes the slot of the new position and no slot of the EV_N - 1
\* positions before it.
LEMMA PushKeepsRing ==
  ASSUME RingInv, NEW k \in Kinds, EvPush(k)
  PROVE  RingInv'
<1> DEFINE e == [kind |-> k, serial |-> w]
<1>1. w \in Nat /\ w < MaxPushes /\ w' = w + 1 /\ c \in Nat
  BY DEF RingInv, EvPush
<1>2. e \in Events
  BY <1>1 DEF Events
<1>3. log' = Append(log, e) /\ ring' = [ring EXCEPT ![SlotOf(w)] = e]
  BY DEF EvPush
<1> HIDE DEF e
<1>4. log \in Seq(Events) /\ Len(log) = w
  BY DEF RingInv, RingHoldsLog
<1>5. /\ log' \in Seq(Events)
      /\ Len(log') = w + 1
      /\ log'[w + 1] = e
      /\ \A i \in 1 .. w : log'[i] = log[i]
  BY <1>2, <1>3, <1>4
<1>6. SlotOf(w) \in 0 .. EV_N - 1
  BY <1>1, SlotInRing
<1>7. ring' \in [0 .. EV_N - 1 -> Events \cup {NoEvent}]
  BY <1>2, <1>3 DEF RingInv
<1>8. c' \in Nat /\ c' <= w' /\ w' - c' <= EV_N
  <2>1. c <= w /\ w - c <= EV_N
    BY DEF RingInv, RingHoldsLog
  <2>2. c' = IF w + 1 - c > EV_N THEN w + 1 - EV_N ELSE c
    BY DEF EvPush, CursorAfter
  <2> QED
    BY <1>1, <2>1, <2>2
<1>9. ASSUME NEW p \in 0 .. w' - 1, p >= w' - EV_N
      PROVE  ring'[SlotOf(p)] = log'[p + 1]
  <2>1. CASE p = w
    BY <1>3, <1>5, <1>6, <2>1 DEF RingInv
  <2>2. CASE p # w
    <3>1. p \in 0 .. w - 1 /\ p >= w - EV_N /\ w - p < EV_N
      BY <1>1, <1>9, <2>2
    <3>2. SlotOf(p) # SlotOf(w) /\ SlotOf(p) \in 0 .. EV_N - 1
      BY <1>1, <3>1, SlotsDiffer, SlotInRing
    <3>3. ring'[SlotOf(p)] = ring[SlotOf(p)]
      BY <1>3, <3>2 DEF RingInv
    <3>4. ring[SlotOf(p)] = log[p + 1]
      BY <3>1 DEF RingInv, RingHoldsLog
    <3>5. p + 1 \in 1 .. w
      BY <1>1, <3>1
    <3>6. log'[p + 1] = log[p + 1]
      BY <1>5, <3>5
    <3> QED
      BY <3>3, <3>4, <3>6
  <2> QED
    BY <2>1, <2>2
<1>10. RingHoldsLog'
  BY <1>1, <1>5, <1>8, <1>9 DEF RingHoldsLog
<1> QED
  BY <1>1, <1>5, <1>7, <1>8, <1>10 DEF RingInv

\* Subscribing and reading move the cursor forward, up to the write position.
LEMMA CursorKeepsRing ==
  ASSUME RingInv, UNCHANGED <<ring, w, log>>, c' \in c .. w
  PROVE  RingInv'
<1>1. w \in Nat /\ c \in Nat /\ w - c <= EV_N /\ EV_N \in Nat
  BY DEF RingInv, RingHoldsLog
<1>0. w' = w
  OBVIOUS
<1>2. c' \in Nat /\ c' <= w' /\ w' - c' <= EV_N
  <2>1. c' \in Int /\ c <= c' /\ c' <= w
    BY <1>1
  <2>2. \A x \in Int : c <= x /\ x <= w
          => x \in Nat /\ x <= w /\ w - x <= EV_N
    BY <1>1
  <2> QED
    BY <1>0, <2>1, <2>2
<1>3. RingHoldsLog'
  BY <1>2 DEF RingInv, RingHoldsLog
<1> QED
  BY <1>2, <1>3 DEF RingInv

LEMMA RingStep == RingInv /\ [Next]_vars => RingInv'
<1> SUFFICES ASSUME RingInv, [Next]_vars
             PROVE  RingInv'
  OBVIOUS
<1>0. w \in Nat /\ c \in Nat /\ c <= w
  BY DEF RingInv, RingHoldsLog
<1>1. ASSUME NEW k \in Kinds, EvPush(k)
      PROVE  RingInv'
  BY <1>1, PushKeepsRing
<1>2. ASSUME NEW m \in Masks, Subscribe(m)
      PROVE  RingInv'
  <2>1. UNCHANGED <<ring, w, log>> /\ c' \in c .. w
    BY <1>0, <1>2 DEF Subscribe
  <2> QED
    BY <2>1, CursorKeepsRing
<1>3. ASSUME NEW room \in 0 .. MaxRoom, CtxEvents(room)
      PROVE  RingInv'
  <2>1. UNCHANGED <<ring, w, log>> /\ c' \in c .. w
    BY <1>3 DEF CtxEvents
  <2> QED
    BY <2>1, CursorKeepsRing
<1>4. CASE UNCHANGED vars
  <2>1. UNCHANGED <<ring, w, log>> /\ c' \in c .. w
    BY <1>0, <1>4 DEF vars
  <2> QED
    BY <2>1, CursorKeepsRing
<1> QED
  BY <1>1, <1>2, <1>3, <1>4 DEF Next

LEMMA RingCorrect == Spec => []RingInv
<1> QED
  BY RingInit, RingStep, PTL DEF Spec

-----------------------------------------------------------------------------
\* However pushes, reads and subscriptions interleave, an event that was not
\* read or overrun is still in its slot when fujo_ctx_events gets to it.
THEOREM RingHoldsLogCorrect == Spec => []RingHoldsLog
<1>1. RingInv => RingHoldsLog
  BY DEF RingInv
<1> QED
  BY <1>1, RingCorrect, PTL

\* ev_delta_critical counts exactly the critical events that came after a
\* snapshot and are not older than the ring.
LEMMA DeltaCounts == RingInv => DeltaExact
<1> SUFFICES ASSUME RingInv, NEW from \in 0 .. w
             PROVE  DeltaCritical(from) =
                      Cardinality({p \in 0 .. w - 1 :
                        /\ p >= from /\ p >= w - EV_N
                        /\ IsCritical(log[p + 1].kind)})
  BY DEF DeltaExact
<1>1. w \in Nat
  BY DEF RingInv
<1>2. \A p \in Int : p \in DeltaLimit(from) .. w - 1
        <=> p \in 0 .. w - 1 /\ p >= from /\ p >= w - EV_N
  BY <1>1 DEF DeltaLimit
<1>3. DeltaLimit(from) \in Int
  BY <1>1 DEF DeltaLimit
<1>4. \A p \in 0 .. w - 1 :
        p >= w - EV_N => ring[SlotOf(p)] = log[p + 1]
  BY DEF RingInv, RingHoldsLog
<1>5. {p \in DeltaLimit(from) .. w - 1 : IsCritical(ring[SlotOf(p)].kind)}
      = {p \in 0 .. w - 1 : /\ p >= from /\ p >= w - EV_N
                            /\ IsCritical(log[p + 1].kind)}
  BY <1>1, <1>2, <1>3, <1>4
<1> QED
  BY <1>5 DEF DeltaCritical

\* The model link discards a suggestion for every critical event that the
\* ring can still show it, and for no other.
THEOREM DeltaExactCorrect == Spec => []DeltaExact
<1> QED
  BY RingCorrect, DeltaCounts, PTL

-----------------------------------------------------------------------------
(* What a read copies out. *)

\* InOrder lists the events at its positions: a position of every rank exists,
\* and the ring still has the event of each.
LEMMA BatchIsEvents ==
  ASSUME RingInv, NEW ps \in SUBSET (c .. w - 1)
  PROVE  InOrder(ps) \in Seq(Events)
<1>1. w \in Nat /\ c \in Nat /\ c <= w /\ w - c <= EV_N /\ Len(log) = w
  BY DEF RingInv, RingHoldsLog
<1>2. \A p \in c .. w - 1 : p \in 0 .. w - 1 /\ p >= w - EV_N
  BY <1>1
<1>3. ASSUME NEW p \in c .. w - 1
      PROVE  ring[SlotOf(p)] \in Events
  <2>1. ring[SlotOf(p)] = log[p + 1]
    BY <1>2, <1>3 DEF RingInv, RingHoldsLog
  <2>2. p + 1 \in 1 .. Len(log)
    BY <1>1, <1>3
  <2>3. log[p + 1] \in Events
    BY <2>2 DEF RingInv
  <2> QED
    BY <2>1, <2>3
<1>4. ps \in SUBSET (0 .. w)
  BY <1>1
<1>5. Cardinality(ps) \in Nat
  <2>1. IsFiniteSet(0 .. w)
    BY <1>1, FS_Interval
  <2>2. IsFiniteSet(ps)
    BY <1>4, <2>1, FS_Subset
  <2> QED
    BY <2>2, FS_CardinalityType
<1>6. ASSUME NEW i \in 1 .. Cardinality(ps)
      PROVE  LET p == CHOOSE q \in ps : Cardinality({r \in ps : r <= q}) = i
             IN  ring[SlotOf(p)] \in Events
  <2>1. \E q \in ps : Cardinality({r \in ps : r <= q}) = i
    <3>1. w \in Nat
      BY <1>1
    <3> HIDE RingAssumption, BoundsAssumption
    <3> QED
      BY <3>1, <1>4, RankExists, Zenon
  <2>2. (CHOOSE q \in ps : Cardinality({r \in ps : r <= q}) = i) \in ps
    BY <2>1
  <2> QED
    BY <1>3, <2>2
<1>7. InOrder(ps) \in [1 .. Cardinality(ps) -> Events]
  BY <1>6 DEF InOrder
<1> QED
  BY <1>5, <1>7

LEMMA BatchStep ==
  ASSUME RingInv, mask \in Masks, batch \in Seq(Events), [Next]_vars
  PROVE  mask' \in Masks /\ batch' \in Seq(Events)
<1>1. ASSUME NEW room \in 0 .. MaxRoom, CtxEvents(room)
      PROVE  mask' \in Masks /\ batch' \in Seq(Events)
  <2>1. PICK upTo \in c .. w :
          /\ batch' = LET got == Admitted(upTo)
                      IN  InOrder(IF Cardinality(got) > room
                                  THEN got \ {upTo - 1} ELSE got)
          /\ mask' = mask
    BY <1>1 DEF CtxEvents
  <2>2. PICK ps \in SUBSET Admitted(upTo) : batch' = InOrder(ps)
    BY <2>1
  <2>3. ps \in SUBSET (c .. w - 1)
    BY DEF Admitted, RingInv
  <2> QED
    BY <2>1, <2>2, <2>3, BatchIsEvents
<1>2. ASSUME NEW k \in Kinds, EvPush(k)
      PROVE  mask' \in Masks /\ batch' \in Seq(Events)
  BY <1>2 DEF EvPush
<1>3. ASSUME NEW m \in Masks, Subscribe(m)
      PROVE  mask' \in Masks /\ batch' \in Seq(Events)
  BY <1>3 DEF Subscribe
<1>4. CASE UNCHANGED vars
  BY <1>4 DEF vars
<1> QED
  BY <1>1, <1>2, <1>3, <1>4 DEF Next

\* Whatever the ring, the masks and the buffers: a read hands out recorded
\* events only, never the zeroes of a slot that was not written.
THEOREM TypeCorrect == Spec => []TypeOK
<1> DEFINE Inv == RingInv /\ mask \in Masks /\ batch \in Seq(Events)
<1>1. Init => Inv
  <2>1. Init => mask \in Masks /\ batch \in Seq(Events)
    BY DEF Init
  <2> QED
    BY <2>1, RingInit
<1>2. Inv /\ [Next]_vars => Inv'
  BY RingStep, BatchStep
<1>3. Inv => TypeOK
  BY DEF RingInv, RingHoldsLog, TypeOK
<1> QED
  BY <1>1, <1>2, <1>3, PTL DEF Spec
-----------------------------------------------------------------------------
(* The ring implements the queue of EventLog. *)

\* The queue the subscriber sees, as the refinement maps it.
Unread == [i \in 1 .. w - c |-> ring[SlotOf(c + i - 1)]]

\* It lists the end of the log.
UnreadListed ==
  /\ w - c \in Nat /\ w - c <= EV_N
  /\ Unread \in Seq(Events) /\ Len(Unread) = w - c
  /\ \A i \in 1 .. w - c : Unread[i] = log[c + i]

LEMMA UnreadIs == RingInv => UnreadListed
<1> SUFFICES ASSUME RingInv
             PROVE  UnreadListed
  OBVIOUS
<1>1. w \in Nat /\ c \in Nat /\ c <= w /\ w - c <= EV_N /\ Len(log) = w
  BY DEF RingInv, RingHoldsLog
<1>2. ASSUME NEW i \in 1 .. w - c
      PROVE  ring[SlotOf(c + i - 1)] = log[c + i] /\ log[c + i] \in Events
  <2> DEFINE p == c + i - 1
  <2>1. p \in 0 .. w - 1 /\ p >= w - EV_N /\ p + 1 = c + i
    BY <1>1
  <2> HIDE DEF p
  <2>2. ring[SlotOf(p)] = log[p + 1]
    BY <2>1 DEF RingInv, RingHoldsLog
  <2>3. c + i \in 1 .. Len(log)
    BY <1>1
  <2>4. log[c + i] \in Events
    BY <2>3 DEF RingInv
  <2> QED
    BY <2>1, <2>2, <2>4 DEF p
<1>3. w - c \in Nat
  BY <1>1
<1>4. Unread \in [1 .. w - c -> Events]
  BY <1>2 DEF Unread
<1>5. Unread \in Seq(Events) /\ Len(Unread) = w - c
  BY <1>3, <1>4
<1> QED
  BY <1>1, <1>2, <1>3, <1>5 DEF Unread, UnreadListed

LEMMA UnreadIsNext == RingInv' => UnreadListed'
BY UnreadIs, PTL

\* A push appends, and pushes the oldest event out of a full queue.
LEMMA PushRefines ==
  ASSUME RingInv, RingInv', NEW k \in Kinds, EvPush(k)
  PROVE  Queue!Next
<1> DEFINE e == [kind |-> k, serial |-> w]
<1>1. /\ w \in Nat /\ w < MaxPushes /\ c \in Nat /\ c <= w /\ w - c <= EV_N
      /\ Len(log) = w /\ log \in Seq(Events)
  BY DEF RingInv, RingHoldsLog, EvPush
<1>2. e \in Events
  BY <1>1 DEF Events
<1>3. log' = Append(log, e) /\ w' = w + 1 /\ mask' = mask /\ batch' = batch
      /\ c' = IF w + 1 - c > EV_N THEN w + 1 - EV_N ELSE c
  BY DEF EvPush, CursorAfter
<1> HIDE DEF e
<1>4. UnreadListed /\ UnreadListed'
  BY UnreadIs, UnreadIsNext
<1>5. PICK old, new, w1, c1, lg :
        old = Unread /\ new = Unread' /\ w1 = w' /\ c1 = c' /\ lg = log'
  OBVIOUS
<1>6. /\ old \in Seq(Events) /\ Len(old) = w - c
      /\ \A i \in 1 .. w - c : old[i] = log[c + i]
  BY <1>4, <1>5 DEF UnreadListed
<1>7. /\ new \in Seq(Events) /\ Len(new) = w1 - c1
      /\ \A i \in 1 .. w1 - c1 : new[i] = lg[c1 + i]
  BY <1>4, <1>5 DEF UnreadListed
<1>8. lg[w + 1] = e /\ \A j \in 1 .. w : lg[j] = log[j]
  BY <1>1, <1>2, <1>3, <1>5
<1>11. w1 = w + 1 /\ c1 = IF w + 1 - c > EV_N THEN w + 1 - EV_N ELSE c
  BY <1>3, <1>5
<1>9. CASE Len(old) = EV_N
  <2> DEFINE app == Append(Tail(old), e)
  <2>1. w - c = EV_N /\ c1 = c + 1 /\ EV_N \in Nat \ {0}
    BY <1>1, <1>6, <1>9, <1>11
  <2>2. old # <<>>
    BY <1>6, <2>1
  <2>3. /\ Tail(old) \in Seq(Events) /\ Len(Tail(old)) = EV_N - 1
        /\ \A i \in 1 .. EV_N - 1 : Tail(old)[i] = old[i + 1]
    BY <1>6, <1>9, <2>1, <2>2
  <2>4. /\ app \in Seq(Events) /\ Len(app) = EV_N /\ app[EV_N] = e
        /\ \A i \in 1 .. EV_N - 1 : app[i] = old[i + 1]
    BY <1>2, <2>1, <2>3
  <2> HIDE DEF app
  <2>5. Len(new) = EV_N
    BY <1>1, <1>7, <1>11, <2>1
  <2>6. ASSUME NEW i \in 1 .. Len(new)
        PROVE  new[i] = app[i]
    <3>0. new[i] = lg[c1 + i]
      BY <1>7
    <3>1. i \in 1 .. EV_N /\ new[i] = lg[c + 1 + i] /\ i \in Int
      BY <2>1, <2>5, <3>0
    <3>2. CASE i = EV_N
      <4>1. c + 1 + i = w + 1
        BY <1>1, <2>1, <3>2
      <4> QED
        BY <1>8, <2>4, <3>1, <3>2, <4>1
    <3>3. CASE i # EV_N
      <4>1. i \in 1 .. EV_N - 1 /\ i + 1 \in 1 .. w - c
            /\ c + 1 + i \in 1 .. w /\ c + (i + 1) = c + 1 + i
        BY <1>1, <2>1, <3>1, <3>3
      <4>2. app[i] = log[c + 1 + i]
        BY <1>6, <2>4, <4>1
      <4> QED
        BY <1>8, <3>1, <4>1, <4>2
    <3> QED
      BY <3>2, <3>3
  <2>7. new = app
    BY <1>7, <2>4, <2>5, <2>6, SeqEqual
  <2>8. Unread' = IF Len(Unread) = EV_N THEN Append(Tail(Unread), e)
                                        ELSE Append(Unread, e)
    BY <1>5, <1>9, <2>7 DEF app
  <2> QED
    BY <1>2, <1>3, <2>8 DEF Queue!Next, Queue!Push, Unread
<1>10. CASE Len(old) # EV_N
  <2> DEFINE app == Append(old, e)
  <2>1. c1 = c /\ Len(new) = w - c + 1 /\ w - c \in Nat
    BY <1>1, <1>6, <1>7, <1>10, <1>11
  <2>4. /\ app \in Seq(Events) /\ Len(app) = w - c + 1 /\ app[w - c + 1] = e
        /\ \A i \in 1 .. w - c : app[i] = old[i]
    BY <1>2, <1>6
  <2> HIDE DEF app
  <2>6. ASSUME NEW i \in 1 .. Len(new)
        PROVE  new[i] = app[i]
    <3>0. new[i] = lg[c1 + i]
      BY <1>7
    <3>1. i \in 1 .. w - c + 1 /\ new[i] = lg[c + i] /\ i \in Int
      BY <2>1, <3>0
    <3>2. CASE i = w - c + 1
      <4>1. c + i = w + 1
        BY <1>1, <3>2
      <4> QED
        BY <1>8, <2>4, <3>1, <3>2, <4>1
    <3>3. CASE i # w - c + 1
      <4>1. i \in 1 .. w - c /\ c + i \in 1 .. w
        BY <1>1, <3>1, <3>3
      <4> QED
        BY <1>6, <1>8, <2>4, <3>1, <4>1
    <3> QED
      BY <3>2, <3>3
  <2>7. new = app
    BY <1>7, <2>1, <2>4, <2>6, SeqEqual
  <2>8. Unread' = IF Len(Unread) = EV_N THEN Append(Tail(Unread), e)
                                        ELSE Append(Unread, e)
    BY <1>5, <1>10, <2>7 DEF app
  <2> QED
    BY <1>2, <1>3, <2>8 DEF Queue!Next, Queue!Push, Unread
<1> QED
  BY <1>9, <1>10

LEMMA SubscribeRefines ==
  ASSUME RingInv, NEW m \in Masks, Subscribe(m)
  PROVE  Queue!Next
<1>1. w \in Nat /\ w' = w /\ c' = w /\ mask' = m /\ batch' = batch
  BY DEF RingInv, Subscribe
<1>2. Unread' = [i \in 1 .. w' - c' |-> ring'[SlotOf(c' + i - 1)]]
  BY DEF Unread, SlotOf
<1>3. 1 .. w' - c' = {}
  BY <1>1
<1>4. Unread' = <<>>
  BY <1>2, <1>3
<1> QED
  BY <1>1, <1>4 DEF Queue!Next, Queue!Subscribe, Unread

\* What the queue's reader selects from the first entries is what the code
\* copies out of the slots before the position it stops at.
LEMMA WantedIsInOrder ==
  ASSUME RingInv, NEW upTo \in c .. w
  PROVE  Queue!Wanted(SubSeq(Unread, 1, upTo - c)) = InOrder(Admitted(upTo))
<1> DEFINE k == upTo - c
           front == SubSeq(Unread, 1, k)
           ps == {p \in 1 .. Len(front) : Selects(mask, front[p].kind)}
           qs == Admitted(upTo)
<1>1. UnreadListed /\ w \in Nat /\ c \in Nat /\ upTo \in Nat /\ upTo <= w /\ c <= upTo
  BY UnreadIs DEF RingInv
<1>2. /\ Unread \in Seq(Events) /\ Len(Unread) = w - c
      /\ \A i \in 1 .. w - c : Unread[i] = ring[SlotOf(c + i - 1)]
  BY <1>1 DEF UnreadListed, Unread
<1>3. k \in 0 .. w - c /\ k \in Nat /\ k \in Int /\ upTo = k + c
  BY <1>1
<1> HIDE DEF k
<1>4. /\ Len(front) = k
      /\ \A i \in 1 .. k : front[i] = ring[SlotOf(c + i - 1)]
  <2>1. \A i \in 1 .. k : i \in 1 .. w - c /\ Unread[i] \in Events
    BY <1>2, <1>3
  <2>2. Len(front) = k /\ \A i \in 1 .. k : front[i] = Unread[i]
    BY <1>3, <2>1, SubSeqProperties
  <2> QED
    BY <1>2, <2>1, <2>2
<1> HIDE DEF front
<1>5. qs = {p + (c - 1) : p \in ps}
  <2>1. ASSUME NEW p \in ps
        PROVE  p + (c - 1) \in qs
    <3>1. p \in 1 .. k /\ Selects(mask, ring[SlotOf(c + p - 1)].kind)
      BY <1>4
    <3>2. p + (c - 1) = c + p - 1 /\ p + (c - 1) \in c .. upTo - 1
      BY <1>1, <1>3, <3>1
    <3> QED
      BY <3>1, <3>2 DEF Admitted
  <2>2. ASSUME NEW q \in qs
        PROVE  \E p \in ps : q = p + (c - 1)
    <3>1. q \in c .. upTo - 1 /\ Selects(mask, ring[SlotOf(q)].kind)
      BY DEF Admitted
    <3> DEFINE p == q - c + 1
    <3>2. p \in 1 .. k /\ q = p + (c - 1) /\ c + p - 1 = q
      BY <1>1, <1>3, <3>1
    <3> HIDE DEF p
    <3>3. p \in ps
      BY <1>4, <3>1, <3>2
    <3> QED
      BY <3>2, <3>3
  <2> HIDE DEF ps, qs
  <2> QED
    BY <2>1, <2>2
<1>6. ps \in SUBSET (0 .. w) /\ qs \in SUBSET (0 .. w) /\ ps \in SUBSET (1 .. k)
  <2>1. ps \in SUBSET (1 .. k)
    BY <1>4
  <2>2. \A p \in 1 .. k : p \in 0 .. w
    BY <1>1, <1>3
  <2>3. \A q \in c .. upTo - 1 : q \in 0 .. w
    BY <1>1
  <2>4. qs \in SUBSET (c .. upTo - 1)
    BY DEF Admitted
  <2> QED
    BY <2>1, <2>2, <2>3, <2>4
<1> HIDE DEF ps, qs
<1>7. /\ Cardinality(qs) = Cardinality(ps)
      /\ \A i \in 1 .. Cardinality(ps) : AtRank(qs, i) = AtRank(ps, i) + (c - 1)
  <2> DEFINE d == c - 1
  <2>1. d \in Int /\ w \in Nat
    BY <1>1
  <2>2. qs = {p + d : p \in ps}
    BY <1>5
  <2> HIDE DEF d
  <2>3. /\ Cardinality(qs) = Cardinality(ps)
        /\ \A i \in 1 .. Cardinality(ps) : AtRank(qs, i) = AtRank(ps, i) + d
    BY <1>6, <2>1, <2>2, RanksMove
  <2> QED
    BY <2>3 DEF d
<1>8. Queue!Wanted(front) =
        [i \in 1 .. Cardinality(ps) |-> front[AtRank(ps, i)]]
  <2>1. \A S : Queue!Cardinality(S) = Cardinality(S)
    BY DEF Queue!Cardinality, Cardinality, Queue!IsFiniteSet, IsFiniteSet
  <2> DEFINE At(i) == CHOOSE p \in ps : Queue!Cardinality({q \in ps : q <= p}) = i
  <2>2. Queue!Wanted(front) = [i \in 1 .. Queue!Cardinality(ps) |-> front[At(i)]]
    BY DEF Queue!Wanted, ps
  <2>3. ASSUME NEW i \in 1 .. Cardinality(ps)
        PROVE  At(i) = AtRank(ps, i)
    <3>1. HasRank(ps, i, AtRank(ps, i))
      BY <1>1, <1>6, RankIsOne
    <3>2. \E p \in ps : Queue!Cardinality({q \in ps : q <= p}) = i
      BY <2>1, <3>1 DEF HasRank
    <3>3. At(i) \in ps /\ Queue!Cardinality({q \in ps : q <= At(i)}) = i
      BY <3>2
    <3> HIDE DEF At
    <3>4. HasRank(ps, i, At(i))
      BY <2>1, <3>3 DEF HasRank
    <3> QED
      BY <1>1, <1>6, <3>4, RankIsOne
  <2> HIDE DEF At
  <2> QED
    BY <2>1, <2>2, <2>3
<1>9. InOrder(qs) = [i \in 1 .. Cardinality(qs) |-> ring[SlotOf(AtRank(qs, i))]]
  BY DEF InOrder, AtRank
<1>10. ASSUME NEW i \in 1 .. Cardinality(ps)
       PROVE  front[AtRank(ps, i)] = ring[SlotOf(AtRank(qs, i))]
  <2>1. HasRank(ps, i, AtRank(ps, i))
    BY <1>1, <1>6, RankIsOne
  <2>2. AtRank(ps, i) \in 1 .. k
    BY <1>6, <2>1 DEF HasRank
  <2>3. PICK p : p = AtRank(ps, i)
    OBVIOUS
  <2>4. p \in 1 .. k /\ AtRank(qs, i) = p + (c - 1)
    BY <1>7, <2>2, <2>3
  <2>5. p + (c - 1) = c + p - 1
    BY <1>1, <2>4
  <2>6. front[p] = ring[SlotOf(c + p - 1)]
    BY <1>4, <2>4
  <2> QED
    BY <2>3, <2>4, <2>5, <2>6
<1>11. Queue!Wanted(front) = InOrder(qs)
  BY <1>7, <1>8, <1>9, <1>10
<1> QED
  BY <1>11 DEF front, qs, k

\* Leaving out the last event of a batch leaves the others as they are.
LEMMA InOrderKeeps ==
  ASSUME RingInv, NEW ps \in SUBSET (c .. w - 1), NEW m \in ps,
         \A p \in ps : p <= m
  PROVE  /\ Cardinality(ps) \in Nat
         /\ InOrder(ps \ {m}) = SubSeq(InOrder(ps), 1, Cardinality(ps) - 1)
<1> DEFINE rest == ps \ {m}
           n == Cardinality(ps)
<1>1. w \in Nat /\ ps \in SUBSET (0 .. w)
  BY DEF RingInv, RingHoldsLog
<1>2. /\ n \in Nat \ {0} /\ Cardinality(rest) = n - 1
      /\ \A i \in 1 .. n - 1 : AtRank(rest, i) = AtRank(ps, i)
  BY <1>1, RanksKept
<1>3. /\ InOrder(ps) = [i \in 1 .. n |-> ring[SlotOf(AtRank(ps, i))]]
      /\ InOrder(rest) =
           [i \in 1 .. Cardinality(rest) |-> ring[SlotOf(AtRank(rest, i))]]
  BY DEF InOrder, AtRank
<1>4. InOrder(ps) \in Seq(Events) /\ InOrder(rest) \in Seq(Events)
  BY BatchIsEvents
<1>5. PICK all, part : all = InOrder(ps) /\ part = InOrder(rest)
  OBVIOUS
<1> HIDE DEF n, rest
<1>6. Len(all) = n /\ Len(part) = n - 1
  BY <1>2, <1>3, <1>4, <1>5
<1>7. \A i \in 1 .. n - 1 : i \in 1 .. n /\ part[i] = all[i]
  BY <1>2, <1>3, <1>5
<1> DEFINE sub == SubSeq(all, 1, n - 1)
<1>8. /\ sub \in Seq(Events) /\ Len(sub) = n - 1
      /\ \A i \in 1 .. n - 1 : sub[i] = all[i]
  <2>1. \A i \in 1 .. n - 1 : all[i] \in Events
    BY <1>2, <1>4, <1>5, <1>6
  <2>2. 1 \in Int /\ n - 1 \in Int /\ n - 1 >= 0
    BY <1>2
  <2> QED
    BY <2>1, <2>2, SubSeqProperties
<1> HIDE DEF sub
<1>9. part = sub
  BY <1>2, <1>4, <1>5, <1>6, <1>7, <1>8, SeqEqual
<1> QED
  BY <1>2, <1>5, <1>9 DEF sub, n, rest

\* A read takes the entries before the position it stops at off the queue.
LEMMA ReadRefines ==
  ASSUME RingInv, RingInv', NEW room \in 0 .. MaxRoom, CtxEvents(room)
  PROVE  Queue!Next
<1>1. PICK upTo \in c .. w :
        /\ StopsAt(room, upTo)
        /\ c' = upTo
        /\ batch' = InOrder(IF Cardinality(Admitted(upTo)) > room
                            THEN Admitted(upTo) \ {upTo - 1} ELSE Admitted(upTo))
        /\ UNCHANGED <<ring, w, mask, log>>
  BY DEF CtxEvents
<1> DEFINE k == upTo - c
           qs == Admitted(upTo)
           got == Queue!Wanted(SubSeq(Unread, 1, k))
<1>2. w \in Nat /\ c \in Nat /\ upTo \in Nat /\ c <= upTo /\ upTo <= w /\ Len(log) = w
  BY DEF RingInv, RingHoldsLog
<1>3. UnreadListed /\ UnreadListed'
  BY UnreadIs, UnreadIsNext
<1>4. got = InOrder(qs)
  BY WantedIsInOrder
<1>5. qs \in SUBSET (c .. w - 1) /\ \A p \in qs : p <= upTo - 1
  BY <1>2 DEF Admitted
<1>6. Cardinality(qs) \in Nat /\ InOrder(qs) \in Seq(Events)
      /\ Len(InOrder(qs)) = Cardinality(qs)
  <2>1. IsFiniteSet(c .. w - 1)
    BY <1>2, FS_Interval
  <2>2. IsFiniteSet(qs)
    BY <1>5, <2>1, FS_Subset
  <2>3. Cardinality(qs) \in Nat
    BY <2>2, FS_CardinalityType
  <2> HIDE DEF qs
  <2>4. InOrder(qs) \in Seq(Events)
    BY <1>5, BatchIsEvents
  <2>5. Len(InOrder(qs)) = Cardinality(qs)
    BY <2>3 DEF InOrder
  <2> QED
    BY <2>3, <2>4, <2>5
<1>7. k \in 0 .. Len(Unread) /\ k \in Nat /\ Len(Unread) = w - c
  BY <1>2, <1>3 DEF UnreadListed
<1>8. Unread' = SubSeq(Unread, k + 1, Len(Unread))
  <2>1. PICK old, new, c1, lg :
          old = Unread /\ new = Unread' /\ c1 = c' /\ lg = log'
    OBVIOUS
  <2>2. /\ old \in Seq(Events) /\ Len(old) = w - c
        /\ \A i \in 1 .. w - c : old[i] = log[c + i]
    BY <1>3, <2>1 DEF UnreadListed
  <2>3. PICK w1 : w1 = w'
    OBVIOUS
  <2>4. /\ new \in Seq(Events) /\ Len(new) = w1 - c1
        /\ \A i \in 1 .. w1 - c1 : new[i] = lg[c1 + i]
    BY <1>3, <2>1, <2>3 DEF UnreadListed
  <2>5. w1 = w /\ c1 = upTo /\ lg = log
    BY <1>1, <2>1, <2>3
  <2> DEFINE sub == SubSeq(old, k + 1, Len(old))
  <2>6. /\ sub \in Seq(Events) /\ Len(sub) = w - upTo
        /\ \A i \in 1 .. w - upTo : sub[i] = old[k + i]
    <3>1. \A i \in k + 1 .. Len(old) : old[i] \in Events
      BY <1>7, <2>2
    <3>2. k + 1 \in Int /\ Len(old) \in Int /\ Len(old) - (k + 1) + 1 = w - upTo
      BY <1>2, <1>7, <2>2
    <3>3. /\ sub \in Seq(Events)
          /\ Len(sub) = IF k + 1 <= Len(old) THEN w - upTo ELSE 0
          /\ \A i \in 1 .. w - upTo : sub[i] = old[k + 1 + i - 1]
      BY <3>1, <3>2, SubSeqProperties
    <3>4. \A i \in 1 .. w - upTo : k + 1 + i - 1 = k + i
      BY <1>2
    <3>5. ~(k + 1 <= Len(old)) => w - upTo = 0
      BY <1>2, <2>2
    <3> QED
      BY <3>3, <3>4, <3>5
  <2> HIDE DEF sub
  <2>7. ASSUME NEW i \in 1 .. Len(new)
        PROVE  new[i] = sub[i]
    <3>1. i \in 1 .. w - upTo /\ new[i] = log[upTo + i]
      BY <2>4, <2>5
    <3>2. k + i \in 1 .. w - c /\ c + (k + i) = upTo + i
      BY <1>2, <3>1
    <3> QED
      BY <2>2, <2>6, <3>1, <3>2
  <2>8. new = sub
    BY <2>4, <2>5, <2>6, <2>7, SeqEqual
  <2> QED
    BY <2>1, <2>8 DEF sub
<1>9. CASE Cardinality(qs) <= room
  <2>1. upTo = w /\ k = Len(Unread)
    BY <1>1, <1>6, <1>7, <1>9 DEF StopsAt
  <2>2. batch' = got /\ Len(got) <= room
    BY <1>1, <1>4, <1>6, <1>9
  <2>3. Queue!Read(room)
    BY <1>1, <1>7, <1>8, <2>1, <2>2 DEF Queue!Read, Unread
  <2> QED
    BY <2>3 DEF Queue!Next
<1>10. CASE ~(Cardinality(qs) <= room)
  <2>1. upTo - 1 \in qs /\ Cardinality(qs) = room + 1
    BY <1>1, <1>6, <1>10 DEF StopsAt
  <2>2. batch' = InOrder(qs \ {upTo - 1})
    BY <1>1, <1>6, <1>10
  <2>3. batch' = SubSeq(got, 1, room)
    <3>1. InOrder(qs \ {upTo - 1}) = SubSeq(InOrder(qs), 1, Cardinality(qs) - 1)
      <4> HIDE DEF qs
      <4> QED
        BY <1>5, <2>1, InOrderKeeps
    <3>2. Cardinality(qs) - 1 = room
      BY <2>1
    <3> QED
      BY <1>4, <2>2, <3>1, <3>2
  <2>4. k > 0 /\ Selects(mask, Unread[k].kind)
    <3>1. upTo - 1 \in c .. upTo - 1 /\ Selects(mask, ring[SlotOf(upTo - 1)].kind)
      BY <2>1 DEF Admitted
    <3>2. k \in 1 .. w - c /\ c + k - 1 = upTo - 1
      BY <1>2, <3>1
    <3>3. Unread[k] = ring[SlotOf(upTo - 1)]
      BY <3>2 DEF Unread
    <3> QED
      BY <3>1, <3>2, <3>3
  <2>5. Len(got) = room + 1
    BY <1>4, <1>6, <2>1
  <2>6. Queue!Read(room)
    BY <1>1, <1>7, <1>8, <2>3, <2>4, <2>5 DEF Queue!Read, Unread
  <2> QED
    BY <2>6 DEF Queue!Next
<1> QED
  BY <1>9, <1>10

\* For every ring size and every mask: what the code does with positions,
\* slots and one cursor is a queue with a bound to its reader.  Events come in
\* order and at most once, and only an overrun or a full buffer loses one.
THEOREM EventLogImplemented == Spec => ImplementsEventLog
<1>1. Init => Queue!Init
  <2> SUFFICES ASSUME Init
               PROVE  Queue!Init
    OBVIOUS
  <2>1. w - c = 0 /\ mask \in Masks /\ batch = <<>>
    BY DEF Init
  <2>2. Unread = <<>>
    BY <2>1 DEF Unread
  <2> QED
    BY <2>1, <2>2 DEF Queue!Init, Unread
<1>2. RingInv /\ RingInv' /\ [Next]_vars => [Queue!Next]_(Queue!vars)
  <2> SUFFICES ASSUME RingInv, RingInv', [Next]_vars
               PROVE  [Queue!Next]_(Queue!vars)
    OBVIOUS
  <2>1. CASE UNCHANGED vars
    BY <2>1 DEF vars, Queue!vars, SlotOf
  <2> QED
    BY <2>1, PushRefines, SubscribeRefines, ReadRefines DEF Next
<1> QED
  BY <1>1, <1>2, RingCorrect, PTL DEF Spec, ImplementsEventLog, Queue!Spec

=============================================================================

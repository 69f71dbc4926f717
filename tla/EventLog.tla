------------------------------ MODULE EventLog ------------------------------
(***************************************************************************)
(* What the event ring of kernel/src/ctx.rs is for its one subscriber: a   *)
(* queue of the events not read yet.  When it holds EV_N of them, a new    *)
(* event pushes the oldest out; reading takes events from the front.       *)
(***************************************************************************)
EXTENDS Integers, Sequences, FiniteSets

CONSTANTS EV_N,      \* capacity
          Events,    \* records with a field kind
          Masks,     \* masks a subscriber asks for
          Selects(_, _),  \* the mask admits the kind
          MaxRoom    \* longest batch a reader's buffer holds

VARIABLES queue,     \* events not read, oldest first
          mask,
          batch      \* what the last read returned

vars == <<queue, mask, batch>>

\* The entries of s that the mask admits, in order.
Wanted(s) ==
  LET at == {p \in 1 .. Len(s) : Selects(mask, s[p].kind)}
  IN  [i \in 1 .. Cardinality(at) |->
         s[CHOOSE p \in at : Cardinality({q \in at : q <= p}) = i]]

Push(e) == /\ queue' = IF Len(queue) = EV_N THEN Append(Tail(queue), e)
                                            ELSE Append(queue, e)
           /\ UNCHANGED <<mask, batch>>

Subscribe(m) == mask' = m /\ queue' = <<>> /\ UNCHANGED batch

\* Events are consumed from the front until the queue is empty or a wanted
\* one does not fit any more; that one is consumed as well.
Read(room) ==
  \E k \in 0 .. Len(queue) :
    /\ queue' = SubSeq(queue, k + 1, Len(queue))
    /\ LET got == Wanted(SubSeq(queue, 1, k))
       IN  \/ k = Len(queue) /\ Len(got) <= room /\ batch' = got
           \/ /\ k > 0 /\ Selects(mask, queue[k].kind)
              /\ Len(got) = room + 1
              /\ batch' = SubSeq(got, 1, room)
    /\ UNCHANGED mask

Init == queue = <<>> /\ mask \in Masks /\ batch = <<>>

Next == \/ \E e \in Events : Push(e)
        \/ \E m \in Masks : Subscribe(m)
        \/ \E room \in 0 .. MaxRoom : Read(room)

Spec == Init /\ [][Next]_vars
=============================================================================

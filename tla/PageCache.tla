----------------------------- MODULE PageCache -----------------------------
(***************************************************************************)
(* The page cache of kernel/src/pcache.rs: a few slots in front of a       *)
(* memory disk that holds the lowest blocks only.  The calls check         *)
(* nothing: alloc and prefetch take a slot for a block that has one.       *)
(***************************************************************************)
EXTENDS Integers, FiniteSets

CONSTANTS NSLOTS,      \* slots of the cache (16 in the kernel)
          DISK_PAGES,  \* blocks the memory disk holds (4)
          Blocks,      \* block numbers programs use
          CachePages,       \* page contents programs write
          ZeroPage         \* the page of zeros

ASSUME CacheAssumption ==
  /\ NSLOTS \in Nat \ {0} /\ DISK_PAGES \in Nat
  /\ Blocks \subseteq Nat /\ 0 .. DISK_PAGES - 1 \subseteq Blocks

VARIABLES
  slots,    \* SLOTS: block, valid and dirty
  page,     \* the data pages behind the slots
  memDisk,  \* the memory disk
  wrote     \* history: the pages ever written to every block

pcVars == <<slots, page, memDisk, wrote>>

SlotIds == 0 .. NSLOTS - 1
OnDisk == 0 .. DISK_PAGES - 1

Cached(st, b) == {s \in SlotIds : st[s].valid /\ st[s].blk = b}

LeastSlot(S) == CHOOSE s \in S : \A t \in S : s <= t

\* The slot alloc_slot takes: the first free one, else the first of the
\* highest block.
Victim(st) ==
  LET free == {s \in SlotIds : ~st[s].valid}
  IN  LeastSlot(IF free /= {} THEN free
             ELSE {s \in SlotIds : \A t \in SlotIds : st[t].blk <= st[s].blk})

TakeKeepsDirty(st, b) ==
  [st EXCEPT ![Victim(st)].blk = b, ![Victim(st)].valid = TRUE]

\* alloc_slot: the slot is clean now, whatever it held.
Take(st, b) ==
  [st EXCEPT ![Victim(st)] = [blk |-> b, valid |-> TRUE, dirty |-> FALSE]]

\* fujo_pc_alloc: n slots for the blocks from the first free slot's index on,
\* with whatever is in their pages.
PcAlloc(n) ==
  LET free == {s \in SlotIds : ~slots[s].valid}
      base == IF free = {} THEN 0 ELSE LeastSlot(free)
      taken[k \in 0 .. NSLOTS] ==
        IF k = 0 THEN slots ELSE Take(taken[k - 1], base + k - 1)
  IN  /\ slots' = taken[IF n < NSLOTS THEN n ELSE NSLOTS]
      /\ UNCHANGED <<page, memDisk, wrote>>

\* The slot of a block, taken now if it has none.
SlotFor(b) == IF Cached(slots, b) /= {} THEN LeastSlot(Cached(slots, b))
              ELSE Victim(slots)

PcWrite(b, v) ==
  LET st == IF Cached(slots, b) /= {} THEN slots ELSE Take(slots, b)
  IN  /\ slots' = [st EXCEPT ![SlotFor(b)].dirty = TRUE]
      /\ page' = [page EXCEPT ![SlotFor(b)] = v]
      /\ wrote' = [wrote EXCEPT ![b] = @ \cup {v}]
      /\ UNCHANGED memDisk

\* A read that misses takes the page from the memory disk, or zeros.
PcRead(b) ==
  /\ IF Cached(slots, b) /= {} THEN UNCHANGED <<slots, page>>
     ELSE /\ slots' = Take(slots, b)
          /\ page' = [page EXCEPT ![Victim(slots)] =
                        IF b \in OnDisk THEN memDisk[b] ELSE ZeroPage]
  /\ UNCHANGED <<memDisk, wrote>>

\* fujo_pc_prefetch: every block takes a new slot, cached or not.
Prefetched(was, b) ==
  IF b \notin OnDisk THEN was
  ELSE [st |-> Take(was.st, b),
        pg |-> [was.pg EXCEPT ![Victim(was.st)] = memDisk[b]]]

PcPrefetch(start, n) ==
  LET last == IF n < 4 THEN n ELSE 4
      after[k \in 0 .. 4] ==
        IF k = 0 THEN [st |-> slots, pg |-> page]
        ELSE Prefetched(after[k - 1], start + k - 1)
  IN  /\ slots' = after[last].st
      /\ page' = after[last].pg
      /\ UNCHANGED <<memDisk, wrote>>

\* fujo_pc_flush: in the order of the slots, so that of two dirty slots of a
\* block the later one reaches the disk.
PcFlush ==
  LET due == {s \in SlotIds : slots[s].valid /\ slots[s].dirty
                                             /\ slots[s].blk \in OnDisk}
      Of(b) == {s \in due : slots[s].blk = b}
  IN  /\ memDisk' = [b \in OnDisk |->
                       IF Of(b) = {} THEN memDisk[b]
                       ELSE page[CHOOSE s \in Of(b) : \A t \in Of(b) : t <= s]]
      /\ slots' = [s \in SlotIds |-> [slots[s] EXCEPT
                                        !.dirty = @ /\ s \notin due]]
      /\ UNCHANGED <<page, wrote>>

PcEvict ==
  /\ slots' = [s \in SlotIds |->
                 [slots[s] EXCEPT !.valid = FALSE, !.dirty = FALSE]]
  /\ UNCHANGED <<page, memDisk, wrote>>

PcInit ==
  /\ slots = [s \in SlotIds |-> [blk |-> 0, valid |-> FALSE, dirty |-> FALSE]]
  /\ page = [s \in SlotIds |-> ZeroPage]
  /\ memDisk = [b \in OnDisk |-> ZeroPage]
  /\ wrote = [b \in Blocks |-> {}]

PcNext ==
  \/ \E n \in 1 .. NSLOTS + 1 : PcAlloc(n)
  \/ \E b \in Blocks, v \in CachePages : PcWrite(b, v)
  \/ \E b \in Blocks : PcRead(b)
  \/ \E b \in Blocks, n \in 1 .. 3 : PcPrefetch(b, n)
  \/ PcFlush
  \/ PcEvict

-----------------------------------------------------------------------------
PcTypeOK ==
  /\ slots \in [SlotIds -> [blk : Nat, valid : BOOLEAN, dirty : BOOLEAN]]
  /\ page \in [SlotIds -> CachePages \cup {ZeroPage}]
  /\ memDisk \in [OnDisk -> CachePages \cup {ZeroPage}]
  /\ wrote \in [Blocks -> SUBSET CachePages]

\* A block of the disk is zero or holds a page that was written to this block.
\* Slots change their block without their page being cleared, so it is the
\* dirty mark alone that keeps another block's page off the disk.
DiskHasOwnPages ==
  \A b \in OnDisk : memDisk[b] = ZeroPage \/ memDisk[b] \in wrote[b]
=============================================================================

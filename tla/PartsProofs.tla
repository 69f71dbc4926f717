---------------------------- MODULE PartsProofs ----------------------------
(***************************************************************************)
(* Inductive invariants of the descriptors, the drivers, the memory, the   *)
(* page cache and the windows, for every number of descriptors, pipes,     *)
(* objects, files, sectors, frames, spaces, slots and windows, and every   *)
(* size of a pipe, of the disk buffer, of the queues and of the heap.      *)
(***************************************************************************)
EXTENDS Files, DeviceQueues, Memory, PageCache, Windows, LeastNumber, SequenceTheorems, TLAPS

-----------------------------------------------------------------------------
(* What the descriptor table, the pipes and the objects are made of. *)

Byte == 0 .. 255
FdKinds == {"free", "pipe", "ram", "disk", "view", "dir"}
FdRecords == [kind : FdKinds, of : PipeIds \cup TmpNames \cup DiskNames \cup {NoFile},
              len : Nat, pos : Nat, kslot : Nat, alone : BOOLEAN]
PipeRecords == [used : BOOLEAN, data : [0 .. PIPE_SIZE - 1 -> Nat],
                head : 0 .. PIPE_SIZE - 1, len : 0 .. PIPE_SIZE, ends : Nat]
ObjRecords == [kind : {"none", "user", "pipe", "shm"}, payload : Nat]

\* A pipe end names a pipe and an object or none; a memory file's descriptor
\* names its slot, a disk file's a file.
FdShape ==
  /\ FILES \in [Fds -> FdRecords]
  /\ \A fd \in Fds :
       /\ FILES[fd].kind = "pipe" => FILES[fd].of \in PipeIds /\ FILES[fd].kslot \in 0 .. KOBJ_MAX
       /\ FILES[fd].kind = "ram" => FILES[fd].kslot - 1 \in TmpIds
       /\ FILES[fd].kind = "disk" => FILES[fd].of \in DiskNames

PipeShape ==
  /\ PIPES \in [PipeIds -> PipeRecords]
  /\ sent \in [PipeIds -> [bytes : Nat, read : Nat]]
  /\ KOBJS \in [ObjIds -> ObjRecords] /\ stray \in BOOLEAN

FileShape ==
  /\ TMPFS \in [TmpIds -> [name : TmpNames \cup {NoFile}, data : Seq(Byte)]]
  /\ \A k \in TmpIds : Len(TMPFS[k].data) <= TMPFS_MAX
  /\ CACHE \in Seq(Byte) /\ Len(CACHE) <= DISK_CACHE_MAX /\ DISK_DIRTY \in BOOLEAN
  /\ volume \in [DiskNames -> Seq(Byte)]
  /\ \A n \in DiskNames : Len(volume[n]) <= DISK_CACHE_MAX
  /\ whole \in [Fds -> Seq(Byte)]

FilesShape == FdShape /\ PipeShape /\ FileShape

-----------------------------------------------------------------------------
(* Helpers. *)

LEMMA LowestIn ==
  ASSUME NEW T \in SUBSET Nat, T # {}
  PROVE  Lowest(T) \in T
<1>1. \E x \in T : \A y \in T : x <= y
  BY Minimum
<1> QED
  BY <1>1 DEF Lowest

LEMMA FdsAreNumbers == Fds \in SUBSET Nat /\ FreeFds \in SUBSET Nat /\ FreeFds \subseteq Fds
BY FilesAssumption DEF FreeFds

LEMMA FirstFreeFd ==
  ASSUME FreeFds # {}
  PROVE  Lowest(FreeFds) \in Fds /\ FILES[Lowest(FreeFds)].kind = "free"
<1>1. Lowest(FreeFds) \in FreeFds
  BY FdsAreNumbers, LowestIn
<1> QED
  BY <1>1 DEF FreeFds

\* A prefix of a sequence is one, no longer than it may be.
LEMMA UptoIsPrefix ==
  ASSUME NEW S, NEW s \in Seq(S), NEW n \in Nat
  PROVE  /\ Upto(s, n) \in Seq(S) /\ Len(Upto(s, n)) <= n /\ Len(Upto(s, n)) <= Len(s)
         /\ Len(s) <= n => Upto(s, n) = s
<1> DEFINE m == Smaller(Len(s), n)
<1>1. m \in 0 .. Len(s) /\ m <= n /\ (Len(s) <= n => m = Len(s))
  BY DEF Smaller
<1> HIDE DEF m
<1>2. Upto(s, n) = SubSeq(s, 1, m)
  BY DEF Upto, m
<1>3. SubSeq(s, 1, m) \in Seq(S) /\ Len(SubSeq(s, 1, m)) = m
  BY <1>1
<1>4. m = Len(s) => SubSeq(s, 1, m) = s
  BY <1>1
<1> QED
  BY <1>1, <1>2, <1>3, <1>4

\* The object is in slot k - 1, which was free, or there was no room.
TookSlot(old, new, k, kind, payload) ==
  /\ k = 0 => new = old
  /\ k # 0 => /\ k - 1 \in ObjIds /\ old[k - 1] = NoObj
              /\ new = [old EXCEPT ![k - 1] = [kind |-> kind, payload |-> payload]]

\* alloc takes the first slot that is free, and changes nothing else.
LEMMA RegisteredTakesFree ==
  ASSUME NEW objs \in [ObjIds -> ObjRecords], NEW kind \in {"user", "pipe", "shm"},
         NEW payload \in Nat
  PROVE  LET r == Registered(objs, kind, payload)
         IN  /\ r.objs \in [ObjIds -> ObjRecords] /\ r.kslot \in 0 .. KOBJ_MAX
             /\ TookSlot(objs, r.objs, r.kslot, kind, payload)
<1> DEFINE r == Registered(objs, kind, payload)
           i == Lowest(FreeObjs(objs))
           o == [kind |-> kind, payload |-> payload]
<1>1. CASE FreeObjs(objs) = {}
  BY <1>1, FilesAssumption DEF Registered, TookSlot
<1>2. CASE FreeObjs(objs) # {}
  <2>1. FreeObjs(objs) \in SUBSET Nat
    BY DEF FreeObjs, ObjIds
  <2>2. i \in FreeObjs(objs)
    BY <1>2, <2>1, LowestIn
  <2>3. Registered(objs, kind, payload) = [objs |-> [objs EXCEPT ![i] = o], kslot |-> i + 1]
    BY <1>2 DEF Registered
  <2>4. i \in ObjIds /\ objs[i] = NoObj /\ i + 1 \in 1 .. KOBJ_MAX /\ i \in Nat
    BY <2>2, FilesAssumption DEF FreeObjs, ObjIds
  <2>5. o \in ObjRecords
    BY DEF ObjRecords
  <2> HIDE DEF i, o
  <2>6. [objs EXCEPT ![i] = o] \in [ObjIds -> ObjRecords]
    BY <2>4, <2>5
  <2>7. r.objs = [objs EXCEPT ![i] = o] /\ r.kslot = i + 1
    BY <2>3
  <2>8. i + 1 # 0 /\ 1 .. KOBJ_MAX \subseteq 0 .. KOBJ_MAX
    BY <2>4, FilesAssumption
  <2>9. r.kslot - 1 = i
    BY <2>4, <2>7
  <2> HIDE DEF r
  <2>10. /\ r.objs \in [ObjIds -> ObjRecords] /\ r.kslot \in 0 .. KOBJ_MAX /\ r.kslot # 0
         /\ r.kslot - 1 \in ObjIds /\ objs[r.kslot - 1] = NoObj
    BY <2>4, <2>6, <2>7, <2>8, <2>9
  <2>11. r.objs = [objs EXCEPT ![r.kslot - 1] = o]
    BY <2>7, <2>9
  <2>12. TookSlot(objs, r.objs, r.kslot, kind, payload)
    BY <2>10, <2>11 DEF o, TookSlot
  <2> QED
    BY <2>10, <2>12 DEF r
<1> QED
  BY <1>1, <1>2

\* A step that touches no disk file.
DiskKept ==
  /\ UNCHANGED <<CACHE, DISK_DIRTY, volume, whole>>
  /\ \A fd \in Fds : FILES'[fd].kind = "disk" => FILES'[fd].kind = FILES[fd].kind
                       /\ FILES'[fd].of = FILES[fd].of /\ FILES'[fd].alone = FILES[fd].alone

LEMMA DiskKeptByChange ==
  ASSUME FdShape, NEW fd \in Fds, NEW r, r.kind # "disk", FILES' = [FILES EXCEPT ![fd] = r],
         UNCHANGED <<CACHE, DISK_DIRTY, volume, whole>>
  PROVE  DiskKept
<1>1. \A g \in Fds : FILES'[g] = IF g = fd THEN r ELSE FILES[g]
  BY DEF FdShape
<1> QED
  BY <1>1 DEF DiskKept

-----------------------------------------------------------------------------
(* Every step keeps the shape. *)

\* What a record of the table is tied to.
FdTied(r) ==
  /\ r.kind = "pipe" => r.of \in PipeIds /\ r.kslot \in 0 .. KOBJ_MAX
  /\ r.kind = "ram" => r.kslot - 1 \in TmpIds
  /\ r.kind = "disk" => r.of \in DiskNames

LEMMA FdReplaced ==
  ASSUME FdShape, NEW fd \in Fds, NEW r \in FdRecords, FdTied(r),
         FILES' = [FILES EXCEPT ![fd] = r]
  PROVE  FdShape'
<1>1. FILES' \in [Fds -> FdRecords]
  BY DEF FdShape
<1>2. \A g \in Fds : FILES'[g] = IF g = fd THEN r ELSE FILES[g]
  BY DEF FdShape
<1> QED
  BY <1>1, <1>2 DEF FdShape, FdTied

LEMMA FreeFdIsRecord ==
  /\ FreeFd \in FdRecords /\ FdTied(FreeFd)
  /\ FreeFd.kind = "free" /\ FreeFd.kslot = 0 /\ ~FreeFd.alone
BY DEF FreeFd, FdRecords, FdTied, FdKinds

\* A descriptor that is open for something else than a pipe.
LEMMA UnsetIsRecord ==
  ASSUME FdShape, NEW fd \in Fds
  PROVE  /\ Unset(fd) \in FdRecords /\ FdTied(Unset(fd))
         /\ Unset(fd).kind = "free" /\ ~Unset(fd).alone
<1>1. FILES[fd].kslot \in Nat
  BY DEF FdShape, FdRecords
<1> QED
  BY <1>1 DEF Unset, FreeFd, FdRecords, FdTied, FdKinds

LEMMA PipeEndIsRecord ==
  ASSUME NEW p \in PipeIds, NEW kslot \in 0 .. KOBJ_MAX
  PROVE  /\ PipeEnd(p, kslot) \in FdRecords /\ FdTied(PipeEnd(p, kslot))
         /\ PipeEnd(p, kslot).kind = "pipe" /\ PipeEnd(p, kslot).of = p
         /\ PipeEnd(p, kslot).kslot = kslot /\ ~PipeEnd(p, kslot).alone
<1> DEFINE r1 == [FreeFd EXCEPT !.kind = "pipe"]
           r2 == [r1 EXCEPT !.of = p]
           r3 == [r2 EXCEPT !.len = PIPE_SIZE]
           r4 == [r3 EXCEPT !.kslot = kslot]
<1>1. r1 \in FdRecords /\ r1.kind = "pipe" /\ ~r1.alone
  BY FreeFdIsRecord DEF FdRecords, FdKinds
<1>2. PipeEnd(p, kslot) = r4
  BY DEF PipeEnd
<1> HIDE DEF r1
<1>3. r2 \in FdRecords /\ r2.kind = "pipe" /\ r2.of = p /\ ~r2.alone
  BY <1>1 DEF FdRecords
<1> HIDE DEF r2
<1>4. r3 \in FdRecords /\ r3.kind = "pipe" /\ r3.of = p /\ ~r3.alone
  BY <1>3, FilesAssumption DEF FdRecords
<1> HIDE DEF r3
<1>5. r4 \in FdRecords /\ r4.kind = "pipe" /\ r4.of = p /\ r4.kslot = kslot /\ ~r4.alone
  <2>1. kslot \in Nat
    BY FilesAssumption
  <2> QED
    BY <1>4, <2>1 DEF FdRecords
<1> HIDE DEF r4
<1>6. FdTied(r4)
  BY <1>5 DEF FdTied
<1> QED
  BY <1>2, <1>5, <1>6

LEMMA ObjectsKeepShape ==
  ASSUME FilesShape,
         KobjCreate \/ RegisterUnowned("shm") \/ \E i \in ObjIds : KobjFree(i)
  PROVE  FilesShape' /\ DiskKept
<1>1. UNCHANGED <<vfsVars, pipeVars>>
  BY DEF KobjCreate, RegisterUnowned, KobjFree
<1>2. FdShape' /\ FileShape'
  BY <1>1 DEF FilesShape, FdShape, FileShape, vfsVars
<1>3. KOBJS' \in [ObjIds -> ObjRecords] /\ stray' \in BOOLEAN
  <2>1. KOBJS \in [ObjIds -> ObjRecords] /\ stray \in BOOLEAN
    BY DEF FilesShape, PipeShape
  <2>2. CASE KobjCreate
    BY <2>1, <2>2, RegisteredTakesFree DEF KobjCreate
  <2>3. CASE RegisterUnowned("shm")
    BY <2>1, <2>3, RegisteredTakesFree DEF RegisterUnowned
  <2>4. CASE \E i \in ObjIds : KobjFree(i)
    <3>1. NoObj \in ObjRecords
      BY DEF NoObj, ObjRecords
    <3> QED
      BY <2>1, <2>4, <3>1 DEF KobjFree
  <2> QED
    BY <2>2, <2>3, <2>4
<1> QED
  BY <1>1, <1>2, <1>3 DEF FilesShape, PipeShape, pipeVars, vfsVars, DiskKept

\* What a step does that leaves the pipes and the objects alone.
LEMMA PipesShapeKept ==
  ASSUME PipeShape, UNCHANGED <<pipeVars, KOBJS, stray>>
  PROVE  PipeShape'
BY DEF PipeShape, pipeVars

LEMMA FilesShapeKept ==
  ASSUME FileShape, UNCHANGED <<TMPFS, CACHE, DISK_DIRTY, volume, whole>>
  PROVE  FileShape'
BY DEF FileShape

LEMMA FujoPipeKeepsShape ==
  ASSUME FilesShape, FujoPipe
  PROVE  FilesShape' /\ DiskKept
<1> DEFINE free == {p \in PipeIds : ~PIPES[p].used}
           p == Lowest(free)
           r == Lowest(FreeFds)
           w == Lowest(FreeFds \ {r})
           o1 == Registered(KOBJS, "pipe", r)
           o2 == Registered(o1.objs, "pipe", w)
<1>1. free # {} /\ FreeFds # {}
  BY DEF FujoPipe
<1>2. CASE FreeFds = {r}
  <2>1. UNCHANGED filesVars
    BY <1>2 DEF FujoPipe, OneEndOnly
  <2> QED
    BY <2>1 DEF filesVars, FilesShape, FdShape, PipeShape, FileShape, DiskKept
<1>3. CASE FreeFds # {r}
  <2>1. /\ FILES' = [FILES EXCEPT ![r] = PipeEnd(p, o1.kslot), ![w] = PipeEnd(p, o2.kslot)]
        /\ KOBJS' = o2.objs
        /\ PIPES' = [PIPES EXCEPT ![p].used = TRUE, ![p].head = 0,
                                  ![p].len = 0, ![p].ends = 2]
        /\ sent' = [sent EXCEPT ![p] = NoBytes]
        /\ UNCHANGED <<TMPFS, CACHE, DISK_DIRTY, volume, whole, stray>>
    BY <1>3 DEF FujoPipe
  <2>2. p \in PipeIds
    <3>1. free \in SUBSET Nat
      BY DEF PipeIds
    <3> HIDE DEF free
    <3>2. p \in free
      BY <1>1, <3>1, LowestIn
    <3> QED
      BY <3>2 DEF free
  <2>3. r \in FreeFds /\ w \in FreeFds \ {r}
    BY <1>1, <1>3, FdsAreNumbers, LowestIn
  <2>4. r \in Fds /\ w \in Fds /\ r \in Nat /\ w \in Nat
    BY <2>3, FdsAreNumbers
  <2> HIDE DEF free, p, r, w
  <2>5. o1.objs \in [ObjIds -> ObjRecords] /\ o1.kslot \in 0 .. KOBJ_MAX
    BY <2>4, RegisteredTakesFree DEF FilesShape, PipeShape
  <2>6. o2.objs \in [ObjIds -> ObjRecords] /\ o2.kslot \in 0 .. KOBJ_MAX
    BY <2>4, <2>5, RegisteredTakesFree
  <2> HIDE DEF o1, o2
  <2>7. FdShape'
    <3> DEFINE e1 == PipeEnd(p, o1.kslot)
               e2 == PipeEnd(p, o2.kslot)
    <3>1. e1 \in FdRecords /\ FdTied(e1) /\ e2 \in FdRecords /\ FdTied(e2)
      BY <2>2, <2>5, <2>6, PipeEndIsRecord
    <3> HIDE DEF e1, e2
    <3>2. FILES' = [FILES EXCEPT ![r] = e1, ![w] = e2]
      BY <2>1 DEF e1, e2
    <3>3. FILES' \in [Fds -> FdRecords]
      BY <2>4, <3>1, <3>2 DEF FilesShape, FdShape
    <3>4. \A g \in Fds : FILES'[g] = IF g = w THEN e2 ELSE IF g = r THEN e1 ELSE FILES[g]
      BY <2>4, <3>2 DEF FilesShape, FdShape
    <3> QED
      BY <3>1, <3>3, <3>4 DEF FilesShape, FdShape, FdTied
  <2>8. PipeShape'
    <3>1. PIPES' \in [PipeIds -> PipeRecords]
      <4> DEFINE P1 == [PIPES EXCEPT ![p].used = TRUE]
                 P2 == [P1 EXCEPT ![p].head = 0]
                 P3 == [P2 EXCEPT ![p].len = 0]
                 P4 == [P3 EXCEPT ![p].ends = 2]
      <4>0. 0 \in 0 .. PIPE_SIZE - 1 /\ 0 \in 0 .. PIPE_SIZE
        BY FilesAssumption
      <4>1. PIPES' = P4
        BY <2>1
      <4>2. P1 \in [PipeIds -> PipeRecords]
        BY <2>2 DEF FilesShape, PipeShape, PipeRecords
      <4> HIDE DEF P1
      <4>3. P2 \in [PipeIds -> PipeRecords]
        BY <2>2, <4>0, <4>2 DEF PipeRecords
      <4> HIDE DEF P2
      <4>4. P3 \in [PipeIds -> PipeRecords]
        BY <2>2, <4>0, <4>3 DEF PipeRecords
      <4> HIDE DEF P3
      <4>5. P4 \in [PipeIds -> PipeRecords]
        BY <2>2, <4>4 DEF PipeRecords
      <4> QED
        BY <4>1, <4>5
    <3>2. sent' \in [PipeIds -> [bytes : Nat, read : Nat]]
      BY <2>1, <2>2 DEF FilesShape, PipeShape, NoBytes
    <3> QED
      BY <2>1, <2>6, <3>1, <3>2 DEF FilesShape, PipeShape
  <2>9. FileShape'
    BY <2>1, FilesShapeKept DEF FilesShape
  <2>10. DiskKept
    <3> DEFINE e1 == PipeEnd(p, o1.kslot)
               e2 == PipeEnd(p, o2.kslot)
    <3>1. e1.kind # "disk" /\ e2.kind # "disk"
      BY <2>2, <2>5, <2>6, PipeEndIsRecord
    <3> HIDE DEF e1, e2
    <3>2. FILES' = [FILES EXCEPT ![r] = e1, ![w] = e2]
      BY <2>1 DEF e1, e2
    <3>3. \A g \in Fds : FILES'[g] = IF g = w THEN e2 ELSE IF g = r THEN e1 ELSE FILES[g]
      BY <2>4, <3>2 DEF FilesShape, FdShape
    <3> QED
      BY <2>1, <3>1, <3>3 DEF DiskKept
  <2> QED
    BY <2>7, <2>8, <2>9, <2>10 DEF FilesShape
<1> QED
  BY <1>2, <1>3

\* What a pipe takes and gives: at most what there is room for or what is there.
LEMMA SmallerIs ==
  ASSUME NEW a \in Nat, NEW b \in Nat
  PROVE  Smaller(a, b) \in Nat /\ Smaller(a, b) <= a /\ Smaller(a, b) <= b
BY DEF Smaller

LEMMA SizesAreNumbers ==
  /\ PIPE_SIZE \in Nat \ {0} /\ KOBJ_MAX \in Nat /\ PIPE_MAX \in Nat
  /\ TMPFS_N \in Nat /\ TMPFS_MAX \in Nat /\ DISK_CACHE_MAX \in Nat
BY FilesAssumption

LEMMA PipeNumbers ==
  ASSUME NEW q \in PipeRecords
  PROVE  /\ q.len \in Nat /\ q.len <= PIPE_SIZE
         /\ q.head \in Nat /\ q.head < PIPE_SIZE
         /\ q.data \in [0 .. PIPE_SIZE - 1 -> Nat] /\ q.ends \in Nat
BY SizesAreNumbers DEF PipeRecords

\* Writing to a pipe: p is the pipe, m the bytes it takes.
LEMMA PipeWriteIs ==
  ASSUME FilesShape, NEW fd \in Fds, NEW n \in Nat, PipeWrite(fd, n)
  PROVE  LET p == FILES[fd].of
             m == Smaller(n, PIPE_SIZE - PIPES[p].len)
         IN  /\ p \in PipeIds /\ FILES[fd].kind = "pipe"
             /\ m \in Nat /\ PIPES[p].len + m <= PIPE_SIZE
             /\ PIPES[p] \in PipeRecords /\ sent[p] \in [bytes : Nat, read : Nat]
<1> DEFINE p == FILES[fd].of
           m == Smaller(n, PIPE_SIZE - PIPES[p].len)
<1>1. FILES[fd].kind = "pipe"
  BY DEF PipeWrite
<1>2. p \in PipeIds
  BY <1>1 DEF FilesShape, FdShape
<1>3. PIPES[p] \in PipeRecords /\ sent[p] \in [bytes : Nat, read : Nat]
  BY <1>2 DEF FilesShape, PipeShape
<1>4. PIPES[p].len \in Nat /\ PIPE_SIZE \in Nat /\ PIPE_SIZE - PIPES[p].len \in Nat
  BY <1>3, PipeNumbers, SizesAreNumbers
<1>5. m \in Nat /\ m <= PIPE_SIZE - PIPES[p].len
  BY <1>4, SmallerIs
<1> HIDE DEF m
<1>6. PIPES[p].len + m <= PIPE_SIZE
  BY <1>4, <1>5
<1> QED
  BY <1>1, <1>2, <1>3, <1>5, <1>6 DEF m

LEMMA PipeWriteKeepsShape ==
  ASSUME FilesShape, NEW fd \in Fds, NEW n \in Nat, PipeWrite(fd, n)
  PROVE  FilesShape' /\ DiskKept
<1> DEFINE p == FILES[fd].of
           q == PIPES[p]
           m == Smaller(n, PIPE_SIZE - q.len)
           nth(k) == (k + 2 * PIPE_SIZE - q.head - q.len) % PIPE_SIZE
           d == [k \in DOMAIN q.data |-> IF nth(k) < m THEN sent[p].bytes + nth(k) ELSE q.data[k]]
           P1 == [PIPES EXCEPT ![p].len = @ + m]
           P2 == [P1 EXCEPT ![p].data = d]
<1>1. /\ p \in PipeIds /\ m \in Nat /\ q.len + m <= PIPE_SIZE
      /\ q \in PipeRecords /\ sent[p] \in [bytes : Nat, read : Nat]
  BY PipeWriteIs
<1>2. /\ sent' = [sent EXCEPT ![p].bytes = @ + m]
      /\ UNCHANGED <<vfsVars, KOBJS, stray>>
  BY DEF PipeWrite
<1>3. PIPES \in [PipeIds -> PipeRecords]
  BY DEF FilesShape, PipeShape
<1>4. P1[p].data = q.data
  BY <1>1, <1>3
<1>5. PIPES' = P2
  BY <1>4 DEF PipeWrite
<1>6. \A k \in 0 .. PIPE_SIZE - 1 : nth(k) \in Nat
  <2>1. q.head \in Int /\ q.len \in Int /\ PIPE_SIZE \in Nat \ {0}
    BY <1>1, PipeNumbers, SizesAreNumbers
  <2> HIDE DEF q
  <2> QED
    BY <2>1
<1>7. d \in [0 .. PIPE_SIZE - 1 -> Nat]
  <2>1. DOMAIN q.data = 0 .. PIPE_SIZE - 1 /\ \A k \in 0 .. PIPE_SIZE - 1 : q.data[k] \in Nat
    BY <1>1, PipeNumbers
  <2>2. sent[p].bytes \in Nat
    BY <1>1
  <2> HIDE DEF nth, q, m
  <2>3. \A k \in 0 .. PIPE_SIZE - 1 : sent[p].bytes + nth(k) \in Nat
    BY <1>6, <2>2
  <2> QED
    BY <2>1, <2>3
<1>8. q.len + m \in 0 .. PIPE_SIZE
  <2>1. q.len \in Nat /\ PIPE_SIZE \in Nat
    BY <1>1, PipeNumbers, SizesAreNumbers
  <2> HIDE DEF q, m
  <2> QED
    BY <1>1, <2>1
<1> HIDE DEF d, m
<1>9. P1 \in [PipeIds -> PipeRecords]
  BY <1>1, <1>3, <1>8 DEF PipeRecords
<1> HIDE DEF P1
<1>10. P2 \in [PipeIds -> PipeRecords]
  BY <1>1, <1>7, <1>9 DEF PipeRecords
<1>11. sent' \in [PipeIds -> [bytes : Nat, read : Nat]]
  BY <1>1, <1>2 DEF FilesShape, PipeShape
<1>12. PipeShape'
  BY <1>2, <1>5, <1>10, <1>11 DEF FilesShape, PipeShape
<1>13. FdShape' /\ FileShape'
  BY <1>2 DEF FilesShape, FdShape, FileShape, vfsVars
<1> QED
  BY <1>2, <1>12, <1>13 DEF FilesShape, vfsVars, DiskKept

LEMMA PipeReadKeepsShape ==
  ASSUME FilesShape, NEW fd \in Fds, NEW n \in Nat, PipeRead(fd, n)
  PROVE  /\ FilesShape' /\ DiskKept
         /\ LET p == FILES[fd].of
                k == Smaller(n, PIPES[p].len)
            IN  p \in PipeIds /\ k \in Nat /\ k <= PIPES[p].len
<1> DEFINE p == FILES[fd].of
           q == PIPES[p]
           k == Smaller(n, q.len)
           P1 == [PIPES EXCEPT ![p].head = (@ + k) % PIPE_SIZE]
           P2 == [P1 EXCEPT ![p].len = @ - k]
<1>1. /\ FILES[fd].kind = "pipe" /\ PIPES' = P2
      /\ sent' = [sent EXCEPT ![p].read = @ + k]
      /\ UNCHANGED <<vfsVars, KOBJS, stray>>
  BY DEF PipeRead
<1>2. p \in PipeIds /\ PIPES \in [PipeIds -> PipeRecords]
  BY <1>1 DEF FilesShape, FdShape, PipeShape
<1>3. q \in PipeRecords
  BY <1>2
<1>4. q.len \in Nat /\ q.head \in Nat /\ PIPE_SIZE \in Nat \ {0}
  BY <1>3, PipeNumbers, SizesAreNumbers
<1>5. k \in Nat /\ k <= q.len
  BY <1>4, SmallerIs
<1>6. q.len - k \in 0 .. PIPE_SIZE /\ (q.head + k) % PIPE_SIZE \in 0 .. PIPE_SIZE - 1
  <2>1. q.len <= PIPE_SIZE
    BY <1>3, PipeNumbers
  <2> HIDE DEF q, k
  <2> QED
    BY <1>4, <1>5, <2>1
<1> HIDE DEF k
<1>7. P1 \in [PipeIds -> PipeRecords] /\ P1[p].len = q.len
  BY <1>2, <1>6 DEF PipeRecords
<1> HIDE DEF P1
<1>8. P2 \in [PipeIds -> PipeRecords]
  BY <1>2, <1>6, <1>7 DEF PipeRecords
<1>9. sent' \in [PipeIds -> [bytes : Nat, read : Nat]]
  BY <1>1, <1>2, <1>5 DEF FilesShape, PipeShape
<1>10. PipeShape'
  BY <1>1, <1>8, <1>9 DEF FilesShape, PipeShape
<1>11. FdShape' /\ FileShape'
  BY <1>1 DEF FilesShape, FdShape, FileShape, vfsVars
<1> QED
  BY <1>1, <1>2, <1>5, <1>10, <1>11 DEF FilesShape, k, vfsVars, DiskKept

LEMMA ClosePipeKeepsShape ==
  ASSUME FilesShape, NEW fd \in Fds, ClosePipe(fd)
  PROVE  FilesShape' /\ DiskKept
<1> DEFINE p == FILES[fd].of
           ks == FILES[fd].kslot
           q == IF PIPES[p].ends > 1 THEN [PIPES[p] EXCEPT !.ends = PIPES[p].ends - 1]
                ELSE [NoPipe EXCEPT !.data = PIPES[p].data]
<1>0. PIPES' = [PIPES EXCEPT ![p] = q]
  BY DEF ClosePipe
<1>1. /\ FILES[fd].kind = "pipe"
      /\ FILES' = [FILES EXCEPT ![fd] = FreeFd]
      /\ KOBJS' = Unregistered(KOBJS, ks)
      /\ sent' = [sent EXCEPT ![p] = IF PIPES[p].ends > 1 THEN @ ELSE NoBytes]
      /\ UNCHANGED <<TMPFS, CACHE, DISK_DIRTY, volume, whole, stray>>
  BY DEF ClosePipe
<1>2. p \in PipeIds /\ ks \in 0 .. KOBJ_MAX /\ PIPES \in [PipeIds -> PipeRecords]
  BY <1>1 DEF FilesShape, FdShape, PipeShape
<1>3. PIPES[p] \in PipeRecords /\ PIPES[p].ends \in Nat
  BY <1>2, PipeNumbers
<1>4. q \in PipeRecords
  <2>1. CASE PIPES[p].ends > 1
    <3>1. PIPES[p].ends - 1 \in Nat
      BY <1>3, <2>1
    <3> QED
      BY <1>3, <2>1, <3>1 DEF PipeRecords
  <2>2. CASE ~(PIPES[p].ends > 1)
    <3>1. 0 \in 0 .. PIPE_SIZE - 1 /\ 0 \in 0 .. PIPE_SIZE
      BY SizesAreNumbers
    <3>2. NoPipe \in PipeRecords
      BY <3>1 DEF NoPipe, PipeRecords
    <3>3. PIPES[p].data \in [0 .. PIPE_SIZE - 1 -> Nat]
      BY <1>3, PipeNumbers
    <3>4. [NoPipe EXCEPT !.data = PIPES[p].data] \in PipeRecords
      BY <3>2, <3>3 DEF PipeRecords
    <3> QED
      BY <2>2, <3>4
  <2> QED
    BY <2>1, <2>2
<1>5. FdShape'
  BY <1>1, FreeFdIsRecord, FdReplaced DEF FilesShape
<1>6. PipeShape'
  <2>1. PIPES' \in [PipeIds -> PipeRecords]
    <3> HIDE DEF q
    <3> QED
      BY <1>0, <1>2, <1>4
  <2>2. sent' \in [PipeIds -> [bytes : Nat, read : Nat]]
    BY <1>1, <1>2 DEF FilesShape, PipeShape, NoBytes
  <2>3. KOBJS' \in [ObjIds -> ObjRecords]
    <3>1. KOBJS \in [ObjIds -> ObjRecords] /\ NoObj \in ObjRecords
      BY DEF FilesShape, PipeShape, NoObj, ObjRecords
    <3> HIDE DEF ks
    <3> QED
      BY <1>1, <3>1 DEF Unregistered
  <2> QED
    BY <1>1, <2>1, <2>2, <2>3 DEF FilesShape, PipeShape
<1>7. FileShape'
  BY <1>1, FilesShapeKept DEF FilesShape
<1>8. DiskKept
  BY <1>1, FreeFdIsRecord, DiskKeptByChange DEF FilesShape
<1> QED
  BY <1>5, <1>6, <1>7, <1>8 DEF FilesShape

-----------------------------------------------------------------------------
(* The calls that are not about pipes. *)

\* Such a call keeps the pipes, the objects and every pipe end.
PipesKept ==
  /\ UNCHANGED <<pipeVars, KOBJS, stray>>
  /\ \A fd \in Fds : FILES[fd].kind = "pipe" \/ FILES'[fd].kind = "pipe" =>
       /\ FILES'[fd].kind = FILES[fd].kind /\ FILES'[fd].of = FILES[fd].of
       /\ FILES'[fd].kslot = FILES[fd].kslot

\* It replaces the record of a descriptor that is no pipe end by another.
LEMMA OneFdChanged ==
  ASSUME FilesShape, NEW fd \in Fds, NEW r \in FdRecords, FdTied(r),
         FILES[fd].kind # "pipe", r.kind # "pipe",
         FILES' = [FILES EXCEPT ![fd] = r], UNCHANGED <<pipeVars, KOBJS, stray>>
  PROVE  FdShape' /\ PipeShape' /\ PipesKept
<1>1. FdShape' /\ PipeShape'
  BY FdReplaced, PipesShapeKept DEF FilesShape
<1>2. \A g \in Fds : FILES'[g] = IF g = fd THEN r ELSE FILES[g]
  BY DEF FilesShape, FdShape
<1> QED
  BY <1>1, <1>2 DEF PipesKept

\* It moves the position of a descriptor of any kind.
LEMMA PositionSet ==
  ASSUME FilesShape, NEW fd \in Fds, NEW x \in Nat,
         FILES' = [FILES EXCEPT ![fd].pos = x], UNCHANGED <<pipeVars, KOBJS, stray>>
  PROVE  /\ FdShape' /\ PipeShape' /\ PipesKept
         /\ \A g \in Fds : /\ FILES'[g].kind = FILES[g].kind /\ FILES'[g].of = FILES[g].of
                           /\ FILES'[g].alone = FILES[g].alone
<1>1. FILES \in [Fds -> FdRecords]
  BY DEF FilesShape, FdShape
<1>2. FILES' \in [Fds -> FdRecords]
  BY <1>1 DEF FdRecords
<1>3. \A g \in Fds : /\ FILES'[g].kind = FILES[g].kind /\ FILES'[g].of = FILES[g].of
                     /\ FILES'[g].alone = FILES[g].alone /\ FILES'[g].kslot = FILES[g].kslot
  BY <1>1 DEF FdRecords
<1>4. FdShape'
  BY <1>2, <1>3 DEF FilesShape, FdShape
<1>5. PipeShape'
  BY PipesShapeKept DEF FilesShape
<1> QED
  BY <1>3, <1>4, <1>5 DEF PipesKept

\* A memory file is in one of the slots.
LEMMA TmpSlotIn ==
  ASSUME NEW n, TmpFound(n) \cup TmpFree # {}
  PROVE  TmpSlot(n) \in TmpIds
<1>1. TmpFound(n) \in SUBSET Nat /\ TmpFree \in SUBSET Nat
      /\ TmpFound(n) \subseteq TmpIds /\ TmpFree \subseteq TmpIds
  BY DEF TmpFound, TmpFree, TmpIds
<1> QED
  BY <1>1, LowestIn DEF TmpSlot

LEMMA OpenTmpStep ==
  ASSUME FilesShape, NEW n \in TmpNames, OpenTmp(n)
  PROVE  FilesShape' /\ PipesKept /\ DiskKept
<1> DEFINE k == TmpSlot(n)
           fd == Lowest(FreeFds)
           len == Len(TMPFS'[k].data)
           r1 == [FreeFd EXCEPT !.kind = "ram"]
           r2 == [r1 EXCEPT !.of = n]
           r3 == [r2 EXCEPT !.kslot = k + 1]
           r4 == [r3 EXCEPT !.len = len]
<1>1. /\ FreeFds # {} /\ TmpFound(n) \cup TmpFree # {}
      /\ TMPFS' = IF TmpFound(n) # {} THEN TMPFS
                  ELSE [TMPFS EXCEPT ![k] = [name |-> n, data |-> <<>>]]
      /\ FILES' = [FILES EXCEPT ![fd] = r4]
      /\ UNCHANGED <<pipeVars, KOBJS, CACHE, DISK_DIRTY, volume, whole, stray>>
  BY DEF OpenTmp
<1>2. k \in TmpIds /\ fd \in Fds /\ FILES[fd].kind = "free"
  BY <1>1, TmpSlotIn, FirstFreeFd
<1>3. TMPFS' \in [TmpIds -> [name : TmpNames \cup {NoFile}, data : Seq(Byte)]]
      /\ \A j \in TmpIds : Len(TMPFS'[j].data) <= TMPFS_MAX
  <2>1. TMPFS \in [TmpIds -> [name : TmpNames \cup {NoFile}, data : Seq(Byte)]]
        /\ \A j \in TmpIds : Len(TMPFS[j].data) <= TMPFS_MAX
    BY DEF FilesShape, FileShape
  <2>2. CASE TmpFound(n) # {}
    BY <1>1, <2>1, <2>2
  <2>3. CASE TmpFound(n) = {}
    <3> DEFINE new == [name |-> n, data |-> <<>>]
    <3>1. new \in [name : TmpNames \cup {NoFile}, data : Seq(Byte)]
          /\ Len(new.data) <= TMPFS_MAX
      BY SizesAreNumbers
    <3>2. TMPFS' = [TMPFS EXCEPT ![k] = new]
      BY <1>1, <2>3
    <3> HIDE DEF new, k
    <3> QED
      BY <1>2, <2>1, <3>1, <3>2
  <2> QED
    BY <2>2, <2>3
<1>4. k \in Nat /\ k + 1 \in Nat /\ len \in Nat
  BY <1>2, <1>3 DEF TmpIds
<1> HIDE DEF k, len
<1>5. r1 \in FdRecords /\ r1.kind = "ram"
  BY FreeFdIsRecord DEF FdRecords, FdKinds
<1> HIDE DEF r1
<1>6. r2 \in FdRecords /\ r2.kind = "ram"
  BY <1>5 DEF FdRecords
<1> HIDE DEF r2
<1>7. r3 \in FdRecords /\ r3.kind = "ram" /\ r3.kslot = k + 1
  BY <1>4, <1>6 DEF FdRecords
<1> HIDE DEF r3
<1>8. r4 \in FdRecords /\ r4.kind = "ram" /\ r4.kslot = k + 1
  BY <1>4, <1>7 DEF FdRecords
<1> HIDE DEF r4, fd
<1>9. FdTied(r4)
  <2>1. r4.kslot - 1 = k
    BY <1>4, <1>8
  <2> QED
    BY <1>2, <1>8, <2>1 DEF FdTied
<1>10. FdShape' /\ PipeShape' /\ PipesKept
  BY <1>1, <1>2, <1>8, <1>9, OneFdChanged
<1>11. FileShape'
  BY <1>1, <1>3 DEF FilesShape, FileShape
<1>12. DiskKept
  BY <1>1, <1>2, <1>8, DiskKeptByChange DEF FilesShape
<1> QED
  BY <1>10, <1>11, <1>12 DEF FilesShape

LEMMA WriteTmpStep ==
  ASSUME FilesShape, NEW fd \in Fds, NEW bytes \in Seq(Byte), WriteTmp(fd, bytes)
  PROVE  FilesShape' /\ PipesKept /\ DiskKept
<1> DEFINE k == FILES[fd].kslot - 1
           more == Upto(bytes, TMPFS_MAX - Len(TMPFS[k].data))
           len == Len(TMPFS'[k].data)
           r == [FILES[fd] EXCEPT !.len = len]
<1>1. /\ FILES[fd].kind = "ram"
      /\ TMPFS' = [TMPFS EXCEPT ![k].data = @ \o more]
      /\ UNCHANGED <<pipeVars, KOBJS, CACHE, DISK_DIRTY, volume, whole, stray>>
  BY DEF WriteTmp
<1>2. k \in TmpIds
  BY <1>1 DEF FilesShape, FdShape
<1>3. TMPFS \in [TmpIds -> [name : TmpNames \cup {NoFile}, data : Seq(Byte)]]
      /\ \A j \in TmpIds : Len(TMPFS[j].data) <= TMPFS_MAX
  BY DEF FilesShape, FileShape
<1> HIDE DEF k
<1>4. more \in Seq(Byte) /\ Len(TMPFS[k].data) + Len(more) <= TMPFS_MAX
  <2> DEFINE old == TMPFS[k].data
  <2>1. old \in Seq(Byte) /\ Len(old) <= TMPFS_MAX /\ Len(old) \in Nat
    BY <1>2, <1>3
  <2>2. TMPFS_MAX - Len(old) \in Nat
    BY <2>1, SizesAreNumbers
  <2>3. more \in Seq(Byte) /\ Len(more) <= TMPFS_MAX - Len(old)
    BY <2>2, UptoIsPrefix
  <2> HIDE DEF old, more
  <2>4. Len(more) \in Nat
    BY <2>3
  <2> QED
    BY <2>1, <2>3, <2>4, SizesAreNumbers DEF old
<1> HIDE DEF more
<1>5. TMPFS' \in [TmpIds -> [name : TmpNames \cup {NoFile}, data : Seq(Byte)]]
      /\ \A j \in TmpIds : Len(TMPFS'[j].data) <= TMPFS_MAX
  <2> DEFINE new == TMPFS[k].data \o more
  <2>1. TMPFS[k].data \in Seq(Byte)
    BY <1>2, <1>3
  <2>2. new \in Seq(Byte) /\ Len(new) <= TMPFS_MAX
    BY <1>4, <2>1
  <2>3. TMPFS' = [TMPFS EXCEPT ![k].data = new]
    BY <1>1
  <2> HIDE DEF new
  <2> QED
    BY <1>2, <1>3, <2>2, <2>3
<1>6. len \in Nat
  BY <1>2, <1>5
<1>7. FILES' = [FILES EXCEPT ![fd] = r]
  BY DEF WriteTmp, k
<1> HIDE DEF len
<1>8. FILES[fd] \in FdRecords /\ FdTied(FILES[fd])
  BY DEF FilesShape, FdShape, FdTied
<1>9. /\ r \in FdRecords /\ r.kind = "ram" /\ r.kslot = FILES[fd].kslot
  BY <1>1, <1>6, <1>8 DEF FdRecords
<1> HIDE DEF r
<1>10. FdTied(r)
  BY <1>1, <1>8, <1>9 DEF FdTied
<1>11. FdShape' /\ PipeShape' /\ PipesKept
  BY <1>1, <1>7, <1>9, <1>10, OneFdChanged
<1>12. FileShape'
  BY <1>1, <1>5 DEF FilesShape, FileShape
<1>13. DiskKept
  BY <1>1, <1>7, <1>9, DiskKeptByChange DEF FilesShape
<1> QED
  BY <1>11, <1>12, <1>13 DEF FilesShape

LEMMA ReplaceTmpStep ==
  ASSUME FilesShape, NEW n \in TmpNames, NEW bytes \in Seq(Byte), ReplaceTmp(n, bytes)
  PROVE  FilesShape' /\ PipesKept /\ DiskKept
<1> DEFINE k == TmpSlot(n)
           new == [name |-> n, data |-> Upto(bytes, TMPFS_MAX)]
<1>1. /\ TmpFound(n) \cup TmpFree # {} /\ TMPFS' = [TMPFS EXCEPT ![k] = new]
      /\ UNCHANGED <<pipeVars, FILES, KOBJS, CACHE, DISK_DIRTY, volume, whole, stray>>
  BY DEF ReplaceTmp
<1>2. k \in TmpIds
  BY <1>1, TmpSlotIn
<1>3. /\ new \in [name : TmpNames \cup {NoFile}, data : Seq(Byte)]
      /\ Len(new.data) <= TMPFS_MAX
  BY UptoIsPrefix, SizesAreNumbers
<1> HIDE DEF new, k
<1>4. TMPFS' \in [TmpIds -> [name : TmpNames \cup {NoFile}, data : Seq(Byte)]]
      /\ \A j \in TmpIds : Len(TMPFS'[j].data) <= TMPFS_MAX
  BY <1>1, <1>2, <1>3 DEF FilesShape, FileShape
<1>5. FileShape'
  BY <1>1, <1>4 DEF FilesShape, FileShape
<1>6. FdShape' /\ PipeShape' /\ PipesKept
  BY <1>1, PipesShapeKept DEF FilesShape, FdShape, PipesKept
<1> QED
  BY <1>1, <1>5, <1>6 DEF FilesShape, DiskKept

LEMMA OpenViewStep ==
  ASSUME FilesShape, NEW kind \in {"view", "dir"}, NEW len \in Nat, OpenView(kind, len)
  PROVE  FilesShape' /\ PipesKept /\ DiskKept
<1> DEFINE fd == Lowest(FreeFds)
           r1 == [Unset(fd) EXCEPT !.kind = kind]
           r2 == [r1 EXCEPT !.len = len]
<1>1. /\ FreeFds # {} /\ FILES' = [FILES EXCEPT ![fd] = r2]
      /\ UNCHANGED <<pipeVars, KOBJS, TMPFS, CACHE, DISK_DIRTY, volume, whole, stray>>
  BY DEF OpenView
<1>2. fd \in Fds /\ FILES[fd].kind = "free"
  BY <1>1, FirstFreeFd
<1> HIDE DEF fd
<1>3. Unset(fd) \in FdRecords
  BY <1>2, UnsetIsRecord DEF FilesShape
<1>4. r1 \in FdRecords /\ r1.kind = kind
  BY <1>3 DEF FdRecords, FdKinds
<1> HIDE DEF r1
<1>5. r2 \in FdRecords /\ r2.kind = kind
  BY <1>4 DEF FdRecords
<1> HIDE DEF r2
<1>6. FdTied(r2)
  BY <1>5 DEF FdTied
<1>7. FdShape' /\ PipeShape' /\ PipesKept
  BY <1>1, <1>2, <1>5, <1>6, OneFdChanged
<1>8. FileShape'
  BY <1>1, FilesShapeKept DEF FilesShape
<1>9. DiskKept
  BY <1>1, <1>2, <1>5, DiskKeptByChange DEF FilesShape
<1> QED
  BY <1>7, <1>8, <1>9 DEF FilesShape

LEMMA TmpListedIsNumber == TmpListed \in Nat
<1> DEFINE empty == {k \in TmpIds : TMPFS[k].data = <<>>}
<1>1. CASE empty = {}
  BY <1>1, SizesAreNumbers DEF TmpListed
<1>2. CASE empty # {}
  <2>1. empty \in SUBSET Nat
    BY DEF TmpIds
  <2>2. TmpListed = Lowest(empty)
    BY <1>2 DEF TmpListed
  <2> HIDE DEF empty
  <2> QED
    BY <1>2, <2>1, <2>2, LowestIn
<1> QED
  BY <1>1, <1>2

\* Reading, listing and seeking move one position.
LEMMA PositionStep ==
  ASSUME FilesShape, NEW fd \in Fds, NEW n \in Nat,
         Read(fd, n) \/ Getdents(fd, n) \/ \E to \in 0 .. MaxSeek : Lseek(fd, to)
  PROVE  FilesShape' /\ PipesKept /\ DiskKept
<1>1. UNCHANGED <<pipeVars, KOBJS, TMPFS, CACHE, DISK_DIRTY, volume, whole, stray>>
  BY DEF Read, Getdents, Lseek
<1>2. FILES[fd].pos \in Nat /\ FILES[fd].len \in Nat
  BY DEF FilesShape, FdShape, FdRecords
<1>3. ASSUME NEW x \in Nat, FILES' = [FILES EXCEPT ![fd].pos = x]
      PROVE  /\ FdShape' /\ PipeShape' /\ PipesKept
             /\ \A g \in Fds : /\ FILES'[g].kind = FILES[g].kind /\ FILES'[g].of = FILES[g].of
                               /\ FILES'[g].alone = FILES[g].alone
  BY <1>1, <1>3, PositionSet
<1>4. /\ FdShape' /\ PipeShape' /\ PipesKept
      /\ \A g \in Fds : /\ FILES'[g].kind = FILES[g].kind /\ FILES'[g].of = FILES[g].of
                        /\ FILES'[g].alone = FILES[g].alone
  <2>1. CASE Read(fd, n)
    <3> DEFINE f == FILES[fd]
               y == Smaller(n, f.len - f.pos)
               x == f.pos + y
    <3>1. f.len > f.pos /\ FILES' = [FILES EXCEPT ![fd].pos = x]
      BY <2>1 DEF Read
    <3>2. f.len - f.pos \in Nat
      BY <1>2, <3>1
    <3>3. y \in Nat
      BY <3>2, SmallerIs
    <3> HIDE DEF y
    <3>4. x \in Nat
      BY <1>2, <3>3
    <3> HIDE DEF x
    <3> QED
      BY <1>3, <3>1, <3>4
  <2>2. CASE Getdents(fd, n)
    <3> DEFINE f == FILES[fd]
               listed == TmpListed + 2
               y == Smaller(n, listed - f.pos)
               x == f.pos + y
    <3>1. f.pos < listed /\ FILES' = [FILES EXCEPT ![fd].pos = x]
      BY <2>2 DEF Getdents
    <3>2. listed - f.pos \in Nat
      BY <1>2, <3>1, TmpListedIsNumber
    <3>3. y \in Nat
      BY <3>2, SmallerIs
    <3> HIDE DEF y
    <3>4. x \in Nat
      BY <1>2, <3>3
    <3> HIDE DEF x
    <3> QED
      BY <1>3, <3>1, <3>4
  <2>3. CASE \E to \in 0 .. MaxSeek : Lseek(fd, to)
    <3>1. PICK to \in 0 .. MaxSeek : Lseek(fd, to)
      BY <2>3
    <3>2. to \in Nat
      BY FilesAssumption
    <3>3. FILES' = [FILES EXCEPT ![fd].pos = to]
      BY <3>1 DEF Lseek
    <3> QED
      BY <1>3, <3>2, <3>3
  <2> QED
    BY <2>1, <2>2, <2>3
<1>5. FileShape'
  BY <1>1, FilesShapeKept DEF FilesShape
<1> QED
  BY <1>1, <1>4, <1>5 DEF FilesShape, DiskKept

\* The only disk descriptor is the one the buffer is for.
DiskInv ==
  \A fd \in Fds : FILES[fd].kind = "disk" /\ FILES[fd].alone =>
    /\ \A g \in Fds : FILES[g].kind = "disk" => g = fd
    /\ CACHE = whole[fd]
    /\ DISK_DIRTY \/ CACHE = volume[FILES[fd].of]

\* The record that open makes of descriptor fd.
DiskFd(fd, n, len, b) ==
  [Unset(fd) EXCEPT !.kind = "disk", !.of = n, !.len = len, !.alone = b]

LEMMA DiskRecord ==
  ASSUME FilesShape, NEW fd \in Fds, NEW n \in DiskNames, NEW len \in Nat, NEW b \in BOOLEAN
  PROVE  LET r == DiskFd(fd, n, len, b)
         IN  r \in FdRecords /\ FdTied(r) /\ r.kind = "disk" /\ r.of = n /\ r.alone = b
<1> DEFINE r1 == [Unset(fd) EXCEPT !.kind = "disk"]
           r2 == [r1 EXCEPT !.of = n]
           r3 == [r2 EXCEPT !.len = len]
           r4 == [r3 EXCEPT !.alone = b]
<1>1. Unset(fd) \in FdRecords
  BY UnsetIsRecord DEF FilesShape
<1>2. r1 \in FdRecords /\ r1.kind = "disk"
  BY <1>1 DEF FdRecords, FdKinds
<1> HIDE DEF r1
<1>3. r2 \in FdRecords /\ r2.kind = "disk" /\ r2.of = n
  BY <1>2 DEF FdRecords
<1> HIDE DEF r2
<1>4. r3 \in FdRecords /\ r3.kind = "disk" /\ r3.of = n
  BY <1>3 DEF FdRecords
<1> HIDE DEF r3
<1>5. r4 \in FdRecords /\ r4.kind = "disk" /\ r4.of = n /\ r4.alone = b
  BY <1>4 DEF FdRecords
<1> HIDE DEF r4
<1>6. FdTied(r4)
  BY <1>5 DEF FdTied
<1>7. r4 = DiskFd(fd, n, len, b)
  BY DEF r1, r2, r3, r4, DiskFd
<1> QED
  BY <1>5, <1>6, <1>7

LEMMA OpenDiskStep ==
  ASSUME FilesShape, NEW n \in DiskNames, OpenDisk(n)
  PROVE  FilesShape' /\ PipesKept /\ DiskInv'
<1> DEFINE fd == Lowest(FreeFds)
           others == {g \in Fds : FILES[g].kind = "disk"}
           r == DiskFd(fd, n, Len(CACHE'), others = {})
           shut(g) == [FILES[g] EXCEPT !.alone = FALSE]
<1>1. /\ FreeFds # {} /\ CACHE' = Upto(volume[n], DISK_CACHE_MAX) /\ DISK_DIRTY' = FALSE
      /\ FILES' = [g \in Fds |-> IF g = fd THEN r ELSE shut(g)]
      /\ whole' = [whole EXCEPT ![fd] = CACHE']
      /\ UNCHANGED <<pipeVars, KOBJS, TMPFS, volume, stray>>
  BY DEF OpenDisk, DiskFd
<1>2. fd \in Fds /\ FILES[fd].kind = "free"
  BY <1>1, FirstFreeFd
<1>3. volume[n] \in Seq(Byte) /\ Len(volume[n]) <= DISK_CACHE_MAX
  BY DEF FilesShape, FileShape
<1>4. CACHE' \in Seq(Byte) /\ Len(CACHE') <= DISK_CACHE_MAX /\ CACHE' = volume[n]
      /\ Len(CACHE') \in Nat
  <2> DEFINE v == volume[n]
             u == Upto(v, DISK_CACHE_MAX)
  <2>1. u \in Seq(Byte) /\ Len(u) <= DISK_CACHE_MAX /\ u = v
    <3> HIDE DEF v
    <3> QED
      BY <1>3, UptoIsPrefix, SizesAreNumbers DEF v
  <2>2. CACHE' = u
    BY <1>1
  <2> HIDE DEF u
  <2> QED
    BY <2>1, <2>2 DEF v
<1>5. FileShape'
  <2>1. whole' \in [Fds -> Seq(Byte)]
    BY <1>1, <1>2, <1>4 DEF FilesShape, FileShape
  <2> QED
    BY <1>1, <1>4, <2>1 DEF FilesShape, FileShape
<1> HIDE DEF fd
<1>6. r \in FdRecords /\ FdTied(r) /\ r.kind = "disk" /\ r.of = n /\ r.alone = (others = {})
  <2> DEFINE b == (others = {})
             len == Len(CACHE')
  <2>1. b \in BOOLEAN /\ len \in Nat
    BY <1>4
  <2>2. r = DiskFd(fd, n, len, b)
    OBVIOUS
  <2> HIDE DEF b, len, r
  <2>3. r \in FdRecords /\ FdTied(r) /\ r.kind = "disk" /\ r.of = n /\ r.alone = b
    BY <1>2, <2>1, <2>2, DiskRecord
  <2> QED
    BY <2>3 DEF b
<1>7. \A g \in Fds : /\ shut(g) \in FdRecords /\ FdTied(shut(g)) /\ ~shut(g).alone
                     /\ shut(g).kind = FILES[g].kind /\ shut(g).of = FILES[g].of
                     /\ shut(g).kslot = FILES[g].kslot
  <2> SUFFICES ASSUME NEW g \in Fds
               PROVE  /\ shut(g) \in FdRecords /\ FdTied(shut(g)) /\ ~shut(g).alone
                      /\ shut(g).kind = FILES[g].kind /\ shut(g).of = FILES[g].of
                      /\ shut(g).kslot = FILES[g].kslot
    OBVIOUS
  <2>1. FILES[g] \in FdRecords /\ FdTied(FILES[g])
    BY DEF FilesShape, FdShape, FdTied
  <2>2. /\ shut(g) \in FdRecords /\ ~shut(g).alone
        /\ shut(g).kind = FILES[g].kind /\ shut(g).of = FILES[g].of
        /\ shut(g).kslot = FILES[g].kslot
    BY <2>1 DEF FdRecords
  <2> HIDE DEF shut
  <2> QED
    BY <2>1, <2>2 DEF FdTied
<1> HIDE DEF r, shut
<1>8. \A g \in Fds : FILES'[g] = IF g = fd THEN r ELSE shut(g)
  BY <1>1
<1>9. FdShape'
  <2>1. FILES' \in [Fds -> FdRecords]
    BY <1>1, <1>6, <1>7
  <2> QED
    BY <1>6, <1>7, <1>8, <2>1 DEF FdShape, FdTied
<1>10. PipeShape' /\ PipesKept
  BY <1>1, <1>2, <1>6, <1>7, <1>8, PipesShapeKept DEF FilesShape, PipesKept
<1>11. DiskInv'
  <2> SUFFICES ASSUME NEW g \in Fds, FILES'[g].kind = "disk", FILES'[g].alone
               PROVE  /\ \A h \in Fds : FILES'[h].kind = "disk" => h = g
                      /\ CACHE' = whole'[g]
                      /\ DISK_DIRTY' \/ CACHE' = volume'[FILES'[g].of]
    BY DEF DiskInv
  <2>1. g = fd
    BY <1>7, <1>8
  <2>2. others = {}
    BY <1>6, <1>8, <2>1
  <2>3. \A h \in Fds : FILES'[h].kind = "disk" => h = g
    BY <1>7, <1>8, <2>1, <2>2
  <2>4. CACHE' = whole'[g]
    BY <1>1, <1>2, <2>1 DEF FilesShape, FileShape
  <2>5. CACHE' = volume'[FILES'[g].of]
    BY <1>1, <1>4, <1>6, <1>8, <2>1
  <2> QED
    BY <2>3, <2>4, <2>5
<1> QED
  BY <1>5, <1>9, <1>10, <1>11 DEF FilesShape

LEMMA WriteDiskStep ==
  ASSUME FilesShape, DiskInv, NEW fd \in Fds, NEW bytes \in Seq(Byte), WriteDisk(fd, bytes)
  PROVE  FilesShape' /\ PipesKept /\ DiskInv'
<1> DEFINE more == Upto(bytes, DISK_CACHE_MAX - Len(CACHE))
           now == CACHE \o more
           all == whole[fd] \o more
<1>1. /\ FILES[fd].kind = "disk" /\ CACHE' = now /\ DISK_DIRTY' = TRUE
      /\ whole' = [whole EXCEPT ![fd] = Upto(all, DISK_CACHE_MAX)]
      /\ UNCHANGED <<pipeVars, FILES, KOBJS, TMPFS, volume, stray>>
  BY DEF WriteDisk
<1>2. /\ CACHE \in Seq(Byte) /\ Len(CACHE) <= DISK_CACHE_MAX /\ Len(CACHE) \in Nat
      /\ whole[fd] \in Seq(Byte)
  BY DEF FilesShape, FileShape
<1>3. more \in Seq(Byte) /\ Len(more) <= DISK_CACHE_MAX - Len(CACHE)
  <2>1. DISK_CACHE_MAX - Len(CACHE) \in Nat
    BY <1>2, SizesAreNumbers
  <2> QED
    BY <2>1, UptoIsPrefix
<1> HIDE DEF more
<1>4. now \in Seq(Byte) /\ Len(now) <= DISK_CACHE_MAX /\ all \in Seq(Byte)
  BY <1>2, <1>3, SizesAreNumbers
<1>5. whole[fd] = CACHE => all = now
  OBVIOUS
<1> HIDE DEF now, all
<1>6. Upto(all, DISK_CACHE_MAX) \in Seq(Byte) /\ Upto(now, DISK_CACHE_MAX) = now
  BY <1>4, UptoIsPrefix, SizesAreNumbers
<1>7. whole' \in [Fds -> Seq(Byte)] /\ whole'[fd] = Upto(all, DISK_CACHE_MAX)
  BY <1>1, <1>6 DEF FilesShape, FileShape
<1>8. FileShape'
  BY <1>1, <1>4, <1>7 DEF FilesShape, FileShape
<1>9. FdShape' /\ PipeShape' /\ PipesKept
  BY <1>1, PipesShapeKept DEF FilesShape, FdShape, PipesKept
<1>10. DiskInv'
  <2> SUFFICES ASSUME NEW g \in Fds, FILES'[g].kind = "disk", FILES'[g].alone
               PROVE  /\ \A h \in Fds : FILES'[h].kind = "disk" => h = g
                      /\ CACHE' = whole'[g]
                      /\ DISK_DIRTY'
    BY DEF DiskInv
  <2>1. FILES' = FILES
    BY <1>1
  <2>2. /\ \A h \in Fds : FILES[h].kind = "disk" => h = g
        /\ CACHE = whole[g]
    BY <2>1 DEF DiskInv
  <2>3. g = fd
    BY <1>1, <2>2
  <2>4. CACHE' = whole'[g]
    BY <1>1, <1>5, <1>6, <1>7, <2>2, <2>3
  <2> QED
    BY <1>1, <2>1, <2>2, <2>4
<1> QED
  BY <1>8, <1>9, <1>10 DEF FilesShape

LEMMA CloseStep ==
  ASSUME FilesShape, DiskInv, NEW fd \in Fds, Close(fd)
  PROVE  FilesShape' /\ PipesKept /\ DiskInv'
<1> DEFINE flush == FILES[fd].kind = "disk" /\ DISK_DIRTY
<1>1. /\ FILES[fd].kind # "pipe" /\ FILES' = [FILES EXCEPT ![fd] = Unset(fd)]
      /\ DISK_DIRTY' = (DISK_DIRTY /\ ~flush)
      /\ whole' = [whole EXCEPT ![fd] = <<>>]
      /\ UNCHANGED <<pipeVars, KOBJS, TMPFS, CACHE, stray>>
  BY DEF Close
<1>2. \/ flush /\ volume' = [volume EXCEPT ![FILES[fd].of] = CACHE]
      \/ UNCHANGED volume
  BY DEF Close
<1>3. Unset(fd) \in FdRecords /\ FdTied(Unset(fd)) /\ Unset(fd).kind = "free"
  BY UnsetIsRecord DEF FilesShape
<1>4. FdShape' /\ PipeShape' /\ PipesKept
  BY <1>1, <1>3, OneFdChanged
<1>5. volume' \in [DiskNames -> Seq(Byte)]
      /\ \A n \in DiskNames : Len(volume'[n]) <= DISK_CACHE_MAX
  <2>1. flush => FILES[fd].of \in DiskNames
    BY DEF FilesShape, FdShape
  <2>2. /\ CACHE \in Seq(Byte) /\ Len(CACHE) <= DISK_CACHE_MAX
        /\ volume \in [DiskNames -> Seq(Byte)]
        /\ \A n \in DiskNames : Len(volume[n]) <= DISK_CACHE_MAX
    BY DEF FilesShape, FileShape
  <2> HIDE DEF flush
  <2>3. CASE UNCHANGED volume
    BY <2>2, <2>3
  <2>4. CASE flush /\ volume' = [volume EXCEPT ![FILES[fd].of] = CACHE]
    <3> DEFINE n == FILES[fd].of
    <3>1. n \in DiskNames /\ volume' = [volume EXCEPT ![n] = CACHE]
      BY <2>1, <2>4
    <3> HIDE DEF n
    <3> QED
      BY <2>2, <3>1
  <2> QED
    BY <1>2, <2>3, <2>4
<1>6. FileShape'
  <2>1. whole' \in [Fds -> Seq(Byte)]
    BY <1>1 DEF FilesShape, FileShape
  <2> QED
    BY <1>1, <1>5, <2>1 DEF FilesShape, FileShape
<1>7. DiskInv'
  <2> SUFFICES ASSUME NEW g \in Fds, FILES'[g].kind = "disk", FILES'[g].alone
               PROVE  /\ \A h \in Fds : FILES'[h].kind = "disk" => h = g
                      /\ CACHE' = whole'[g]
                      /\ DISK_DIRTY' \/ CACHE' = volume'[FILES'[g].of]
    BY DEF DiskInv
  <2>1. \A h \in Fds : FILES'[h] = IF h = fd THEN Unset(fd) ELSE FILES[h]
    BY <1>1 DEF FilesShape, FdShape
  <2>2. g # fd /\ FILES'[g] = FILES[g]
    BY <1>3, <2>1
  <2>3. /\ \A h \in Fds : FILES[h].kind = "disk" => h = g
        /\ CACHE = whole[g] /\ (DISK_DIRTY \/ CACHE = volume[FILES[g].of])
    BY <2>2 DEF DiskInv
  <2>4. FILES[fd].kind # "disk"
    BY <2>2, <2>3
  <2>5. UNCHANGED volume /\ (DISK_DIRTY' <=> DISK_DIRTY)
    BY <1>1, <1>2, <2>4
  <2>6. whole'[g] = whole[g]
    BY <1>1, <2>2 DEF FilesShape, FileShape
  <2>7. \A h \in Fds : FILES'[h].kind = "disk" => h = g
    BY <1>3, <2>1, <2>3
  <2> QED
    BY <1>1, <2>2, <2>3, <2>5, <2>6, <2>7
<1> QED
  BY <1>4, <1>6, <1>7 DEF FilesShape

LEMMA DiskInvKept == DiskInv /\ DiskKept => DiskInv'
BY DEF DiskInv, DiskKept

-----------------------------------------------------------------------------
(* What a step of Next may be. *)

VfsStep ==
  \/ \E fd \in Fds, b \in Chunks : WriteTmp(fd, b) \/ WriteDisk(fd, b)
  \/ \E fd \in Fds, n \in Sizes : Read(fd, n) \/ Getdents(fd, n)
  \/ \E fd \in Fds : Close(fd)
  \/ \E n \in TmpNames : OpenTmp(n)
  \/ \E n \in TmpNames, b \in Chunks : ReplaceTmp(n, b)
  \/ \E n \in DiskNames : OpenDisk(n)
  \/ OpenView("view", 1) \/ OpenView("dir", 0)
  \/ \E fd \in Fds, to \in 0 .. MaxSeek : Lseek(fd, to)

ObjectStep == KobjCreate \/ RegisterUnowned("shm") \/ \E i \in ObjIds : KobjFree(i)

LEMMA FilesStepIs ==
  FilesNext => \/ ObjectStep \/ VfsStep \/ FujoPipe
               \/ \E fd \in Fds, n \in Sizes : PipeWrite(fd, n) \/ PipeRead(fd, n)
               \/ \E fd \in Fds : ClosePipe(fd)
BY DEF FilesNext, ObjectStep, VfsStep

LEMMA VfsStepKeeps ==
  ASSUME FilesShape, DiskInv, VfsStep
  PROVE  FilesShape' /\ PipesKept /\ DiskInv'
<1>1. \A b \in Chunks : b \in Seq(Byte)
  BY FilesAssumption DEF Byte
<1>2. \A n \in Sizes : n \in Nat
  BY DEF Sizes
<1>3. CASE \E fd \in Fds, b \in Chunks : WriteTmp(fd, b)
  BY <1>1, <1>3, WriteTmpStep, DiskInvKept
<1>4. CASE \E fd \in Fds, b \in Chunks : WriteDisk(fd, b)
  BY <1>1, <1>4, WriteDiskStep
<1>5. CASE \E fd \in Fds, n \in Sizes : Read(fd, n) \/ Getdents(fd, n)
  BY <1>2, <1>5, PositionStep, DiskInvKept
<1>6. CASE \E fd \in Fds, to \in 0 .. MaxSeek : Lseek(fd, to)
  BY <1>6, PositionStep, DiskInvKept
<1>7. CASE \E fd \in Fds : Close(fd)
  BY <1>7, CloseStep
<1>8. CASE \E n \in TmpNames : OpenTmp(n)
  BY <1>8, OpenTmpStep, DiskInvKept
<1>9. CASE \E n \in TmpNames, b \in Chunks : ReplaceTmp(n, b)
  BY <1>1, <1>9, ReplaceTmpStep, DiskInvKept
<1>10. CASE \E n \in DiskNames : OpenDisk(n)
  BY <1>10, OpenDiskStep
<1>11. CASE OpenView("view", 1) \/ OpenView("dir", 0)
  BY <1>11, OpenViewStep, DiskInvKept
<1> QED
  BY <1>3, <1>4, <1>5, <1>6, <1>7, <1>8, <1>9, <1>10, <1>11 DEF VfsStep

LEMMA ShapeAndDiskKept ==
  ASSUME FilesShape, DiskInv, [FilesNext]_filesVars
  PROVE  FilesShape' /\ DiskInv'
<1>1. \A n \in Sizes : n \in Nat
  BY DEF Sizes
<1>2. CASE ObjectStep
  BY <1>2, ObjectsKeepShape, DiskInvKept DEF ObjectStep
<1>3. CASE VfsStep
  BY <1>3, VfsStepKeeps
<1>4. CASE FujoPipe
  BY <1>4, FujoPipeKeepsShape, DiskInvKept
<1>5. CASE \E fd \in Fds, n \in Sizes : PipeWrite(fd, n) \/ PipeRead(fd, n)
  BY <1>1, <1>5, PipeWriteKeepsShape, PipeReadKeepsShape, DiskInvKept
<1>6. CASE \E fd \in Fds : ClosePipe(fd)
  BY <1>6, ClosePipeKeepsShape, DiskInvKept
<1>7. CASE UNCHANGED filesVars
  BY <1>7 DEF filesVars, FilesShape, FdShape, PipeShape, FileShape, DiskInv
<1> QED
  BY <1>2, <1>3, <1>4, <1>5, <1>6, <1>7, FilesStepIs

-----------------------------------------------------------------------------
(* Pipes count their ends. *)

Ends(p) == {fd \in Fds : FILES[fd].kind = "pipe" /\ FILES[fd].of = p}

LEMMA EndsAreFinite ==
  \A p : IsFiniteSet(Ends(p)) /\ Cardinality(Ends(p)) \in Nat
<1> SUFFICES ASSUME NEW p
             PROVE  IsFiniteSet(Ends(p)) /\ Cardinality(Ends(p)) \in Nat
  OBVIOUS
<1>1. IsFiniteSet(Fds) /\ Ends(p) \in SUBSET Fds
  BY FilesAssumption DEF Ends
<1>2. IsFiniteSet(Ends(p))
  BY <1>1, FS_Subset
<1> QED
  BY <1>2, FS_CardinalityType

LEMMA PipesCountEndsIs ==
  PipesCountEnds <=> \A p \in PipeIds : /\ PIPES[p].ends = Cardinality(Ends(p))
                                        /\ PIPES[p].used = (Ends(p) # {})
BY DEF PipesCountEnds, Ends

\* Nothing moves between a pipe and its ends.
LEMMA EndsKept ==
  ASSUME PipesCountEnds, \A p \in PipeIds : Ends(p)' = Ends(p),
         \A p \in PipeIds : PIPES'[p].ends = PIPES[p].ends /\ PIPES'[p].used = PIPES[p].used
  PROVE  PipesCountEnds'
<1>1. \A p \in PipeIds : /\ PIPES'[p].ends = Cardinality(Ends(p)')
                         /\ PIPES'[p].used = (Ends(p)' # {})
  BY PipesCountEndsIs
<1> QED
  BY <1>1 DEF PipesCountEnds, Ends

\* Bytes that go in and out leave the ends alone.
LEMMA BytesKeepEnds ==
  ASSUME FilesShape, NEW fd \in Fds, NEW n \in Nat, PipeWrite(fd, n) \/ PipeRead(fd, n)
  PROVE  /\ UNCHANGED <<FILES, KOBJS, stray>>
         /\ \A p \in PipeIds : PIPES'[p].ends = PIPES[p].ends /\ PIPES'[p].used = PIPES[p].used
<1>1. PIPES \in [PipeIds -> PipeRecords]
  BY DEF FilesShape, PipeShape
<1>2. UNCHANGED <<FILES, KOBJS, stray>>
  BY DEF PipeWrite, PipeRead, vfsVars
<1> DEFINE p == FILES[fd].of
           q == PIPES[p]
<1>3. CASE PipeWrite(fd, n)
  <2> DEFINE m == Smaller(n, PIPE_SIZE - q.len)
             nth(k) == (k + 2 * PIPE_SIZE - q.head - q.len) % PIPE_SIZE
             d == [k \in DOMAIN q.data |-> IF nth(k) < m THEN sent[p].bytes + nth(k)
                                           ELSE q.data[k]]
             P1 == [PIPES EXCEPT ![p].len = @ + m]
             P2 == [P1 EXCEPT ![p].data = d]
  <2>0. p \in PipeIds
    BY <1>3, PipeWriteIs
  <2>1. P1[p].data = q.data
    BY <1>1, <2>0 DEF PipeRecords
  <2>2. PIPES' = P2
    BY <1>3, <2>1 DEF PipeWrite
  <2> HIDE DEF m, d
  <2>3. \A j \in PipeIds : P1[j].ends = PIPES[j].ends /\ P1[j].used = PIPES[j].used
    BY <1>1 DEF PipeRecords
  <2>4. DOMAIN P1 = PipeIds
    BY <1>1
  <2>5. "ends" \in DOMAIN P1[p] /\ "used" \in DOMAIN P1[p]
    BY <1>1, <2>0 DEF PipeRecords
  <2> HIDE DEF P1
  <2>6. \A j \in PipeIds : P2[j].ends = P1[j].ends /\ P2[j].used = P1[j].used
    BY <2>4, <2>5
  <2> QED
    BY <1>2, <2>2, <2>3, <2>6
<1>4. CASE PipeRead(fd, n)
  <2> DEFINE k == Smaller(n, q.len)
             h == (q.head + k) % PIPE_SIZE
             P1 == [PIPES EXCEPT ![p].head = h]
             l == P1[p].len - k
             P2 == [P1 EXCEPT ![p].len = l]
  <2>1. PIPES' = P2
    BY <1>4 DEF PipeRead
  <2>2. p \in PipeIds
    BY <1>4, PipeReadKeepsShape
  <2> HIDE DEF k, h, l
  <2>3. \A j \in PipeIds : P1[j].ends = PIPES[j].ends /\ P1[j].used = PIPES[j].used
    BY <1>1 DEF PipeRecords
  <2>4. DOMAIN P1 = PipeIds
    BY <1>1
  <2>5. "ends" \in DOMAIN P1[p] /\ "used" \in DOMAIN P1[p]
    BY <1>1, <2>2 DEF PipeRecords
  <2> HIDE DEF P1
  <2>6. \A j \in PipeIds : P2[j].ends = P1[j].ends /\ P2[j].used = P1[j].used
    BY <2>4, <2>5
  <2> QED
    BY <1>2, <2>1, <2>3, <2>6
<1> QED
  BY <1>3, <1>4

\* What fujo_pipe makes: two free descriptors become the ends of a free pipe,
\* each with an object of its own as far as there is room.
PipeMade(p, r, w, k1, k2, objs) ==
  /\ ~PIPES[p].used /\ r # w /\ FILES[r].kind = "free" /\ FILES[w].kind = "free"
  /\ \A g \in Fds : FILES'[g] = IF g = w THEN PipeEnd(p, k2)
                                ELSE IF g = r THEN PipeEnd(p, k1) ELSE FILES[g]
  /\ \A j \in PipeIds \ {p} : PIPES'[j] = PIPES[j] /\ sent'[j] = sent[j]
  /\ PIPES'[p].used = TRUE /\ PIPES'[p].head = 0 /\ PIPES'[p].len = 0 /\ PIPES'[p].ends = 2
  /\ sent'[p] = NoBytes
  /\ TookSlot(KOBJS, objs, k1, "pipe", r) /\ TookSlot(objs, KOBJS', k2, "pipe", w)
  /\ UNCHANGED stray

LEMMA FujoPipeMakes ==
  ASSUME FilesShape, FujoPipe
  PROVE  \/ UNCHANGED filesVars
         \/ \E p \in PipeIds, r \in Fds, w \in Fds, k1 \in 0 .. KOBJ_MAX,
               k2 \in 0 .. KOBJ_MAX, objs \in [ObjIds -> ObjRecords] :
                 PipeMade(p, r, w, k1, k2, objs)
<1> DEFINE free == {p \in PipeIds : ~PIPES[p].used}
           p == Lowest(free)
           r == Lowest(FreeFds)
           w == Lowest(FreeFds \ {r})
           o1 == Registered(KOBJS, "pipe", r)
           o2 == Registered(o1.objs, "pipe", w)
<1>1. free # {} /\ FreeFds # {}
  BY DEF FujoPipe
<1>2. CASE FreeFds = {r}
  BY <1>2 DEF FujoPipe, OneEndOnly
<1>3. CASE FreeFds # {r}
  <2>1. /\ FILES' = [FILES EXCEPT ![r] = PipeEnd(p, o1.kslot), ![w] = PipeEnd(p, o2.kslot)]
        /\ KOBJS' = o2.objs
        /\ PIPES' = [PIPES EXCEPT ![p].used = TRUE, ![p].head = 0,
                                  ![p].len = 0, ![p].ends = 2]
        /\ sent' = [sent EXCEPT ![p] = NoBytes]
        /\ UNCHANGED stray
    BY <1>3 DEF FujoPipe
  <2>2. p \in PipeIds /\ ~PIPES[p].used
    <3>1. free \in SUBSET Nat
      BY DEF PipeIds
    <3> HIDE DEF free
    <3>2. p \in free
      BY <1>1, <3>1, LowestIn
    <3> QED
      BY <3>2 DEF free
  <2>3. r \in FreeFds /\ w \in FreeFds \ {r}
    BY <1>1, <1>3, FdsAreNumbers, LowestIn
  <2>4. r \in Fds /\ w \in Fds /\ r \in Nat /\ w \in Nat
    BY <2>3, FdsAreNumbers
  <2>5. r # w /\ FILES[r].kind = "free" /\ FILES[w].kind = "free"
    BY <2>3 DEF FreeFds
  <2> HIDE DEF free, p, r, w
  <2>6. /\ o1.objs \in [ObjIds -> ObjRecords] /\ o1.kslot \in 0 .. KOBJ_MAX
        /\ TookSlot(KOBJS, o1.objs, o1.kslot, "pipe", r)
    BY <2>4, RegisteredTakesFree DEF FilesShape, PipeShape
  <2>7. /\ o2.objs \in [ObjIds -> ObjRecords] /\ o2.kslot \in 0 .. KOBJ_MAX
        /\ TookSlot(o1.objs, o2.objs, o2.kslot, "pipe", w)
    BY <2>4, <2>6, RegisteredTakesFree
  <2> HIDE DEF o1, o2
  <2>8. \A g \in Fds : FILES'[g] = IF g = w THEN PipeEnd(p, o2.kslot)
                                   ELSE IF g = r THEN PipeEnd(p, o1.kslot) ELSE FILES[g]
    <3> DEFINE e1 == PipeEnd(p, o1.kslot)
               e2 == PipeEnd(p, o2.kslot)
    <3>1. FILES' = [FILES EXCEPT ![r] = e1, ![w] = e2]
      BY <2>1
    <3> HIDE DEF e1, e2
    <3>2. \A g \in Fds : FILES'[g] = IF g = w THEN e2 ELSE IF g = r THEN e1 ELSE FILES[g]
      BY <2>4, <3>1 DEF FilesShape, FdShape
    <3> QED
      BY <3>2 DEF e1, e2
  <2>9. /\ \A j \in PipeIds \ {p} : PIPES'[j] = PIPES[j]
        /\ PIPES'[p].used = TRUE /\ PIPES'[p].head = 0 /\ PIPES'[p].len = 0
        /\ PIPES'[p].ends = 2
    <3> DEFINE P1 == [PIPES EXCEPT ![p].used = TRUE]
               P2 == [P1 EXCEPT ![p].head = 0]
               P3 == [P2 EXCEPT ![p].len = 0]
               P4 == [P3 EXCEPT ![p].ends = 2]
    <3>0. 0 \in 0 .. PIPE_SIZE - 1 /\ 0 \in 0 .. PIPE_SIZE
      BY SizesAreNumbers
    <3>1. PIPES' = P4
      BY <2>1
    <3>2. /\ P1 \in [PipeIds -> PipeRecords] /\ P1[p].used = TRUE
          /\ \A j \in PipeIds \ {p} : P1[j] = PIPES[j]
      BY <2>2 DEF FilesShape, PipeShape, PipeRecords
    <3> HIDE DEF P1
    <3>3. /\ P2 \in [PipeIds -> PipeRecords] /\ P2[p].used = TRUE /\ P2[p].head = 0
          /\ \A j \in PipeIds \ {p} : P2[j] = PIPES[j]
      BY <2>2, <3>0, <3>2 DEF PipeRecords
    <3> HIDE DEF P2
    <3>4. /\ P3 \in [PipeIds -> PipeRecords] /\ P3[p].used = TRUE /\ P3[p].head = 0
          /\ P3[p].len = 0 /\ \A j \in PipeIds \ {p} : P3[j] = PIPES[j]
      BY <2>2, <3>0, <3>3 DEF PipeRecords
    <3> HIDE DEF P3
    <3>5. /\ P4[p].used = TRUE /\ P4[p].head = 0 /\ P4[p].len = 0 /\ P4[p].ends = 2
          /\ \A j \in PipeIds \ {p} : P4[j] = PIPES[j]
      BY <2>2, <3>4 DEF PipeRecords
    <3> QED
      BY <3>1, <3>5
  <2>10. sent'[p] = NoBytes /\ \A j \in PipeIds \ {p} : sent'[j] = sent[j]
    BY <2>1, <2>2 DEF FilesShape, PipeShape
  <2>11. PipeMade(p, r, w, o1.kslot, o2.kslot, o1.objs)
    BY <2>1, <2>2, <2>5, <2>6, <2>7, <2>8, <2>9, <2>10 DEF PipeMade
  <2> QED
    BY <2>2, <2>4, <2>6, <2>7, <2>11
<1> QED
  BY <1>2, <1>3

\* What fujo_close leaves of a pipe end and of its pipe.
LEMMA ClosePipeIs ==
  ASSUME FilesShape, NEW fd \in Fds, ClosePipe(fd)
  PROVE  LET p == FILES[fd].of
         IN  /\ FILES[fd].kind = "pipe" /\ p \in PipeIds
             /\ \A g \in Fds : FILES'[g] = IF g = fd THEN FreeFd ELSE FILES[g]
             /\ \A j \in PipeIds \ {p} : PIPES'[j] = PIPES[j] /\ sent'[j] = sent[j]
             /\ PIPES[p].ends > 1 =>
                  /\ PIPES'[p].ends = PIPES[p].ends - 1 /\ PIPES'[p].used = PIPES[p].used
                  /\ PIPES'[p].head = PIPES[p].head /\ PIPES'[p].len = PIPES[p].len
                  /\ PIPES'[p].data = PIPES[p].data /\ sent'[p] = sent[p]
             /\ ~(PIPES[p].ends > 1) => PIPES'[p].ends = 0 /\ PIPES'[p].used = FALSE
             /\ KOBJS' = Unregistered(KOBJS, FILES[fd].kslot) /\ UNCHANGED stray
<1> DEFINE p == FILES[fd].of
           q1 == [PIPES[p] EXCEPT !.ends = PIPES[p].ends - 1]
           q2 == [NoPipe EXCEPT !.data = PIPES[p].data]
           q == IF PIPES[p].ends > 1 THEN q1 ELSE q2
<1>1. PIPES' = [PIPES EXCEPT ![p] = q]
  BY DEF ClosePipe
<1>2. /\ FILES[fd].kind = "pipe"
      /\ FILES' = [FILES EXCEPT ![fd] = FreeFd]
      /\ KOBJS' = Unregistered(KOBJS, FILES[fd].kslot)
      /\ sent' = [sent EXCEPT ![p] = IF PIPES[p].ends > 1 THEN @ ELSE NoBytes]
      /\ UNCHANGED stray
  BY DEF ClosePipe
<1>3. p \in PipeIds /\ PIPES \in [PipeIds -> PipeRecords] /\ PIPES[p] \in PipeRecords
      /\ DOMAIN sent = PipeIds
  BY <1>2 DEF FilesShape, FdShape, PipeShape
<1>4. /\ q1.ends = PIPES[p].ends - 1 /\ q1.used = PIPES[p].used
      /\ q1.head = PIPES[p].head /\ q1.len = PIPES[p].len /\ q1.data = PIPES[p].data
  BY <1>3 DEF PipeRecords
<1>5. q2.ends = 0 /\ q2.used = FALSE
  BY DEF NoPipe
<1> HIDE DEF q1, q2
<1>6. /\ \A j \in PipeIds \ {p} : PIPES'[j] = PIPES[j] /\ sent'[j] = sent[j]
      /\ PIPES'[p] = q /\ (PIPES[p].ends > 1 => sent'[p] = sent[p])
  BY <1>1, <1>2, <1>3
<1>7. \A g \in Fds : FILES'[g] = IF g = fd THEN FreeFd ELSE FILES[g]
  BY <1>2 DEF FilesShape, FdShape
<1> QED
  BY <1>2, <1>3, <1>4, <1>5, <1>6, <1>7

LEMMA EndsCountedStep ==
  ASSUME FilesShape, DiskInv, PipesCountEnds, [FilesNext]_filesVars
  PROVE  PipesCountEnds'
<1>1. \A n \in Sizes : n \in Nat
  BY DEF Sizes
<1>2. CASE ObjectStep
  <2>1. UNCHANGED <<FILES, PIPES>>
    BY <1>2 DEF ObjectStep, KobjCreate, RegisterUnowned, KobjFree, vfsVars, pipeVars
  <2> QED
    BY <2>1 DEF PipesCountEnds
<1>3. CASE VfsStep
  <2>1. PipesKept
    BY <1>3, VfsStepKeeps
  <2>2. \A p \in PipeIds : Ends(p)' = Ends(p)
    BY <2>1 DEF PipesKept, Ends
  <2> QED
    BY <2>1, <2>2, EndsKept DEF PipesKept, pipeVars
<1>4. CASE FujoPipe
  <2>1. CASE UNCHANGED filesVars
    BY <2>1 DEF filesVars, PipesCountEnds
  <2>2. CASE \E p \in PipeIds, r \in Fds, w \in Fds, k1 \in 0 .. KOBJ_MAX,
                k2 \in 0 .. KOBJ_MAX, objs \in [ObjIds -> ObjRecords] :
                  PipeMade(p, r, w, k1, k2, objs)
    <3>1. PICK p \in PipeIds, r \in Fds, w \in Fds, k1 \in 0 .. KOBJ_MAX,
               k2 \in 0 .. KOBJ_MAX, objs \in [ObjIds -> ObjRecords] :
                 PipeMade(p, r, w, k1, k2, objs)
      BY <2>2
    <3>2. Ends(p) = {}
      BY <3>1, PipesCountEndsIs DEF PipeMade
    <3>3. /\ PipeEnd(p, k1).kind = "pipe" /\ PipeEnd(p, k1).of = p
          /\ PipeEnd(p, k2).kind = "pipe" /\ PipeEnd(p, k2).of = p
      BY PipeEndIsRecord
    <3>4. Ends(p)' = {r, w}
      BY <3>1, <3>2, <3>3 DEF PipeMade, Ends
    <3>5. Cardinality({r, w}) = 2
      <4>1. r # w
        BY <3>1 DEF PipeMade
      <4>2. IsFiniteSet({r}) /\ Cardinality({r}) = 1
        BY FS_Singleton
      <4>3. {r, w} = {r} \cup {w} /\ w \notin {r}
        BY <4>1
      <4>4. Cardinality({r} \cup {w}) = Cardinality({r}) + 1
        BY <4>2, <4>3, FS_AddElement
      <4> QED
        BY <4>2, <4>3, <4>4
    <3>6. \A j \in PipeIds \ {p} : Ends(j)' = Ends(j)
      BY <3>1, <3>3 DEF PipeMade, Ends
    <3>7. \A j \in PipeIds : PIPES'[j].ends = Cardinality(Ends(j)')
                             /\ PIPES'[j].used = (Ends(j)' # {})
      <4> SUFFICES ASSUME NEW j \in PipeIds
                   PROVE  PIPES'[j].ends = Cardinality(Ends(j)')
                          /\ PIPES'[j].used = (Ends(j)' # {})
        OBVIOUS
      <4>1. CASE j = p
        BY <3>1, <3>4, <3>5, <4>1 DEF PipeMade
      <4>2. CASE j # p
        BY <3>1, <3>6, <4>2, PipesCountEndsIs DEF PipeMade
      <4> QED
        BY <4>1, <4>2
    <3> QED
      BY <3>7 DEF PipesCountEnds, Ends
  <2> QED
    BY <1>4, <2>1, <2>2, FujoPipeMakes
<1>5. CASE \E fd \in Fds, n \in Sizes : PipeWrite(fd, n) \/ PipeRead(fd, n)
  <2>1. /\ UNCHANGED FILES
        /\ \A p \in PipeIds : PIPES'[p].ends = PIPES[p].ends /\ PIPES'[p].used = PIPES[p].used
    BY <1>1, <1>5, BytesKeepEnds
  <2>2. \A p \in PipeIds : Ends(p)' = Ends(p)
    BY <2>1 DEF Ends
  <2> QED
    BY <2>1, <2>2, EndsKept
<1>6. CASE \E fd \in Fds : ClosePipe(fd)
  <2>1. PICK fd \in Fds : ClosePipe(fd)
    BY <1>6
  <2>0. FILES[fd].of \in PipeIds
    BY <2>1, ClosePipeIs
  <2> PICK p \in PipeIds : p = FILES[fd].of
    BY <2>0
  <2>2. /\ FILES[fd].kind = "pipe" /\ p = FILES[fd].of
        /\ \A g \in Fds : FILES'[g] = IF g = fd THEN FreeFd ELSE FILES[g]
        /\ \A j \in PipeIds \ {p} : PIPES'[j] = PIPES[j]
        /\ PIPES[p].ends > 1 => PIPES'[p].ends = PIPES[p].ends - 1
                                /\ PIPES'[p].used = PIPES[p].used
        /\ ~(PIPES[p].ends > 1) => PIPES'[p].ends = 0 /\ PIPES'[p].used = FALSE
    BY <2>1, ClosePipeIs
  <2>3. fd \in Ends(p)
    BY <2>2 DEF Ends
  <2>4. Ends(p)' = Ends(p) \ {fd}
    BY <2>2, FreeFdIsRecord DEF Ends
  <2>5. \A j \in PipeIds \ {p} : Ends(j)' = Ends(j)
    BY <2>2, FreeFdIsRecord DEF Ends
  <2>6. PIPES[p].ends = Cardinality(Ends(p)) /\ PIPES[p].used = (Ends(p) # {})
    BY <2>2, PipesCountEndsIs
  <2>7. /\ IsFiniteSet(Ends(p)') /\ Cardinality(Ends(p)') = Cardinality(Ends(p)) - 1
        /\ Cardinality(Ends(p)') \in Nat /\ Cardinality(Ends(p)) \in Nat
    <3>1. IsFiniteSet(Ends(p)) /\ Cardinality(Ends(p)) \in Nat
      BY EndsAreFinite
    <3> DEFINE E == Ends(p)
               E2 == E \ {fd}
    <3> HIDE DEF E
    <3>2. IsFiniteSet(E2) /\ Cardinality(E2) = Cardinality(E) - 1
      BY <2>3, <3>1, FS_RemoveElement DEF E
    <3>3. Cardinality(E2) \in Nat
      BY <3>2, FS_CardinalityType
    <3> QED
      BY <2>4, <3>1, <3>2, <3>3 DEF E
  <2>8. PIPES'[p].ends = Cardinality(Ends(p)') /\ PIPES'[p].used = (Ends(p)' # {})
    <3>1. CASE PIPES[p].ends > 1
      <4>1. PIPES'[p].ends = Cardinality(Ends(p)') /\ Cardinality(Ends(p)') # 0
        BY <2>2, <2>6, <2>7, <3>1
      <4>2. Ends(p)' # {}
        BY <4>1, FS_EmptySet
      <4> QED
        BY <2>2, <2>3, <2>6, <3>1, <4>1, <4>2
    <3>2. CASE ~(PIPES[p].ends > 1)
      <4>1. Cardinality(Ends(p)') = 0
        BY <2>6, <2>7, <3>2
      <4>2. Ends(p)' = {}
        BY <2>7, <4>1, FS_EmptySet
      <4> QED
        BY <2>2, <3>2, <4>1, <4>2
    <3> QED
      BY <3>1, <3>2
  <2>9. \A j \in PipeIds : PIPES'[j].ends = Cardinality(Ends(j)')
                           /\ PIPES'[j].used = (Ends(j)' # {})
    <3> SUFFICES ASSUME NEW j \in PipeIds
                 PROVE  PIPES'[j].ends = Cardinality(Ends(j)')
                        /\ PIPES'[j].used = (Ends(j)' # {})
      OBVIOUS
    <3>1. CASE j = p
      BY <2>8, <3>1
    <3>2. CASE j # p
      BY <2>2, <2>5, <3>2, PipesCountEndsIs
    <3> QED
      BY <3>1, <3>2
  <2> QED
    BY <2>9 DEF PipesCountEnds, Ends
<1>7. CASE UNCHANGED filesVars
  BY <1>7 DEF filesVars, PipesCountEnds
<1> QED
  BY <1>2, <1>3, <1>4, <1>5, <1>6, <1>7, FilesStepIs

-----------------------------------------------------------------------------
(* The object table knows the pipe ends. *)

\* A pipe's object names a descriptor.
ObjTied == \A i \in ObjIds : KOBJS[i].kind = "pipe" => KOBJS[i].payload \in Fds

ObjInv == ObjTied /\ PipeObjectsExact

\* Taking a slot puts one object there and leaves the others.
SlotGiven(old, new, k, kind, payload) ==
  \A i \in ObjIds : \/ new[i] = old[i] /\ (k # 0 => i # k - 1)
                    \/ /\ k # 0 /\ i = k - 1 /\ old[i] = NoObj
                       /\ new[i] = [kind |-> kind, payload |-> payload]

LEMMA SlotTaken ==
  ASSUME NEW old \in [ObjIds -> ObjRecords], NEW new, NEW k \in 0 .. KOBJ_MAX, NEW kind,
         NEW payload, TookSlot(old, new, k, kind, payload)
  PROVE  SlotGiven(old, new, k, kind, payload)
<1> SUFFICES ASSUME NEW i \in ObjIds
             PROVE  \/ new[i] = old[i] /\ (k # 0 => i # k - 1)
                    \/ /\ k # 0 /\ i = k - 1 /\ old[i] = NoObj
                       /\ new[i] = [kind |-> kind, payload |-> payload]
  BY DEF SlotGiven
<1> DEFINE o == [kind |-> kind, payload |-> payload]
           s == k - 1
<1>1. /\ k = 0 => new = old
      /\ k # 0 => s \in ObjIds /\ old[s] = NoObj /\ new = [old EXCEPT ![s] = o]
  BY DEF TookSlot
<1> HIDE DEF o, s
<1>2. \/ new[i] = old[i] /\ (k # 0 => i # s)
      \/ k # 0 /\ i = s /\ old[i] = NoObj /\ new[i] = o
  BY <1>1
<1> QED
  BY <1>2 DEF o, s

\* The object a pipe end is tied to is one of the table.
LEMMA TieInTable ==
  ASSUME FilesShape, NEW fd \in Fds, FILES[fd].kind = "pipe", FILES[fd].kslot # 0
  PROVE  FILES[fd].kslot \in Nat /\ FILES[fd].kslot - 1 \in ObjIds
<1>1. FILES[fd].kslot \in 0 .. KOBJ_MAX
  BY DEF FilesShape, FdShape
<1> QED
  BY <1>1, SizesAreNumbers DEF ObjIds

LEMMA ObjectStepKeepsObjs ==
  ASSUME FilesShape, ObjInv, ObjectStep
  PROVE  ObjInv'
<1>1. UNCHANGED FILES /\ KOBJS \in [ObjIds -> ObjRecords]
  BY DEF ObjectStep, KobjCreate, RegisterUnowned, KobjFree, vfsVars, FilesShape, PipeShape
<1>2. NoObj.kind = "none"
  BY DEF NoObj
<1>3. CASE KobjCreate \/ RegisterUnowned("shm")
  <2>1. UNCHANGED stray
    BY <1>3 DEF KobjCreate, RegisterUnowned
  <2>2. PICK kind \in {"user", "shm"} : KOBJS' = Registered(KOBJS, kind, 0).objs
    BY <1>3 DEF KobjCreate, RegisterUnowned
  <2> DEFINE k == Registered(KOBJS, kind, 0).kslot
  <2>3. k \in 0 .. KOBJ_MAX /\ TookSlot(KOBJS, KOBJS', k, kind, 0)
    BY <1>1, <2>2, RegisteredTakesFree
  <2> HIDE DEF k
  <2>4. \A i \in ObjIds : \/ KOBJS'[i] = KOBJS[i]
                          \/ KOBJS[i] = NoObj /\ KOBJS'[i] = [kind |-> kind, payload |-> 0]
    BY <1>1, <2>3, SlotTaken DEF SlotGiven
  <2>5. \A i \in ObjIds : KOBJS[i].kind = "pipe" \/ KOBJS'[i].kind = "pipe" =>
                            KOBJS'[i] = KOBJS[i]
    BY <1>2, <2>4
  <2>6. \A fd \in Fds : FILES[fd].kind = "pipe" /\ FILES[fd].kslot # 0 =>
                          FILES[fd].kslot - 1 \in ObjIds
    BY TieInTable
  <2>7. ObjTied'
    BY <2>5 DEF ObjInv, ObjTied
  <2>8. PipeObjectsExact'
    BY <1>1, <2>1, <2>5, <2>6 DEF ObjInv, PipeObjectsExact
  <2> QED
    BY <2>7, <2>8 DEF ObjInv
<1>4. CASE \E i \in ObjIds : KobjFree(i)
  <2>1. PICK i \in ObjIds : KobjFree(i)
    BY <1>4
  <2>2. /\ KOBJS' = [KOBJS EXCEPT ![i] = NoObj]
        /\ stray' = (stray \/ KOBJS[i].kind # "user")
    BY <2>1 DEF KobjFree
  <2>3. \A j \in ObjIds : KOBJS'[j] = IF j = i THEN NoObj ELSE KOBJS[j]
    BY <1>1, <2>2
  <2>4. ObjTied'
    BY <1>2, <2>3 DEF ObjInv, ObjTied
  <2>5. PipeObjectsExact'
    <3>1. CASE stray'
      BY <3>1 DEF PipeObjectsExact
    <3>2. CASE ~stray'
      <4>1. ~stray /\ KOBJS[i].kind = "user"
        BY <2>2, <3>2
      <4>2. /\ \A fd \in Fds : FILES[fd].kind = "pipe" /\ FILES[fd].kslot # 0 =>
                 /\ FILES[fd].kslot - 1 \in ObjIds /\ FILES[fd].kslot - 1 # i
                 /\ KOBJS[FILES[fd].kslot - 1] = [kind |-> "pipe", payload |-> fd]
        <5> SUFFICES ASSUME NEW fd \in Fds, FILES[fd].kind = "pipe", FILES[fd].kslot # 0
                     PROVE  /\ FILES[fd].kslot - 1 \in ObjIds /\ FILES[fd].kslot - 1 # i
                            /\ KOBJS[FILES[fd].kslot - 1] = [kind |-> "pipe", payload |-> fd]
          OBVIOUS
        <5>1. FILES[fd].kslot - 1 \in ObjIds
          BY TieInTable
        <5>2. KOBJS[FILES[fd].kslot - 1] = [kind |-> "pipe", payload |-> fd]
          BY <4>1 DEF ObjInv, PipeObjectsExact
        <5> QED
          BY <4>1, <5>1, <5>2
      <4>3. \A fd \in Fds : FILES'[fd].kind = "pipe" /\ FILES'[fd].kslot # 0 =>
              KOBJS'[FILES'[fd].kslot - 1] = [kind |-> "pipe", payload |-> fd]
        BY <1>1, <2>3, <4>2
      <4>4. \A j \in ObjIds : KOBJS'[j].kind = "pipe" =>
              /\ FILES'[KOBJS'[j].payload].kind = "pipe"
              /\ FILES'[KOBJS'[j].payload].kslot = j + 1
        BY <1>1, <1>2, <2>3, <4>1 DEF ObjInv, PipeObjectsExact
      <4> QED
        BY <4>3, <4>4 DEF PipeObjectsExact
    <3> QED
      BY <3>1, <3>2
  <2> QED
    BY <2>4, <2>5 DEF ObjInv
<1> QED
  BY <1>3, <1>4 DEF ObjectStep

LEMMA VfsStepKeepsObjs ==
  ASSUME ObjInv, PipesKept
  PROVE  ObjInv'
<1>1. UNCHANGED <<KOBJS, stray>>
  BY DEF PipesKept
<1>2. \A fd \in Fds : FILES[fd].kind = "pipe" \/ FILES'[fd].kind = "pipe" =>
        FILES'[fd].kind = FILES[fd].kind /\ FILES'[fd].kslot = FILES[fd].kslot
  BY DEF PipesKept
<1>3. ObjTied'
  BY <1>1 DEF ObjInv, ObjTied
<1>4. PipeObjectsExact'
  BY <1>1, <1>2 DEF ObjInv, ObjTied, PipeObjectsExact
<1> QED
  BY <1>3, <1>4 DEF ObjInv

LEMMA PipeMadeKeepsObjs ==
  ASSUME FilesShape, ObjInv, NEW p \in PipeIds, NEW r \in Fds, NEW w \in Fds,
         NEW k1 \in 0 .. KOBJ_MAX, NEW k2 \in 0 .. KOBJ_MAX,
         NEW objs \in [ObjIds -> ObjRecords], PipeMade(p, r, w, k1, k2, objs)
  PROVE  ObjInv'
<1> DEFINE o(fd) == [kind |-> "pipe", payload |-> fd]
<1>1. KOBJS \in [ObjIds -> ObjRecords] /\ NoObj.kind = "none"
  BY DEF FilesShape, PipeShape, NoObj
<1>2. \A i \in ObjIds : \/ objs[i] = KOBJS[i] /\ (k1 # 0 => i # k1 - 1)
                        \/ k1 # 0 /\ i = k1 - 1 /\ KOBJS[i] = NoObj /\ objs[i] = o(r)
  <2>1. TookSlot(KOBJS, objs, k1, "pipe", r)
    BY DEF PipeMade
  <2>2. SlotGiven(KOBJS, objs, k1, "pipe", r)
    BY <1>1, <2>1, SlotTaken
  <2> QED
    BY <2>2 DEF SlotGiven
<1>3. \A i \in ObjIds : \/ KOBJS'[i] = objs[i] /\ (k2 # 0 => i # k2 - 1)
                        \/ k2 # 0 /\ i = k2 - 1 /\ objs[i] = NoObj /\ KOBJS'[i] = o(w)
  <2>1. TookSlot(objs, KOBJS', k2, "pipe", w)
    BY DEF PipeMade
  <2>2. SlotGiven(objs, KOBJS', k2, "pipe", w)
    BY <2>1, SlotTaken
  <2> QED
    BY <2>2 DEF SlotGiven
<1>4. /\ k1 # 0 => k1 - 1 \in ObjIds
      /\ k2 # 0 => k2 - 1 \in ObjIds
  BY DEF PipeMade, TookSlot
<1>5. /\ r # w /\ FILES[r].kind = "free" /\ FILES[w].kind = "free" /\ UNCHANGED stray
      /\ \A g \in Fds \ {r, w} : FILES'[g] = FILES[g]
      /\ FILES'[r].kind = "pipe" /\ FILES'[r].kslot = k1
      /\ FILES'[w].kind = "pipe" /\ FILES'[w].kslot = k2
  BY PipeEndIsRecord DEF PipeMade
<1>6. \A fd : o(fd).kind = "pipe" /\ o(fd).payload = fd
  OBVIOUS
<1> HIDE DEF o
\* The first object keeps its slot when the second one is taken.
<1>7. k1 # 0 => KOBJS'[k1 - 1] = o(r)
  <2> SUFFICES ASSUME k1 # 0
               PROVE  KOBJS'[k1 - 1] = o(r)
    OBVIOUS
  <2>1. objs[k1 - 1] = o(r)
    BY <1>2, <1>4
  <2>2. objs[k1 - 1] # NoObj
    BY <1>1, <1>6, <2>1
  <2> QED
    BY <1>3, <1>4, <2>1, <2>2
<1>8. k2 # 0 => KOBJS'[k2 - 1] = o(w)
  <2> SUFFICES ASSUME k2 # 0
               PROVE  KOBJS'[k2 - 1] = o(w)
    OBVIOUS
  <2>1. \E i \in ObjIds : i = k2 - 1
    BY <1>4
  <2> QED
    BY <1>3, <2>1
<1>9. \A i \in ObjIds : KOBJS[i].kind = "pipe" => KOBJS'[i] = KOBJS[i]
  BY <1>1, <1>2, <1>3
<1>10. \A i \in ObjIds : KOBJS'[i].kind = "pipe" =>
         \/ KOBJS'[i] = KOBJS[i]
         \/ k1 # 0 /\ i = k1 - 1 /\ KOBJS'[i] = o(r)
         \/ k2 # 0 /\ i = k2 - 1 /\ KOBJS'[i] = o(w)
  BY <1>2, <1>3
<1>11. ObjTied'
  BY <1>6, <1>10 DEF ObjInv, ObjTied
<1>12. PipeObjectsExact'
  <2> SUFFICES ASSUME ~stray
               PROVE  /\ \A fd \in Fds : FILES'[fd].kind = "pipe" /\ FILES'[fd].kslot # 0 =>
                           KOBJS'[FILES'[fd].kslot - 1] = o(fd)
                      /\ \A i \in ObjIds : KOBJS'[i].kind = "pipe" =>
                           /\ FILES'[KOBJS'[i].payload].kind = "pipe"
                           /\ FILES'[KOBJS'[i].payload].kslot = i + 1
    BY <1>5 DEF PipeObjectsExact, o
  <2>1. ASSUME NEW fd \in Fds, FILES'[fd].kind = "pipe", FILES'[fd].kslot # 0
        PROVE  KOBJS'[FILES'[fd].kslot - 1] = o(fd)
    <3>1. CASE fd = r
      BY <1>5, <1>7, <2>1, <3>1
    <3>2. CASE fd = w
      BY <1>5, <1>8, <2>1, <3>2
    <3>3. CASE fd \notin {r, w}
      <4>1. FILES'[fd] = FILES[fd]
        BY <1>5, <3>3
      <4>2. FILES[fd].kslot - 1 \in ObjIds /\ KOBJS[FILES[fd].kslot - 1] = o(fd)
        BY <2>1, <4>1, TieInTable DEF ObjInv, PipeObjectsExact, o
      <4> QED
        BY <1>6, <1>9, <4>1, <4>2
    <3> QED
      BY <3>1, <3>2, <3>3
  <2>2. ASSUME NEW i \in ObjIds, KOBJS'[i].kind = "pipe"
        PROVE  /\ FILES'[KOBJS'[i].payload].kind = "pipe"
               /\ FILES'[KOBJS'[i].payload].kslot = i + 1
    <3>1. i \in Nat /\ k1 \in Nat /\ k2 \in Nat
      BY SizesAreNumbers DEF ObjIds
    <3>2. CASE k1 # 0 /\ i = k1 - 1 /\ KOBJS'[i] = o(r)
      BY <1>5, <1>6, <3>1, <3>2
    <3>3. CASE k2 # 0 /\ i = k2 - 1 /\ KOBJS'[i] = o(w)
      BY <1>5, <1>6, <3>1, <3>3
    <3>4. CASE KOBJS'[i] = KOBJS[i]
      <4> DEFINE g == KOBJS[i].payload
      <4>1. g \in Fds /\ FILES[g].kind = "pipe" /\ FILES[g].kslot = i + 1
        BY <2>2, <3>4 DEF ObjInv, ObjTied, PipeObjectsExact
      <4>2. g \notin {r, w}
        BY <1>5, <4>1
      <4>3. FILES'[g] = FILES[g]
        BY <1>5, <4>1, <4>2
      <4> QED
        BY <3>4, <4>1, <4>3
    <3> QED
      BY <1>10, <2>2, <3>2, <3>3, <3>4
  <2> QED
    BY <2>1, <2>2
<1> QED
  BY <1>11, <1>12 DEF ObjInv

LEMMA ClosePipeKeepsObjs ==
  ASSUME FilesShape, ObjInv, NEW fd \in Fds, ClosePipe(fd)
  PROVE  ObjInv'
<1> DEFINE ks == FILES[fd].kslot
           s == ks - 1
<1>1. /\ FILES[fd].kind = "pipe"
      /\ \A g \in Fds : FILES'[g] = IF g = fd THEN FreeFd ELSE FILES[g]
      /\ KOBJS' = Unregistered(KOBJS, ks) /\ UNCHANGED stray
  BY ClosePipeIs
<1>2. KOBJS \in [ObjIds -> ObjRecords] /\ NoObj.kind = "none"
  BY DEF FilesShape, PipeShape, NoObj
<1>3. ks # 0 => s \in ObjIds
  BY <1>1, TieInTable
<1>4. /\ ks = 0 => KOBJS' = KOBJS
      /\ ks # 0 => KOBJS' = [KOBJS EXCEPT ![s] = NoObj]
  BY <1>1 DEF Unregistered
<1> HIDE DEF s
<1>5. \A i \in ObjIds : KOBJS'[i] = IF ks # 0 /\ i = s THEN NoObj ELSE KOBJS[i]
  BY <1>2, <1>3, <1>4
<1>6. ObjTied'
  BY <1>2, <1>5 DEF ObjInv, ObjTied
<1>7. PipeObjectsExact'
  <2> SUFFICES ASSUME ~stray
               PROVE  /\ \A g \in Fds : FILES'[g].kind = "pipe" /\ FILES'[g].kslot # 0 =>
                           KOBJS'[FILES'[g].kslot - 1] = [kind |-> "pipe", payload |-> g]
                      /\ \A i \in ObjIds : KOBJS'[i].kind = "pipe" =>
                           /\ FILES'[KOBJS'[i].payload].kind = "pipe"
                           /\ FILES'[KOBJS'[i].payload].kslot = i + 1
    BY <1>1 DEF PipeObjectsExact
  <2>1. ASSUME NEW g \in Fds, FILES'[g].kind = "pipe", FILES'[g].kslot # 0
        PROVE  KOBJS'[FILES'[g].kslot - 1] = [kind |-> "pipe", payload |-> g]
    <3>1. g # fd /\ FILES'[g] = FILES[g]
      BY <1>1, <2>1, FreeFdIsRecord
    <3> DEFINE t == FILES[g].kslot - 1
    <3>2. t \in ObjIds /\ KOBJS[t] = [kind |-> "pipe", payload |-> g]
      BY <2>1, <3>1, TieInTable DEF ObjInv, PipeObjectsExact
    <3>3. ks # 0 => KOBJS[s] = [kind |-> "pipe", payload |-> fd]
      BY <1>1 DEF ObjInv, PipeObjectsExact, s
    <3>4. ~(ks # 0 /\ t = s)
      BY <3>1, <3>2, <3>3
    <3> HIDE DEF t
    <3>5. KOBJS'[t] = KOBJS[t]
      BY <1>5, <3>2, <3>4
    <3> QED
      BY <3>1, <3>2, <3>5 DEF t
  <2>2. ASSUME NEW i \in ObjIds, KOBJS'[i].kind = "pipe"
        PROVE  /\ FILES'[KOBJS'[i].payload].kind = "pipe"
               /\ FILES'[KOBJS'[i].payload].kslot = i + 1
    <3>1. ~(ks # 0 /\ i = s) /\ KOBJS'[i] = KOBJS[i]
      BY <1>2, <1>5, <2>2
    <3> DEFINE g == KOBJS[i].payload
    <3>2. g \in Fds /\ FILES[g].kind = "pipe" /\ FILES[g].kslot = i + 1
      BY <2>2, <3>1 DEF ObjInv, ObjTied, PipeObjectsExact
    <3>3. g # fd
      <4>1. i \in Nat
        BY DEF ObjIds
      <4> QED
        BY <3>1, <3>2, <4>1 DEF s
    <3> QED
      BY <1>1, <3>1, <3>2, <3>3
  <2> QED
    BY <2>1, <2>2
<1> QED
  BY <1>6, <1>7 DEF ObjInv

\* Every step keeps the table of objects in line with the pipe ends.
LEMMA ObjInvStep ==
  ASSUME FilesShape, DiskInv, ObjInv, [FilesNext]_filesVars
  PROVE  ObjInv'
<1>1. \A n \in Sizes : n \in Nat
  BY DEF Sizes
<1>2. CASE ObjectStep
  BY <1>2, ObjectStepKeepsObjs
<1>3. CASE VfsStep
  BY <1>3, VfsStepKeeps, VfsStepKeepsObjs
<1>4. CASE UNCHANGED filesVars
  BY <1>4 DEF filesVars, ObjInv, ObjTied, PipeObjectsExact
<1>5. CASE FujoPipe
  BY <1>4, <1>5, FujoPipeMakes, PipeMadeKeepsObjs
<1>6. CASE \E fd \in Fds, n \in Sizes : PipeWrite(fd, n) \/ PipeRead(fd, n)
  <2>1. UNCHANGED <<FILES, KOBJS, stray>>
    BY <1>1, <1>6, BytesKeepEnds
  <2> QED
    BY <2>1 DEF ObjInv, ObjTied, PipeObjectsExact
<1>7. CASE \E fd \in Fds : ClosePipe(fd)
  BY <1>7, ClosePipeKeepsObjs
<1> QED
  BY <1>2, <1>3, <1>4, <1>5, <1>6, <1>7, FilesStepIs

-----------------------------------------------------------------------------
(* A pipe is a queue. *)

\* What is left of a number that goes at most twice around the ring.
LEMMA ModIs ==
  ASSUME NEW N \in Nat \ {0}, NEW b \in 0 .. N - 1, NEW t \in {0, 1, 2},
         NEW a \in Int, a = b + t * N
  PROVE  a % N = b
<1> DEFINE d == a \div N
           r == a % N
<1>1. a = N * d + r /\ d \in Int /\ r \in 0 .. N - 1
  OBVIOUS
<1> HIDE DEF d, r
<1>2. N * (d - t) = b - r
  <2>1. N * (d - t) = N * d - t * N
    BY <1>1
  <2> QED
    BY <1>1, <2>1
<1>3. -N < b - r /\ b - r < N
  BY <1>1
<1>4. d - t = 0
  <2> DEFINE e == d - t
  <2>1. e \in Int
    BY <1>1
  <2> HIDE DEF e
  <2>2. CASE e >= 1
    <3>1. N * e >= N
      BY <2>1, <2>2
    <3> QED
      BY <1>1, <1>2, <1>3, <3>1 DEF e
  <2>3. CASE e <= -1
    <3>1. N * e <= -N
      BY <2>1, <2>3
    <3> QED
      BY <1>1, <1>2, <1>3, <3>1 DEF e
  <2>4. e = 0 \/ e >= 1 \/ e <= -1
    BY <2>1
  <2> QED
    BY <2>2, <2>3, <2>4 DEF e
<1>5. b = r
  BY <1>1, <1>2, <1>4
<1> QED
  BY <1>5 DEF r

\* What a slot of the ring is to the byte at position i behind the head.
LEMMA RingSlot ==
  ASSUME NEW N \in Nat \ {0}, NEW head \in 0 .. N - 1, NEW i \in 0 .. N - 1
  PROVE  LET k == (head + i) % N
         IN  /\ k \in 0 .. N - 1
             /\ k = head + i \/ k = head + i - N
<1>1. CASE head + i < N
  <2>1. (head + i) % N = head + i
    BY <1>1, ModIs
  <2> QED
    BY <1>1, <2>1
<1>2. CASE head + i >= N
  <2>1. (head + i) % N = head + i - N
    <3> DEFINE b == head + i - N
    <3>1. b \in 0 .. N - 1 /\ head + i = b + 1 * N /\ head + i \in Int
      BY <1>2
    <3> HIDE DEF b
    <3>2. (head + i) % N = b
      BY <3>1, ModIs
    <3> QED
      BY <3>2 DEF b
  <2> QED
    BY <1>2, <2>1
<1> QED
  BY <1>1, <1>2

\* The bytes that are in a pipe and the numbers that count them.
QueueOf(q, s) ==
  /\ q.len = s.bytes - s.read
  /\ \A i \in 0 .. q.len - 1 : q.data[(q.head + i) % PIPE_SIZE] = s.read + i

\* What pipe_write does to the pipe.
LEMMA PipeWriteDoes ==
  ASSUME FilesShape, NEW fd \in Fds, NEW n \in Nat, PipeWrite(fd, n)
  PROVE  LET p == FILES[fd].of
             q == PIPES[p]
             m == Smaller(n, PIPE_SIZE - q.len)
             nth(k) == (k + 2 * PIPE_SIZE - q.head - q.len) % PIPE_SIZE
         IN  /\ \A j \in PipeIds \ {p} : PIPES'[j] = PIPES[j] /\ sent'[j] = sent[j]
             /\ PIPES'[p].head = q.head /\ PIPES'[p].len = q.len + m
             /\ \A k \in 0 .. PIPE_SIZE - 1 :
                  PIPES'[p].data[k] = IF nth(k) < m THEN sent[p].bytes + nth(k) ELSE q.data[k]
             /\ sent'[p].bytes = sent[p].bytes + m /\ sent'[p].read = sent[p].read
<1> DEFINE p == FILES[fd].of
           q == PIPES[p]
           m == Smaller(n, PIPE_SIZE - q.len)
           nth(k) == (k + 2 * PIPE_SIZE - q.head - q.len) % PIPE_SIZE
           d == [k \in DOMAIN q.data |-> IF nth(k) < m THEN sent[p].bytes + nth(k) ELSE q.data[k]]
           P1 == [PIPES EXCEPT ![p].len = @ + m]
           P2 == [P1 EXCEPT ![p].data = d]
<1>1. p \in PipeIds /\ q \in PipeRecords /\ sent[p] \in [bytes : Nat, read : Nat]
  BY PipeWriteIs
<1>2. sent' = [sent EXCEPT ![p].bytes = @ + m]
  BY DEF PipeWrite
<1>3. PIPES \in [PipeIds -> PipeRecords] /\ sent \in [PipeIds -> [bytes : Nat, read : Nat]]
  BY DEF FilesShape, PipeShape
<1>4. P1[p].data = q.data
  BY <1>1, <1>3
<1>5. PIPES' = P2
  BY <1>4 DEF PipeWrite
<1>6. DOMAIN q.data = 0 .. PIPE_SIZE - 1
  BY <1>1, PipeNumbers
<1>7. \A k \in 0 .. PIPE_SIZE - 1 :
        d[k] = IF nth(k) < m THEN sent[p].bytes + nth(k) ELSE q.data[k]
  <2> HIDE DEF nth, m, q
  <2> QED
    BY <1>6
<1> HIDE DEF d, m
<1>8. /\ \A j \in PipeIds \ {p} : P1[j] = PIPES[j]
      /\ P1[p].head = q.head /\ P1[p].len = q.len + m
      /\ DOMAIN P1 = PipeIds
      /\ "data" \in DOMAIN P1[p]
  BY <1>1, <1>3 DEF PipeRecords
<1> HIDE DEF P1
<1>9. /\ \A j \in PipeIds \ {p} : P2[j] = PIPES[j]
      /\ P2[p].head = q.head /\ P2[p].len = q.len + m /\ P2[p].data = d
  BY <1>1, <1>8
<1>10. /\ \A j \in PipeIds \ {p} : sent'[j] = sent[j]
       /\ sent'[p].bytes = sent[p].bytes + m /\ sent'[p].read = sent[p].read
  BY <1>1, <1>2, <1>3
<1> HIDE DEF P2, nth
<1> QED
  BY <1>5, <1>7, <1>9, <1>10 DEF m, nth

\* What pipe_read does to the pipe.
LEMMA PipeReadDoes ==
  ASSUME FilesShape, NEW fd \in Fds, NEW n \in Nat, PipeRead(fd, n)
  PROVE  LET p == FILES[fd].of
             q == PIPES[p]
             k == Smaller(n, q.len)
         IN  /\ \A j \in PipeIds \ {p} : PIPES'[j] = PIPES[j] /\ sent'[j] = sent[j]
             /\ PIPES'[p].head = (q.head + k) % PIPE_SIZE /\ PIPES'[p].len = q.len - k
             /\ PIPES'[p].data = q.data
             /\ sent'[p].bytes = sent[p].bytes /\ sent'[p].read = sent[p].read + k
<1> DEFINE p == FILES[fd].of
           q == PIPES[p]
           k == Smaller(n, q.len)
           h == (q.head + k) % PIPE_SIZE
           P1 == [PIPES EXCEPT ![p].head = h]
           l == P1[p].len - k
           P2 == [P1 EXCEPT ![p].len = l]
<1>1. PIPES' = P2 /\ sent' = [sent EXCEPT ![p].read = @ + k]
  BY DEF PipeRead
<1>2. p \in PipeIds
  BY PipeReadKeepsShape
<1>3. PIPES \in [PipeIds -> PipeRecords] /\ sent \in [PipeIds -> [bytes : Nat, read : Nat]]
  BY DEF FilesShape, PipeShape
<1> HIDE DEF k, h
<1>4. /\ \A j \in PipeIds \ {p} : P1[j] = PIPES[j]
      /\ P1[p].head = h /\ P1[p].len = q.len /\ P1[p].data = q.data
      /\ DOMAIN P1 = PipeIds /\ "len" \in DOMAIN P1[p]
  BY <1>2, <1>3 DEF PipeRecords
<1>5. l = q.len - k
  BY <1>4
<1> HIDE DEF P1, l
<1>6. /\ \A j \in PipeIds \ {p} : P2[j] = PIPES[j]
      /\ P2[p].head = h /\ P2[p].len = l /\ P2[p].data = q.data
  BY <1>2, <1>4
<1>7. /\ \A j \in PipeIds \ {p} : sent'[j] = sent[j]
      /\ sent'[p].bytes = sent[p].bytes /\ sent'[p].read = sent[p].read + k
  BY <1>1, <1>2, <1>3
<1> HIDE DEF P2
<1> QED
  BY <1>1, <1>5, <1>6, <1>7 DEF k, h

\* Bytes written to a pipe join the queue behind the last one.
LEMMA WriteKeepsQueue ==
  ASSUME FilesShape, NEW fd \in Fds, NEW n \in Nat, PipeWrite(fd, n),
         QueueOf(PIPES[FILES[fd].of], sent[FILES[fd].of])
  PROVE  QueueOf(PIPES'[FILES[fd].of], sent'[FILES[fd].of])
<1> DEFINE N == PIPE_SIZE
           p == FILES[fd].of
           q == PIPES[p]
           m == Smaller(n, N - q.len)
           nth(k) == (k + 2 * N - q.head - q.len) % N
           head == q.head
           len == q.len
           bytes == sent[p].bytes
           read == sent[p].read
           held == q.data
           d == PIPES'[p].data
<1>1. /\ PIPES'[p].head = head /\ PIPES'[p].len = len + m
      /\ \A k \in 0 .. N - 1 : d[k] = IF nth(k) < m THEN bytes + nth(k) ELSE held[k]
      /\ sent'[p].bytes = bytes + m /\ sent'[p].read = read
  BY PipeWriteDoes
<1>2. q \in PipeRecords /\ m \in Nat /\ len + m <= N
  BY PipeWriteIs
<1>3. N \in Nat \ {0} /\ head \in 0 .. N - 1 /\ len \in 0 .. N
  BY <1>2, PipeNumbers, SizesAreNumbers
<1>4. len = bytes - read /\ \A i \in 0 .. len - 1 : held[(head + i) % N] = read + i
  BY DEF QueueOf
<1>5. bytes \in Nat /\ read \in Nat
  BY PipeWriteIs
<1> HIDE DEF m, head, len, bytes, read, held, d, N
<1>6. ASSUME NEW i \in 0 .. len + m - 1
      PROVE  d[(head + i) % N] = read + i
  <2>0. i \in 0 .. N - 1 /\ i \in Nat
    BY <1>2, <1>3
  <2> DEFINE k == (head + i) % N
  <2>1. k \in 0 .. N - 1 /\ (k = head + i \/ k = head + i - N)
    BY <1>3, <2>0, RingSlot
  <2> DEFINE x == nth(k)
  <2>2. x = (k + 2 * N - head - len) % N
    BY DEF head, len, N
  <2>3. d[k] = IF x < m THEN bytes + x ELSE held[k]
    BY <1>1, <2>1
  <2>4. i < len => held[k] = read + i
    BY <1>4, <2>0, <1>3
  <2> HIDE DEF x, k
  <2>5. CASE i < len
    <3> DEFINE b == N + i - len
               a == k + 2 * N - head - len
    <3>1. b \in 0 .. N - 1 /\ a \in Int
      BY <1>3, <2>0, <2>1, <2>5
    <3>2. a = b + 1 * N \/ a = b + 0 * N
      BY <1>3, <2>0, <2>1
    <3> HIDE DEF a, b
    <3>3. a % N = b
      BY <1>3, <3>1, <3>2, ModIs
    <3>4. x = N + i - len
      BY <2>2, <3>3 DEF a, b
    <3>5. ~(x < m)
      BY <1>2, <1>3, <2>0, <3>4
    <3> QED
      BY <2>3, <2>4, <2>5, <3>5 DEF k
  <2>6. CASE len <= i
    <3> DEFINE b == i - len
               a == k + 2 * N - head - len
    <3>1. b \in 0 .. N - 1 /\ a \in Int
      BY <1>3, <2>0, <2>1, <2>6
    <3>2. a = b + 2 * N \/ a = b + 1 * N
      BY <1>3, <2>0, <2>1
    <3> HIDE DEF a, b
    <3>3. a % N = b
      BY <1>3, <3>1, <3>2, ModIs
    <3>4. x = i - len
      BY <2>2, <3>3 DEF a, b
    <3>5. x < m /\ bytes + x = read + i
      BY <1>2, <1>3, <1>4, <1>5, <2>0, <3>4
    <3> QED
      BY <2>3, <3>5 DEF k
  <2> QED
    BY <1>3, <2>0, <2>5, <2>6
<1>7. len + m = (bytes + m) - read
  BY <1>2, <1>4, <1>5
<1>8. /\ PIPES'[p].head = head /\ PIPES'[p].len = len + m
      /\ sent'[p].bytes = bytes + m /\ sent'[p].read = read
  BY <1>1
<1> HIDE DEF nth
<1>9. \A i \in 0 .. PIPES'[p].len - 1 : d[(PIPES'[p].head + i) % N] = sent'[p].read + i
  <2> SUFFICES ASSUME NEW i \in 0 .. PIPES'[p].len - 1
               PROVE  d[(PIPES'[p].head + i) % N] = sent'[p].read + i
    OBVIOUS
  <2>1. i \in 0 .. len + m - 1 /\ PIPES'[p].head = head /\ sent'[p].read = read
    BY <1>2, <1>3, <1>8
  <2>2. d[(head + i) % N] = read + i
    BY <1>6, <2>1
  <2> QED
    BY <2>1, <2>2
<1>10. /\ PIPES'[p].len = sent'[p].bytes - sent'[p].read
      /\ \A i \in 0 .. PIPES'[p].len - 1 :
           PIPES'[p].data[(PIPES'[p].head + i) % PIPE_SIZE] = sent'[p].read + i
  BY <1>7, <1>8, <1>9 DEF d, N
<1> QED
  BY <1>10 DEF QueueOf

\* Bytes read from a pipe leave it at the front.
LEMMA ReadKeepsQueue ==
  ASSUME FilesShape, NEW fd \in Fds, NEW n \in Nat, PipeRead(fd, n),
         QueueOf(PIPES[FILES[fd].of], sent[FILES[fd].of])
  PROVE  QueueOf(PIPES'[FILES[fd].of], sent'[FILES[fd].of])
<1> DEFINE N == PIPE_SIZE
           p == FILES[fd].of
           q == PIPES[p]
           m == Smaller(n, q.len)
           head == q.head
           len == q.len
           bytes == sent[p].bytes
           read == sent[p].read
           held == q.data
<1>1. /\ PIPES'[p].head = (head + m) % N /\ PIPES'[p].len = len - m
      /\ PIPES'[p].data = held
      /\ sent'[p].bytes = bytes /\ sent'[p].read = read + m
  BY PipeReadDoes
<1>2. p \in PipeIds /\ m \in Nat /\ m <= len
  BY PipeReadKeepsShape
<1>3. N \in Nat \ {0} /\ head \in 0 .. N - 1 /\ len \in 0 .. N
  BY <1>2, PipeNumbers, SizesAreNumbers DEF FilesShape, PipeShape
<1>4. len = bytes - read /\ \A i \in 0 .. len - 1 : held[(head + i) % N] = read + i
  BY DEF QueueOf
<1>5. bytes \in Nat /\ read \in Nat
  BY <1>2 DEF FilesShape, PipeShape
<1> HIDE DEF m, head, len, bytes, read, held, N
<1> DEFINE h == (head + m) % N
<1>6. ASSUME NEW i \in 0 .. len - m - 1
      PROVE  held[(h + i) % N] = read + m + i
  <2>0. i \in Nat /\ m + i \in 0 .. len - 1 /\ m \in 0 .. N - 1 /\ m + i \in 0 .. N - 1
    BY <1>2, <1>3
  <2>1. h \in 0 .. N - 1 /\ (h = head + m \/ h = head + m - N)
    BY <1>3, <2>0, RingSlot
  <2> DEFINE k == (head + (m + i)) % N
  <2>2. k \in 0 .. N - 1 /\ (k = head + (m + i) \/ k = head + (m + i) - N)
    BY <1>3, <2>0, RingSlot
  <2>3. held[k] = read + (m + i)
    BY <1>4, <2>0
  <2> HIDE DEF k, h
  <2>4. h + i \in Int /\ (h + i = k + 0 * N \/ h + i = k + 1 * N)
    BY <1>2, <1>3, <2>0, <2>1, <2>2
  <2>5. (h + i) % N = k
    BY <1>3, <2>2, <2>4, ModIs
  <2> QED
    BY <1>2, <1>5, <2>0, <2>3, <2>5
<1>7. len - m = bytes - (read + m)
  BY <1>2, <1>4, <1>5
<1>8. /\ PIPES'[p].len = sent'[p].bytes - sent'[p].read
      /\ \A i \in 0 .. PIPES'[p].len - 1 :
           PIPES'[p].data[(PIPES'[p].head + i) % PIPE_SIZE] = sent'[p].read + i
  BY <1>1, <1>6, <1>7 DEF N
<1> QED
  BY <1>8 DEF QueueOf

LEMMA PipeIsQueueIs ==
  PipeIsQueue <=> \A p \in PipeIds : PIPES[p].used => QueueOf(PIPES[p], sent[p])
BY DEF PipeIsQueue, QueueOf

\* At most the two ends that fujo_pipe makes.
TwoEnds == \A p \in PipeIds : PIPES[p].ends <= 2

PipeStep ==
  \/ FujoPipe
  \/ \E fd \in Fds, n \in Sizes : PipeWrite(fd, n) \/ PipeRead(fd, n)
  \/ \E fd \in Fds : ClosePipe(fd)

\* A pipe end is an end of a pipe that is in use.
LEMMA OpenEndIsUsed ==
  ASSUME FilesShape, PipesCountEnds, NEW fd \in Fds, FILES[fd].kind = "pipe"
  PROVE  FILES[fd].of \in PipeIds /\ PIPES[FILES[fd].of].used
<1>1. FILES[fd].of \in PipeIds
  BY DEF FilesShape, FdShape
<1>2. fd \in Ends(FILES[fd].of)
  BY DEF Ends
<1> QED
  BY <1>1, <1>2, PipesCountEndsIs

LEMMA PipeStepKeepsQueues ==
  ASSUME FilesShape, PipesCountEnds, PipeIsQueue, TwoEnds, PipeStep
  PROVE  PipeIsQueue' /\ TwoEnds'
<1>1. \A n \in Sizes : n \in Nat
  BY DEF Sizes
<1>2. \A p \in PipeIds : PIPES[p] \in PipeRecords
  BY DEF FilesShape, PipeShape
<1>3. \A p \in PipeIds : PIPES[p].ends \in Nat
  BY <1>2, PipeNumbers
<1>4. SUFFICES /\ \A j \in PipeIds : PIPES'[j].used => QueueOf(PIPES'[j], sent'[j])
               /\ \A j \in PipeIds : PIPES'[j].ends <= 2
  BY DEF PipeIsQueue, QueueOf, TwoEnds
<1>5. \A j \in PipeIds : /\ PIPES[j].used => QueueOf(PIPES[j], sent[j])
                         /\ PIPES[j].ends <= 2
  BY PipeIsQueueIs DEF TwoEnds
<1>6. CASE FujoPipe
  <2>1. CASE UNCHANGED filesVars
    BY <1>5, <2>1 DEF filesVars
  <2>2. ASSUME NEW p \in PipeIds, NEW r \in Fds, NEW w \in Fds, NEW k1 \in 0 .. KOBJ_MAX,
               NEW k2 \in 0 .. KOBJ_MAX, NEW objs \in [ObjIds -> ObjRecords],
               PipeMade(p, r, w, k1, k2, objs)
        PROVE  \A j \in PipeIds : /\ PIPES'[j].used => QueueOf(PIPES'[j], sent'[j])
                                  /\ PIPES'[j].ends <= 2
    <3>1. /\ \A j \in PipeIds \ {p} : PIPES'[j] = PIPES[j] /\ sent'[j] = sent[j]
          /\ PIPES'[p].len = 0 /\ PIPES'[p].ends = 2 /\ sent'[p] = NoBytes
      BY <2>2 DEF PipeMade
    <3>2. QueueOf(PIPES'[p], sent'[p])
      <4>1. sent'[p].bytes = 0 /\ sent'[p].read = 0
        BY <3>1 DEF NoBytes
      <4>2. \A i \in 0 .. PIPES'[p].len - 1 : FALSE
        BY <3>1
      <4> QED
        BY <3>1, <4>1, <4>2 DEF QueueOf
    <3> QED
      BY <1>5, <3>1, <3>2
  <2> QED
    BY <1>6, <2>1, <2>2, FujoPipeMakes
<1>7. ASSUME NEW fd \in Fds, NEW n \in Sizes, PipeWrite(fd, n) \/ PipeRead(fd, n)
      PROVE  \A j \in PipeIds : /\ PIPES'[j].used => QueueOf(PIPES'[j], sent'[j])
                                /\ PIPES'[j].ends <= 2
  <2>1. PICK p \in PipeIds : p = FILES[fd].of /\ PIPES[p].used
    BY <1>7, OpenEndIsUsed DEF PipeWrite, PipeRead
  <2>2. QueueOf(PIPES'[p], sent'[p])
    BY <1>1, <1>5, <1>7, <2>1, WriteKeepsQueue, ReadKeepsQueue
  <2>3. \A j \in PipeIds \ {p} : PIPES'[j] = PIPES[j] /\ sent'[j] = sent[j]
    BY <1>1, <1>7, <2>1, PipeWriteDoes, PipeReadDoes
  <2>4. \A j \in PipeIds : PIPES'[j].ends = PIPES[j].ends
    BY <1>1, <1>7, BytesKeepEnds
  <2> QED
    BY <1>5, <2>2, <2>3, <2>4
<1>8. ASSUME NEW fd \in Fds, ClosePipe(fd)
      PROVE  \A j \in PipeIds : /\ PIPES'[j].used => QueueOf(PIPES'[j], sent'[j])
                                /\ PIPES'[j].ends <= 2
  <2>1. PICK p \in PipeIds : p = FILES[fd].of
    BY <1>8, ClosePipeIs
  <2>2. \A j \in PipeIds \ {p} : PIPES'[j] = PIPES[j] /\ sent'[j] = sent[j]
    BY <1>8, <2>1, ClosePipeIs
  <2>3. CASE PIPES[p].ends > 1
    <3>1. /\ PIPES'[p].ends = PIPES[p].ends - 1 /\ PIPES'[p].used = PIPES[p].used
          /\ PIPES'[p].head = PIPES[p].head /\ PIPES'[p].len = PIPES[p].len
          /\ PIPES'[p].data = PIPES[p].data /\ sent'[p] = sent[p]
      BY <1>8, <2>1, <2>3, ClosePipeIs
    <3>2. QueueOf(PIPES[p], sent[p]) => QueueOf(PIPES'[p], sent'[p])
      BY <3>1 DEF QueueOf
    <3>3. PIPES'[p].ends <= 2
      BY <1>3, <1>5, <3>1
    <3> QED
      BY <1>5, <2>2, <3>1, <3>2, <3>3
  <2>4. CASE ~(PIPES[p].ends > 1)
    <3>1. PIPES'[p].ends = 0 /\ PIPES'[p].used = FALSE
      BY <1>8, <2>1, <2>4, ClosePipeIs
    <3> QED
      BY <1>5, <2>2, <3>1
  <2> QED
    BY <2>3, <2>4
<1> QED
  BY <1>6, <1>7, <1>8 DEF PipeStep, PipeIsQueue, QueueOf, TwoEnds

\* Every step keeps the bytes of the pipes in order.
LEMMA QueuesStep ==
  ASSUME FilesShape, DiskInv, PipesCountEnds, PipeIsQueue, TwoEnds, [FilesNext]_filesVars
  PROVE  PipeIsQueue' /\ TwoEnds'
<1>1. CASE UNCHANGED <<PIPES, sent>>
  BY <1>1 DEF PipeIsQueue, TwoEnds
<1>2. CASE ObjectStep \/ VfsStep \/ UNCHANGED filesVars
  <2>1. UNCHANGED <<PIPES, sent>>
    BY <1>2, VfsStepKeeps DEF ObjectStep, KobjCreate, RegisterUnowned, KobjFree, pipeVars,
       PipesKept, filesVars
  <2> QED
    BY <1>1, <2>1
<1>3. CASE PipeStep
  BY <1>3, PipeStepKeepsQueues
<1> QED
  BY <1>2, <1>3, FilesStepIs DEF PipeStep

-----------------------------------------------------------------------------
(* The inductive invariant of the descriptor table. *)

FilesInv ==
  /\ FilesShape
  /\ DiskInv
  /\ PipesCountEnds
  /\ ObjInv
  /\ PipeIsQueue
  /\ TwoEnds

LEMMA FilesInvStep == FilesInv /\ [FilesNext]_filesVars => FilesInv'
BY ShapeAndDiskKept, EndsCountedStep, ObjInvStep, QueuesStep DEF FilesInv

LEMMA FilesInitInv == FilesInit => FilesInv
<1> SUFFICES ASSUME FilesInit
             PROVE  FilesInv
  OBVIOUS
<1>1. \A fd \in Fds : FILES[fd].kind = "free" /\ FILES[fd] = FreeFd
  BY FreeFdIsRecord DEF FilesInit
<1>2. FdShape
  BY <1>1, FreeFdIsRecord DEF FilesInit, FdShape
<1>3. /\ \A p \in PipeIds : PIPES[p] = NoPipe
      /\ NoPipe.used = FALSE /\ NoPipe.ends = 0
  BY DEF FilesInit, NoPipe
<1>4. PipeShape
  <2>1. NoPipe \in PipeRecords
    <3>1. 0 \in 0 .. PIPE_SIZE - 1 /\ 0 \in 0 .. PIPE_SIZE
      BY SizesAreNumbers
    <3> QED
      BY <3>1 DEF NoPipe, PipeRecords
  <2>2. NoObj \in ObjRecords /\ NoBytes \in [bytes : Nat, read : Nat]
    BY DEF NoObj, ObjRecords, NoBytes
  <2> QED
    BY <2>1, <2>2 DEF FilesInit, PipeShape
<1>5. FileShape
  <2>1. TMPFS \in [TmpIds -> [name : TmpNames \cup {NoFile}, data : Seq(Byte)]]
    BY FilesAssumption DEF FilesInit, Byte
  <2>2. \A k \in TmpIds : Len(TMPFS[k].data) <= TMPFS_MAX
    <3>1. \A k \in TmpIds : TMPFS[k].data = IF k = 0 THEN Seed ELSE <<>>
      BY DEF FilesInit
    <3>2. Len(Seed) <= TMPFS_MAX /\ Len(<<>>) <= TMPFS_MAX
      BY FilesAssumption
    <3> QED
      BY <3>1, <3>2
  <2>3. <<>> \in Seq(Byte) /\ Len(<<>>) <= DISK_CACHE_MAX
    BY FilesAssumption
  <2> QED
    BY <2>1, <2>2, <2>3 DEF FilesInit, FileShape
<1>6. DiskInv
  BY <1>1 DEF DiskInv
<1>7. PipesCountEnds
  <2>1. \A p \in PipeIds : Ends(p) = {}
    BY <1>1 DEF Ends
  <2> QED
    BY <1>3, <2>1, FS_EmptySet, PipesCountEndsIs
<1>8. ObjInv
  <2>1. \A i \in ObjIds : KOBJS[i].kind # "pipe"
    BY DEF FilesInit, NoObj
  <2> QED
    BY <1>1, <2>1 DEF ObjInv, ObjTied, PipeObjectsExact
<1>9. PipeIsQueue /\ TwoEnds
  BY <1>3 DEF PipeIsQueue, TwoEnds
<1> QED
  BY <1>2, <1>4, <1>5, <1>6, <1>7, <1>8, <1>9 DEF FilesShape, FilesInv

\* What the invariant says of the table.
LEMMA FilesInvShows ==
  FilesInv => /\ FilesTypeOK /\ PipesCountEnds /\ PipeIsQueue /\ PipeObjectsExact
              /\ DiskBufferIsOwn
<1> SUFFICES ASSUME FilesInv
             PROVE  FilesTypeOK /\ DiskBufferIsOwn
  BY DEF FilesInv, ObjInv
<1>1. FdShape /\ PipeShape /\ FileShape /\ TwoEnds
  BY DEF FilesInv, FilesShape
<1>2. \A fd \in Fds : /\ FILES[fd].kind \in {"free", "pipe", "ram", "disk", "view", "dir"}
                      /\ FILES[fd].len \in Nat /\ FILES[fd].pos \in Nat
                      /\ FILES[fd].kslot \in Nat /\ FILES[fd].alone \in BOOLEAN
  BY <1>1 DEF FdShape, FdRecords, FdKinds
<1>3. \A p \in PipeIds : /\ PIPES[p].head \in 0 .. PIPE_SIZE - 1
                         /\ PIPES[p].len \in 0 .. PIPE_SIZE
                         /\ PIPES[p].ends \in 0 .. 2 /\ PIPES[p].used \in BOOLEAN
  BY <1>1 DEF PipeShape, PipeRecords, TwoEnds
<1>4. /\ \A i \in ObjIds : KOBJS[i].kind \in {"none", "user", "pipe", "shm"}
      /\ stray \in BOOLEAN
  BY <1>1 DEF PipeShape, ObjRecords
<1>5. /\ \A k \in TmpIds : /\ TMPFS[k].name \in TmpNames \cup {NoFile}
                           /\ Len(TMPFS[k].data) <= TMPFS_MAX
      /\ Len(CACHE) <= DISK_CACHE_MAX /\ DISK_DIRTY \in BOOLEAN
  BY <1>1 DEF FileShape
<1>6. FilesTypeOK
  BY <1>2, <1>3, <1>4, <1>5 DEF FilesTypeOK
<1> QED
  BY <1>6 DEF FilesInv, DiskInv, DiskBufferIsOwn

-----------------------------------------------------------------------------
(* The drivers that poll their devices. *)

LEMMA NoneIsNoRequest == None \notin Requests /\ \A r \in Requests : r.ty \in {"read", "write"}
BY DEF None, Requests

\* The block device has the one request that the driver waits for, or has
\* answered it, as long as none was abandoned.
BlkInv ==
  /\ DOMAIN disk = Sectors
  /\ posted \in Nat /\ used \in Nat /\ LAST_USED \in Nat
  /\ call \in Requests \cup {None}
  /\ ~gaveUp /\ call = None => taken = None /\ used = posted /\ LAST_USED = posted
  /\ ~gaveUp /\ call # None =>
       /\ posted = LAST_USED + 1 /\ header = call
       /\ \/ used = LAST_USED /\ taken \in {None, call}
             /\ (call.ty = "write" => data = call.val)
          \/ /\ used = posted /\ taken = None
             /\ status = 0 => disk[call.lba] = IF call.ty = "read" THEN data ELSE call.val

LEMMA BlkInitInv == BlkInit => BlkInv
BY NoneIsNoRequest DEF BlkInit, BlkInv

LEMMA BlkInvStep == BlkInv /\ [BlkNext]_blkVars => BlkInv'
<1> SUFFICES ASSUME BlkInv, [BlkNext]_blkVars
             PROVE  BlkInv'
  OBVIOUS
<1>1. /\ DOMAIN disk = Sectors
      /\ posted \in Nat /\ used \in Nat /\ LAST_USED \in Nat
      /\ call \in Requests \cup {None}
  BY DEF BlkInv
<1>2. ASSUME NEW r \in Requests, BlkSubmit(r)
      PROVE  BlkInv'
  <2>1. call = None /\ call' = r /\ r # None
    BY <1>2, NoneIsNoRequest DEF BlkSubmit
  <2>2. r.ty = "write" => data' = r.val
    BY <1>2 DEF BlkSubmit
  <2> QED
    BY <1>1, <1>2, <2>1, <2>2 DEF BlkInv, BlkSubmit
<1>3. CASE DeviceTakes
  BY <1>1, <1>3 DEF BlkInv, DeviceTakes
<1>4. CASE DeviceDone
  <2>1. /\ taken # None /\ taken' = None /\ used' = used + 1
        /\ UNCHANGED <<header, posted, LAST_USED, call, gaveUp>>
    BY <1>4 DEF DeviceDone
  <2>2. DOMAIN disk' = Sectors
    BY <1>1, <1>4 DEF DeviceDone
  <2>3. CASE gaveUp
    BY <1>1, <2>1, <2>2, <2>3 DEF BlkInv
  <2>4. CASE ~gaveUp
    <3>1. /\ call # None /\ taken = call /\ used = LAST_USED /\ posted = LAST_USED + 1
          /\ header = call /\ (call.ty = "write" => data = call.val)
      BY <1>1, <2>1, <2>4 DEF BlkInv
    <3>2. call \in Requests
      BY <1>1, <3>1
    <3>3. call.lba \in Sectors /\ call.ty \in {"read", "write"}
      BY <3>2 DEF Requests
    <3>4. disk'[call.lba] = IF call.ty = "read" THEN data' ELSE call.val
      <4>1. CASE call.ty = "write"
        <5>1. disk' = [disk EXCEPT ![call.lba] = data] /\ data' = data
          BY <1>4, <3>1, <4>1 DEF DeviceDone
        <5> QED
          BY <1>1, <3>1, <3>3, <4>1, <5>1
      <4>2. CASE call.ty = "read"
        <5>1. disk' = disk /\ data' = disk[call.lba]
          BY <1>4, <3>1, <4>2 DEF DeviceDone
        <5> QED
          BY <4>2, <5>1
      <4> QED
        BY <3>3, <4>1, <4>2
    <3>5. used' = posted'
      BY <2>1, <3>1
    <3> QED
      BY <1>1, <2>1, <2>2, <3>1, <3>4, <3>5 DEF BlkInv
  <2> QED
    BY <2>3, <2>4
<1>8. CASE DeviceFails
  <2>1. /\ taken # None /\ taken' = None /\ used' = used + 1 /\ status' = 1
        /\ UNCHANGED <<disk, header, data, posted, LAST_USED, call, gaveUp>>
    BY <1>8 DEF DeviceFails
  <2>2. CASE gaveUp
    BY <1>1, <2>1, <2>2 DEF BlkInv
  <2>3. CASE ~gaveUp
    <3>1. call # None /\ used = LAST_USED /\ posted = LAST_USED + 1 /\ header = call
      BY <1>1, <2>1, <2>3 DEF BlkInv
    <3> QED
      BY <1>1, <2>1, <3>1 DEF BlkInv
  <2> QED
    BY <2>2, <2>3
<1>5. CASE BlkAnswered
  BY <1>1, <1>5 DEF BlkInv, BlkAnswered
<1>6. CASE BlkTimeout
  BY <1>1, <1>6 DEF BlkInv, BlkTimeout
<1>7. CASE UNCHANGED blkVars
  BY <1>7 DEF BlkInv, blkVars
<1> QED
  BY <1>2, <1>3, <1>4, <1>5, <1>6, <1>7, <1>8 DEF BlkNext

\* What is answered with success is what was asked.
LEMMA BlkInvShows ==
  BlkInv /\ BlkAnswered /\ status = 0 /\ ~gaveUp =>
    disk[call.lba] = IF call.ty = "read" THEN data ELSE call.val
BY DEF BlkInv, BlkAnswered

\* The controller has at most the command that cmd waits for, and does not
\* rest with it undone, as long as none was abandoned.
AhInv ==
  /\ DOMAIN ahDisk = Sectors /\ ci \in BOOLEAN /\ err \in BOOLEAN
  /\ ahCall \in Requests \cup {None}
  /\ doing # None => ci
  /\ ~ahGaveUp =>
       /\ doing \in {None, ahCall}
       /\ ahCall = None => ~ci
       /\ ahCall # None => table = ahCall
       /\ ahCall # None /\ ~ci /\ ~err /\ ahCall.ty = "write" =>
            ahDisk[ahCall.lba] = ahCall.val

LEMMA AhInitInv == AhInit => AhInv
BY DEF AhInit, AhInv

LEMMA AhInvStep == AhInv /\ [AhNext]_ahVars => AhInv'
<1> SUFFICES ASSUME AhInv, [AhNext]_ahVars
             PROVE  AhInv'
  OBVIOUS
<1>1. ASSUME NEW r \in Requests, AhciIssue(r)
      PROVE  AhInv'
  BY <1>1, NoneIsNoRequest DEF AhInv, AhciIssue
<1>2. CASE ControllerTakes
  BY <1>2 DEF AhInv, ControllerTakes
<1>3. CASE ControllerDone
  <2>1. /\ doing # None /\ doing' = None /\ ci' = FALSE
        /\ UNCHANGED <<table, ahCall, tries, ahGaveUp>>
    BY <1>3 DEF ControllerDone
  <2>2. \/ /\ ahDisk' = IF doing.ty = "write"
                        THEN [ahDisk EXCEPT ![doing.lba] = doing.val] ELSE ahDisk
           /\ UNCHANGED err
        \/ err' = TRUE /\ UNCHANGED ahDisk
    BY <1>3 DEF ControllerDone
  <2>3. DOMAIN ahDisk' = Sectors /\ err' \in BOOLEAN
    BY <2>2 DEF AhInv
  <2>4. ASSUME ~ahGaveUp, ~err', ahCall.ty = "write"
        PROVE  ahDisk'[ahCall.lba] = ahCall.val
    <3>1. doing = ahCall /\ ahCall \in Requests
      BY <2>1, <2>4 DEF AhInv
    <3>2. ahCall.lba \in Sectors
      BY <3>1 DEF Requests
    <3>3. ahDisk' = [ahDisk EXCEPT ![ahCall.lba] = ahCall.val]
      BY <2>2, <2>4, <3>1
    <3> QED
      BY <3>2, <3>3 DEF AhInv
  <2> QED
    BY <2>1, <2>3, <2>4 DEF AhInv
<1>4. CASE AhciSucceeds
  BY <1>4 DEF AhInv, AhciSucceeds
<1>5. CASE AhciAgain
  BY <1>5 DEF AhInv, AhciAgain
<1>6. CASE UNCHANGED ahVars
  BY <1>6 DEF AhInv, ahVars
<1> QED
  BY <1>1, <1>2, <1>3, <1>4, <1>5, <1>6 DEF AhNext

LEMMA AhInvShows ==
  AhInv /\ AhciSucceeds /\ ~ahGaveUp /\ ahCall.ty = "write" =>
    ahDisk[ahCall.lba] = ahCall.val
BY DEF AhInv, AhciSucceeds

\* Up to the end of the first turn: an entry that waits is malformed, or its
\* frame is in the buffer of its own number; those buffers are followed in line
\* by the next ones, and only buffers that were read come behind them.
OwnFrame(p) == usedRing[p] = [id |-> p, len |-> FrameLen(p + 1)] /\ buffer[p] = p + 1

RxInv ==
  /\ RX_LAST \in Nat /\ usedIdx \in Nat /\ RX_LAST <= usedIdx
  /\ DOMAIN usedRing = 0 .. VQ_SIZE - 1 /\ DOMAIN buffer = 0 .. SLOTS - 1
  /\ RX_LAST < SLOTS =>
       /\ avail \in Seq(0 .. SLOTS - 1)
       /\ Len(avail) + usedIdx - RX_LAST <= SLOTS /\ Len(avail) + usedIdx >= SLOTS
       /\ \A i \in 1 .. Len(avail) :
            IF usedIdx + i - 1 < SLOTS THEN avail[i] = usedIdx + i - 1 ELSE avail[i] < RX_LAST
       /\ \A p \in RX_LAST .. usedIdx - 1 : p < SLOTS => Malformed(usedRing[p]) \/ OwnFrame(p)

LEMMA RxNumbers == SLOTS \in Nat \ {0} /\ VQ_SIZE \in Nat \ {0} /\ SLOTS <= VQ_SIZE
BY QueueAssumption

LEMMA RxInitInv == RxInit => RxInv
<1> SUFFICES ASSUME RxInit
             PROVE  RxInv
  OBVIOUS
<1>1. avail = [i \in 1 .. SLOTS |-> i - 1] /\ usedIdx = 0 /\ RX_LAST = 0
  BY DEF RxInit
<1>2. avail \in Seq(0 .. SLOTS - 1) /\ Len(avail) = SLOTS
  BY <1>1, RxNumbers
<1>3. \A i \in 1 .. Len(avail) : avail[i] = i - 1 /\ i - 1 < SLOTS /\ usedIdx + i - 1 = i - 1
  BY <1>1, <1>2, RxNumbers
<1>4. DOMAIN usedRing = 0 .. VQ_SIZE - 1 /\ DOMAIN buffer = 0 .. SLOTS - 1
  BY DEF RxInit
<1>5. \A p \in RX_LAST .. usedIdx - 1 : FALSE
  BY <1>1
<1>6. Len(avail) + usedIdx - RX_LAST <= SLOTS /\ Len(avail) + usedIdx >= SLOTS
  BY <1>1, <1>2, RxNumbers
<1>7. \A i \in 1 .. Len(avail) : IF usedIdx + i - 1 < SLOTS THEN avail[i] = usedIdx + i - 1
                                 ELSE avail[i] < RX_LAST
  BY <1>3
<1>8. RX_LAST \in Nat /\ usedIdx \in Nat /\ RX_LAST <= usedIdx
  BY <1>1
<1> QED
  BY <1>2, <1>4, <1>5, <1>6, <1>7, <1>8 DEF RxInv

LEMMA FaultyIsMalformed == \A e \in FaultyEntries : Malformed(e)
<1>1. FRAME_MAX + 1 > FRAME_MAX /\ SLOTS >= SLOTS
  BY QueueAssumption
<1> QED
  BY <1>1 DEF FaultyEntries, Malformed

\* The device puts down an entry, with a frame or without.
LEMMA EntryPutKeeps == RxInv /\ (FrameArrives \/ FrameMalformed) => RxInv'
<1> SUFFICES ASSUME RxInv, FrameArrives \/ FrameMalformed
             PROVE  RxInv'
  OBVIOUS
<1> DEFINE b == Head(avail)
           s == usedIdx % VQ_SIZE
<1>0. PICK e :
        /\ usedRing' = [usedRing EXCEPT ![s] = e]
        /\ \/ /\ e = [id |-> b, len |-> FrameLen(usedIdx + 1)]
              /\ buffer' = [buffer EXCEPT ![b] = usedIdx + 1]
           \/ Malformed(e) /\ buffer' = buffer
  <2>1. CASE FrameArrives
    BY <2>1 DEF FrameArrives
  <2>2. CASE FrameMalformed
    BY <2>2, FaultyIsMalformed DEF FrameMalformed
  <2> QED
    BY <2>1, <2>2
<1>1. /\ avail # <<>> /\ usedIdx' = usedIdx + 1 /\ avail' = Tail(avail)
      /\ RX_LAST' = RX_LAST
  BY DEF FrameArrives, FrameMalformed
<1>2. /\ RX_LAST \in Nat /\ usedIdx \in Nat /\ RX_LAST <= usedIdx
      /\ DOMAIN usedRing = 0 .. VQ_SIZE - 1 /\ DOMAIN buffer = 0 .. SLOTS - 1
  BY DEF RxInv
<1>3. DOMAIN usedRing' = 0 .. VQ_SIZE - 1 /\ DOMAIN buffer' = 0 .. SLOTS - 1
  BY <1>0, <1>2
<1>4. CASE RX_LAST >= SLOTS
  BY <1>1, <1>2, <1>3, <1>4, RxNumbers DEF RxInv
<1>5. CASE RX_LAST < SLOTS
  <2>1. /\ avail \in Seq(0 .. SLOTS - 1) /\ Len(avail) \in Nat
        /\ Len(avail) + usedIdx - RX_LAST <= SLOTS /\ Len(avail) + usedIdx >= SLOTS
        /\ \A i \in 1 .. Len(avail) :
             IF usedIdx + i - 1 < SLOTS THEN avail[i] = usedIdx + i - 1 ELSE avail[i] < RX_LAST
        /\ \A p \in RX_LAST .. usedIdx - 1 : p < SLOTS => Malformed(usedRing[p]) \/ OwnFrame(p)
    BY <1>5 DEF RxInv
  <2>2. b \in 0 .. SLOTS - 1 /\ b = avail[1] /\ Len(avail) >= 1
        /\ avail' \in Seq(0 .. SLOTS - 1) /\ Len(avail') = Len(avail) - 1
        /\ \A i \in 1 .. Len(avail) - 1 : avail'[i] = avail[i + 1]
    <3>1. b \in 0 .. SLOTS - 1 /\ avail' \in Seq(0 .. SLOTS - 1)
          /\ Len(avail') = Len(avail) - 1
          /\ \A i \in 1 .. Len(avail') : avail'[i] = avail[i + 1]
      BY <1>1, <2>1, HeadTailProperties
    <3>2. b = avail[1]
      BY <1>1, <2>1
    <3>3. Len(avail) >= 1
      BY <1>1, <2>1
    <3> QED
      BY <3>1, <3>2, <3>3
  <2>3. IF usedIdx < SLOTS THEN b = usedIdx ELSE b < RX_LAST
    <3>1. 1 \in 1 .. Len(avail) /\ usedIdx + 1 - 1 = usedIdx
      BY <1>2, <2>1, <2>2
    <3> QED
      BY <2>1, <2>2, <3>1
  <2>4. usedIdx < VQ_SIZE + RX_LAST /\ usedIdx - RX_LAST < SLOTS
    BY <1>2, <2>1, <2>2, RxNumbers
  <2>5. IF usedIdx < VQ_SIZE THEN s = usedIdx ELSE s = usedIdx - VQ_SIZE
    <3>1. CASE usedIdx < VQ_SIZE
      <4>1. usedIdx \in 0 .. VQ_SIZE - 1 /\ usedIdx = usedIdx + 0 * VQ_SIZE
        BY <1>2, <3>1, RxNumbers
      <4>2. s = usedIdx
        BY <1>2, <4>1, ModIs, RxNumbers
      <4> QED
        BY <3>1, <4>2
    <3>2. CASE usedIdx >= VQ_SIZE
      <4> DEFINE r == usedIdx - VQ_SIZE
      <4>1. r \in 0 .. VQ_SIZE - 1 /\ usedIdx = r + 1 * VQ_SIZE
        BY <1>2, <1>5, <2>4, <3>2, RxNumbers
      <4> HIDE DEF r
      <4>2. s = r
        <5>1. VQ_SIZE \in Nat \ {0} /\ usedIdx \in Int /\ 1 \in {0, 1, 2}
          BY <1>2, RxNumbers
        <5> QED
          BY <4>1, <5>1, ModIs
      <4> QED
        BY <1>2, <3>2, <4>2, RxNumbers DEF r
    <3> QED
      BY <1>2, <3>1, <3>2, RxNumbers
  <2>6. s \in 0 .. VQ_SIZE - 1
    BY <1>2, <1>5, <2>4, <2>5, RxNumbers
  <2> HIDE DEF s, b
  \* What is put in does not meet what waits.
  <2>7. ASSUME NEW p \in RX_LAST .. usedIdx, p < SLOTS
        PROVE  Malformed(usedRing'[p]) \/ OwnFrame(p)'
    <3>1. p \in Nat /\ p \in 0 .. VQ_SIZE - 1 /\ p \in 0 .. SLOTS - 1
      BY <1>2, <2>7, RxNumbers
    <3>2. CASE p = usedIdx
      <4>1. b = p /\ s = p
        BY <2>3, <2>5, <2>7, <3>1, <3>2, RxNumbers
      <4>2. usedRing'[p] = e
        BY <1>0, <1>2, <3>1, <4>1
      <4>3. CASE Malformed(e)
        BY <4>2, <4>3
      <4>4. CASE /\ e = [id |-> b, len |-> FrameLen(usedIdx + 1)]
                 /\ buffer' = [buffer EXCEPT ![b] = usedIdx + 1]
        BY <1>2, <3>1, <3>2, <4>1, <4>2, <4>4 DEF OwnFrame, FrameLen
      <4> QED
        BY <1>0, <4>3, <4>4
    <3>3. CASE p # usedIdx
      <4>1. p \in RX_LAST .. usedIdx - 1
        BY <1>2, <3>1, <3>3
      <4>2. p # b
        BY <1>2, <2>3, <3>1, <4>1
      <4>3. p # s
        BY <1>2, <2>4, <2>5, <3>1, <4>1, RxNumbers
      <4>4. usedRing'[p] = usedRing[p] /\ buffer'[p] = buffer[p]
        BY <1>0, <1>2, <3>1, <4>2, <4>3
      <4> QED
        BY <2>1, <2>7, <4>1, <4>4 DEF OwnFrame, FrameLen
    <3> QED
      BY <3>2, <3>3
  <2>8. ASSUME NEW i \in 1 .. Len(avail) - 1
        PROVE  IF usedIdx + i < SLOTS THEN avail'[i] = usedIdx + i ELSE avail'[i] < RX_LAST
    <3>1. i + 1 \in 1 .. Len(avail) /\ usedIdx + (i + 1) - 1 = usedIdx + i
      BY <1>2, <2>1, <2>2
    <3> QED
      BY <2>1, <2>2, <3>1
  <2>9. /\ Len(avail') + usedIdx' - RX_LAST' <= SLOTS /\ Len(avail') + usedIdx' >= SLOTS
        /\ RX_LAST' \in Nat /\ usedIdx' \in Nat /\ RX_LAST' <= usedIdx'
    BY <1>1, <1>2, <2>1, <2>2
  <2>10. \A i \in 1 .. Len(avail') : IF usedIdx' + i - 1 < SLOTS THEN avail'[i] = usedIdx' + i - 1
                                     ELSE avail'[i] < RX_LAST'
    <3> SUFFICES ASSUME NEW i \in 1 .. Len(avail')
                 PROVE  IF usedIdx' + i - 1 < SLOTS THEN avail'[i] = usedIdx' + i - 1
                        ELSE avail'[i] < RX_LAST'
      OBVIOUS
    <3>1. i \in 1 .. Len(avail) - 1 /\ usedIdx' + i - 1 = usedIdx + i
      BY <1>1, <1>2, <2>2
    <3> QED
      BY <1>1, <2>8, <3>1
  <2>11. \A p \in RX_LAST' .. usedIdx' - 1 : p < SLOTS =>
           Malformed(usedRing'[p]) \/ OwnFrame(p)'
    <3>1. usedIdx' - 1 = usedIdx /\ RX_LAST' = RX_LAST
      BY <1>1, <1>2
    <3> QED
      BY <2>7, <3>1
  <2>12. avail' \in Seq(0 .. SLOTS - 1)
    BY <2>2
  <2> QED
    BY <1>3, <2>9, <2>10, <2>11, <2>12 DEF RxInv, OwnFrame, FrameLen, Malformed
<1> QED
  BY <1>2, <1>4, <1>5, RxNumbers

\* The entry that the driver looks at is that of the frame it comes to.
LEMMA EntryIsOwn ==
  ASSUME RxInv, RX_LAST # usedIdx, RX_LAST < SLOTS, ~Malformed(Entry(RX_LAST))
  PROVE  /\ Entry(RX_LAST) = [id |-> RX_LAST, len |-> FrameLen(RX_LAST + 1)]
         /\ buffer[RX_LAST] = RX_LAST + 1
<1>1. RX_LAST \in Nat /\ usedIdx \in Nat /\ RX_LAST <= usedIdx
  BY DEF RxInv
<1>2. RX_LAST \in RX_LAST .. usedIdx - 1
  BY <1>1
<1>3. Malformed(usedRing[RX_LAST]) \/ OwnFrame(RX_LAST)
  BY <1>2 DEF RxInv
<1>4. RX_LAST % SLOTS = RX_LAST
  <2>1. RX_LAST \in 0 .. SLOTS - 1 /\ RX_LAST = RX_LAST + 0 * SLOTS
    BY <1>1, RxNumbers
  <2> QED
    BY <1>1, <2>1, ModIs, RxNumbers
<1> QED
  BY <1>3, <1>4 DEF Entry, OwnFrame

LEMMA NetRxKeeps ==
  ASSUME RxInv, NEW cap \in 1 .. 2, NetRx(cap)
  PROVE  RxInv'
<1> DEFINE x == Entry(RX_LAST)
<1>1. /\ RX_LAST # usedIdx /\ RX_LAST' = RX_LAST + 1
      /\ UNCHANGED <<usedRing, usedIdx, buffer>>
      /\ avail' = avail \/ (~Malformed(x) /\ avail' = Append(avail, x.id))
  BY DEF NetRx
<1>2. /\ RX_LAST \in Nat /\ usedIdx \in Nat /\ RX_LAST <= usedIdx
      /\ DOMAIN usedRing = 0 .. VQ_SIZE - 1 /\ DOMAIN buffer = 0 .. SLOTS - 1
  BY DEF RxInv
<1>3. RX_LAST' \in Nat /\ RX_LAST' <= usedIdx
  BY <1>1, <1>2
<1>4. CASE RX_LAST' >= SLOTS
  BY <1>1, <1>2, <1>3, <1>4, RxNumbers DEF RxInv
<1>5. CASE RX_LAST' < SLOTS
  <2>1. RX_LAST < SLOTS
    BY <1>1, <1>2, <1>5, RxNumbers
  <2>2. /\ avail \in Seq(0 .. SLOTS - 1) /\ Len(avail) \in Nat
        /\ Len(avail) + usedIdx - RX_LAST <= SLOTS /\ Len(avail) + usedIdx >= SLOTS
        /\ \A i \in 1 .. Len(avail) :
             IF usedIdx + i - 1 < SLOTS THEN avail[i] = usedIdx + i - 1 ELSE avail[i] < RX_LAST
        /\ \A p \in RX_LAST .. usedIdx - 1 : p < SLOTS => Malformed(usedRing[p]) \/ OwnFrame(p)
    BY <2>1 DEF RxInv
  <2>3. (~Malformed(x) => x.id = RX_LAST) /\ RX_LAST \in 0 .. SLOTS - 1
    BY <1>1, <1>2, <2>1, EntryIsOwn, RxNumbers
  <2> HIDE DEF x
  <2>4. /\ avail' \in Seq(0 .. SLOTS - 1)
        /\ Len(avail') = Len(avail) \/ Len(avail') = Len(avail) + 1
        /\ \A i \in 1 .. Len(avail) : avail'[i] = avail[i]
        /\ Len(avail') = Len(avail) + 1 => avail'[Len(avail) + 1] = RX_LAST
    <3>1. CASE avail' = avail
      BY <2>2, <3>1
    <3>2. CASE avail' = Append(avail, RX_LAST)
      BY <2>2, <2>3, <3>2, AppendProperties
    <3> QED
      BY <1>1, <2>3, <3>1, <3>2
  <2>5. ASSUME NEW i \in 1 .. Len(avail')
        PROVE  IF usedIdx + i - 1 < SLOTS THEN avail'[i] = usedIdx + i - 1
               ELSE avail'[i] < RX_LAST + 1
    <3>1. CASE i \in 1 .. Len(avail)
      <4>1. avail'[i] = avail[i]
        BY <2>4, <3>1
      <4>2. avail[i] < RX_LAST => avail[i] < RX_LAST + 1
        <5>1. avail[i] \in 0 .. SLOTS - 1
          BY <2>2, <3>1, ElementOfSeq
        <5> QED
          BY <1>2, <5>1
      <4> QED
        BY <2>2, <3>1, <4>1, <4>2
    <3>2. CASE i \notin 1 .. Len(avail)
      <4>1. i = Len(avail) + 1 /\ avail'[i] = RX_LAST
        BY <2>2, <2>4, <3>2
      <4> QED
        BY <1>2, <2>2, <4>1, RxNumbers
    <3> QED
      BY <3>1, <3>2
  <2>6. Len(avail') + usedIdx - (RX_LAST + 1) <= SLOTS /\ Len(avail') + usedIdx >= SLOTS
    BY <1>2, <2>2, <2>4, RxNumbers
  <2>7. \A p \in RX_LAST + 1 .. usedIdx - 1 : p \in RX_LAST .. usedIdx - 1
    BY <1>2
  <2> QED
    BY <1>1, <1>2, <1>3, <2>2, <2>4, <2>5, <2>6, <2>7 DEF RxInv, OwnFrame, FrameLen, Malformed
<1> QED
  BY <1>3, <1>4, <1>5, RxNumbers

LEMMA RxInvStep == RxInv /\ [RxNext]_rxVars => RxInv'
<1>1. UNCHANGED rxVars /\ RxInv => RxInv'
  BY DEF rxVars, RxInv, OwnFrame, FrameLen, Malformed
<1> QED
  BY <1>1, EntryPutKeeps, NetRxKeeps DEF RxNext

\* A frame that is handed out is the next one.
LEMMA RxInvShows ==
  RxInv /\ [RxNext]_rxVars =>
    (RX_LAST' # RX_LAST /\ taking' # NoFrame /\ RX_LAST < SLOTS =>
       taking' = [frame |-> RX_LAST', n |-> FrameLen(RX_LAST')])
<1> SUFFICES ASSUME RxInv, [RxNext]_rxVars, RX_LAST' # RX_LAST, taking' # NoFrame,
                    RX_LAST < SLOTS
             PROVE  taking' = [frame |-> RX_LAST', n |-> FrameLen(RX_LAST')]
  OBVIOUS
<1>1. PICK cap \in 1 .. 2 : NetRx(cap)
  BY DEF RxNext, FrameArrives, FrameMalformed, rxVars
<1>2. RX_LAST # usedIdx /\ ~Malformed(Entry(RX_LAST)) /\ RX_LAST' = RX_LAST + 1
      /\ taking' = [frame |-> buffer[Entry(RX_LAST).id], n |-> Entry(RX_LAST).len]
  BY <1>1 DEF NetRx
<1>3. /\ Entry(RX_LAST).id = RX_LAST /\ Entry(RX_LAST).len = FrameLen(RX_LAST + 1)
      /\ buffer[RX_LAST] = RX_LAST + 1
  BY <1>2, EntryIsOwn
<1> QED
  BY <1>2, <1>3

-----------------------------------------------------------------------------
(* What the frames, the page tables and the views are made of. *)

Vals == {Zero, Image, Stale} \cup Stamps
Entries == Frames \cup {Shm, Box, Unmapped}

FrameShape ==
  /\ FRAME_BITMAP \in SUBSET Frames /\ kernel \in SUBSET Frames /\ orphans \in SUBSET Frames
  /\ mem \in [Frames -> Vals]
  /\ PT \in [Spaces -> [Pages -> Entries]]
  /\ tables \in [Spaces -> SUBSET Frames] /\ spaces \in 1 .. SPACES + 1
  /\ view \in [Spaces -> [Pages -> Vals]]
  /\ WLIB \in Seq(Stamps) /\ HIGH_MAPPED \in BOOLEAN /\ overlaid \in BOOLEAN

\* A space that was not made yet is as as_create leaves it.
NotMadeYet ==
  \A s \in Spaces : s >= spaces => PT[s] = FreshTable /\ view[s] = FreshView /\ tables[s] = {}

\* Nothing refers to a frame that was lost or belongs to the window region.
OwnedApart ==
  /\ Owned \cap orphans = {}
  /\ HIGH_MAPPED => Owned \cap Window = {}

\* Each frame has one owner.
OneOwner ==
  /\ \A s \in Live, p \in Pages : PT[s][p] \in Frames =>
       \A t \in Live, q \in Pages : PT[s][p] = PT[t][q] => s = t /\ p = q
  /\ \A s, t \in Live :
       /\ HeapFrames(s) \cap (tables[t] \cup kernel) = {}
       /\ tables[s] \cap kernel = {}
       /\ s # t => tables[s] \cap tables[t] = {}

BitmapExact == FRAME_BITMAP = Owned \cup orphans \cup (IF HIGH_MAPPED THEN Window ELSE {})

\* A page with a frame shows what is in the frame, and one without reads as
\* zeros.
ViewsExact ==
  \A s \in Live \ short, p \in Pages :
    view[s][p] = IF PT[s][p] \in Frames THEN mem[PT[s][p]] ELSE Zero

FrameInv ==
  /\ FrameShape
  /\ NotMadeYet
  /\ overlaid \/ (BitmapExact /\ OneOwner /\ OwnedApart)
  /\ overlaid \/ ViewsExact
  /\ SharedPageReached

-----------------------------------------------------------------------------
(* Frames and pages are counted. *)

LEMMA FramesAreFinite ==
  /\ \A T \in SUBSET Frames : IsFiniteSet(T) /\ Cardinality(T) \in Nat
  /\ Frames \in SUBSET Nat /\ FreeFrames \in SUBSET Frames
  /\ \A x \in Frames : x \notin {Unmapped, Shm, Box}
<1>1. FRAME_PAGES - 1 \in Int
  BY MemoryAssumption
<1>2. IsFiniteSet(Frames)
  BY <1>1, FS_Interval DEF Frames
<1>3. \A T \in SUBSET Frames : IsFiniteSet(T)
  BY <1>2, FS_Subset
<1>4. \A T \in SUBSET Frames : Cardinality(T) \in Nat
  BY <1>3, FS_CardinalityType
<1>5. Frames \in SUBSET Nat /\ FreeFrames \in SUBSET Frames
  BY DEF Frames, FreeFrames
<1>6. \A x \in Frames : x \notin {Unmapped, Shm, Box}
  BY DEF Frames, Unmapped, Shm, Box
<1> QED
  BY <1>3, <1>4, <1>5, <1>6

LEMMA PagesAreFinite ==
  \A T \in SUBSET Pages : T \in SUBSET Nat /\ IsFiniteSet(T) /\ Cardinality(T) \in Nat
<1>1. IsFiniteSet(Pages) /\ Pages \in SUBSET Nat
  BY MemoryAssumption
<1>2. \A T \in SUBSET Pages : IsFiniteSet(T)
  BY <1>1, FS_Subset
<1>3. \A T \in SUBSET Pages : Cardinality(T) \in Nat
  BY <1>2, FS_CardinalityType
<1> QED
  BY <1>1, <1>2, <1>3

\* Counting from zero, every number below its size names a frame of a set.
LEMMA NthIn ==
  ASSUME NEW T \in SUBSET Frames, NEW k \in Nat, k < Cardinality(T)
  PROVE  Nth(T, k) \in T /\ Cardinality({y \in T : y < Nth(T, k)}) = k
<1>1. T \in SUBSET (0 .. FRAME_PAGES) /\ FRAME_PAGES \in Nat /\ T \in SUBSET Nat
  BY MemoryAssumption DEF Frames
<1>2. Cardinality(T) \in Nat
  BY FramesAreFinite
<1>3. k + 1 \in 1 .. Cardinality(T)
  BY <1>2
<1>4. PICK x \in T : Cardinality({y \in T : y <= x}) = k + 1
  BY <1>1, <1>3, RankExists
<1> DEFINE U == {y \in T : y <= x}
           V == {y \in T : y < x}
<1>5. IsFiniteSet(U) /\ x \in U
  <2>1. U \in SUBSET Frames
    BY <1>1
  <2> QED
    BY <1>1, <1>4, <2>1, FramesAreFinite
<1>6. V = U \ {x}
  <2>1. \A y \in T : y < x <=> (y <= x /\ y # x)
    BY <1>1
  <2> QED
    BY <2>1
<1>7. Cardinality(U \ {x}) = Cardinality(U) - 1
  BY <1>5, FS_RemoveElement
<1>8. Cardinality(V) = k
  BY <1>4, <1>6, <1>7
<1>9. \E z \in T : Cardinality({y \in T : y < z}) = k
  BY <1>4, <1>8
<1> QED
  BY <1>9 DEF Nth

\* Two pages of a set have different ranks.
LEMMA RanksDiffer ==
  ASSUME NEW C \in SUBSET Pages, NEW p \in C, NEW q \in C, p # q
  PROVE  Cardinality({y \in C : y < p}) # Cardinality({y \in C : y < q})
<1>1. ASSUME NEW a \in C, NEW b \in C, a < b
      PROVE  Cardinality({y \in C : y < a}) # Cardinality({y \in C : y < b})
  <2> DEFINE A == {y \in C : y < a}
             B == {y \in C : y < b}
  <2>1. A \in SUBSET B /\ IsFiniteSet(B) /\ B \in SUBSET Pages
    <3>1. C \in SUBSET Nat
      BY PagesAreFinite
    <3>2. \A y \in C : y < a => y < b
      BY <1>1, <3>1
    <3> QED
      BY <3>2, PagesAreFinite
  <2>2. a \in B /\ a \notin A
    BY <1>1, PagesAreFinite
  <2>3. A # B
    BY <2>2
  <2>4. Cardinality(A) # Cardinality(B)
    BY <2>1, <2>3, FS_Subset
  <2> QED
    BY <2>4
<1>2. p \in Nat /\ q \in Nat
  BY PagesAreFinite
<1>3. p < q \/ q < p
  BY <1>2
<1> QED
  BY <1>1, <1>3

LEMMA OwnedIs ==
  ASSUME FrameShape
  PROVE  \A f : f \in Owned <=> \/ f \in Frames /\ \E s \in Live, p \in Pages : PT[s][p] = f
                                \/ \E s \in Live : f \in tables[s]
                                \/ f \in kernel
BY DEF Owned, HeapFrames

LEMMA LiveIs ==
  ASSUME FrameShape
  PROVE  /\ Live \in SUBSET Spaces /\ Spaces \in SUBSET Nat /\ spaces \in Nat
         /\ \A s \in Spaces : s \in Live <=> s < spaces
<1>1. spaces \in 1 .. SPACES + 1 /\ SPACES \in Nat
  BY MemoryAssumption DEF FrameShape
<1> QED
  BY <1>1 DEF Live, Spaces

-----------------------------------------------------------------------------
(* A step that hands out free frames. *)

LEMMA FreeHasNoOwner ==
  ASSUME FrameShape, BitmapExact
  PROVE  /\ \A f \in FreeFrames : /\ f \notin Owned /\ f \notin orphans
                                  /\ HIGH_MAPPED => f \notin Window
         /\ \A f \in Owned : f \in Frames
BY DEF FreeFrames, BitmapExact, FrameShape

\* The frames of G go to pages, those of T to the tables of a new space, those
\* of K to the kernel, and those of O are lost.
Handed(G, T, K, O) ==
  /\ T \cap G = {} /\ K \cap G = {} /\ O \cap G = {}
  /\ T \cap K = {} /\ T \cap O = {} /\ K \cap O = {}
  /\ FRAME_BITMAP' = FRAME_BITMAP \cup G \cup T \cup K \cup O
  /\ kernel' = kernel \cup K /\ orphans' = orphans \cup O
  /\ \/ spaces' = spaces /\ T = {}
     \/ spaces' = spaces + 1 /\ tables'[spaces] = T
  /\ \A s \in Live : tables'[s] = tables[s]
  /\ \A s \in Live, p \in Pages : PT[s][p] \in Frames => PT'[s][p] = PT[s][p]
  /\ \A s \in Live', p \in Pages : PT'[s][p] \in Frames =>
       PT'[s][p] \in G \/ (s \in Live /\ PT'[s][p] = PT[s][p])
  /\ \A g \in G : \E s \in Live', p \in Pages : PT'[s][p] = g
  /\ \A s, t \in Live', p, q \in Pages :
       PT'[s][p] \in G /\ PT'[s][p] = PT'[t][q] => s = t /\ p = q
  /\ UNCHANGED HIGH_MAPPED

LEMMA HandedKeeps ==
  ASSUME FrameShape, BitmapExact, OneOwner, OwnedApart,
         NEW G \in SUBSET FreeFrames, NEW T \in SUBSET FreeFrames,
         NEW K \in SUBSET FreeFrames, NEW O \in SUBSET FreeFrames, Handed(G, T, K, O)
  PROVE  BitmapExact' /\ OneOwner' /\ OwnedApart'
<1>1. /\ \A s \in Live : s \in Live'
      /\ \A s \in Live' : s \in Live \/ (s = spaces /\ tables'[s] = T)
      /\ T # {} => spaces \in Live'
      /\ spaces \notin Live
  <2>1. spaces \in Nat /\ spaces >= 1
    BY MemoryAssumption DEF FrameShape
  <2> QED
    BY <2>1 DEF Handed, Live
<1>2. /\ \A f \in Frames : f \in Owned <=> \/ \E s \in Live, p \in Pages : PT[s][p] = f
                                           \/ \E s \in Live : f \in tables[s]
                                           \/ f \in kernel
      /\ \A f \in Frames : f \in Owned' <=> \/ \E s \in Live', p \in Pages : PT'[s][p] = f
                                            \/ \E s \in Live' : f \in tables'[s]
                                            \/ f \in kernel'
  BY DEF Owned, HeapFrames
<1>3. Owned \in SUBSET Frames /\ G \cup T \cup K \cup O \in SUBSET Frames
  BY FreeHasNoOwner DEF FreeFrames
<1>4. \A s \in Live : tables[s] \in SUBSET Frames
  BY LiveIs DEF FrameShape
<1>5. Owned' \in SUBSET Frames
  <2>1. kernel' \in SUBSET Frames
    BY <1>3 DEF Handed, FrameShape
  <2>2. \A s \in Live' : tables'[s] \in SUBSET Frames
    BY <1>1, <1>3, <1>4 DEF Handed
  <2> QED
    BY <2>1, <2>2 DEF Owned, HeapFrames
<1>6. \A f \in Frames : f \in Owned' <=> f \in Owned \/ f \in G \/ f \in T \/ f \in K
  <2> SUFFICES ASSUME NEW f \in Frames
               PROVE  f \in Owned' <=> f \in Owned \/ f \in G \/ f \in T \/ f \in K
    OBVIOUS
  <2>1. (\E s \in Live', p \in Pages : PT'[s][p] = f) <=>
          f \in G \/ \E s \in Live, p \in Pages : PT[s][p] = f
    BY <1>1 DEF Handed
  <2>2. (\E s \in Live' : f \in tables'[s]) <=> f \in T \/ \E s \in Live : f \in tables[s]
    BY <1>1 DEF Handed
  <2>3. f \in kernel' <=> f \in kernel \/ f \in K
    BY DEF Handed
  <2> QED
    BY <1>2, <2>1, <2>2, <2>3
<1>7. BitmapExact'
  BY <1>3, <1>5, <1>6 DEF BitmapExact, Handed
<1>8. OwnedApart'
  <2>1. \A f \in Owned' : f \notin orphans' /\ (HIGH_MAPPED' => f \notin Window)
    BY <1>3, <1>5, <1>6, FreeHasNoOwner DEF OwnedApart, Handed
  <2> QED
    BY <2>1 DEF OwnedApart
<1>9. \A s \in Live', p \in Pages : PT'[s][p] \in Frames =>
        \A t \in Live', q \in Pages : PT'[s][p] = PT'[t][q] => s = t /\ p = q
  <2> SUFFICES ASSUME NEW s \in Live', NEW p \in Pages, PT'[s][p] \in Frames,
                      NEW t \in Live', NEW q \in Pages, PT'[s][p] = PT'[t][q]
               PROVE  s = t /\ p = q
    OBVIOUS
  <2>1. CASE PT'[s][p] \in G
    BY <2>1 DEF Handed
  <2>2. CASE PT'[s][p] \notin G
    <3>1. s \in Live /\ t \in Live /\ PT'[s][p] = PT[s][p] /\ PT'[t][q] = PT[t][q]
      BY <2>2 DEF Handed
    <3>2. PT[s][p] \in Frames /\ PT[s][p] = PT[t][q]
      BY <3>1
    <3> HIDE DEF Live
    <3> QED
      BY <3>1, <3>2 DEF OneOwner
  <2> QED
    BY <2>1, <2>2
<1>10. ASSUME NEW s \in Live', NEW t \in Live'
       PROVE  /\ HeapFrames(s)' \cap (tables'[t] \cup kernel') = {}
              /\ tables'[s] \cap kernel' = {}
              /\ s # t => tables'[s] \cap tables'[t] = {}
  <2>1. \A f \in HeapFrames(s)' : \/ f \in G
                                  \/ s \in Live /\ f \in HeapFrames(s)
    BY DEF HeapFrames, Handed
  <2>2. \A u \in Live' : \/ u \in Live /\ tables'[u] = tables[u]
                         \/ u \notin Live /\ u = spaces /\ tables'[u] = T
    BY <1>1 DEF Handed
  <2>3. \A u \in Live : \A f \in tables[u] \cup HeapFrames(u) : f \in Owned
    BY DEF Owned
  <2>4. \A f \in kernel : f \in Owned
    BY DEF Owned
  <2>5. \A f \in G \cup T \cup K : f \notin Owned
    BY FreeHasNoOwner
  <2>6. kernel' = kernel \cup K /\ T \cap G = {} /\ K \cap G = {} /\ T \cap K = {}
    BY DEF Handed
  <2>7. HeapFrames(s)' \cap (tables'[t] \cup kernel') = {}
    BY <2>1, <2>2, <2>3, <2>4, <2>5, <2>6 DEF OneOwner
  <2>8. tables'[s] \cap kernel' = {}
    BY <2>2, <2>3, <2>4, <2>5, <2>6 DEF OneOwner
  <2>9. s # t => tables'[s] \cap tables'[t] = {}
    BY <2>2, <2>3, <2>5 DEF OneOwner
  <2> QED
    BY <2>7, <2>8, <2>9
<1>11. OneOwner'
  BY <1>9, <1>10 DEF OneOwner, HeapFrames
<1> QED
  BY <1>7, <1>8, <1>11

-----------------------------------------------------------------------------
(* The kernel takes frames, and a program starts in the window region. *)

LEMMA RunIsFree ==
  ASSUME NEW n \in 1 .. 2, FreeRuns(n) # {}
  PROVE  FirstFreeRun(n) \in SUBSET FreeFrames
<1>1. FreeRuns(n) \in SUBSET Nat
  BY DEF FreeRuns, Frames
<1>2. \E i \in FreeRuns(n) : \A j \in FreeRuns(n) : i <= j
  BY <1>1, Minimum
<1> DEFINE c == CHOOSE i \in FreeRuns(n) : \A j \in FreeRuns(n) : i <= j
<1>3. c \in FreeRuns(n)
  BY <1>2
<1> HIDE DEF c
<1>4. \A j \in c .. c + n - 1 : j \in FreeFrames
  BY <1>3 DEF FreeRuns
<1> QED
  BY <1>4 DEF FirstFreeRun, c

LEMMA KernelAllocKeeps ==
  ASSUME FrameInv, NEW n \in 1 .. 2, KernelAlloc(n)
  PROVE  FrameInv'
<1> DEFINE R == FirstFreeRun(n)
<1>1. /\ FRAME_BITMAP' = FRAME_BITMAP \cup R /\ kernel' = kernel \cup R
      /\ mem' = Zeroed(mem, R)
      /\ UNCHANGED <<PT, tables, spaces, HIGH_MAPPED, overlaid, WMAP, WLIB, view,
                     short, unpinned, orphans>>
      /\ FreeRuns(n) # {}
  BY DEF KernelAlloc
<1>2. R \in SUBSET FreeFrames /\ R \in SUBSET Frames
  BY <1>1, RunIsFree, FramesAreFinite
<1> HIDE DEF R
<1>3. FrameShape /\ NotMadeYet /\ SharedPageReached
  BY DEF FrameInv
<1>4. FrameShape'
  <2>1. mem' \in [Frames -> Vals]
    BY <1>1, <1>3 DEF FrameShape, Zeroed, Vals
  <2> QED
    BY <1>1, <1>2, <1>3, <2>1 DEF FrameShape
<1>5. NotMadeYet' /\ SharedPageReached'
  BY <1>1, <1>3 DEF NotMadeYet, SharedPageReached, Live
<1>6. ~overlaid => (BitmapExact /\ OneOwner /\ OwnedApart)'
  <2>1. Handed({}, {}, R, {})
    BY <1>1 DEF Handed, Live
  <2> QED
    BY <1>2, <1>3, <2>1, HandedKeeps DEF FrameInv
<1>7. ~overlaid => ViewsExact'
  <2> SUFFICES ASSUME ~overlaid
               PROVE  ViewsExact'
    OBVIOUS
  <2>1. BitmapExact /\ ViewsExact
    BY DEF FrameInv
  <2>2. \A s \in Live, p \in Pages : PT[s][p] \in Frames => mem'[PT[s][p]] = mem[PT[s][p]]
    <3> SUFFICES ASSUME NEW s \in Live, NEW p \in Pages, PT[s][p] \in Frames
                 PROVE  mem'[PT[s][p]] = mem[PT[s][p]]
      OBVIOUS
    <3>1. PT[s][p] \notin R
      BY <1>2, <1>3, <2>1, FreeHasNoOwner, OwnedIs
    <3> QED
      BY <1>1, <1>3, <3>1 DEF FrameShape, Zeroed
  <2> QED
    BY <1>1, <2>1, <2>2 DEF ViewsExact, Live
<1> QED
  BY <1>1, <1>4, <1>5, <1>6, <1>7 DEF FrameInv

LEMMA MapHighUserKeeps ==
  ASSUME FrameInv, MapHighUser
  PROVE  FrameInv'
<1>1. /\ FRAME_BITMAP' = IF HIGH_MAPPED THEN FRAME_BITMAP ELSE FRAME_BITMAP \cup Window
      /\ HIGH_MAPPED' = TRUE
      /\ overlaid' = (overlaid \/ (~HIGH_MAPPED /\ Owned \cap Window # {}))
      /\ mem' = [f \in DOMAIN mem |-> IF f \in Window THEN Image ELSE mem[f]]
      /\ UNCHANGED <<PT, tables, spaces, kernel, WMAP, WLIB, view, short, unpinned, orphans>>
  BY DEF MapHighUser
<1>2. FrameShape /\ NotMadeYet /\ SharedPageReached
  BY DEF FrameInv
<1>3. Window \in SUBSET Frames
  BY MemoryAssumption DEF Window, Frames
<1>4. FrameShape'
  <2>1. mem' \in [Frames -> Vals]
    BY <1>1, <1>2 DEF FrameShape, Vals
  <2> QED
    BY <1>1, <1>2, <1>3, <2>1 DEF FrameShape
<1>5. NotMadeYet' /\ SharedPageReached'
  BY <1>1, <1>2 DEF NotMadeYet, SharedPageReached, Live
<1>6. ASSUME ~overlaid'
      PROVE  (BitmapExact /\ OneOwner /\ OwnedApart /\ ViewsExact)'
  <2>1. ~overlaid /\ BitmapExact /\ OneOwner /\ OwnedApart /\ ViewsExact
    BY <1>1, <1>6 DEF FrameInv
  <2>2. Owned \cap Window = {}
    BY <1>1, <1>6, <2>1 DEF OwnedApart
  <2>3. Owned' = Owned
    BY <1>1 DEF Owned, HeapFrames, Live
  <2>4. BitmapExact' /\ OwnedApart'
    BY <1>1, <2>1, <2>2, <2>3 DEF BitmapExact, OwnedApart
  <2>5. OneOwner'
    BY <1>1, <2>1 DEF OneOwner, HeapFrames, Live
  <2>6. \A s \in Live, p \in Pages : PT[s][p] \in Frames => mem'[PT[s][p]] = mem[PT[s][p]]
    <3> SUFFICES ASSUME NEW s \in Live, NEW p \in Pages, PT[s][p] \in Frames
                 PROVE  mem'[PT[s][p]] = mem[PT[s][p]]
      OBVIOUS
    <3>1. PT[s][p] \notin Window
      BY <1>2, <2>2, OwnedIs
    <3> QED
      BY <1>1, <1>2, <3>1 DEF FrameShape
  <2>7. ViewsExact'
    BY <1>1, <2>1, <2>6 DEF ViewsExact, Live
  <2> QED
    BY <2>4, <2>5, <2>7
<1> QED
  BY <1>4, <1>5, <1>6 DEF FrameInv

-----------------------------------------------------------------------------
(* A program touches, writes and unmaps pages. *)

LEMMA StoreKeeps ==
  ASSUME FrameInv, NEW s \in Live, NEW p \in Pages, NEW v \in Stamps, Store(s, p, v)
  PROVE  FrameInv'
<1> DEFINE f == PT[s][p]
<1>1. /\ f \in Frames /\ mem' = [mem EXCEPT ![f] = v]
      /\ view' = [view EXCEPT ![s][p] = v]
      /\ UNCHANGED <<FRAME_BITMAP, PT, tables, spaces, kernel, HIGH_MAPPED, overlaid,
                     WMAP, WLIB, short, unpinned, orphans>>
  BY DEF Store
<1>2. FrameShape /\ NotMadeYet /\ SharedPageReached /\ s \in Spaces /\ v \in Vals
  BY LiveIs DEF FrameInv, Vals
<1>3. /\ mem' \in [Frames -> Vals] /\ view' \in [Spaces -> [Pages -> Vals]]
      /\ \A g \in Frames : mem'[g] = IF g = f THEN v ELSE mem[g]
      /\ \A t \in Spaces, q \in Pages : view'[t][q] = IF t = s /\ q = p THEN v ELSE view[t][q]
      /\ \A t \in Spaces : t # s => view'[t] = view[t]
  <2> HIDE DEF f
  <2> QED
    BY <1>1, <1>2 DEF FrameShape
<1>4. FrameShape'
  BY <1>1, <1>2, <1>3 DEF FrameShape
<1>5. NotMadeYet' /\ SharedPageReached'
  <2>1. \A t \in Spaces : t >= spaces => t # s
    BY <1>2, LiveIs
  <2> QED
    BY <1>1, <1>2, <1>3, <2>1 DEF NotMadeYet, SharedPageReached, Live
<1>6. BitmapExact /\ OneOwner /\ OwnedApart => (BitmapExact /\ OneOwner /\ OwnedApart)'
  <2>1. Owned' = Owned
    BY <1>1 DEF Owned, HeapFrames, Live
  <2> QED
    BY <1>1, <2>1 DEF BitmapExact, OneOwner, OwnedApart, HeapFrames, Live
<1>7. OneOwner /\ ViewsExact => ViewsExact'
  <2> SUFFICES ASSUME OneOwner, ViewsExact,
                      NEW t \in Live, t \notin short, NEW q \in Pages
               PROVE  view'[t][q] = IF PT[t][q] \in Frames THEN mem'[PT[t][q]] ELSE Zero
    BY <1>1 DEF ViewsExact, Live
  <2>1. view[t][q] = IF PT[t][q] \in Frames THEN mem[PT[t][q]] ELSE Zero
    BY DEF ViewsExact
  <2>2. t \in Spaces
    BY <1>2, LiveIs
  <2>3. CASE t = s /\ q = p
    BY <1>1, <1>3, <2>2, <2>3
  <2>4. CASE ~(t = s /\ q = p)
    <3>1. PT[t][q] # f
      BY <1>1, <2>4 DEF OneOwner
    <3> QED
      BY <1>3, <2>1, <2>2, <2>4, <3>1
  <2> QED
    BY <2>3, <2>4
<1> QED
  BY <1>1, <1>4, <1>5, <1>6, <1>7 DEF FrameInv

LEMMA WmapKeeps ==
  ASSUME FrameInv,
         \/ \E v \in Stamps : WmapLoad(<<v>>)
         \/ \E va \in Pages, len \in 1 .. 2 : WmapRes(va, len)
  PROVE  FrameInv'
<1>1. /\ UNCHANGED <<FRAME_BITMAP, mem, PT, tables, spaces, kernel, HIGH_MAPPED, overlaid,
                     view, short, unpinned, orphans>>
      /\ WLIB' = WLIB \/ \E v \in Stamps : WLIB' = <<v>>
  BY DEF WmapLoad, WmapRes
<1>2. FrameShape'
  <2>1. WLIB' \in Seq(Stamps)
    <3>1. \A v \in Stamps : <<v>> \in Seq(Stamps)
      OBVIOUS
    <3> QED
      BY <1>1, <3>1 DEF FrameInv, FrameShape
  <2> QED
    BY <1>1, <2>1 DEF FrameInv, FrameShape
<1>3. Owned' = Owned
  BY <1>1 DEF Owned, HeapFrames, Live
<1>4. BitmapExact /\ OneOwner /\ OwnedApart => (BitmapExact /\ OneOwner /\ OwnedApart)'
  BY <1>1, <1>3 DEF BitmapExact, OneOwner, OwnedApart, HeapFrames, Live
<1> QED
  BY <1>1, <1>2, <1>4 DEF FrameInv, NotMadeYet, ViewsExact, SharedPageReached, Live

LEMMA PageFaultKeeps ==
  ASSUME FrameInv, NEW s \in Live, NEW p \in Pages, PageFault(s, p)
  PROVE  FrameInv'
<1> DEFINE f == Nth(FreeFrames, 0)
<1>1. FrameShape /\ NotMadeYet /\ SharedPageReached /\ s \in Spaces /\ PT[s][p] = Unmapped
  BY LiveIs DEF FrameInv, PageFault
<1>2. f \in FreeFrames /\ f \in Frames
  <2>1. FreeFrames # {} /\ FreeFrames \in SUBSET Frames
    BY FramesAreFinite DEF PageFault
  <2>2. Cardinality(FreeFrames) # 0 /\ Cardinality(FreeFrames) \in Nat
    BY <2>1, FramesAreFinite, FS_EmptySet
  <2>3. 0 < Cardinality(FreeFrames)
    BY <2>2
  <2> QED
    BY <2>1, <2>3, NthIn
<1>3. \A v \in LoadedFrom(p) : v \in Stamps
  <2>1. WLIB # <<>> => WLIB[1] \in Stamps
    BY <1>1 DEF FrameShape
  <2> QED
    BY <2>1 DEF LoadedFrom
<1>4. UNCHANGED <<tables, spaces, kernel, HIGH_MAPPED, overlaid, WMAP, WLIB,
                  short, unpinned, orphans>>
  BY DEF PageFault
<1>5. PICK v \in Vals : /\ Filled(s, p, f, v)
                        /\ view' = [view EXCEPT ![s][p] = v] \/ (v = Zero /\ view' = view)
  <2>1. Zero \in Vals /\ Stamps \in SUBSET Vals
    BY DEF Vals
  <2> QED
    BY <1>3, <2>1 DEF PageFault
<1> HIDE DEF f
<1>6. /\ FRAME_BITMAP' = FRAME_BITMAP \cup {f}
      /\ PT' = [PT EXCEPT ![s][p] = f] /\ mem' = [mem EXCEPT ![f] = v]
  BY <1>5 DEF Filled
<1>7. /\ PT' \in [Spaces -> [Pages -> Entries]]
      /\ PT'[s][p] = f
      /\ \A t \in Spaces, q \in Pages : ~(t = s /\ q = p) => PT'[t][q] = PT[t][q]
      /\ \A t \in Spaces : t # s => PT'[t] = PT[t]
  BY <1>1, <1>2, <1>6 DEF FrameShape, Entries
<1>8. /\ mem' \in [Frames -> Vals] /\ mem'[f] = v
      /\ \A g \in Frames : g # f => mem'[g] = mem[g]
  BY <1>1, <1>2, <1>6 DEF FrameShape
<1>9. /\ view' \in [Spaces -> [Pages -> Vals]]
      /\ \A t \in Spaces, q \in Pages : ~(t = s /\ q = p) => view'[t][q] = view[t][q]
      /\ \A t \in Spaces : t # s => view'[t] = view[t]
      /\ view'[s][p] = v \/ (v = Zero /\ view'[s][p] = view[s][p])
  <2>1. view \in [Spaces -> [Pages -> Vals]] /\ s \in Spaces /\ p \in Pages /\ v \in Vals
    BY <1>1 DEF FrameShape
  <2>2. CASE view' = [view EXCEPT ![s][p] = v]
    <3>1. view' = [view EXCEPT ![s] = [view[s] EXCEPT ![p] = v]]
      BY <2>2
    <3>2. view[s] \in [Pages -> Vals]
      BY <2>1
    <3>3. [view[s] EXCEPT ![p] = v] \in [Pages -> Vals]
      BY <2>1, <3>2
    <3> QED
      BY <2>1, <3>1, <3>2, <3>3
  <2>3. CASE v = Zero /\ view' = view
    BY <2>1, <2>3
  <2> QED
    BY <1>5, <2>2, <2>3
<1>10. FrameShape'
  BY <1>1, <1>2, <1>4, <1>6, <1>7, <1>8, <1>9 DEF FrameShape
<1>11. NotMadeYet'
  <2>1. \A t \in Spaces : t >= spaces => t # s
    BY <1>1, LiveIs
  <2> QED
    BY <1>1, <1>4, <1>7, <1>9, <2>1 DEF NotMadeYet
<1>12. SharedPageReached'
  <2>1. \A t \in Live : unpinned = {} => PT'[t][ShmPage] = Shm
    <3>1. unpinned = {} => p # ShmPage
      BY <1>1 DEF SharedPageReached, Unmapped, Shm
    <3>2. ShmPage \in Pages
      BY MemoryAssumption
    <3> QED
      BY <1>1, <1>7, <3>1, <3>2, LiveIs DEF SharedPageReached
  <2> QED
    BY <1>4, <2>1 DEF SharedPageReached, Live
<1>13. ~overlaid => (BitmapExact /\ OneOwner /\ OwnedApart)'
  <2>1. {f} \in SUBSET FreeFrames /\ Live' = Live
    BY <1>2, <1>4 DEF Live
  <2>2. \A t \in Live : t \in Spaces
    BY <1>1, LiveIs
  <2>3. ASSUME ~overlaid
        PROVE  Handed({f}, {}, {}, {})
    <3>1. \A t \in Live, q \in Pages : PT[t][q] # f
      BY <1>1, <1>2, <2>3, FreeHasNoOwner, OwnedIs DEF FrameInv
    <3>2. PT[s][p] \notin Frames
      BY <1>1, FramesAreFinite
    <3>3. \A t \in Live, q \in Pages : PT[t][q] \in Frames => PT'[t][q] = PT[t][q]
      BY <1>7, <2>2, <3>2
    <3>4. \A t \in Live, q \in Pages : PT'[t][q] = f => t = s /\ q = p
      BY <1>7, <2>2, <3>1
    <3>5. \A t \in Live, q \in Pages : PT'[t][q] = f \/ PT'[t][q] = PT[t][q]
      BY <1>7, <2>2
    <3> HIDE DEF Live
    <3>6. \A t, u \in Live', q, r \in Pages :
            PT'[t][q] \in {f} /\ PT'[t][q] = PT'[u][r] => t = u /\ q = r
      BY <2>1, <3>4
    <3>7. \A t \in Live', q \in Pages : PT'[t][q] \in Frames =>
            PT'[t][q] \in {f} \/ (t \in Live /\ PT'[t][q] = PT[t][q])
      BY <2>1, <3>5
    <3>8. \A g \in {f} : \E t \in Live', q \in Pages : PT'[t][q] = g
      BY <1>7, <2>1
    <3> QED
      BY <1>4, <1>6, <3>3, <3>6, <3>7, <3>8 DEF Handed
  <2> QED
    BY <1>1, <2>1, <2>3, HandedKeeps DEF FrameInv
<1>14. ~overlaid => ViewsExact'
  <2> SUFFICES ASSUME ~overlaid, NEW t \in Live, t \notin short, NEW q \in Pages
               PROVE  view'[t][q] = IF PT'[t][q] \in Frames THEN mem'[PT'[t][q]] ELSE Zero
    BY <1>4 DEF ViewsExact, Live
  <2>1. /\ view[t][q] = IF PT[t][q] \in Frames THEN mem[PT[t][q]] ELSE Zero
        /\ t \in Spaces
    BY <1>1, LiveIs DEF FrameInv, ViewsExact
  <2>2. CASE t = s /\ q = p
    <3>1. view[t][q] = Zero
      BY <1>1, <2>1, <2>2, FramesAreFinite
    <3> QED
      BY <1>2, <1>7, <1>8, <1>9, <2>2, <3>1
  <2>3. CASE ~(t = s /\ q = p)
    <3>1. PT[t][q] # f
      BY <1>1, <1>2, FreeHasNoOwner, OwnedIs DEF FrameInv
    <3> QED
      BY <1>7, <1>8, <1>9, <2>1, <2>3, <3>1
  <2> QED
    BY <2>2, <2>3
<1> QED
  BY <1>4, <1>10, <1>11, <1>12, <1>13, <1>14 DEF FrameInv

LEMMA MunmapKeeps ==
  ASSUME FrameInv, NEW s \in Live, NEW lo \in Pages, NEW hi \in Pages, Munmap(s, lo, hi)
  PROVE  FrameInv'
<1> DEFINE gone == {p \in lo .. hi : PT[s][p] # Unmapped}
           given == {PT[s][p] : p \in gone}
<1>1. FrameShape /\ NotMadeYet /\ SharedPageReached /\ s \in Spaces
  BY LiveIs DEF FrameInv
<1>2. gone \in SUBSET Pages
  BY MemoryAssumption
<1>3. \A p \in lo .. hi : p \in Pages
  BY MemoryAssumption
<1>4. /\ PT' = [PT EXCEPT ![s] = [p \in Pages |-> IF p \in gone THEN Unmapped ELSE PT[s][p]]]
      /\ FRAME_BITMAP' = FRAME_BITMAP \ given
      /\ view' = [view EXCEPT ![s] = [p \in Pages |-> IF p \in gone THEN Zero ELSE view[s][p]]]
      /\ unpinned' = IF gone \cap {ShmPage, BoxPage} = {} THEN unpinned
                     ELSE unpinned \cup {s}
      /\ mem' = [f \in DOMAIN mem |-> IF f \in given \cap Frames THEN Stale ELSE mem[f]]
      /\ UNCHANGED <<tables, spaces, kernel, HIGH_MAPPED, overlaid, WMAP, WLIB, short, orphans>>
  BY DEF Munmap
<1>5. /\ \A f \in given : \E p \in Pages : p \in gone /\ PT[s][p] = f
      /\ \A p \in gone : PT[s][p] \in given
      /\ \A p \in Pages \ gone : PT[s][p] = Unmapped \/ p \notin lo .. hi
  BY <1>2
<1> HIDE DEF gone, given
<1>6. /\ PT' \in [Spaces -> [Pages -> Entries]]
      /\ \A p \in Pages : PT'[s][p] = IF p \in gone THEN Unmapped ELSE PT[s][p]
      /\ \A t \in Spaces : t # s => PT'[t] = PT[t]
  BY <1>1, <1>4 DEF FrameShape, Entries
<1>7. /\ view' \in [Spaces -> [Pages -> Vals]]
      /\ \A p \in Pages : view'[s][p] = IF p \in gone THEN Zero ELSE view[s][p]
      /\ \A t \in Spaces : t # s => view'[t] = view[t]
  BY <1>1, <1>4 DEF FrameShape, Vals
<1>8. /\ mem' \in [Frames -> Vals]
      /\ \A f \in Frames : f \notin given => mem'[f] = mem[f]
  BY <1>1, <1>4 DEF FrameShape, Vals
<1>9. FrameShape'
  BY <1>1, <1>4, <1>6, <1>7, <1>8 DEF FrameShape
<1>10. NotMadeYet'
  <2>1. \A t \in Spaces : t >= spaces => t # s
    BY <1>1, LiveIs
  <2> QED
    BY <1>1, <1>4, <1>6, <1>7, <2>1 DEF NotMadeYet
<1>11. SharedPageReached'
  <2>1. ASSUME NEW t \in Live, unpinned' = {}
        PROVE  PT'[t][ShmPage] = Shm
    <3>1. unpinned = {} /\ ShmPage \notin gone
      BY <1>4, <2>1
    <3>2. ShmPage \in Pages /\ t \in Spaces
      BY <1>1, LiveIs, MemoryAssumption
    <3> QED
      BY <1>1, <1>6, <3>1, <3>2 DEF SharedPageReached
  <2> QED
    BY <1>4, <2>1 DEF SharedPageReached, Live
\* What every space refers to is what it referred to before, less the pages
\* that are gone.
<1>12. \A t \in Live, q \in Pages : PT'[t][q] = Unmapped \/ PT'[t][q] = PT[t][q]
  BY <1>1, <1>6, LiveIs
<1>13. ASSUME ~overlaid
       PROVE  \A t \in Live, q \in Pages :
                PT[t][q] \in Frames => /\ PT[t][q] \in given => t = s /\ q \in gone
                                       /\ PT[t][q] \notin given => PT'[t][q] = PT[t][q]
  <2> SUFFICES ASSUME NEW t \in Live, NEW q \in Pages, PT[t][q] \in Frames
               PROVE  /\ PT[t][q] \in given => t = s /\ q \in gone
                      /\ PT[t][q] \notin given => PT'[t][q] = PT[t][q]
    OBVIOUS
  <2>1. OneOwner
    BY <1>13 DEF FrameInv
  <2>2. ASSUME PT[t][q] \in given
        PROVE  t = s /\ q \in gone
    <3>1. PICK p \in Pages : p \in gone /\ PT[s][p] = PT[t][q]
      BY <1>5, <2>2
    <3>2. t = s /\ q = p
      BY <2>1, <3>1 DEF OneOwner
    <3> QED
      BY <3>1, <3>2
  <2>3. ASSUME PT[t][q] \notin given
        PROVE  PT'[t][q] = PT[t][q]
    <3>1. ~(t = s /\ q \in gone)
      BY <1>5, <2>3
    <3> QED
      BY <1>1, <1>6, <3>1, LiveIs
  <2> QED
    BY <2>2, <2>3
<1>14. ~overlaid => (BitmapExact /\ OneOwner /\ OwnedApart)'
  <2> SUFFICES ASSUME ~overlaid
               PROVE  BitmapExact' /\ OneOwner' /\ OwnedApart'
    OBVIOUS
  <2>1. BitmapExact /\ OneOwner /\ OwnedApart
    BY DEF FrameInv
  <2>2. Live' = Live /\ \A x \in Frames : x # Unmapped
    BY <1>4, FramesAreFinite DEF Live
  <2>3. \A t \in Live : HeapFrames(t)' = HeapFrames(t) \ given
    <3> SUFFICES ASSUME NEW t \in Live
                 PROVE  \A f \in Frames : (\E q \in Pages : PT'[t][q] = f)
                                            <=> f \notin given /\ \E q \in Pages : PT[t][q] = f
      BY DEF HeapFrames
    <3> SUFFICES ASSUME NEW f \in Frames
                 PROVE  (\E q \in Pages : PT'[t][q] = f)
                          <=> f \notin given /\ \E q \in Pages : PT[t][q] = f
      OBVIOUS
    <3>1. ASSUME NEW q \in Pages, PT'[t][q] = f
          PROVE  f \notin given /\ PT[t][q] = f
      <4>1. PT[t][q] = f
        BY <1>12, <2>2, <3>1
      <4>2. ~(t = s /\ q \in gone)
        BY <1>6, <2>2, <3>1
      <4> QED
        BY <1>13, <4>1, <4>2
    <3>2. ASSUME NEW q \in Pages, f \notin given, PT[t][q] = f
          PROVE  PT'[t][q] = f
      BY <1>13, <3>2
    <3> QED
      BY <3>1, <3>2
  <2>4. \A t \in Live : tables[t] \cap given = {} /\ kernel \cap given = {}
    <3>1. \A f \in given : f \in Frames => f \in HeapFrames(s)
      BY <1>5 DEF HeapFrames
    <3>2. kernel \in SUBSET Frames /\ \A t \in Live : tables[t] \in SUBSET Frames
      BY <1>1, LiveIs DEF FrameShape
    <3> QED
      BY <2>1, <3>1, <3>2 DEF OneOwner
  <2>5. Owned' = Owned \ given
    <3>1. Owned' = (UNION {HeapFrames(t)' \cup tables'[t] : t \in Live'}) \cup kernel'
      BY DEF Owned, HeapFrames
    <3>2. \A t \in Live : HeapFrames(t)' \cup tables'[t] = (HeapFrames(t) \cup tables[t]) \ given
      BY <1>4, <2>3, <2>4
    <3>3. kernel' = kernel \ given
      BY <1>1, <1>4, <2>4, LiveIs
    <3> QED
      BY <2>2, <3>1, <3>2, <3>3 DEF Owned
  <2>6. BitmapExact'
    <3>1. given \cap orphans = {} /\ (HIGH_MAPPED => given \cap Window = {})
      <4>1. \A f \in given : f \in Frames => f \in Owned
        BY <1>5 DEF Owned, HeapFrames
      <4>2. orphans \in SUBSET Frames /\ Window \in SUBSET Frames
        BY <1>1, MemoryAssumption DEF FrameShape, Window, Frames
      <4> QED
        BY <2>1, <4>1, <4>2 DEF OwnedApart
    <3> QED
      BY <1>4, <2>1, <2>5, <3>1 DEF BitmapExact
  <2>7. OwnedApart'
    BY <1>4, <2>1, <2>5 DEF OwnedApart
  <2>8. OneOwner'
    <3>1. \A t \in Live, q \in Pages : PT'[t][q] \in Frames =>
            PT[t][q] = PT'[t][q]
      BY <1>12, <2>2
    <3>2. \A t \in Live, q \in Pages : PT'[t][q] \in Frames =>
            \A u \in Live, r \in Pages : PT'[t][q] = PT'[u][r] => t = u /\ q = r
      <4> HIDE DEF Live
      <4> SUFFICES ASSUME NEW t \in Live, NEW q \in Pages, PT'[t][q] \in Frames,
                          NEW u \in Live, NEW r \in Pages, PT'[t][q] = PT'[u][r]
                   PROVE  t = u /\ q = r
        OBVIOUS
      <4>1. PT[t][q] \in Frames /\ PT[t][q] = PT[u][r]
        BY <3>1
      <4> QED
        BY <2>1, <4>1 DEF OneOwner
    <3>3. \A t, u \in Live :
            /\ HeapFrames(t)' \cap (tables'[u] \cup kernel') = {}
            /\ tables'[t] \cap kernel' = {}
            /\ t # u => tables'[t] \cap tables'[u] = {}
      BY <1>4, <2>1, <2>3 DEF OneOwner
    <3> QED
      BY <2>2, <3>2, <3>3 DEF OneOwner, HeapFrames
  <2> QED
    BY <2>6, <2>7, <2>8
<1>15. ~overlaid => ViewsExact'
  <2> SUFFICES ASSUME ~overlaid, NEW t \in Live, t \notin short, NEW q \in Pages
               PROVE  view'[t][q] = IF PT'[t][q] \in Frames THEN mem'[PT'[t][q]] ELSE Zero
    BY <1>4 DEF ViewsExact, Live
  <2>1. /\ view[t][q] = IF PT[t][q] \in Frames THEN mem[PT[t][q]] ELSE Zero
        /\ t \in Spaces /\ Unmapped \notin Frames
    BY <1>1, LiveIs, FramesAreFinite DEF FrameInv, ViewsExact
  <2>2. CASE t = s /\ q \in gone
    BY <1>6, <1>7, <2>1, <2>2
  <2>3. CASE ~(t = s /\ q \in gone)
    <3>1. PT'[t][q] = PT[t][q] /\ view'[t][q] = view[t][q]
      BY <1>6, <1>7, <2>1, <2>3
    <3>2. PT[t][q] \in Frames => PT[t][q] \notin given
      BY <1>13, <2>3
    <3> QED
      BY <1>8, <2>1, <3>1, <3>2
  <2> QED
    BY <2>2, <2>3
<1> QED
  BY <1>4, <1>9, <1>10, <1>11, <1>14, <1>15 DEF FrameInv

-----------------------------------------------------------------------------
(* New spaces. *)

LEMMA FreshIs ==
  /\ FreshTable \in [Pages -> Entries] /\ FreshView \in [Pages -> Vals]
  /\ \A p \in Pages : FreshTable[p] \notin Frames /\ FreshView[p] = Zero
  /\ FreshTable[ShmPage] = Shm
BY MemoryAssumption, FramesAreFinite DEF FreshTable, FreshView, Entries, Vals

LEMMA LowestIsIn ==
  \A n : LowestOf(FreeFrames, n) \in SUBSET FreeFrames
BY DEF LowestOf

LEMMA AsCreateKeeps ==
  ASSUME FrameInv, AsCreate
  PROVE  FrameInv'
<1> DEFINE got == LowestOf(FreeFrames, AS_TABLES)
<1>1. FrameShape /\ NotMadeYet /\ SharedPageReached
  BY DEF FrameInv
<1>2. got \in SUBSET FreeFrames /\ got \in SUBSET Frames
  BY LowestIsIn, FramesAreFinite
<1>3. /\ spaces <= SPACES /\ FRAME_BITMAP' = FRAME_BITMAP \cup got /\ mem' = Zeroed(mem, got)
      /\ \/ /\ tables' = [tables EXCEPT ![spaces] = got]
            /\ PT' = [PT EXCEPT ![spaces] = FreshTable]
            /\ spaces' = spaces + 1 /\ orphans' = orphans
         \/ /\ orphans' = orphans \cup got
            /\ tables' = tables /\ PT' = PT /\ spaces' = spaces
      /\ UNCHANGED <<kernel, HIGH_MAPPED, overlaid, WMAP, WLIB, view, short, unpinned>>
  BY DEF AsCreate
<1> HIDE DEF got
<1>4. /\ spaces \in Spaces /\ spaces \in Nat /\ spaces >= 1
      /\ PT[spaces] = FreshTable /\ view[spaces] = FreshView
  <2>1. spaces \in Nat /\ spaces >= 1 /\ SPACES \in Nat
    BY <1>1, MemoryAssumption DEF FrameShape
  <2>2. spaces \in Spaces
    BY <1>3, <2>1 DEF Spaces
  <2> QED
    BY <1>1, <2>1, <2>2 DEF NotMadeYet
<1>5. PT' = PT
  <2>1. PT = [PT EXCEPT ![spaces] = FreshTable]
    BY <1>1, <1>4 DEF FrameShape
  <2> QED
    BY <1>3, <2>1
<1>6. mem' \in [Frames -> Vals]
  BY <1>1, <1>3 DEF FrameShape, Zeroed, Vals
<1>7. /\ tables' \in [Spaces -> SUBSET Frames] /\ spaces' \in 1 .. SPACES + 1
      /\ \A s \in Spaces : s # spaces => tables'[s] = tables[s]
      /\ spaces' = spaces + 1 => tables'[spaces] = got
      /\ spaces' = spaces => tables' = tables
  <2>1. spaces + 1 \in 1 .. SPACES + 1
    BY <1>3, <1>4, MemoryAssumption
  <2> QED
    BY <1>1, <1>2, <1>3, <1>4, <2>1 DEF FrameShape
<1>8. FrameShape'
  <2>1. orphans' \in SUBSET Frames /\ FRAME_BITMAP' \in SUBSET Frames
    BY <1>1, <1>2, <1>3 DEF FrameShape
  <2> QED
    BY <1>1, <1>3, <1>5, <1>6, <1>7, <2>1 DEF FrameShape
<1>9. NotMadeYet'
  <2> SUFFICES ASSUME NEW s \in Spaces, s >= spaces'
               PROVE  PT'[s] = FreshTable /\ view'[s] = FreshView /\ tables'[s] = {}
    BY DEF NotMadeYet
  <2>1. s >= spaces /\ (spaces' = spaces + 1 => s # spaces)
    BY <1>1, <1>3, <1>4, LiveIs
  <2> QED
    BY <1>1, <1>3, <1>4, <1>5, <1>7, <2>1 DEF NotMadeYet
<1>10. /\ \A s \in Live : s \in Live' /\ s # spaces /\ s \in Spaces
       /\ \A s \in Live' : s \in Live \/ s = spaces
  BY <1>1, <1>3, <1>4, LiveIs DEF Live
<1>11. SharedPageReached'
  <2> SUFFICES ASSUME NEW s \in Live', unpinned = {}
               PROVE  PT[s][ShmPage] = Shm
    BY <1>3, <1>5 DEF SharedPageReached
  <2> QED
    BY <1>1, <1>4, <1>10, FreshIs DEF SharedPageReached
<1>12. ASSUME ~overlaid
       PROVE  BitmapExact' /\ OneOwner' /\ OwnedApart'
  <2>1. \A s \in Live', p \in Pages : PT'[s][p] \in Frames => s \in Live /\ PT'[s][p] = PT[s][p]
    BY <1>4, <1>5, <1>10, FreshIs
  <2>2. \A s \in Live : tables'[s] = tables[s]
    BY <1>7, <1>10
  <2>3. CASE spaces' = spaces + 1 /\ orphans' = orphans
    <3>1. Handed({}, got, {}, {})
      BY <1>3, <1>5, <1>7, <2>1, <2>2, <2>3 DEF Handed
    <3> QED
      BY <1>1, <1>2, <1>12, <3>1, HandedKeeps DEF FrameInv
  <2>4. CASE spaces' = spaces /\ orphans' = orphans \cup got
    <3>1. Handed({}, {}, {}, got)
      BY <1>3, <1>5, <1>7, <2>1, <2>2, <2>4 DEF Handed
    <3> QED
      BY <1>1, <1>2, <1>12, <3>1, HandedKeeps DEF FrameInv
  <2> QED
    BY <1>3, <2>3, <2>4
<1>13. ASSUME ~overlaid
       PROVE  ViewsExact'
  <2> SUFFICES ASSUME NEW s \in Live', s \notin short, NEW p \in Pages
               PROVE  view[s][p] = IF PT[s][p] \in Frames THEN mem'[PT[s][p]] ELSE Zero
    BY <1>3, <1>5 DEF ViewsExact
  <2>1. CASE s \in Live
    <3>1. view[s][p] = IF PT[s][p] \in Frames THEN mem[PT[s][p]] ELSE Zero
      BY <1>13, <2>1 DEF FrameInv, ViewsExact
    <3>2. PT[s][p] \in Frames => PT[s][p] \notin got
      BY <1>1, <1>2, <1>13, <2>1, FreeHasNoOwner, OwnedIs DEF FrameInv
    <3> QED
      BY <1>1, <1>3, <3>1, <3>2 DEF FrameShape, Zeroed
  <2>2. CASE s = spaces
    BY <1>4, <2>2, FreshIs
  <2> QED
    BY <1>10, <2>1, <2>2
<1> QED
  BY <1>3, <1>8, <1>9, <1>11, <1>12, <1>13 DEF FrameInv

\* What fork copies: the pages of W, each into the frame F gives it.
CopiedBy(s, c, P, W, F) ==
  /\ W \in SUBSET {p \in Pages : PT[s][p] \notin {Unmapped, Shm}}
  /\ F \in [W -> P] /\ \A p, q \in W : F[p] = F[q] => p = q
  /\ PT' = [PT EXCEPT ![c] = [p \in Pages |->
              IF p \in W THEN F[p] ELSE IF PT[s][p] = Shm THEN Shm ELSE FreshTable[p]]]
  /\ mem' \in [Frames -> Vals]
  /\ \A p \in W : mem'[F[p]] = Held(PT[s][p])
  /\ \A f \in Frames : (\A p \in W : F[p] # f) => mem'[f] = mem[f]
  /\ FRAME_BITMAP' = FRAME_BITMAP \cup {F[p] : p \in W} \cup tables'[c]
  /\ \A t \in short : t \in short'
  /\ c \notin short' => s \notin short /\ \A p \in Pages \ W : PT[s][p] \in {Unmapped, Shm}

LEMMA CopyIs ==
  ASSUME FrameShape, NEW s \in Spaces, NEW c \in Spaces, NEW P \in SUBSET Frames,
         CopyHeap(s, c, P)
  PROVE  \E W \in SUBSET Pages : \E F \in [W -> P] : CopiedBy(s, c, P, W, F)
<1> DEFINE copied == {p \in Pages : PT[s][p] \notin {Unmapped, Shm}}
           rank(p) == Cardinality({q \in copied : q < p})
           served == {p \in copied : rank(p) < Cardinality(P)}
           frame(p) == Nth(P, rank(p))
           F == [p \in served |-> frame(p)]
<1>1. /\ PT' = [PT EXCEPT ![c] = [p \in Pages |->
                  IF p \in served THEN frame(p)
                  ELSE IF PT[s][p] = Shm THEN Shm ELSE FreshTable[p]]]
      /\ mem' = [f \in DOMAIN mem |->
                  IF \E p \in served : f = frame(p)
                  THEN Held(PT[s][CHOOSE p \in served : f = frame(p)])
                  ELSE mem[f]]
      /\ FRAME_BITMAP' = FRAME_BITMAP \cup {frame(p) : p \in served} \cup tables'[c]
      /\ short' = IF served = copied /\ s \notin short THEN short ELSE short \cup {c}
  BY DEF CopyHeap
<1>2. copied \in SUBSET Pages /\ served \in SUBSET copied
  OBVIOUS
<1>3. \A p \in copied : PT[s][p] \in Frames \cup {Box}
  BY DEF FrameShape, Entries
<1>4. \A p \in copied : p \in Pages /\ PT[s][p] \notin {Unmapped, Shm}
  OBVIOUS
<1>5. \A p \in Pages \ copied : PT[s][p] \in {Unmapped, Shm}
  OBVIOUS
<1>6. \A p \in copied : rank(p) \in Nat
  <2>1. \A p : {q \in copied : q < p} \in SUBSET Pages
    OBVIOUS
  <2> HIDE DEF copied
  <2> QED
    BY <2>1, PagesAreFinite
<1>7. \A p, q \in copied : rank(p) = rank(q) => p = q
  <2> HIDE DEF copied
  <2> QED
    BY <1>2, RanksDiffer
<1>8. \A p \in served : p \in copied /\ rank(p) < Cardinality(P)
  OBVIOUS
<1> HIDE DEF copied, served, rank
<1>9. \A p \in served : frame(p) \in P /\ Cardinality({y \in P : y < frame(p)}) = rank(p)
  BY <1>6, <1>8, NthIn
<1>10. \A p, q \in served : frame(p) = frame(q) => p = q
  <2> HIDE DEF frame
  <2> QED
    BY <1>7, <1>8, <1>9
<1>11. \A p \in served : F[p] = frame(p)
  OBVIOUS
<1> HIDE DEF frame
<1>12. F \in [served -> P] /\ \A p, q \in served : F[p] = F[q] => p = q
  BY <1>9, <1>10
<1> HIDE DEF F
<1>13. {frame(p) : p \in served} = {F[p] : p \in served}
  BY <1>11
<1>14. PT' = [PT EXCEPT ![c] = [p \in Pages |->
                IF p \in served THEN F[p]
                ELSE IF PT[s][p] = Shm THEN Shm ELSE FreshTable[p]]]
  BY <1>1, <1>11
<1>15. \A p \in served : (CHOOSE q \in served : frame(p) = frame(q)) = p
  BY <1>10
<1>16. \A p \in copied : Held(PT[s][p]) \in Vals
  BY <1>3 DEF Held, Vals, FrameShape
<1>17. mem' \in [Frames -> Vals]
  <2> DEFINE h(f) == IF \E p \in served : f = frame(p)
                     THEN Held(PT[s][CHOOSE p \in served : f = frame(p)]) ELSE mem[f]
  <2>1. \A f \in Frames : h(f) \in Vals
    BY <1>8, <1>15, <1>16 DEF FrameShape
  <2>2. mem' = [f \in Frames |-> h(f)]
    BY <1>1 DEF FrameShape
  <2> HIDE DEF h
  <2> QED
    BY <2>1, <2>2
<1>18. \A p \in served : mem'[F[p]] = Held(PT[s][p])
  <2> SUFFICES ASSUME NEW p \in served
               PROVE  mem'[frame(p)] = Held(PT[s][p])
    BY <1>11
  <2>1. frame(p) \in DOMAIN mem
    BY <1>9 DEF FrameShape
  <2> QED
    BY <1>1, <1>15, <2>1
<1>19. \A f \in Frames : (\A p \in served : F[p] # f) => mem'[f] = mem[f]
  BY <1>1, <1>11 DEF FrameShape
<1>20. served \in SUBSET {p \in Pages : PT[s][p] \notin {Unmapped, Shm}} /\ served \in SUBSET Pages
  BY <1>2 DEF copied
<1>21. /\ \A t \in short : t \in short'
       /\ c \notin short' => s \notin short /\ \A p \in Pages \ served : PT[s][p] \in {Unmapped, Shm}
  BY <1>1, <1>5
<1>22. CopiedBy(s, c, P, served, F)
  BY <1>1, <1>12, <1>13, <1>14, <1>17, <1>18, <1>19, <1>20, <1>21 DEF CopiedBy
<1> QED
  BY <1>12, <1>20, <1>22

LEMMA ForkKeeps ==
  ASSUME FrameInv, NEW s \in Live, Fork(s)
  PROVE  FrameInv'
<1> DEFINE T == LowestOf(FreeFrames, AS_TABLES)
<1>1. FrameShape /\ NotMadeYet /\ SharedPageReached /\ s \in Spaces
  BY LiveIs DEF FrameInv
<1>2. T \in SUBSET FreeFrames /\ T \in SUBSET Frames
  BY LowestIsIn, FramesAreFinite
<1>3. /\ spaces <= SPACES /\ tables' = [tables EXCEPT ![spaces] = T] /\ spaces' = spaces + 1
      /\ CopyHeap(s, spaces, FreeFrames \ tables'[spaces])
      /\ view' = [view EXCEPT ![spaces] = view[s]]
      /\ UNCHANGED <<kernel, HIGH_MAPPED, overlaid, WMAP, WLIB, unpinned, orphans>>
  BY DEF Fork
<1> HIDE DEF T
<1>4. spaces \in Spaces /\ spaces \in Nat /\ spaces >= 1 /\ spaces # s
  <2>1. spaces \in Nat /\ spaces >= 1 /\ SPACES \in Nat
    BY <1>1, MemoryAssumption DEF FrameShape
  <2> QED
    BY <1>1, <1>3, <2>1, LiveIs DEF Spaces
<1>5. /\ tables' \in [Spaces -> SUBSET Frames] /\ tables'[spaces] = T
      /\ \A t \in Spaces : t # spaces => tables'[t] = tables[t]
  BY <1>1, <1>2, <1>3, <1>4 DEF FrameShape
<1> DEFINE P == FreeFrames \ T
<1>6. P \in SUBSET FreeFrames /\ P \in SUBSET Frames /\ P \cap T = {}
  BY <1>2, FramesAreFinite
<1>7. PICK W \in SUBSET Pages : \E F \in [W -> P] : CopiedBy(s, spaces, P, W, F)
  <2>1. CopyHeap(s, spaces, P)
    BY <1>3, <1>5
  <2> HIDE DEF P
  <2> QED
    BY <1>1, <1>4, <1>6, <2>1, CopyIs
<1>8. PICK F \in [W -> P] : CopiedBy(s, spaces, P, W, F)
  BY <1>7
<1> HIDE DEF P
<1> DEFINE G == {F[p] : p \in W}
<1>9. /\ G \in SUBSET P /\ \A p \in W : F[p] \in G
      /\ \A g \in G : \E p \in W : F[p] = g
      /\ \A p \in W : F[p] \in Frames /\ F[p] \in FreeFrames
  BY <1>6
<1> HIDE DEF G
<1>10. /\ \A p, q \in W : F[p] = F[q] => p = q
       /\ PT' = [PT EXCEPT ![spaces] = [p \in Pages |->
                  IF p \in W THEN F[p] ELSE IF PT[s][p] = Shm THEN Shm ELSE FreshTable[p]]]
       /\ mem' \in [Frames -> Vals]
       /\ \A p \in W : mem'[F[p]] = Held(PT[s][p])
       /\ \A f \in Frames : (\A p \in W : F[p] # f) => mem'[f] = mem[f]
       /\ FRAME_BITMAP' = FRAME_BITMAP \cup G \cup T
       /\ \A t \in short : t \in short'
       /\ spaces \notin short' =>
            s \notin short /\ \A p \in Pages \ W : PT[s][p] \in {Unmapped, Shm}
       /\ \A p \in W : PT[s][p] \notin {Unmapped, Shm}
  BY <1>5, <1>8 DEF CopiedBy, G
<1>11. /\ PT' \in [Spaces -> [Pages -> Entries]]
       /\ \A p \in Pages : PT'[spaces][p] =
            IF p \in W THEN F[p] ELSE IF PT[s][p] = Shm THEN Shm ELSE FreshTable[p]
       /\ \A t \in Spaces : t # spaces => PT'[t] = PT[t]
  <2> DEFINE E == [p \in Pages |->
                    IF p \in W THEN F[p] ELSE IF PT[s][p] = Shm THEN Shm ELSE FreshTable[p]]
  <2>1. E \in [Pages -> Entries]
    BY <1>9, FreshIs DEF Entries
  <2>2. \A p \in Pages : E[p] =
          IF p \in W THEN F[p] ELSE IF PT[s][p] = Shm THEN Shm ELSE FreshTable[p]
    OBVIOUS
  <2>3. PT' = [PT EXCEPT ![spaces] = E]
    BY <1>10
  <2> HIDE DEF E
  <2> QED
    BY <1>1, <1>4, <2>1, <2>2, <2>3 DEF FrameShape
<1>12. \A p \in Pages : p \notin W => PT'[spaces][p] \notin Frames
  BY <1>11, FreshIs, FramesAreFinite
<1>13. /\ view' \in [Spaces -> [Pages -> Vals]] /\ view'[spaces] = view[s]
       /\ \A t \in Spaces : t # spaces => view'[t] = view[t]
  BY <1>1, <1>3, <1>4 DEF FrameShape
<1>14. FrameShape'
  <2>1. spaces' \in 1 .. SPACES + 1
    BY <1>3, <1>4, MemoryAssumption
  <2>2. FRAME_BITMAP' \in SUBSET Frames
    BY <1>1, <1>2, <1>6, <1>9, <1>10 DEF FrameShape
  <2> QED
    BY <1>1, <1>3, <1>5, <1>10, <1>11, <1>13, <2>1, <2>2 DEF FrameShape
<1>15. /\ \A t \in Live : t \in Live' /\ t # spaces /\ t \in Spaces
       /\ \A t \in Live' : t \in Live \/ t = spaces
       /\ spaces \in Live'
  BY <1>1, <1>3, <1>4, LiveIs DEF Live
<1>16. NotMadeYet'
  <2>1. \A t \in Spaces : t >= spaces' => t >= spaces /\ t # spaces
    BY <1>1, <1>3, <1>4, LiveIs
  <2> QED
    BY <1>1, <1>5, <1>11, <1>13, <2>1 DEF NotMadeYet
<1>17. SharedPageReached'
  <2> SUFFICES ASSUME NEW t \in Live', unpinned = {}
               PROVE  PT'[t][ShmPage] = Shm
    BY <1>3 DEF SharedPageReached
  <2>1. PT[s][ShmPage] = Shm /\ ShmPage \in Pages
    BY <1>1, MemoryAssumption DEF SharedPageReached
  <2>2. ShmPage \notin W
    BY <1>10, <2>1
  <2>3. CASE t \in Live
    BY <1>1, <1>11, <1>15, <2>3 DEF SharedPageReached
  <2>4. CASE t = spaces
    BY <1>11, <2>1, <2>2, <2>4
  <2> QED
    BY <1>15, <2>3, <2>4
<1>18. ASSUME ~overlaid
       PROVE  BitmapExact' /\ OneOwner' /\ OwnedApart'
  <2>1. G \in SUBSET FreeFrames /\ T \cap G = {}
    BY <1>6, <1>9
  <2>2. \A t \in Live, p \in Pages : PT'[t][p] = PT[t][p] /\ PT[t][p] \notin G
    <3>1. \A t \in Live, p \in Pages : PT[t][p] \notin FreeFrames
      BY <1>1, <1>18, FreeHasNoOwner, OwnedIs, FramesAreFinite DEF FrameInv
    <3> QED
      BY <1>11, <1>15, <2>1, <3>1
  <2>3. \A t \in Live', p \in Pages : PT'[t][p] \in Frames =>
          PT'[t][p] \in G \/ (t \in Live /\ PT'[t][p] = PT[t][p])
    BY <1>9, <1>11, <1>12, <1>15, <2>2
  <2>4. \A g \in G : \E t \in Live', p \in Pages : PT'[t][p] = g
    <3> HIDE DEF Live
    <3> QED
      BY <1>9, <1>11, <1>15
  <2>5. \A t \in Live', p \in Pages : PT'[t][p] \in G => t = spaces /\ p \in W /\ PT'[t][p] = F[p]
    <3>1. \A g \in G : g \in Frames
      BY <2>1, FramesAreFinite
    <3> QED
      BY <1>11, <1>12, <1>15, <2>2, <3>1
  <2>6. \A t, u \in Live', p, q \in Pages :
          PT'[t][p] \in G /\ PT'[t][p] = PT'[u][q] => t = u /\ p = q
    <3> HIDE DEF Live
    <3> SUFFICES ASSUME NEW t \in Live', NEW u \in Live', NEW p \in Pages, NEW q \in Pages,
                        PT'[t][p] \in G, PT'[t][p] = PT'[u][q]
                 PROVE  t = u /\ p = q
      OBVIOUS
    <3>1. t = spaces /\ p \in W /\ PT'[t][p] = F[p]
      BY <2>5
    <3>2. u = spaces /\ q \in W /\ PT'[u][q] = F[q]
      BY <2>5
    <3> QED
      BY <1>10, <3>1, <3>2
  <2>7. \A t \in Live : tables'[t] = tables[t]
    BY <1>5, <1>15
  <2>8. Handed(G, T, {}, {})
    BY <1>3, <1>5, <1>10, <2>1, <2>2, <2>3, <2>4, <2>6, <2>7 DEF Handed
  <2> QED
    BY <1>1, <1>2, <1>18, <2>1, <2>8, HandedKeeps DEF FrameInv
<1>19. ASSUME ~overlaid
       PROVE  ViewsExact'
  <2> SUFFICES ASSUME NEW t \in Live', t \notin short', NEW p \in Pages
               PROVE  view'[t][p] = IF PT'[t][p] \in Frames THEN mem'[PT'[t][p]] ELSE Zero
    BY DEF ViewsExact
  <2>1. \A u \in Live : u \notin short =>
          view[u][p] = IF PT[u][p] \in Frames THEN mem[PT[u][p]] ELSE Zero
    BY <1>19 DEF FrameInv, ViewsExact
  <2>2. CASE t \in Live
    <3>1. t \notin short /\ PT'[t] = PT[t] /\ view'[t] = view[t]
      BY <1>10, <1>11, <1>13, <1>15, <2>2
    <3>2. PT[t][p] \in Frames => \A q \in W : F[q] # PT[t][p]
      BY <1>1, <1>9, <1>19, <2>2, FreeHasNoOwner, OwnedIs DEF FrameInv
    <3> QED
      BY <1>10, <2>1, <2>2, <3>1, <3>2
  <2>3. CASE t = spaces
    <3>1. s \notin short /\ \A q \in Pages \ W : PT[s][q] \in {Unmapped, Shm}
      BY <1>10, <2>3
    <3>2. view'[t][p] = IF PT[s][p] \in Frames THEN mem[PT[s][p]] ELSE Zero
      BY <1>13, <2>1, <2>3, <3>1
    <3>3. CASE p \in W
      <4>1. PT'[t][p] = F[p] /\ F[p] \in Frames /\ mem'[F[p]] = Held(PT[s][p])
        BY <1>9, <1>10, <1>11, <2>3, <3>3
      <4>2. PT[s][p] \in Frames \/ PT[s][p] = Box
        BY <1>1, <1>10, <3>3 DEF FrameShape, Entries
      <4> QED
        BY <3>2, <4>1, <4>2, FramesAreFinite DEF Held
    <3>4. CASE p \notin W
      BY <1>12, <2>3, <3>1, <3>2, <3>4, FramesAreFinite
    <3> QED
      BY <3>3, <3>4
  <2> QED
    BY <1>15, <2>2, <2>3
<1> QED
  BY <1>3, <1>14, <1>16, <1>17, <1>18, <1>19 DEF FrameInv

-----------------------------------------------------------------------------
(* The frames are accounted for from boot on, through every step. *)

LEMMA FrameInitInv ==
  ASSUME FrameInit
  PROVE  FrameInv
<1>1. PICK n \in BootFrames : FRAME_BITMAP = 0 .. n - 1 /\ kernel = 0 .. n - 1
  BY DEF FrameInit
<1>2. /\ mem = [f \in Frames |-> IF f \in FRAME_BITMAP THEN Zero ELSE Stale]
      /\ PT = [s \in Spaces |-> FreshTable] /\ tables = [s \in Spaces |-> {}] /\ spaces = 1
      /\ HIGH_MAPPED = FALSE /\ overlaid = FALSE /\ WLIB = <<>>
      /\ view = [s \in Spaces |-> FreshView] /\ orphans = {}
  BY DEF FrameInit
<1>3. n \in Nat /\ FRAME_PAGES \in Nat /\ n <= FRAME_PAGES /\ SPACES \in Nat
  BY MemoryAssumption
<1>4. kernel = FRAME_BITMAP /\ FRAME_BITMAP \in SUBSET Frames
  BY <1>1, <1>3 DEF Frames
<1>5. FrameShape
  <2>1. mem \in [Frames -> Vals]
    BY <1>2 DEF Vals
  <2>2. PT \in [Spaces -> [Pages -> Entries]] /\ view \in [Spaces -> [Pages -> Vals]]
    BY <1>2, FreshIs
  <2>3. tables \in [Spaces -> SUBSET Frames] /\ spaces \in 1 .. SPACES + 1
    BY <1>2, <1>3
  <2>4. WLIB \in Seq(Stamps) /\ orphans \in SUBSET Frames
    BY <1>2
  <2>5. HIGH_MAPPED \in BOOLEAN /\ overlaid \in BOOLEAN
    BY <1>2, Zenon
  <2> QED
    BY <1>4, <2>1, <2>2, <2>3, <2>4, <2>5 DEF FrameShape
<1>6. \A s \in Live : s \in Spaces
  BY <1>5, LiveIs
<1>7. NotMadeYet /\ SharedPageReached
  BY <1>2, <1>6, FreshIs DEF NotMadeYet, SharedPageReached
<1>8. \A s \in Live, p \in Pages : PT[s][p] \notin Frames /\ view[s][p] = Zero
  BY <1>2, <1>6, FreshIs
<1>9. \A s \in Live : HeapFrames(s) = {} /\ tables[s] = {}
  BY <1>2, <1>6, <1>8 DEF HeapFrames
<1>10. Owned = kernel
  BY <1>9 DEF Owned
<1>11. BitmapExact /\ OneOwner /\ OwnedApart
  BY <1>2, <1>4, <1>8, <1>9, <1>10 DEF BitmapExact, OneOwner, OwnedApart
<1>12. ViewsExact
  BY <1>8 DEF ViewsExact
<1> QED
  BY <1>5, <1>7, <1>11, <1>12 DEF FrameInv

LEMMA FrameInvStep ==
  ASSUME FrameInv, [FrameNext]_frameVars
  PROVE  FrameInv'
<1>1. CASE \E n \in 1 .. 2 : KernelAlloc(n)
  BY <1>1, KernelAllocKeeps
<1>2. CASE MapHighUser
  BY <1>2, MapHighUserKeeps
<1>3. CASE AsCreate
  BY <1>3, AsCreateKeeps
<1>4. CASE \E s \in Live : Fork(s)
  BY <1>4, ForkKeeps
<1>5. CASE \E s \in Live, lo, hi \in Pages : lo <= hi /\ Munmap(s, lo, hi)
  BY <1>5, MunmapKeeps
<1>6. CASE \E s \in Live, p \in Pages : PageFault(s, p)
  BY <1>6, PageFaultKeeps
<1>7. CASE \E s \in Live, p \in Pages, v \in Stamps : Store(s, p, v)
  BY <1>7, StoreKeeps
<1>8. CASE \/ \E v \in Stamps : WmapLoad(<<v>>)
           \/ \E va \in Pages, len \in 1 .. 2 : WmapRes(va, len)
  BY <1>8, WmapKeeps
<1>9. CASE UNCHANGED frameVars
  <2>1. UNCHANGED <<FRAME_BITMAP, mem, PT, tables, spaces, kernel, HIGH_MAPPED,
                    overlaid, WLIB, view, short, unpinned, orphans>>
    BY <1>9 DEF frameVars
  <2>2. FrameShape' = FrameShape /\ NotMadeYet' = NotMadeYet
    BY <2>1 DEF FrameShape, NotMadeYet
  <2>3. Live' = Live /\ Owned' = Owned
    BY <2>1 DEF Owned, HeapFrames, Live
  <2>4. BitmapExact /\ OneOwner /\ OwnedApart => (BitmapExact /\ OneOwner /\ OwnedApart)'
    BY <2>1, <2>3 DEF BitmapExact, OneOwner, OwnedApart, HeapFrames
  <2>5. (ViewsExact => ViewsExact') /\ (SharedPageReached => SharedPageReached')
    BY <2>1, <2>3 DEF ViewsExact, SharedPageReached
  <2> QED
    BY <2>1, <2>2, <2>4, <2>5 DEF FrameInv
<1> QED
  BY <1>1, <1>2, <1>3, <1>4, <1>5, <1>6, <1>7, <1>8, <1>9 DEF FrameNext

LEMMA FrameInvShows ==
  ASSUME FrameInv
  PROVE  FramesAccounted /\ SpacesIsolated /\ SharedPageReached
<1>1. FrameShape /\ SharedPageReached
  BY DEF FrameInv
<1>2. FramesAccounted
  <2>1. CASE overlaid
    BY <2>1 DEF FramesAccounted
  <2>2. CASE ~overlaid
    <3> HIDE DEF Live
    <3>1. BitmapExact /\ OneOwner
      BY <2>2 DEF FrameInv
    <3> QED
      BY <3>1 DEF FramesAccounted, BitmapExact, OneOwner
  <2> QED
    BY <2>1, <2>2
<1>3. SpacesIsolated
  <2>1. overlaid \/ ViewsExact
    BY DEF FrameInv
  <2>2. ViewsExact => \A s \in Live \ short, p \in Pages :
          /\ PT[s][p] \in Frames => mem[PT[s][p]] = view[s][p]
          /\ PT[s][p] = Unmapped => view[s][p] = Zero
    BY <1>1, FramesAreFinite DEF ViewsExact
  <2> QED
    BY <2>1, <2>2 DEF SpacesIsolated
<1> QED
  BY <1>1, <1>2, <1>3

-----------------------------------------------------------------------------
(* The heap pointer and what mmap grants. *)

HeapInv ==
  /\ HEAP_BRK \in 0 .. HEAP_LEN /\ wrapped \in BOOLEAN
  /\ wrapped \/ \A r \in regions : /\ r.base \in Nat /\ r.end \in Nat /\ r.asked \in Nat
                                   /\ r.base <= r.end /\ r.end <= HEAP_BRK
                                   /\ r.end - r.base >= r.asked
  /\ MmapRegionsDisjoint

\* Rounding to pages never makes a length shorter while it stays in the word.
LEMMA PageRoundIsEnough ==
  ASSUME NEW x \in Nat, x + PAGE - 1 < WORD
  PROVE  PageRound(x) \in Nat /\ PageRound(x) >= x
<1> DEFINE s == x + PAGE - 1
<1>1. s \in Nat /\ s < WORD /\ WORD \in Nat /\ PAGE \in Nat /\ PAGE >= 1
  BY MemoryAssumption
<1>2. s % WORD = s
  BY <1>1
<1>3. s \div PAGE \in Nat /\ PAGE * (s \div PAGE) <= s /\ s < PAGE * (s \div PAGE) + PAGE
  BY <1>1
<1>4. PageRound(x) = (s \div PAGE) * PAGE
  BY <1>2 DEF PageRound
<1> DEFINE q == s \div PAGE
<1>5. q \in Nat /\ PAGE * q = q * PAGE /\ PAGE * q \in Nat
  BY <1>1, <1>3
<1> HIDE DEF q
<1>6. q * PAGE \in Nat /\ x + PAGE - 1 < q * PAGE + PAGE
  BY <1>3, <1>5 DEF q
<1>7. q * PAGE >= x
  BY <1>1, <1>6
<1> QED
  BY <1>4, <1>5, <1>7 DEF q

LEMMA HeapInvStep ==
  ASSUME HeapInv, [HeapNext]_heapVars
  PROVE  HeapInv'
<1>1. CASE \E ptr \in 1 .. HEAP_LEN : Brk(ptr)
  <2>1. PICK ptr \in 1 .. HEAP_LEN : ptr > HEAP_BRK /\ HEAP_BRK' = ptr
                                     /\ UNCHANGED <<regions, wrapped>>
    BY <1>1 DEF Brk
  <2>2. HEAP_BRK' \in 0 .. HEAP_LEN /\ HEAP_BRK' > HEAP_BRK /\ HEAP_BRK \in Nat /\ HEAP_BRK' \in Nat
    BY <2>1, MemoryAssumption DEF HeapInv
  <2>3. MmapRegionsDisjoint'
    BY <2>1 DEF HeapInv, MmapRegionsDisjoint
  <2> QED
    BY <2>1, <2>2, <2>3 DEF HeapInv
<1>2. CASE \E len \in Lens : Mmap(len)
  <2>1. PICK len \in Lens : Mmap(len)
    BY <1>2
  <2> DEFINE need == PageRound(len)
             end == (HEAP_BRK + need) % WORD
             new == [base |-> HEAP_BRK, end |-> end, asked |-> len]
  <2>2. /\ end <= HEAP_LEN /\ HEAP_BRK' = end /\ regions' = regions \cup {new}
        /\ wrapped' = (wrapped \/ len + PAGE - 1 >= WORD \/ HEAP_BRK + need >= WORD)
    BY <2>1 DEF Mmap
  <2>3. /\ len \in Nat /\ WORD \in Nat /\ WORD >= 1 /\ PAGE \in Nat /\ PAGE >= 1
        /\ HEAP_LEN \in Nat /\ HEAP_BRK \in Nat
    BY MemoryAssumption DEF HeapInv
  <2>4. need \in Int
    <3>1. ((len + PAGE - 1) % WORD) \in Int
      BY <2>3
    <3>2. ((len + PAGE - 1) % WORD) \div PAGE \in Int
      BY <2>3, <3>1
    <3> QED
      BY <2>3, <3>2 DEF PageRound
  <2> HIDE DEF need
  <2>5. end \in Nat
    BY <2>3, <2>4
  <2>6. new.base = HEAP_BRK /\ new.end = end /\ new.asked = len
    OBVIOUS
  <2>7. ASSUME ~wrapped'
        PROVE  /\ ~wrapped /\ end >= HEAP_BRK /\ end - HEAP_BRK >= len
    <3>1. ~wrapped /\ len + PAGE - 1 < WORD /\ HEAP_BRK + need < WORD
      <4>1. ~wrapped /\ ~(len + PAGE - 1 >= WORD) /\ ~(HEAP_BRK + need >= WORD)
        BY <2>2, <2>7, Zenon
      <4> QED
        BY <2>3, <2>4, <4>1
    <3>2. need \in Nat /\ need >= len
      BY <2>3, <3>1, PageRoundIsEnough DEF need
    <3>3. end = HEAP_BRK + need
      BY <2>3, <3>1, <3>2
    <3> HIDE DEF end
    <3> QED
      BY <2>3, <3>1, <3>2, <3>3
  <2> HIDE DEF end, new
  <2>8. HEAP_BRK' \in 0 .. HEAP_LEN /\ wrapped' \in BOOLEAN
    BY <2>2, <2>3, <2>5
  <2>9. CASE wrapped'
    BY <2>8, <2>9 DEF HeapInv, MmapRegionsDisjoint
  <2>10. CASE ~wrapped'
    <3>1. /\ ~wrapped /\ end >= HEAP_BRK /\ end - HEAP_BRK >= len
      BY <2>7, <2>10
    <3>2. \A r \in regions : /\ r.base \in Nat /\ r.end \in Nat /\ r.asked \in Nat
                             /\ r.base <= r.end /\ r.end <= HEAP_BRK
                             /\ r.end - r.base >= r.asked
      BY <3>1 DEF HeapInv
    <3>3. \A r \in regions' : /\ r.base \in Nat /\ r.end \in Nat /\ r.asked \in Nat
                              /\ r.base <= r.end /\ r.end <= HEAP_BRK'
                              /\ r.end - r.base >= r.asked
      <4>1. \A r \in regions : r.end <= end
        BY <2>3, <2>5, <3>1, <3>2
      <4> QED
        BY <2>2, <2>3, <2>5, <2>6, <3>1, <3>2, <4>1
    <3>4. \A r \in regions : r.end <= new.base
      BY <2>6, <3>2
    <3>5. \A r, q \in regions : r = q \/ r.end <= q.base \/ q.end <= r.base
      BY <3>1 DEF HeapInv, MmapRegionsDisjoint
    <3>6. \A r, q \in regions' : r = q \/ r.end <= q.base \/ q.end <= r.base
      BY <2>2, <3>4, <3>5
    <3>7. MmapRegionsDisjoint'
      BY <3>3, <3>6 DEF MmapRegionsDisjoint
    <3> QED
      BY <2>8, <3>3, <3>7 DEF HeapInv
  <2> QED
    BY <2>9, <2>10
<1>3. CASE UNCHANGED heapVars
  BY <1>3 DEF heapVars, HeapInv, MmapRegionsDisjoint
<1> QED
  BY <1>1, <1>2, <1>3 DEF HeapNext

LEMMA HeapInitInv ==
  ASSUME HeapInit
  PROVE  HeapInv
<1>1. HEAP_BRK \in 0 .. HEAP_LEN /\ regions = {}
  BY MemoryAssumption DEF HeapInit
<1>2. wrapped \in BOOLEAN
  BY Zenon DEF HeapInit
<1> QED
  BY <1>1, <1>2 DEF HeapInv, MmapRegionsDisjoint

LEMMA MemInvShowsTypes ==
  ASSUME FrameInv, HeapInv
  PROVE  MemTypeOK
BY DEF FrameInv, FrameShape, HeapInv, MemTypeOK, Entries

-----------------------------------------------------------------------------
(* The page cache. *)

SlotRecords == [blk : Nat, valid : BOOLEAN, dirty : BOOLEAN]
CacheVals == CachePages \cup {ZeroPage}

\* What is in a dirty slot was written to its block.
DirtyIsOwn ==
  \A s \in SlotIds : slots[s].dirty => slots[s].blk \in Blocks /\ page[s] \in wrote[slots[s].blk]

PcInv == PcTypeOK /\ DiskHasOwnPages /\ DirtyIsOwn

\* The slots as they were, apart from some that are clean now.
Cleaned == {st \in [SlotIds -> SlotRecords] : \A s \in SlotIds : st[s] = slots[s] \/ ~st[s].dirty}

LEMMA TakeCleans ==
  ASSUME PcTypeOK, NEW st \in Cleaned, NEW b \in Nat
  PROVE  /\ Take(st, b) \in Cleaned
         /\ \A s \in SlotIds : s # Victim(st) => Take(st, b)[s] = st[s]
         /\ Victim(st) \in SlotIds => ~Take(st, b)[Victim(st)].dirty
<1> DEFINE v == Victim(st)
           r == [blk |-> b, valid |-> TRUE, dirty |-> FALSE]
<1>1. r \in SlotRecords /\ ~r.dirty
  BY DEF SlotRecords
<1>2. st \in [SlotIds -> SlotRecords] /\ \A s \in SlotIds : st[s] = slots[s] \/ ~st[s].dirty
  BY DEF Cleaned
<1>3. Take(st, b) = [st EXCEPT ![v] = r]
  BY DEF Take
<1> HIDE DEF v, r
<1>4. /\ Take(st, b) \in [SlotIds -> SlotRecords]
      /\ \A s \in SlotIds : Take(st, b)[s] = IF s = v THEN r ELSE st[s]
  BY <1>1, <1>2, <1>3
<1> QED
  BY <1>1, <1>2, <1>4 DEF Cleaned, v

LEMMA SlotsAreCleaned ==
  ASSUME PcTypeOK
  PROVE  slots \in Cleaned
BY DEF PcTypeOK, Cleaned, SlotRecords

LEMMA PcAllocKeeps ==
  ASSUME PcInv, NEW n \in 1 .. NSLOTS + 1, PcAlloc(n)
  PROVE  PcInv'
<1> DEFINE free == {s \in SlotIds : ~slots[s].valid}
           base == IF free = {} THEN 0 ELSE LeastSlot(free)
           Run(t) == t = [k \in 0 .. NSLOTS |->
                            IF k = 0 THEN slots ELSE Take(t[k - 1], base + k - 1)]
           slotsAfter == CHOOSE t : Run(t)
           m == IF n < NSLOTS THEN n ELSE NSLOTS
<1>1. slots' = slotsAfter[m] /\ UNCHANGED <<page, memDisk, wrote>>
  BY DEF PcAlloc
<1>2. PcTypeOK /\ NSLOTS \in Nat /\ m \in 0 .. NSLOTS
  BY CacheAssumption DEF PcInv
<1>3. base \in Nat
  <2>1. free # {} => \E x \in free : \A y \in free : x <= y
    <3>1. free \in SUBSET Nat
      BY DEF SlotIds
    <3> HIDE DEF free
    <3> QED
      BY <3>1, Minimum
  <2>2. free # {} => LeastSlot(free) \in free
    BY <2>1 DEF LeastSlot
  <2> QED
    BY <2>2 DEF SlotIds
<1> HIDE DEF base, m
<1>4. \A k \in 1 .. NSLOTS : base + k - 1 \in Nat
  BY <1>3
<1>5. \E t : Run(t)
  <2> DEFINE g == [k \in 1 .. NSLOTS |-> [st \in Cleaned |-> Take(st, base + k - 1)]]
  <2>1. \A k \in 1 .. NSLOTS : [st \in Cleaned |-> Take(st, base + k - 1)] \in [Cleaned -> Cleaned]
    BY <1>2, <1>4, TakeCleans
  <2>2. g \in [1 .. NSLOTS -> [Cleaned -> Cleaned]]
    BY <2>1
  <2>3. \A k \in 1 .. NSLOTS, st \in Cleaned : g[k][st] = Take(st, base + k - 1)
    OBVIOUS
  <2> HIDE DEF g
  <2>4. PICK f \in [0 .. NSLOTS -> Cleaned] :
          f[0] = slots /\ \A k \in 1 .. NSLOTS : f[k] = g[k][f[k - 1]]
    <3>1. HasRun(NSLOTS, Cleaned, slots, g)
      BY <1>2, <2>2, SlotsAreCleaned, RecursionDefines
    <3> QED
      BY <3>1 DEF HasRun
  <2>5. \A k \in 0 .. NSLOTS : f[k] = IF k = 0 THEN slots ELSE Take(f[k - 1], base + k - 1)
    <3> SUFFICES ASSUME NEW k \in 0 .. NSLOTS, k # 0
                 PROVE  f[k] = Take(f[k - 1], base + k - 1)
      BY <2>4
    <3>1. k \in 1 .. NSLOTS /\ k - 1 \in 0 .. NSLOTS
      BY <1>2
    <3> QED
      BY <2>3, <2>4, <3>1
  <2>6. Run(f)
    BY <2>5
  <2> QED
    BY <2>6
<1>6. Run(slotsAfter)
  <2> HIDE DEF Run
  <2> QED
    BY <1>5
<1> HIDE DEF slotsAfter
<1>7. slotsAfter[0] = slots /\ \A k \in 1 .. NSLOTS : slotsAfter[k] = Take(slotsAfter[k - 1], base + k - 1)
  BY <1>2, <1>6
<1> HIDE DEF Run
<1>8. \A k \in 1 .. NSLOTS : slotsAfter[k - 1] \in Cleaned => slotsAfter[k] \in Cleaned
  BY <1>2, <1>4, <1>7, TakeCleans
<1>9. \A k \in 0 .. NSLOTS : slotsAfter[k] \in Cleaned
  <2>1. slotsAfter[0] \in Cleaned
    BY <1>2, <1>7, SlotsAreCleaned
  <2> QED
    BY <1>2, <1>8, <2>1, StepsStay
<1>10. slots' \in [SlotIds -> SlotRecords] /\ \A s \in SlotIds : slots'[s] = slots[s] \/ ~slots'[s].dirty
  BY <1>1, <1>2, <1>9 DEF Cleaned
<1> QED
  BY <1>1, <1>10 DEF PcInv, PcTypeOK, DiskHasOwnPages, DirtyIsOwn, SlotRecords

LEMMA PcWriteKeeps ==
  ASSUME PcInv, NEW b \in Blocks, NEW v \in CachePages, PcWrite(b, v)
  PROVE  PcInv'
<1> DEFINE st == IF Cached(slots, b) # {} THEN slots ELSE Take(slots, b)
           s == SlotFor(b)
<1>1. /\ slots' = [st EXCEPT ![s].dirty = TRUE] /\ page' = [page EXCEPT ![s] = v]
      /\ wrote' = [wrote EXCEPT ![b] = @ \cup {v}] /\ memDisk' = memDisk
  BY DEF PcWrite
<1>2. PcTypeOK /\ b \in Nat
  BY CacheAssumption DEF PcInv
<1>3. Cached(slots, b) # {} => LeastSlot(Cached(slots, b)) \in Cached(slots, b)
  <2>1. Cached(slots, b) \in SUBSET Nat
    BY DEF Cached, SlotIds
  <2>2. Cached(slots, b) # {} => \E x \in Cached(slots, b) : \A y \in Cached(slots, b) : x <= y
    BY <2>1, Minimum
  <2> QED
    BY <2>2 DEF LeastSlot
<1>4. /\ st \in [SlotIds -> SlotRecords]
      /\ \A t \in SlotIds : t # s => st[t] = slots[t] \/ ~st[t].dirty
      /\ s \in SlotIds => st[s].blk = b
  <2>1. CASE Cached(slots, b) # {}
    <3>1. s \in Cached(slots, b) /\ st = slots
      BY <1>3, <2>1 DEF SlotFor
    <3> QED
      BY <1>2, <3>1 DEF Cached, PcTypeOK, SlotRecords
  <2>2. CASE Cached(slots, b) = {}
    <3>1. s = Victim(slots) /\ st = Take(slots, b)
      BY <2>2 DEF SlotFor
    <3>2. slots \in Cleaned /\ st \in Cleaned
      BY <1>2, <3>1, SlotsAreCleaned, TakeCleans
    <3>3. Victim(slots) \in SlotIds => Take(slots, b)[Victim(slots)].blk = b
      BY <1>2 DEF Take, PcTypeOK
    <3> QED
      BY <3>1, <3>2, <3>3 DEF Cleaned
  <2> QED
    BY <2>1, <2>2
<1> HIDE DEF st, s
<1>5. /\ slots' \in [SlotIds -> SlotRecords]
      /\ \A t \in SlotIds : t # s => slots'[t] = st[t]
      /\ s \in SlotIds => slots'[s].blk = b
  <2> DEFINE r == [st[s] EXCEPT !.dirty = TRUE]
  <2>1. slots' = [st EXCEPT ![s] = r]
    BY <1>1
  <2>2. s \in SlotIds => r \in SlotRecords /\ r.blk = b
    <3>1. s \in SlotIds => st[s] \in SlotRecords /\ st[s].blk = b
      BY <1>4
    <3> QED
      BY <3>1 DEF SlotRecords
  <2> HIDE DEF r
  <2> QED
    BY <1>4, <2>1, <2>2
<1>6. /\ page' \in [SlotIds -> CacheVals] /\ \A t \in SlotIds : page'[t] = IF t = s THEN v ELSE page[t]
      /\ wrote' \in [Blocks -> SUBSET CachePages]
      /\ \A c \in Blocks : wrote[c] \in SUBSET (wrote'[c])
      /\ v \in wrote'[b]
  BY <1>1, <1>2 DEF PcTypeOK, CacheVals
<1>7. DirtyIsOwn'
  <2> SUFFICES ASSUME NEW t \in SlotIds, slots'[t].dirty
               PROVE  slots'[t].blk \in Blocks /\ page'[t] \in wrote'[slots'[t].blk]
    BY DEF DirtyIsOwn
  <2>1. CASE t = s
    BY <1>5, <1>6, <2>1
  <2>2. CASE t # s
    <3>1. slots'[t] = slots[t]
      BY <1>4, <1>5, <2>2
    <3> QED
      BY <1>6, <2>2, <3>1 DEF PcInv, DirtyIsOwn
  <2> QED
    BY <2>1, <2>2
<1>8. DiskHasOwnPages'
  <2>1. OnDisk \in SUBSET Blocks
    BY CacheAssumption DEF OnDisk
  <2> QED
    BY <1>1, <1>6, <2>1 DEF PcInv, DiskHasOwnPages
<1> QED
  BY <1>1, <1>2, <1>5, <1>6, <1>7, <1>8 DEF PcInv, PcTypeOK, SlotRecords, CacheVals

LEMMA PcReadKeeps ==
  ASSUME PcInv, NEW b \in Blocks, PcRead(b)
  PROVE  PcInv'
<1> DEFINE v == Victim(slots)
           w == IF b \in OnDisk THEN memDisk[b] ELSE ZeroPage
<1>1. /\ \/ UNCHANGED <<slots, page>>
         \/ slots' = Take(slots, b) /\ page' = [page EXCEPT ![v] = w]
      /\ UNCHANGED <<memDisk, wrote>>
  BY DEF PcRead
<1>2. PcTypeOK /\ b \in Nat /\ slots \in Cleaned
  BY CacheAssumption, SlotsAreCleaned DEF PcInv
<1>3. w \in CacheVals
  BY <1>2 DEF PcTypeOK, CacheVals
<1>4. CASE slots' = Take(slots, b) /\ page' = [page EXCEPT ![v] = w]
  <2>1. /\ slots' \in [SlotIds -> SlotRecords]
        /\ \A s \in SlotIds : slots'[s] = slots[s] \/ ~slots'[s].dirty
        /\ v \in SlotIds => ~slots'[v].dirty
    BY <1>2, <1>4, TakeCleans DEF Cleaned
  <2> HIDE DEF v, w
  <2>2. page' \in [SlotIds -> CacheVals] /\ \A s \in SlotIds : s # v => page'[s] = page[s]
    BY <1>2, <1>3, <1>4 DEF PcTypeOK, CacheVals
  <2>3. DirtyIsOwn'
    BY <1>1, <2>1, <2>2 DEF PcInv, DirtyIsOwn
  <2> QED
    BY <1>1, <1>2, <2>1, <2>2, <2>3 DEF PcInv, PcTypeOK, DiskHasOwnPages, SlotRecords, CacheVals
<1>5. CASE UNCHANGED <<slots, page>>
  BY <1>1, <1>5 DEF PcInv, PcTypeOK, DiskHasOwnPages, DirtyIsOwn
<1> QED
  BY <1>1, <1>4, <1>5

\* Slots and pages as they were, apart from slots that are clean now.
Fetched == {r \in [st : Cleaned, pg : [SlotIds -> CacheVals]] :
              \A s \in SlotIds : (r.st[s] = slots[s] /\ r.pg[s] = page[s]) \/ ~r.st[s].dirty}

LEMMA FetchKeeps ==
  ASSUME PcTypeOK, NEW was \in Fetched, NEW b \in Nat
  PROVE  Prefetched(was, b) \in Fetched
<1>1. CASE b \notin OnDisk
  BY <1>1 DEF Prefetched
<1>2. CASE b \in OnDisk
  <2> DEFINE v == Victim(was.st)
             st == Take(was.st, b)
             pg == [was.pg EXCEPT ![v] = memDisk[b]]
             w == memDisk[b]
  <2>1. /\ was.st \in Cleaned /\ was.pg \in [SlotIds -> CacheVals]
        /\ \A s \in SlotIds : (was.st[s] = slots[s] /\ was.pg[s] = page[s]) \/ ~was.st[s].dirty
    BY DEF Fetched
  <2>2. w \in CacheVals
    BY <1>2 DEF PcTypeOK, CacheVals
  <2>3. /\ st \in Cleaned /\ \A s \in SlotIds : s # v => st[s] = was.st[s]
        /\ v \in SlotIds => ~st[v].dirty
    BY <2>1, TakeCleans
  <2>4. pg \in [SlotIds -> CacheVals] /\ \A s \in SlotIds : s # v => pg[s] = was.pg[s]
    <3> HIDE DEF v, w
    <3>1. pg = [was.pg EXCEPT ![v] = w]
      BY DEF w
    <3> HIDE DEF pg
    <3> QED
      BY <2>1, <2>2, <3>1
  <2>5. Prefetched(was, b) = [st |-> st, pg |-> pg]
    BY <1>2 DEF Prefetched
  <2> HIDE DEF v, st, pg
  <2>6. \A s \in SlotIds : (st[s] = slots[s] /\ pg[s] = page[s]) \/ ~st[s].dirty
    BY <2>1, <2>3, <2>4
  <2> QED
    BY <2>3, <2>4, <2>5, <2>6 DEF Fetched
<1> QED
  BY <1>1, <1>2

LEMMA PcPrefetchKeeps ==
  ASSUME PcInv, NEW start \in Blocks, NEW n \in 1 .. 3, PcPrefetch(start, n)
  PROVE  PcInv'
<1> DEFINE Run(t) == t = [k \in 0 .. 4 |->
                            IF k = 0 THEN [st |-> slots, pg |-> page]
                            ELSE Prefetched(t[k - 1], start + k - 1)]
           after == CHOOSE t : Run(t)
           first == [st |-> slots, pg |-> page]
           last == IF n < 4 THEN n ELSE 4
<1>1. slots' = after[last].st /\ page' = after[last].pg /\ UNCHANGED <<memDisk, wrote>>
  BY DEF PcPrefetch
<1>2. PcTypeOK /\ last \in 0 .. 4 /\ start \in Nat
  BY CacheAssumption DEF PcInv
<1>3. \A k \in 1 .. 4 : start + k - 1 \in Nat
  BY <1>2
<1>4. first \in Fetched
  BY <1>2, SlotsAreCleaned DEF Fetched, PcTypeOK, CacheVals
<1>5. \E t : Run(t)
  <2> DEFINE g == [k \in 1 .. 4 |-> [r \in Fetched |-> Prefetched(r, start + k - 1)]]
  <2>1. \A k \in 1 .. 4 : [r \in Fetched |-> Prefetched(r, start + k - 1)] \in [Fetched -> Fetched]
    BY <1>2, <1>3, FetchKeeps
  <2>2. g \in [1 .. 4 -> [Fetched -> Fetched]]
    BY <2>1
  <2>3. \A k \in 1 .. 4, r \in Fetched : g[k][r] = Prefetched(r, start + k - 1)
    OBVIOUS
  <2> HIDE DEF g, first, Run, after
  <2>4. PICK f \in [0 .. 4 -> Fetched] : f[0] = first /\ \A k \in 1 .. 4 : f[k] = g[k][f[k - 1]]
    <3>1. HasRun(4, Fetched, first, g)
      BY <1>4, <2>2, RecursionDefines
    <3> QED
      BY <3>1 DEF HasRun
  <2>5. \A k \in 0 .. 4 : f[k] = IF k = 0 THEN first ELSE Prefetched(f[k - 1], start + k - 1)
    <3> SUFFICES ASSUME NEW k \in 0 .. 4, k # 0
                 PROVE  f[k] = Prefetched(f[k - 1], start + k - 1)
      BY <2>4
    <3>1. k \in 1 .. 4 /\ k - 1 \in 0 .. 4
      OBVIOUS
    <3> QED
      BY <2>3, <2>4, <3>1
  <2>6. Run(f)
    BY <2>5 DEF first, Run
  <2> QED
    BY <2>6
<1>6. Run(after)
  <2> HIDE DEF Run
  <2> QED
    BY <1>5
<1> HIDE DEF after
<1>7. after[0] = first /\ \A k \in 1 .. 4 : after[k] = Prefetched(after[k - 1], start + k - 1)
  BY <1>6
<1> HIDE DEF Run, first, last
<1>8. \A k \in 1 .. 4 : after[k - 1] \in Fetched => after[k] \in Fetched
  BY <1>2, <1>3, <1>7, FetchKeeps
<1>9. \A k \in 0 .. 4 : after[k] \in Fetched
  <2>1. after[0] \in Fetched
    BY <1>4, <1>7
  <2> QED
    BY <1>8, <2>1, StepsStay
<1>10. after[last] \in Fetched
  BY <1>2, <1>9
<1>11. /\ slots' \in [SlotIds -> SlotRecords] /\ page' \in [SlotIds -> CacheVals]
       /\ \A s \in SlotIds : (slots'[s] = slots[s] /\ page'[s] = page[s]) \/ ~slots'[s].dirty
  BY <1>1, <1>10 DEF Fetched, Cleaned
<1>12. DirtyIsOwn'
  BY <1>1, <1>11 DEF PcInv, DirtyIsOwn
<1> QED
  BY <1>1, <1>11, <1>12 DEF PcInv, PcTypeOK, DiskHasOwnPages, SlotRecords, CacheVals

LEMMA PcFlushKeeps ==
  ASSUME PcInv, PcFlush
  PROVE  PcInv'
<1> DEFINE due == {s \in SlotIds : slots[s].valid /\ slots[s].dirty /\ slots[s].blk \in OnDisk}
           Of(b) == {s \in due : slots[s].blk = b}
           last(b) == CHOOSE s \in Of(b) : \A t \in Of(b) : t <= s
<1>1. /\ memDisk' = [b \in OnDisk |-> IF Of(b) = {} THEN memDisk[b] ELSE page[last(b)]]
      /\ slots' = [s \in SlotIds |-> [slots[s] EXCEPT !.dirty = @ /\ s \notin due]]
      /\ UNCHANGED <<page, wrote>>
  BY DEF PcFlush
<1>2. PcTypeOK /\ NSLOTS \in Nat
  BY CacheAssumption DEF PcInv
<1>3. \A b \in OnDisk : Of(b) # {} => last(b) \in Of(b)
  <2> SUFFICES ASSUME NEW b \in OnDisk, Of(b) # {}
               PROVE  \E s \in Of(b) : \A t \in Of(b) : t <= s
    OBVIOUS
  <2>1. \A s \in Of(b) : s \in Nat /\ s <= NSLOTS
    BY <1>2 DEF SlotIds
  <2> HIDE DEF Of
  <2> DEFINE D == {NSLOTS - s : s \in Of(b)}
  <2>2. D \in SUBSET Nat /\ D # {}
    BY <1>2, <2>1
  <2>3. PICK d \in D : \A e \in D : d <= e
    <3> HIDE DEF D
    <3> QED
      BY <2>2, Minimum
  <2>4. PICK s \in Of(b) : d = NSLOTS - s
    OBVIOUS
  <2>5. \A t \in Of(b) : NSLOTS - s <= NSLOTS - t
    BY <2>3, <2>4
  <2>6. \A t \in Of(b) : t <= s
    BY <1>2, <2>1, <2>5
  <2> QED
    BY <2>6
<1>4. \A b \in OnDisk : \A s \in Of(b) :
        s \in SlotIds /\ slots[s].dirty /\ slots[s].blk = b
  OBVIOUS
<1> HIDE DEF Of, last, due
<1>5. \A b \in OnDisk : memDisk'[b] = memDisk[b] \/ memDisk'[b] \in wrote[b]
  BY <1>1, <1>3, <1>4 DEF PcInv, DirtyIsOwn
<1>6. \A b \in OnDisk : memDisk'[b] \in CacheVals
  BY <1>1, <1>2, <1>3, <1>4 DEF PcTypeOK, CacheVals
<1>7. memDisk' \in [OnDisk -> CacheVals]
  BY <1>1, <1>6
<1>8. \A s \in SlotIds : /\ slots'[s] = [slots[s] EXCEPT !.dirty = slots[s].dirty /\ s \notin due]
                         /\ slots[s] \in SlotRecords
  BY <1>1, <1>2 DEF PcTypeOK, SlotRecords
<1>9. \A s \in SlotIds : /\ slots'[s] \in SlotRecords
                         /\ slots'[s].blk = slots[s].blk /\ (slots'[s].dirty => slots[s].dirty)
  BY <1>8 DEF SlotRecords
<1>10. slots' \in [SlotIds -> SlotRecords]
  BY <1>1, <1>9
<1>11. DirtyIsOwn'
  BY <1>1, <1>9 DEF PcInv, DirtyIsOwn
<1>12. DiskHasOwnPages'
  BY <1>1, <1>5 DEF PcInv, DiskHasOwnPages
<1> QED
  BY <1>1, <1>2, <1>7, <1>10, <1>11, <1>12 DEF PcInv, PcTypeOK, SlotRecords, CacheVals

LEMMA PcEvictKeeps ==
  ASSUME PcInv, PcEvict
  PROVE  PcInv'
<1>1. /\ slots' = [s \in SlotIds |-> [slots[s] EXCEPT !.valid = FALSE, !.dirty = FALSE]]
      /\ UNCHANGED <<page, memDisk, wrote>>
  BY DEF PcEvict
<1>2. \A s \in SlotIds : slots[s] \in SlotRecords
  BY DEF PcInv, PcTypeOK, SlotRecords
<1>3. \A s \in SlotIds : slots'[s] \in SlotRecords /\ ~slots'[s].dirty
  BY <1>1, <1>2 DEF SlotRecords
<1>4. slots' \in [SlotIds -> SlotRecords]
  BY <1>1, <1>3
<1> QED
  BY <1>1, <1>3, <1>4 DEF PcInv, PcTypeOK, DiskHasOwnPages, DirtyIsOwn, SlotRecords

LEMMA PcInitInv ==
  ASSUME PcInit
  PROVE  PcInv
<1>1. PcTypeOK
  BY DEF PcInit, PcTypeOK
<1> QED
  BY <1>1 DEF PcInit, PcInv, DiskHasOwnPages, DirtyIsOwn

LEMMA PcInvStep ==
  ASSUME PcInv, [PcNext]_pcVars
  PROVE  PcInv'
<1>1. CASE UNCHANGED pcVars
  BY <1>1 DEF pcVars, PcInv, PcTypeOK, DiskHasOwnPages, DirtyIsOwn
<1> QED
  BY <1>1, PcAllocKeeps, PcWriteKeeps, PcReadKeeps, PcPrefetchKeeps, PcFlushKeeps, PcEvictKeeps
     DEF PcNext

-----------------------------------------------------------------------------
(* Rings with a slot to read next and a slot to write next. *)

\* What a ring holds, the oldest first.
RingSeq(buf, rd, wr, N) ==
  [k \in 1 .. ((wr - rd) + N) % N |-> buf[(rd + k - 1) % N]]

LEMMA RingLength ==
  ASSUME NEW N \in Nat \ {0, 1}, NEW rd \in 0 .. N - 1, NEW wr \in 0 .. N - 1
  PROVE  /\ ((wr - rd) + N) % N \in 0 .. N - 1
         /\ ((wr - rd) + N) % N = IF wr >= rd THEN wr - rd ELSE wr - rd + N
<1> DEFINE b == IF wr >= rd THEN wr - rd ELSE wr - rd + N
           t == IF wr >= rd THEN 1 ELSE 0
           a == (wr - rd) + N
<1>1. b \in 0 .. N - 1 /\ t \in {0, 1, 2} /\ a \in Int
  OBVIOUS
<1>2. a = b + t * N
  <2>1. CASE wr >= rd
    BY <2>1
  <2>2. CASE ~(wr >= rd)
    BY <2>2
  <2> QED
    BY <2>1, <2>2
<1> HIDE DEF b, t, a
<1>3. a % N = b
  BY <1>1, <1>2, ModIs
<1> QED
  BY <1>1, <1>3 DEF a, b

\* The slot behind a slot.
LEMMA NextSlot ==
  ASSUME NEW N \in Nat \ {0, 1}, NEW p \in 0 .. N - 1
  PROVE  /\ (p + 1) % N \in 0 .. N - 1
         /\ (p + 1) % N = IF p = N - 1 THEN 0 ELSE p + 1
<1>1. N \in Nat \ {0} /\ 1 \in 0 .. N - 1
  OBVIOUS
<1>2. /\ (p + 1) % N \in 0 .. N - 1
      /\ (p + 1) % N = p + 1 \/ (p + 1) % N = p + 1 - N
  BY <1>1, RingSlot
<1> DEFINE k == (p + 1) % N
<1> HIDE DEF k
<1>3. k \in 0 .. N - 1 /\ (k = p + 1 \/ k = p + 1 - N)
  BY <1>2 DEF k
<1>4. k = IF p = N - 1 THEN 0 ELSE p + 1
  BY <1>3
<1> QED
  BY <1>3, <1>4 DEF k

\* The slot of the i-th entry.
LEMMA EntrySlot ==
  ASSUME NEW N \in Nat \ {0, 1}, NEW rd \in 0 .. N - 1, NEW k \in 1 .. N
  PROVE  /\ (rd + k - 1) % N \in 0 .. N - 1
         /\ (rd + k - 1) % N = IF rd + k - 1 < N THEN rd + k - 1 ELSE rd + k - 1 - N
<1> DEFINE i == k - 1
           s == (rd + i) % N
<1>1. i \in 0 .. N - 1 /\ rd + k - 1 = rd + i
  OBVIOUS
<1>2. s \in 0 .. N - 1 /\ (s = rd + i \/ s = rd + i - N)
  BY <1>1, RingSlot
<1> HIDE DEF s
<1>3. s = IF rd + i < N THEN rd + i ELSE rd + i - N
  BY <1>1, <1>2
<1> QED
  BY <1>1, <1>2, <1>3 DEF s

Lists(s, buf, rd, wr, N, S) ==
  /\ s \in Seq(S) /\ Len(s) < N
  /\ Len(s) = IF wr >= rd THEN wr - rd ELSE wr - rd + N
  /\ \A k \in 1 .. Len(s) : s[k] = buf[(rd + k - 1) % N]

LEMMA RingSeqIs ==
  ASSUME NEW N \in Nat \ {0, 1}, NEW rd \in 0 .. N - 1, NEW wr \in 0 .. N - 1,
         NEW S, NEW buf \in [0 .. N - 1 -> S]
  PROVE  Lists(RingSeq(buf, rd, wr, N), buf, rd, wr, N, S)
<1> DEFINE n == ((wr - rd) + N) % N
<1>1. n \in 0 .. N - 1 /\ n = IF wr >= rd THEN wr - rd ELSE wr - rd + N
  BY RingLength
<1>2. RingSeq(buf, rd, wr, N) = [k \in 1 .. n |-> buf[(rd + k - 1) % N]]
  BY DEF RingSeq
<1> HIDE DEF n
<1>3. \A k \in 1 .. n : (rd + k - 1) % N \in 0 .. N - 1
  BY <1>1, EntrySlot
<1>4. RingSeq(buf, rd, wr, N) \in [1 .. n -> S]
  BY <1>2, <1>3
<1> QED
  BY <1>1, <1>2, <1>4 DEF Lists

\* The laws of such rings: a value put at the end, a value written there, the
\* oldest value taken.
PutIsLast(buf, rd, wr, N, m) ==
  RingSeq([buf EXCEPT ![wr] = m], rd, (wr + 1) % N, N) = Append(RingSeq(buf, rd, wr, N), m)
EndIsUnseen(buf, rd, wr, N, m) ==
  RingSeq([buf EXCEPT ![wr] = m], rd, wr, N) = RingSeq(buf, rd, wr, N)
FirstIsTaken(buf, rd, wr, N) ==
  /\ RingSeq(buf, rd, wr, N) # << >>
  /\ RingSeq(buf, rd, wr, N)[1] = buf[rd]
  /\ RingSeq(buf, (rd + 1) % N, wr, N) = Tail(RingSeq(buf, rd, wr, N))

\* A value put into the free slot at the end is the last one.
LEMMA RingPuts ==
  ASSUME NEW N \in Nat \ {0, 1}, NEW rd \in 0 .. N - 1, NEW wr \in 0 .. N - 1,
         NEW S, NEW buf \in [0 .. N - 1 -> S], NEW m \in S, (wr + 1) % N # rd
  PROVE  PutIsLast(buf, rd, wr, N, m)
<1> DEFINE w == (wr + 1) % N
           new == [buf EXCEPT ![wr] = m]
           old == RingSeq(buf, rd, wr, N)
           got == RingSeq(new, rd, w, N)
<1>1. w \in 0 .. N - 1 /\ w = IF wr = N - 1 THEN 0 ELSE wr + 1
  BY NextSlot
<1>2. new \in [0 .. N - 1 -> S] /\ new[wr] = m /\ \A p \in 0 .. N - 1 : p # wr => new[p] = buf[p]
  OBVIOUS
<1>3. w # rd
  OBVIOUS
<1> HIDE DEF w, new
<1>3a. Lists(old, buf, rd, wr, N, S)
  BY RingSeqIs
<1> HIDE DEF old
<1>4. /\ old \in Seq(S) /\ Len(old) < N
      /\ Len(old) = IF wr >= rd THEN wr - rd ELSE wr - rd + N
      /\ \A k \in 1 .. Len(old) : old[k] = buf[(rd + k - 1) % N]
  BY <1>3a DEF Lists
<1>4a. Lists(got, new, rd, w, N, S)
  BY <1>1, <1>2, RingSeqIs
<1> HIDE DEF got
<1>5. /\ got \in Seq(S) /\ Len(got) < N
      /\ Len(got) = IF w >= rd THEN w - rd ELSE w - rd + N
      /\ \A k \in 1 .. Len(got) : got[k] = new[(rd + k - 1) % N]
  BY <1>4, <1>4a DEF Lists
<1> DEFINE app == Append(old, m)
<1>6. /\ app \in Seq(S) /\ Len(app) = Len(old) + 1
      /\ \A k \in 1 .. Len(old) : app[k] = old[k]
      /\ app[Len(old) + 1] = m
  <2> HIDE DEF old
  <2>1. old \in Seq(S)
    BY <1>4
  <2>2. /\ Append(old, m) \in Seq(S) /\ Append(old, m) # << >>
        /\ Len(Append(old, m)) = Len(old) + 1
        /\ \A i \in 1 .. Len(old) : Append(old, m)[i] = old[i]
        /\ Append(old, m)[Len(old) + 1] = m
    BY <2>1, AppendProperties
  <2> QED
    BY <2>2
<1> HIDE DEF old, got, app
<1>7. Len(old) \in Nat /\ Len(got) \in Nat
  BY <1>4, <1>5
<1>8. Len(got) = Len(old) + 1
  BY <1>1, <1>3, <1>4, <1>5
<1>9. ASSUME NEW k \in 1 .. Len(got)
      PROVE  got[k] = app[k]
  <2>1. k \in 1 .. N /\ k \in Int
    BY <1>5, <1>7
  <2>2. /\ (rd + k - 1) % N \in 0 .. N - 1
        /\ (rd + k - 1) % N = IF rd + k - 1 < N THEN rd + k - 1 ELSE rd + k - 1 - N
    BY <2>1, EntrySlot
  <2> DEFINE p == (rd + k - 1) % N
  <2>3. got[k] = new[p] /\ p \in 0 .. N - 1
        /\ p = IF rd + k - 1 < N THEN rd + k - 1 ELSE rd + k - 1 - N
    BY <1>5, <2>2
  <2>4. k \in 1 .. Len(old) => old[k] = buf[p]
    BY <1>4
  <2> HIDE DEF p
  <2>5. CASE k = Len(old) + 1
    <3>1. p = wr
      <4>1. Len(old) = (IF wr >= rd THEN wr - rd ELSE wr - rd + N)
        BY <1>4
      <4> DEFINE n == Len(old)
      <4>2. /\ k = n + 1 /\ n = (IF wr >= rd THEN wr - rd ELSE wr - rd + N)
            /\ p = IF rd + k - 1 < N THEN rd + k - 1 ELSE rd + k - 1 - N
        BY <2>3, <2>5, <4>1
      <4> HIDE DEF n
      <4> QED
        BY <4>2
    <3> QED
      BY <1>2, <1>6, <2>3, <2>5, <3>1
  <2>6. CASE k # Len(old) + 1
    <3>1. k \in 1 .. Len(old)
      BY <1>7, <1>8, <2>6
    <3>2. p # wr
      BY <1>4, <2>1, <2>3, <3>1
    <3>3. new[p] = buf[p]
      BY <1>2, <2>3, <3>2
    <3> QED
      BY <1>6, <2>3, <2>4, <3>1, <3>3
  <2> QED
    BY <2>5, <2>6
<1>10. got = app
  BY <1>5, <1>6, <1>8, <1>9, SeqEqual
<1> QED
  BY <1>10 DEF PutIsLast, got, app, old, new, w

\* The slot at the end is not in what the ring holds.
LEMMA RingUnseen ==
  ASSUME NEW N \in Nat \ {0, 1}, NEW rd \in 0 .. N - 1, NEW wr \in 0 .. N - 1,
         NEW S, NEW buf \in [0 .. N - 1 -> S], NEW m \in S
  PROVE  EndIsUnseen(buf, rd, wr, N, m)
<1> DEFINE new == [buf EXCEPT ![wr] = m]
           old == RingSeq(buf, rd, wr, N)
           got == RingSeq(new, rd, wr, N)
<1>2. new \in [0 .. N - 1 -> S] /\ \A p \in 0 .. N - 1 : p # wr => new[p] = buf[p]
  OBVIOUS
<1> HIDE DEF new
<1>3a. Lists(old, buf, rd, wr, N, S)
  BY RingSeqIs
<1> HIDE DEF old
<1>4. /\ old \in Seq(S) /\ Len(old) < N
      /\ Len(old) = IF wr >= rd THEN wr - rd ELSE wr - rd + N
      /\ \A k \in 1 .. Len(old) : old[k] = buf[(rd + k - 1) % N]
  BY <1>3a DEF Lists
<1>4a. Lists(got, new, rd, wr, N, S)
  BY <1>2, RingSeqIs
<1> HIDE DEF got
<1>5. /\ got \in Seq(S) /\ Len(got) = Len(old)
      /\ \A k \in 1 .. Len(got) : got[k] = new[(rd + k - 1) % N]
  BY <1>4, <1>4a DEF Lists
<1> HIDE DEF old, got
<1>7. Len(old) \in Nat
  BY <1>4
<1>9. ASSUME NEW k \in 1 .. Len(got)
      PROVE  got[k] = old[k]
  <2>1. k \in 1 .. N /\ k \in Int /\ k <= Len(old)
    BY <1>4, <1>5, <1>7
  <2>2. /\ (rd + k - 1) % N \in 0 .. N - 1
        /\ (rd + k - 1) % N = IF rd + k - 1 < N THEN rd + k - 1 ELSE rd + k - 1 - N
    BY <2>1, EntrySlot
  <2> DEFINE p == (rd + k - 1) % N
  <2>3. got[k] = new[p] /\ p \in 0 .. N - 1 /\ old[k] = buf[p]
        /\ p = IF rd + k - 1 < N THEN rd + k - 1 ELSE rd + k - 1 - N
    BY <1>4, <1>5, <2>2
  <2> HIDE DEF p
  <2>5. rd \in Int /\ wr \in Int /\ N \in Int /\ 0 <= rd /\ wr < N
    OBVIOUS
  <2>6. wr >= rd => p # wr
    <3> HAVE wr >= rd
    <3>1. k <= wr - rd
      BY <1>4, <2>1
    <3>2. rd + k - 1 < wr /\ rd + k - 1 < N
      BY <2>1, <2>5, <3>1
    <3> QED
      BY <2>1, <2>3, <2>5, <3>2
  <2>7. ~(wr >= rd) => p # wr
    <3> HAVE ~(wr >= rd)
    <3>1. k <= wr - rd + N /\ 1 <= k
      BY <1>4, <2>1
    <3>2. rd + k - 1 - N < wr /\ wr < rd + k - 1
      BY <2>1, <2>5, <3>1
    <3> QED
      BY <2>1, <2>3, <2>5, <3>2
  <2>4. p # wr
    BY <2>6, <2>7
  <2> QED
    BY <1>2, <2>3, <2>4
<1>10. got = old
  BY <1>4, <1>5, <1>9, SeqEqual
<1> QED
  BY <1>10 DEF EndIsUnseen, got, old, new

\* What is taken from the front is the oldest value.
LEMMA RingTakes ==
  ASSUME NEW N \in Nat \ {0, 1}, NEW rd \in 0 .. N - 1, NEW wr \in 0 .. N - 1,
         NEW S, NEW buf \in [0 .. N - 1 -> S], rd # wr
  PROVE  FirstIsTaken(buf, rd, wr, N)
<1> DEFINE r == (rd + 1) % N
           old == RingSeq(buf, rd, wr, N)
           got == RingSeq(buf, r, wr, N)
<1>1. r \in 0 .. N - 1 /\ r = IF rd = N - 1 THEN 0 ELSE rd + 1
  BY NextSlot
<1> HIDE DEF r
<1>3a. Lists(old, buf, rd, wr, N, S)
  BY RingSeqIs
<1> HIDE DEF old
<1>4. /\ old \in Seq(S) /\ Len(old) < N
      /\ Len(old) = IF wr >= rd THEN wr - rd ELSE wr - rd + N
      /\ \A k \in 1 .. Len(old) : old[k] = buf[(rd + k - 1) % N]
  BY <1>3a DEF Lists
<1>4a. Lists(got, buf, r, wr, N, S)
  BY <1>1, RingSeqIs
<1> HIDE DEF got
<1>5. /\ got \in Seq(S)
      /\ Len(got) = IF wr >= r THEN wr - r ELSE wr - r + N
      /\ \A k \in 1 .. Len(got) : got[k] = buf[(r + k - 1) % N]
  BY <1>4, <1>4a DEF Lists
<1> DEFINE rest == Tail(old)
<1> HIDE DEF old, got
<1>6. Len(old) \in Nat /\ Len(old) >= 1 /\ Len(got) = Len(old) - 1
  BY <1>1, <1>4, <1>5
<1>7. old # << >>
  BY <1>6
<1>8. /\ rest \in Seq(S) /\ Len(rest) = Len(old) - 1
      /\ \A k \in 1 .. Len(rest) : rest[k] = old[k + 1]
  BY <1>4, <1>7, HeadTailProperties
<1> HIDE DEF rest
<1>9. old[1] = buf[rd]
  <2>1. (rd + 1 - 1) % N = rd
    <3>1. 1 \in 1 .. N /\ rd + 1 - 1 = rd
      OBVIOUS
    <3> QED
      BY <3>1, EntrySlot
  <2>2. 1 \in 1 .. Len(old)
    BY <1>6
  <2> QED
    BY <1>4, <2>1, <2>2
<1>10. ASSUME NEW k \in 1 .. Len(got)
       PROVE  got[k] = rest[k]
  <2>1. k \in 1 .. N /\ k + 1 \in 1 .. N /\ k + 1 \in 1 .. Len(old) /\ k \in Int /\ k \in 1 .. Len(rest)
    BY <1>4, <1>6, <1>8
  <2> DEFINE p == (r + k - 1) % N
             j == k + 1
             q == (rd + j - 1) % N
  <2>2. p = IF r + k - 1 < N THEN r + k - 1 ELSE r + k - 1 - N
    BY <1>1, <2>1, EntrySlot
  <2>3. q = IF rd + j - 1 < N THEN rd + j - 1 ELSE rd + j - 1 - N
    <3>1. j \in 1 .. N
      BY <2>1
    <3> HIDE DEF j
    <3> QED
      BY <3>1, EntrySlot
  <2>4. got[k] = buf[p] /\ rest[k] = old[j] /\ old[j] = buf[q]
    BY <1>4, <1>5, <1>8, <2>1
  <2> HIDE DEF p, q
  <2>5. p = q
    BY <1>1, <2>1, <2>2, <2>3
  <2> QED
    BY <2>4, <2>5
<1>11. got = rest
  BY <1>5, <1>6, <1>8, <1>10, SeqEqual
<1> QED
  BY <1>7, <1>9, <1>11 DEF FirstIsTaken, got, rest, old, r

-----------------------------------------------------------------------------
(* The windows, the message queue and the mouse. *)

WinRows == [id : 0 .. WMAX, x : Positions]
Rectangles == [lo : Int, hi : Int, id : 0 .. WMAX]
MessageKinds == {"none", "create", "destroy", "zorder", "move", "dropfiles",
                 "leave", "enter", "mousemove", "button"}
Messages == MessageKinds \X Int
Queues == [buf : [0 .. QLEN - 1 -> Messages], rd : 0 .. QLEN - 1, wr : 0 .. QLEN - 1]
Backlogs == [q : Queues, owed : Seq(Messages)]
InOrder(s) == s.owed = RingSeq(s.q.buf, s.q.rd, s.q.wr, QLEN)
OrderedBacklogs == {s \in Backlogs : InOrder(s)}

LEMMA WinNumbers ==
  /\ WMAX \in Nat \ {0} /\ QLEN \in Nat \ {0, 1} /\ XMAX \in Nat /\ Width \in Nat
  /\ WinSlots \in SUBSET Nat /\ IsFiniteSet(WinSlots) /\ Cardinality(WinSlots) = WMAX
  /\ Positions \in SUBSET Nat /\ 0 \in Positions
<1>1. WMAX \in Nat \ {0} /\ QLEN \in Nat \ {0, 1} /\ XMAX \in Nat /\ Width \in Nat
  BY WindowsAssumption
<1>2. IsFiniteSet(WinSlots) /\ Cardinality(WinSlots) = WMAX
  <2>1. 0 \in Int /\ WMAX - 1 \in Int /\ (WMAX - 1) - 0 + 1 = WMAX /\ ~(0 > WMAX - 1)
    BY <1>1
  <2> QED
    BY <2>1, FS_Interval DEF WinSlots
<1> QED
  BY <1>1, <1>2 DEF WinSlots, Positions

LEMMA LeastIs ==
  ASSUME NEW T \in SUBSET Nat, T # {}
  PROVE  Least(T) \in T
<1>1. \E x \in T : \A y \in T : x <= y
  BY Minimum
<1> QED
  BY <1>1 DEF Least

\* What the rectangles of a table of windows are.
Shown(wins) ==
  {[lo |-> wins[i].x, hi |-> wins[i].x + Width, id |-> wins[i].id] :
     i \in {j \in WinSlots : wins[j].id # NoWindow}}
RectsIn(rects) == {rects[k] : k \in 1 .. Len(rects)}

LEMMA RectsAreShown ==
  ASSUME NEW wins \in [WinSlots -> WinRows]
  PROVE  /\ RectsOf(wins) \in Seq(Rectangles) /\ Len(RectsOf(wins)) <= WMAX
         /\ RectsIn(RectsOf(wins)) = Shown(wins)
<1> DEFINE inUse == {i \in WinSlots : wins[i].id # NoWindow}
           n == Cardinality(inUse)
           at(k) == CHOOSE i \in inUse : Cardinality({j \in inUse : j <= i}) = k
           rect(i) == [lo |-> wins[i].x, hi |-> wins[i].x + Width, id |-> wins[i].id]
           R == RectsOf(wins)
<1>1. R = [k \in 1 .. n |-> [lo |-> wins[at(k)].x, hi |-> wins[at(k)].x + Width,
                             id |-> wins[at(k)].id]]
  BY DEF RectsOf
<1>2. inUse \in SUBSET WinSlots
  OBVIOUS
<1>3. IsFiniteSet(inUse) /\ n \in Nat /\ n <= WMAX
  <2>1. IsFiniteSet(inUse) /\ n <= WMAX
    BY <1>2, WinNumbers, FS_Subset
  <2> QED
    BY <2>1, FS_CardinalityType
<1>4. \A k \in 1 .. n : at(k) \in inUse
  <2> SUFFICES ASSUME NEW k \in 1 .. n
               PROVE  at(k) \in inUse
    OBVIOUS
  <2>1. inUse \in SUBSET (0 .. WMAX - 1)
    BY DEF WinSlots
  <2>2. WMAX - 1 \in Nat
    BY WinNumbers
  <2>3. \E q \in inUse : Cardinality({r \in inUse : r <= q}) = k
    <3> HIDE DEF inUse
    <3> QED
      BY <2>1, <2>2, RankExists
  <2> HIDE DEF inUse
  <2> QED
    BY <2>3
<1>5. \A i \in inUse : \E k \in 1 .. n : at(k) = i
  <2> SUFFICES ASSUME NEW i \in inUse
               PROVE  \E k \in 1 .. n : at(k) = i
    OBVIOUS
  <2> DEFINE Below(p) == {j \in inUse : j <= p}
             k == Cardinality(Below(i))
  <2>1. \A p \in inUse : p \in Nat
    BY WinNumbers
  <2>2. \A p : /\ IsFiniteSet(Below(p)) /\ Cardinality(Below(p)) \in Nat
               /\ Cardinality(Below(p)) <= n
    <3> SUFFICES ASSUME NEW p
                 PROVE  IsFiniteSet(Below(p)) /\ Cardinality(Below(p)) \in Nat /\ Cardinality(Below(p)) <= n
      OBVIOUS
    <3>1. Below(p) \in SUBSET inUse
      OBVIOUS
    <3> HIDE DEF Below, inUse
    <3>2. IsFiniteSet(Below(p)) /\ Cardinality(Below(p)) <= Cardinality(inUse)
      BY <1>3, <3>1, FS_Subset
    <3> QED
      BY <3>2, FS_CardinalityType
  <2>3. k \in 1 .. n
    <3>1. i \in Below(i)
      BY <2>1
    <3>2. k # 0
      <4> HIDE DEF Below
      <4> QED
        BY <2>2, <3>1, FS_EmptySet
    <3> HIDE DEF Below
    <3> QED
      BY <1>3, <2>2, <3>2
  <2>4. \A p, q \in inUse : p < q => Cardinality(Below(p)) < Cardinality(Below(q))
    <3> SUFFICES ASSUME NEW p \in inUse, NEW q \in inUse, p < q
                 PROVE  Cardinality(Below(p)) < Cardinality(Below(q))
      OBVIOUS
    <3>1. q \in Below(q) /\ q \notin Below(p) /\ Below(p) \in SUBSET Below(q)
      BY <2>1
    <3>2. Below(p) # Below(q)
      BY <3>1
    <3> HIDE DEF Below, inUse
    <3>3. Cardinality(Below(p)) <= Cardinality(Below(q)) /\ Cardinality(Below(p)) # Cardinality(Below(q))
      BY <2>2, <3>1, <3>2, FS_Subset
    <3> QED
      BY <2>2, <3>3
  <2>5. \A p, q \in inUse : Cardinality(Below(p)) = Cardinality(Below(q)) => p = q
    <3> SUFFICES ASSUME NEW p \in inUse, NEW q \in inUse, p # q
                 PROVE  Cardinality(Below(p)) # Cardinality(Below(q))
      OBVIOUS
    <3>1. p < q \/ q < p
      BY <2>1
    <3> HIDE DEF Below, inUse
    <3> QED
      BY <2>2, <2>4, <3>1
  <2>6. at(k) = CHOOSE p \in inUse : Cardinality(Below(p)) = k
    OBVIOUS
  <2> HIDE DEF Below, inUse, at
  <2>7. at(k) = i
    BY <2>5, <2>6
  <2> QED
    BY <2>3, <2>7
<1> HIDE DEF at, R, n
<1>6. \A i \in inUse : rect(i) \in Rectangles
  <2> SUFFICES ASSUME NEW i \in inUse
               PROVE  rect(i) \in Rectangles
    OBVIOUS
  <2>1. wins[i] \in WinRows
    OBVIOUS
  <2>2. wins[i].id \in 0 .. WMAX /\ wins[i].x \in Nat
    BY <2>1, WinNumbers DEF WinRows
  <2>3. wins[i].x \in Int /\ wins[i].x + Width \in Int
    BY <2>2, WinNumbers
  <2> QED
    BY <2>2, <2>3 DEF Rectangles
<1>7. R = [k \in 1 .. n |-> rect(at(k))]
  BY <1>1
<1>8. Shown(wins) = {rect(i) : i \in inUse}
  BY DEF Shown
<1> HIDE DEF rect, inUse
<1>9. R \in [1 .. n -> Rectangles] /\ \A k \in 1 .. n : R[k] = rect(at(k))
  BY <1>4, <1>6, <1>7
<1>10. R \in Seq(Rectangles) /\ Len(R) = n
  BY <1>3, <1>9
<1>11. RectsIn(R) = Shown(wins)
  BY <1>4, <1>5, <1>8, <1>9, <1>10 DEF RectsIn
<1> QED
  BY <1>3, <1>10, <1>11 DEF R

\* A message put into the queue, or dropped, leaves it in order.
LEMMA PushKeeps ==
  ASSUME NEW s \in Backlogs, NEW m \in Messages
  PROVE  /\ Push(s, m) \in Backlogs
         /\ InOrder(s) => InOrder(Push(s, m))
<1>1. CASE Full(s.q)
  BY <1>1 DEF Push
<1>2. CASE ~Full(s.q)
  <2> DEFINE w == (s.q.wr + 1) % QLEN
             b == [s.q.buf EXCEPT ![s.q.wr] = m]
             q == [s.q EXCEPT !.buf[s.q.wr] = m, !.wr = (@ + 1) % QLEN]
             o == Append(s.owed, m)
  <2>1. Push(s, m) = [q |-> q, owed |-> o]
    BY <1>2 DEF Push
  <2>2. /\ s.q \in Queues /\ s.owed \in Seq(Messages)
        /\ s.q.buf \in [0 .. QLEN - 1 -> Messages] /\ s.q.rd \in 0 .. QLEN - 1
        /\ s.q.wr \in 0 .. QLEN - 1 /\ QLEN \in Nat \ {0, 1}
    BY WinNumbers DEF Backlogs, Queues
  <2>3. w \in 0 .. QLEN - 1 /\ w # s.q.rd
    BY <1>2, <2>2, NextSlot DEF Full
  <2>4. b \in [0 .. QLEN - 1 -> Messages]
    BY <2>2
  <2>5. q = [s.q EXCEPT !.buf = b, !.wr = w]
    BY <2>2 DEF Queues
  <2>6. o \in Seq(Messages)
    BY <2>2, AppendProperties
  <2> HIDE DEF q
  <2>7. q \in Queues /\ q.buf = b /\ q.wr = w /\ q.rd = s.q.rd
    <3> HIDE DEF b, w
    <3> QED
      BY <2>2, <2>3, <2>4, <2>5 DEF Queues
  <2>8. RingSeq(b, s.q.rd, w, QLEN) = Append(RingSeq(s.q.buf, s.q.rd, s.q.wr, QLEN), m)
    <3> DEFINE bf == s.q.buf
               rd == s.q.rd
               wr == s.q.wr
    <3>1. /\ bf \in [0 .. QLEN - 1 -> Messages] /\ rd \in 0 .. QLEN - 1 /\ wr \in 0 .. QLEN - 1
          /\ QLEN \in Nat \ {0, 1} /\ (wr + 1) % QLEN # rd
      BY <2>2, <2>3
    <3> HIDE DEF bf, rd, wr
    <3>2. PutIsLast(bf, rd, wr, QLEN, m)
      BY <3>1, RingPuts
    <3> QED
      BY <3>2 DEF PutIsLast, bf, rd, wr
  <2>9. InOrder(s) => o = RingSeq(b, s.q.rd, w, QLEN)
    BY <2>8 DEF InOrder
  <2> HIDE DEF b, w, o
  <2> DEFINE t == [q |-> q, owed |-> o]
  <2>10. t \in Backlogs /\ t.q = q /\ t.owed = o
    BY <2>6, <2>7 DEF Backlogs
  <2>11. InOrder(s) => InOrder(t)
    BY <2>7, <2>9, <2>10 DEF InOrder
  <2> QED
    BY <2>1, <2>10, <2>11
<1> QED
  BY <1>1, <1>2

\* So do several.
LEMMA PushAllKeeps ==
  ASSUME NEW T, NEW s \in T, NEW ms \in Seq(Messages),
         \A r \in T, m \in Messages : Push(r, m) \in T
  PROVE  PushAll(s, ms) \in T
<1> DEFINE n == Len(ms)
           Run(t) == t = [k \in 0 .. n |-> IF k = 0 THEN s ELSE Push(t[k - 1], ms[k])]
           pushed == CHOOSE t : Run(t)
<1>1. PushAll(s, ms) = pushed[n]
  BY DEF PushAll
<1>2. n \in Nat /\ \A k \in 1 .. n : ms[k] \in Messages
  BY ElementOfSeq
<1> HIDE DEF n
<1>3. \E t : Run(t)
  <2> DEFINE g == [k \in 1 .. n |-> [r \in T |-> Push(r, ms[k])]]
  <2>1. \A k \in 1 .. n : [r \in T |-> Push(r, ms[k])] \in [T -> T]
    BY <1>2
  <2>2. g \in [1 .. n -> [T -> T]]
    BY <2>1
  <2>3. \A k \in 1 .. n, r \in T : g[k][r] = Push(r, ms[k])
    OBVIOUS
  <2> HIDE DEF g
  <2>4. PICK f \in [0 .. n -> T] : f[0] = s /\ \A k \in 1 .. n : f[k] = g[k][f[k - 1]]
    <3>1. HasRun(n, T, s, g)
      BY <1>2, <2>2, RecursionDefines
    <3> QED
      BY <3>1 DEF HasRun
  <2>5. \A k \in 0 .. n : k = 0 \/ (k \in 1 .. n /\ k - 1 \in 0 .. n /\ k # 0)
    BY <1>2
  <2>6. \A k \in 0 .. n : f[k] = IF k = 0 THEN s ELSE Push(f[k - 1], ms[k])
    BY <2>3, <2>4, <2>5
  <2>7. f = [k \in 0 .. n |-> f[k]]
    BY <2>4
  <2>8. Run(f)
    BY <2>6, <2>7
  <2> QED
    BY <2>8
<1>4. Run(pushed)
  BY <1>3
<1> HIDE DEF pushed
<1>5. pushed[0] = s /\ \A k \in 1 .. n : pushed[k] = Push(pushed[k - 1], ms[k])
  BY <1>2, <1>4
<1>6. \A k \in 1 .. n : pushed[k - 1] \in T => pushed[k] \in T
  BY <1>2, <1>5
<1>7. \A k \in 0 .. n : pushed[k] \in T
  BY <1>2, <1>5, <1>6, StepsStay
<1> QED
  BY <1>1, <1>2, <1>7

LEMMA QueuedKeeps ==
  ASSUME queue \in Queues, owed \in Seq(Messages), NEW ms \in Seq(Messages), Queued(ms)
  PROVE  /\ queue' \in Queues /\ owed' \in Seq(Messages)
         /\ owed = Waiting => owed' = Waiting'
<1> DEFINE s == [q |-> queue, owed |-> owed]
           t == PushAll(s, ms)
<1>1. queue' = t.q /\ owed' = t.owed
  BY DEF Queued
<1>2. s \in Backlogs /\ (owed = Waiting => InOrder(s))
  BY DEF Backlogs, InOrder, Waiting, RingSeq
<1> HIDE DEF s
<1>3. t \in Backlogs
  BY <1>2, PushKeeps, PushAllKeeps
<1>4. InOrder(s) => InOrder(t)
  <2> SUFFICES ASSUME InOrder(s)
               PROVE  t \in OrderedBacklogs
    BY DEF OrderedBacklogs
  <2>1. s \in OrderedBacklogs /\ \A r \in OrderedBacklogs, m \in Messages : Push(r, m) \in OrderedBacklogs
    BY <1>2, PushKeeps DEF OrderedBacklogs
  <2> HIDE DEF OrderedBacklogs
  <2> QED
    BY <2>1, PushAllKeeps
<1> HIDE DEF t
<1>5. t.q \in Queues /\ t.owed \in Seq(Messages)
  BY <1>3 DEF Backlogs
<1>6. InOrder(t) => owed' = Waiting'
  BY <1>1 DEF InOrder, Waiting, RingSeq
<1> QED
  BY <1>1, <1>2, <1>4, <1>5, <1>6

-----------------------------------------------------------------------------
\* What the desktop loop has to do, step by step.
Ops == {<<"remove">>, <<"forget">>, <<"start">>, <<"create">>, <<"rects">>}
         \cup {<<"slot", m>> : m \in Messages}
         \cup {<<"advance", m, w>> : m \in Messages, w \in 0 .. QLEN - 1}

Rebuilding(ops) == \E k \in 1 .. Len(ops) : ops[k] = <<"rects">>
Unstarted(ops) == \A k \in 1 .. Len(ops) : ops[k][1] # "advance"

WinShape ==
  /\ WINS \in [WinSlots -> WinRows]
  /\ HIT_RECTS \in Seq(Rectangles) /\ Len(HIT_RECTS) <= WMAX
  /\ FOCUS_ID \in 0 .. WMAX /\ MS_X \in Positions
  /\ MS_PKT \in Seq(0 .. 255) /\ Len(MS_PKT) <= 2
  /\ WIN_PID \in (0 .. WMAX) \cup {-12} /\ WX \in Positions

\* The ring is what it owes, unless a packet came between the two halves of a
\* message of the loop's own.
QueueShape ==
  /\ queue \in Queues /\ owed \in Seq(Messages)
  /\ raced \/ owed = Waiting

\* Only the first step may be the second half of a message.
TodoShape ==
  /\ todo \in Seq(Ops)
  /\ \A k \in 2 .. Len(todo) : todo[k][1] # "advance"

\* The first half is in the free slot at the end, and the end is where it was.
HalfWritten ==
  Inside => \/ raced
            \/ /\ Head(todo)[3] = queue.wr /\ ~Full(queue)
               /\ queue.buf[queue.wr] = Head(todo)[2]

RectsKnown == foreign \/ Rebuilding(todo) \/ RectsIn(HIT_RECTS) = Shown(WINS)

WinInv == WinShape /\ QueueShape /\ TodoShape /\ HalfWritten /\ RectsKnown

LEMMA OpsAre ==
  ASSUME NEW op \in Ops
  PROVE  /\ op[1] = "slot" => op[2] \in Messages
         /\ op[1] = "advance" => op[2] \in Messages /\ op[3] \in 0 .. QLEN - 1
<1>1. CASE op \in {<<"remove">>, <<"forget">>, <<"start">>, <<"create">>, <<"rects">>}
  BY <1>1
<1>2. CASE op \in {<<"slot", m>> : m \in Messages}
  BY <1>2
<1>3. CASE op \in {<<"advance", m, w>> : m \in Messages, w \in 0 .. QLEN - 1}
  BY <1>3
<1> QED
  BY <1>1, <1>2, <1>3 DEF Ops

LEMMA RestIs ==
  ASSUME TodoShape, todo # << >>, NEW ops \in Seq(Ops),
         \A k \in 2 .. Len(ops) : ops[k][1] # "advance", WithRest(ops)
  PROVE  /\ TodoShape'
         /\ Inside' => ops # << >> /\ Head(todo') = ops[1] /\ ops[1][1] = "advance"
         /\ Rebuilding(ops) => Rebuilding(todo')
         /\ Rebuilding(todo) /\ Head(todo) # <<"rects">> => Rebuilding(todo')
<1> DEFINE rest == Tail(todo)
           new == ops \o rest
<1>1. /\ rest \in Seq(Ops) /\ Len(rest) = Len(todo) - 1 /\ Len(todo) \in Nat /\ Len(todo) >= 1
      /\ \A k \in 1 .. Len(rest) : rest[k] = todo[k + 1]
  BY HeadTailProperties DEF TodoShape
<1>2. todo' = new
  BY DEF WithRest
<1> HIDE DEF rest
<1>3. /\ new \in Seq(Ops) /\ Len(new) = Len(ops) + Len(rest) /\ Len(ops) \in Nat
      /\ \A k \in 1 .. Len(ops) : new[k] = ops[k]
      /\ \A k \in 1 .. Len(rest) : new[Len(ops) + k] = rest[k]
  <2>0. /\ new \in Seq(Ops) /\ Len(new) = Len(ops) + Len(rest)
        /\ \A k \in 1 .. Len(ops) + Len(rest) :
             new[k] = IF k <= Len(ops) THEN ops[k] ELSE rest[k - Len(ops)]
    <3>1. rest \in Seq(Ops)
      BY <1>1
    <3> QED
      BY <3>1, ConcatProperties, Zenon
  <2> HIDE DEF new
  <2>1. /\ new \in Seq(Ops) /\ Len(new) = Len(ops) + Len(rest)
        /\ \A k \in 1 .. Len(new) : new[k] = IF k <= Len(ops) THEN ops[k] ELSE rest[k - Len(ops)]
    BY <2>0
  <2>2. Len(ops) \in Nat /\ Len(rest) \in Nat
    BY <1>1
  <2>3. \A k \in 1 .. Len(ops) : k \in 1 .. Len(new) /\ k <= Len(ops)
    BY <2>1, <2>2
  <2>4. \A k \in 1 .. Len(rest) : /\ Len(ops) + k \in 1 .. Len(new) /\ ~(Len(ops) + k <= Len(ops))
                                  /\ Len(ops) + k - Len(ops) = k
    BY <2>1, <2>2
  <2> QED
    BY <2>1, <2>2, <2>3, <2>4
<1> HIDE DEF new
<1>4. Unstarted(rest)
  <2>1. \A k \in 1 .. Len(rest) : k + 1 \in 2 .. Len(todo)
    BY <1>1
  <2> QED
    BY <1>1, <2>1 DEF Unstarted, TodoShape
<1>5. \A k \in 1 .. Len(new) : k \in 1 .. Len(ops) \/ \E j \in 1 .. Len(rest) : k = Len(ops) + j
  <2> SUFFICES ASSUME NEW k \in 1 .. Len(new), k \notin 1 .. Len(ops)
               PROVE  \E j \in 1 .. Len(rest) : k = Len(ops) + j
    OBVIOUS
  <2>1. k - Len(ops) \in 1 .. Len(rest) /\ k = Len(ops) + (k - Len(ops))
    BY <1>1, <1>3
  <2> QED
    BY <2>1
<1>6. \A k \in 2 .. Len(new) : new[k][1] # "advance"
  <2> SUFFICES ASSUME NEW k \in 2 .. Len(new)
               PROVE  new[k][1] # "advance"
    OBVIOUS
  <2>1. k \in 1 .. Len(new) /\ (k \in 1 .. Len(ops) => k \in 2 .. Len(ops))
    BY <1>3
  <2>2. CASE k \in 1 .. Len(ops)
    <3>1. new[k] = ops[k] /\ k \in 2 .. Len(ops)
      BY <1>3, <2>1, <2>2
    <3> QED
      BY <3>1
  <2>3. ASSUME NEW j \in 1 .. Len(rest), k = Len(ops) + j
        PROVE  new[k][1] # "advance"
    <3>1. new[k] = rest[j]
      BY <1>3, <2>3
    <3> QED
      BY <1>4, <3>1 DEF Unstarted
  <2> QED
    BY <1>5, <2>1, <2>2, <2>3
<1>7. Inside' => ops # << >> /\ Head(todo') = ops[1] /\ ops[1][1] = "advance"
  <2> SUFFICES ASSUME new # << >>, new[1][1] = "advance"
               PROVE  ops # << >> /\ new[1] = ops[1]
    BY <1>2, <1>3 DEF Inside
  <2>1. 1 \in 1 .. Len(new)
    BY <1>3
  <2>2. 1 \in 1 .. Len(ops)
    BY <1>3, <1>4, <1>5, <2>1 DEF Unstarted
  <2> QED
    BY <1>3, <2>2
<1>8. Rebuilding(ops) => Rebuilding(new)
  <2>1. \A k \in 1 .. Len(ops) : k \in 1 .. Len(new)
    BY <1>1, <1>3
  <2> QED
    BY <1>3, <2>1 DEF Rebuilding
<1>9. Rebuilding(todo) /\ Head(todo) # <<"rects">> => Rebuilding(new)
  <2> SUFFICES ASSUME NEW k \in 1 .. Len(todo), todo[k] = <<"rects">>, Head(todo) # <<"rects">>
               PROVE  Rebuilding(new)
    BY DEF Rebuilding
  <2>1. Head(todo) = todo[1]
    BY <1>1 DEF TodoShape
  <2>2. k # 1
    BY <2>1
  <2>3. k - 1 \in 1 .. Len(rest) /\ rest[k - 1] = todo[k - 1 + 1] /\ k - 1 + 1 = k
    BY <1>1, <2>2
  <2>4. new[Len(ops) + (k - 1)] = <<"rects">> /\ Len(ops) + (k - 1) \in 1 .. Len(new)
    BY <1>1, <1>3, <2>3
  <2> QED
    BY <2>4 DEF Rebuilding
<1> QED
  BY <1>2, <1>3, <1>6, <1>7, <1>8, <1>9 DEF TodoShape

-----------------------------------------------------------------------------
\* Rows of the table and rectangles.
LEMMA HoldingIs ==
  ASSUME NEW w, Holding(w) # {}
  PROVE  Least(Holding(w)) \in WinSlots /\ WINS[Least(Holding(w))].id = w
<1>1. Holding(w) \in SUBSET Nat
  BY WinNumbers DEF Holding
<1>2. Least(Holding(w)) \in Holding(w)
  BY <1>1, LeastIs
<1> QED
  BY <1>2 DEF Holding

LEMMA ClampIs ==
  ASSUME NEW a \in Int
  PROVE  Clamp(a) \in Positions
BY WinNumbers DEF Clamp, Positions

LEMMA HitIs ==
  ASSUME WinShape, NEW x
  PROVE  Hit(x) \in 0 .. WMAX
<1> DEFINE hits == {k \in 1 .. Len(HIT_RECTS) : HIT_RECTS[k].lo <= x /\ x <= HIT_RECTS[k].hi}
<1>1. Hit(x) = IF hits = {} THEN NoWindow ELSE HIT_RECTS[Least(hits)].id
  BY DEF Hit
<1>2. HIT_RECTS \in Seq(Rectangles) /\ WMAX \in Nat
  BY WinNumbers DEF WinShape
<1>3. hits # {} => Least(hits) \in 1 .. Len(HIT_RECTS)
  <2>1. hits \in SUBSET Nat /\ hits \subseteq 1 .. Len(HIT_RECTS)
    BY <1>2
  <2> HIDE DEF hits
  <2> QED
    BY <2>1, LeastIs
<1> HIDE DEF hits
<1>4. CASE hits = {}
  BY <1>1, <1>2, <1>4 DEF NoWindow
<1>5. CASE hits # {}
  <2>1. HIT_RECTS[Least(hits)] \in Rectangles
    BY <1>2, <1>3, <1>5, ElementOfSeq
  <2> QED
    BY <1>1, <1>5, <2>1 DEF Rectangles
<1> QED
  BY <1>4, <1>5

LEMMA RowsKept ==
  ASSUME WinShape, NEW i \in WinSlots
  PROVE  /\ [WINS EXCEPT ![i] = FreeWin] \in [WinSlots -> WinRows]
         /\ \A x \in Positions : Created(WINS, i, x) \in [WinSlots -> WinRows]
         /\ \A dx \in Int : [WINS EXCEPT ![i].x = Clamp(@ + dx)] \in [WinSlots -> WinRows]
<1>1. WINS \in [WinSlots -> WinRows] /\ WMAX \in Nat \ {0} /\ i + 1 \in 0 .. WMAX
  BY WinNumbers DEF WinShape, WinSlots
<1>2. FreeWin \in WinRows
  BY <1>1, WinNumbers DEF FreeWin, WinRows, NoWindow
<1>3. \A x \in Positions : [id |-> i + 1, x |-> x] \in WinRows
  BY <1>1 DEF WinRows
<1>4. WINS[i] \in WinRows /\ WINS[i].id \in 0 .. WMAX /\ WINS[i].x \in Int
  <2>1. WINS[i] \in WinRows
    BY <1>1
  <2>2. \A p \in Positions : p \in Int
    BY WinNumbers
  <2> QED
    BY <2>1, <2>2 DEF WinRows
<1>5. \A dx \in Int : [WINS[i] EXCEPT !.x = Clamp(@ + dx)] \in WinRows
  <2> SUFFICES ASSUME NEW dx \in Int
               PROVE  [WINS[i] EXCEPT !.x = Clamp(@ + dx)] \in WinRows
    OBVIOUS
  <2>1. Clamp(WINS[i].x + dx) \in Positions
    BY <1>4, ClampIs
  <2> QED
    BY <1>4, <2>1 DEF WinRows
<1>6. \A r \in WinRows : [WINS EXCEPT ![i] = r] \in [WinSlots -> WinRows]
  BY <1>1
<1>7. \A dx \in Int : [WINS EXCEPT ![i].x = Clamp(@ + dx)] =
                      [WINS EXCEPT ![i] = [WINS[i] EXCEPT !.x = Clamp(@ + dx)]]
  OBVIOUS
<1> QED
  BY <1>2, <1>3, <1>5, <1>6, <1>7 DEF Created

LEMMA RectsRebuilt ==
  ASSUME NEW wins \in [WinSlots -> WinRows], WINS' = wins, HIT_RECTS' = RectsOf(WINS')
  PROVE  HIT_RECTS' \in Seq(Rectangles) /\ Len(HIT_RECTS') <= WMAX /\ RectsKnown'
<1>1. HIT_RECTS' = RectsOf(wins) /\ Shown(WINS') = Shown(wins)
  OBVIOUS
<1> QED
  BY <1>1, RectsAreShown DEF RectsKnown

\* A program's call leaves the loop where it was, between two turns.
LEMMA CallKeeps ==
  ASSUME WinInv, todo = << >>, todo' = todo, raced' = raced,
         NEW ms \in Seq(Messages), Queued(ms)
  PROVE  QueueShape' /\ TodoShape' /\ HalfWritten'
<1>1. QueueShape'
  BY QueuedKeeps DEF WinInv, QueueShape
<1>2. TodoShape'
  BY DEF WinInv, TodoShape
<1>3. HalfWritten'
  BY DEF HalfWritten, Inside
<1> QED
  BY <1>1, <1>2, <1>3

LEMMA OneMessage ==
  ASSUME NEW kind \in MessageKinds, NEW w \in Int
  PROVE  Msg(kind, w) \in Messages /\ <<Msg(kind, w)>> \in Seq(Messages)
<1>1. Msg(kind, w) \in Messages
  BY DEF Msg, Messages
<1>2. \A m \in Messages : <<m>> \in Seq(Messages)
  OBVIOUS
<1> QED
  BY <1>1, <1>2

LEMMA WmCreateKeeps ==
  ASSUME WinInv, NEW x \in Positions, WmCreate(x)
  PROVE  WinInv'
<1> DEFINE i == Least(Holding(NoWindow))
<1>1. /\ todo = << >> /\ todo' = todo /\ raced' = raced /\ i \in WinSlots
      /\ WINS' = Created(WINS, i, x) /\ Queued(<<Msg("create", i + 1)>>)
      /\ HIT_RECTS' = RectsOf(WINS') /\ UNCHANGED <<mouseVars, WIN_PID, WX>>
  BY HoldingIs DEF WmCreate, deskVars
<1> HIDE DEF i
<1>2. <<Msg("create", i + 1)>> \in Seq(Messages)
  <2>1. i + 1 \in Int /\ "create" \in MessageKinds
    BY <1>1, WinNumbers DEF MessageKinds
  <2> QED
    BY <2>1, OneMessage
<1>3. QueueShape' /\ TodoShape' /\ HalfWritten'
  BY <1>1, <1>2, CallKeeps
<1>4. Created(WINS, i, x) \in [WinSlots -> WinRows]
  BY <1>1, RowsKept DEF WinInv
<1>5. HIT_RECTS' \in Seq(Rectangles) /\ Len(HIT_RECTS') <= WMAX /\ RectsKnown'
  BY <1>1, <1>4, RectsRebuilt
<1>6. WinShape'
  BY <1>1, <1>4, <1>5 DEF WinInv, WinShape, mouseVars
<1> QED
  BY <1>3, <1>5, <1>6 DEF WinInv

LEMMA WmRemoveKeeps ==
  ASSUME WinInv, NEW w \in 1 .. WMAX, WmRemove(w)
  PROVE  WinInv'
<1> DEFINE i == Least(Holding(w))
<1>1. /\ todo = << >> /\ todo' = todo /\ raced' = raced /\ i \in WinSlots
      /\ WINS' = [WINS EXCEPT ![i] = FreeWin] /\ Queued(<<Msg("destroy", w)>>)
      /\ HIT_RECTS' = RectsOf(WINS') /\ UNCHANGED <<mouseVars, WIN_PID, WX>>
  BY HoldingIs DEF WmRemove, deskVars
<1> HIDE DEF i
<1>2. <<Msg("destroy", w)>> \in Seq(Messages)
  <2>1. w \in Int /\ "destroy" \in MessageKinds
    BY DEF MessageKinds
  <2> QED
    BY <2>1, OneMessage
<1>3. QueueShape' /\ TodoShape' /\ HalfWritten'
  BY <1>1, <1>2, CallKeeps
<1>4. [WINS EXCEPT ![i] = FreeWin] \in [WinSlots -> WinRows]
  BY <1>1, RowsKept DEF WinInv
<1>5. HIT_RECTS' \in Seq(Rectangles) /\ Len(HIT_RECTS') <= WMAX /\ RectsKnown'
  BY <1>1, <1>4, RectsRebuilt
<1>6. WinShape'
  BY <1>1, <1>4, <1>5 DEF WinInv, WinShape, mouseVars
<1> QED
  BY <1>3, <1>5, <1>6 DEF WinInv

LEMMA WmMoveKeeps ==
  ASSUME WinInv, NEW w \in 1 .. WMAX, NEW dx \in Int, WmMove(w, dx)
  PROVE  WinInv'
<1> DEFINE i == Least(Holding(w))
<1>1. /\ todo = << >> /\ todo' = todo /\ raced' = raced /\ i \in WinSlots
      /\ WINS' = [WINS EXCEPT ![i].x = Clamp(@ + dx)] /\ Queued(<<Msg("move", w)>>)
      /\ HIT_RECTS' = RectsOf(WINS') /\ UNCHANGED <<mouseVars, WIN_PID, WX>>
  BY HoldingIs DEF WmMove, deskVars
<1> HIDE DEF i
<1>2. <<Msg("move", w)>> \in Seq(Messages)
  <2>1. w \in Int /\ "move" \in MessageKinds
    BY DEF MessageKinds
  <2> QED
    BY <2>1, OneMessage
<1>3. QueueShape' /\ TodoShape' /\ HalfWritten'
  BY <1>1, <1>2, CallKeeps
<1>4. [WINS EXCEPT ![i].x = Clamp(@ + dx)] \in [WinSlots -> WinRows]
  BY <1>1, RowsKept DEF WinInv
<1>5. HIT_RECTS' \in Seq(Rectangles) /\ Len(HIT_RECTS') <= WMAX /\ RectsKnown'
  BY <1>1, <1>4, RectsRebuilt
<1>6. WinShape'
  BY <1>1, <1>4, <1>5 DEF WinInv, WinShape, mouseVars
<1> QED
  BY <1>3, <1>5, <1>6 DEF WinInv

\* A set of slots has a last one.
LEMMA LastSlot ==
  ASSUME NEW T \in SUBSET WinSlots, T # {}
  PROVE  \E i \in T : \A j \in T : j <= i
<1>1. WMAX \in Nat \ {0} /\ \A i \in T : i \in 0 .. WMAX - 1
  BY WinNumbers DEF WinSlots
<1> DEFINE U == {k \in Nat : \E i \in T : k = WMAX - 1 - i}
<1>2. U \in SUBSET Nat /\ \A i \in T : WMAX - 1 - i \in U
  BY <1>1
<1>3. U # {}
  BY <1>2
<1>4. \A k \in U : \E i \in T : k = WMAX - 1 - i
  OBVIOUS
<1> HIDE DEF U
<1>5. PICK k \in U : \A m \in U : k <= m
  BY <1>2, <1>3, Minimum
<1>6. PICK i \in T : k = WMAX - 1 - i
  BY <1>4, <1>5
<1>7. ASSUME NEW j \in T
      PROVE  j <= i
  <2>1. WMAX - 1 - i <= WMAX - 1 - j
    BY <1>2, <1>5, <1>6
  <2> QED
    BY <1>1, <2>1
<1> QED
  BY <1>7

\* Rows that change places are still there.
LEMMA RowsTurned ==
  ASSUME NEW rows \in [WinSlots -> WinRows], NEW i \in WinSlots, NEW n \in WinSlots, i <= n,
         NEW new, new = [j \in WinSlots |-> IF j \in i .. n - 1 THEN rows[j + 1]
                                            ELSE IF j = n THEN rows[i] ELSE rows[j]]
  PROVE  new \in [WinSlots -> WinRows] /\ Shown(new) = Shown(rows)
<1>1. WMAX \in Nat \ {0} /\ \A j \in WinSlots : j \in Nat /\ j <= WMAX - 1
  BY WinNumbers DEF WinSlots
<1>2. \A j \in i .. n - 1 : j + 1 \in WinSlots
  BY <1>1 DEF WinSlots
<1> DEFINE from(j) == IF j \in i .. n - 1 THEN j + 1 ELSE IF j = n THEN i ELSE j
           to(j) == IF j = i THEN n ELSE IF j \in i + 1 .. n THEN j - 1 ELSE j
<1>3. \A j \in WinSlots : from(j) \in WinSlots
  BY <1>2
<1>4. \A j \in WinSlots : to(j) \in WinSlots
  BY <1>1 DEF WinSlots
<1>5. \A j \in WinSlots : from(to(j)) = j
  <2> SUFFICES ASSUME NEW j \in WinSlots
               PROVE  from(to(j)) = j
    OBVIOUS
  <2>1. j \in Int /\ i \in Int /\ n \in Int
    BY <1>1
  <2>2. CASE j = i
    BY <2>1, <2>2
  <2>3. CASE j # i /\ j \in i + 1 .. n
    BY <2>1, <2>3
  <2>4. CASE j # i /\ j \notin i + 1 .. n
    BY <2>1, <2>4
  <2> QED
    BY <2>2, <2>3, <2>4
<1>6. \A j \in WinSlots : new[j] = rows[from(j)]
  OBVIOUS
<1>7. new \in [WinSlots -> WinRows]
  BY <1>2
<1> HIDE DEF from, to
<1> DEFINE rect(r, j) == [lo |-> r[j].x, hi |-> r[j].x + Width, id |-> r[j].id]
<1>8. \A j \in WinSlots : rect(new, j) = rect(rows, from(j)) /\ new[j].id = rows[from(j)].id
  BY <1>6
<1>9. \A j \in WinSlots : rect(rows, j) = rect(new, to(j)) /\ rows[j].id = new[to(j)].id
  BY <1>4, <1>5, <1>8
<1>10. /\ Shown(new) = {rect(new, j) : j \in {k \in WinSlots : new[k].id # NoWindow}}
       /\ Shown(rows) = {rect(rows, j) : j \in {k \in WinSlots : rows[k].id # NoWindow}}
  BY DEF Shown
<1> HIDE DEF rect
<1>11. Shown(new) \subseteq Shown(rows)
  BY <1>3, <1>8, <1>10
<1>12. Shown(rows) \subseteq Shown(new)
  BY <1>4, <1>9, <1>10
<1> QED
  BY <1>7, <1>11, <1>12

LEMMA WmTopKeeps ==
  ASSUME WinInv, NEW w \in 1 .. WMAX, WmTop(w)
  PROVE  WinInv'
<1> DEFINE i == CHOOSE i \in Holding(w) : \A j \in Holding(w) : j <= i
           IsEnd(n) == WINS[n].id /= NoWindow /\ \A j \in WinSlots : j > n => WINS[j].id = NoWindow
           n == CHOOSE n \in WinSlots : IsEnd(n)
           turned == [j \in WinSlots |-> IF j \in i .. n - 1 THEN WINS[j + 1]
                                         ELSE IF j = n THEN WINS[i] ELSE WINS[j]]
<1>1. /\ todo = << >> /\ todo' = todo /\ raced' = raced /\ foreign' = foreign /\ Holding(w) # {}
      /\ WINS' = turned /\ Queued(<<Msg("zorder", w)>>)
      /\ UNCHANGED <<HIT_RECTS, mouseVars, WIN_PID, WX>>
  BY DEF WmTop, deskVars
<1>2. WINS \in [WinSlots -> WinRows]
  BY DEF WinInv, WinShape
<1>3. i \in Holding(w)
  <2>1. Holding(w) \in SUBSET WinSlots
    BY DEF Holding
  <2> QED
    BY <1>1, <2>1, LastSlot
<1>4. i \in WinSlots /\ WINS[i].id = w /\ w # NoWindow
  BY <1>3 DEF Holding, NoWindow
<1>5. n \in WinSlots /\ IsEnd(n)
  <2> DEFINE inUse == {j \in WinSlots : WINS[j].id # NoWindow}
  <2>1. inUse \in SUBSET WinSlots /\ inUse # {}
    BY <1>4
  <2>2. PICK e \in inUse : \A j \in inUse : j <= e
    <3> HIDE DEF inUse
    <3> QED
      BY <2>1, LastSlot
  <2>3. e \in WinSlots /\ WINS[e].id /= NoWindow
    BY <2>2
  <2>4. ASSUME NEW j \in WinSlots, j > e
        PROVE  WINS[j].id = NoWindow
    <3>1. ~(j <= e)
      BY <2>3, <2>4, WinNumbers
    <3> QED
      BY <2>2, <3>1
  <2>5. IsEnd(e)
    BY <2>3, <2>4
  <2> HIDE DEF IsEnd
  <2> QED
    BY <2>3, <2>5
<1>6. i <= n
  <2>1. ~(i > n)
    BY <1>4, <1>5
  <2> QED
    BY <1>4, <1>5, <2>1, WinNumbers
<1> HIDE DEF i, IsEnd, n
<1>7. turned \in [WinSlots -> WinRows] /\ Shown(turned) = Shown(WINS)
  BY <1>2, <1>4, <1>5, <1>6, RowsTurned
<1> HIDE DEF turned
<1>8. Shown(WINS') = Shown(turned)
  BY <1>1
<1>9. RectsKnown'
  <2>1. ~Rebuilding(todo)
    BY <1>1 DEF Rebuilding
  <2> QED
    BY <1>1, <1>7, <1>8, <2>1 DEF WinInv, RectsKnown
<1>10. <<Msg("zorder", w)>> \in Seq(Messages)
  <2>1. w \in Int /\ "zorder" \in MessageKinds
    BY DEF MessageKinds
  <2> QED
    BY <2>1, OneMessage
<1>11. QueueShape' /\ TodoShape' /\ HalfWritten'
  BY <1>1, <1>10, CallKeeps
<1>12. WinShape'
  BY <1>1, <1>7 DEF WinInv, WinShape, mouseVars
<1> QED
  BY <1>9, <1>11, <1>12 DEF WinInv

LEMMA MouseRectsKeeps ==
  ASSUME WinInv, MouseRects(<< >>)
  PROVE  WinInv'
<1>1. /\ HIT_RECTS' = << >> /\ foreign'
      /\ UNCHANGED <<WINS, FOCUS_ID, MS_X, MS_PKT, WIN_PID, WX, queue, owed, raced, todo>>
  BY DEF MouseRects, mouseVars, queueVars, deskVars
<1>2. << >> \in Seq(Rectangles) /\ Len(<< >>) = 0
  OBVIOUS
<1>3. WinShape'
  BY <1>1, <1>2, WinNumbers DEF WinInv, WinShape
<1>4. QueueShape' /\ TodoShape' /\ HalfWritten'
  BY <1>1 DEF WinInv, QueueShape, TodoShape, HalfWritten, Waiting, Inside, Full
<1>5. RectsKnown'
  BY <1>1 DEF RectsKnown
<1> QED
  BY <1>3, <1>4, <1>5 DEF WinInv

LEMMA DndDropKeeps ==
  ASSUME WinInv, NEW x \in Positions, DndDrop(x)
  PROVE  WinInv'
<1> DEFINE w == Hit(x)
<1>1. /\ todo = << >> /\ todo' = todo /\ raced' = raced /\ Queued(<<Msg("dropfiles", w)>>)
      /\ UNCHANGED <<WINS, HIT_RECTS, FOCUS_ID, MS_X, MS_PKT, WIN_PID, WX, foreign>>
  BY DEF DndDrop, mouseVars, deskVars
<1>2. w \in 0 .. WMAX
  BY HitIs DEF WinInv
<1> HIDE DEF w
<1>3. <<Msg("dropfiles", w)>> \in Seq(Messages)
  <2>1. w \in Int /\ "dropfiles" \in MessageKinds
    BY <1>2 DEF MessageKinds
  <2> QED
    BY <2>1, OneMessage
<1>4. QueueShape' /\ TodoShape' /\ HalfWritten'
  BY <1>1, <1>3, CallKeeps
<1>5. WinShape'
  BY <1>1 DEF WinInv, WinShape
<1>6. RectsKnown'
  BY <1>1 DEF WinInv, RectsKnown
<1> QED
  BY <1>4, <1>5, <1>6 DEF WinInv

LEMMA WmGetmsgKeeps ==
  ASSUME WinInv, WmGetmsg
  PROVE  WinInv'
<1> DEFINE b == queue.buf
           rd == queue.rd
           wr == queue.wr
           r == (rd + 1) % QLEN
<1>1. /\ todo = << >> /\ todo' = todo /\ rd # wr
      /\ queue' = [queue EXCEPT !.rd = r]
      /\ owed' = (IF owed = << >> THEN owed ELSE Tail(owed))
      /\ UNCHANGED <<WINS, HIT_RECTS, FOCUS_ID, MS_X, MS_PKT, WIN_PID, WX, foreign, raced>>
  BY DEF WmGetmsg, mouseVars, deskVars
<1>2. /\ queue \in Queues /\ owed \in Seq(Messages) /\ (raced \/ owed = Waiting)
      /\ b \in [0 .. QLEN - 1 -> Messages] /\ rd \in 0 .. QLEN - 1 /\ wr \in 0 .. QLEN - 1
      /\ QLEN \in Nat \ {0, 1}
  BY WinNumbers DEF WinInv, QueueShape, Queues
<1>3. Waiting = RingSeq(b, rd, wr, QLEN)
  BY DEF Waiting, RingSeq
<1>4. r \in 0 .. QLEN - 1
  BY <1>2, NextSlot
<1> HIDE DEF r
<1>5. queue' \in Queues /\ queue'.buf = b /\ queue'.rd = r /\ queue'.wr = wr
  BY <1>1, <1>2, <1>4 DEF Queues
<1>6. Waiting' = RingSeq(b, r, wr, QLEN)
  BY <1>5 DEF Waiting, RingSeq
<1> HIDE DEF b, rd, wr
<1>7. FirstIsTaken(b, rd, wr, QLEN)
  BY <1>1, <1>2, RingTakes
<1>8. owed' \in Seq(Messages)
  BY <1>1, <1>2, HeadTailProperties
<1>9. raced' \/ owed' = Waiting'
  BY <1>1, <1>2, <1>3, <1>6, <1>7 DEF FirstIsTaken, r
<1>10. QueueShape'
  BY <1>5, <1>8, <1>9 DEF QueueShape
<1>11. TodoShape' /\ HalfWritten' /\ WinShape' /\ RectsKnown'
  BY <1>1 DEF WinInv, TodoShape, HalfWritten, Inside, WinShape, RectsKnown
<1> QED
  BY <1>10, <1>11 DEF WinInv

-----------------------------------------------------------------------------
\* The mouse.
LEMMA FirstByteKeeps ==
  ASSUME WinInv, NEW b \in MouseBytes, FirstByte(b)
  PROVE  WinInv'
<1>1. /\ MS_PKT' = (IF (b \div 8) % 2 = 1 THEN <<b>> ELSE << >>)
      /\ UNCHANGED <<WINS, HIT_RECTS, FOCUS_ID, MS_X, WIN_PID, WX, queue, owed, raced, todo, foreign>>
  BY DEF FirstByte, queueVars, deskVars
<1>2. b \in 0 .. 255
  BY WindowsAssumption
<1>3. /\ <<b>> \in Seq(0 .. 255) /\ Len(<<b>>) <= 2
      /\ << >> \in Seq(0 .. 255) /\ Len(<< >>) <= 2
  BY <1>2
<1>4. MS_PKT' \in Seq(0 .. 255) /\ Len(MS_PKT') <= 2
  BY <1>1, <1>3
<1>5. WinShape'
  BY <1>1, <1>4 DEF WinInv, WinShape
<1> QED
  BY <1>1, <1>5 DEF WinInv, QueueShape, TodoShape, HalfWritten, RectsKnown, Waiting, Inside, Full

LEMMA SecondByteKeeps ==
  ASSUME WinInv, NEW b \in MouseBytes, SecondByte(b)
  PROVE  WinInv'
<1>1. /\ MS_PKT' = Append(MS_PKT, b) /\ Len(MS_PKT) = 1 /\ MS_PKT \in Seq(0 .. 255)
      /\ UNCHANGED <<WINS, HIT_RECTS, FOCUS_ID, MS_X, WIN_PID, WX, queue, owed, raced, todo, foreign>>
  BY DEF SecondByte, queueVars, deskVars, WinInv, WinShape
<1>2. b \in 0 .. 255
  BY WindowsAssumption
<1>4. MS_PKT' \in Seq(0 .. 255) /\ Len(MS_PKT') <= 2
  <2> DEFINE Bytes == 0 .. 255
  <2>1. MS_PKT \in Seq(Bytes) /\ b \in Bytes
    BY <1>1, <1>2
  <2> HIDE DEF Bytes
  <2>2. Append(MS_PKT, b) \in Seq(Bytes) /\ Len(Append(MS_PKT, b)) = Len(MS_PKT) + 1
    BY <2>1, AppendProperties
  <2> QED
    BY <1>1, <2>2 DEF Bytes
<1>5. WinShape'
  BY <1>1, <1>4 DEF WinInv, WinShape
<1> QED
  BY <1>1, <1>5 DEF WinInv, QueueShape, TodoShape, HalfWritten, RectsKnown, Waiting, Inside, Full

\* A message or none.
LEMMA PerhapsOne ==
  ASSUME NEW kind \in MessageKinds, NEW w \in Int, NEW c
  PROVE  (IF c THEN <<Msg(kind, w)>> ELSE << >>) \in Seq(Messages)
<1>1. << >> \in Seq(Messages)
  OBVIOUS
<1> QED
  BY <1>1, OneMessage

LEMMA LastByteKeeps ==
  ASSUME WinInv, LastByte
  PROVE  WinInv'
<1> DEFINE left(f) == IF FOCUS_ID /= NoWindow /\ FOCUS_ID /= f
                      THEN <<Msg("leave", FOCUS_ID)>> ELSE << >>
           entered(f) == IF f /= NoWindow /\ FOCUS_ID /= f
                         THEN <<Msg("enter", f)>> ELSE << >>
           moved(f) == IF f = NoWindow THEN << >> ELSE <<Msg("mousemove", f)>>
           button(f, b) == IF f = NoWindow \/ b = 0 THEN << >> ELSE <<Msg("button", f)>>
<1>1. PICK x, f, b : x = MS_X' /\ f = FOCUS_ID' /\ b = MS_BTN'
  OBVIOUS
<1>2. /\ Len(MS_PKT) = 2 /\ MS_PKT' = << >> /\ x = Clamp(MS_X + Signed(MS_PKT[2])) /\ f = Hit(x)
      /\ Queued(left(f) \o entered(f) \o moved(f) \o button(f, b))
      /\ UNCHANGED <<WINS, HIT_RECTS, WIN_PID, WX, todo, foreign>>
  BY <1>1 DEF LastByte, deskVars
<1>3. raced' = (raced \/ (Inside /\ queue' /= queue))
  BY DEF LastByte
<1>4. FOCUS_ID \in 0 .. WMAX /\ f \in 0 .. WMAX /\ FOCUS_ID \in Int /\ f \in Int
  <2>1. FOCUS_ID \in 0 .. WMAX /\ f \in 0 .. WMAX
    BY <1>2, HitIs DEF WinInv, WinShape
  <2> QED
    BY <2>1
<1>5. x \in Positions
  <2>1. MS_PKT[2] \in 0 .. 255
    <3> DEFINE Bytes == 0 .. 255
    <3>1. MS_PKT \in Seq(Bytes) /\ 2 \in 1 .. Len(MS_PKT)
      BY <1>2 DEF WinInv, WinShape
    <3> HIDE DEF Bytes
    <3>2. MS_PKT[2] \in Bytes
      BY <3>1, ElementOfSeq
    <3> QED
      BY <3>2 DEF Bytes
  <2>2. MS_X \in Int
    BY WinNumbers DEF WinInv, WinShape
  <2>3. MS_X + Signed(MS_PKT[2]) \in Int
    BY <2>1, <2>2 DEF Signed
  <2> QED
    BY <1>2, <2>3, ClampIs
<1> DEFINE ms == left(f) \o entered(f) \o moved(f) \o button(f, b)
<1>6. ms \in Seq(Messages)
  <2>1. {"leave", "enter", "mousemove", "button"} \subseteq MessageKinds
    BY DEF MessageKinds
  <2>2. left(f) \in Seq(Messages) /\ entered(f) \in Seq(Messages)
        /\ moved(f) \in Seq(Messages) /\ button(f, b) \in Seq(Messages)
    <3>1. << >> \in Seq(Messages)
      OBVIOUS
    <3>2. /\ <<Msg("leave", FOCUS_ID)>> \in Seq(Messages) /\ <<Msg("enter", f)>> \in Seq(Messages)
          /\ <<Msg("mousemove", f)>> \in Seq(Messages) /\ <<Msg("button", f)>> \in Seq(Messages)
      BY <1>4, <2>1, OneMessage
    <3> QED
      BY <3>1, <3>2
  <2> HIDE DEF left, entered, moved, button
  <2>3. left(f) \o entered(f) \in Seq(Messages)
    BY <2>2, ConcatProperties
  <2>4. left(f) \o entered(f) \o moved(f) \in Seq(Messages)
    BY <2>2, <2>3, ConcatProperties
  <2> QED
    BY <2>2, <2>4, ConcatProperties
<1>7. Queued(ms)
  BY <1>2
<1> HIDE DEF ms
<1>8. queue' \in Queues /\ owed' \in Seq(Messages) /\ (owed = Waiting => owed' = Waiting')
  BY <1>6, <1>7, QueuedKeeps DEF WinInv, QueueShape
<1>9. raced => raced'
  BY <1>3, Zenon
<1>10. Inside /\ ~raced' => queue' = queue
  BY <1>3, Zenon
<1>11. QueueShape'
  BY <1>8, <1>9 DEF WinInv, QueueShape
<1>12. HalfWritten'
  <2>1. Inside' => Inside
    BY <1>2 DEF Inside
  <2>2. CASE Inside /\ ~raced'
    <3>1. queue' = queue /\ ~raced
      BY <1>9, <1>10, <2>2
    <3> QED
      BY <1>2, <2>2, <3>1 DEF WinInv, HalfWritten, Inside, Full
  <2> QED
    BY <2>1, <2>2 DEF HalfWritten
<1>13. TodoShape' /\ RectsKnown'
  BY <1>2 DEF WinInv, TodoShape, RectsKnown
<1>14. WinShape'
  <2>1. << >> \in Seq(0 .. 255) /\ Len(<< >>) <= 2
    OBVIOUS
  <2> QED
    BY <1>1, <1>2, <1>4, <1>5, <2>1 DEF WinInv, WinShape
<1> QED
  BY <1>11, <1>12, <1>13, <1>14 DEF WinInv

-----------------------------------------------------------------------------
\* The desktop loop.
LEMMA KillIs ==
  ASSUME NEW ops, ops \in {Kill, Kill \o << <<"start">> >>}
  PROVE  ops \in Seq(Ops) /\ Unstarted(ops)
<1> DEFINE Plain == {<<"remove">>, <<"forget">>, <<"start">>}
<1>1. Plain \subseteq Ops /\ \A op \in Plain : op[1] # "advance"
  BY DEF Ops
<1>2. /\ << <<"remove">> >> \in Seq(Plain) /\ << <<"forget">> >> \in Seq(Plain)
      /\ << <<"start">> >> \in Seq(Plain) /\ << >> \in Seq(Plain)
  OBVIOUS
<1> HIDE DEF Plain
<1> DEFINE first == IF WIN_PID = NoWindow THEN << >> ELSE << <<"remove">> >>
<1>3. first \in Seq(Plain)
  BY <1>2
<1>4. Kill = first \o << <<"forget">> >>
  BY DEF Kill
<1> HIDE DEF first
<1>5. Kill \in Seq(Plain)
  BY <1>2, <1>3, <1>4, ConcatProperties
<1>6. Kill \o << <<"start">> >> \in Seq(Plain)
  BY <1>2, <1>5, ConcatProperties
<1>7. ops \in Seq(Plain)
  BY <1>5, <1>6
<1>8. \A k \in 1 .. Len(ops) : ops[k] \in Plain
  BY <1>7, ElementOfSeq
<1>9. ops \in Seq(Ops)
  BY <1>1, <1>7, <1>8
<1> QED
  BY <1>1, <1>8, <1>9 DEF Unstarted

\* The loop begins a call between two turns.
LEMMA TurnKeeps ==
  ASSUME WinInv, todo = << >>, todo' \in Seq(Ops), Unstarted(todo'),
         UNCHANGED <<WINS, HIT_RECTS, FOCUS_ID, MS_X, MS_PKT, WIN_PID, queue, owed, raced, foreign>>,
         WX' \in Positions
  PROVE  WinInv'
<1>1. WinShape' /\ QueueShape'
  BY DEF WinInv, WinShape, QueueShape, Waiting
<1>2. TodoShape'
  <2>1. \A k \in 2 .. Len(todo') : k \in 1 .. Len(todo')
    OBVIOUS
  <2> QED
    BY <2>1 DEF TodoShape, Unstarted
<1>3. ~Inside'
  BY DEF Inside, Unstarted
<1>4. RectsKnown'
  BY DEF WinInv, RectsKnown, Rebuilding
<1> QED
  BY <1>1, <1>2, <1>3, <1>4 DEF WinInv, HalfWritten

LEMMA LoopLaunchKeeps ==
  ASSUME WinInv, LoopLaunch
  PROVE  WinInv'
<1>1. /\ todo = << >> /\ todo' = Kill \o << <<"start">> >>
      /\ UNCHANGED <<WINS, HIT_RECTS, FOCUS_ID, MS_X, MS_PKT, WIN_PID, WX, queue, owed, raced, foreign>>
  BY DEF LoopLaunch, mouseVars, queueVars, deskVars
<1>2. PICK ops : ops = Kill \o << <<"start">> >>
  OBVIOUS
<1>3. ops \in Seq(Ops) /\ Unstarted(ops)
  BY <1>2, KillIs
<1>4. todo' = ops
  BY <1>1, <1>2
<1>5. todo' \in Seq(Ops) /\ Unstarted(todo')
  BY <1>3, <1>4 DEF Unstarted
<1>6. WX' \in Positions
  BY <1>1 DEF WinInv, WinShape
<1> QED
  BY <1>1, <1>5, <1>6, TurnKeeps

LEMMA LoopMouseKeeps ==
  ASSUME WinInv, LoopMouse
  PROVE  WinInv'
<1>1. << >> \in Seq(Ops) /\ Unstarted(<< >>)
  BY DEF Unstarted
<1>2. ASSUME NEW t \in Targets, NEW quick \in BOOLEAN, LoopPress(t, quick)
      PROVE  WinInv'
  <2>1. /\ todo = << >> /\ todo' \in {<< >>, Kill, Kill \o << <<"start">> >>}
        /\ UNCHANGED <<WINS, HIT_RECTS, FOCUS_ID, MS_X, MS_PKT, WIN_PID, WX, queue, owed, raced, foreign>>
    BY <1>2 DEF LoopPress, mouseVars, queueVars
  <2>2. PICK ops : ops = todo'
    OBVIOUS
  <2>3. ops \in Seq(Ops) /\ Unstarted(ops)
    <3>1. ops = << >> \/ ops \in {Kill, Kill \o << <<"start">> >>}
      BY <2>1, <2>2
    <3> QED
      BY <1>1, <3>1, KillIs
  <2>4. todo' \in Seq(Ops) /\ Unstarted(todo')
    BY <2>2, <2>3 DEF Unstarted
  <2>5. WX' \in Positions
    BY <2>1 DEF WinInv, WinShape
  <2> QED
    BY <2>1, <2>4, <2>5, TurnKeeps
<1>3. CASE LoopRelease
  <2>1. /\ todo = << >> /\ todo' = todo
        /\ UNCHANGED <<WINS, HIT_RECTS, FOCUS_ID, MS_X, MS_PKT, WIN_PID, WX, queue, owed, raced, foreign>>
    BY <1>3 DEF LoopRelease, mouseVars, queueVars
  <2>2. todo' \in Seq(Ops) /\ Unstarted(todo') /\ WX' \in Positions
    BY <1>1, <2>1 DEF WinInv, WinShape, Unstarted
  <2> QED
    BY <2>1, <2>2, TurnKeeps
<1>4. ASSUME NEW x \in Positions, LoopDrag(x)
      PROVE  WinInv'
  <2>1. /\ todo = << >> /\ todo' = todo /\ WX' = x
        /\ UNCHANGED <<WINS, HIT_RECTS, FOCUS_ID, MS_X, MS_PKT, WIN_PID, queue, owed, raced, foreign>>
    BY <1>4 DEF LoopDrag, mouseVars, queueVars
  <2>2. todo' \in Seq(Ops) /\ Unstarted(todo') /\ WX' \in Positions
    BY <1>1, <2>1 DEF Unstarted
  <2> QED
    BY <2>1, <2>2, TurnKeeps
<1> QED
  BY <1>2, <1>3, <1>4 DEF LoopMouse

\* What is left to do is of the right kind, and its first step is known.
LEMMA StepLeaves ==
  ASSUME WinInv, todo # << >>
  PROVE  /\ Head(todo) \in Ops /\ todo \in Seq(Ops)
         /\ << >> \in Seq(Ops) /\ \A k \in 2 .. Len(<< >>) : << >>[k][1] # "advance"
<1>1. todo \in Seq(Ops)
  BY DEF WinInv, TodoShape
<1>2. Head(todo) \in Ops
  BY <1>1, HeadTailProperties
<1> QED
  BY <1>1, <1>2

\* A step that ends with what was left behind it and touches no message.
LEMMA QuietStep ==
  ASSUME WinInv, todo # << >>, Head(todo)[1] # "advance", NEW ops \in Seq(Ops),
         Unstarted(ops), WithRest(ops), UNCHANGED <<queue, owed, raced>>
  PROVE  /\ QueueShape' /\ TodoShape' /\ HalfWritten'
         /\ Rebuilding(ops) => Rebuilding(todo')
         /\ Rebuilding(todo) /\ Head(todo) # <<"rects">> => Rebuilding(todo')
<1>1. \A k \in 2 .. Len(ops) : ops[k][1] # "advance"
  BY DEF Unstarted
<1>2. /\ TodoShape'
      /\ Inside' => ops # << >> /\ Head(todo') = ops[1] /\ ops[1][1] = "advance"
      /\ Rebuilding(ops) => Rebuilding(todo')
      /\ Rebuilding(todo) /\ Head(todo) # <<"rects">> => Rebuilding(todo')
  BY <1>1, RestIs DEF WinInv
<1>3. ~Inside'
  <2>1. ops # << >> => 1 \in 1 .. Len(ops)
    OBVIOUS
  <2> QED
    BY <1>2, <2>1 DEF Unstarted
<1>4. QueueShape'
  BY DEF WinInv, QueueShape, Waiting
<1> QED
  BY <1>2, <1>3, <1>4 DEF HalfWritten

LEMMA StepRemoveKeeps ==
  ASSUME WinInv, todo # << >>, StepRemove
  PROVE  WinInv'
<1>1. /\ Head(todo) = <<"remove">> /\ Head(todo)[1] # "advance" /\ Head(todo) # <<"rects">>
      /\ UNCHANGED <<queue, owed, raced>>
      /\ UNCHANGED <<HIT_RECTS, FOCUS_ID, MS_X, MS_PKT, WIN_PID, WX, foreign>>
  BY DEF StepRemove, mouseVars, queueVars, deskVars
<1>2. CASE Holding(WIN_PID) = {}
  <2>1. WithRest(<< >>) /\ WINS' = WINS
    BY <1>2 DEF StepRemove
  <2>2. << >> \in Seq(Ops) /\ Unstarted(<< >>)
    BY DEF Unstarted
  <2>3. /\ QueueShape' /\ TodoShape' /\ HalfWritten'
        /\ Rebuilding(todo) => Rebuilding(todo')
    BY <1>1, <2>1, <2>2, QuietStep
  <2>4. WinShape' /\ RectsKnown'
    BY <1>1, <2>1, <2>3 DEF WinInv, WinShape, RectsKnown
  <2> QED
    BY <2>3, <2>4 DEF WinInv
<1>3. CASE Holding(WIN_PID) # {}
  <2> DEFINE m == Msg("destroy", WIN_PID)
             ops == << <<"slot", m>>, <<"rects">> >>
             i == Least(Holding(WIN_PID))
  <2>1. WithRest(ops) /\ WINS' = [WINS EXCEPT ![i] = FreeWin]
    BY <1>3 DEF StepRemove
  <2>2. i \in WinSlots
    BY <1>3, HoldingIs
  <2>3. m \in Messages
    <3>1. WIN_PID \in Int /\ "destroy" \in MessageKinds
      BY WinNumbers DEF WinInv, WinShape, MessageKinds
    <3> QED
      BY <3>1, OneMessage
  <2> HIDE DEF m, i
  <2>4. <<"slot", m>> \in Ops /\ <<"rects">> \in Ops
    BY <2>3 DEF Ops
  <2>5. ops \in Seq(Ops) /\ Unstarted(ops) /\ Rebuilding(ops)
    <3>1. /\ Len(ops) = 2 /\ ops[1] = <<"slot", m>> /\ ops[2] = <<"rects">>
          /\ ops[1][1] # "advance" /\ ops[2][1] # "advance" /\ ops \in Seq(Ops)
      BY <2>4
    <3>2. \A k \in 1 .. 2 : k = 1 \/ k = 2
      OBVIOUS
    <3> HIDE DEF ops
    <3> QED
      BY <3>1, <3>2 DEF Unstarted, Rebuilding
  <2> HIDE DEF ops
  <2>6. QueueShape' /\ TodoShape' /\ HalfWritten' /\ Rebuilding(todo')
    BY <1>1, <2>1, <2>5, QuietStep
  <2>7. WinShape'
    BY <1>1, <2>1, <2>2, RowsKept DEF WinInv, WinShape
  <2> QED
    BY <2>6, <2>7 DEF WinInv, RectsKnown
<1> QED
  BY <1>2, <1>3

LEMMA StepForgetKeeps ==
  ASSUME WinInv, todo # << >>, StepForget
  PROVE  WinInv'
<1>1. /\ Head(todo) = <<"forget">> /\ Head(todo)[1] # "advance" /\ Head(todo) # <<"rects">>
      /\ UNCHANGED <<queue, owed, raced>> /\ WithRest(<< >>) /\ WIN_PID' = NoWindow
      /\ UNCHANGED <<WINS, HIT_RECTS, FOCUS_ID, MS_X, MS_PKT, WX, foreign>>
  BY DEF StepForget, mouseVars, queueVars
<1>2. << >> \in Seq(Ops) /\ Unstarted(<< >>)
  BY DEF Unstarted
<1>3. /\ QueueShape' /\ TodoShape' /\ HalfWritten'
      /\ Rebuilding(todo) => Rebuilding(todo')
  BY <1>1, <1>2, QuietStep
<1>4. WinShape'
  BY <1>1, WinNumbers DEF WinInv, WinShape, NoWindow
<1>5. RectsKnown'
  BY <1>1, <1>3 DEF WinInv, RectsKnown
<1> QED
  BY <1>3, <1>4, <1>5 DEF WinInv

LEMMA StepStartKeeps ==
  ASSUME WinInv, todo # << >>, StepStart
  PROVE  WinInv'
<1>1. /\ Head(todo) = <<"start">> /\ Head(todo)[1] # "advance" /\ Head(todo) # <<"rects">>
      /\ UNCHANGED <<queue, owed, raced>>
      /\ UNCHANGED <<WINS, HIT_RECTS, FOCUS_ID, MS_X, MS_PKT, WIN_PID, WX, foreign>>
  BY DEF StepStart, mouseVars, queueVars
<1>2. PICK ops \in {<< >>, << <<"create">> >>} : WithRest(ops)
  BY DEF StepStart
<1>3. ops \in Seq(Ops) /\ Unstarted(ops)
  <2>1. << >> \in Seq(Ops) /\ Unstarted(<< >>)
    BY DEF Unstarted
  <2>2. << <<"create">> >> \in Seq(Ops) /\ Unstarted(<< <<"create">> >>)
    BY DEF Ops, Unstarted
  <2> QED
    BY <2>1, <2>2
<1>4. /\ QueueShape' /\ TodoShape' /\ HalfWritten'
      /\ Rebuilding(todo) => Rebuilding(todo')
  BY <1>1, <1>2, <1>3, QuietStep
<1>5. WinShape' /\ RectsKnown'
  BY <1>1, <1>4 DEF WinInv, WinShape, RectsKnown
<1> QED
  BY <1>4, <1>5 DEF WinInv

LEMMA StepCreateKeeps ==
  ASSUME WinInv, todo # << >>, StepCreate
  PROVE  WinInv'
<1>1. /\ Head(todo) = <<"create">> /\ Head(todo)[1] # "advance" /\ Head(todo) # <<"rects">>
      /\ UNCHANGED <<queue, owed, raced>>
      /\ UNCHANGED <<HIT_RECTS, FOCUS_ID, MS_X, MS_PKT, WX, foreign>>
  BY DEF StepCreate, mouseVars, queueVars
<1>2. CASE Holding(NoWindow) = {}
  <2>1. WithRest(<< >>) /\ WINS' = WINS /\ WIN_PID' = -12
    BY <1>2 DEF StepCreate
  <2>2. << >> \in Seq(Ops) /\ Unstarted(<< >>)
    BY DEF Unstarted
  <2>3. /\ QueueShape' /\ TodoShape' /\ HalfWritten'
        /\ Rebuilding(todo) => Rebuilding(todo')
    BY <1>1, <2>1, <2>2, QuietStep
  <2>4. WinShape' /\ RectsKnown'
    BY <1>1, <2>1, <2>3 DEF WinInv, WinShape, RectsKnown
  <2> QED
    BY <2>3, <2>4 DEF WinInv
<1>3. CASE Holding(NoWindow) # {}
  <2> DEFINE i == Least(Holding(NoWindow))
             m == Msg("create", i + 1)
             ops == << <<"rects">>, <<"slot", m>> >>
  <2>1. WithRest(ops) /\ WINS' = Created(WINS, i, WX) /\ WIN_PID' = i + 1
    BY <1>3 DEF StepCreate
  <2>2. i \in WinSlots /\ i + 1 \in 0 .. WMAX
    <3>1. i \in WinSlots
      BY <1>3, HoldingIs
    <3> QED
      BY <3>1, WinNumbers DEF WinSlots
  <2> HIDE DEF i
  <2>3. m \in Messages
    <3>1. i + 1 \in Int /\ "create" \in MessageKinds
      BY <2>2, WinNumbers DEF MessageKinds
    <3> QED
      BY <3>1, OneMessage
  <2> HIDE DEF m
  <2>4. <<"slot", m>> \in Ops /\ <<"rects">> \in Ops
    BY <2>3 DEF Ops
  <2>5. ops \in Seq(Ops) /\ Unstarted(ops) /\ Rebuilding(ops)
    <3>1. /\ Len(ops) = 2 /\ ops[1] = <<"rects">> /\ ops[2] = <<"slot", m>>
          /\ ops[1][1] # "advance" /\ ops[2][1] # "advance" /\ ops \in Seq(Ops)
      BY <2>4
    <3>2. \A k \in 1 .. 2 : k = 1 \/ k = 2
      OBVIOUS
    <3> HIDE DEF ops
    <3> QED
      BY <3>1, <3>2 DEF Unstarted, Rebuilding
  <2> HIDE DEF ops
  <2>6. QueueShape' /\ TodoShape' /\ HalfWritten' /\ Rebuilding(todo')
    BY <1>1, <2>1, <2>5, QuietStep
  <2>7. WinShape'
    <3>1. Created(WINS, i, WX) \in [WinSlots -> WinRows]
      BY <2>2, RowsKept DEF WinInv, WinShape
    <3> QED
      BY <1>1, <2>1, <2>2, <3>1 DEF WinInv, WinShape
  <2> QED
    BY <2>6, <2>7 DEF WinInv, RectsKnown
<1> QED
  BY <1>2, <1>3

LEMMA StepRectsKeeps ==
  ASSUME WinInv, todo # << >>, StepRects
  PROVE  WinInv'
<1>1. /\ Head(todo)[1] # "advance" /\ UNCHANGED <<queue, owed, raced>> /\ WithRest(<< >>)
      /\ HIT_RECTS' = RectsOf(WINS)
      /\ UNCHANGED <<WINS, FOCUS_ID, MS_X, MS_PKT, WIN_PID, WX, foreign>>
  BY DEF StepRects, mouseVars, queueVars, deskVars
<1>2. << >> \in Seq(Ops) /\ Unstarted(<< >>)
  BY DEF Unstarted
<1>3. QueueShape' /\ TodoShape' /\ HalfWritten'
  BY <1>1, <1>2, QuietStep
<1>4. WINS \in [WinSlots -> WinRows] /\ HIT_RECTS' = RectsOf(WINS')
  BY <1>1 DEF WinInv, WinShape
<1>5. HIT_RECTS' \in Seq(Rectangles) /\ Len(HIT_RECTS') <= WMAX /\ RectsKnown'
  BY <1>1, <1>4, RectsRebuilt
<1>6. WinShape'
  BY <1>1, <1>5 DEF WinInv, WinShape
<1> QED
  BY <1>3, <1>5, <1>6 DEF WinInv

LEMMA StepSlotKeeps ==
  ASSUME WinInv, todo # << >>, StepSlot
  PROVE  WinInv'
<1>1. /\ Head(todo)[1] = "slot" /\ Head(todo)[1] # "advance" /\ Head(todo) # <<"rects">>
      /\ UNCHANGED <<WINS, HIT_RECTS, FOCUS_ID, MS_X, MS_PKT, WIN_PID, WX, owed, raced, foreign>>
  BY DEF StepSlot, mouseVars, deskVars
<1>2. CASE Full(queue)
  <2>1. WithRest(<< >>) /\ UNCHANGED <<queue, owed, raced>>
    BY <1>1, <1>2 DEF StepSlot
  <2>2. << >> \in Seq(Ops) /\ Unstarted(<< >>)
    BY DEF Unstarted
  <2>3. /\ QueueShape' /\ TodoShape' /\ HalfWritten'
        /\ Rebuilding(todo) => Rebuilding(todo')
    BY <1>1, <2>1, <2>2, QuietStep
  <2>4. WinShape' /\ RectsKnown'
    BY <1>1, <2>3 DEF WinInv, WinShape, RectsKnown
  <2> QED
    BY <2>3, <2>4 DEF WinInv
<1>3. CASE ~Full(queue)
  <2> DEFINE m == Head(todo)[2]
             b == queue.buf
             rd == queue.rd
             wr == queue.wr
             new == [b EXCEPT ![wr] = m]
             op == <<"advance", m, wr>>
             ops == <<op>>
  <2>1. queue' = [queue EXCEPT !.buf[wr] = m] /\ WithRest(ops)
    BY <1>3 DEF StepSlot
  <2>2. m \in Messages
    BY <1>1, StepLeaves, OpsAre
  <2>3. /\ queue \in Queues /\ owed \in Seq(Messages) /\ (raced \/ owed = Waiting)
        /\ b \in [0 .. QLEN - 1 -> Messages] /\ rd \in 0 .. QLEN - 1 /\ wr \in 0 .. QLEN - 1
        /\ QLEN \in Nat \ {0, 1}
    BY WinNumbers DEF WinInv, QueueShape, Queues
  <2>4. Waiting = RingSeq(b, rd, wr, QLEN)
    BY DEF Waiting, RingSeq
  <2>5. queue' \in Queues /\ queue'.buf = new /\ queue'.rd = rd /\ queue'.wr = wr
    <3> HIDE DEF m
    <3>1. new \in [0 .. QLEN - 1 -> Messages]
      BY <2>2, <2>3
    <3>2. queue' = [queue EXCEPT !.buf = new]
      BY <2>1, <2>3 DEF Queues
    <3> HIDE DEF new
    <3> QED
      BY <2>3, <3>1, <3>2 DEF Queues
  <2>6. Waiting' = RingSeq(new, rd, wr, QLEN)
    BY <2>5 DEF Waiting, RingSeq
  <2>7. new[wr] = m
    BY <2>3
  <2>8. (wr + 1) % QLEN # rd
    BY <1>3 DEF Full
  <2> HIDE DEF m, b, rd, wr
  <2>9. EndIsUnseen(b, rd, wr, QLEN, m)
    BY <2>2, <2>3, RingUnseen
  <2>10. raced' \/ owed' = Waiting'
    BY <1>1, <2>3, <2>4, <2>6, <2>9 DEF EndIsUnseen
  <2>11. QueueShape'
    BY <1>1, <2>3, <2>5, <2>10 DEF QueueShape
  <2>12. op \in Ops
    BY <2>2, <2>3 DEF Ops
  <2> HIDE DEF new
  <2>13. /\ ops \in Seq(Ops) /\ ops[1] = op /\ \A k \in 2 .. Len(ops) : ops[k][1] # "advance"
         /\ op[2] = m /\ op[3] = wr
    BY <2>12
  <2> HIDE DEF ops, op
  <2>14. /\ TodoShape' /\ (Inside' => Head(todo') = op)
         /\ Rebuilding(todo) => Rebuilding(todo')
    BY <1>1, <2>1, <2>13, RestIs DEF WinInv
  <2>15. HalfWritten'
    <3>1. ~Full(queue')
      BY <2>5, <2>8 DEF Full
    <3> QED
      BY <2>5, <2>7, <2>13, <2>14, <3>1 DEF HalfWritten
  <2>16. WinShape' /\ RectsKnown'
    BY <1>1, <2>14 DEF WinInv, WinShape, RectsKnown
  <2> QED
    BY <2>11, <2>14, <2>15, <2>16 DEF WinInv
<1> QED
  BY <1>2, <1>3

LEMMA StepAdvanceKeeps ==
  ASSUME WinInv, todo # << >>, StepAdvance
  PROVE  WinInv'
<1> DEFINE m == Head(todo)[2]
           b == queue.buf
           rd == queue.rd
           wr == queue.wr
<1>1. /\ Head(todo)[1] = "advance" /\ Head(todo) # <<"rects">> /\ WithRest(<< >>)
      /\ owed' = Append(owed, m)
      /\ UNCHANGED <<WINS, HIT_RECTS, FOCUS_ID, MS_X, MS_PKT, WIN_PID, WX, raced, foreign>>
  BY DEF StepAdvance, mouseVars, deskVars
<1>2. PICK w \in {Head(todo)[3], wr} : queue' = [queue EXCEPT !.wr = (w + 1) % QLEN]
  BY DEF StepAdvance
<1>3. m \in Messages /\ Head(todo)[3] \in 0 .. QLEN - 1
  BY <1>1, StepLeaves, OpsAre
<1>4. /\ queue \in Queues /\ owed \in Seq(Messages) /\ (raced \/ owed = Waiting)
      /\ b \in [0 .. QLEN - 1 -> Messages] /\ rd \in 0 .. QLEN - 1 /\ wr \in 0 .. QLEN - 1
      /\ QLEN \in Nat \ {0, 1}
  BY WinNumbers DEF WinInv, QueueShape, Queues
<1>5. raced \/ (w = wr /\ b[wr] = m /\ (wr + 1) % QLEN # rd)
  <2>1. Inside
    BY <1>1 DEF Inside
  <2> QED
    BY <1>2, <2>1 DEF WinInv, HalfWritten, Full
<1>6. Waiting = RingSeq(b, rd, wr, QLEN)
  BY DEF Waiting, RingSeq
<1> DEFINE e == (w + 1) % QLEN
<1>7. e \in 0 .. QLEN - 1
  <2>1. w \in 0 .. QLEN - 1
    BY <1>2, <1>3, <1>4
  <2> QED
    BY <1>4, <2>1, NextSlot
<1>8. queue' = [queue EXCEPT !.wr = e]
  BY <1>2
<1> HIDE DEF e
<1>9. queue' \in Queues /\ queue'.buf = b /\ queue'.rd = rd /\ queue'.wr = e
  BY <1>4, <1>7, <1>8 DEF Queues
<1>10. Waiting' = RingSeq(b, rd, e, QLEN)
  BY <1>9 DEF Waiting, RingSeq
<1> HIDE DEF m, b, rd, wr
<1>11. raced' \/ owed' = Waiting'
  <2> SUFFICES ASSUME ~raced
               PROVE  owed' = Waiting'
    BY <1>1
  <2>1. w = wr /\ b[wr] = m /\ (wr + 1) % QLEN # rd /\ owed = Waiting
    BY <1>4, <1>5
  <2>2. [b EXCEPT ![wr] = m] = b
    BY <1>4, <2>1
  <2>3. PutIsLast(b, rd, wr, QLEN, m)
    BY <1>3, <1>4, <2>1, RingPuts
  <2>4. RingSeq(b, rd, e, QLEN) = Append(RingSeq(b, rd, wr, QLEN), m)
    BY <2>1, <2>2, <2>3 DEF PutIsLast, e
  <2> QED
    BY <1>1, <1>6, <1>10, <2>1, <2>4
<1>12. owed' \in Seq(Messages)
  BY <1>1, <1>3, <1>4, AppendProperties
<1>13. QueueShape'
  BY <1>9, <1>11, <1>12 DEF QueueShape
<1>14. /\ TodoShape' /\ ~Inside'
       /\ Rebuilding(todo) => Rebuilding(todo')
  BY <1>1, StepLeaves, RestIs DEF WinInv
<1>15. WinShape' /\ RectsKnown' /\ HalfWritten'
  BY <1>1, <1>14 DEF WinInv, WinShape, RectsKnown, HalfWritten
<1> QED
  BY <1>13, <1>14, <1>15 DEF WinInv

LEMMA WinInvStep == WinInv /\ [WinNext]_winVars => WinInv'
<1> SUFFICES ASSUME WinInv, [WinNext]_winVars
             PROVE  WinInv'
  OBVIOUS
<1>1. CASE UNCHANGED winVars
  BY <1>1 DEF winVars, WinInv, WinShape, QueueShape, TodoShape, HalfWritten, RectsKnown, Waiting,
              Inside, Full
<1>2. CASE Packets
  BY <1>2, FirstByteKeeps, SecondByteKeeps, LastByteKeeps DEF Packets
<1>3. CASE WmGetmsg
  BY <1>3, WmGetmsgKeeps
<1>4. CASE ProgramCalls
  <2>1. -1 \in Int /\ 1 \in Int
    OBVIOUS
  <2> QED
    BY <1>4, <2>1, WmCreateKeeps, DndDropKeeps, WmRemoveKeeps, WmTopKeeps, WmMoveKeeps,
       MouseRectsKeeps DEF ProgramCalls
<1>5. CASE LoopSteps
  BY <1>5, LoopLaunchKeeps, StepRemoveKeeps, StepForgetKeeps, StepStartKeeps, StepCreateKeeps,
     StepRectsKeeps, StepSlotKeeps, StepAdvanceKeeps DEF LoopSteps
<1>6. CASE LoopMouse
  BY <1>6, LoopMouseKeeps
<1> QED
  BY <1>1, <1>2, <1>3, <1>4, <1>5, <1>6 DEF WinNext

LEMMA WinInitInv == WinInit => WinInv
<1> SUFFICES ASSUME WinInit
             PROVE  WinInv
  OBVIOUS
<1>1. /\ WINS = [i \in WinSlots |-> FreeWin] /\ HIT_RECTS = << >> /\ FOCUS_ID = NoWindow
      /\ MS_X = 0 /\ MS_PKT = << >> /\ WIN_PID = NoWindow /\ WX = 0 /\ todo = << >> /\ owed = << >>
      /\ queue = [buf |-> [k \in 0 .. QLEN - 1 |-> Msg("none", NoWindow)], rd |-> 0, wr |-> 0]
  BY DEF WinInit
<1>2. FreeWin \in WinRows /\ WMAX \in Nat \ {0} /\ QLEN \in Nat \ {0, 1}
  BY WinNumbers DEF FreeWin, WinRows, NoWindow
<1>3. /\ << >> \in Seq(Rectangles) /\ << >> \in Seq(0 .. 255) /\ << >> \in Seq(Ops)
      /\ << >> \in Seq(Messages) /\ Len(<< >>) = 0
  OBVIOUS
<1>4. WinShape
  BY <1>1, <1>2, <1>3, WinNumbers DEF WinShape, NoWindow
<1>5. Msg("none", NoWindow) \in Messages
  <2>1. NoWindow \in Int /\ "none" \in MessageKinds
    BY DEF NoWindow, MessageKinds
  <2> QED
    BY <2>1, OneMessage
<1>6. queue \in Queues /\ queue.rd = 0 /\ queue.wr = 0
  BY <1>1, <1>2, <1>5 DEF Queues
<1>7. Waiting = << >>
  <2> DEFINE b == queue.buf
  <2>1. b \in [0 .. QLEN - 1 -> Messages] /\ 0 \in 0 .. QLEN - 1
    BY <1>2, <1>6 DEF Queues
  <2>2. Waiting = RingSeq(b, 0, 0, QLEN)
    BY <1>6 DEF Waiting, RingSeq
  <2> HIDE DEF b
  <2>3. Lists(RingSeq(b, 0, 0, QLEN), b, 0, 0, QLEN, Messages)
    BY <1>2, <2>1, RingSeqIs
  <2>4. Waiting \in Seq(Messages) /\ Len(Waiting) = 0
    BY <2>2, <2>3 DEF Lists
  <2> QED
    BY <2>4
<1>8. Shown(WINS) = {} /\ RectsIn(HIT_RECTS) = {}
  <2>1. \A i \in WinSlots : WINS[i].id = NoWindow
    BY <1>1 DEF FreeWin
  <2> QED
    BY <1>1, <2>1 DEF Shown, RectsIn
<1>9. QueueShape
  BY <1>1, <1>3, <1>6, <1>7 DEF QueueShape
<1>10. TodoShape /\ HalfWritten
  BY <1>1, <1>3 DEF TodoShape, HalfWritten, Inside
<1>11. RectsKnown
  BY <1>8 DEF RectsKnown
<1> QED
  BY <1>4, <1>9, <1>10, <1>11 DEF WinInv

\* What the invariant says of the windows and their messages.
LEMMA WinInvShows == WinInv => WinTypeOK /\ QueueIsFifo /\ RectsMatchWindows
<1> SUFFICES ASSUME WinInv
             PROVE  WinTypeOK /\ QueueIsFifo /\ RectsMatchWindows
  OBVIOUS
<1>1. WinTypeOK
  <2>1. \A i \in WinSlots : WINS[i] \in WinRows
    BY DEF WinInv, WinShape
  <2>2. queue.rd \in 0 .. QLEN - 1 /\ queue.wr \in 0 .. QLEN - 1
    BY DEF WinInv, QueueShape, Queues
  <2> QED
    BY <2>1, <2>2 DEF WinInv, WinShape, WinTypeOK, WinRows
<1>2. QueueIsFifo
  BY DEF WinInv, QueueShape, QueueIsFifo
<1>3. RectsMatchWindows
  BY DEF WinInv, RectsKnown, RectsMatchWindows, Rebuilding, RectsIn, Shown
<1> QED
  BY <1>1, <1>2, <1>3
=============================================================================

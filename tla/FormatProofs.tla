---------------------------- MODULE FormatProofs ----------------------------
(***************************************************************************)
(* Proofs about what is laid out byte by byte, for every size and content: *)
(* the volume of Fjfs, the containers and programs of Loaders, and what    *)
(* the assembler, the linker and the compiler of Toolchain put out.        *)
(***************************************************************************)
EXTENDS Fjfs, Loaders, Toolchain, LeastNumber, SequenceTheorems, TLAPS

-----------------------------------------------------------------------------
(* Allocation. *)

\* alloc_runs returns clusters that nobody has.
LEMMA FirstRunFree ==
  ASSUME NEW n \in Nat, Runs(n) # {}
  PROVE  /\ FirstRun(n) \in Nat /\ FirstRun(n) + n <= TOTAL_CLUSTERS
         /\ FirstRun(n) .. FirstRun(n) + n - 1 \cap BITMAP = {}
<1>1. Runs(n) \in SUBSET Nat
  BY VolumeAssumption DEF Runs, Clusters
<1>2. \E i \in Runs(n) : \A j \in Runs(n) : i <= j
  BY <1>1, Minimum
<1>3. FirstRun(n) \in Runs(n)
  BY <1>2 DEF FirstRun
<1> QED
  BY <1>1, <1>3 DEF Runs

\* A name is written to its own slot, or to a free one if it has none.
LEMMA SlotChosen ==
  ASSUME NEW n, ~ (Matching(n) = {} /\ Free = {})
  PROVE  /\ SlotOfName(n) \in Slots
         /\ SlotOfName(n) \in IF Matching(n) # {} THEN Matching(n) ELSE Free
<1> DEFINE c == IF Matching(n) # {} THEN Matching(n) ELSE Free
<1>1. c \in SUBSET Nat /\ c # {} /\ c \subseteq Slots
  BY DEF Matching, Free, Slots
<1>2. \E s \in c : \A t \in c : s <= t
  BY <1>1, Minimum
<1>3. SlotOfName(n) = CHOOSE s \in c : \A t \in c : s <= t
  BY DEF SlotOfName
<1> HIDE DEF c
<1>4. SlotOfName(n) \in c
  BY <1>2, <1>3
<1> QED
  BY <1>1, <1>4 DEF c

\* Every slot is in one of the directory's sectors.
LEMMA SectorOfSlot ==
  ASSUME NEW s \in Slots
  PROVE  s \div PerSector \in 0 .. RootSectors - 1
<1> DEFINE q == s \div PerSector
<1>1. PerSector \in Nat \ {0} /\ RootSectors \in Nat \ {0} /\ s \in Nat
  BY VolumeAssumption DEF Slots
<1>2. s = PerSector * q + (s % PerSector) /\ q \in Nat /\ s % PerSector \in Nat
  BY <1>1
<1>3. s < RootSectors * PerSector
  BY <1>1 DEF Slots
<1> HIDE DEF q
<1>4. CASE q >= RootSectors
  <2>1. PerSector * q >= PerSector * RootSectors
    BY <1>1, <1>2, <1>4
  <2>2. PerSector * RootSectors = RootSectors * PerSector
    BY <1>1
  <2>3. PerSector * q \in Nat /\ RootSectors * PerSector \in Nat
    BY <1>1, <1>2
  <2> QED
    BY <1>2, <1>3, <2>1, <2>2, <2>3
<1> QED
  BY <1>1, <1>2, <1>4 DEF q

-----------------------------------------------------------------------------
(* The invariant. *)

\* The states of a call, and those in which the volume is mounted.
Changing == {"data", "bitmap", "root"}
Mounted == {"idle", "lost"} \cup Changing
States == {"off", "zero", "super", "load"} \cup Mounted

Directory(r) ==
  r \in [Slots -> {FreeEntry} \cup [name : Stored, size : Nat \ {0}, first : Nat]]

\* The files of a directory have clusters that the bitmap marks as taken;
\* two files share neither their name nor a cluster.
Separate(r, bitmap) ==
  /\ \A s \in Slots : r[s].size > 0 => Extent(r[s]) \subseteq bitmap
  /\ \A s, t \in Slots : s # t /\ r[s].size > 0 /\ r[t].size > 0 =>
       r[s].name # r[t].name /\ Extent(r[s]) \cap Extent(r[t]) = {}

\* The entry being written is the only one in which the drive and the memory
\* differ; there the drive has the old file of that name or none.
OneChange(k) ==
  /\ \A s \in Slots \ {k} : dRoot[s] = ROOT[s]
  /\ ROOT[k].size = Len(arg.body) /\ ROOT[k].first = arg.first
  /\ ROOT[k].name \in Stored
  /\ dRoot[k].size > 0 => dRoot[k].name = ROOT[k].name

\* The first n clusters of the new content are on the drive.
Arrived(n) == \A i \in 1 .. n : dData[arg.first + i - 1] = arg.body[i]

\* What every step keeps as long as no transfer has failed.  The new content
\* goes to clusters that are free on the drive too; it and the bitmap are on
\* the drive before the directory is written.
VolumeSound ==
  /\ Separate(ROOT, BITMAP) /\ Separate(dRoot, dBitmap)
  /\ ~magic => dRoot = EmptyRoot
  /\ pc \in {"zero", "super"} => ~magic
  /\ pc \in Mounted \cup {"load"} => magic
  /\ pc \in Mounted => dBitmap \subseteq BITMAP
  /\ pc \in {"idle", "lost"} => dRoot = ROOT
  /\ pc \in Changing => \E k \in Slots : OneChange(k)
  /\ pc \in {"data", "lost"} =>
       /\ pos < Len(arg.body)
       /\ arg.first .. arg.first + Len(arg.body) - 1 \cap dBitmap = {}
  /\ pc = "data" => Arrived(pos)
  /\ pc \in {"bitmap", "root"} => Arrived(Len(arg.body))
  /\ pc = "bitmap" => pos = 0
  /\ pc = "root" =>
       /\ dBitmap = BITMAP
       /\ \A s \in Slots : s \div PerSector < pos => dRoot[s] = ROOT[s]

FsInv ==
  /\ Directory(ROOT) /\ Directory(dRoot) /\ pc \in States /\ pos \in Nat
  /\ DOMAIN dData = Clusters
  /\ pc \in {"lost"} \cup Changing =>
       /\ arg.body \in Contents /\ Len(arg.body) \in Nat \ {0}
       /\ arg.first \in Nat /\ arg.first + Len(arg.body) <= TOTAL_CLUSTERS
  /\ ~faulted => VolumeSound

LEMMA EmptySeparate ==
  ASSUME NEW b
  PROVE  Separate(EmptyRoot, b) /\ Directory(EmptyRoot)
BY DEF Separate, EmptyRoot, FreeEntry, Directory

\* An entry that is no file has no clusters.
LEMMA SeparateIsDisjoint ==
  ASSUME NEW r, NEW b, Directory(r), Separate(r, b)
  PROVE  Disjoint(r, b)
<1> SUFFICES ASSUME NEW s \in Slots, NEW t \in Slots, s # t, r[s].size > 0
             PROVE  Extent(r[s]) \cap Extent(r[t]) = {}
  BY DEF Disjoint, Separate
<1>1. CASE r[t].size > 0
  BY <1>1 DEF Separate
<1>2. CASE r[t] = FreeEntry
  BY <1>2 DEF FreeEntry, Extent
<1> QED
  BY <1>1, <1>2 DEF Directory

LEMMA FsInvInit == FsInit => FsInv
BY EmptySeparate DEF FsInit, FsInv, VolumeSound, States, Mounted, Changing, Clusters

\* Contents are sequences.
LEMMA ContentIsSeq ==
  ASSUME NEW v \in Contents
  PROVE  Len(v) \in Nat /\ v = [i \in 1 .. Len(v) |-> v[i]]
<1>1. PICK S : v \in Seq(S)
  BY VolumeAssumption
<1> QED
  BY <1>1

-----------------------------------------------------------------------------
(* The steps. *)

\* write_file gives a name new clusters that neither memory nor the drive has
\* in a file.
LEMMA WriteFileInv ==
  ASSUME FsInv, NEW n \in Names, NEW v \in Contents, WriteFile(n, v)
  PROVE  FsInv'
<1> DEFINE st    == FmtName[n]
           size  == Len(v)
           first == FirstRun(size)
           full  == Matching(st) = {} /\ Free = {}
           new   == [name |-> st, size |-> size, first |-> first]
           k     == SlotOfName(st)
           run   == first .. first + size - 1
<1>1. size \in Nat \ {0} /\ Runs(size) # {} /\ pc = "idle" /\ st \in Stored
  BY VolumeAssumption DEF WriteFile
<1>2. /\ run \cap BITMAP = {}
      /\ first \in Nat /\ first + size <= TOTAL_CLUSTERS
  BY <1>1, FirstRunFree
<1>3. /\ BITMAP' = BITMAP \cup run
      /\ UNCHANGED <<magic, dBitmap, dRoot, dData, faulted>>
      /\ arg' = [body |-> v, first |-> first] /\ pos' = 0
  BY DEF WriteFile, drive
<1>4. /\ full => pc' = "lost" /\ ROOT' = ROOT
      /\ ~full => pc' = "data" /\ ROOT' = [ROOT EXCEPT ![k] = new]
  BY DEF WriteFile
<1>5. /\ new.size = size /\ new.first = first /\ new.name = st
      /\ new \in [name : Stored, size : Nat \ {0}, first : Nat]
  BY <1>1, <1>2
<1>6. ~full => k \in Slots /\ k \in IF Matching(st) # {} THEN Matching(st) ELSE Free
  BY SlotChosen
<1>7. Directory(ROOT) /\ Directory(dRoot) /\ DOMAIN ROOT = Slots
  BY DEF FsInv, Directory
<1>8. \A s \in Slots : Matching(st) # {} /\ s \in Matching(st) => ROOT[s].size > 0
  BY <1>1, <1>7, NameAssumption DEF Directory, Matching, FreeEntry
<1> HIDE DEF st, size, first, full, new, k
<1>9. CASE full
  <2>1. Directory(ROOT') /\ pc' \in States /\ pos' \in Nat
    BY <1>3, <1>4, <1>7, <1>9 DEF States, Mounted
  <2>2. /\ arg'.body \in Contents /\ Len(arg'.body) \in Nat \ {0}
        /\ arg'.first \in Nat /\ arg'.first + Len(arg'.body) <= TOTAL_CLUSTERS
    BY <1>1, <1>2, <1>3 DEF size
  <2>3. ASSUME ~faulted
        PROVE  VolumeSound'
    <3>1. VolumeSound
      BY <2>3 DEF FsInv
    <3>2. Separate(ROOT', BITMAP') /\ Separate(dRoot', dBitmap')
      BY <3>1, <1>3, <1>4, <1>9 DEF VolumeSound, Separate
    <3>3. /\ pos' < Len(arg'.body)
          /\ arg'.first .. arg'.first + Len(arg'.body) - 1 \cap dBitmap' = {}
      BY <3>1, <1>1, <1>2, <1>3 DEF VolumeSound, Mounted, size
    <3> QED
      BY <3>1, <3>2, <3>3, <1>1, <1>3, <1>4, <1>9 DEF VolumeSound, Mounted, Changing
  <2> QED
    BY <2>1, <2>2, <2>3, <1>3, <1>7 DEF FsInv
<1>10. CASE ~full
  <2>0. PICK j \in Slots : j = k
    BY <1>6, <1>10
  <2>1. \A s \in Slots : ROOT'[s] = IF s = k THEN new ELSE ROOT[s]
    BY <1>4, <1>7, <1>10
  <2>2. Directory(ROOT') /\ pc' \in States /\ pos' \in Nat
    BY <1>3, <1>4, <1>5, <1>7, <1>10 DEF States, Mounted, Changing, Directory
  <2>3. /\ arg'.body \in Contents /\ Len(arg'.body) \in Nat \ {0}
        /\ arg'.first \in Nat /\ arg'.first + Len(arg'.body) <= TOTAL_CLUSTERS
    BY <1>1, <1>2, <1>3 DEF size
  <2>4. ASSUME ~faulted
        PROVE  VolumeSound'
    <3>1. VolumeSound /\ dRoot = ROOT /\ dBitmap \subseteq BITMAP /\ magic
      BY <2>4, <1>1 DEF FsInv, VolumeSound, Mounted
    <3>2. \A s \in Slots : s # k /\ ROOT[s].size > 0 => ROOT[s].name # st
      <4> SUFFICES ASSUME NEW s \in Slots, s # k, ROOT[s].size > 0, ROOT[s].name = st
                   PROVE  FALSE
        OBVIOUS
      <4>1. s \in Matching(st)
        BY DEF Matching
      <4>2. k \in Slots /\ k \in Matching(st)
        BY <4>1, <1>6, <1>10
      <4>3. ROOT[k].size > 0 /\ ROOT[k].name = st
        BY <4>2, <1>8 DEF Matching
      <4> QED
        BY <4>2, <4>3, <3>1 DEF VolumeSound, Separate
    <3>3. Separate(ROOT', BITMAP')
      <4>1. ASSUME NEW s \in Slots, ROOT'[s].size > 0
            PROVE  Extent(ROOT'[s]) \subseteq BITMAP'
        BY <4>1, <3>1, <2>1, <1>3, <1>5 DEF VolumeSound, Separate, Extent
      <4>2. ASSUME NEW s \in Slots, NEW t \in Slots, s # t,
                   ROOT'[s].size > 0, ROOT'[t].size > 0
            PROVE  /\ ROOT'[s].name # ROOT'[t].name
                   /\ Extent(ROOT'[s]) \cap Extent(ROOT'[t]) = {}
        <5>1. Extent(new) \cap BITMAP = {}
          BY <1>2, <1>5 DEF Extent
        <5>2. CASE s = k
          <6>1. ROOT'[s] = new /\ ROOT'[t] = ROOT[t] /\ ROOT[t].size > 0
            BY <2>1, <4>2, <5>2
          <6> QED
            BY <6>1, <5>1, <5>2, <4>2, <3>1, <3>2, <1>5 DEF VolumeSound, Separate
        <5>3. CASE t = k
          <6>1. ROOT'[t] = new /\ ROOT'[s] = ROOT[s] /\ ROOT[s].size > 0
            BY <2>1, <4>2, <5>3
          <6> QED
            BY <6>1, <5>1, <5>3, <4>2, <3>1, <3>2, <1>5 DEF VolumeSound, Separate
        <5>4. CASE s # k /\ t # k
          BY <5>4, <4>2, <3>1, <2>1 DEF VolumeSound, Separate
        <5> QED
          BY <5>2, <5>3, <5>4
      <4> QED
        BY <4>1, <4>2 DEF Separate
    <3>4. Separate(dRoot', dBitmap')
      BY <3>1, <1>3 DEF VolumeSound, Separate
    <3>5. /\ pos' < Len(arg'.body)
          /\ arg'.first .. arg'.first + Len(arg'.body) - 1 \cap dBitmap' = {}
      BY <3>1, <1>1, <1>2, <1>3 DEF size
    <3>6. OneChange(j)'
      <4>1. dRoot'[k].size > 0 => dRoot'[k].name = ROOT'[k].name
        <5>1. CASE Matching(st) # {}
          BY <5>1, <3>1, <2>1, <1>3, <1>5, <1>6, <1>10 DEF Matching
        <5>2. CASE Matching(st) = {}
          BY <5>2, <3>1, <1>3, <1>6, <1>10 DEF Free
        <5> QED
          BY <5>1, <5>2
      <4> QED
        BY <4>1, <3>1, <2>0, <2>1, <1>1, <1>3, <1>5 DEF OneChange, size
    <3>7. Arrived(pos)'
      BY <1>3 DEF Arrived
    <3> QED
      BY <3>1, <3>3, <3>4, <3>5, <3>6, <3>7, <1>3, <1>4, <1>10
      DEF VolumeSound, Mounted, Changing
  <2> QED
    BY <2>2, <2>3, <2>4, <1>3, <1>7 DEF FsInv
<1> QED
  BY <1>9, <1>10

LEMMA BootInv ==
  ASSUME FsInv, Boot \/ BootFails \/ PowerLoss
  PROVE  FsInv'
<1>1. CASE Boot
  BY <1>1 DEF FsInv, Boot, drive, memory, VolumeSound, States, Mounted, Changing, Separate
<1>2. CASE BootFails
  BY <1>2 DEF FsInv, BootFails, ReadFails, drive, memory, States, Mounted, Changing
<1>3. CASE PowerLoss
  BY <1>3, EmptySeparate
  DEF FsInv, PowerLoss, drive, VolumeSound, States, Mounted, Changing, Separate
<1> QED
  BY <1>1, <1>2, <1>3

LEMMA FormatInv ==
  ASSUME FsInv, ZeroSector \/ WriteSuper
  PROVE  FsInv'
<1>1. CASE ZeroSector
  <2>1. /\ UNCHANGED <<BITMAP, ROOT, arg>> /\ pos' \in Nat
        /\ pc' \in {"zero", "super"} /\ pc = "zero" /\ DOMAIN dData' = Clusters
    BY <1>1 DEF ZeroSector, memory, FsInv, drive
  <2>2. Directory(dRoot')
    BY <1>1 DEF ZeroSector, FsInv, Directory, drive
  <2>3. ASSUME ~faulted'
        PROVE  VolumeSound'
    <3>1. ~faulted /\ VolumeSound /\ ~magic /\ dRoot = EmptyRoot
      BY <2>1, <2>3, <1>1 DEF FsInv, ZeroSector, TransferDone, WriteFails, VolumeSound
    <3>2. ~magic' /\ dRoot' = EmptyRoot
      BY <2>3, <3>1, <1>1 DEF ZeroSector, WriteFails, EmptyRoot
    <3> QED
      BY <2>1, <3>1, <3>2, EmptySeparate DEF VolumeSound, Mounted, Changing, Separate
  <2> QED
    BY <2>1, <2>2, <2>3 DEF FsInv, States, Mounted, Changing
<1>2. CASE WriteSuper
  BY <1>2 DEF WriteSuper, FsInv, memory, TransferDone, WriteFails,
              VolumeSound, States, Mounted, Changing, Separate
<1> QED
  BY <1>1, <1>2

LEMMA LoadInv ==
  ASSUME FsInv, Load
  PROVE  FsInv'
<1>1. /\ UNCHANGED <<magic, dBitmap, dRoot, dData, pos, arg>>
      /\ pc = "load" /\ pc' = "idle"
  BY DEF Load, drive
<1>2. Directory(ROOT')
  BY DEF Load, FsInv, Directory
<1>3. ASSUME ~faulted'
      PROVE  VolumeSound'
  <2>1. VolumeSound /\ BITMAP' = dBitmap /\ ROOT' = dRoot
    BY <1>3 DEF FsInv, Load, TransferDone, ReadFails
  <2> QED
    BY <1>1, <2>1 DEF VolumeSound, Separate, Mounted, Changing
<1> QED
  BY <1>1, <1>2, <1>3 DEF FsInv, States, Mounted, Changing

\* The data go to clusters that no file of the drive has.
LEMMA WriteDataInv ==
  ASSUME FsInv, WriteData
  PROVE  FsInv'
<1> DEFINE n == Len(arg.body)
<1>1. /\ UNCHANGED <<magic, dBitmap, dRoot, BITMAP, ROOT, arg>>
      /\ pc \in {"data", "lost"}
      /\ pc' = NextSectorOf(pc) /\ pos' = IF pc' = pc THEN pos + 1 ELSE 0
  BY DEF WriteData, memory
<1>2. /\ n \in Nat \ {0} /\ arg.first \in Nat /\ arg.first + n <= TOTAL_CLUSTERS
      /\ arg.body \in Contents /\ pos \in Nat
  BY <1>1 DEF FsInv, Changing
<1>3. DOMAIN dData' = Clusters
  BY DEF FsInv, WriteData
<1>4. \/ pos + 1 < n /\ pc' = pc /\ pos' = pos + 1
      \/ pos + 1 >= n /\ pc = "data" /\ pc' = "bitmap" /\ pos' = 0
      \/ pos + 1 >= n /\ pc = "lost" /\ pc' = "idle" /\ pos' = 0
  BY <1>1, <1>2 DEF NextSectorOf
<1>5. ASSUME ~faulted'
      PROVE  VolumeSound'
  <2>1. VolumeSound /\ dData' = [dData EXCEPT ![arg.first + pos] = arg.body[pos + 1]]
    BY <1>5 DEF WriteData, TransferDone, WriteFails, FsInv
  <2>2. pos < n /\ arg.first + pos \in Clusters
    BY <2>1, <1>1, <1>2, VolumeAssumption DEF VolumeSound, Clusters
  <2>3. ASSUME pc = "data", NEW i \in 1 .. pos + 1
        PROVE  dData'[arg.first + i - 1] = arg.body[i]
    <3>1. CASE i = pos + 1
      BY <3>1, <2>1, <2>2, <1>2 DEF FsInv
    <3>2. CASE i \in 1 .. pos
      <4>1. dData[arg.first + i - 1] = arg.body[i]
        BY <3>2, <2>1, <2>3 DEF VolumeSound, Arrived
      <4>2. arg.first + i - 1 # arg.first + pos
        BY <3>2, <1>2
      <4>3. arg.first + i - 1 \in DOMAIN dData
        BY <3>2, <2>2, <1>2, VolumeAssumption DEF FsInv, Clusters
      <4> QED
        BY <4>1, <4>2, <4>3, <2>1
    <3> QED
      BY <3>1, <3>2, <1>2
  <2>4. pc = "data" => \E k \in Slots : OneChange(k)'
    BY <2>1, <1>1 DEF VolumeSound, Changing, OneChange
  <2>5. Separate(ROOT', BITMAP') /\ Separate(dRoot', dBitmap')
    BY <2>1, <1>1 DEF VolumeSound, Separate
  <2>6. CASE pos + 1 < n /\ pc' = pc /\ pos' = pos + 1
    <3>1. pc = "data" => Arrived(pos)'
      BY <2>3, <2>6, <1>1 DEF Arrived
    <3> QED
      BY <3>1, <2>1, <2>4, <2>5, <2>6, <1>1 DEF VolumeSound, Mounted, Changing
  <2>7. CASE pos + 1 >= n /\ pc = "data" /\ pc' = "bitmap" /\ pos' = 0
    <3>1. pos + 1 = n
      BY <2>2, <2>7, <1>2
    <3>2. Arrived(Len(arg.body))'
      BY <2>3, <2>7, <3>1, <1>1 DEF Arrived
    <3> QED
      BY <3>2, <2>1, <2>4, <2>5, <2>7, <1>1 DEF VolumeSound, Mounted, Changing
  <2>8. CASE pos + 1 >= n /\ pc = "lost" /\ pc' = "idle" /\ pos' = 0
    BY <2>1, <2>5, <2>8, <1>1 DEF VolumeSound, Mounted, Changing
  <2> QED
    BY <1>4, <2>6, <2>7, <2>8
<1> QED
  BY <1>1, <1>2, <1>3, <1>4, <1>5 DEF FsInv, States, Mounted, Changing

LEMMA FlushBitmapInv ==
  ASSUME FsInv, FlushBitmap
  PROVE  FsInv'
<1>1. /\ UNCHANGED <<magic, dRoot, dData, BITMAP, ROOT, pos, arg>>
      /\ pc = "bitmap" /\ pc' = "root"
  BY DEF FlushBitmap, memory
<1>2. ASSUME ~faulted'
      PROVE  VolumeSound'
  <2>1. VolumeSound /\ dBitmap' = BITMAP
    BY <1>2 DEF FlushBitmap, TransferDone, WriteFails, FsInv
  <2>2. dBitmap \subseteq BITMAP
    BY <2>1, <1>1 DEF VolumeSound, Mounted, Changing
  <2>3. Separate(ROOT', BITMAP') /\ Separate(dRoot', dBitmap')
    BY <2>1, <2>2, <1>1 DEF VolumeSound, Separate
  <2>4. \E k \in Slots : OneChange(k)'
    BY <2>1, <1>1 DEF VolumeSound, Changing, OneChange
  <2>5. Arrived(Len(arg.body))'
    BY <2>1, <1>1 DEF VolumeSound, Arrived
  <2>6. \A s \in Slots : ~ (s \div PerSector < pos)
    BY <2>1, <1>1, SectorOfSlot, VolumeAssumption DEF VolumeSound
  <2> QED
    BY <2>1, <2>3, <2>4, <2>5, <2>6, <1>1 DEF VolumeSound, Mounted, Changing
<1> QED
  BY <1>1, <1>2 DEF FsInv, States, Mounted, Changing

\* The directory changes sector by sector; every mixture of old and new
\* sectors is a directory of separate files.
LEMMA FlushRootInv ==
  ASSUME FsInv, FlushRoot
  PROVE  FsInv'
<1>1. /\ UNCHANGED <<magic, dBitmap, dData, BITMAP, ROOT, arg>>
      /\ pc = "root" /\ pos' \in Nat
      /\ pc' = IF pos' = RootSectors THEN "idle" ELSE "root"
  BY VolumeAssumption DEF FlushRoot, memory, FsInv
<1>2. \A s \in Slots : dRoot'[s] = ROOT[s] \/ dRoot'[s] = dRoot[s]
  BY DEF FlushRoot
<1>3. Directory(dRoot')
  BY <1>2 DEF FlushRoot, FsInv, Directory
<1>4. ASSUME ~faulted'
      PROVE  VolumeSound'
  <2>1. /\ VolumeSound /\ pos' = pos + 1 /\ pos \in Nat
        /\ dRoot' = [s \in Slots |-> IF s \div PerSector = pos THEN ROOT[s] ELSE dRoot[s]]
    BY <1>4 DEF FlushRoot, TransferDone, WriteFails, FsInv
  <2>2. PICK k \in Slots : OneChange(k)
    BY <2>1, <1>1 DEF VolumeSound, Changing
  <2>3. OneChange(k)'
    BY <2>2, <1>1, <1>2 DEF OneChange
  <2>4. dBitmap' = BITMAP' /\ Separate(ROOT', BITMAP')
    BY <2>1, <1>1 DEF VolumeSound, Separate
  <2>5. Separate(dRoot', dBitmap')
    <3>1. ASSUME NEW s \in Slots, dRoot'[s].size > 0
          PROVE  Extent(dRoot'[s]) \subseteq dBitmap'
      BY <3>1, <2>1, <1>1, <1>2 DEF VolumeSound, Separate
    <3>2. ASSUME NEW s \in Slots, NEW t \in Slots, s # t,
                 dRoot'[s].size > 0, dRoot'[t].size > 0
          PROVE  /\ dRoot'[s].name # dRoot'[t].name
                 /\ Extent(dRoot'[s]) \cap Extent(dRoot'[t]) = {}
      <4>1. CASE dRoot'[k] = ROOT[k]
        <5>1. dRoot'[s] = ROOT[s] /\ dRoot'[t] = ROOT[t]
          BY <4>1, <2>2, <1>2 DEF OneChange
        <5>2. Separate(ROOT, BITMAP)
          BY <2>1 DEF VolumeSound
        <5>3. ROOT[s].size > 0 /\ ROOT[t].size > 0
          BY <5>1, <3>2
        <5>4. /\ ROOT[s].name # ROOT[t].name
              /\ Extent(ROOT[s]) \cap Extent(ROOT[t]) = {}
          BY <5>2, <5>3, <3>2 DEF Separate
        <5> QED
          BY <5>1, <5>4
      <4>2. CASE dRoot'[k] = dRoot[k]
        <5>1. dRoot'[s] = dRoot[s] /\ dRoot'[t] = dRoot[t]
          BY <4>2, <2>2, <1>2 DEF OneChange
        <5>2. Separate(dRoot, dBitmap)
          BY <2>1 DEF VolumeSound
        <5>3. dRoot[s].size > 0 /\ dRoot[t].size > 0
          BY <5>1, <3>2
        <5>4. /\ dRoot[s].name # dRoot[t].name
              /\ Extent(dRoot[s]) \cap Extent(dRoot[t]) = {}
          BY <5>2, <5>3, <3>2 DEF Separate
        <5> QED
          BY <5>1, <5>4
      <4> QED
        BY <4>1, <4>2, <1>2
    <3> QED
      BY <3>1, <3>2 DEF Separate
  <2>6. \A s \in Slots : s \div PerSector < pos' => dRoot'[s] = ROOT'[s]
    <3> SUFFICES ASSUME NEW s \in Slots, s \div PerSector < pos + 1
                 PROVE  dRoot'[s] = ROOT[s]
      BY <2>1, <1>1
    <3> DEFINE q == s \div PerSector
    <3>1. q \in Nat
      BY SectorOfSlot, VolumeAssumption
    <3>2. q = pos => dRoot'[s] = ROOT[s]
      BY <2>1
    <3>3. q < pos => dRoot[s] = ROOT[s]
      BY <2>1, <1>1 DEF VolumeSound
    <3> HIDE DEF q
    <3>4. q = pos \/ q < pos
      BY <3>1, <2>1 DEF q
    <3> QED
      BY <3>2, <3>3, <3>4, <1>2
  <2>7. Arrived(Len(arg.body))'
    BY <2>1, <1>1 DEF VolumeSound, Arrived
  <2>8. pos' = RootSectors => dRoot' = ROOT'
    <3> SUFFICES ASSUME pos' = RootSectors
                 PROVE  dRoot' = ROOT'
      OBVIOUS
    <3>1. \A s \in Slots : s \div PerSector < RootSectors
      BY SectorOfSlot, VolumeAssumption
    <3>2. \A s \in Slots : dRoot'[s] = ROOT'[s]
      BY <3>1, <2>6
    <3> QED
      BY <3>2, <1>1, <1>3 DEF FsInv, Directory
  <2>9. magic' /\ (pc' \in Mounted => dBitmap' \subseteq BITMAP')
    BY <2>1, <2>4, <1>1 DEF VolumeSound, Mounted, Changing
  <2> QED
    BY <2>3, <2>4, <2>5, <2>6, <2>7, <2>8, <2>9, <1>1 DEF VolumeSound, Mounted, Changing
<1> QED
  BY <1>1, <1>3, <1>4 DEF FsInv, States, Mounted, Changing

LEMMA FsInvNext == FsInv /\ [FsNext]_fsVars => FsInv'
<1> SUFFICES ASSUME FsInv, [FsNext]_fsVars
             PROVE  FsInv'
  OBVIOUS
<1>1. CASE Boot \/ BootFails \/ PowerLoss
  BY <1>1, BootInv
<1>2. CASE ZeroSector \/ WriteSuper
  BY <1>2, FormatInv
<1>3. CASE Load
  BY <1>3, LoadInv
<1>4. CASE \E n \in Names, v \in Contents : WriteFile(n, v)
  BY <1>4, WriteFileInv
<1>5. CASE WriteData
  BY <1>5, WriteDataInv
<1>6. CASE FlushBitmap
  BY <1>6, FlushBitmapInv
<1>7. CASE FlushRoot
  BY <1>7, FlushRootInv
<1>8. CASE UNCHANGED fsVars
  <2>1. UNCHANGED <<magic, dBitmap, dRoot, dData, BITMAP, ROOT, pc, pos, arg,
                    faulted>>
    BY <1>8 DEF fsVars, drive, memory
  <2>2. VolumeSound => VolumeSound'
    <3>1. \A k : OneChange(k) => OneChange(k)'
      BY <2>1 DEF OneChange
    <3>2. \A n : Arrived(n) => Arrived(n)'
      BY <2>1 DEF Arrived
    <3>3. Separate(ROOT, BITMAP)' = Separate(ROOT, BITMAP)
      BY <2>1 DEF Separate
    <3>4. Separate(dRoot, dBitmap)' = Separate(dRoot, dBitmap)
      BY <2>1 DEF Separate
    <3> QED
      BY <2>1, <3>1, <3>2, <3>3, <3>4 DEF VolumeSound
  <2> QED
    BY <2>1, <2>2 DEF FsInv
<1> QED
  BY <1>1, <1>2, <1>3, <1>4, <1>5, <1>6, <1>7, <1>8 DEF FsNext

LEMMA FsInvAlways == FsSpec => []FsInv
BY FsInvInit, FsInvNext, PTL DEF FsSpec

\* As long as no transfer has failed, and wherever the power went, no cluster
\* belongs to two files or is marked as free while a file has it: neither on
\* the drive nor in memory.
THEOREM NoSharedClusterCorrect == FsSpec => []NoSharedCluster
<1>1. FsInv => NoSharedCluster
  BY SeparateIsDisjoint DEF FsInv, VolumeSound, NoSharedCluster
<1> QED
  BY <1>1, FsInvAlways, PTL

-----------------------------------------------------------------------------
(* The types, also after transfers have failed. *)

\* The clusters of an entry are clusters of the volume.
Fitting(e) == e.size \in 0 .. MAX_FILE /\ (e.size > 0 => Extent(e) \subseteq Clusters)

FsBounds ==
  /\ magic \in BOOLEAN /\ VOLUME_OK \in BOOLEAN /\ faulted \in BOOLEAN
  /\ dBitmap \subseteq Clusters /\ BITMAP \subseteq Clusters
  /\ \A s \in Slots : Fitting(dRoot[s]) /\ Fitting(ROOT[s])
  /\ arg.body \in Contents \cup {<< >>} /\ arg.first \in Clusters

LEMMA FreeFits ==
  /\ Fitting(FreeEntry) /\ \A s \in Slots : Fitting(EmptyRoot[s])
  /\ NoArg.body = << >> /\ NoArg.first \in Clusters
<1>1. MAX_FILE \in Nat /\ TOTAL_CLUSTERS \in Nat \ {0}
  BY VolumeAssumption
<1>2. Fitting(FreeEntry)
  BY <1>1 DEF Fitting, FreeEntry
<1> QED
  BY <1>1, <1>2 DEF EmptyRoot, NoArg, Clusters

LEMMA FsBoundsInit == FsInit => FsBounds
BY FreeFits, VolumeAssumption DEF FsInit, FsBounds

LEMMA FsBoundsStep == FsInv /\ FsBounds /\ [FsNext]_fsVars => FsBounds'
<1> SUFFICES ASSUME FsInv, FsBounds, [FsNext]_fsVars
             PROVE  FsBounds'
  OBVIOUS
<1>1. CASE Boot \/ BootFails \/ PowerLoss
  BY <1>1, FreeFits DEF Boot, BootFails, PowerLoss, ReadFails, drive, memory, FsBounds,
     Fitting, Extent
<1>2. CASE ZeroSector
  <2>1. /\ UNCHANGED <<BITMAP, ROOT, VOLUME_OK, arg>> /\ magic' \in BOOLEAN /\ faulted' \in BOOLEAN
        /\ dBitmap' \in {dBitmap, {}}
        /\ \A s \in Slots : dRoot'[s] = FreeEntry \/ dRoot'[s] = dRoot[s]
    <3>1. CASE UNCHANGED drive
      BY <1>2, <3>1 DEF ZeroSector, WriteFails, TransferDone, drive, memory, FsBounds
    <3>2. CASE ~UNCHANGED drive
      BY <1>2, <3>2 DEF ZeroSector, WriteFails, TransferDone, memory, FsBounds
    <3> QED
      BY <3>1, <3>2
  <2>2. \A s \in Slots : Fitting(dRoot'[s]) /\ Fitting(ROOT'[s])
    BY <2>1, FreeFits DEF FsBounds
  <2> QED
    BY <2>1, <2>2 DEF FsBounds, Fitting, Extent
<1>3. CASE WriteSuper
  BY <1>3 DEF WriteSuper, WriteFails, TransferDone, memory, FsBounds, Fitting, Extent
<1>4. CASE Load
  <2>1. /\ UNCHANGED <<magic, dBitmap, dRoot, arg>> /\ VOLUME_OK' \in BOOLEAN
        /\ faulted' \in BOOLEAN /\ BITMAP' \in {dBitmap, {}}
        /\ \A s \in Slots : ROOT'[s] = FreeEntry \/ ROOT'[s] = dRoot[s]
    BY <1>4 DEF Load, ReadFails, TransferDone, drive, FsBounds
  <2>2. \A s \in Slots : Fitting(dRoot'[s]) /\ Fitting(ROOT'[s])
    BY <2>1, FreeFits DEF FsBounds
  <2> QED
    BY <2>1, <2>2 DEF FsBounds, Fitting, Extent
<1>5. ASSUME NEW n \in Names, NEW v \in Contents, WriteFile(n, v)
      PROVE  FsBounds'
  <2> DEFINE st    == FmtName[n]
             size  == Len(v)
             first == FirstRun(size)
             full  == Matching(st) = {} /\ Free = {}
             new   == [name |-> st, size |-> size, first |-> first]
             k     == SlotOfName(st)
             run   == first .. first + size - 1
  <2>1. size \in Nat \ {0} /\ size <= MAX_FILE /\ Runs(size) # {}
    BY <1>5, VolumeAssumption DEF WriteFile
  <2>2. first \in Nat /\ first + size <= TOTAL_CLUSTERS
    BY <2>1, FirstRunFree
  <2>3. /\ BITMAP' = BITMAP \cup run /\ arg' = [body |-> v, first |-> first]
        /\ UNCHANGED <<magic, dBitmap, dRoot, VOLUME_OK, faulted>>
        /\ ROOT' = IF full THEN ROOT ELSE [ROOT EXCEPT ![k] = new]
    BY <1>5 DEF WriteFile, drive
  <2>4. DOMAIN ROOT = Slots
    BY DEF FsInv, Directory
  <2> HIDE DEF first, full, k
  <2>5. run \subseteq Clusters /\ first \in Clusters
    BY <2>1, <2>2, VolumeAssumption DEF Clusters
  <2>6. Fitting(new)
    BY <2>1, <2>5, VolumeAssumption DEF Fitting, Extent
  <2>7. arg'.body = v /\ arg'.first = first
    BY <2>3
  <2> HIDE DEF new, run, size
  <2>8. \A s \in Slots : ROOT'[s] = ROOT[s] \/ ROOT'[s] = new
    BY <2>3, <2>4
  <2>9. \A s \in Slots : Fitting(dRoot'[s]) /\ Fitting(ROOT'[s])
    BY <2>3, <2>6, <2>8 DEF FsBounds
  <2> QED
    BY <2>3, <2>5, <2>7, <2>9 DEF FsBounds, Fitting, Extent
<1>6. CASE WriteData
  BY <1>6 DEF WriteData, WriteFails, TransferDone, memory, FsBounds, Fitting, Extent
<1>7. CASE FlushBitmap
  BY <1>7 DEF FlushBitmap, WriteFails, TransferDone, memory, FsBounds, Fitting, Extent
<1>8. CASE FlushRoot
  <2>1. /\ UNCHANGED <<magic, dBitmap, BITMAP, ROOT, VOLUME_OK, arg>> /\ faulted' \in BOOLEAN
        /\ \A s \in Slots : dRoot'[s] = ROOT[s] \/ dRoot'[s] = dRoot[s]
    BY <1>8 DEF FlushRoot, WriteFails, TransferDone, memory, FsBounds
  <2>2. \A s \in Slots : Fitting(dRoot'[s]) /\ Fitting(ROOT'[s])
    BY <2>1 DEF FsBounds
  <2> QED
    BY <2>1, <2>2 DEF FsBounds, Fitting, Extent
<1>9. CASE UNCHANGED fsVars
  BY <1>9 DEF fsVars, drive, memory, FsBounds, Fitting, Extent
<1> QED
  BY <1>1, <1>2, <1>3, <1>4, <1>5, <1>6, <1>7, <1>8, <1>9 DEF FsNext

LEMMA FsBoundsShow == FsInv /\ FsBounds => FsTypeOK
<1> SUFFICES ASSUME FsInv, FsBounds
             PROVE  FsTypeOK
  OBVIOUS
<1>1. \A root \in {dRoot, ROOT} : \A s \in Slots : root[s].name \in Stored \cup {NoName}
  <2>1. \A e \in {FreeEntry} \cup [name : Stored, size : Nat \ {0}, first : Nat] :
          e.name \in Stored \cup {NoName}
    BY DEF FreeEntry
  <2> QED
    BY <2>1 DEF FsInv, Directory
<1>2. \A root \in {dRoot, ROOT} : \A s \in Slots :
        root[s].size \in 0 .. MAX_FILE /\ (root[s].size > 0 => Extent(root[s]) \subseteq Clusters)
  BY DEF FsBounds, Fitting
<1> QED
  BY <1>1, <1>2 DEF FsInv, FsBounds, FsTypeOK, States, Mounted, Changing

\* Every step keeps the types, whatever transfers failed: no directory names a
\* cluster that the volume does not have (fjfs.rs).
THEOREM FsTypeCorrect == FsSpec => []FsTypeOK
<1>1. FsInit => FsInv /\ FsBounds
  BY FsInvInit, FsBoundsInit
<1>2. (FsInv /\ FsBounds) /\ [FsNext]_fsVars => (FsInv /\ FsBounds)'
  BY FsInvNext, FsBoundsStep
<1> QED
  BY <1>1, <1>2, FsBoundsShow, PTL DEF FsSpec

-----------------------------------------------------------------------------
(* The drive implements a map. *)

\* Nothing that leaves the drive alone changes the map.
LEMMA SameMap ==
  ASSUME UNCHANGED <<magic, dRoot, dData>>
  PROVE  UNCHANGED OnTheDrive
BY DEF OnTheDrive, HasFile, ReadFile, Lookup

\* Of separate files, the one that has a name is found under it.
LEMMA LookupIs ==
  ASSUME NEW r, NEW b, Separate(r, b), NEW s \in Slots, r[s].size > 0
  PROVE  Lookup(r, r[s].name) = r[s]
<1> DEFINE P(t) == r[t].name = r[s].name /\ r[t].size > 0
<1>1. \A t \in Slots : P(t) => t = s
  BY DEF Separate
<1>2. (CHOOSE t \in Slots : P(t)) = s
  BY <1>1
<1> QED
  BY <1>2 DEF Lookup

\* New data does not touch the files there are.
LEMMA WriteDataKeepsMap ==
  ASSUME FsInv, ~faulted, WriteData, ~faulted'
  PROVE  UNCHANGED OnTheDrive
<1>1. /\ VolumeSound /\ dData' = [dData EXCEPT ![arg.first + pos] = arg.body[pos + 1]]
      /\ UNCHANGED <<magic, dRoot>> /\ pc \in {"data", "lost"}
  BY DEF FsInv, WriteData, WriteFails
<1>2. /\ pos < Len(arg.body) /\ pos \in Nat
      /\ arg.first \in Nat /\ Len(arg.body) \in Nat \ {0}
      /\ arg.first .. arg.first + Len(arg.body) - 1 \cap dBitmap = {}
  BY <1>1 DEF VolumeSound, FsInv, Changing
<1>3. arg.first + pos \notin dBitmap
  BY <1>2
<1>4. ASSUME NEW m \in Stored, HasFile(dRoot, m)
      PROVE  ReadFile(dRoot, m)' = ReadFile(dRoot, m)
  <2>1. PICK s \in Slots : dRoot[s].name = m /\ dRoot[s].size > 0
    BY <1>4 DEF HasFile
  <2> DEFINE e == dRoot[s]
  <2>2. /\ Lookup(dRoot, m) = e /\ Extent(e) \subseteq dBitmap
        /\ e.first \in Nat /\ e.size \in Nat
    <3>1. Lookup(dRoot, m) = e
      BY <2>1, <1>1, LookupIs DEF VolumeSound
    <3>2. Extent(e) \subseteq dBitmap
      BY <2>1, <1>1 DEF VolumeSound, Separate
    <3>3. e.first \in Nat /\ e.size \in Nat
      BY <2>1 DEF FsInv, Directory, FreeEntry
    <3> QED
      BY <3>1, <3>2, <3>3
  <2>3. Lookup(dRoot, m)' = Lookup(dRoot, m)
    BY <1>1 DEF Lookup
  <2> HIDE DEF e
  <2>4. ASSUME NEW i \in 1 .. e.size
        PROVE  dData'[e.first + i - 1] = dData[e.first + i - 1]
    <3>1. e.first + i - 1 \in Extent(e)
      BY <2>2 DEF Extent
    <3> QED
      BY <3>1, <2>2, <1>1, <1>3
  <2> QED
    BY <2>2, <2>3, <2>4 DEF ReadFile
<1>5. \A m \in Stored : HasFile(dRoot, m)' = HasFile(dRoot, m)
  BY <1>1 DEF HasFile
<1> QED
  BY <1>1, <1>4, <1>5 DEF OnTheDrive

\* The sector of the directory with the new entry makes the new file appear,
\* whole; the other sectors change nothing.
LEMMA FlushRootWrites ==
  ASSUME FsInv, ~faulted, FlushRoot, ~faulted'
  PROVE  \/ UNCHANGED OnTheDrive
         \/ \E n \in Stored, v \in Contents : Abstract!Write(n, v)
<1>1. /\ VolumeSound /\ UNCHANGED <<magic, dData, faulted>> /\ pc = "root" /\ magic
      /\ dRoot' = [s \in Slots |-> IF s \div PerSector = pos THEN ROOT[s] ELSE dRoot[s]]
  BY DEF FsInv, FlushRoot, WriteFails, TransferDone, VolumeSound, Mounted, Changing
<1>2. PICK k \in Slots : OneChange(k)
  BY <1>1 DEF VolumeSound, Changing
<1>3. Directory(ROOT) /\ Directory(dRoot)
  BY DEF FsInv
<1>4. CASE dRoot'[k] = dRoot[k]
  <2>1. \A s \in Slots : dRoot'[s] = dRoot[s]
    BY <1>1, <1>2, <1>4 DEF OneChange
  <2>2. dRoot' = dRoot
    BY <2>1, <1>1, <1>3 DEF Directory
  <2> QED
    BY <2>2, <1>1, SameMap
<1>5. CASE dRoot'[k] = ROOT[k]
  <2> DEFINE n == ROOT[k].name
             v == arg.body
             old == {m \in Stored : HasFile(dRoot, m)}
  <2>1. \A s \in Slots : dRoot'[s] = ROOT[s]
    BY <1>1, <1>2, <1>5 DEF OneChange
  <2>2. dRoot' = ROOT
    BY <2>1, <1>1, <1>3 DEF Directory
  <2>3. /\ n \in Stored /\ v \in Contents /\ Len(v) \in Nat \ {0}
        /\ ROOT[k].size = Len(v) /\ ROOT[k].first = arg.first
    BY <1>1, <1>2 DEF FsInv, OneChange, Changing
  <2>4. {m \in Stored : HasFile(ROOT, m)} = old \cup {n}
    <3>1. ASSUME NEW m \in Stored, HasFile(ROOT, m), m # n
          PROVE  HasFile(dRoot, m)
      BY <3>1, <1>2 DEF HasFile, OneChange
    <3>2. ASSUME NEW m \in Stored, HasFile(dRoot, m), m # n
          PROVE  HasFile(ROOT, m)
      BY <3>2, <1>2 DEF HasFile, OneChange
    <3>3. HasFile(ROOT, n)
      BY <2>3 DEF HasFile
    <3> QED
      BY <3>1, <3>2, <3>3, <2>3
  <2>5. ReadFile(ROOT, n) = v
    <3>1. Lookup(ROOT, n) = ROOT[k]
      BY <1>1, <2>3, LookupIs DEF VolumeSound
    <3>2. v = [i \in 1 .. Len(v) |-> v[i]]
      BY <2>3, ContentIsSeq
    <3>3. \A i \in 1 .. Len(v) : dData[arg.first + i - 1] = v[i]
      BY <1>1 DEF VolumeSound, Arrived
    <3> HIDE DEF n, v
    <3> QED
      BY <3>1, <3>2, <3>3, <2>3 DEF ReadFile
  <2>6. ASSUME NEW m \in old, m # n
        PROVE  ReadFile(ROOT, m) = ReadFile(dRoot, m)
    <3>1. PICK s \in Slots : dRoot[s].name = m /\ dRoot[s].size > 0
      BY DEF HasFile
    <3>2. s # k /\ ROOT[s] = dRoot[s]
      BY <3>1, <2>6, <1>2 DEF OneChange
    <3>3. Lookup(ROOT, m) = ROOT[s] /\ Lookup(dRoot, m) = dRoot[s]
      BY <3>1, <3>2, <1>1, LookupIs DEF VolumeSound
    <3> QED
      BY <3>2, <3>3 DEF ReadFile
  <2>7. OnTheDrive = [m \in old |-> ReadFile(dRoot, m)]
    BY <1>1 DEF OnTheDrive
  <2>8. OnTheDrive' = [m \in old \cup {n} |-> ReadFile(ROOT, m)]
    <3>1. ASSUME NEW m
          PROVE  ReadFile(dRoot, m)' = ReadFile(ROOT, m)
      <4>1. Lookup(dRoot, m)' = Lookup(ROOT, m)
        BY <2>2, Zenon DEF Lookup
      <4> QED
        BY <4>1, <1>1 DEF ReadFile
    <3>2. \A m : HasFile(dRoot, m)' = HasFile(ROOT, m)
      BY <2>2 DEF HasFile
    <3> QED
      BY <3>1, <3>2, <1>1, <2>4 DEF OnTheDrive
  <2> HIDE DEF n, v, old
  <2>9. OnTheDrive' = [m \in DOMAIN OnTheDrive \cup {n} |->
                         IF m = n THEN v ELSE OnTheDrive[m]]
    BY <2>5, <2>6, <2>7, <2>8
  <2>10. Abstract!Write(n, v)
    BY <2>9, <1>1 DEF Abstract!Write
  <2> QED
    BY <2>3, <2>10
<1> QED
  BY <1>1, <1>4, <1>5

LEMMA InitImplements == FsInit => Abstract!Init
BY DEF FsInit, Abstract!Init, OnTheDrive

\* A step after which no transfer has failed says nothing of failures.
LEMMA StillSound ==
  ASSUME [FsNext]_fsVars, ~faulted'
  PROVE  UNCHANGED faulted
BY DEF FsNext, fsVars, drive, Boot, ZeroSector, WriteSuper, Load, BootFails,
   WriteFile, WriteData, FlushBitmap, FlushRoot, PowerLoss, TransferDone,
   ReadFails, WriteFails

LEMMA NextImplements ==
  FsInv /\ [FsNext]_fsVars => [Abstract!Next]_<<OnTheDrive, faulted>>
<1> SUFFICES ASSUME FsInv, [FsNext]_fsVars
             PROVE  Abstract!Next \/ UNCHANGED <<OnTheDrive, faulted>>
  OBVIOUS
<1>1. CASE faulted'
  <2>1. faulted' = TRUE
    BY <1>1 DEF FsNext, fsVars, drive, Boot, ZeroSector, WriteSuper, Load,
      BootFails, WriteFile, WriteData, FlushBitmap, FlushRoot, PowerLoss,
      TransferDone, ReadFails, WriteFails, FsInv
  <2> QED
    BY <2>1 DEF Abstract!Next, Abstract!Fail
<1>2. CASE ~faulted'
  <2>1. UNCHANGED faulted
    BY <1>2, StillSound
  <2>2. ~faulted /\ VolumeSound
    BY <1>2, <2>1 DEF FsInv
  <2>3. \/ UNCHANGED OnTheDrive
        \/ \E n \in Stored, v \in Contents : Abstract!Write(n, v)
    <3>1. CASE UNCHANGED <<magic, dRoot, dData>>
      BY <3>1, SameMap
    <3>2. CASE ZeroSector
      <4>1. ~magic /\ ~magic'
        BY <1>2, <2>2, <3>2 DEF VolumeSound, ZeroSector, drive, WriteFails
      <4>2. OnTheDrive = [n \in {} |-> <<>>] /\ OnTheDrive' = [n \in {} |-> <<>>]
        BY <4>1 DEF OnTheDrive
      <4> QED
        BY <4>2
    <3>3. CASE WriteSuper
      <4>1. ~magic /\ dRoot' = EmptyRoot
        BY <2>2, <3>3 DEF VolumeSound, WriteSuper
      <4>2. \A m : ~ HasFile(dRoot, m)'
        BY <4>1 DEF HasFile, EmptyRoot, FreeEntry
      <4>3. {m \in Stored : HasFile(dRoot, m)}' = {}
        BY <4>2
      <4>4. OnTheDrive' = [n \in {} |-> <<>>]
        BY <4>2, <4>3 DEF OnTheDrive
      <4>5. OnTheDrive = [n \in {} |-> <<>>]
        BY <4>1 DEF OnTheDrive
      <4> QED
        BY <4>4, <4>5
    <3>4. CASE WriteData
      BY <1>2, <2>2, <3>4, WriteDataKeepsMap
    <3>5. CASE FlushRoot
      BY <1>2, <2>2, <3>5, FlushRootWrites
    <3> QED
      BY <3>1, <3>2, <3>3, <3>4, <3>5 DEF FsNext, fsVars, drive, Boot, Load,
         BootFails, WriteFile, FlushBitmap, PowerLoss
  <2>4. CASE UNCHANGED OnTheDrive
    BY <2>1, <2>4
  <2>5. CASE /\ ~ UNCHANGED OnTheDrive
             /\ \E n \in Stored, v \in Contents : Abstract!Write(n, v)
    BY <2>5 DEF Abstract!Next
  <2> QED
    BY <2>3, <2>4, <2>5
<1> QED
  BY <1>1, <1>2

\* However the power interrupts it, the drive is a map that every write changes
\* in one step, as long as no transfer fails.
THEOREM VolumeImplemented == FsSpec => ImplementsVolume
<1>1. FsInit => Abstract!Init
  BY InitImplements
<1>2. FsInv /\ [FsNext]_fsVars => [Abstract!Next]_<<OnTheDrive, faulted>>
  BY NextImplements
<1> QED
  BY <1>1, <1>2, FsInvAlways, PTL DEF FsSpec, ImplementsVolume, Abstract!Spec

-----------------------------------------------------------------------------
(* Numbers and sequences. *)

\* The greatest of some numbers below a bound, and the least of some numbers.
LEMMA MaxIs ==
  ASSUME NEW b \in Nat, NEW T \in SUBSET (0 .. b), T # {}
  PROVE  Max(T) \in T /\ \A y \in T : y <= Max(T)
<1>1. PICK x \in T : \A y \in T : y <= x
  BY Maximum
<1>2. \A y \in T : x >= y
  BY <1>1
<1> QED
  BY <1>1, <1>2 DEF Max

LEMMA MinIs ==
  ASSUME NEW T \in SUBSET Nat, T # {}
  PROVE  Min(T) \in T /\ \A y \in T : Min(T) <= y
<1>1. PICK x \in T : \A y \in T : x <= y
  BY Minimum
<1> QED
  BY <1>1 DEF Min

-----------------------------------------------------------------------------
(* Writing a container. *)

\* The elements of a sequence with another one behind it.
LEMMA Joined ==
  ASSUME NEW S, NEW s \in Seq(S), NEW t \in Seq(S)
  PROVE  /\ s \o t \in Seq(S) /\ Len(s) \in Nat /\ Len(t) \in Nat
         /\ Len(s \o t) = Len(s) + Len(t)
         /\ \A i \in 1 .. Len(s) : (s \o t)[i] = s[i]
         /\ \A i \in 1 .. Len(t) : (s \o t)[Len(s) + i] = t[i]
  OBVIOUS

\* y begins with x.
Begins(x, y) == Len(x) <= Len(y) /\ \A i \in 1 .. Len(x) : y[i] = x[i]

\* write_run: padding follows what was written.
LEMMA PaddedIs ==
  ASSUME NEW s \in Seq(Nat)
  PROVE  Padded(s) \in Seq(Nat) /\ Begins(s, Padded(s))
<1> DEFINE over == Len(s) % ALIGN
           pad == [i \in 1 .. ALIGN - over |-> 0]
<1>1. Len(s) \in Nat /\ over \in 0 .. ALIGN - 1 /\ ALIGN - over \in Nat
  BY LoadersAssumption
<1> HIDE DEF over
<1>2. pad \in Seq(Nat)
  BY <1>1
<1>3. Padded(s) = IF over = 0 THEN s ELSE s \o pad
  BY DEF Padded, over
<1> HIDE DEF pad
<1>4. Begins(s, s)
  BY DEF Begins
<1>5. s \o pad \in Seq(Nat) /\ Begins(s, s \o pad)
  BY <1>2 DEF Begins
<1> QED
  BY <1>3, <1>4, <1>5

\* What write_run has put out after every part.
Written(parts) ==
  CHOOSE out :
    out = [k \in 0 .. Len(parts) |->
             IF k = 0 THEN [i \in 1 .. HEADER + ENTRY * Len(parts) |-> 0]
             ELSE Padded(out[k - 1] \o parts[k].data)]

Tags == {"MANIFEST", "ICON", "EMBED", "DATA"}
Section == [tag : Tags, data : Seq(Nat)]
SectionsToWrite == Seq(Section)

LEMMA SectionsAre ==
  ASSUME NEW parts \in SectionsToWrite
  PROVE  /\ Len(parts) \in Nat
         /\ \A k \in 1 .. Len(parts) : parts[k].tag \in Tags /\ parts[k].data \in Seq(Nat)
<1>1. Len(parts) \in Nat /\ \A k \in 1 .. Len(parts) : parts[k] \in Section
  BY DEF SectionsToWrite
<1> QED
  BY <1>1 DEF Section

LEMMA WrittenIs ==
  ASSUME NEW parts \in SectionsToWrite
  PROVE  /\ HEADER + ENTRY * Len(parts) \in Nat
         /\ Written(parts) \in [0 .. Len(parts) -> Seq(Nat)]
         /\ Len(Written(parts)[0]) = HEADER + ENTRY * Len(parts)
         /\ \A k \in 1 .. Len(parts) :
              Written(parts)[k] = Padded(Written(parts)[k - 1] \o parts[k].data)
<1> DEFINE n == Len(parts)
           h == HEADER + ENTRY * n
           a == [i \in 1 .. h |-> 0]
           S == Seq(Nat)
           Step(y, k) == Padded(y \o parts[k].data)
           Computes(t) == t = [k \in 0 .. n |-> IF k = 0 THEN a ELSE Step(t[k - 1], k)]
           out == CHOOSE t : Computes(t)
<1>1. n \in Nat /\ h \in Nat
  <2>1. n \in Nat /\ HEADER \in Nat /\ ENTRY \in Nat
    BY LoadersAssumption DEF SectionsToWrite
  <2> QED
    BY <2>1
<1>2. Written(parts) = out
  BY DEF Written
<1>3. \A k \in 1 .. n : parts[k].data \in S
  BY SectionsAre
<1> HIDE DEF n, h
<1>4. a \in S /\ Len(a) = h
  BY <1>1
<1>5. \A k \in 1 .. n : \A y \in S : Step(y, k) \in S
  <2> SUFFICES ASSUME NEW k \in 1 .. n, NEW y \in S
               PROVE  Step(y, k) \in S
    OBVIOUS
  <2>1. y \o parts[k].data \in Seq(Nat)
    BY <1>3
  <2> QED
    BY <2>1, PaddedIs
<1> HIDE DEF a, S
<1>6. Computes(out)
  <2> DEFINE g == [k \in 1 .. n |-> [y \in S |-> Step(y, k)]]
  <2> HIDE DEF Step
  <2>1. \A k \in 1 .. n : [y \in S |-> Step(y, k)] \in [S -> S]
    BY <1>5
  <2>2. g \in [1 .. n -> [S -> S]]
    BY <2>1
  <2>3. \A k \in 1 .. n : \A y \in S : g[k][y] = Step(y, k)
    OBVIOUS
  <2> HIDE DEF g, Computes, out
  <2>4. PICK f \in [0 .. n -> S] : f[0] = a /\ \A k \in 1 .. n : f[k] = g[k][f[k - 1]]
    <3>1. HasRun(n, S, a, g)
      BY <1>1, <1>4, <2>2, RecursionDefines
    <3> QED
      BY <3>1 DEF HasRun
  <2>5. \A k \in 0 .. n : f[k] = IF k = 0 THEN a ELSE Step(f[k - 1], k)
    <3> SUFFICES ASSUME NEW k \in 0 .. n, k # 0
                 PROVE  f[k] = Step(f[k - 1], k)
      BY <2>4
    <3>1. k \in 1 .. n /\ k - 1 \in 0 .. n
      BY <1>1
    <3> QED
      BY <2>3, <2>4, <3>1
  <2>6. f = [k \in 0 .. n |-> IF k = 0 THEN a ELSE Step(f[k - 1], k)]
    BY <2>5
  <2>7. Computes(f)
    BY <2>6 DEF Computes
  <2> QED
    BY <2>7 DEF out
<1> HIDE DEF out
<1>7. out[0] = a /\ \A k \in 1 .. n : out[k] = Step(out[k - 1], k)
  <2> HIDE DEF Step
  <2> QED
    BY <1>1, <1>6
<1>8. \A k \in 0 .. n : out[k] \in S
  <2> HIDE DEF Step
  <2> QED
    BY <1>1, <1>4, <1>5, <1>7, StepsStay
<1>9. out \in [0 .. n -> S]
  <2> HIDE DEF Step
  <2> QED
    BY <1>6, <1>8
<1> QED
  BY <1>1, <1>2, <1>4, <1>7, <1>9 DEF n, h, S

\* Every section is in the file whole, where the table says, and behind it.
LEMMA SectionsWritten ==
  ASSUME NEW parts \in SectionsToWrite
  PROVE  LET f == WriteRun(parts)
             h == HEADER + ENTRY * Len(parts)
         IN  /\ f.bytes \in Seq(Nat) /\ f.total = Len(f.bytes) /\ h <= Len(f.bytes)
             /\ f.table \in Seq([tag : Tags, hash : Seq(Nat), off : Nat, size : Nat])
             /\ Len(f.table) = Len(parts)
             /\ \A k \in 1 .. Len(parts) :
                  LET s == f.table[k]
                  IN  /\ s.tag = parts[k].tag /\ s.hash = parts[k].data
                      /\ s.size = Len(parts[k].data)
                      /\ h <= s.off /\ s.off + s.size <= Len(f.bytes)
                      /\ Part(f.bytes, s.off, s.size) = parts[k].data
<1> DEFINE n == Len(parts)
           h == HEADER + ENTRY * n
           out == Written(parts)
           f == WriteRun(parts)
<1>1. n \in Nat /\ \A k \in 1 .. n : parts[k].tag \in Tags /\ parts[k].data \in Seq(Nat)
  BY SectionsAre
<1>2. /\ h \in Nat /\ out \in [0 .. n -> Seq(Nat)] /\ Len(out[0]) = h
      /\ \A k \in 1 .. n : out[k] = Padded(out[k - 1] \o parts[k].data)
  BY WrittenIs
<1>3. f = [bytes |-> out[n], total |-> Len(out[n]),
           table |-> [k \in 1 .. n |->
                        [tag |-> parts[k].tag, hash |-> parts[k].data,
                         off |-> Len(out[k - 1]), size |-> Len(parts[k].data)]]]
  BY DEF WriteRun, Written
<1> HIDE DEF n, h, out, f
<1>4. ASSUME NEW k \in 1 .. n
      PROVE  out[k] \in Seq(Nat) /\ out[k - 1] \in Seq(Nat) /\ out[k - 1] \o parts[k].data \in Seq(Nat)
             /\ Begins(out[k - 1] \o parts[k].data, out[k])
  <2>1. k \in 0 .. n /\ k - 1 \in 0 .. n
    BY <1>1
  <2>2. out[k] \in Seq(Nat) /\ out[k - 1] \in Seq(Nat) /\ out[k - 1] \o parts[k].data \in Seq(Nat)
    BY <1>1, <1>2, <2>1
  <2> QED
    BY <1>2, <2>2, PaddedIs
<1>5. ASSUME NEW k \in 1 .. n
      PROVE  Begins(out[k - 1] \o parts[k].data, out[n])
  <2> DEFINE b == out[k - 1] \o parts[k].data
             P == {m \in 0 .. n : m < k \/ Begins(b, out[m])}
  <2>0. b \in Seq(Nat)
    BY <1>4
  <2> HIDE DEF b
  <2>1. 0 \in P
    BY <1>1
  <2>2. ASSUME NEW m \in 1 .. n, m - 1 \in P
        PROVE  m \in P
    <3>1. CASE m < k
      BY <3>1
    <3>2. CASE m = k
      BY <1>4, <3>2 DEF b
    <3>3. CASE m > k
      <4>1. ~(m - 1 < k)
        BY <3>3
      <4>2. Begins(b, out[m - 1])
        BY <2>2, <4>1
      <4>3. /\ out[m - 1] \in Seq(Nat) /\ out[m] \in Seq(Nat) /\ parts[m].data \in Seq(Nat)
            /\ Begins(out[m - 1] \o parts[m].data, out[m])
        BY <1>1, <1>4
      <4>4. Len(b) \in Nat
        BY <2>0
      <4> DEFINE x == out[m - 1]
                 y == out[m]
                 d == parts[m].data
      <4>5. Begins(b, x) /\ x \in Seq(Nat) /\ y \in Seq(Nat) /\ d \in Seq(Nat) /\ Begins(x \o d, y)
        BY <4>2, <4>3
      <4> HIDE DEF x, y, d
      <4>6. Begins(x, y)
        <5>1. Len(x) \in Nat /\ Len(x \o d) = Len(x) + Len(d) /\ Len(d) \in Nat /\ Len(y) \in Nat
          BY <4>5
        <5>2. \A i \in 1 .. Len(x) : i \in 1 .. Len(x \o d) /\ (x \o d)[i] = x[i]
          BY <4>5, <5>1
        <5> QED
          BY <4>5, <5>1, <5>2 DEF Begins
      <4>7. Begins(b, y)
        BY <4>4, <4>5, <4>6 DEF Begins
      <4> QED
        BY <4>7 DEF y
    <3> QED
      BY <3>1, <3>2, <3>3
  <2> HIDE DEF P
  <2>3. \A m \in 0 .. n : m \in P
    BY <1>1, <2>1, <2>2, EveryStep
  <2>4. n \in P /\ ~(n < k)
    BY <1>1, <2>3
  <2> QED
    BY <2>4 DEF P, b
<1>6. ASSUME NEW k \in 0 .. n
      PROVE  h <= Len(out[k])
  <2> DEFINE P == {m \in 0 .. n : h <= Len(out[m])}
  <2>1. 0 \in P
    BY <1>1, <1>2
  <2>2. ASSUME NEW m \in 1 .. n, m - 1 \in P
        PROVE  m \in P
    <3> DEFINE x == out[m - 1]
               y == out[m]
               d == parts[m].data
    <3>1. x \in Seq(Nat) /\ y \in Seq(Nat) /\ d \in Seq(Nat) /\ Begins(x \o d, y) /\ h <= Len(x)
      BY <1>1, <1>4, <2>2
    <3> HIDE DEF x, y, d
    <3>2. h <= Len(y)
      BY <1>2, <3>1 DEF Begins
    <3> QED
      BY <3>2 DEF y
  <2> HIDE DEF P
  <2>3. \A m \in 0 .. n : m \in P
    BY <1>1, <2>1, <2>2, EveryStep
  <2> QED
    BY <2>3 DEF P
<1>7. out[n] \in Seq(Nat) /\ n \in 0 .. n
  BY <1>1, <1>2
<1>8. ASSUME NEW k \in 1 .. n
      PROVE  /\ Len(out[k - 1]) \in Nat /\ h <= Len(out[k - 1])
             /\ Len(out[k - 1]) + Len(parts[k].data) <= Len(out[n])
             /\ Part(out[n], Len(out[k - 1]), Len(parts[k].data)) = parts[k].data
  <2> DEFINE x == out[k - 1]
             d == parts[k].data
             o == out[n]
  <2>1. x \in Seq(Nat) /\ d \in Seq(Nat) /\ o \in Seq(Nat) /\ Begins(x \o d, o)
    BY <1>1, <1>4, <1>5, <1>7
  <2>2. h <= Len(x)
    <3>1. k - 1 \in 0 .. n
      BY <1>1
    <3> QED
      BY <1>6, <3>1
  <2> HIDE DEF x, d, o
  <2>3. Len(x) \in Nat /\ Len(d) \in Nat /\ Len(x) + Len(d) <= Len(o)
    BY <2>1 DEF Begins
  <2>4. \A i \in 1 .. Len(d) : o[Len(x) + i] = d[i]
    <3> SUFFICES ASSUME NEW i \in 1 .. Len(d)
                 PROVE  o[Len(x) + i] = d[i]
      OBVIOUS
    <3>1. Len(x) + i \in 1 .. Len(x \o d) /\ (x \o d)[Len(x) + i] = d[i]
      BY <2>1, <2>3
    <3> QED
      BY <2>1, <3>1 DEF Begins
  <2>5. Part(o, Len(x), Len(d)) = [i \in 1 .. Len(d) |-> o[Len(x) + i]]
    BY SMTT(30), <2>1, <2>3 DEF Part
  <2>6. d = [i \in 1 .. Len(d) |-> d[i]]
    BY <2>1
  <2> QED
    BY <2>2, <2>3, <2>4, <2>5, <2>6 DEF x, d, o
<1>9. f.table \in Seq([tag : Tags, hash : Seq(Nat), off : Nat, size : Nat]) /\ Len(f.table) = n
  <2>1. \A k \in 1 .. n : Len(parts[k].data) \in Nat
    BY <1>1
  <2>2. f.table = [k \in 1 .. n |-> [tag |-> parts[k].tag, hash |-> parts[k].data,
                                     off |-> Len(out[k - 1]), size |-> Len(parts[k].data)]]
    BY <1>3
  <2>3. \A k \in 1 .. n : f.table[k] \in [tag : Tags, hash : Seq(Nat), off : Nat, size : Nat]
    BY <1>1, <1>8, <2>1, <2>2
  <2> QED
    BY <1>1, <2>2, <2>3
<1>10. f.bytes = out[n] /\ f.total = Len(out[n])
  BY <1>3
<1>11. \A k \in 1 .. n :
         /\ f.table[k].tag = parts[k].tag /\ f.table[k].hash = parts[k].data
         /\ f.table[k].size = Len(parts[k].data) /\ f.table[k].off = Len(out[k - 1])
  BY <1>3
<1>12. h <= Len(out[n])
  BY <1>6, <1>7
<1> QED
  BY <1>7, <1>8, <1>9, <1>10, <1>11, <1>12 DEF n, h, f

-----------------------------------------------------------------------------
(* What fujopack puts into a container. *)

\* The number of the program's section.
ProgramAt(c) == IF c.icon THEN 3 ELSE 2

LEMMA ContainersAre ==
  ASSUME NEW c \in Containers
  PROVE  /\ c.icon \in BOOLEAN /\ c.prog \in Seq(Nat)
         /\ Len(c.resources) \in Nat /\ DOMAIN c.resources = 1 .. Len(c.resources)
         /\ \A k \in 1 .. Len(c.resources) :
              c.resources[k].name \in Nat /\ c.resources[k].data \in Seq(Nat)
<1> DEFINE R == [name : DOMAIN Kept, data : Seq(Nat)]
<1>1. c.icon \in BOOLEAN /\ c.prog \in Seq(Nat) /\ c.resources \in Seq(R) /\ DOMAIN Kept \subseteq Nat
  BY PackedAssumption
<1>2. \A r \in R : r.name \in Nat /\ r.data \in Seq(Nat)
  BY <1>1
<1> HIDE DEF R
<1> QED
  BY <1>1, <1>2

LEMMA PartsAre ==
  ASSUME NEW c \in Containers
  PROVE  LET ps == Parts(c)
             e == ProgramAt(c)
             n == Len(c.resources)
         IN  /\ ps \in SectionsToWrite /\ Len(ps) = e + n
             /\ ps[1].tag = "MANIFEST"
             /\ ps[1].data = [k \in 1 .. n |-> c.resources[k].name]
             /\ ps[e].tag = "EMBED" /\ ps[e].data = c.prog
             /\ \A k \in 2 .. e - 1 : ps[k].tag = "ICON"
             /\ \A k \in 1 .. n :
                  ps[e + k].tag = "DATA" /\ ps[e + k].data = c.resources[k].data
<1> DEFINE n == Len(c.resources)
           names == [k \in 1 .. n |-> c.resources[k].name]
           m == <<[tag |-> "MANIFEST", data |-> names]>>
           i == IF c.icon THEN <<[tag |-> "ICON", data |-> <<1>>]>> ELSE <<>>
           p == <<[tag |-> "EMBED", data |-> c.prog]>>
           d == [k \in 1 .. n |-> [tag |-> "DATA", data |-> c.resources[k].data]]
           S == Section
<1>1. /\ c.icon \in BOOLEAN /\ c.prog \in Seq(Nat) /\ n \in Nat /\ DOMAIN c.resources = 1 .. n
      /\ \A k \in 1 .. n : c.resources[k].name \in Nat /\ c.resources[k].data \in Seq(Nat)
  BY ContainersAre
<1>2. Parts(c) = m \o i \o p \o d
  BY <1>1 DEF Parts
<1> HIDE DEF n
<1>3. names \in Seq(Nat) /\ <<1>> \in Seq(Nat)
  BY <1>1
<1>4. \A x \in Seq(Nat) : /\ [tag |-> "MANIFEST", data |-> x] \in S
                          /\ [tag |-> "ICON", data |-> x] \in S
                          /\ [tag |-> "EMBED", data |-> x] \in S
                          /\ [tag |-> "DATA", data |-> x] \in S
  BY DEF Section, Tags
<1>5. m \in Seq(S) /\ Len(m) = 1 /\ m[1].tag = "MANIFEST" /\ m[1].data = names
  <2>1. [tag |-> "MANIFEST", data |-> names] \in S
    BY <1>3, <1>4
  <2> HIDE DEF S, names
  <2> QED
    BY <2>1
<1>6. /\ i \in Seq(S) /\ Len(i) = (IF c.icon THEN 1 ELSE 0)
      /\ c.icon => i[1].tag = "ICON"
  <2>1. [tag |-> "ICON", data |-> <<1>>] \in S
    BY <1>3, <1>4
  <2> HIDE DEF S
  <2> QED
    BY <1>1, <2>1
<1>7. p \in Seq(S) /\ Len(p) = 1 /\ p[1].tag = "EMBED" /\ p[1].data = c.prog
  <2>1. [tag |-> "EMBED", data |-> c.prog] \in S
    BY <1>1, <1>4
  <2> HIDE DEF S
  <2> QED
    BY <2>1
<1>8. d \in Seq(S) /\ Len(d) = n /\ \A k \in 1 .. n : d[k].tag = "DATA" /\ d[k].data = c.resources[k].data
  <2>1. \A k \in 1 .. n : [tag |-> "DATA", data |-> c.resources[k].data] \in S
    BY <1>1, <1>4
  <2> HIDE DEF S
  <2> QED
    BY <1>1, <2>1
<1> HIDE DEF m, i, p, d, S
<1>9. /\ m \o i \in Seq(S) /\ Len(m \o i) = 1 + Len(i)
      /\ (m \o i)[1] = m[1] /\ (c.icon => (m \o i)[2] = i[1])
  <2>1. /\ m \o i \in Seq(S) /\ Len(m \o i) = 1 + Len(i)
        /\ \A k \in 1 .. 1 : (m \o i)[k] = m[k]
        /\ \A k \in 1 .. Len(i) : (m \o i)[1 + k] = i[k]
    BY <1>5, <1>6, Joined
  <2>2. 1 \in 1 .. 1 /\ (c.icon => 1 \in 1 .. Len(i)) /\ 1 + 1 = 2
    BY <1>6
  <2> QED
    BY <2>1, <2>2
<1> DEFINE x == m \o i
           y == x \o p
           e == ProgramAt(c)
<1>10. e \in {2, 3} /\ x \in Seq(S) /\ Len(x) = e - 1 /\ x[1] = m[1] /\ (e = 3 => x[2] = i[1]) /\ (e = 3 <=> c.icon)
  BY <1>1, <1>6, <1>9 DEF ProgramAt
<1> HIDE DEF x, e
<1>11. /\ y \in Seq(S) /\ Len(y) = e /\ y[1] = m[1] /\ (e = 3 => y[2] = i[1]) /\ y[e] = p[1]
  <2>1. /\ x \o p \in Seq(S) /\ Len(x \o p) = (e - 1) + 1
        /\ \A k \in 1 .. e - 1 : (x \o p)[k] = x[k]
        /\ \A k \in 1 .. 1 : (x \o p)[(e - 1) + k] = p[k]
    BY <1>7, <1>10, Joined
  <2>2. 1 \in 1 .. 1 /\ 1 \in 1 .. e - 1 /\ (e = 3 => 2 \in 1 .. e - 1) /\ (e - 1) + 1 = e
    BY <1>10
  <2> QED
    BY <1>10, <2>1, <2>2
<1> HIDE DEF y
<1>12. /\ y \o d \in Seq(S) /\ Len(y \o d) = e + n
       /\ \A k \in 1 .. e : (y \o d)[k] = y[k]
       /\ \A k \in 1 .. n : (y \o d)[e + k] = d[k]
  <2>1. /\ y \o d \in Seq(S) /\ Len(y \o d) = Len(y) + Len(d)
        /\ \A k \in 1 .. Len(y) : (y \o d)[k] = y[k]
        /\ \A k \in 1 .. Len(d) : (y \o d)[Len(y) + k] = d[k]
    <3>1. y \in Seq(S) /\ d \in Seq(S)
      BY <1>8, <1>11
    <3> QED
      BY <3>1, Joined
  <2> QED
    BY <1>8, <1>11, <2>1
<1>13. Parts(c) = y \o d
  BY <1>2 DEF x, y
<1>14. \A k \in 2 .. e - 1 : k = 2 /\ e = 3 /\ k \in 1 .. e
  BY <1>10
<1>15. 1 \in 1 .. e /\ e \in 1 .. e
  BY <1>10
<1> HIDE DEF names
<1>16. /\ Parts(c)[1] = m[1] /\ Parts(c)[e] = p[1]
       /\ \A k \in 2 .. e - 1 : Parts(c)[k] = i[1] /\ c.icon
  BY <1>10, <1>11, <1>12, <1>13, <1>14, <1>15
<1>17. \A k \in 1 .. n : Parts(c)[e + k] = d[k]
  BY <1>12, <1>13
<1>18. Parts(c) \in SectionsToWrite /\ Len(Parts(c)) = e + n
  BY <1>12, <1>13 DEF SectionsToWrite, S
<1> DEFINE ps == Parts(c)
<1>19. ps[1].tag = "MANIFEST" /\ ps[1].data = names
  BY <1>5, <1>16
<1>20. ps[e].tag = "EMBED" /\ ps[e].data = c.prog
  BY <1>7, <1>16
<1>21. \A k \in 2 .. e - 1 : ps[k].tag = "ICON"
  BY <1>6, <1>16
<1>22. \A k \in 1 .. n : ps[e + k].tag = "DATA" /\ ps[e + k].data = c.resources[k].data
  BY <1>8, <1>17
<1> HIDE DEF ps
<1> QED
  BY <1>18, <1>19, <1>20, <1>21, <1>22 DEF n, e, names, ps

-----------------------------------------------------------------------------
(* Reading a container. *)

\* The resources of c as they are shown: at most MAX_RES, RES_MAX bytes of each.
ShownOf(c) ==
  [k \in 1 .. Shorter(Len(c.resources), MAX_RES) |->
     [name |-> Kept[c.resources[k].name],
      data |-> Part(c.resources[k].data, 0, Shorter(Len(c.resources[k].data), RES_MAX))]]

TableOf(c) == WriteRun(Parts(c)).table

\* The table t has the sections of c in their order.
Describes(t, c) ==
  LET e == ProgramAt(c)
      n == Len(c.resources)
  IN  /\ DOMAIN t = 1 .. e + n /\ Len(t) = e + n /\ e \in {2, 3} /\ n \in Nat
      /\ \A k \in 1 .. e + n : /\ t[k].off \in Nat /\ t[k].hash \in Seq(Nat)
                               /\ t[k].size = Len(t[k].hash)
      /\ {k \in DOMAIN t : t[k].tag = "MANIFEST"} = {1}
      /\ {k \in DOMAIN t : t[k].tag = "EMBED"} = {e}
      /\ {k \in DOMAIN t : t[k].tag = "DATA"} = e + 1 .. e + n
      /\ t[1].hash = [k \in 1 .. n |-> c.resources[k].name] /\ t[1].size = n
      /\ t[e].hash = c.prog
      /\ \A k \in 1 .. n : t[e + k].hash = c.resources[k].data

LEMMA TableIs ==
  ASSUME NEW c \in Containers
  PROVE  Describes(TableOf(c), c)
<1> DEFINE t == TableOf(c)
           e == ProgramAt(c)
           n == Len(c.resources)
           ps == Parts(c)
<1>1. /\ ps \in SectionsToWrite /\ Len(ps) = e + n
      /\ ps[1].tag = "MANIFEST" /\ ps[1].data = [k \in 1 .. n |-> c.resources[k].name]
      /\ ps[e].tag = "EMBED" /\ ps[e].data = c.prog
      /\ \A k \in 2 .. e - 1 : ps[k].tag = "ICON"
      /\ \A k \in 1 .. n : ps[e + k].tag = "DATA" /\ ps[e + k].data = c.resources[k].data
  BY PartsAre
<1>2. n \in Nat /\ e \in {2, 3}
  BY ContainersAre DEF ProgramAt
<1>3. \A k \in 1 .. e + n : ps[k].data \in Seq(Nat)
  BY <1>1, SectionsAre
<1>4. t = [k \in 1 .. e + n |-> [tag |-> ps[k].tag, hash |-> ps[k].data,
                                off |-> t[k].off, size |-> Len(ps[k].data)]]
  BY <1>1 DEF TableOf, WriteRun
<1>5. \A k \in 1 .. e + n : t[k].off \in Nat
  <2>1. /\ t \in Seq([tag : Tags, hash : Seq(Nat), off : Nat, size : Nat])
        /\ Len(t) = Len(ps)
    BY <1>1, SectionsWritten DEF TableOf
  <2> DEFINE R == [tag : Tags, hash : Seq(Nat), off : Nat, size : Nat]
  <2>2. \A r \in R : r.off \in Nat
    OBVIOUS
  <2> HIDE DEF R, t, ps
  <2>3. t \in Seq(R)
    BY <2>1 DEF R
  <2>4. \A k \in 1 .. e + n : t[k] \in R
    BY <1>1, <2>1, <2>3
  <2> QED
    BY <2>2, <2>4
<1> HIDE DEF t, e, n, ps
<1>6. DOMAIN t = 1 .. e + n /\ Len(t) = e + n
  BY <1>2, <1>4
<1>7. \A k \in 1 .. e + n : /\ t[k].tag = ps[k].tag /\ t[k].hash = ps[k].data
                            /\ t[k].size = Len(ps[k].data)
  BY <1>4
<1>8. \A k \in 1 .. e + n : k = 1 \/ k \in 2 .. e - 1 \/ k = e \/ (k - e \in 1 .. n /\ k = e + (k - e))
  BY <1>2
<1>9. 1 \in 1 .. e + n /\ e \in 1 .. e + n /\ e # 1 /\ \A k \in 1 .. n : e + k \in 1 .. e + n
  BY <1>2
<1>20. ASSUME NEW k \in 1 .. e + n
       PROVE  /\ t[k].tag = "MANIFEST" <=> k = 1
              /\ t[k].tag = "EMBED" <=> k = e
              /\ t[k].tag = "DATA" <=> k \in e + 1 .. e + n
  <2>1. CASE k = 1
    BY <1>1, <1>2, <1>7, <2>1
  <2>2. CASE k \in 2 .. e - 1
    <3>1. k # 1 /\ k # e /\ k \notin e + 1 .. e + n
      BY <1>2, <2>2
    <3>2. t[k].tag = "ICON"
      BY <1>1, <1>7, <2>2
    <3> QED
      BY <3>1, <3>2
  <2>3. CASE k = e
    BY <1>1, <1>2, <1>7, <2>3
  <2>4. CASE k - e \in 1 .. n
    <3>1. PICK m : m = k - e
      OBVIOUS
    <3>2. e + m = k /\ m \in 1 .. n /\ k # 1 /\ k # e /\ k \in e + 1 .. e + n
      BY <1>2, <2>4, <3>1
    <3>3. ps[k].tag = "DATA"
      BY <1>1, <3>2
    <3> QED
      BY <1>7, <3>2, <3>3
  <2> QED
    BY <1>8, <2>1, <2>2, <2>3, <2>4
<1>10. {k \in DOMAIN t : t[k].tag = "MANIFEST"} = {1}
  BY <1>6, <1>9, <1>20
<1>11. {k \in DOMAIN t : t[k].tag = "EMBED"} = {e}
  BY <1>6, <1>9, <1>20
<1>12. {k \in DOMAIN t : t[k].tag = "DATA"} = e + 1 .. e + n
  <2>1. \A k \in e + 1 .. e + n : k \in 1 .. e + n
    BY <1>2
  <2> QED
    BY <1>6, <1>20, <2>1
<1>13. Len([k \in 1 .. n |-> c.resources[k].name]) = n
  BY <1>2
<1>15. \A k \in 1 .. n : t[e + k].hash = c.resources[k].data
  BY <1>1, <1>7, <1>9
<1>16. t[1].hash = [k \in 1 .. n |-> c.resources[k].name] /\ t[1].size = n /\ t[e].hash = c.prog
  BY <1>1, <1>7, <1>9, <1>13
<1>17. \A k \in 1 .. e + n : /\ t[k].off \in Nat /\ t[k].hash \in Seq(Nat)
                             /\ t[k].size = Len(t[k].hash)
  BY <1>3, <1>5, <1>7
<1> QED
  BY ZenonT(30), <1>2, <1>6, <1>10, <1>11, <1>12, <1>15, <1>16, <1>17 DEF Describes, t, e, n

LEMMA ShorterIs ==
  ASSUME NEW a \in Nat, NEW b \in Nat
  PROVE  Shorter(a, b) \in Nat /\ Shorter(a, b) <= a /\ Shorter(a, b) <= b
  BY DEF Shorter

LEMMA CountIs ==
  ASSUME NEW a \in Nat, NEW b \in Nat, a <= b
  PROVE  Cardinality(a + 1 .. b) = b - a
<1>1. a + 1 \in Int /\ b \in Int
  OBVIOUS
<1>2. Cardinality(a + 1 .. b) = IF a + 1 > b THEN 0 ELSE b - (a + 1) + 1
  BY <1>1, FS_Interval
<1> QED
  BY <1>2

\* fujr::load reads what was packed out of every file with that table whose
\* sections have their hashes.
LEMMA ReadsBack ==
  ASSUME NEW c \in Containers, NEW f, f.table = TableOf(c),
         \A k \in DOMAIN f.table : Sound(f, f.table[k])
  PROVE  /\ ExecOf(f) = c.prog /\ LastSection(f, "MANIFEST").size = Len(c.resources)
         /\ ResourcesOf(f) = ShownOf(c)
<1> DEFINE t == f.table
           e == ProgramAt(c)
           n == Len(c.resources)
<1>1. /\ DOMAIN t = 1 .. e + n /\ Len(t) = e + n /\ e \in {2, 3} /\ n \in Nat
      /\ \A k \in 1 .. e + n : t[k].size = Len(t[k].hash)
      /\ Tagged(f, "MANIFEST") = {1} /\ Tagged(f, "EMBED") = {e}
      /\ Tagged(f, "DATA") = e + 1 .. e + n
      /\ t[1].hash = [k \in 1 .. n |-> c.resources[k].name] /\ t[1].size = n
      /\ t[e].hash = c.prog
      /\ \A k \in 1 .. n : t[e + k].hash = c.resources[k].data
  <2>1. Describes(t, c)
    BY TableIs
  <2> QED
    BY <2>1 DEF Describes, Tagged
<1> HIDE DEF e, n
<1>2. \A k \in 1 .. e + n : Content(f, t[k]) = t[k].hash
  BY <1>1 DEF Sound
<1>3. \A i \in Nat : Max({i}) = i
  BY DEF Max
<1>4. LastSection(f, "MANIFEST") = t[1] /\ LastSection(f, "EMBED") = t[e]
  BY <1>1, <1>3 DEF LastSection
<1>5. 1 \in 1 .. e + n /\ e \in 1 .. e + n
  BY <1>1
<1>6. ExecOf(f) = c.prog /\ LastSection(f, "MANIFEST").size = n
  BY <1>1, <1>2, <1>4, <1>5 DEF ExecOf
<1> DEFINE m == Shorter(n, MAX_RES)
<1>7. MAX_RES \in Nat /\ m \in Nat /\ m <= n /\ m <= MAX_RES
  BY <1>1, ShorterIs, LoadersAssumption
<1>8. NamesOf(f) = [k \in 1 .. m |-> Kept[c.resources[k].name]]
  <2>1. Content(f, LastSection(f, "MANIFEST")) = [k \in 1 .. n |-> c.resources[k].name]
    BY <1>1, <1>2, <1>4, <1>5
  <2>2. Len([k \in 1 .. n |-> c.resources[k].name]) = n
    BY <1>1
  <2>3. \A k \in 1 .. m : k \in 1 .. n
    BY <1>1, <1>7
  <2> HIDE DEF n
  <2> QED
    BY <2>1, <2>2, <2>3 DEF NamesOf
<1>9. Cardinality(Tagged(f, "DATA")) = n
  <2>1. e \in Nat /\ e + n \in Nat /\ e <= e + n /\ (e + n) - e = n
    BY <1>1
  <2>2. Cardinality(e + 1 .. e + n) = (e + n) - e
    BY <2>1, CountIs
  <2> QED
    BY <1>1, <2>1, <2>2
<1>10. ASSUME NEW k \in 1 .. n
       PROVE  DataSection(f, k) = t[e + k]
  <2> DEFINE D == Tagged(f, "DATA")
             At(i) == Cardinality({j \in D : j <= i}) = k
  <2>0. D = e + 1 .. e + n /\ e \in Nat /\ n \in Nat
    BY <1>1
  <2> HIDE DEF D
  <2>1. ASSUME NEW i \in D
        PROVE  Cardinality({j \in D : j <= i}) = i - e
    <3>1. {j \in D : j <= i} = e + 1 .. i
      BY <2>0
    <3>2. e \in Nat /\ i \in Nat /\ e <= i
      BY <2>0
    <3>3. Cardinality(e + 1 .. i) = i - e
      BY <3>2, CountIs
    <3> QED
      BY <3>1, <3>3
  <2>2. e + k \in D /\ \A i \in D : i - e = k <=> i = e + k
    BY <2>0
  <2>3. \A i \in D : At(i) <=> i = e + k
    BY <2>1, <2>2
  <2> HIDE DEF At
  <2>4. (CHOOSE i \in D : At(i)) = e + k
    BY <2>2, <2>3
  <2> QED
    BY <2>4 DEF DataSection, D, At
<1>11. ASSUME NEW k \in 1 .. n
       PROVE  /\ Content(f, DataSection(f, k)) = c.resources[k].data
              /\ DataSection(f, k).size = Len(c.resources[k].data)
  <2>1. e + k \in 1 .. e + n
    BY <1>1
  <2> QED
    BY <1>1, <1>2, <1>10, <2>1
<1>12. Len(NamesOf(f)) = m
  BY <1>7, <1>8
<1>13. Shorter(m, m) = m
  BY <1>7 DEF Shorter
<1>14. ResourcesOf(f) = [k \in 1 .. m |->
                          [name |-> NamesOf(f)[k],
                           data |-> Part(Content(f, DataSection(f, k)), 0,
                                         Shorter(DataSection(f, k).size, RES_MAX))]]
  BY <1>9, <1>12, <1>13 DEF ResourcesOf
<1>15. \A k \in 1 .. m : k \in 1 .. n /\ NamesOf(f)[k] = Kept[c.resources[k].name]
  BY <1>1, <1>7, <1>8
<1>16. ResourcesOf(f) = ShownOf(c)
  <2> HIDE DEF m
  <2>1. ShownOf(c) =
          [k \in 1 .. m |->
             [name |-> Kept[c.resources[k].name],
              data |-> Part(c.resources[k].data, 0, Shorter(Len(c.resources[k].data), RES_MAX))]]
    BY DEF ShownOf, m, n
  <2> QED
    BY <1>11, <1>14, <1>15, <2>1
<1> QED
  BY <1>6, <1>16 DEF n

\* What lies in the file was packed, at least its table; an intact one is as it
\* was written; and the resources shown are those of the last container mounted.
NothingPacked == [icon |-> FALSE, prog |-> <<>>, resources |-> <<>>]
ContainerInv ==
  /\ packed \in Containers \cup {NothingPacked}
  /\ mountedOf \in Containers \cup {NothingPacked}
  /\ file = [bytes |-> file.bytes, total |-> file.total, table |-> file.table]
  /\ file.bytes \in Seq(Nat)
  /\ file # NoContainer => packed \in Containers /\ file.table = TableOf(packed)
  /\ intact => packed \in Containers /\ file = WriteRun(Parts(packed))
  /\ RES = ShownOf(mountedOf)

LEMMA ContainerInvInit ==
  ASSUME ContainerInit
  PROVE  ContainerInv
<1>1. /\ file = NoContainer /\ ~intact /\ RES = <<>> /\ packed = NothingPacked
      /\ mountedOf = NothingPacked /\ intact = FALSE
  BY DEF ContainerInit, NothingPacked
<1>2. ShownOf(NothingPacked) = <<>>
  <2>1. Shorter(0, MAX_RES) = 0
    BY LoadersAssumption DEF Shorter
  <2>2. NothingPacked.resources = <<>> /\ Len(NothingPacked.resources) = 0
    BY DEF NothingPacked
  <2> QED
    BY <2>1, <2>2 DEF ShownOf
<1> QED
  BY <1>1, <1>2 DEF ContainerInv, NoContainer

LEMMA TableLenIs ==
  ASSUME NEW t, NEW c, Describes(t, c)
  PROVE  Len(t) \in Nat
<1>1. /\ Len(t) = ProgramAt(c) + Len(c.resources) /\ ProgramAt(c) \in {2, 3}
      /\ Len(c.resources) \in Nat
  BY DEF Describes
<1> QED
  BY <1>1

LEMMA TableEndIs ==
  ASSUME NEW f, Len(f.table) \in Nat
  PROVE  TableEnd(f) = HEADER + ENTRY * Len(f.table) /\ HEADER \in Nat
         /\ TableEnd(f) \in Nat /\ HEADER <= TableEnd(f)
<1> DEFINE n == Len(f.table)
<1>1. \A a, b \in Nat : a * b \in Nat
  OBVIOUS
<1>2. n \in Nat /\ ENTRY \in Nat /\ HEADER \in Nat
  BY LoadersAssumption
<1> HIDE DEF n
<1>3. ENTRY * n \in Nat
  BY <1>1, <1>2
<1>4. TableEnd(f) = HEADER + ENTRY * n
  BY DEF TableEnd, n
<1> DEFINE e == ENTRY * n
<1>5. e \in Nat /\ TableEnd(f) = HEADER + e
  BY <1>3, <1>4
<1> HIDE DEF e
<1>6. TableEnd(f) \in Nat /\ HEADER <= TableEnd(f)
  BY <1>2, <1>5
<1> QED
  BY <1>2, <1>4, <1>6 DEF n

\* What write_run wrote is a file with the table of what was packed, and both
\* readers accept it.
LEMMA PackedIs ==
  ASSUME NEW c \in Containers
  PROVE  LET f == WriteRun(Parts(c))
         IN  /\ f = [bytes |-> f.bytes, total |-> f.total, table |-> f.table]
             /\ f.bytes \in Seq(Nat) /\ f.table = TableOf(c)
             /\ Accepts(f) /\ ReadRun(f)
<1> DEFINE ps == Parts(c)
           f == WriteRun(ps)
           n == Len(ps)
           h == HEADER + ENTRY * n
<1>1. ps \in SectionsToWrite /\ n \in Nat
  BY PartsAre, SectionsAre
<1>2. /\ f.bytes \in Seq(Nat) /\ f.total = Len(f.bytes) /\ h <= Len(f.bytes)
      /\ Len(f.table) = n
      /\ \A k \in 1 .. n :
           LET s == f.table[k]
           IN  /\ s.tag = ps[k].tag /\ s.hash = ps[k].data
               /\ s.size = Len(ps[k].data)
               /\ h <= s.off /\ s.off + s.size <= Len(f.bytes)
               /\ Part(f.bytes, s.off, s.size) = ps[k].data
  BY <1>1, SectionsWritten
<1>3. f = [bytes |-> f.bytes, total |-> f.total, table |-> f.table]
  BY DEF WriteRun
<1>4. f.table = TableOf(c)
  BY DEF TableOf
<1>5. Describes(f.table, c)
  BY <1>4, TableIs
<1> HIDE DEF f, ps
<1>6. DOMAIN f.table = 1 .. n /\ Tagged(f, "EMBED") # {}
  BY <1>2, <1>5 DEF Describes, Tagged
<1>7. TableEnd(f) = h /\ h \in Nat /\ HEADER <= h /\ HEADER \in Nat
  <2>1. Len(f.table) \in Nat
    BY <1>1, <1>2
  <2> QED
    BY <1>2, <2>1, TableEndIs
<1>8. \A k \in DOMAIN f.table : Sound(f, f.table[k]) /\ f.table[k].off >= TableEnd(f)
  BY <1>2, <1>6, <1>7 DEF Sound, InBounds, Content
<1>9. Len(f.bytes) \in Nat
  BY <1>2
<1>10. Accepts(f) /\ ReadRun(f)
  <2> HIDE DEF h
  <2>1. Len(f.bytes) >= HEADER /\ Len(f.bytes) >= TableEnd(f)
    BY <1>2, <1>7, <1>9
  <2> QED
    BY <1>2, <1>6, <1>8, <2>1 DEF Accepts, ReadRun
<1> QED
  BY <1>2, <1>3, <1>4, <1>10 DEF f, ps

LEMMA ContainerInvStep ==
  ASSUME ContainerInv, [ContainerNext]_containerVars
  PROVE  ContainerInv'
<1>1. CASE UNCHANGED containerVars
  BY <1>1 DEF ContainerInv, containerVars, TableOf, ShownOf
<1>2. ASSUME NEW c \in Containers, Pack(c)
      PROVE  ContainerInv'
  <2>1. /\ file' = WriteRun(Parts(c)) /\ packed' = c /\ intact' = TRUE
        /\ RES' = RES /\ mountedOf' = mountedOf
    BY <1>2 DEF Pack
  <2>2. /\ file' = [bytes |-> file'.bytes, total |-> file'.total, table |-> file'.table]
        /\ file'.bytes \in Seq(Nat) /\ file'.table = TableOf(c)
    BY <2>1, PackedIs
  <2> QED
    BY <2>1, <2>2 DEF ContainerInv
<1>3. ASSUME NEW i, DamageByte(i)
      PROVE  ContainerInv'
  <2>1. /\ intact /\ file' = [file EXCEPT !.bytes[i] = @ + 50] /\ intact' = FALSE
        /\ packed' = packed /\ RES' = RES /\ mountedOf' = mountedOf
        /\ i \in TableEnd(file) + 1 .. Len(file.bytes)
    BY <1>3 DEF DamageByte
  <2>2. packed \in Containers /\ file = WriteRun(Parts(packed))
    BY <2>1 DEF ContainerInv
  <2>3. file.table = TableOf(packed)
    BY <2>2 DEF TableOf
  <2>4. /\ file = [bytes |-> file.bytes, total |-> file.total, table |-> file.table]
        /\ file.bytes \in Seq(Nat)
    BY DEF ContainerInv
  <2>5. /\ file'.bytes = [file.bytes EXCEPT ![i] = @ + 50] /\ file'.total = file.total
        /\ file'.table = file.table
        /\ file' = [bytes |-> file'.bytes, total |-> file'.total, table |-> file'.table]
    BY <2>1, <2>4
  <2>6. file'.bytes \in Seq(Nat)
    <3> DEFINE b == file.bytes
    <3>1. b \in Seq(Nat) /\ Len(b) \in Nat
      BY <2>4
    <3>2. file'.bytes = [j \in 1 .. Len(b) |-> IF j = i THEN b[j] + 50 ELSE b[j]]
      BY <2>4, <2>5
    <3>3. \A j \in 1 .. Len(b) : b[j] \in Nat
      BY <3>1
    <3> HIDE DEF b
    <3>4. [j \in 1 .. Len(b) |-> IF j = i THEN b[j] + 50 ELSE b[j]] \in Seq(Nat)
      BY <3>1, <3>3
    <3> QED
      BY <3>2, <3>4
  <2> QED
    BY <2>1, <2>2, <2>3, <2>5, <2>6 DEF ContainerInv
<1>4. ASSUME NEW n, Truncate(n)
      PROVE  ContainerInv'
  <2>1. /\ intact /\ file' = [file EXCEPT !.bytes = Part(@, 0, n)] /\ intact' = FALSE
        /\ packed' = packed /\ RES' = RES /\ mountedOf' = mountedOf
        /\ n \in TableEnd(file) .. Len(file.bytes) - 1
    BY <1>4 DEF Truncate
  <2>2. packed \in Containers /\ file = WriteRun(Parts(packed))
    BY <2>1 DEF ContainerInv
  <2>3. file.table = TableOf(packed)
    BY <2>2 DEF TableOf
  <2>4. /\ file = [bytes |-> file.bytes, total |-> file.total, table |-> file.table]
        /\ file.bytes \in Seq(Nat)
    BY DEF ContainerInv
  <2>5. /\ file'.bytes = Part(file.bytes, 0, n) /\ file'.total = file.total
        /\ file'.table = file.table
        /\ file' = [bytes |-> file'.bytes, total |-> file'.total, table |-> file'.table]
    BY <2>1, <2>4
  <2>6. Part(file.bytes, 0, n) \in Seq(Nat)
    <3>1. ReadRun(file)
      BY <2>2, PackedIs
    <3>2. Describes(file.table, packed)
      BY <2>2, <2>3, TableIs
    <3>3. TableEnd(file) \in Nat
      <4>1. Len(file.table) \in Nat
        BY <3>2, TableLenIs
      <4> QED
        BY <4>1, TableEndIs
    <3>4. n \in Nat /\ n <= Len(file.bytes) /\ Len(file.bytes) \in Nat
      BY <2>1, <2>4, <3>3
    <3> QED
      BY <2>4, <3>4 DEF Part
  <2> QED
    BY <2>1, <2>2, <2>3, <2>5, <2>6 DEF ContainerInv
<1>5. ASSUME Mount
      PROVE  ContainerInv'
  <2>1. /\ file # NoContainer /\ file' = file /\ packed' = packed /\ intact' = intact
        /\ \/ RES' = RES /\ mountedOf' = mountedOf
           \/ Accepts(file) /\ RES' = ResourcesOf(file) /\ mountedOf' = packed
    BY <1>5 DEF Mount
  <2>2. packed \in Containers /\ file.table = TableOf(packed)
    BY <2>1 DEF ContainerInv
  <2>3. Accepts(file) => ResourcesOf(file) = ShownOf(packed)
    BY <2>2, ReadsBack DEF Accepts
  <2>4. CASE RES' = RES /\ mountedOf' = mountedOf
    BY <2>1, <2>4 DEF ContainerInv
  <2>5. CASE Accepts(file) /\ RES' = ResourcesOf(file) /\ mountedOf' = packed
    <3>1. RES' = ShownOf(mountedOf')
      BY <2>3, <2>5
    <3> QED
      BY <2>1, <2>2, <2>5, <3>1 DEF ContainerInv
  <2> QED
    BY <2>1, <2>4, <2>5
<1> QED
  BY <1>1, <1>2, <1>3, <1>4, <1>5 DEF ContainerNext

LEMMA ContainersKeptHolds ==
  ASSUME ContainerInv
  PROVE  ContainersKept
<1> SUFFICES ASSUME file # NoContainer
             PROVE  /\ intact => Accepts(file) /\ ReadRun(file)
                    /\ ReadRun(file) => Accepts(file)
                    /\ Accepts(file) => ExecOf(file) = packed.prog
  BY DEF ContainersKept
<1>1. packed \in Containers /\ file.table = TableOf(packed) /\ file.bytes \in Seq(Nat)
  BY DEF ContainerInv
<1>2. intact => Accepts(file) /\ ReadRun(file)
  BY PackedIs DEF ContainerInv
<1>3. Describes(file.table, packed)
  BY <1>1, TableIs
<1>4. ReadRun(file) => Accepts(file)
  <2>1. Tagged(file, "EMBED") # {}
    BY <1>3 DEF Describes, Tagged
  <2>2. HEADER \in Nat /\ TableEnd(file) \in Nat /\ HEADER <= TableEnd(file)
    <3>1. Len(file.table) \in Nat
      BY <1>3, TableLenIs
    <3> QED
      BY <3>1, TableEndIs
  <2>3. Len(file.bytes) \in Nat
    BY <1>1
  <2> QED
    BY <2>1, <2>2, <2>3 DEF ReadRun, Accepts
<1>5. Accepts(file) => ExecOf(file) = packed.prog
  BY <1>1, ReadsBack DEF Accepts
<1> QED
  BY <1>2, <1>4, <1>5

LEMMA MountedIsPackedHolds ==
  ASSUME ContainerInv
  PROVE  MountedIsPacked
<1> DEFINE rs == mountedOf.resources
           m == Shorter(Len(rs), MAX_RES)
<1>1. Len(rs) \in Nat /\ m \in Nat
  <2>1. Len(rs) \in Nat
    <3>1. CASE mountedOf \in Containers
      BY <3>1, ContainersAre
    <3>2. CASE mountedOf = NothingPacked
      BY <3>2 DEF NothingPacked
    <3> QED
      BY <3>1, <3>2 DEF ContainerInv
  <2>2. MAX_RES \in Nat
    BY LoadersAssumption
  <2> QED
    BY <2>1, <2>2, ShorterIs
<1>2. RES = [k \in 1 .. m |->
               [name |-> Kept[rs[k].name],
                data |-> Part(rs[k].data, 0, Shorter(Len(rs[k].data), RES_MAX))]]
  BY DEF ContainerInv, ShownOf
<1> HIDE DEF m
<1>3. DOMAIN RES = 1 .. m /\ Len(RES) = m
  BY <1>1, <1>2
<1>4. ASSUME NEW k \in DOMAIN RES
      PROVE  /\ RES[k].name = Kept[rs[k].name]
             /\ RES[k].data = Part(rs[k].data, 0, Shorter(Len(rs[k].data), RES_MAX))
  BY <1>2, <1>3
<1>5. ASSUME NEW k \in DOMAIN RES,
             \A j \in DOMAIN RES : RES[j].name = RES[k].name =>
               ~(RES[j].data # <<>> /\ (j < k \/ RES[k].data = <<>>))
      PROVE  Resource(rs[k].name) = RES[k].data
  <2> DEFINE found == {j \in DOMAIN RES : RES[j].name = Kept[rs[k].name] /\ RES[j].data # <<>>}
  <2>1. Resource(rs[k].name) = IF found = {} THEN <<>> ELSE RES[Min(found)].data
    BY DEF Resource
  <2>2. \A j \in found : j \in DOMAIN RES /\ RES[j].name = RES[k].name /\ RES[j].data # <<>>
    BY <1>4
  <2>3. CASE RES[k].data = <<>>
    <3>1. found = {}
      BY <1>5, <2>2, <2>3
    <3> QED
      BY <2>1, <2>3, <3>1
  <2>4. CASE RES[k].data # <<>>
    <3>1. k \in found
      BY <1>4, <2>4
    <3>2. \A j \in found : ~(j < k) /\ j \in Nat
      BY <1>3, <1>5, <2>2
    <3>3. found \in SUBSET Nat
      BY <1>3
    <3> HIDE DEF found
    <3>4. Min(found) \in found /\ Min(found) <= k
      BY <3>1, <3>3, MinIs
    <3>5. Min(found) = k
      BY <3>1, <3>2, <3>4
    <3> QED
      BY <2>1, <3>1, <3>5
  <2> QED
    BY <2>3, <2>4
<1> QED
  BY <1>3, <1>4, <1>5 DEF MountedIsPacked, m

-----------------------------------------------------------------------------
(* Loading a program. *)

LEMMA SegmentIs ==
  ASSUME NEW s \in Segment
  PROVE  s.off \in Nat /\ s.filesz \in Nat /\ s.vaddr \in Nat /\ s.memsz \in Nat
  BY DEF Segment

LEMMA FilesAre ==
  ASSUME NEW f \in ElfFiles \cup PeFiles \cup MachFiles
  PROVE  /\ f.segs \in Seq(Segment) /\ Len(f.segs) \in Nat /\ DOMAIN f.segs = 1 .. Len(f.segs)
         /\ \A k \in DOMAIN f.segs :
              /\ f.segs[k] \in Segment /\ f.segs[k].off \in Nat /\ f.segs[k].filesz \in Nat
              /\ f.segs[k].vaddr \in Nat /\ f.segs[k].memsz \in Nat
<1>1. f.segs \in Seq(Segment)
  BY ImageAssumption
<1> DEFINE S == Segment
           t == f.segs
<1>2. t \in Seq(S)
  BY <1>1
<1> HIDE DEF S, t
<1>3. Len(t) \in Nat /\ DOMAIN t = 1 .. Len(t) /\ \A k \in DOMAIN t : t[k] \in S
  BY <1>2
<1> QED
  BY <1>2, <1>3, SegmentIs DEF S, t

\* A segment's bytes, and the zeroes behind them, are at its address; the rest
\* of memory stays.
PlacesIt(D, m, buf, s, at) ==
  /\ DOMAIN Placed(m, buf, s, at) = D
  /\ \A a \in D :
       Placed(m, buf, s, at)[a] =
         IF a - at \notin Span(s) THEN m[a]
         ELSE IF a - at < s.filesz THEN buf[s.off + (a - at) + 1] ELSE 0

LEMMA PlacedIs ==
  ASSUME NEW D \in SUBSET Int, NEW V, NEW m \in [D -> V], NEW buf, NEW s \in Segment,
         NEW at \in Int
  PROVE  PlacesIt(D, m, buf, s, at)
<1>1. s.off \in Nat /\ s.filesz \in Nat /\ s.vaddr \in Nat /\ s.memsz \in Nat
  BY SegmentIs
<1>2. Placed(m, buf, s, at) =
        [a \in D |-> IF a \in at .. at + s.filesz - 1 THEN buf[s.off + (a - at) + 1]
                     ELSE IF a \in at + s.filesz .. at + s.memsz - 1 THEN 0 ELSE m[a]]
  BY DEF Placed
<1>3. ASSUME NEW a \in D
      PROVE  /\ a \in at .. at + s.filesz - 1 <=> a - at \in Span(s) /\ a - at < s.filesz
             /\ a \in at + s.filesz .. at + s.memsz - 1 <=> a - at \in Span(s) /\ ~(a - at < s.filesz)
  BY <1>1 DEF Span
<1> QED
  BY <1>2, <1>3 DEF PlacesIt

\* After all segments are placed, a byte of one is where it belongs unless a
\* later one lies over it.
LaysThem(D, m, f, K, shift) ==
  /\ Laid(m, f, K, shift) = [a \in D |-> Laid(m, f, K, shift)[a]]
  /\ \A k \in K : \A j \in Span(f.segs[k]) :
       LET a == f.segs[k].vaddr + shift + j
       IN  a \in D /\ ~Hidden(f, K, k, j)
             => Laid(m, f, K, shift)[a] = ByteOf(f, f.segs[k], j)

LEMMA LaidIs ==
  ASSUME NEW f \in ElfFiles \cup PeFiles \cup MachFiles,
         NEW D \in SUBSET Int, NEW m, m = [a \in D |-> m[a]],
         NEW K \in SUBSET DOMAIN f.segs, NEW shift \in Int
  PROVE  LaysThem(D, m, f, K, shift)
<1> DEFINE V == {m[a] : a \in D} \cup {f.buf[i] : i \in Int} \cup {0}
           S == [D -> V]
           n == Len(f.segs)
           Step(y, k) == IF k \in K THEN Placed(y, f.buf, f.segs[k], f.segs[k].vaddr + shift)
                         ELSE y
           Computes(t) == t = [k \in 0 .. n |-> IF k = 0 THEN m ELSE Step(t[k - 1], k)]
           mem == CHOOSE t : Computes(t)
<1>1. /\ n \in Nat /\ DOMAIN f.segs = 1 .. n
      /\ \A k \in 1 .. n : /\ f.segs[k] \in Segment /\ f.segs[k].vaddr + shift \in Int
                           /\ f.segs[k].off \in Nat /\ f.segs[k].filesz \in Nat
                           /\ f.segs[k].vaddr \in Nat /\ f.segs[k].memsz \in Nat
  BY FilesAre
<1>2. Laid(m, f, K, shift) = mem[n]
  <2>1. mem = CHOOSE t : t = [k \in 0 .. n |->
                 IF k = 0 THEN m
                 ELSE IF k \in K THEN Placed(t[k - 1], f.buf, f.segs[k], f.segs[k].vaddr + shift)
                 ELSE t[k - 1]]
    OBVIOUS
  <2> HIDE DEF mem
  <2> QED
    BY <2>1 DEF Laid
<1>3. m \in S /\ 0 \in V /\ \A i \in Int : f.buf[i] \in V
  OBVIOUS
<1> HIDE DEF n, V
<1>4. ASSUME NEW k \in K, NEW y \in S
      PROVE  /\ DOMAIN Step(y, k) = D
             /\ \A a \in D :
                  LET j == a - (f.segs[k].vaddr + shift)
                  IN  Step(y, k)[a] = IF j \notin Span(f.segs[k]) THEN y[a]
                                      ELSE ByteOf(f, f.segs[k], j)
  <2>1. f.segs[k] \in Segment /\ f.segs[k].vaddr + shift \in Int
    BY <1>1
  <2>2. Step(y, k) = Placed(y, f.buf, f.segs[k], f.segs[k].vaddr + shift)
    OBVIOUS
  <2> DEFINE s == f.segs[k]
             at == f.segs[k].vaddr + shift
             b == f.buf
  <2>3. y \in [D -> V] /\ s \in Segment /\ at \in Int /\ Step(y, k) = Placed(y, b, s, at)
    BY <2>1, <2>2
  <2> HIDE DEF Step, s, at, b, S
  <2>4. /\ DOMAIN Placed(y, b, s, at) = D
        /\ \A a \in D :
             Placed(y, b, s, at)[a] =
               IF a - at \notin Span(s) THEN y[a]
               ELSE IF a - at < s.filesz THEN b[s.off + (a - at) + 1] ELSE 0
    <3>1. PlacesIt(D, y, b, s, at)
      BY <2>3, PlacedIs
    <3> QED
      BY <3>1 DEF PlacesIt
  <2>5. \A a \in D : Step(y, k)[a] = IF a - at \notin Span(s) THEN y[a]
                                     ELSE ByteOf(f, s, a - at)
    BY <2>3, <2>4 DEF ByteOf, b
  <2> QED
    BY <2>3, <2>4, <2>5 DEF s, at
<1>5. \A k \in 1 .. n : \A y \in S : Step(y, k) \in S
  <2> SUFFICES ASSUME NEW k \in 1 .. n, NEW y \in S, k \in K
               PROVE  Step(y, k) \in S
    OBVIOUS
  <2>1. f.segs[k].vaddr + shift \in Int /\ f.segs[k].off \in Nat
    BY <1>1
  <2>2. Step(y, k) = Placed(y, f.buf, f.segs[k], f.segs[k].vaddr + shift)
    OBVIOUS
  <2>3. ASSUME NEW a \in D
        PROVE  Step(y, k)[a] \in V
    <3>1. y[a] \in V
      OBVIOUS
    <3>2. f.segs[k].off + (a - (f.segs[k].vaddr + shift)) + 1 \in Int
      BY <2>1
    <3> HIDE DEF Step
    <3> QED
      BY <1>3, <1>4, <3>1, <3>2 DEF ByteOf
  <2>4. Step(y, k) = [a \in D |-> Step(y, k)[a]]
    <3>1. DOMAIN y = D
      OBVIOUS
    <3> QED
      BY <2>2, <3>1 DEF Placed
  <2> HIDE DEF Step
  <2> QED
    BY <2>3, <2>4
<1> HIDE DEF S
<1>6. Computes(mem)
  <2> DEFINE g == [k \in 1 .. n |-> [y \in S |-> Step(y, k)]]
  <2> HIDE DEF Step
  <2>1. \A k \in 1 .. n : [y \in S |-> Step(y, k)] \in [S -> S]
    BY <1>5
  <2>2. g \in [1 .. n -> [S -> S]]
    BY <2>1
  <2>3. \A k \in 1 .. n : \A y \in S : g[k][y] = Step(y, k)
    OBVIOUS
  <2> HIDE DEF g, Computes, mem
  <2>4. PICK h \in [0 .. n -> S] : h[0] = m /\ \A k \in 1 .. n : h[k] = g[k][h[k - 1]]
    <3>1. HasRun(n, S, m, g)
      BY <1>1, <1>3, <2>2, RecursionDefines
    <3> QED
      BY <3>1 DEF HasRun
  <2>5. \A k \in 0 .. n : h[k] = IF k = 0 THEN m ELSE Step(h[k - 1], k)
    <3> SUFFICES ASSUME NEW k \in 0 .. n, k # 0
                 PROVE  h[k] = Step(h[k - 1], k)
      BY <2>4
    <3>1. k \in 1 .. n /\ k - 1 \in 0 .. n
      BY <1>1
    <3> QED
      BY <2>3, <2>4, <3>1
  <2>6. h = [k \in 0 .. n |-> IF k = 0 THEN m ELSE Step(h[k - 1], k)]
    BY <2>5
  <2>7. Computes(h)
    BY <2>6 DEF Computes
  <2> QED
    BY <2>7 DEF mem
<1> HIDE DEF mem
<1>7. mem[0] = m /\ \A k \in 1 .. n : mem[k] = Step(mem[k - 1], k)
  <2> HIDE DEF Step
  <2> QED
    BY <1>1, <1>6
<1>8. \A k \in 0 .. n : mem[k] \in S
  <2> HIDE DEF Step
  <2>1. \A k \in 1 .. n : mem[k - 1] \in S => mem[k] \in S
    BY <1>5, <1>7
  <2>2. mem[0] \in S
    BY <1>3, <1>7
  <2> QED
    BY <1>1, <2>1, <2>2, StepsStay
<1>9. mem[n] = [a \in D |-> mem[n][a]]
  <2>1. mem[n] \in S
    BY <1>1, <1>8
  <2> QED
    BY <2>1 DEF S
<1>10. ASSUME NEW k \in K, NEW j \in Span(f.segs[k]), f.segs[k].vaddr + shift + j \in D,
              ~Hidden(f, K, k, j)
       PROVE  mem[n][f.segs[k].vaddr + shift + j] = ByteOf(f, f.segs[k], j)
  <2> DEFINE a == f.segs[k].vaddr + shift + j
             b == ByteOf(f, f.segs[k], j)
             P == {i \in 0 .. n : i < k \/ mem[i][a] = b}
  <2>0. /\ k \in 1 .. n /\ j \in Int /\ a \in D /\ a \in Int
        /\ f.segs[k].vaddr \in Nat
    BY <1>1, <1>10 DEF Span
  <2>1. 0 \in P
    BY <1>1, <2>0
  <2>2. ASSUME NEW i \in 1 .. n, i - 1 \in P
        PROVE  i \in P
    <3>0. i \in 0 .. n /\ i - 1 \in 0 .. n /\ mem[i - 1] \in S /\ mem[i] = Step(mem[i - 1], i)
      BY <1>1, <1>7, <1>8
    <3>1. CASE i < k
      BY <3>0, <3>1
    <3>2. CASE i = k
      <4>1. a - (f.segs[k].vaddr + shift) = j
        BY <2>0
      <4>2. Step(mem[i - 1], k)[a] = b
        <5> HIDE DEF Step
        <5> QED
          BY <1>4, <1>10, <2>0, <3>0, <4>1
      <4> QED
        BY <3>0, <3>2, <4>2
    <3>3. CASE i > k
      <4>1. mem[i - 1][a] = b
        BY <2>0, <2>2, <3>3
      <4>2. CASE i \notin K
        BY <3>0, <4>1, <4>2
      <4>3. CASE i \in K
        <5>1. f.segs[k].vaddr + j - f.segs[i].vaddr \notin Span(f.segs[i])
          BY <1>10, <3>3, <4>3 DEF Hidden
        <5>2. a - (f.segs[i].vaddr + shift) = f.segs[k].vaddr + j - f.segs[i].vaddr
          <6>1. f.segs[i].vaddr \in Int /\ f.segs[k].vaddr \in Int /\ j \in Int /\ shift \in Int
            BY <1>1, <2>0
          <6>2. \A u, v, w, x \in Int : (u + v + w) - (x + v) = u + w - x
            OBVIOUS
          <6> QED
            BY <6>1, <6>2
        <5>3. Step(mem[i - 1], i)[a] = mem[i - 1][a]
          <6> HIDE DEF Step, a
          <6> QED
            BY <1>4, <2>0, <3>0, <4>3, <5>1, <5>2
        <5> QED
          BY <3>0, <4>1, <5>3
      <4> QED
        BY <4>2, <4>3
    <3> QED
      BY <2>0, <3>1, <3>2, <3>3
  <2> HIDE DEF P
  <2>3. \A i \in 0 .. n : i \in P
    BY <1>1, <2>1, <2>2, EveryStep
  <2>4. n \in P /\ ~(n < k)
    BY <1>1, <2>0, <2>3
  <2> QED
    BY <2>4 DEF P
<1> QED
  BY <1>2, <1>9, <1>10 DEF LaysThem

\* A program that the last load reported as loaded is in memory.
UserBytes == 0 .. MEM - 1
LoadedInv == user = [a \in UserBytes |-> user[a]] /\ ImagesExact

LEMMA LoadedInvInit ==
  ASSUME LoadInit
  PROVE  LoadedInv
<1>1. user = [a \in 0 .. MEM - 1 |-> 99] /\ loaded.ok = FALSE
  BY DEF LoadInit
<1> QED
  BY <1>1 DEF LoadedInv, ImagesExact, UserBytes

\* Memory after the segments in K are laid holds them.
LEMMA LaidHolds ==
  ASSUME user = [a \in UserBytes |-> user[a]],
         NEW f \in ElfFiles \cup PeFiles \cup MachFiles,
         NEW K \in SUBSET DOMAIN f.segs, NEW shift \in Int,
         user' = Laid(user, f, K, shift)
  PROVE  user' = [a \in UserBytes |-> user'[a]] /\ Holds(f, K, shift, DOMAIN user)'
<1>1. UserBytes \in SUBSET Int
  BY LoadersAssumption DEF UserBytes
<1>2. /\ user' = [a \in UserBytes |-> user'[a]]
      /\ \A k \in K : \A j \in Span(f.segs[k]) :
           LET a == f.segs[k].vaddr + shift + j
           IN  a \in UserBytes /\ ~Hidden(f, K, k, j) => user'[a] = ByteOf(f, f.segs[k], j)
  <2>1. LaysThem(UserBytes, user, f, K, shift)
    BY <1>1, LaidIs
  <2> QED
    BY <2>1 DEF LaysThem
<1>3. DOMAIN user' = UserBytes
  BY <1>2
<1> QED
  BY <1>2, <1>3 DEF Holds

LEMMA LoadElfStep ==
  ASSUME LoadedInv, NEW f \in ElfFiles, LoadElf(f)
  PROVE  LoadedInv'
<1> DEFINE K == {k \in Loads(f) : f.segs[k].memsz /= 0 /\ f.segs[k].vaddr >= LOWEST}
           R == {k \in Reached(f, Loads(f)) : f.segs[k].memsz /= 0 /\ f.segs[k].vaddr >= LOWEST}
<1>1. /\ user' = Laid(user, f, R, 0)
      /\ loaded' = [format |-> "elf", program |-> f, entry |-> f.entry,
                    ok |-> Reached(f, Loads(f)) = Loads(f)]
  BY DEF LoadElf
<1>2. R \in SUBSET DOMAIN f.segs /\ 0 \in Int /\ user = [a \in UserBytes |-> user[a]]
      /\ f \in ElfFiles \cup PeFiles \cup MachFiles
  BY DEF Reached, Loads, Of, LoadedInv
<1>3. loaded'.ok => R = K
  BY <1>1
<1> HIDE DEF R
<1>4. user' = [a \in UserBytes |-> user'[a]] /\ Holds(f, R, 0, DOMAIN user)'
  BY <1>1, <1>2, LaidHolds
<1>5. loaded'.ok => ElfExact(f)'
  BY <1>3, <1>4 DEF ElfExact
<1> QED
  BY <1>1, <1>4, <1>5 DEF LoadedInv, ImagesExact

LEMMA LoadElfRebaseStep ==
  ASSUME LoadedInv, NEW f \in ElfFiles, LoadElfRebase(f)
  PROVE  LoadedInv'
<1> DEFINE K == {k \in Loads(f) : f.segs[k].memsz /= 0 /\ ~Overruns(f, f.segs[k])}
<1>1. /\ IF Loads(f) = {} THEN user' = user ELSE user' = Laid(user, f, K, Delta(f))
      /\ loaded' = [format |-> "rebased", program |-> f, ok |-> Loads(f) /= {},
                    entry |-> IF Loads(f) = {} THEN 0 ELSE f.entry + Delta(f)]
  BY DEF LoadElfRebase
<1>2. user = [a \in UserBytes |-> user[a]]
  BY DEF LoadedInv
<1>3. CASE Loads(f) = {}
  BY <1>1, <1>2, <1>3 DEF LoadedInv, ImagesExact
<1>4. CASE Loads(f) # {}
  <2>1. K \in SUBSET DOMAIN f.segs /\ f \in ElfFiles \cup PeFiles \cup MachFiles
    BY DEF Loads, Of
  <2>2. Delta(f) \in Int
    <3> DEFINE T == {f.segs[k].vaddr : k \in Loads(f)}
    <3>1. T \in SUBSET Nat /\ T # {}
      BY <1>4, <2>1, FilesAre DEF Loads, Of
    <3>2. Delta(f) = IF Min(T) > RUNTIME_BASE THEN 0 ELSE RUNTIME_BASE - Min(T)
      BY DEF Delta
    <3> HIDE DEF T
    <3>3. Min(T) \in Nat
      BY <3>1, MinIs
    <3> QED
      BY <3>2, <3>3, LoadersAssumption
  <2> HIDE DEF K
  <2>3. user' = [a \in UserBytes |-> user'[a]] /\ Holds(f, K, Delta(f), DOMAIN user)'
    BY <1>1, <1>2, <1>4, <2>1, <2>2, LaidHolds
  <2>4. loaded'.entry - f.entry = Delta(f)
    <3>1. loaded'.entry = f.entry + Delta(f) /\ f.entry \in Nat
      BY <1>1, <1>4, ImageAssumption
    <3> QED
      BY <2>2, <3>1
  <2>7. RebasedExact(f, loaded.entry)'
    BY <2>3, <2>4 DEF RebasedExact, K
  <2>6. loaded'.format = "rebased" /\ loaded'.program = f
    BY <1>1
  <2> QED
    BY <2>3, <2>6, <2>7 DEF LoadedInv, ImagesExact
<1> QED
  BY <1>3, <1>4

\* Every import that load_pe comes to answers, and none of them is left out,
\* when all of them are bindable.
LEMMA ScannedIs ==
  ASSUME NEW f \in PeFiles, Scanned(f) \subseteq Bindable(f)
  PROVE  /\ Len(f.imports) \in Nat /\ DOMAIN f.imports = 1 .. Len(f.imports)
         /\ Bindable(f) = Scanned(f) /\ Scanned(f) \subseteq DOMAIN f.imports
         /\ \A k \in Scanned(f) : Resolves(f.imports[k].name)
<1>1. Len(f.imports) \in Nat /\ DOMAIN f.imports = 1 .. Len(f.imports)
  <2>1. f.imports \in Seq([dll : Nat, name : STRING, slot : Nat])
    BY ImageAssumption
  <2> QED
    BY <2>1
<1>2. Bindable(f) = Scanned(f) /\ Scanned(f) \subseteq DOMAIN f.imports
  BY DEF Bindable, Scanned
<1>3. ASSUME NEW k \in Scanned(f)
      PROVE  Resolves(f.imports[k].name)
  <2>1. k \in Bindable(f) /\ k <= k
    BY <1>1, <1>2
  <2> QED
    BY <2>1 DEF Bindable
<1> QED
  BY <1>1, <1>2, <1>3

\* A slot that is bound holds the answer to the last import that names it.
LEMMA BoundIs ==
  ASSUME NEW f \in PeFiles, NEW D, NEW m, m = [a \in D |-> m[a]],
         Scanned(f) \subseteq Bindable(f)
  PROVE  /\ Bound(m, f) = [a \in D |-> Bound(m, f)[a]]
         /\ \A a \in D \ {f.imports[k].slot : k \in Scanned(f)} : Bound(m, f)[a] = m[a]
         /\ \A k \in Scanned(f) :
              /\ Resolves(f.imports[k].name)
              /\ (/\ f.imports[k].slot \in D
                  /\ \A j \in Scanned(f) : j > k => f.imports[j].slot # f.imports[k].slot)
                   => Bound(m, f)[f.imports[k].slot] = ShimOf(f.imports[k].name)
<1> DEFINE ims == f.imports
           S == Scanned(f)
           here(a) == {k \in Bindable(f) : ims[k].slot = a}
<1>1. /\ Len(ims) \in Nat /\ DOMAIN ims = 1 .. Len(ims)
      /\ Bindable(f) = S /\ S \subseteq DOMAIN ims /\ \A k \in S : Resolves(ims[k].name)
  BY ScannedIs
<1>2. Bound(m, f) = [a \in D |-> IF here(a) = {} THEN m[a] ELSE ShimOf(ims[Max(here(a))].name)]
  BY DEF Bound
<1> HIDE DEF S
<1>3. \A a \in D \ {ims[k].slot : k \in S} : here(a) = {}
  BY <1>1
<1>5. ASSUME NEW k \in S, ims[k].slot \in D,
             \A j \in S : j > k => ims[j].slot # ims[k].slot
      PROVE  Bound(m, f)[ims[k].slot] = ShimOf(ims[k].name)
  <2> DEFINE T == here(ims[k].slot)
  <2>1. k \in T /\ T \in SUBSET (0 .. Len(ims)) /\ \A j \in T : j \in S /\ ims[j].slot = ims[k].slot
    BY <1>1
  <2>2. Bound(m, f)[ims[k].slot] = ShimOf(ims[Max(T)].name)
    BY <1>2, <1>5, <2>1
  <2> HIDE DEF T
  <2>3. Max(T) \in T /\ k <= Max(T)
    BY <1>1, <2>1, MaxIs
  <2>4. ~(Max(T) > k)
    BY <1>5, <2>1, <2>3
  <2>5. Max(T) = k
    BY <1>1, <2>1, <2>3, <2>4
  <2> QED
    BY <2>2, <2>5
<1> HIDE DEF here
<1> QED
  BY <1>1, <1>2, <1>3, <1>5 DEF S

\* What shim_resolve and shim_addr answer for a name that resolves is its own.
LEMMA ShimIs ==
  ASSUME NEW name, Resolves(name)
  PROVE  \/ name \in DOMAIN SHIM_DATA /\ ShimOf(name) = SHIM_DATA[name]
         \/ name = "atof" /\ ShimOf(name) = ATOF_TRAMP
         \/ /\ name # "atof"
            /\ ShimOf(name) - SHIM_PAGE + 1 \in DOMAIN SHIM_TABLE
            /\ SHIM_TABLE[ShimOf(name) - SHIM_PAGE + 1] = name
<1> DEFINE T == ShimSlots(name)
<1>1. CASE T = {}
  BY <1>1 DEF Resolves, ShimOf
<1>3. CASE T # {} /\ name = "atof"
  BY <1>3 DEF ShimOf
<1>2. CASE T # {} /\ name # "atof"
  <2>1. SHIM_TABLE \in Seq(STRING) /\ SHIM_PAGE \in Nat
    BY LoadersAssumption
  <2>2. T \in SUBSET Nat /\ \A k \in T : k \in DOMAIN SHIM_TABLE /\ SHIM_TABLE[k] = name
    BY <2>1 DEF ShimSlots
  <2>3. ShimOf(name) = SHIM_PAGE + Min(T) - 1
    BY <1>2 DEF ShimOf
  <2> HIDE DEF T
  <2>4. Min(T) \in T
    BY <1>2, <2>2, MinIs
  <2>5. Min(T) \in Int /\ SHIM_PAGE \in Int
    <3>1. T \in SUBSET Int /\ SHIM_PAGE \in Int
      BY <2>1, <2>2
    <3> QED
      BY <2>4, <3>1
  <2>6. ShimOf(name) - SHIM_PAGE + 1 = Min(T)
    BY <2>3, <2>5
  <2> QED
    BY <1>2, <2>2, <2>4, <2>6
<1> QED
  BY <1>1, <1>2, <1>3

LEMMA LoadPeStep ==
  ASSUME LoadedInv, NEW f \in PeFiles, LoadPe(f)
  PROVE  LoadedInv'
<1> DEFINE R == Reached(f, DOMAIN f.segs)
           copied == Laid(user, f, R, 0)
           whole == R = DOMAIN f.segs
           slots == {f.imports[k].slot : k \in Scanned(f)}
<1>1. /\ user' = IF whole THEN Bound(copied, f) ELSE copied
      /\ loaded' = [format |-> "pe", program |-> f, entry |-> f.entry,
                    ok |-> whole /\ Scanned(f) \subseteq Bindable(f)]
  BY DEF LoadPe
<1>2. R \in SUBSET DOMAIN f.segs /\ 0 \in Int /\ user = [a \in UserBytes |-> user[a]]
      /\ f \in ElfFiles \cup PeFiles \cup MachFiles /\ UserBytes \in SUBSET Int
  BY LoadersAssumption DEF Reached, LoadedInv, UserBytes
<1> HIDE DEF R
<1>3. /\ copied = [a \in UserBytes |-> copied[a]]
      /\ \A k \in R : \A j \in Span(f.segs[k]) :
           LET a == f.segs[k].vaddr + 0 + j
           IN  a \in UserBytes /\ ~Hidden(f, R, k, j) => copied[a] = ByteOf(f, f.segs[k], j)
  <2>1. LaysThem(UserBytes, user, f, R, 0)
    BY <1>2, LaidIs
  <2> QED
    BY <2>1 DEF LaysThem
<1> HIDE DEF copied
<1>4. CASE ~loaded'.ok
  <2>1. user' = [a \in UserBytes |-> user'[a]]
    <3>1. CASE ~whole
      BY <1>1, <1>3, <3>1
    <3>2. CASE whole
      <4>1. user' = Bound(copied, f) /\ DOMAIN copied = UserBytes
        BY <1>1, <1>3, <3>2
      <4>2. DOMAIN user' = UserBytes /\ user' = [a \in DOMAIN copied |-> user'[a]]
        BY <4>1 DEF Bound
      <4> QED
        BY <4>1, <4>2
    <3> QED
      BY <3>1, <3>2
  <2> QED
    BY <1>4, <2>1 DEF LoadedInv, ImagesExact
<1>5. CASE loaded'.ok
  <2>1. whole /\ Scanned(f) \subseteq Bindable(f) /\ user' = Bound(copied, f)
    BY <1>1, <1>5
  <2>2. /\ user' = [a \in UserBytes |-> user'[a]]
        /\ \A a \in UserBytes \ slots : user'[a] = copied[a]
        /\ \A k \in Scanned(f) :
             /\ Resolves(f.imports[k].name)
             /\ (/\ f.imports[k].slot \in UserBytes
                 /\ \A j \in Scanned(f) : j > k => f.imports[j].slot # f.imports[k].slot)
                  => user'[f.imports[k].slot] = ShimOf(f.imports[k].name)
    BY <1>3, <2>1, BoundIs
  <2>3. DOMAIN user' = UserBytes
    BY <2>2
  <2> HIDE DEF slots
  <2>4. Holds(f, DOMAIN f.segs, 0, DOMAIN user \ slots)'
    BY <1>3, <2>1, <2>2, <2>3 DEF Holds
  <2>5. \A k \in Scanned(f) :
          LET i == f.imports[k]
          IN  (/\ i.slot \in DOMAIN user'
               /\ \A j \in Scanned(f) : j > k => f.imports[j].slot # i.slot)
                => \/ i.name \in DOMAIN SHIM_DATA /\ user'[i.slot] = SHIM_DATA[i.name]
                   \/ i.name = "atof" /\ user'[i.slot] = ATOF_TRAMP
                   \/ /\ i.name # "atof"
                      /\ user'[i.slot] - SHIM_PAGE + 1 \in DOMAIN SHIM_TABLE
                      /\ SHIM_TABLE[user'[i.slot] - SHIM_PAGE + 1] = i.name
    BY <2>2, <2>3, ShimIs
  <2>8. Scanned(f) = {k \in DOMAIN f.imports :
          /\ f.imports[k].dll <= MAX_DLLS
          /\ Cardinality({j \in 1 .. k : f.imports[j].dll = f.imports[k].dll}) <= MAX_IMPORTS}
    BY DEF Scanned, NumberInDll
  <2>6. PeExact(f)'
    BY <2>4, <2>5, <2>8 DEF PeExact, slots
  <2>7. loaded'.format = "pe" /\ loaded'.program = f
    BY <1>1
  <2> QED
    BY <2>2, <2>6, <2>7 DEF LoadedInv, ImagesExact
<1> QED
  BY <1>4, <1>5

LEMMA LoadMachoStep ==
  ASSUME LoadedInv, NEW f \in MachFiles, LoadMacho(f)
  PROVE  LoadedInv'
<1> DEFINE reached == Reached(f, MachSegs(f))
           R == {k \in reached : f.segs[k].filesz > 0}
           K == {k \in MachSegs(f) : f.segs[k].filesz > 0}
           shift == RUNTIME_BASE - MACHO_BASE
           ok == reached = MachSegs(f) /\ HasEntry(f)
<1>1. /\ user' = Laid(user, f, R, shift)
      /\ loaded' = [format |-> "macho", program |-> f, ok |-> ok,
                    entry |-> IF ok THEN MachEntry(f) ELSE 0]
  BY DEF LoadMacho
<1>2. /\ R \in SUBSET DOMAIN f.segs /\ shift \in Int /\ user = [a \in UserBytes |-> user[a]]
      /\ f \in ElfFiles \cup PeFiles \cup MachFiles
      /\ RUNTIME_BASE \in Int /\ MACHO_BASE \in Int
  BY LoadersAssumption DEF Reached, MachSegs, Of, LoadedInv
<1>3. ok => R = K
  OBVIOUS
<1> HIDE DEF R, shift
<1>4. user' = [a \in UserBytes |-> user'[a]] /\ Holds(f, R, shift, DOMAIN user)'
  BY <1>1, <1>2, LaidHolds
<1>5. CASE ~ok
  BY <1>1, <1>4, <1>5 DEF LoadedInv, ImagesExact
<1>6. CASE ok
  <2> DEFINE text == Max(Of(f, {"TEXT"}))
             s == f.segs[text]
             start == LastCommand(f, "MAIN").off
             j == start - s.off
             entry == MachEntry(f)
  <2>1. Holds(f, K, shift, DOMAIN user)'
    BY <1>3, <1>4, <1>6
  <2>2. ASSUME Of(f, {"THREAD"}) = {}, j \in 0 .. s.filesz - 1, ~Hidden(f, K, text, j),
               entry \in DOMAIN user'
        PROVE  user'[entry] = f.buf[start + 1]
    <3>1. Of(f, {"MAIN"}) # {} /\ Of(f, {"TEXT"}) # {}
      BY <1>6, <2>2 DEF HasEntry
    <3>2. \A T : Of(f, T) \in SUBSET (0 .. Len(f.segs)) /\ Len(f.segs) \in Nat
      BY <1>2, FilesAre DEF Of
    <3>3. text \in Of(f, {"TEXT"}) /\ Max(Of(f, {"MAIN"})) \in DOMAIN f.segs
      BY <3>1, <3>2, MaxIs DEF Of
    <3>4. text \in MachSegs(f) /\ text \in DOMAIN f.segs
      BY <3>3 DEF MachSegs, Of
    <3>5. s.off \in Int /\ s.vaddr \in Int /\ s.filesz \in Nat /\ s.memsz \in Nat /\ start \in Int
      BY <1>2, <3>3, <3>4, FilesAre DEF LastCommand
    <3>6. entry = RUNTIME_BASE + ((s.vaddr + (start - s.off)) - MACHO_BASE)
      BY <2>2 DEF MachEntry, Rloc, LastCommand
    <3> HIDE DEF text, s, start, K, entry
    <3>7. text \in K /\ j \in Span(s) /\ j < s.filesz /\ s.off + j + 1 = start + 1
      BY <2>2, <3>4, <3>5 DEF K, Span, s
    <3>8. entry = s.vaddr + shift + j
      BY <1>2, <3>5, <3>6 DEF shift
    <3>9. user'[entry] = ByteOf(f, s, j)
      BY <2>1, <2>2, <3>7, <3>8 DEF Holds, s
    <3> QED
      BY <3>7, <3>9 DEF ByteOf
  <2>3. loaded'.format = "macho" /\ loaded'.program = f /\ loaded'.entry = entry
    BY <1>1, <1>6
  <2>4. MachExact(f, loaded.entry)'
    BY <2>1, <2>2, <2>3 DEF MachExact, shift
  <2> QED
    BY <1>4, <2>3, <2>4 DEF LoadedInv, ImagesExact
<1> QED
  BY <1>5, <1>6

LEMMA LoadedInvStep ==
  ASSUME LoadedInv, [LoadNext]_loadVars
  PROVE  LoadedInv'
<1>1. CASE UNCHANGED loadVars
  <2>1. user' = user /\ loaded' = loaded
    BY <1>1 DEF loadVars
  <2>2. PICK f, e : f = loaded.program /\ e = loaded.entry
    OBVIOUS
  <2>3. ElfExact(f)' = ElfExact(f)
    BY <2>1 DEF ElfExact, Holds
  <2>4. RebasedExact(f, e)' = RebasedExact(f, e)
    BY <2>1 DEF RebasedExact, Holds
  <2>5. PeExact(f)' = PeExact(f)
    BY <2>1 DEF PeExact, Holds
  <2>6. MachExact(f, e)' = MachExact(f, e)
    BY <2>1 DEF MachExact, Holds
  <2>7. ImagesExact <=> (loaded.ok =>
          /\ loaded.format = "elf" => ElfExact(f)
          /\ loaded.format = "rebased" => RebasedExact(f, e)
          /\ loaded.format = "pe" => PeExact(f)
          /\ loaded.format = "macho" => MachExact(f, e))
    BY <2>2 DEF ImagesExact
  <2>8. ImagesExact' <=> (loaded'.ok =>
          /\ loaded'.format = "elf" => ElfExact(f)'
          /\ loaded'.format = "rebased" => RebasedExact(f, e)'
          /\ loaded'.format = "pe" => PeExact(f)'
          /\ loaded'.format = "macho" => MachExact(f, e)')
    BY <2>1, <2>2 DEF ImagesExact
  <2> QED
    BY <2>1, <2>3, <2>4, <2>5, <2>6, <2>7, <2>8 DEF LoadedInv
<1>2. CASE LoadNext
  BY <1>2, LoadElfStep, LoadElfRebaseStep, LoadPeStep, LoadMachoStep DEF LoadNext
<1> QED
  BY <1>1, <1>2

-----------------------------------------------------------------------------
(* The assembler. *)

\* Lines that the assembler knows.
Lines(src) ==
  /\ Len(src) \in Nat /\ DOMAIN src = 1 .. Len(src)
  /\ \A i \in DOMAIN src : src[i].op \in DOMAIN InsnBytes \cup {"none"}

LEMMA SizeIs ==
  ASSUME NEW op \in DOMAIN InsnBytes \cup {"none"}
  PROVE  Size(op) \in Nat
<1>1. \A x \in DOMAIN InsnBytes : InsnBytes[x] \in Nat
  BY ToolsAssumption
<1> QED
  BY <1>1 DEF Size

\* Pass 1 counts the bytes of one line after another.
Counts(src) ==
  /\ BytesTo(src, 0) = 0
  /\ \A i \in 0 .. Len(src) : BytesTo(src, i) \in Nat
  /\ \A i \in 1 .. Len(src) : BytesTo(src, i) = BytesTo(src, i - 1) + Size(src[i].op)

LEMMA BytesAre ==
  ASSUME NEW src, Lines(src)
  PROVE  Counts(src)
<1> DEFINE n == Len(src)
           S == Nat
           a == 0
           Step(y, k) == y + Size(src[k].op)
           Computes(t) == t = [k \in 0 .. n |-> IF k = 0 THEN a ELSE Step(t[k - 1], k)]
           count == CHOOSE t : Computes(t)
<1>1. n \in Nat /\ a \in S /\ \A k \in 1 .. n : Size(src[k].op) \in Nat
  BY SizeIs DEF Lines
<1>2. \A i : BytesTo(src, i) = count[i]
  BY DEF BytesTo
<1>3. \A k \in 1 .. n : \A y \in S : Step(y, k) \in S
  BY <1>1
<1> HIDE DEF n
<1>4. Computes(count)
  <2> DEFINE g == [k \in 1 .. n |-> [y \in S |-> Step(y, k)]]
  <2> HIDE DEF Step, S, a
  <2>1. \A k \in 1 .. n : [y \in S |-> Step(y, k)] \in [S -> S]
    BY <1>3
  <2>2. g \in [1 .. n -> [S -> S]]
    BY <2>1
  <2>3. \A k \in 1 .. n : \A y \in S : g[k][y] = Step(y, k)
    OBVIOUS
  <2> HIDE DEF g, Computes, count
  <2>4. PICK h \in [0 .. n -> S] : h[0] = a /\ \A k \in 1 .. n : h[k] = g[k][h[k - 1]]
    <3>1. HasRun(n, S, a, g)
      BY <1>1, <2>2, RecursionDefines
    <3> QED
      BY <3>1 DEF HasRun
  <2>5. \A k \in 0 .. n : h[k] = IF k = 0 THEN a ELSE Step(h[k - 1], k)
    <3> SUFFICES ASSUME NEW k \in 0 .. n, k # 0
                 PROVE  h[k] = Step(h[k - 1], k)
      BY <2>4
    <3>1. k \in 1 .. n /\ k - 1 \in 0 .. n
      BY <1>1
    <3> QED
      BY <2>3, <2>4, <3>1
  <2>6. h = [k \in 0 .. n |-> IF k = 0 THEN a ELSE Step(h[k - 1], k)]
    BY <2>5
  <2>7. Computes(h)
    BY <2>6 DEF Computes
  <2> QED
    BY <2>7 DEF count
<1> HIDE DEF count
<1>5. count[0] = a /\ \A k \in 1 .. n : count[k] = Step(count[k - 1], k)
  <2> HIDE DEF Step, a
  <2> QED
    BY <1>1, <1>4
<1>6. \A k \in 0 .. n : count[k] \in S
  <2> HIDE DEF Step, S, a
  <2>1. \A k \in 1 .. n : count[k - 1] \in S => count[k] \in S
    BY <1>3, <1>5
  <2>2. count[0] \in S
    BY <1>1, <1>5
  <2> QED
    BY <1>1, <2>1, <2>2, StepsStay
<1> QED
  BY <1>2, <1>5, <1>6 DEF Counts, n

\* Lines without an instruction put out nothing.
LEMMA LabelsOnly ==
  ASSUME NEW src, Lines(src), NEW i \in 0 .. Len(src), NEW j \in 0 .. Len(src), i <= j,
         \A k \in 1 .. Len(src) : i < k /\ k <= j => src[k].op = "none"
  PROVE  BytesTo(src, j) = BytesTo(src, i)
<1> DEFINE n == Len(src)
           P == {k \in 0 .. n : i < k /\ k <= j => BytesTo(src, k) = BytesTo(src, i)}
<1>1. n \in Nat /\ i \in 0 .. n /\ j \in 0 .. n
  BY DEF Lines
<1>2. Counts(src)
  BY BytesAre
<1>3. Size("none") = 0
  BY DEF Size
<1>4. 0 \in P
  BY <1>1
<1>5. ASSUME NEW k \in 1 .. n, k - 1 \in P
      PROVE  k \in P
  <2> SUFFICES ASSUME i < k, k <= j
               PROVE  BytesTo(src, k) = BytesTo(src, i)
    BY <1>1
  <2>1. BytesTo(src, k) = BytesTo(src, k - 1) + 0 /\ BytesTo(src, k - 1) \in Nat
    <3>1. k - 1 \in 0 .. n
      BY <1>1
    <3> QED
      BY <1>2, <1>3, <3>1 DEF Counts
  <2>2. CASE k - 1 = i
    BY <2>1, <2>2
  <2>3. CASE k - 1 # i
    <3>1. i < k - 1 /\ k - 1 <= j
      BY <1>1, <2>3
    <3> QED
      BY <1>5, <2>1, <3>1
  <2> QED
    BY <2>2, <2>3
<1>6. \A k \in 0 .. n : k \in P
  <2> HIDE DEF P
  <2> QED
    BY <1>1, <1>4, <1>5, EveryStep
<1>7. j \in P /\ (i = j \/ i < j)
  BY <1>1, <1>6
<1> QED
  BY <1>1, <1>7

\* Every line with an instruction has its place in what is generated, in the
\* order of the lines.
Ordered(src) ==
  LET e == Emitting(src)
      n == Cardinality(e)
  IN  /\ n \in Nat /\ e \subseteq 1 .. Len(src)
      /\ \A k \in 1 .. n : EmittingLine(src, k) \in e
      /\ \A i \in e : \E k \in 1 .. n : EmittingLine(src, k) = i
      /\ \A j, k \in 1 .. n : j <= k => EmittingLine(src, j) <= EmittingLine(src, k)

LEMMA LinesInOrder ==
  ASSUME NEW src, Lines(src)
  PROVE  Ordered(src)
<1> DEFINE e == Emitting(src)
           n == Cardinality(e)
           UpTo(i) == {j \in e : j <= i}
<1>1. Len(src) \in Nat /\ e \in SUBSET (1 .. Len(src)) /\ e \in SUBSET (0 .. Len(src))
  BY DEF Lines, Emitting
<1>2. IsFiniteSet(e) /\ n \in Nat
  <2>1. IsFiniteSet(1 .. Len(src))
    <3>1. 1 \in Int /\ Len(src) \in Int
      BY <1>1
    <3> QED
      BY <3>1, FS_Interval, Zenon
  <2>2. IsFiniteSet(e)
    BY <1>1, <2>1, FS_Subset
  <2> QED
    BY <2>2, FS_CardinalityType
<1>3. \A k : EmittingLine(src, k) = AtRank(e, k)
  BY DEF EmittingLine, AtRank
<1> HIDE DEF e
<1>4. ASSUME NEW k \in 1 .. n
      PROVE  /\ AtRank(e, k) \in e /\ Cardinality(UpTo(AtRank(e, k))) = k
             /\ \A i \in e : Cardinality(UpTo(i)) = k => i = AtRank(e, k)
  <2>1. HasRank(e, k, AtRank(e, k)) /\ \A q : HasRank(e, k, q) => q = AtRank(e, k)
    BY <1>1, RankIsOne
  <2> QED
    BY <2>1 DEF HasRank
<1>5. ASSUME NEW i \in e
      PROVE  Cardinality(UpTo(i)) \in 1 .. n
  <2> DEFINE U == UpTo(i)
  <2>1. i \in U /\ U \in SUBSET e
    BY <1>1
  <2> HIDE DEF U
  <2>2. IsFiniteSet(U) /\ Cardinality(U) <= n
    BY <1>2, <2>1, FS_Subset
  <2>3. Cardinality(U) \in Nat /\ Cardinality(U) # 0
    BY <2>1, <2>2, FS_CardinalityType, FS_EmptySet
  <2> QED
    BY <1>2, <2>2, <2>3 DEF U
<1>6. ASSUME NEW i \in e, NEW j \in e, i < j
      PROVE  Cardinality(UpTo(i)) < Cardinality(UpTo(j))
  <2> DEFINE U == UpTo(i)
             W == UpTo(j)
  <2>1. \A x \in e : x \in Int
    BY <1>1
  <2>2. U \in SUBSET W /\ W \in SUBSET e /\ j \in W /\ j \notin U
    BY <1>6, <2>1
  <2> HIDE DEF U, W
  <2>3. IsFiniteSet(W)
    BY <1>2, <2>2, FS_Subset
  <2>4. Cardinality(U) <= Cardinality(W) /\ Cardinality(U) # Cardinality(W) /\ IsFiniteSet(U)
    BY <2>2, <2>3, FS_Subset
  <2>5. Cardinality(U) \in Nat /\ Cardinality(W) \in Nat
    BY <2>3, <2>4, FS_CardinalityType
  <2> QED
    BY <2>4, <2>5 DEF U, W
<1>7. \A i \in e : \E k \in 1 .. n : AtRank(e, k) = i
  BY <1>4, <1>5
<1>8. ASSUME NEW j \in 1 .. n, NEW k \in 1 .. n, j <= k
      PROVE  AtRank(e, j) <= AtRank(e, k)
  <2> DEFINE p == AtRank(e, j)
             q == AtRank(e, k)
  <2>1. p \in e /\ q \in e /\ Cardinality(UpTo(p)) = j /\ Cardinality(UpTo(q)) = k
    BY <1>4
  <2> HIDE DEF p, q
  <2>2. p \in Int /\ q \in Int
    BY <1>1, <2>1
  <2>3. ~(q < p)
    <3>1. q < p => Cardinality(UpTo(q)) < Cardinality(UpTo(p))
      BY <1>6, <2>1
    <3>2. j \in Int /\ k \in Int
      OBVIOUS
    <3> QED
      BY <1>8, <2>1, <3>1, <3>2
  <2> QED
    BY <2>2, <2>3 DEF p, q
<1>9. \A k \in 1 .. n : EmittingLine(src, k) \in e
  BY <1>3, <1>4
<1>10. \A i \in e : \E k \in 1 .. n : EmittingLine(src, k) = i
  BY <1>3, <1>7
<1>11. \A j, k \in 1 .. n : j <= k => EmittingLine(src, j) <= EmittingLine(src, k)
  BY <1>3, <1>8
<1> QED
  BY <1>1, <1>2, <1>9, <1>10, <1>11, Zenon DEF Ordered, e, n

\* The greatest of some numbers below a bound.
LEMMA LastIs ==
  ASSUME NEW b \in Nat, NEW T \in SUBSET (0 .. b), T # {}
  PROVE  LastOf(T) \in T /\ \A y \in T : y <= LastOf(T)
<1>1. \E x \in T : \A y \in T : y <= x
  BY Maximum
<1> QED
  BY <1>1 DEF LastOf

\* What is generated of a line.
OfLines(c, src, table, n) ==
  LET m == Cardinality(Emitting(src))
  IN  /\ DOMAIN c = 1 .. m
      /\ m \in Nat => Len(c) = m
      /\ \A k \in 1 .. m :
           LET i == EmittingLine(src, k)
           IN  /\ c[k].line = i /\ c[k].at = BytesTo(src, i - 1) /\ c[k].op = src[i].op
               /\ c[k].arg = IF src[i].op \in Branches
                             THEN RelOf(BytesTo(src, i - 1), src[i].op, src[i].arg, table, n)
                             ELSE src[i].arg

LEMMA GeneratedIs ==
  ASSUME NEW src, NEW table, NEW n
  PROVE  OfLines(Generated(src, table, n), src, table, n)
  BY DEF Generated, Emitted, OfLines

\* A branch to a label that this source defines is relative to where pass 1
\* took the label down.
LEMMA BranchIs ==
  ASSUME NEW src, Lines(src), NEW l \in Defined(src), NEW at \in Int, NEW op, Size(op) \in Nat
  PROVE  /\ LastOf(LinesWith(src, l)) \in 1 .. Len(src)
         /\ at + Size(op) + RelOf(at, op, l, LabelTable(src), LabelCount(src))
              = BytesTo(src, LastOf(LinesWith(src, l)))
<1> DEFINE L == LastOf(LinesWith(src, l))
<1>1. Len(src) \in Nat /\ DOMAIN src = 1 .. Len(src) /\ MAX_LABELS \in Nat
  BY ToolsAssumption DEF Lines
<1>2. LinesWith(src, l) \in SUBSET (0 .. Len(src)) /\ LinesWith(src, l) # {} /\ l \in Labels
  BY <1>1 DEF Defined, LinesWith
<1>3. L \in 1 .. Len(src)
  <2>1. L \in LinesWith(src, l)
    BY <1>1, <1>2, LastIs
  <2> QED
    BY <1>1, <2>1 DEF LinesWith
<1>4. l < LabelCount(src)
  <2> DEFINE T == Defined(src)
  <2>1. T \in SUBSET (0 .. MAX_LABELS) /\ l \in T
    BY <1>1 DEF Defined, Labels
  <2>2. LabelCount(src) = LastOf(T) + 1
    BY <2>1 DEF LabelCount
  <2> HIDE DEF T
  <2>3. LastOf(T) \in T /\ l <= LastOf(T)
    BY <1>1, <2>1, LastIs
  <2>4. LastOf(T) \in Int /\ l \in Int
    <3>1. T \in SUBSET Int
      BY <2>1
    <3> QED
      BY <2>1, <2>3, <3>1
  <2> QED
    BY <2>2, <2>3, <2>4
<1>5. LabelTable(src)[l] = BytesTo(src, L)
  BY <1>2 DEF LabelTable, LabelOffset
<1>6. BytesTo(src, L) \in Int
  <2>1. Counts(src) /\ L \in 0 .. Len(src)
    BY <1>1, <1>3, BytesAre
  <2> HIDE DEF L
  <2> QED
    BY <2>1 DEF Counts
<1>7. RelOf(at, op, l, LabelTable(src), LabelCount(src)) = BytesTo(src, L) - (at + Size(op))
  BY <1>4, <1>5 DEF RelOf
<1> HIDE DEF L
<1> QED
  BY <1>3, <1>6, <1>7 DEF L

\* The first instruction behind a line, or the end, is where the line ends.
GoalOf(src, c, L) ==
  LET behind == {j \in DOMAIN c : c[j].line > L}
  IN  IF behind = {} THEN BytesTo(src, Len(src))
      ELSE c[CHOOSE j \in behind : \A i \in behind : j <= i].at

LEMMA GoalIs ==
  ASSUME NEW src, Lines(src), NEW c, NEW table, NEW n, c = Generated(src, table, n),
         NEW L \in 1 .. Len(src)
  PROVE  GoalOf(src, c, L) = BytesTo(src, L)
<1> DEFINE e == Emitting(src)
           m == Cardinality(e)
           behind == {j \in DOMAIN c : c[j].line > L}
           first == CHOOSE j \in behind : \A i \in behind : j <= i
<1>1. /\ m \in Nat /\ e \subseteq 1 .. Len(src) /\ Len(src) \in Nat
      /\ \A k \in 1 .. m : EmittingLine(src, k) \in e
      /\ \A i \in e : \E k \in 1 .. m : EmittingLine(src, k) = i
      /\ \A j, k \in 1 .. m : j <= k => EmittingLine(src, j) <= EmittingLine(src, k)
  BY LinesInOrder DEF Ordered, Lines
<1>2. DOMAIN c = 1 .. m /\ \A k \in 1 .. m : /\ c[k].line = EmittingLine(src, k)
                                            /\ c[k].at = BytesTo(src, EmittingLine(src, k) - 1)
  <2>1. OfLines(c, src, table, n)
    BY GeneratedIs
  <2> QED
    BY <2>1 DEF OfLines
<1>3. \A i \in 1 .. Len(src) : i \notin e => src[i].op = "none"
  BY DEF Emitting, Lines
<1> HIDE DEF e, m
<1>4. CASE behind = {}
  <2>1. \A i \in e : ~(i > L)
    BY <1>1, <1>2, <1>4
  <2>2. \A k \in 1 .. Len(src) : L < k /\ k <= Len(src) => src[k].op = "none"
    BY <1>1, <1>3, <2>1
  <2>3. L \in 0 .. Len(src) /\ Len(src) \in 0 .. Len(src) /\ L <= Len(src)
    BY <1>1
  <2>4. BytesTo(src, Len(src)) = BytesTo(src, L)
    BY <2>2, <2>3, LabelsOnly
  <2> QED
    BY <1>4, <2>4 DEF GoalOf
<1>5. CASE behind # {}
  <2>1. behind \in SUBSET Nat /\ \A j \in behind : j \in 1 .. m /\ c[j].line > L
    BY <1>1, <1>2
  <2>2. \A j \in 1 .. m : c[j].line > L => j \in behind
    BY <1>2
  <2> HIDE DEF behind
  <2>3. first \in behind /\ \A i \in behind : first <= i
    <3>1. \E j \in behind : \A i \in behind : j <= i
      BY <1>5, <2>1, Minimum
    <3> QED
      BY <3>1
  <2> HIDE DEF first
  <2> DEFINE f == EmittingLine(src, first)
  <2>4. first \in 1 .. m /\ f \in e /\ f > L /\ c[first].at = BytesTo(src, f - 1)
    BY <1>1, <1>2, <2>1, <2>3
  <2> HIDE DEF f
  <2>5. ASSUME NEW k \in 1 .. Len(src), L < k, k <= f - 1
        PROVE  src[k].op = "none"
    <3> SUFFICES ASSUME k \in e
                 PROVE  FALSE
      BY <1>3
    <3>1. PICK j \in 1 .. m : EmittingLine(src, j) = k
      BY <1>1
    <3>2. j \in behind
      BY <1>2, <2>2, <2>5, <3>1
    <3>3. first <= j
      BY <2>3, <3>2
    <3>4. f <= k
      BY <1>1, <2>4, <3>1, <3>3 DEF f
    <3>5. f \in Int /\ k \in Int
      BY <1>1, <2>4
    <3> QED
      BY <2>5, <3>4, <3>5
  <2>6. L \in 0 .. Len(src) /\ f - 1 \in 0 .. Len(src) /\ L <= f - 1
    BY <1>1, <2>4
  <2>7. BytesTo(src, f - 1) = BytesTo(src, L)
    BY <2>5, <2>6, LabelsOnly
  <2> QED
    BY <1>5, <2>4, <2>7 DEF behind, first, GoalOf
<1> QED
  BY <1>4, <1>5

\* What BranchesLand says of what came out of src.
LandsIn(src, c) ==
  \A k \in DOMAIN c : c[k].op \in Branches =>
    LET l == src[c[k].line].arg
        behind == {j \in DOMAIN c : c[j].line > LastOf(LinesWith(src, l))}
        goal == IF behind = {} THEN BytesTo(src, Len(src))
                ELSE c[CHOOSE j \in behind : \A i \in behind : j <= i].at
    IN  (l \in Defined(src) /\ src[LastOf(LinesWith(src, l))].op = "none")
          => c[k].at + Size(c[k].op) + c[k].arg = goal

LEMMA AllLand ==
  ASSUME NEW src, Lines(src), NEW table, table = LabelTable(src), NEW n, n = LabelCount(src),
         NEW c, c = Generated(src, table, n)
  PROVE  LandsIn(src, c)
<1>0. OfLines(c, src, table, n)
  BY GeneratedIs
<1> SUFFICES ASSUME NEW k \in DOMAIN c, c[k].op \in Branches
             PROVE  LET l == src[c[k].line].arg
                        behind == {j \in DOMAIN c : c[j].line > LastOf(LinesWith(src, l))}
                        goal == IF behind = {} THEN BytesTo(src, Len(src))
                                ELSE c[CHOOSE j \in behind : \A i \in behind : j <= i].at
                    IN  (l \in Defined(src) /\ src[LastOf(LinesWith(src, l))].op = "none")
                          => c[k].at + Size(c[k].op) + c[k].arg = goal
  BY DEF LandsIn
<1> DEFINE i == EmittingLine(src, k)
           l == src[c[k].line].arg
           L == LastOf(LinesWith(src, l))
<1>2. /\ c[k].line = i /\ c[k].at = BytesTo(src, i - 1) /\ c[k].op = src[i].op
      /\ c[k].arg = RelOf(BytesTo(src, i - 1), src[i].op, src[i].arg, table, n)
      /\ k \in 1 .. Cardinality(Emitting(src))
  BY <1>0 DEF OfLines
<1>3. i \in DOMAIN src /\ src[i].op \in DOMAIN InsnBytes \cup {"none"} /\ i - 1 \in 0 .. Len(src)
  <2>1. i \in Emitting(src) /\ Emitting(src) \subseteq 1 .. Len(src)
    BY <1>2, LinesInOrder DEF Ordered
  <2> QED
    BY <2>1 DEF Lines
<1>4. Size(src[i].op) \in Nat /\ BytesTo(src, i - 1) \in Int
  BY <1>3, SizeIs, BytesAre DEF Counts
<1>5. ASSUME l \in Defined(src)
      PROVE  /\ L \in 1 .. Len(src)
             /\ c[k].at + Size(c[k].op) + c[k].arg = BytesTo(src, L)
  BY <1>2, <1>4, <1>5, BranchIs
<1>6. ASSUME l \in Defined(src)
      PROVE  GoalOf(src, c, L) = BytesTo(src, L)
  <2>1. L \in 1 .. Len(src)
    BY <1>5, <1>6
  <2> HIDE DEF L
  <2> QED
    BY <2>1, GoalIs
<1>7. l \in Defined(src) => c[k].at + Size(c[k].op) + c[k].arg = GoalOf(src, c, L)
  BY <1>5, <1>6
<1> QED
  BY <1>7 DEF GoalOf

LEMMA BranchesLandStep ==
  ASSUME NEW src, Lines(src), Assembled(src)
  PROVE  BranchesLand'
<1>1. source' = src /\ code' = Generated(src, LabelTable(src), LabelCount(src))
  BY DEF Assembled
<1>2. LandsIn(src, Generated(src, LabelTable(src), LabelCount(src)))
  BY AllLand
<1>3. BranchesLand' <=> LandsIn(source', code')
  BY DEF BranchesLand, LandsIn
<1> QED
  BY <1>1, <1>2, <1>3

LEMMA SourcesAre ==
  ASSUME NEW src \in AsmSources, Supported(src)
  PROVE  Lines(src)
<1> DEFINE R == [label : Int, op : STRING, arg : Int]
<1>1. src \in Seq(R)
  BY ToolsAssumption
<1> HIDE DEF R
<1>2. Len(src) \in Nat /\ DOMAIN src = 1 .. Len(src)
  BY <1>1
<1> QED
  BY <1>2 DEF Lines, Supported

-----------------------------------------------------------------------------
(* The linker. *)

\* What can be linked.
Linkable(in) ==
  /\ Len(in.text1) \in Nat /\ DOMAIN in.text1 = 1 .. Len(in.text1)
  /\ Len(in.text2) \in Nat /\ DOMAIN in.text2 = 1 .. Len(in.text2)
  /\ \A k \in DOMAIN in.relocs : k \in Nat /\ in.relocs[k].place \in Nat

\* What TextsLinked says of a buffer d with size bytes of in.
LinkedIn(in, d, size) ==
  LET known(k) == in.relocs[k].sym \in DOMAIN in.syms /\ in.relocs[k].sym <= MAX_SYMS
      fixed(b) == \E k \in DOMAIN in.relocs : known(k) /\ b \in Word(in.relocs[k])
  IN  size \in 1 .. OUT =>
        /\ \A i \in DOMAIN in.text1 :
             fixed(OFF1 + i - 1) \/ d[OFF1 + i - 1] = in.text1[i]
        /\ \E off \in OFF1 + Len(in.text1) .. size :
             /\ (off - OFF1) % TEXT_ALIGN = 0 /\ off + Len(in.text2) = size
             /\ \A i \in DOMAIN in.text2 :
                  fixed(off + i - 1) \/ d[off + i - 1] = in.text2[i]
        /\ \A k \in DOMAIN in.relocs :
             LET r == in.relocs[k]
             IN  (/\ known(k) /\ Word(r) \subseteq HEAD .. OUT - 1
                  /\ \A j \in DOMAIN in.relocs \ {k} :
                       known(j) => Word(in.relocs[j]) \cap Word(r) = {})
                   => \A b \in Word(r) :
                        d[b] = <<"addr", BASE + in.syms[r.sym], b - r.place>>

\* The bytes that relocations write, and what a relocation alone in its word writes.
LEMMA RelocatingIs ==
  ASSUME NEW in
  PROVE  LET known(k) == in.relocs[k].sym \in DOMAIN in.syms /\ in.relocs[k].sym <= MAX_SYMS
             fixed(b) == \E k \in DOMAIN in.relocs : known(k) /\ b \in Word(in.relocs[k])
         IN  /\ \A b : fixed(b) <=> Relocating(in, b) # {}
             /\ \A k \in DOMAIN in.relocs :
                  (/\ known(k)
                   /\ \A j \in DOMAIN in.relocs \ {k} :
                        known(j) => Word(in.relocs[j]) \cap Word(in.relocs[k]) = {})
                    => \A b \in Word(in.relocs[k]) : Relocating(in, b) = {k}
BY DEF Relocating, Snapshot

LEMMA RoundedIs ==
  ASSUME NEW n \in Nat
  PROVE  Rounded(n) \in Nat /\ n <= Rounded(n) /\ Rounded(n) % TEXT_ALIGN = 0
<1>1. TEXT_ALIGN \in Nat \ {0}
  BY ToolsAssumption
<1> DEFINE A == TEXT_ALIGN
           q == (n + A - 1) \div A
<1>2. Rounded(n) = q * A /\ A \in Nat \ {0}
  BY <1>1 DEF Rounded
<1> HIDE DEF A
<1>3. q \in Nat /\ n <= q * A /\ q * A \in Nat
  BY <1>2
<1>4. \A x \in Nat : (x * A) % A = 0
  BY <1>2
<1> HIDE DEF q
<1> QED
  BY <1>2, <1>3, <1>4 DEF A

LEMMA LinkedTexts ==
  ASSUME NEW in, Linkable(in), NEW d, d = [b \in 0 .. OUT - 1 |-> d[b]],
         \A b \in 0 .. OUT - 1 :
           LET n1 == Len(in.text1)
           IN  d[b] = IF b < HEAD THEN <<"header", Off2(in) + Len(in.text2), b>>
                      ELSE IF Relocating(in, b) # {}
                      THEN LET r == in.relocs[LastOf(Relocating(in, b))]
                           IN  <<"addr", BASE + in.syms[r.sym], b - r.place>>
                      ELSE IF b \in Off2(in) .. Off2(in) + Len(in.text2) - 1
                      THEN in.text2[b - Off2(in) + 1]
                      ELSE IF b \in OFF1 .. OFF1 + n1 - 1 THEN in.text1[b - OFF1 + 1]
                      ELSE d[b]
  PROVE  LinkedIn(in, d, Off2(in) + Len(in.text2))
<1> DEFINE n1 == Len(in.text1)
           n2 == Len(in.text2)
           o2 == Off2(in)
           size == o2 + n2
           word(k) == Word(in.relocs[k])
<1>1. /\ n1 \in Nat /\ n2 \in Nat /\ HEAD \in Nat /\ OFF1 \in Nat /\ HEAD <= OFF1 /\ OUT \in Nat
      /\ ADDR_BYTES \in Nat /\ DOMAIN in.text1 = 1 .. n1 /\ DOMAIN in.text2 = 1 .. n2
  BY ToolsAssumption DEF Linkable
<1>2. o2 \in Nat /\ OFF1 + n1 <= o2 /\ (o2 - OFF1) % TEXT_ALIGN = 0
  <2>1. o2 = OFF1 + Rounded(n1)
    BY DEF Off2
  <2>2. Rounded(n1) \in Nat /\ n1 <= Rounded(n1) /\ Rounded(n1) % TEXT_ALIGN = 0
    BY <1>1, RoundedIs
  <2> HIDE DEF n1, o2
  <2>3. o2 - OFF1 = Rounded(n1)
    BY <1>1, <2>1, <2>2
  <2> QED
    BY <1>1, <2>1, <2>2, <2>3
<1>3. ASSUME size \in 1 .. OUT
      PROVE  /\ \A i \in 1 .. n1 : \/ Relocating(in, OFF1 + i - 1) # {}
                                   \/ d[OFF1 + i - 1] = in.text1[i]
             /\ \A i \in 1 .. n2 : \/ Relocating(in, o2 + i - 1) # {}
                                   \/ d[o2 + i - 1] = in.text2[i]
  <2> HIDE DEF n1, n2, o2
  <2>0. /\ n1 \in Nat /\ n2 \in Nat /\ HEAD \in Nat /\ OFF1 \in Nat /\ OUT \in Nat /\ o2 \in Nat
        /\ HEAD <= OFF1 /\ OFF1 + n1 <= o2 /\ o2 + n2 <= OUT
    BY <1>1, <1>2, <1>3
  <2>1. ASSUME NEW i \in 1 .. n1, Relocating(in, OFF1 + i - 1) = {}
        PROVE  d[OFF1 + i - 1] = in.text1[i]
    <3> DEFINE b == OFF1 + i - 1
    <3>1. /\ b \in 0 .. OUT - 1 /\ ~(b < HEAD) /\ b \notin o2 .. o2 + n2 - 1
          /\ b \in OFF1 .. OFF1 + n1 - 1 /\ b - OFF1 + 1 = i
      BY SMTT(30), <2>0
    <3> HIDE DEF b
    <3>2. d[b] = in.text1[b - OFF1 + 1]
      BY <2>1, <3>1 DEF n1, n2, o2, b
    <3> QED
      BY <3>1, <3>2 DEF b
  <2>2. ASSUME NEW i \in 1 .. n2, Relocating(in, o2 + i - 1) = {}
        PROVE  d[o2 + i - 1] = in.text2[i]
    <3> DEFINE b == o2 + i - 1
    <3>1. /\ b \in 0 .. OUT - 1 /\ ~(b < HEAD) /\ b \in o2 .. o2 + n2 - 1 /\ b - o2 + 1 = i
      BY <2>0
    <3> HIDE DEF b
    <3>2. d[b] = in.text2[b - o2 + 1]
      BY <2>2, <3>1 DEF n1, n2, o2, b
    <3> QED
      BY <3>1, <3>2 DEF b
  <2> QED
    BY <2>1, <2>2
<1>4. ASSUME NEW k \in DOMAIN in.relocs, word(k) \subseteq HEAD .. OUT - 1, NEW b \in word(k),
             Relocating(in, b) = {k}
      PROVE  d[b] = <<"addr", BASE + in.syms[in.relocs[k].sym], b - in.relocs[k].place>>
  <2>1. b \in HEAD .. OUT - 1
    BY <1>4
  <2>2. b \in 0 .. OUT - 1 /\ ~(b < HEAD)
    BY <1>1, <2>1
  <2>3. LastOf({k}) = k
    <3>1. k \in Relocating(in, b) /\ k \in {k}
      BY <1>4
    <3>2. k \in Nat /\ k <= k
      BY DEF Linkable
    <3> QED
      BY <3>2 DEF LastOf
  <2> HIDE DEF word
  <2> QED
    BY <1>4, <2>2, <2>3
<1>5. size \in 1 .. OUT =>
        \E off \in OFF1 + n1 .. size :
          /\ (off - OFF1) % TEXT_ALIGN = 0 /\ off + n2 = size
          /\ \A i \in 1 .. n2 : \/ Relocating(in, off + i - 1) # {}
                                \/ d[off + i - 1] = in.text2[i]
  <2> HIDE DEF n1, n2, o2
  <2>1. o2 \in OFF1 + n1 .. size
    BY <1>1, <1>2
  <2> QED
    BY <1>2, <1>3, <2>1
<1> DEFINE known(k) == in.relocs[k].sym \in DOMAIN in.syms /\ in.relocs[k].sym <= MAX_SYMS
           fixed(b) == \E k \in DOMAIN in.relocs : known(k) /\ b \in word(k)
<1>6. /\ \A b : fixed(b) <=> Relocating(in, b) # {}
      /\ \A k \in DOMAIN in.relocs :
           (known(k) /\ \A j \in DOMAIN in.relocs \ {k} : known(j) => word(j) \cap word(k) = {})
             => \A b \in word(k) : Relocating(in, b) = {k}
  BY RelocatingIs
<1>7. ASSUME size \in 1 .. OUT
      PROVE  /\ \A i \in DOMAIN in.text1 :
                  fixed(OFF1 + i - 1) \/ d[OFF1 + i - 1] = in.text1[i]
             /\ \E off \in OFF1 + n1 .. size :
                  /\ (off - OFF1) % TEXT_ALIGN = 0 /\ off + n2 = size
                  /\ \A i \in DOMAIN in.text2 :
                       fixed(off + i - 1) \/ d[off + i - 1] = in.text2[i]
  <2> HIDE DEF n1, n2, o2, size, known, fixed
  <2> QED
    BY <1>1, <1>3, <1>5, <1>6, <1>7
<1>8. ASSUME NEW k \in DOMAIN in.relocs, known(k), word(k) \subseteq HEAD .. OUT - 1,
             \A j \in DOMAIN in.relocs \ {k} : known(j) => word(j) \cap word(k) = {},
             NEW b \in word(k)
      PROVE  d[b] = <<"addr", BASE + in.syms[in.relocs[k].sym], b - in.relocs[k].place>>
  <2> HIDE DEF n1, n2, o2, size, known, fixed, word
  <2> QED
    BY <1>4, <1>6, <1>8
<1> HIDE DEF o2
<1>9. size = Off2(in) + Len(in.text2)
  BY DEF o2
<1> QED
  BY <1>7, <1>8, <1>9 DEF LinkedIn

LEMMA LinkStep ==
  ASSUME NEW in, Linkable(in), LinkOf(in)
  PROVE  TextsLinked'
<1>1. /\ dst' = [b \in 0 .. OUT - 1 |-> LinkedByte(in, b)]
      /\ LAST_SIZE' = Off2(in) + Len(in.text2) /\ linked' = in
  BY DEF LinkOf
<1>2. LinkedIn(in, dst', Off2(in) + Len(in.text2))
  BY <1>1, LinkedTexts DEF LinkedByte
<1>3. TextsLinked' <=> LinkedIn(linked', dst', LAST_SIZE')
  BY DEF TextsLinked, LinkedIn, Word
<1> QED
  BY <1>1, <1>2, <1>3

-----------------------------------------------------------------------------
(* The compiler. *)

LEMMA EncodingIs ==
  ASSUME NEW insn, Size(insn.op) \in Nat, NEW T,
         \A k \in 1 .. Size(insn.op) : <<insn.op, insn.arg, k>> \in T
  PROVE  /\ Encoding(insn) \in Seq(T) /\ Len(Encoding(insn)) = Size(insn.op)
         /\ \A k \in 1 .. Size(insn.op) : Encoding(insn)[k] = <<insn.op, insn.arg, k>>
<1> DEFINE n == Size(insn.op)
           e == [k \in 1 .. n |-> <<insn.op, insn.arg, k>>]
<1>1. Encoding(insn) = e
  BY DEF Encoding
<1> HIDE DEF n
<1>2. n \in Nat /\ \A k \in 1 .. n : <<insn.op, insn.arg, k>> \in T
  BY DEF n
<1>3. e \in Seq(T) /\ Len(e) = n
  BY <1>2
<1>4. \A k \in 1 .. n : e[k] = <<insn.op, insn.arg, k>>
  OBVIOUS
<1> HIDE DEF e
<1> QED
  BY <1>1, <1>3, <1>4 DEF n

\* A text begins with its first instruction.
LEMMA EncodedIs ==
  ASSUME NEW insns, Len(insns) \in Nat, \A j \in 1 .. Len(insns) : Size(insns[j].op) \in Nat
  PROVE  LET text == Encoded(insns)
         IN  /\ Len(text) \in Nat /\ DOMAIN text = 1 .. Len(text)
             /\ Len(insns) > 0 =>
                  /\ Size(insns[1].op) <= Len(text)
                  /\ \A k \in 1 .. Size(insns[1].op) :
                       text[k] = <<insns[1].op, insns[1].arg, k>>
<1> DEFINE n == Len(insns)
           T == {<<insns[j].op, insns[j].arg, k>> : j \in 1 .. n, k \in Nat}
           S == Seq(T)
           a == <<>>
           Step(y, k) == y \o Encoding(insns[k])
           Computes(t) == t = [k \in 0 .. n |-> IF k = 0 THEN a ELSE Step(t[k - 1], k)]
           text == CHOOSE t : Computes(t)
<1>1. n \in Nat /\ a \in S
  OBVIOUS
<1>2. Encoded(insns) = text[n]
  BY DEF Encoded
<1>3. ASSUME NEW j \in 1 .. n
      PROVE  /\ Encoding(insns[j]) \in S /\ Len(Encoding(insns[j])) = Size(insns[j].op)
             /\ \A k \in 1 .. Size(insns[j].op) :
                  Encoding(insns[j])[k] = <<insns[j].op, insns[j].arg, k>>
  <2>1. Size(insns[j].op) \in Nat
    OBVIOUS
  <2>2. \A k \in 1 .. Size(insns[j].op) : k \in Nat
    BY <2>1
  <2>3. \A k \in 1 .. Size(insns[j].op) : <<insns[j].op, insns[j].arg, k>> \in T
    BY <2>2
  <2> HIDE DEF T, n
  <2> QED
    BY <2>1, <2>3, EncodingIs
<1> HIDE DEF T
<1>4. \A k \in 1 .. n : \A y \in S : Step(y, k) \in S
  <2> SUFFICES ASSUME NEW k \in 1 .. n, NEW y \in S
               PROVE  y \o Encoding(insns[k]) \in S
    OBVIOUS
  <2>1. Encoding(insns[k]) \in Seq(T)
    BY <1>3
  <2> QED
    BY <2>1
<1> HIDE DEF n, S, a
<1>5. Computes(text)
  <2> DEFINE g == [k \in 1 .. n |-> [y \in S |-> Step(y, k)]]
  <2> HIDE DEF Step
  <2>1. \A k \in 1 .. n : [y \in S |-> Step(y, k)] \in [S -> S]
    BY <1>4
  <2>2. g \in [1 .. n -> [S -> S]]
    BY <2>1
  <2>3. \A k \in 1 .. n : \A y \in S : g[k][y] = Step(y, k)
    OBVIOUS
  <2> HIDE DEF g, Computes, text
  <2>4. PICK h \in [0 .. n -> S] : h[0] = a /\ \A k \in 1 .. n : h[k] = g[k][h[k - 1]]
    <3>1. HasRun(n, S, a, g)
      BY <1>1, <2>2, RecursionDefines
    <3> QED
      BY <3>1 DEF HasRun
  <2>5. \A k \in 0 .. n : h[k] = IF k = 0 THEN a ELSE Step(h[k - 1], k)
    <3> SUFFICES ASSUME NEW k \in 0 .. n, k # 0
                 PROVE  h[k] = Step(h[k - 1], k)
      BY <2>4
    <3>1. k \in 1 .. n /\ k - 1 \in 0 .. n
      BY <1>1
    <3> QED
      BY <2>3, <2>4, <3>1
  <2>6. h = [k \in 0 .. n |-> IF k = 0 THEN a ELSE Step(h[k - 1], k)]
    BY <2>5
  <2>7. Computes(h)
    BY <2>6 DEF Computes
  <2> QED
    BY <2>7 DEF text
<1> HIDE DEF text
<1>6. text[0] = a /\ \A k \in 1 .. n : text[k] = Step(text[k - 1], k)
  <2> HIDE DEF Step
  <2> QED
    BY <1>1, <1>5
<1>7. \A k \in 0 .. n : text[k] \in S
  <2> HIDE DEF Step
  <2>1. \A k \in 1 .. n : text[k - 1] \in S => text[k] \in S
    BY <1>4, <1>6
  <2>2. text[0] \in S
    BY <1>1, <1>6
  <2> QED
    BY <1>1, <2>1, <2>2, StepsStay
<1>8. Len(text[n]) \in Nat /\ DOMAIN text[n] = 1 .. Len(text[n])
  <2>1. text[n] \in Seq(T)
    BY <1>1, <1>7 DEF S
  <2> QED
    BY <2>1
<1>9. ASSUME n > 0
      PROVE  Begins(Encoding(insns[1]), text[n])
  <2> DEFINE b == Encoding(insns[1])
             P == {k \in 0 .. n : k > 0 => Begins(b, text[k])}
  <2>1. 0 \in P
    BY <1>1
  <2>2. ASSUME NEW k \in 1 .. n, k - 1 \in P
        PROVE  k \in P
    <3> DEFINE x == text[k - 1]
               y == Encoding(insns[k])
    <3>1. x \in Seq(T) /\ y \in Seq(T) /\ text[k] = x \o y
      <4>1. k - 1 \in 0 .. n
        BY <1>1
      <4> QED
        BY <1>3, <1>6, <1>7, <4>1 DEF S
    <3>2. k - 1 = 0 \/ Begins(b, x)
      BY <2>2
    <3>3. CASE k - 1 = 0
      <4>1. k = 1 /\ x = <<>>
        BY <1>6, <3>3 DEF a
      <4>2. text[k] = b
        BY <3>1, <4>1
      <4>3. Begins(b, b)
        <5>1. b \in Seq(T)
          BY <3>1, <4>1
        <5> HIDE DEF b
        <5> QED
          BY <5>1 DEF Begins
      <4> HIDE DEF b
      <4> QED
        BY <1>1, <4>2, <4>3
    <3>4. CASE Begins(b, x)
      <4> HIDE DEF x, y
      <4>0. b \in Seq(T)
        <5>1. 1 \in 1 .. n
          BY <1>1, <1>9
        <5> QED
          BY <1>3, <5>1 DEF S
      <4> HIDE DEF b
      <4>1. /\ x \o y \in Seq(T) /\ Len(x) \in Nat /\ Len(y) \in Nat /\ Len(x \o y) = Len(x) + Len(y)
            /\ \A i \in 1 .. Len(x) : (x \o y)[i] = x[i]
        BY <3>1, Joined
      <4>2. Len(b) \in Nat
        BY <4>0
      <4>3. Begins(b, x \o y)
        BY <3>4, <4>1, <4>2 DEF Begins
      <4>4. k \in 0 .. n /\ Begins(b, text[k])
        BY <1>1, <3>1, <4>3
      <4> QED
        BY <4>4
    <3> QED
      BY <3>2, <3>3, <3>4
  <2> HIDE DEF P
  <2>3. \A k \in 0 .. n : k \in P
    BY <1>1, <2>1, <2>2, EveryStep
  <2>4. n \in P
    BY <1>1, <2>3
  <2> QED
    BY <1>9, <2>4 DEF P
<1>10. ASSUME n > 0
       PROVE  /\ Size(insns[1].op) <= Len(text[n])
              /\ \A k \in 1 .. Size(insns[1].op) : text[n][k] = <<insns[1].op, insns[1].arg, k>>
  <2>1. 1 \in 1 .. n
    BY <1>1, <1>10
  <2> QED
    BY <1>3, <1>9, <1>10, <2>1 DEF Begins
<1> QED
  BY <1>2, <1>8, <1>10 DEF n

\* A digit alone is its number.
LEMMA DigitIs ==
  ASSUME NEW d \in 0 .. 9
  PROVE  Digits(10, <<d>>) = d
<1> DEFINE e == <<d>>
           Computes(t) == t = [k \in 0 .. Len(e) |->
                                IF k = 0 THEN 0
                                ELSE IF e[k] < 10 THEN t[k - 1] * 10 + e[k]
                                ELSE IF 10 = 16 THEN t[k - 1] * 10 ELSE t[k - 1]]
           v == CHOOSE t : Computes(t)
           w == [k \in 0 .. 1 |-> IF k = 0 THEN 0 ELSE d]
<1>1. Digits(10, e) = v[Len(e)]
  BY DEF Digits
<1>2. Len(e) = 1 /\ e[1] = d /\ d \in Nat /\ d < 10
  OBVIOUS
<1> HIDE DEF e
<1>3. w[0] = 0 /\ w[1] = d /\ DOMAIN w = 0 .. 1
  OBVIOUS
<1>4. \A k \in 0 .. 1 : w[k] = IF k = 0 THEN 0
                               ELSE IF e[k] < 10 THEN w[k - 1] * 10 + e[k]
                               ELSE IF 10 = 16 THEN w[k - 1] * 10 ELSE w[k - 1]
  <2>1. 0 * 10 + d = d
    BY <1>2
  <2>2. \A k \in 0 .. 1 : k = 0 \/ (k = 1 /\ k - 1 = 0)
    OBVIOUS
  <2> HIDE DEF w
  <2> QED
    BY <1>2, <1>3, <2>1, <2>2
<1>5. Computes(w)
  <2>1. w = [k \in 0 .. 1 |-> w[k]]
    OBVIOUS
  <2> HIDE DEF w
  <2> QED
    BY <1>2, <1>4, <2>1
<1>6. Computes(v)
  <2> HIDE DEF Computes, w
  <2> QED
    BY <1>5
<1> HIDE DEF v
<1>7. v[0] = 0
  BY <1>2, <1>6
<1>8. v[1] = d
  <2>1. 1 \in 0 .. 1 /\ 1 - 1 = 0
    OBVIOUS
  <2>2. v[1] = IF e[1] < 10 THEN v[1 - 1] * 10 + e[1]
               ELSE IF 10 = 16 THEN v[1 - 1] * 10 ELSE v[1 - 1]
    BY <1>2, <1>6
  <2> QED
    BY <1>2, <1>7, <2>2
<1> QED
  BY <1>1, <1>2, <1>8 DEF e

LEMMA CutIs ==
  ASSUME NEW s \in Seq(Nat), NEW n \in Int
  PROVE  /\ Cut(s, n) \in Seq(Nat)
         /\ Len(s) <= n => Cut(s, n) = s
         /\ s = <<>> => Cut(s, n) = <<>>
<1> DEFINE m == IF Len(s) < n THEN Len(s) ELSE n
<1>1. Cut(s, n) = SubSeq(s, 1, m)
  BY DEF Cut
<1>2. Len(s) \in Nat /\ m \in Int /\ m <= Len(s) /\ (Len(s) <= n => m = Len(s))
  OBVIOUS
<1> HIDE DEF m
<1>3. SubSeq(s, 1, m) \in Seq(Nat)
  BY <1>2
<1>4. SubSeq(s, 1, Len(s)) = s
  OBVIOUS
<1>5. ASSUME s = <<>>
      PROVE  SubSeq(s, 1, m) = <<>>
  <2>1. m <= 0 /\ m \in Int
    BY <1>2, <1>5
  <2>2. 1 .. m = {}
    BY <2>1
  <2> QED
    BY <1>2, <1>5, <2>1, <2>2
<1> QED
  BY <1>1, <1>2, <1>3, <1>4, <1>5

LEMMA KeptIs ==
  ASSUME NEW t \in Seq(Nat)
  PROVE  KeptOf(t) \in Seq(Nat)
<1>1. IsDec(t) => t[1] \in Nat
  BY DEF IsDec
<1>2. IsDec(t) => <<t[1]>> \in Seq(Nat)
  BY <1>1
<1> QED
  BY <1>2 DEF KeptOf

\* The only constant of a program is its expression, if the buffer has room.
LEMMA ExpressionIs ==
  ASSUME NEW tokens \in Seq(Seq(Nat)), NEW c \in DOMAIN tokens,
         \A k \in DOMAIN tokens : k # c => ~IsHex(tokens[k]) /\ ~IsDec(tokens[k]),
         Len(KeptOf(tokens[c])) <= EXPR_MAX
  PROVE  Expression(tokens) = KeptOf(tokens[c])
<1> DEFINE n == Len(tokens)
           S == Seq(Nat)
           a == <<>>
           Step(y, k) == y \o Cut(KeptOf(tokens[k]), Room(y))
           Computes(t) == t = [k \in 0 .. n |-> IF k = 0 THEN a ELSE Step(t[k - 1], k)]
           e == CHOOSE t : Computes(t)
<1>1. n \in Nat /\ a \in S /\ DOMAIN tokens = 1 .. n /\ EXPR_MAX \in Nat
  BY ToolsAssumption
<1>2. Expression(tokens) = e[n]
  BY DEF Expression
<1>3. ASSUME NEW k \in 1 .. n
      PROVE  KeptOf(tokens[k]) \in S
  <2>1. tokens[k] \in Seq(Nat)
    <3> DEFINE T == Seq(Nat)
    <3>1. tokens \in Seq(T) /\ k \in 1 .. Len(tokens)
      OBVIOUS
    <3> HIDE DEF T
    <3>2. tokens[k] \in T
      BY <3>1
    <3> QED
      BY <3>2 DEF T
  <2> QED
    BY <2>1, KeptIs
<1> HIDE DEF n
<1>4. ASSUME NEW k \in 1 .. n, NEW y \in S
      PROVE  Step(y, k) \in S
  <2>1. Room(y) \in Int
    BY <1>1 DEF Room
  <2>2. KeptOf(tokens[k]) \in Seq(Nat)
    BY <1>3
  <2>3. Cut(KeptOf(tokens[k]), Room(y)) \in Seq(Nat)
    BY <2>1, <2>2, CutIs
  <2> QED
    BY <2>3
<1> HIDE DEF S, a
<1>5. Computes(e)
  <2> DEFINE g == [k \in 1 .. n |-> [y \in S |-> Step(y, k)]]
  <2> HIDE DEF Step
  <2>1. \A k \in 1 .. n : [y \in S |-> Step(y, k)] \in [S -> S]
    BY <1>4
  <2>2. g \in [1 .. n -> [S -> S]]
    BY <2>1
  <2>3. \A k \in 1 .. n : \A y \in S : g[k][y] = Step(y, k)
    OBVIOUS
  <2> HIDE DEF g, Computes, e
  <2>4. PICK h \in [0 .. n -> S] : h[0] = a /\ \A k \in 1 .. n : h[k] = g[k][h[k - 1]]
    <3>1. HasRun(n, S, a, g)
      BY <1>1, <2>2, RecursionDefines
    <3> QED
      BY <3>1 DEF HasRun
  <2>5. \A k \in 0 .. n : h[k] = IF k = 0 THEN a ELSE Step(h[k - 1], k)
    <3> SUFFICES ASSUME NEW k \in 0 .. n, k # 0
                 PROVE  h[k] = Step(h[k - 1], k)
      BY <2>4
    <3>1. k \in 1 .. n /\ k - 1 \in 0 .. n
      BY <1>1
    <3> QED
      BY <2>3, <2>4, <3>1
  <2>6. h = [k \in 0 .. n |-> IF k = 0 THEN a ELSE Step(h[k - 1], k)]
    BY <2>5
  <2>7. Computes(h)
    BY <2>6 DEF Computes
  <2> QED
    BY <2>7 DEF e
<1> HIDE DEF e
<1>6. e[0] = a /\ \A k \in 1 .. n : e[k] = Step(e[k - 1], k)
  <2> HIDE DEF Step
  <2> QED
    BY <1>1, <1>5
<1> DEFINE s == KeptOf(tokens[c])
           P == {k \in 0 .. n : e[k] = IF k < c THEN <<>> ELSE s}
<1>7. c \in 1 .. n /\ c \in Int /\ s \in Seq(Nat)
  BY <1>1, <1>3 DEF S
<1>8. 0 \in P
  BY <1>1, <1>6, <1>7 DEF a
<1>9. ASSUME NEW k \in 1 .. n, k - 1 \in P
      PROVE  k \in P
  <2>0. k \in 0 .. n /\ e[k] = Step(e[k - 1], k)
    <3> HIDE DEF Step
    <3>1. k \in 0 .. n
      BY <1>1
    <3> QED
      BY <1>6, <3>1
  <2>1. CASE k = c
    <3>1. e[k - 1] = <<>>
      BY <1>7, <1>9, <2>1
    <3>2. Room(<<>>) = EXPR_MAX
      BY <1>1 DEF Room
    <3>3. Cut(s, EXPR_MAX) = s
      <4> HIDE DEF s
      <4>1. Len(s) <= EXPR_MAX
        BY DEF s
      <4> QED
        BY <1>1, <1>7, <4>1, CutIs
    <3>4. e[k] = <<>> \o s
      BY <2>0, <2>1, <3>1, <3>2, <3>3
    <3>5. <<>> \o s = s
      <4> HIDE DEF s
      <4> QED
        BY <1>7
    <3> HIDE DEF s
    <3> QED
      BY <1>7, <2>0, <2>1, <3>4, <3>5
  <2>2. CASE k # c
    <3>1. KeptOf(tokens[k]) = <<>>
      BY <1>1, <2>2 DEF KeptOf
    <3>2. e[k - 1] = IF k < c THEN <<>> ELSE s
      BY <1>7, <1>9, <2>2
    <3> DEFINE x == e[k - 1]
    <3>3. x \in Seq(Nat)
      BY <1>7, <3>2
    <3>4. Room(x) \in Int
      BY <1>1, <3>3 DEF Room
    <3>5. Cut(<<>>, Room(x)) = <<>>
      <4>1. <<>> \in Seq(Nat)
        OBVIOUS
      <4> QED
        BY <3>4, <4>1, CutIs
    <3>6. e[k] = x \o <<>>
      BY <2>0, <3>1, <3>5
    <3> HIDE DEF x
    <3>7. x \o <<>> = x
      BY <3>3
    <3> HIDE DEF s
    <3> QED
      BY <2>0, <3>2, <3>6, <3>7 DEF x
  <2> QED
    BY <2>1, <2>2
<1> HIDE DEF P
<1>10. \A k \in 0 .. n : k \in P
  BY <1>1, <1>8, <1>9, EveryStep
<1>11. n \in P /\ ~(n < c)
  BY <1>1, <1>7, <1>10
<1> QED
  BY <1>2, <1>11 DEF P

\* A constant in the buffer is read as what it stands for.
LEMMA ConstantIs ==
  ASSUME NEW tokens \in Seq(Seq(Nat)), NEW c \in DOMAIN tokens,
         {k \in DOMAIN tokens : IsHex(tokens[k]) \/ IsDec(tokens[k])} = {c},
         Len(tokens[c]) <= IF IsHex(tokens[c]) THEN EXPR_MAX ELSE 1
  PROVE  ParseConst(Expression(tokens)) =
           IF IsHex(tokens[c]) THEN Digits(16, SubSeq(tokens[c], 3, Len(tokens[c])))
           ELSE tokens[c][1]
<1> DEFINE t == tokens[c]
<1>1. EXPR_MAX \in Nat /\ 1 <= EXPR_MAX
  BY ToolsAssumption
<1>2. \A k \in DOMAIN tokens : k # c => ~IsHex(tokens[k]) /\ ~IsDec(tokens[k])
  OBVIOUS
<1>3. IsHex(t) \/ IsDec(t)
  OBVIOUS
<1>4. CASE IsHex(t)
  <2>1. KeptOf(t) = t /\ Len(t) <= EXPR_MAX
    BY <1>4 DEF KeptOf
  <2>2. Expression(tokens) = t
    BY <1>2, <2>1, ExpressionIs
  <2> HIDE DEF t
  <2>3. ParseConst(t) = Digits(16, SubSeq(t, 3, Len(t)))
    BY <1>4 DEF ParseConst
  <2> QED
    BY <1>4, <2>2, <2>3 DEF t
<1>5. CASE ~IsHex(t)
  <2>1. KeptOf(t) = <<t[1]>> /\ t[1] \in 0 .. 9
    BY <1>3, <1>5 DEF KeptOf, IsDec
  <2>2. Len(KeptOf(t)) <= EXPR_MAX
    BY <1>1, <2>1
  <2>3. Expression(tokens) = <<t[1]>>
    BY <1>2, <2>1, <2>2, ExpressionIs
  <2> HIDE DEF t
  <2>4. ~IsHex(<<t[1]>>)
    BY DEF IsHex
  <2>5. ParseConst(<<t[1]>>) = t[1]
    BY <2>1, <2>4, DigitIs DEF ParseConst
  <2> QED
    BY <1>5, <2>3, <2>5 DEF t
<1> QED
  BY <1>4, <1>5

\* What fujocc.rs hands to the assembler, and what comes out.
LEMMA TranslatedIs ==
  ASSUME NEW tokens, NEW table, NEW n,
         NEW insns, insns = Generated(Translated(tokens), table, n)
  PROVE  /\ Lines(Translated(tokens))
         /\ Len(insns) \in Nat /\ Len(insns) > 0
         /\ \A j \in 1 .. Len(insns) : Size(insns[j].op) \in Nat
         /\ insns[1].op = "mov" /\ insns[1].arg = ParseConst(Expression(tokens))
<1> DEFINE src == Translated(tokens)
           v == ParseConst(Expression(tokens))
           e == Emitting(src)
           m == Cardinality(e)
<1>1. /\ Len(src) = 2 /\ DOMAIN src = 1 .. 2 /\ src[1].op = "mov" /\ src[1].arg = v
      /\ src[2].op = "ret"
  BY DEF Translated, Line
<1> HIDE DEF src, v
<1>2. \A i \in 1 .. 2 : i = 1 \/ i = 2
  OBVIOUS
<1>3. \A i \in 1 .. 2 : src[i].op \in DOMAIN InsnBytes \cup {"none"} /\ src[i].op # "none"
  BY <1>1, <1>2, ToolsAssumption
<1>4. Lines(src)
  BY <1>1, <1>3 DEF Lines
<1>5. e = 1 .. 2
  BY <1>1, <1>3 DEF Emitting
<1>6. /\ m \in Nat /\ \A k \in 1 .. m : EmittingLine(src, k) \in e
      /\ \A i \in e : \E k \in 1 .. m : EmittingLine(src, k) = i
      /\ \A j, k \in 1 .. m : j <= k => EmittingLine(src, j) <= EmittingLine(src, k)
  BY <1>4, LinesInOrder DEF Ordered
<1>7. OfLines(insns, src, table, n)
  BY GeneratedIs DEF src
<1>8. /\ DOMAIN insns = 1 .. m /\ Len(insns) = m
      /\ \A k \in 1 .. m :
           LET i == EmittingLine(src, k)
           IN  /\ insns[k].op = src[i].op
               /\ insns[k].arg = IF src[i].op \in Branches
                                 THEN RelOf(BytesTo(src, i - 1), src[i].op, src[i].arg, table, n)
                                 ELSE src[i].arg
  BY <1>6, <1>7 DEF OfLines
<1> HIDE DEF e, m
<1>9. \A j \in 1 .. m : Size(insns[j].op) \in Nat
  <2> SUFFICES ASSUME NEW j \in 1 .. m
               PROVE  Size(insns[j].op) \in Nat
    OBVIOUS
  <2>1. EmittingLine(src, j) \in 1 .. 2 /\ insns[j].op = src[EmittingLine(src, j)].op
    BY <1>5, <1>6, <1>8
  <2> QED
    BY <1>3, <2>1, SizeIs
<1>10. 1 \in 1 .. m /\ EmittingLine(src, 1) = 1
  <2>1. PICK k \in 1 .. m : EmittingLine(src, k) = 1
    BY <1>5, <1>6
  <2>2. 1 \in 1 .. m /\ 1 <= k
    BY <1>6, <2>1
  <2>3. EmittingLine(src, 1) <= 1 /\ EmittingLine(src, 1) \in 1 .. 2
    BY <1>5, <1>6, <2>1, <2>2
  <2> QED
    BY <2>2, <2>3
<1>11. insns[1].op = "mov" /\ insns[1].arg = v
  BY <1>1, <1>8, <1>10 DEF Branches
<1>12. m > 0
  BY <1>6, <1>10
<1> QED
  BY <1>4, <1>6, <1>8, <1>9, <1>11, <1>12 DEF src, v

\* What ReturnsConstant says of a buffer d with size bytes.
ReturnsIn(tokens, d, size) ==
  \A c \in DOMAIN tokens :
    LET t == tokens[c]
        value == IF IsHex(t) THEN Digits(16, SubSeq(t, 3, Len(t))) ELSE t[1]
    IN  (/\ {k \in DOMAIN tokens : IsHex(tokens[k]) \/ IsDec(tokens[k])} = {c}
         /\ Len(t) <= IF IsHex(t) THEN EXPR_MAX ELSE 1
         /\ size <= OUT)
          => \A k \in 1 .. Size("mov") : d[OFF1 + k - 1] = <<"mov", value, k>>

LEMMA CompiledReturns ==
  ASSUME NEW tokens \in Seq(Seq(Nat)), NEW text, Len(text) \in Nat, DOMAIN text = 1 .. Len(text),
         Size("mov") <= Len(text),
         \A k \in 1 .. Size("mov") : text[k] = <<"mov", ParseConst(Expression(tokens)), k>>,
         NEW in, in = [text1 |-> text, text2 |-> <<>>, syms |-> <<>>, relocs |-> <<>>],
         NEW d, LinkedIn(in, d, Off2(in) + Len(in.text2))
  PROVE  ReturnsIn(tokens, d, Off2(in) + Len(in.text2))
<1> DEFINE size == Off2(in) + Len(in.text2)
<1>1. in.text1 = text /\ in.text2 = <<>> /\ DOMAIN in.relocs = {} /\ Len(in.text2) = 0
  OBVIOUS
<1>2. "mov" \in DOMAIN InsnBytes /\ OFF1 \in Nat
  BY ToolsAssumption
<1>3. Size("mov") \in Nat
  BY <1>2, SizeIs
<1>4. Off2(in) \in Nat /\ OFF1 + Len(text) <= Off2(in)
  <2>1. Rounded(Len(text)) \in Nat /\ Len(text) <= Rounded(Len(text))
    BY RoundedIs
  <2>2. Off2(in) = OFF1 + Rounded(Len(text))
    BY <1>1 DEF Off2
  <2> QED
    BY <1>2, <2>1, <2>2
<1>5. \A b : Relocating(in, b) = {}
  BY <1>1 DEF Relocating, Snapshot
<1>6. ASSUME NEW c \in DOMAIN tokens,
             {k \in DOMAIN tokens : IsHex(tokens[k]) \/ IsDec(tokens[k])} = {c},
             Len(tokens[c]) <= IF IsHex(tokens[c]) THEN EXPR_MAX ELSE 1,
             size <= OUT, NEW k \in 1 .. Size("mov")
      PROVE  d[OFF1 + k - 1] =
               <<"mov", IF IsHex(tokens[c]) THEN Digits(16, SubSeq(tokens[c], 3, Len(tokens[c])))
                        ELSE tokens[c][1], k>>
  <2>1. k \in 1 .. Len(text)
    BY <1>3
  <2>2. size \in 1 .. OUT
    <3>1. OUT \in Nat /\ size = Off2(in)
      BY <1>1, <1>4, ToolsAssumption
    <3>2. size <= OUT
      BY <1>6
    <3>3. Len(text) \in Nat /\ 1 <= Len(text)
      BY <2>1
    <3> HIDE DEF size
    <3> QED
      BY <1>2, <1>4, <3>1, <3>2, <3>3
  <2>3. d[OFF1 + k - 1] = text[k]
    <3>1. \A i \in DOMAIN in.text1 : Relocating(in, OFF1 + i - 1) # {} \/ d[OFF1 + i - 1] = in.text1[i]
      BY <2>2 DEF LinkedIn
    <3> QED
      BY <1>1, <1>5, <2>1, <3>1
  <2>4. text[k] = <<"mov", ParseConst(Expression(tokens)), k>>
    OBVIOUS
  <2>5. ParseConst(Expression(tokens)) =
           IF IsHex(tokens[c]) THEN Digits(16, SubSeq(tokens[c], 3, Len(tokens[c])))
           ELSE tokens[c][1]
    BY <1>6, ConstantIs
  <2> QED
    BY <2>3, <2>4, <2>5
<1> QED
  BY <1>6 DEF ReturnsIn

LEMMA CompileStep ==
  ASSUME NEW tokens \in Seq(Seq(Nat)), NEW abi \in ABI_T, Compile(tokens, abi)
  PROVE  BranchesLand' /\ TextsLinked' /\ ReturnsConstant'
<1> DEFINE src == Translated(tokens)
           text == Encoded(code')
           in == [text1 |-> text, text2 |-> <<>>, syms |-> <<>>, relocs |-> <<>>]
<1>1. Assembled(src) /\ LinkOf(in) /\ compiled' = tokens
  BY DEF Compile
<1>2. code' = Generated(src, LABEL_AT', LABEL_N')
  BY <1>1 DEF Assembled
<1>3. /\ Lines(src) /\ Len(code') \in Nat /\ Len(code') > 0
      /\ \A j \in 1 .. Len(code') : Size(code'[j].op) \in Nat
      /\ code'[1].op = "mov" /\ code'[1].arg = ParseConst(Expression(tokens))
  BY <1>2, TranslatedIs
<1> HIDE DEF src
<1>4. /\ Len(text) \in Nat /\ DOMAIN text = 1 .. Len(text) /\ Size("mov") <= Len(text)
      /\ \A k \in 1 .. Size("mov") : text[k] = <<"mov", ParseConst(Expression(tokens)), k>>
  BY <1>3, EncodedIs
<1> HIDE DEF text
<1>5. Linkable(in)
  BY <1>4 DEF Linkable
<1>6. BranchesLand'
  BY <1>1, <1>3, BranchesLandStep
<1>7. /\ dst' = [b \in 0 .. OUT - 1 |-> LinkedByte(in, b)]
      /\ LAST_SIZE' = Off2(in) + Len(in.text2) /\ linked' = in
  BY <1>1 DEF LinkOf
<1>8. LinkedIn(in, dst', Off2(in) + Len(in.text2))
  <2> HIDE DEF in
  <2> QED
    BY <1>5, <1>7, LinkedTexts DEF LinkedByte
<1>9. ReturnsIn(tokens, dst', Off2(in) + Len(in.text2))
  BY <1>4, <1>8, CompiledReturns
<1>10. ReturnsConstant' <=> ReturnsIn(compiled', dst', LAST_SIZE')
  BY DEF ReturnsConstant, ReturnsIn
<1>11. TextsLinked'
  <2> HIDE DEF in
  <2> QED
    BY <1>1, <1>5, LinkStep
<1> QED
  BY <1>1, <1>6, <1>7, <1>9, <1>10, <1>11

LEMMA LinkInputStep ==
  ASSUME NEW in \in LinkInputs, Link(in)
  PROVE  TextsLinked' /\ ReturnsConstant'
<1> DEFINE T == STRING \X Int \X Nat
           R == [place : Nat, sym : Nat]
<1>1. in.text1 \in Seq(T) /\ in.text2 \in Seq(T) /\ in.relocs \in Seq(R)
  BY ToolsAssumption
<1>2. \A r \in R : r.place \in Nat
  OBVIOUS
<1> HIDE DEF T, R
<1>3. Linkable(in)
  BY <1>1, <1>2 DEF Linkable
<1>4. LinkOf(in) /\ compiled' = <<>>
  BY DEF Link
<1>5. TextsLinked'
  BY <1>3, <1>4, LinkStep
<1>6. ReturnsConstant'
  BY <1>4 DEF ReturnsConstant
<1> QED
  BY <1>5, <1>6
=============================================================================

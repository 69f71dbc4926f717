-------------------------------- MODULE Fjfs --------------------------------
(***************************************************************************)
(* The file system of kernel/src/fjfs.rs: a cluster bitmap and a root      *)
(* directory in memory, written through to the drive sector by sector,     *)
(* over drivers whose transfers can fail.  A cluster is one sector here.   *)
(* A call runs to its end before the next one; the power may go at any     *)
(* sector.                                                                 *)
(***************************************************************************)
EXTENDS Integers, Sequences, FiniteSets

CONSTANTS TOTAL_CLUSTERS,  \* clusters of the volume (2048 in the kernel)
          OnDrive,         \* clusters a 4 MiB drive has room for (2047)
          RootSectors,     \* sectors of the directory (2)
          PerSector,       \* directory entries in a sector (16)
          Names, Stored,   \* names callers use, and names as they are stored
          FmtName,         \* fmt_name: the first 15 characters of a name
          Contents,        \* file contents, as sequences of clusters
          MAX_FILE,        \* longest content, in clusters (32)
          Blank,           \* a cluster of zeros
          Garbage          \* bitmaps found on a drive never formatted

Clusters == 0 .. TOTAL_CLUSTERS - 1
Slots    == 0 .. RootSectors * PerSector - 1

ASSUME VolumeAssumption ==
  /\ TOTAL_CLUSTERS \in Nat \ {0} /\ MAX_FILE \in Nat
  /\ RootSectors \in Nat \ {0} /\ PerSector \in Nat \ {0}
  /\ FmtName \in [Names -> Stored]
  /\ Garbage \subseteq SUBSET Clusters
  /\ \A v \in Contents : v \in Seq(UNION {{w[i] : i \in DOMAIN w} :
                                           w \in Contents})

VARIABLES
  magic,      \* drive: the superblock carries the magic number
  dBitmap,    \* drive: sector 1
  dRoot,      \* drive: sectors 2 and 3
  dData,      \* drive: the clusters
  BITMAP,     \* memory: clusters in use
  ROOT,       \* memory: the directory
  VOLUME_OK,  \* memory: the volume was mounted
  pc,         \* the call in progress
  pos,        \* its next sector
  arg,        \* the content being written and where it goes
  faulted     \* history: a transfer has failed

drive == <<magic, dBitmap, dRoot, dData>>
memory == <<BITMAP, ROOT, VOLUME_OK>>
fsVars == <<drive, memory, pc, pos, arg, faulted>>

\* A directory entry; size 0 marks a free one.
NoName == "none"
FreeEntry == [name |-> NoName, size |-> 0, first |-> 0]
EmptyRoot == [s \in Slots |-> FreeEntry]

\* No file has an empty name.
ASSUME NameAssumption == NoName \notin Stored

NoArg == [body |-> <<>>, first |-> 0]

Extent(e) == e.first .. e.first + e.size - 1

\* lookup: the entry of a stored name, if a file has it.
HasFile(root, n) == \E s \in Slots : root[s].name = n /\ root[s].size > 0

Lookup(root, n) ==
  root[CHOOSE s \in Slots : root[s].name = n /\ root[s].size > 0]

\* read_file: the clusters of a file, in order.
ReadFile(root, n) ==
  LET e == Lookup(root, n) IN [i \in 1 .. e.size |-> dData[e.first + i - 1]]

\* alloc_runs: the first run of free clusters that is long enough.
Runs(n) == {i \in Clusters : /\ i + n <= TOTAL_CLUSTERS
                             /\ i .. i + n - 1 \cap BITMAP = {}}

FirstRun(n) == CHOOSE i \in Runs(n) : \A j \in Runs(n) : i <= j

\* The slot a name gets: its own, or the first free one.
Matching(n) == {s \in Slots : ROOT[s].name = n}
Free == {s \in Slots : ROOT[s].size = 0}

SlotOfName(n) ==
  LET c == IF Matching(n) /= {} THEN Matching(n) ELSE Free
  IN  CHOOSE s \in c : \A t \in c : s <= t

\* A transfer of rd_seg or wr_seg goes over the drive or fails: the drive stays
\* busy or reports an error.  No caller looks at the result.
TransferDone == UNCHANGED faulted
ReadFails == faulted' = TRUE
WriteFails == faulted' = TRUE

-----------------------------------------------------------------------------
\* init: without the magic number the volume is formatted first.
Boot ==
  /\ pc = "off"
  /\ pc' = IF magic THEN "load" ELSE "zero"
  /\ pos' = 0
  /\ UNCHANGED <<drive, memory, arg, faulted>>

\* Formatting zeroes the eight sectors at the front, then writes the
\* superblock.  Sectors 4 to 7 are cluster 0.
ZeroSector ==
  /\ pc = "zero"
  /\ pos' = pos + 1
  /\ \/ /\ magic'   = (magic /\ pos /= 0)
        /\ dBitmap' = IF pos = 1 THEN {} ELSE dBitmap
        /\ dRoot'   = [s \in Slots |-> IF s \div PerSector = pos - 2
                                       THEN FreeEntry ELSE dRoot[s]]
        /\ dData'   = [c \in Clusters |-> IF c = pos - 2 - RootSectors
                                          THEN Blank ELSE dData[c]]
        /\ TransferDone
     \/ WriteFails /\ UNCHANGED drive
  /\ pc' = IF pos = 2 + RootSectors THEN "super" ELSE pc
  /\ UNCHANGED <<memory, arg>>

WriteSuper ==
  /\ pc = "super"
  /\ \/ magic' = TRUE /\ TransferDone
     \/ WriteFails /\ UNCHANGED magic
  /\ pc' = "load"
  /\ UNCHANGED <<dBitmap, dRoot, dData, memory, pos, arg>>

\* Loading ignores a failed read and goes on with what memory held, zeros;
\* the second sector of the directory is not read after a failed first one.
Load ==
  /\ pc = "load"
  /\ VOLUME_OK' = TRUE
  /\ \/ BITMAP' = dBitmap /\ ROOT' = dRoot /\ TransferDone
     \/ /\ ReadFails
        /\ BITMAP' \in {dBitmap, {}}
        /\ \E k \in 0 .. RootSectors :
             ROOT' = [s \in Slots |-> IF s \div PerSector < k
                                      THEN dRoot[s] ELSE FreeEntry]
  /\ pc' = "idle"
  /\ UNCHANGED <<drive, pos, arg>>

\* The superblock cannot be read: the volume stays offline.
BootFails ==
  /\ pc = "off"
  /\ ReadFails
  /\ pc' = "idle"
  /\ UNCHANGED <<drive, memory, pos, arg>>

\* write_file up to the transfers.  The directory in memory is changed after
\* the data is written; no other call runs in between, so it is changed here.
\* A full directory is noticed too late: the clusters stay taken.
WriteFile(n, v) ==
  LET size == Len(v)
      st   == FmtName[n]
  IN  /\ pc = "idle"
      /\ size \in 1 .. MAX_FILE
      /\ Runs(size) /= {}
      /\ LET first == FirstRun(size)
             full  == Matching(st) = {} /\ Free = {}
         IN  /\ BITMAP' = BITMAP \cup (first .. first + size - 1)
             /\ ROOT' = IF full THEN ROOT
                        ELSE [ROOT EXCEPT ![SlotOfName(st)] =
                                [name |-> st, size |-> size, first |-> first]]
             /\ arg' = [body |-> v, first |-> first]
             /\ pc' = IF full THEN "lost" ELSE "data"
      /\ pos' = 0
      /\ UNCHANGED <<drive, VOLUME_OK, faulted>>

NextSectorShort(call) == IF pos + 2 < Len(arg.body) THEN call
                         ELSE IF call = "data" THEN "bitmap" ELSE "idle"

NextSectorNoBitmap(call) == IF pos + 1 < Len(arg.body) THEN call
                            ELSE IF call = "data" THEN "root" ELSE "idle"

NextSectorOf(call) == IF pos + 1 < Len(arg.body) THEN call
                      ELSE IF call = "data" THEN "bitmap" ELSE "idle"

\* The data sectors, each its own transfer.  A cluster past the end of the
\* drive cannot be written.
WriteData ==
  /\ pc \in {"data", "lost"}
  /\ \/ /\ arg.first + pos < OnDrive
        /\ dData' = [dData EXCEPT ![arg.first + pos] = arg.body[pos + 1]]
        /\ TransferDone
     \/ WriteFails /\ UNCHANGED dData
  /\ pc' = NextSectorOf(pc)
  /\ pos' = IF pc' = pc THEN pos + 1 ELSE 0
  /\ UNCHANGED <<magic, dBitmap, dRoot, memory, arg>>

FlushBitmap ==
  /\ pc = "bitmap"
  /\ \/ dBitmap' = BITMAP /\ TransferDone
     \/ WriteFails /\ UNCHANGED dBitmap
  /\ pc' = "root"
  /\ UNCHANGED <<magic, dRoot, dData, memory, pos, arg>>

\* Both sectors of the directory in one transfer, which a failure cuts short.
FlushRoot ==
  /\ pc = "root"
  /\ \/ /\ dRoot' = [s \in Slots |-> IF s \div PerSector = pos
                                     THEN ROOT[s] ELSE dRoot[s]]
        /\ pos' = pos + 1
        /\ TransferDone
     \/ WriteFails /\ pos' = RootSectors /\ UNCHANGED dRoot
  /\ pc' = IF pos' = RootSectors THEN "idle" ELSE "root"
  /\ UNCHANGED <<magic, dBitmap, dData, memory, arg>>

\* The power goes: memory is lost, the drive keeps what it has.
PowerLoss ==
  /\ pc /= "off"
  /\ pc' = "off"
  /\ BITMAP' = {} /\ ROOT' = EmptyRoot /\ VOLUME_OK' = FALSE
  /\ pos' = 0 /\ arg' = NoArg
  /\ UNCHANGED <<drive, faulted>>

FsInit ==
  /\ magic = FALSE
  /\ dBitmap \in Garbage
  /\ dRoot = EmptyRoot
  /\ dData = [c \in Clusters |-> Blank]
  /\ BITMAP = {} /\ ROOT = EmptyRoot /\ VOLUME_OK = FALSE
  /\ pc = "off" /\ pos = 0 /\ arg = NoArg
  /\ faulted = FALSE

FsNext ==
  \/ Boot \/ ZeroSector \/ WriteSuper \/ Load \/ BootFails
  \/ \E n \in Names, v \in Contents : WriteFile(n, v)
  \/ WriteData \/ FlushBitmap \/ FlushRoot
  \/ PowerLoss

FsSpec == FsInit /\ [][FsNext]_fsVars

-----------------------------------------------------------------------------
FsTypeOK ==
  /\ magic \in BOOLEAN /\ VOLUME_OK \in BOOLEAN /\ faulted \in BOOLEAN
  /\ dBitmap \subseteq Clusters /\ BITMAP \subseteq Clusters
  /\ \A root \in {dRoot, ROOT} : \A s \in Slots :
       /\ root[s].name \in Stored \cup {NoName}
       /\ root[s].size \in 0 .. MAX_FILE
       /\ root[s].size > 0 => Extent(root[s]) \subseteq Clusters
  /\ DOMAIN dData = Clusters
  /\ pc \in {"off", "zero", "super", "load", "idle", "lost", "data", "bitmap",
             "root"}
  /\ pos \in Nat
  /\ arg.body \in Contents \cup {<<>>} /\ arg.first \in Clusters

\* No cluster belongs to two files or is free and in a file at once: neither
\* in memory nor on the drive, whatever sector the power goes at.
Disjoint(root, bitmap) ==
  \A s \in Slots : root[s].size > 0 =>
    /\ Extent(root[s]) \subseteq bitmap
    /\ \A t \in Slots \ {s} : Extent(root[s]) \cap Extent(root[t]) = {}

NoSharedCluster ==
  ~faulted => /\ magic => Disjoint(dRoot, dBitmap)
              /\ pc /= "off" => Disjoint(ROOT, BITMAP)

\* What the drive would give back after a power loss here is a map that
\* write_file changes in one step, at the sector of the directory.
OnTheDrive ==
  IF magic
  THEN [n \in {m \in Stored : HasFile(dRoot, m)} |-> ReadFile(dRoot, n)]
  ELSE [n \in {} |-> <<>>]

Abstract == INSTANCE Volume WITH files <- OnTheDrive, failed <- faulted

ImplementsVolume == Abstract!Spec
=============================================================================

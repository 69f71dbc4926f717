------------------------------- MODULE Files -------------------------------
(***************************************************************************)
(* The one descriptor table of kernel/src/vfs.rs and what its descriptors  *)
(* stand for: memory files, one shared buffer for all disk files, the      *)
(* pipes of kernel/src/ipc.rs and the objects of kernel/src/kobj.rs that   *)
(* pipe ends are registered as.  The volume is the map that Volume         *)
(* promises.  All tasks share the table and every call is one step.        *)
(***************************************************************************)
EXTENDS Integers, Sequences, FiniteSets

CONSTANTS Fds,        \* descriptors open can hand out (3 .. 15)
          PIPE_MAX, PIPE_SIZE,   \* 8 pipes of 512 bytes
          KOBJ_MAX,   \* kernel objects (64)
          TMPFS_N, TMPFS_MAX,    \* 8 memory files of 2048 bytes
          DISK_CACHE_MAX,        \* 2048
          TmpNames,   \* names of memory files, NoFile not among them
          LongNames,  \* those of 16 characters and more
          SeedName, Seed,        \* the memory file made at boot
          DiskNames,  \* names of disk files
          Chunks,     \* sequences of bytes programs write
          MaxSeek,    \* furthest position lseek is given
          MaxSent     \* bound on the bytes that go through a pipe

ASSUME FilesAssumption ==
  /\ Fds \subseteq Nat \ {0} /\ IsFiniteSet(Fds)
  /\ PIPE_MAX \in Nat /\ PIPE_SIZE \in Nat \ {0} /\ KOBJ_MAX \in Nat
  /\ TMPFS_N \in Nat /\ TMPFS_MAX \in Nat /\ DISK_CACHE_MAX \in Nat
  /\ SeedName \in TmpNames \ LongNames /\ TMPFS_N > 0
  /\ LongNames \subseteq TmpNames /\ MaxSeek \in Nat /\ MaxSent \in Nat
  /\ Chunks \subseteq Seq(0 .. 255) /\ Seed \in Seq(0 .. 255)
  /\ Len(Seed) <= TMPFS_MAX

VARIABLES
  FILES,   \* the descriptors
  PIPES,   \* the pipes
  KOBJS,   \* the objects: kind and payload
  TMPFS,   \* the memory files: name and contents
  CACHE,   \* DISK_CACHE: the buffer of whatever disk file is open
  DISK_DIRTY,
  volume,  \* the files on the volume
  sent,    \* history: how many bytes every pipe accepted and gave back
  whole,   \* history: what every disk descriptor has opened and appended
  stray    \* history: a program freed an object that is not its own

vfsVars == <<FILES, TMPFS, CACHE, DISK_DIRTY, volume, whole>>
pipeVars == <<PIPES, sent>>
filesVars == <<FILES, PIPES, KOBJS, TMPFS, CACHE, DISK_DIRTY, volume, sent,
               whole, stray>>

PipeIds == 0 .. PIPE_MAX - 1
ObjIds == 0 .. KOBJ_MAX - 1
TmpIds == 0 .. TMPFS_N - 1

NoFile == "none"
Lowest(S) == CHOOSE x \in S : \A y \in S : x <= y
Smaller(a, b) == IF a < b THEN a ELSE b
Upto(s, n) == SubSeq(s, 1, Smaller(Len(s), n))

\* A descriptor: what it is, which file or pipe, the length and position of
\* its view, and 1 + the object or memory file it is tied to.  `alone` is
\* history: no second disk descriptor was open at the same time.
FreeFd == [kind |-> "free", of |-> NoFile, len |-> 0, pos |-> 0, kslot |-> 0,
           alone |-> FALSE]

\* A descriptor that open takes, and one that close gives back unless it was
\* a pipe's, keep the number of the tie they had.
Unset(fd) == [FreeFd EXCEPT !.kslot = FILES[fd].kslot]

-----------------------------------------------------------------------------
(* Kernel objects.                                                         *)

NoObj == [kind |-> "none", payload |-> 0]
FreeObjs(objs) == {i \in ObjIds : objs[i] = NoObj}

RegisteredFromZero(objs, kind, payload) ==
  LET i == Lowest(FreeObjs(objs))
  IN  IF FreeObjs(objs) = {} THEN [objs |-> objs, kslot |-> 0]
      ELSE [objs |-> [objs EXCEPT ![i] = [kind |-> kind, payload |-> payload]],
            kslot |-> i]

\* kobj::alloc: the table with a new object, and 1 + its slot, or 0.
Registered(objs, kind, payload) ==
  IF FreeObjs(objs) = {} THEN [objs |-> objs, kslot |-> 0]
  ELSE LET i == Lowest(FreeObjs(objs))
       IN  [objs |-> [objs EXCEPT ![i] = [kind |-> kind, payload |-> payload]],
            kslot |-> i + 1]

\* free_fd's part: give up the object of a pipe end.
Unregistered(objs, kslot) ==
  IF kslot = 0 THEN objs ELSE [objs EXCEPT ![kslot - 1] = NoObj]

\* 0x5130.  A program may choose the kind of any object; the model's "user" says
\* that a program made it.
KobjCreate ==
  /\ FreeObjs(KOBJS) /= {}
  /\ KOBJS' = Registered(KOBJS, "user", 0).objs
  /\ UNCHANGED <<vfsVars, pipeVars, stray>>

\* fujo_shm and fujo_sigset register an object per call and hand out no
\* handle, so that nothing ever frees it.
RegisterUnowned(kind) ==
  /\ KOBJS' = Registered(KOBJS, kind, 0).objs
  /\ UNCHANGED <<vfsVars, pipeVars, stray>>

\* 0x5131 frees whatever is in the slot: the epoch of kobj.rs is never looked
\* at, so a handle may name an object that came later.
KobjFree(i) ==
  /\ KOBJS[i] /= NoObj
  /\ KOBJS' = [KOBJS EXCEPT ![i] = NoObj]
  /\ stray' = (stray \/ KOBJS[i].kind /= "user")
  /\ UNCHANGED <<vfsVars, pipeVars>>

-----------------------------------------------------------------------------
(* Pipes.                                                                  *)

NoPipe == [used |-> FALSE, data |-> [k \in 0 .. PIPE_SIZE - 1 |-> 0],
           head |-> 0, len |-> 0, ends |-> 0]

NoBytes == [bytes |-> 0, read |-> 0]

FreeFds == {fd \in Fds : FILES[fd].kind = "free"}

PipeEnd(p, kslot) ==
  [FreeFd EXCEPT !.kind = "pipe", !.of = p, !.len = PIPE_SIZE, !.kslot = kslot]

OneEndKept(p, r) ==
  /\ FILES' = [FILES EXCEPT ![r] = PipeEnd(p, Registered(KOBJS, "pipe", r).kslot)]
  /\ KOBJS' = Registered(KOBJS, "pipe", r).objs
  /\ UNCHANGED <<TMPFS, CACHE, DISK_DIRTY, volume, whole, stray, pipeVars>>

\* No descriptor for the second end: the first one and its object are given
\* back.
OneEndOnly(p, r) == UNCHANGED filesVars

\* fujo_pipe.
FujoPipe ==
  LET free == {p \in PipeIds : ~PIPES[p].used}
      p  == Lowest(free)
      r  == Lowest(FreeFds)
      w  == Lowest(FreeFds \ {r})
      o1 == Registered(KOBJS, "pipe", r)
      o2 == Registered(o1.objs, "pipe", w)
  IN  /\ free /= {} /\ FreeFds /= {}
      /\ IF FreeFds = {r} THEN OneEndOnly(p, r)
         ELSE /\ FILES' = [FILES EXCEPT ![r] = PipeEnd(p, o1.kslot),
                                        ![w] = PipeEnd(p, o2.kslot)]
              /\ KOBJS' = o2.objs
              /\ PIPES' = [PIPES EXCEPT ![p].used = TRUE, ![p].head = 0,
                                        ![p].len = 0, ![p].ends = 2]
              /\ sent' = [sent EXCEPT ![p] = NoBytes]
              /\ UNCHANGED <<TMPFS, CACHE, DISK_DIRTY, volume, whole, stray>>

PipeWriteAtLen(fd, n) ==
  LET p == FILES[fd].of
      q == PIPES[p]
      m == Smaller(n, PIPE_SIZE - q.len)
      Nth(k) == (k + PIPE_SIZE - q.len) % PIPE_SIZE
  IN  /\ FILES[fd].kind = "pipe" /\ sent[p].bytes + m <= MaxSent
      /\ PIPES' = [PIPES EXCEPT
           ![p].len = @ + m,
           ![p].data = [k \in DOMAIN @ |->
             IF Nth(k) < m THEN sent[p].bytes + Nth(k) ELSE @[k]]]
      /\ sent' = [sent EXCEPT ![p].bytes = @ + m]
      /\ UNCHANGED <<vfsVars, KOBJS, stray>>

\* pipe_write: as many bytes as there is room for, behind the last one.  The
\* bytes of a pipe are numbered, which tells them apart.
PipeWrite(fd, n) ==
  LET p == FILES[fd].of
      q == PIPES[p]
      m == Smaller(n, PIPE_SIZE - q.len)
      Nth(k) == (k + 2 * PIPE_SIZE - q.head - q.len) % PIPE_SIZE
  IN  /\ FILES[fd].kind = "pipe" /\ sent[p].bytes + m <= MaxSent
      /\ PIPES' = [PIPES EXCEPT
           ![p].len = @ + m,
           ![p].data = [k \in DOMAIN @ |->
             IF Nth(k) < m THEN sent[p].bytes + Nth(k) ELSE @[k]]]
      /\ sent' = [sent EXCEPT ![p].bytes = @ + m]
      /\ UNCHANGED <<vfsVars, KOBJS, stray>>

\* pipe_read: what is there, up to n bytes; nothing is not told from the end.
PipeRead(fd, n) ==
  LET p == FILES[fd].of
      k == Smaller(n, PIPES[p].len)
  IN  /\ FILES[fd].kind = "pipe"
      /\ PIPES' = [PIPES EXCEPT ![p].head = (@ + k) % PIPE_SIZE, ![p].len = @ - k]
      /\ sent' = [sent EXCEPT ![p].read = @ + k]
      /\ UNCHANGED <<vfsVars, KOBJS, stray>>

\* fujo_close on a pipe end: with its last end the pipe is free again, and
\* what is left in it is gone.
ClosePipe(fd) ==
  LET p == FILES[fd].of
  IN  /\ FILES[fd].kind = "pipe"
      /\ PIPES' = [PIPES EXCEPT ![p] =
                     IF @.ends > 1 THEN [@ EXCEPT !.ends = PIPES[p].ends - 1]
                     ELSE [NoPipe EXCEPT !.data = PIPES[p].data]]
      /\ FILES' = [FILES EXCEPT ![fd] = FreeFd]
      /\ KOBJS' = Unregistered(KOBJS, FILES[fd].kslot)
      /\ sent' = [sent EXCEPT ![p] = IF PIPES[p].ends > 1 THEN @ ELSE NoBytes]
      /\ UNCHANGED <<TMPFS, CACHE, DISK_DIRTY, volume, whole, stray>>

-----------------------------------------------------------------------------
(* Memory files.                                                           *)

\* tmpfs_find_or_create compares 16 characters and stores 15, so a long name
\* is never found again.
TmpFound(n) == {k \in TmpIds : TMPFS[k].name = n /\ n \notin LongNames}
TmpFree == {k \in TmpIds : TMPFS[k].name = NoFile}

TmpSlot(n) == IF TmpFound(n) /= {} THEN Lowest(TmpFound(n)) ELSE Lowest(TmpFree)

OpenTmp(n) ==
  LET k  == TmpSlot(n)
      fd == Lowest(FreeFds)
  IN  /\ FreeFds /= {} /\ TmpFound(n) \cup TmpFree /= {}
      /\ TMPFS' = IF TmpFound(n) /= {} THEN TMPFS
                  ELSE [TMPFS EXCEPT ![k] = [name |-> n, data |-> <<>>]]
      /\ FILES' = [FILES EXCEPT ![fd] =
           [FreeFd EXCEPT !.kind = "ram", !.of = n, !.kslot = k + 1,
                          !.len = Len(TMPFS'[k].data)]]
      /\ UNCHANGED <<pipeVars, KOBJS, CACHE, DISK_DIRTY, volume, whole, stray>>

\* file_write on a memory file appends; only this descriptor's view grows.
WriteTmp(fd, bytes) ==
  LET k == FILES[fd].kslot - 1
  IN  /\ FILES[fd].kind = "ram"
      /\ TMPFS' = [TMPFS EXCEPT ![k].data =
                     @ \o Upto(bytes, TMPFS_MAX - Len(@))]
      /\ FILES' = [FILES EXCEPT ![fd].len = Len(TMPFS'[k].data)]
      /\ UNCHANGED <<pipeVars, KOBJS, CACHE, DISK_DIRTY, volume, whole, stray>>

\* write_kernel_file: the shell replaces a file; open views keep their length.
ReplaceTmp(n, bytes) ==
  /\ TmpFound(n) \cup TmpFree /= {}
  /\ TMPFS' = [TMPFS EXCEPT ![TmpSlot(n)] =
                 [name |-> n, data |-> Upto(bytes, TMPFS_MAX)]]
  /\ UNCHANGED <<pipeVars, FILES, KOBJS, CACHE, DISK_DIRTY, volume, whole,
                 stray>>

\* next_entry lists /tmp up to the first free or empty file.
TmpListed ==
  LET empty == {k \in TmpIds : TMPFS[k].data = <<>>}
  IN  IF empty = {} THEN TMPFS_N ELSE Lowest(empty)

-----------------------------------------------------------------------------
(* Disk files.                                                             *)

OpenDiskAppends(n) ==
  LET fd == Lowest(FreeFds)
      others == {g \in Fds : FILES[g].kind = "disk"}
  IN  /\ FreeFds /= {}
      /\ CACHE' = IF volume[n] = <<>> THEN CACHE ELSE volume[n]
      /\ DISK_DIRTY' = FALSE
      /\ FILES' = [g \in Fds |->
           IF g = fd THEN [Unset(fd) EXCEPT !.kind = "disk", !.of = n,
                             !.len = Len(volume[n]), !.alone = (others = {})]
           ELSE [FILES[g] EXCEPT !.alone = FALSE]]
      /\ whole' = [whole EXCEPT ![fd] = volume[n]]
      /\ UNCHANGED <<pipeVars, KOBJS, TMPFS, volume, stray>>

\* fujo_open_name on /disk/: the buffer is loaded, and what another open disk
\* file had in it is gone.
OpenDisk(n) ==
  LET fd == Lowest(FreeFds)
      others == {g \in Fds : FILES[g].kind = "disk"}
  IN  /\ FreeFds /= {}
      /\ CACHE' = Upto(volume[n], DISK_CACHE_MAX)
      /\ DISK_DIRTY' = FALSE
      /\ FILES' = [g \in Fds |->
           IF g = fd THEN [Unset(fd) EXCEPT !.kind = "disk", !.of = n,
                             !.len = Len(CACHE'), !.alone = (others = {})]
           ELSE [FILES[g] EXCEPT !.alone = FALSE]]
      /\ whole' = [whole EXCEPT ![fd] = CACHE']
      /\ UNCHANGED <<pipeVars, KOBJS, TMPFS, volume, stray>>

\* file_write on a disk file appends to the buffer.
WriteDisk(fd, bytes) ==
  LET more == Upto(bytes, DISK_CACHE_MAX - Len(CACHE))
  IN  /\ FILES[fd].kind = "disk"
      /\ CACHE' = CACHE \o more
      /\ DISK_DIRTY' = TRUE
      /\ whole' = [whole EXCEPT ![fd] = Upto(@ \o more, DISK_CACHE_MAX)]
      /\ UNCHANGED <<pipeVars, FILES, KOBJS, TMPFS, volume, stray>>

\* fujo_close of anything but a pipe: a dirty buffer goes to the volume under
\* this descriptor's name.  write_file refuses an empty one and may fail; the
\* buffer counts as clean either way.
Close(fd) ==
  LET flush == FILES[fd].kind = "disk" /\ DISK_DIRTY
  IN  /\ FILES[fd].kind \notin {"free", "pipe"}
      /\ \/ /\ flush /\ CACHE /= <<>>
            /\ volume' = [volume EXCEPT ![FILES[fd].of] = CACHE]
         \/ UNCHANGED volume
      /\ DISK_DIRTY' = (DISK_DIRTY /\ ~flush)
      /\ FILES' = [FILES EXCEPT ![fd] = Unset(fd)]
      /\ whole' = [whole EXCEPT ![fd] = <<>>]
      /\ UNCHANGED <<pipeVars, KOBJS, TMPFS, CACHE, stray>>

-----------------------------------------------------------------------------
(* Every other descriptor, and what is the same for all.                   *)

\* Modules, libraries, container resources, generated texts and directories: a
\* view of fixed length.  (The model device, which reads from a buffer of its
\* own, is left out.)
OpenView(kind, len) ==
  /\ FreeFds /= {}
  /\ LET fd == Lowest(FreeFds)
     IN  FILES' = [FILES EXCEPT ![fd] = [Unset(fd) EXCEPT !.kind = kind, !.len = len]]
  /\ UNCHANGED <<pipeVars, KOBJS, TMPFS, CACHE, DISK_DIRTY, volume, whole,
                 stray>>

\* fujo_read through the position of the descriptor's view.
Read(fd, n) ==
  LET f == FILES[fd]
  IN  /\ f.kind \in {"ram", "disk", "view"} /\ f.len > f.pos
      /\ FILES' = [FILES EXCEPT ![fd].pos = @ + Smaller(n, f.len - f.pos)]
      /\ UNCHANGED <<pipeVars, KOBJS, TMPFS, CACHE, DISK_DIRTY, volume, whole,
                     stray>>

\* fujo_getdents on /tmp: the position counts the entries, "." and ".." first.
Getdents(fd, n) ==
  LET f == FILES[fd]
      listed == TmpListed + 2
  IN  /\ f.kind = "dir" /\ f.pos < listed
      /\ FILES' = [FILES EXCEPT ![fd].pos = @ + Smaller(n, listed - f.pos)]
      /\ UNCHANGED <<pipeVars, KOBJS, TMPFS, CACHE, DISK_DIRTY, volume, whole,
                     stray>>

\* Any descriptor, also one that is not open.
Lseek(fd, to) ==
  /\ FILES' = [FILES EXCEPT ![fd].pos = to]
  /\ UNCHANGED <<pipeVars, KOBJS, TMPFS, CACHE, DISK_DIRTY, volume, whole,
                 stray>>

FilesInit ==
  /\ FILES = [fd \in Fds |-> FreeFd]
  /\ PIPES = [p \in PipeIds |-> NoPipe]
  /\ KOBJS = [i \in ObjIds |-> NoObj]
  /\ TMPFS = [k \in TmpIds |-> IF k = 0 THEN [name |-> SeedName, data |-> Seed]
                              ELSE [name |-> NoFile, data |-> <<>>]]
  /\ CACHE = <<>> /\ DISK_DIRTY = FALSE
  /\ volume = [n \in DiskNames |-> <<>>]
  /\ sent = [p \in PipeIds |-> NoBytes]
  /\ whole = [fd \in Fds |-> <<>>]
  /\ stray = FALSE

Sizes == 1 .. 2

FilesNext ==
  \/ KobjCreate
  \/ RegisterUnowned("shm")
  \/ \E i \in ObjIds : KobjFree(i)
  \/ FujoPipe
  \/ \E fd \in Fds, b \in Chunks : WriteTmp(fd, b) \/ WriteDisk(fd, b)
  \/ \E fd \in Fds, n \in Sizes :
       PipeWrite(fd, n) \/ PipeRead(fd, n) \/ Read(fd, n) \/ Getdents(fd, n)
  \/ \E fd \in Fds : ClosePipe(fd) \/ Close(fd)
  \/ \E n \in TmpNames : OpenTmp(n)
  \/ \E n \in TmpNames, b \in Chunks : ReplaceTmp(n, b)
  \/ \E n \in DiskNames : OpenDisk(n)
  \/ OpenView("view", 1) \/ OpenView("dir", 0)
  \/ \E fd \in Fds, to \in 0 .. MaxSeek : Lseek(fd, to)

-----------------------------------------------------------------------------
FilesTypeOK ==
  /\ \A fd \in Fds :
       /\ FILES[fd].kind \in {"free", "pipe", "ram", "disk", "view", "dir"}
       /\ FILES[fd].len \in Nat /\ FILES[fd].pos \in Nat
       /\ FILES[fd].kslot \in Nat /\ FILES[fd].alone \in BOOLEAN
  /\ \A p \in PipeIds :
       /\ PIPES[p].head \in 0 .. PIPE_SIZE - 1 /\ PIPES[p].len \in 0 .. PIPE_SIZE
       /\ PIPES[p].ends \in 0 .. 2 /\ PIPES[p].used \in BOOLEAN
  /\ \A i \in ObjIds : KOBJS[i].kind \in {"none", "user", "pipe", "shm"}
  /\ \A k \in TmpIds : /\ TMPFS[k].name \in TmpNames \cup {NoFile}
                       /\ Len(TMPFS[k].data) <= TMPFS_MAX
  /\ Len(CACHE) <= DISK_CACHE_MAX /\ DISK_DIRTY \in BOOLEAN
  /\ stray \in BOOLEAN

\* A pipe is in use as long as a descriptor names it, and counts them: no
\* descriptor outlives its pipe and no pipe its descriptors, also when the
\* table is full in the middle of fujo_pipe.
PipesCountEnds ==
  \A p \in PipeIds :
    LET ends == {fd \in Fds : FILES[fd].kind = "pipe" /\ FILES[fd].of = p}
    IN  PIPES[p].ends = Cardinality(ends) /\ PIPES[p].used = (ends /= {})

\* The ring of a pipe holds what was written and not yet read, in order, over
\* any number of turns.
PipeIsQueue ==
  \A p \in PipeIds :
    LET q == PIPES[p]
    IN  q.used => /\ q.len = sent[p].bytes - sent[p].read
                  /\ \A i \in 0 .. q.len - 1 :
                       q.data[(q.head + i) % PIPE_SIZE] = sent[p].read + i

\* The objects that fujo_pipe registered, which 0x5132 and the leak counters
\* count, are those of the open pipe ends, one for one, as long as programs free
\* only objects they made.
PipeObjectsExact ==
  ~stray =>
    /\ \A fd \in Fds : FILES[fd].kind = "pipe" /\ FILES[fd].kslot /= 0 =>
         KOBJS[FILES[fd].kslot - 1] = [kind |-> "pipe", payload |-> fd]
    /\ \A i \in ObjIds : KOBJS[i].kind = "pipe" =>
         /\ FILES[KOBJS[i].payload].kind = "pipe"
         /\ FILES[KOBJS[i].payload].kslot = i + 1

\* The buffer holds what an open disk file was opened with and what was
\* appended to it since, and knows when the volume has something else, as long
\* as no second disk file is opened meanwhile.
DiskBufferIsOwn ==
  \A fd \in Fds : FILES[fd].kind = "disk" /\ FILES[fd].alone =>
    /\ CACHE = whole[fd]
    /\ DISK_DIRTY \/ CACHE = volume[FILES[fd].of]
=============================================================================

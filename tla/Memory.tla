------------------------------- MODULE Memory -------------------------------
(***************************************************************************)
(* Physical frames and address spaces of kernel/src/mem.rs.  The frame     *)
(* pool is a bitmap; the pages of the user heap are mapped one by one as   *)
(* they are touched, from the page tables of the running task (space 0 is  *)
(* the static pair PT_HEAP0/1 of the system, every other space belongs to  *)
(* a task made by fork or spawn).  Two pages are pinned to fixed memory,   *)
(* and a region of the heap may stand for the weights of a model.          *)
(***************************************************************************)
EXTENDS Integers, FiniteSets, Sequences

CONSTANTS FRAME_PAGES, \* frames of the pool (28672)
          WINDOW,      \* frames under the window programs' region (512)
          AS_TABLES,   \* frames of a new address space (5)
          BootFrames,  \* how many frames drivers may have taken at boot
          SPACES,      \* bound on the spaces ever made
          Pages,       \* pages of the user heap
          ShmPage, BoxPage,     \* the pinned ones
          Stamps,    \* what programs write into a page
          WMAP_MAX,    \* registered weight regions (2)
          PAGE, HEAP_LEN, WORD, \* bytes: a page, the heap, 2^64
          Lens         \* lengths mmap is asked for

ASSUME MemoryAssumption ==
  /\ FRAME_PAGES \in Nat /\ WINDOW \in 0 .. FRAME_PAGES
  /\ AS_TABLES \in Nat \ {0} /\ BootFrames \subseteq 0 .. FRAME_PAGES
  /\ SPACES \in Nat /\ Pages \subseteq Nat /\ {ShmPage, BoxPage} \subseteq Pages
  /\ IsFiniteSet(Pages) /\ \A p, q \in Pages : p .. q \subseteq Pages
  /\ WMAP_MAX \in Nat /\ PAGE \in Nat \ {0} /\ HEAP_LEN \in Nat
  /\ WORD \in Nat /\ WORD > HEAP_LEN /\ Lens \subseteq 0 .. WORD - 1

VARIABLES
  FRAME_BITMAP, \* the frames taken
  mem,          \* what frames hold
  PT,           \* the heap page tables of every space
  tables,       \* the frames its page tables are in
  spaces,       \* spaces 0 .. spaces - 1 exist
  kernel,       \* frames drivers and exec_mem took, never given back
  HIGH_MAPPED,  \* the window region is mapped and its frames are reserved
  WMAP,         \* the weight regions: [va, len], in pages
  WLIB,         \* the weights, page by page
  overlaid,     \* history: the window region was mapped over frames in use
  view,         \* history: what every space last saw in its pages
  short,        \* history: spaces that fork copied only in part, and theirs
  unpinned,     \* history: spaces that gave up a pinned page
  orphans       \* history: frames taken that nothing refers to

frameVars == <<FRAME_BITMAP, mem, PT, tables, spaces, kernel, HIGH_MAPPED,
               overlaid, WMAP, WLIB, view, short, unpinned, orphans>>

Frames == 0 .. FRAME_PAGES - 1
Window == 0 .. WINDOW - 1
Spaces == 0 .. SPACES
Live   == 0 .. spaces - 1
Zero   == "zero"
Image  == "image"     \* the program loaded into the window region
Stale  == "stale"     \* whatever is in a frame that nobody has

\* What a page table says besides a frame of the pool: nothing, or one of the
\* two pinned addresses below the pool.
Unmapped == -1
Shm == -2
Box == -3

-----------------------------------------------------------------------------
(* The frame pool.                                                         *)

FreeFrames == Frames \ FRAME_BITMAP

NthUnmarked(S, k) == CHOOSE x \in S : \A y \in S : x <= y
Nth(S, k) == CHOOSE x \in S : Cardinality({y \in S : y < x}) = k
LowestOf(S, n) == {x \in S : Cardinality({y \in S : y < x}) < n}

FreeRunsByFirst(n) == {i \in Frames : i + n <= FRAME_PAGES /\ i \in FreeFrames}

\* alloc_frames_kernel: the first n frames in a row that are free.
FreeRuns(n) == {i \in Frames : i + n <= FRAME_PAGES
                               /\ \A j \in i .. i + n - 1 : j \in FreeFrames}
FirstFreeRun(n) ==
  LET i == CHOOSE i \in FreeRuns(n) : \A j \in FreeRuns(n) : i <= j IN i .. i + n - 1

\* Frames are handed out full of zeros.
Zeroed(m, S) == [f \in DOMAIN m |-> IF f \in S THEN Zero ELSE m[f]]

\* Drivers and exec_mem, none of which ever gives a frame back.
KernelAlloc(n) ==
  /\ FreeRuns(n) /= {}
  /\ FRAME_BITMAP' = FRAME_BITMAP \cup FirstFreeRun(n)
  /\ mem' = Zeroed(mem, FirstFreeRun(n))
  /\ kernel' = kernel \cup FirstFreeRun(n)
  /\ UNCHANGED <<PT, tables, spaces, HIGH_MAPPED, overlaid, WMAP, WLIB, view,
                 short, unpinned, orphans>>

\* Who refers to a frame: a page of a space, the tables of one, a driver.
HeapFrames(s) == {PT[s][p] : p \in Pages} \cap Frames
Owned == (UNION {HeapFrames(s) \cup tables[s] : s \in Live}) \cup kernel

\* launch_program: the first one maps the window region and marks its frames
\* as taken, whoever has them by then; the image goes into them.
MapHighUser ==
  /\ FRAME_BITMAP' = IF HIGH_MAPPED THEN FRAME_BITMAP
                     ELSE FRAME_BITMAP \cup Window
  /\ HIGH_MAPPED' = TRUE
  /\ overlaid' = (overlaid \/ (~HIGH_MAPPED /\ Owned \cap Window /= {}))
  /\ mem' = [f \in DOMAIN mem |-> IF f \in Window THEN Image ELSE mem[f]]
  /\ UNCHANGED <<PT, tables, spaces, kernel, WMAP, WLIB, view, short,
                 unpinned, orphans>>

-----------------------------------------------------------------------------
(* Address spaces.                                                         *)

FreshTable == [p \in Pages |-> IF p = ShmPage THEN Shm
                               ELSE IF p = BoxPage THEN Box ELSE Unmapped]

\* What a page shows that nobody has written to.
FreshView == [p \in Pages |-> Zero]

\* as_create for a task that shares nothing but the pinned pages.  Short of
\* frames, those already taken are gone.
AsCreate ==
  /\ spaces <= SPACES
  /\ LET got == LowestOf(FreeFrames, AS_TABLES)
     IN  /\ FRAME_BITMAP' = FRAME_BITMAP \cup got
         /\ mem' = Zeroed(mem, got)
         /\ IF Cardinality(got) = AS_TABLES
            THEN /\ tables' = [tables EXCEPT ![spaces] = got]
                 /\ PT' = [PT EXCEPT ![spaces] = FreshTable]
                 /\ spaces' = spaces + 1
                 /\ UNCHANGED orphans
            ELSE /\ orphans' = orphans \cup got
                 /\ UNCHANGED <<tables, PT, spaces>>
  /\ UNCHANGED <<kernel, HIGH_MAPPED, overlaid, WMAP, WLIB, view, short,
                 unpinned>>

\* as_copy_heap: every mapped page but the shared one gets a frame of its own,
\* in the order of the pages; those that get none are left out silently.
Held(f) == IF f = Box THEN Zero ELSE mem[f]

CopyHeap(s, c, pool) ==
  LET copied == {p \in Pages : PT[s][p] \notin {Unmapped, Shm}}
      rank(p) == Cardinality({q \in copied : q < p})
      served == {p \in copied : rank(p) < Cardinality(pool)}
      frame(p) == Nth(pool, rank(p))
  IN  /\ PT' = [PT EXCEPT ![c] = [p \in Pages |->
                  IF p \in served THEN frame(p)
                  ELSE IF PT[s][p] = Shm THEN Shm ELSE FreshTable[p]]]
      /\ mem' = [f \in DOMAIN mem |->
                  IF \E p \in served : f = frame(p)
                  THEN Held(PT[s][CHOOSE p \in served : f = frame(p)])
                  ELSE mem[f]]
      /\ FRAME_BITMAP' = FRAME_BITMAP \cup {frame(p) : p \in served}
                         \cup tables'[c]
      /\ short' = IF served = copied /\ s \notin short THEN short
                  ELSE short \cup {c}

Fork(s) ==
  /\ spaces <= SPACES
  /\ Cardinality(FreeFrames) >= AS_TABLES
  /\ tables' = [tables EXCEPT ![spaces] = LowestOf(FreeFrames, AS_TABLES)]
  /\ spaces' = spaces + 1
  /\ CopyHeap(s, spaces, FreeFrames \ tables'[spaces])
  /\ view' = [view EXCEPT ![spaces] = view[s]]
  /\ UNCHANGED <<kernel, HIGH_MAPPED, overlaid, WMAP, WLIB, unpinned, orphans>>

\* fujo_munmap of the pages lo .. hi.  The pinned pages have no frame in the
\* pool, but they are unmapped like the others.
Munmap(s, lo, hi) ==
  LET gone == {p \in lo .. hi : PT[s][p] /= Unmapped}
  IN  /\ PT' = [PT EXCEPT ![s] = [p \in Pages |->
                  IF p \in gone THEN Unmapped ELSE PT[s][p]]]
      /\ FRAME_BITMAP' = FRAME_BITMAP \ {PT[s][p] : p \in gone}
      /\ view' = [view EXCEPT ![s] = [p \in Pages |->
                  IF p \in gone THEN Zero ELSE view[s][p]]]
      /\ unpinned' = IF gone \cap {ShmPage, BoxPage} = {} THEN unpinned
                     ELSE unpinned \cup {s}
      /\ mem' = [f \in DOMAIN mem |->
                  IF f \in {PT[s][p] : p \in gone} \cap Frames THEN Stale
                  ELSE mem[f]]
      /\ UNCHANGED <<tables, spaces, kernel, HIGH_MAPPED, overlaid, WMAP,
                     WLIB, short, orphans>>

-----------------------------------------------------------------------------
(* Page faults.                                                            *)

\* The weight region page p of any space falls into: the first that has it.
Weighs(p) == \E i \in 1 .. Len(WMAP) :
               WMAP[i].va <= p /\ p < WMAP[i].va + WMAP[i].len
RegionOf(p) ==
  WMAP[CHOOSE i \in 1 .. Len(WMAP) :
         /\ WMAP[i].va <= p /\ p < WMAP[i].va + WMAP[i].len
         /\ \A j \in 1 .. i - 1 :
              ~(WMAP[j].va <= p /\ p < WMAP[j].va + WMAP[j].len)]

\* What wmap_fault copies: page_no counts bytes and is scaled once more, so
\* that only the first page of a region is found where the weights are.
LoadedFrom(p) ==
  IF p = RegionOf(p).va /\ WLIB /= <<>> THEN {WLIB[1]} ELSE Stamps

FilledAsFound(s, p, f, v) ==
  /\ FRAME_BITMAP' = FRAME_BITMAP \cup {f}
  /\ PT' = [PT EXCEPT ![s][p] = f]
  /\ mem' = IF v = Zero THEN mem ELSE [mem EXCEPT ![f] = v]

Filled(s, p, f, v) ==
  /\ FRAME_BITMAP' = FRAME_BITMAP \cup {f}
  /\ PT' = [PT EXCEPT ![s][p] = f]
  /\ mem' = [mem EXCEPT ![f] = v]

\* A program of space s touches a page that is not there.  Without a frame
\* its task is terminated, which the scheduler's model covers.
PageFault(s, p) ==
  /\ PT[s][p] = Unmapped
  /\ FreeFrames /= {}
  /\ LET f == Nth(FreeFrames, 0)
     IN  IF Weighs(p)
         THEN \E v \in LoadedFrom(p) :
                Filled(s, p, f, v) /\ view' = [view EXCEPT ![s][p] = v]
         ELSE Filled(s, p, f, Zero) /\ UNCHANGED view
  /\ UNCHANGED <<tables, spaces, kernel, HIGH_MAPPED, overlaid, WMAP, WLIB,
                 short, unpinned, orphans>>

\* The program writes to a page of its own; what the pinned pages hold is not
\* followed.
Store(s, p, v) ==
  /\ PT[s][p] \in Frames
  /\ mem' = [mem EXCEPT ![PT[s][p]] = v]
  /\ view' = [view EXCEPT ![s][p] = v]
  /\ UNCHANGED <<FRAME_BITMAP, PT, tables, spaces, kernel, HIGH_MAPPED,
                 overlaid, WMAP, WLIB, short, unpinned, orphans>>

\* 0x7C01 and 0x7C02.  A region outlives its pages and is the same for every
\* space.
WmapLoad(w) ==
  /\ WLIB' = w
  /\ UNCHANGED <<FRAME_BITMAP, mem, PT, tables, spaces, kernel, HIGH_MAPPED,
                 overlaid, WMAP, view, short, unpinned, orphans>>

WmapRes(va, len) ==
  /\ {va, va + len - 1} \subseteq Pages
  /\ len <= Len(WLIB) /\ Len(WMAP) < WMAP_MAX
  /\ WMAP' = Append(WMAP, [va |-> va, len |-> len])
  /\ UNCHANGED <<FRAME_BITMAP, mem, PT, tables, spaces, kernel, HIGH_MAPPED,
                 overlaid, WLIB, view, short, unpinned, orphans>>

FrameInit ==
  /\ \E n \in BootFrames :
       FRAME_BITMAP = 0 .. n - 1 /\ kernel = 0 .. n - 1
  /\ mem = [f \in Frames |-> IF f \in FRAME_BITMAP THEN Zero ELSE Stale]
  /\ PT = [s \in Spaces |-> FreshTable]
  /\ tables = [s \in Spaces |-> {}] /\ spaces = 1
  /\ HIGH_MAPPED = FALSE /\ overlaid = FALSE /\ WMAP = <<>> /\ WLIB = <<>>
  /\ view = [s \in Spaces |-> FreshView]
  /\ short = {} /\ unpinned = {} /\ orphans = {}

FrameNext ==
  \/ \E n \in 1 .. 2 : KernelAlloc(n)
  \/ MapHighUser
  \/ AsCreate
  \/ \E s \in Live : Fork(s)
  \/ \E s \in Live, lo, hi \in Pages : lo <= hi /\ Munmap(s, lo, hi)
  \/ \E s \in Live, p \in Pages : PageFault(s, p)
  \/ \E s \in Live, p \in Pages, v \in Stamps : Store(s, p, v)
  \/ \E v \in Stamps : WmapLoad(<<v>>)
  \/ \E va \in Pages, len \in 1 .. 2 : WmapRes(va, len)

-----------------------------------------------------------------------------
(* fujo_brk and fujo_mmap: one pointer for all spaces, in bytes from the    *)
(* start of the heap, with the arithmetic of the machine.                  *)

VARIABLES HEAP_BRK,
          regions,   \* history: what mmap has granted: base, end, asked
          wrapped    \* history: a sum of mmap left the machine's word

heapVars == <<HEAP_BRK, regions, wrapped>>

PageRound(x) == (((x + PAGE - 1) % WORD) \div PAGE) * PAGE

BrkUnbounded(ptr) ==
  /\ ptr > HEAP_BRK
  /\ HEAP_BRK' = ptr + 1
  /\ UNCHANGED <<regions, wrapped>>

\* The program moves its break; a break below the current one is reported as
\* set and changes nothing.
Brk(ptr) ==
  /\ ptr > HEAP_BRK /\ ptr <= HEAP_LEN
  /\ HEAP_BRK' = ptr
  /\ UNCHANGED <<regions, wrapped>>

MmapUnrounded(len) ==
  /\ HEAP_BRK + len <= HEAP_LEN
  /\ HEAP_BRK' = HEAP_BRK + len
  /\ regions' = regions \cup
       {[base |-> HEAP_BRK, end |-> HEAP_BRK + PageRound(len), asked |-> len]}
  /\ UNCHANGED wrapped

Mmap(len) ==
  LET need == PageRound(len)
      end  == (HEAP_BRK + need) % WORD
  IN  /\ end <= HEAP_LEN
      /\ HEAP_BRK' = end
      /\ regions' = regions \cup
           {[base |-> HEAP_BRK, end |-> end, asked |-> len]}
      /\ wrapped' = (wrapped \/ len + PAGE - 1 >= WORD
                             \/ HEAP_BRK + need >= WORD)

HeapInit == HEAP_BRK = 0 /\ regions = {} /\ wrapped = FALSE

HeapNext == \/ \E ptr \in 1 .. HEAP_LEN : Brk(ptr)
            \/ \E len \in Lens : Mmap(len)

-----------------------------------------------------------------------------
MemTypeOK ==
  /\ FRAME_BITMAP \subseteq Frames /\ spaces \in 1 .. SPACES + 1
  /\ \A s \in Spaces : tables[s] \subseteq Frames
  /\ \A s \in Spaces, p \in Pages :
       PT[s][p] \in Frames \cup {Shm, Box, Unmapped}
  /\ kernel \subseteq Frames /\ orphans \subseteq Frames
  /\ HEAP_BRK \in 0 .. HEAP_LEN

\* Through forks that copy, faults that fill and munmap that gives back, the
\* bitmap says exactly which frames somebody refers to, and no frame is
\* referred to twice: not by two pages, two spaces, a page and a page table or
\* a task and a driver, unless the window region came over frames in use.
FramesAccounted ==
  \/ overlaid
  \/ /\ FRAME_BITMAP = Owned \cup orphans \cup (IF HIGH_MAPPED THEN Window ELSE {})
     /\ \A s \in Live, p \in Pages : PT[s][p] \in Frames =>
          \A t \in Live, q \in Pages : PT[s][p] = PT[t][q] => <<s, p>> = <<t, q>>
     /\ \A s, t \in Live :
          /\ HeapFrames(s) \cap (tables[t] \cup kernel) = {}
          /\ tables[s] \cap kernel = {}
          /\ s /= t => tables[s] \cap tables[t] = {}

\* A private page holds what its own space put there (or its parent, before
\* the fork), and a page that is not mapped is one that reads as zeros.  The
\* spaces that fork ran out of frames for are excluded, and those forked from
\* them: they silently miss pages.
SpacesIsolated ==
  \/ overlaid
  \/ \A s \in Live \ short, p \in Pages :
       /\ PT[s][p] \in Frames => mem[PT[s][p]] = view[s][p]
       /\ PT[s][p] = Unmapped => view[s][p] = Zero

\* Every task reaches the memory it shares with the host at its fixed page,
\* unless it or a parent before it has unmapped that page.  (The box page has
\* no such promise: fork copies it.)
SharedPageReached ==
  \A s \in Live : unpinned = {} => PT[s][ShmPage] = Shm

\* What mmap grants never overlaps what it has granted before and is as long
\* as asked, as long as no sum has left the machine's word.
MmapRegionsDisjoint ==
  \/ wrapped
  \/ /\ \A r, q \in regions : r = q \/ r.end <= q.base \/ q.end <= r.base
     /\ \A r \in regions : r.end - r.base >= r.asked
=============================================================================

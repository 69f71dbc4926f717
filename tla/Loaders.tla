------------------------------ MODULE Loaders ------------------------------
(***************************************************************************)
(* Programs on their way into memory: the .run container as fujopack       *)
(* writes it (fujopack/src/main.rs, fujo-compat/src/run.rs) and the kernel *)
(* mounts it (kernel/src/fujr.rs), and the loaders of the three formats    *)
(* (elf_loader.rs, pe_loader.rs, macho_loader.rs).  Every load is one      *)
(* step; memory and mounted resources stay from one load to the next.      *)
(* A byte is a number.  The hash of a section is its content: FNV-1a is    *)
(* taken to tell the contents of the model apart.                          *)
(***************************************************************************)
EXTENDS Integers, Sequences, FiniteSets, FiniteSetsExt

CONSTANTS HEADER, ENTRY, ALIGN,  \* bytes of header and table entry; 4096
          MAX_RES, RES_MAX,      \* resources (8) and bytes of each (16384)
          Kept,                  \* names |-> what 15 characters keep of them
          Containers,            \* what is packed: an icon or none, program, resources
          MEM,                   \* bytes of memory a program may be loaded to
          LOWEST, RUNTIME_BASE,  \* 0x100000, 0x400000
          MACHO_BASE,            \* 0x100000000
          SHIM_PAGE, SHIM_TABLE, \* where the trampolines lie; their imports
          SHIM_DATA,             \* imported data |-> its cell
          ATOF_TRAMP,            \* the trampoline of msvcrt's atof
          MAX_DLLS, MAX_IMPORTS, \* descriptors (64), and imports of each (256)
          ElfFiles, PeFiles, MachFiles   \* programs that are loaded

Segment == [type : STRING, off : Nat, filesz : Nat, vaddr : Nat, memsz : Nat]

ASSUME LoadersAssumption ==
  /\ {HEADER, ENTRY, MAX_RES, RES_MAX, LOWEST, RUNTIME_BASE, MACHO_BASE, SHIM_PAGE,
      MAX_DLLS, MAX_IMPORTS} \subseteq Nat
  /\ ALIGN \in Nat \ {0} /\ MEM \in Nat \ {0}
  /\ RUNTIME_BASE <= MACHO_BASE
  /\ SHIM_TABLE \in Seq(STRING)

\* Bytes and names are numbers; every name that is packed has a kept form.
ASSUME PackedAssumption ==
  /\ DOMAIN Kept \subseteq Nat
  /\ \A c \in Containers :
       /\ c.icon \in BOOLEAN /\ c.prog \in Seq(Nat)
       /\ c.resources \in Seq([name : DOMAIN Kept, data : Seq(Nat)])

\* A section of a PE file has no memory behind its bytes: load_pe does not look
\* at its virtual size.  An import names the descriptor it belongs to; they lie
\* in the order of their descriptors, which are numbered from 1.
ASSUME ImageAssumption ==
  /\ \A f \in ElfFiles \cup PeFiles \cup MachFiles :
       f.segs \in Seq(Segment) /\ f.buf \in Seq(Nat)
  /\ \A f \in ElfFiles : f.entry \in Nat
  /\ \A f \in PeFiles :
       /\ f.imports \in Seq([dll : Nat, name : STRING, slot : Nat])
       /\ \A j, k \in DOMAIN f.imports : j <= k => f.imports[j].dll <= f.imports[k].dll
       /\ \A k \in DOMAIN f.segs : f.segs[k].memsz = f.segs[k].filesz

VARIABLES
  file,     \* the container, or an empty file
  packed,   \* history: what it was made of
  intact,   \* history: nobody changed it since
  RES,      \* RES_NAMES and RES_DATA up to RES_COUNT
  exec,     \* the program the last mount handed to the loaders
  mountedOf,\* history: what the mounted container was made of
  user,     \* user memory
  loaded    \* the program loaded last, if loading it succeeded, and its entry

containerVars == <<file, packed, intact, RES, exec, mountedOf>>
loadVars == <<user, loaded>>
loaderVars == <<containerVars, loadVars>>

Shorter(a, b) == IF a < b THEN a ELSE b
Part(s, from, n) == SubSeq(s, from + 1, from + n)   \* n bytes from an offset

-----------------------------------------------------------------------------
(* Writing a container.                                                    *)

\* fujopack: manifest, icon, program, resources.  The manifest is the list of
\* the resources' names.
Parts(c) ==
  <<[tag |-> "MANIFEST", data |-> [k \in DOMAIN c.resources |-> c.resources[k].name]]>>
  \o (IF c.icon THEN <<[tag |-> "ICON", data |-> <<1>>]>> ELSE <<>>)
  \o <<[tag |-> "EMBED", data |-> c.prog]>>
  \o [k \in DOMAIN c.resources |-> [tag |-> "DATA", data |-> c.resources[k].data]]

Padded(s) ==
  LET over == Len(s) % ALIGN
  IN  IF over = 0 THEN s ELSE s \o [i \in 1 .. ALIGN - over |-> 0]

\* write_run: every part is followed by padding, so the first one starts where
\* the table ends and the others at multiples of ALIGN.
WriteRunUnpadded(parts) ==
  LET n == Len(parts)
      out[k \in 0 .. n] ==
        IF k = 0 THEN [i \in 1 .. HEADER + ENTRY * n |-> 0]
        ELSE Padded(out[k - 1] \o parts[k].data)
  IN  [bytes |-> out[n], total |-> Len(out[n]),
       table |-> [k \in 1 .. n |->
                    [tag |-> parts[k].tag, hash |-> parts[k].data,
                     off |-> (HEADER + ENTRY * n) + (k - 1) * ALIGN,
                     size |-> Len(parts[k].data)]]]

WriteRun(parts) ==
  LET n == Len(parts)
      out[k \in 0 .. n] ==
        IF k = 0 THEN [i \in 1 .. HEADER + ENTRY * n |-> 0]
        ELSE Padded(out[k - 1] \o parts[k].data)
  IN  [bytes |-> out[n], total |-> Len(out[n]),
       table |-> [k \in 1 .. n |->
                    [tag |-> parts[k].tag, hash |-> parts[k].data,
                     off |-> Len(out[k - 1]), size |-> Len(parts[k].data)]]]

NoContainer == [bytes |-> <<>>, total |-> 0, table |-> <<>>]

-----------------------------------------------------------------------------
(* Reading it.                                                             *)

TableEnd(f) == HEADER + ENTRY * Len(f.table)
InBounds(f, s) == s.off + s.size <= Len(f.bytes)
Content(f, s) == Part(f.bytes, s.off, s.size)
Sound(f, s) == InBounds(f, s) /\ Content(f, s) = s.hash

\* read_run, on the host.
ReadRun(f) ==
  /\ f.total = Len(f.bytes) /\ Len(f.bytes) >= TableEnd(f)
  /\ \A k \in DOMAIN f.table : f.table[k].off >= TableEnd(f) /\ Sound(f, f.table[k])

\* fujr::load, in the kernel.  Of several programs the last one counts, of the
\* data sections the first MAX_RES.
Tagged(f, tag) == {k \in DOMAIN f.table : f.table[k].tag = tag}
LastSection(f, tag) == f.table[Max(Tagged(f, tag))]
DataSection(f, k) ==
  f.table[CHOOSE i \in Tagged(f, "DATA") :
            Cardinality({j \in Tagged(f, "DATA") : j <= i}) = k]

Accepts(f) ==
  /\ Len(f.bytes) >= HEADER /\ Len(f.bytes) >= TableEnd(f)
  /\ \A k \in DOMAIN f.table : Sound(f, f.table[k])
  /\ Tagged(f, "EMBED") /= {}

ExecOf(f) == Content(f, LastSection(f, "EMBED"))

\* The names come from the manifest in their order, cut to 15 characters, and
\* are paired with the data sections in theirs; the sections' numbers in the
\* manifest are not read.
NamesOf(f) ==
  LET all == Content(f, LastSection(f, "MANIFEST"))
  IN  [k \in 1 .. Shorter(Len(all), MAX_RES) |-> Kept[all[k]]]

ResourcesOf(f) ==
  LET n == Shorter(Shorter(Cardinality(Tagged(f, "DATA")), MAX_RES), Len(NamesOf(f)))
  IN  [k \in 1 .. n |->
         [name |-> NamesOf(f)[k],
          data |-> Part(Content(f, DataSection(f, k)), 0,
                        Shorter(DataSection(f, k).size, RES_MAX))]]

\* resource(name), for /runres: the first of that name that is not empty.
Resource(name) ==
  LET found == {k \in DOMAIN RES : RES[k].name = Kept[name] /\ RES[k].data /= <<>>}
  IN  IF found = {} THEN <<>> ELSE RES[Min(found)].data

-----------------------------------------------------------------------------
(* Steps on containers.                                                    *)

Pack(c) ==
  /\ file' = WriteRun(Parts(c)) /\ packed' = c /\ intact' = TRUE
  /\ UNCHANGED <<RES, exec, mountedOf, loadVars>>

\* On the way a byte behind the table changes, or the end is lost.
DamageByte(i) ==
  /\ intact /\ i \in TableEnd(file) + 1 .. Len(file.bytes)
  /\ file' = [file EXCEPT !.bytes[i] = @ + 50] /\ intact' = FALSE
  /\ UNCHANGED <<packed, RES, exec, mountedOf, loadVars>>

Truncate(n) ==
  /\ intact /\ n \in TableEnd(file) .. Len(file.bytes) - 1
  /\ file' = [file EXCEPT !.bytes = Part(@, 0, n)] /\ intact' = FALSE
  /\ UNCHANGED <<packed, RES, exec, mountedOf, loadVars>>

\* A container that is refused leaves what the last one mounted; so does one
\* whose manifest names nothing, since an empty manifest is not looked at.
Mount ==
  /\ file /= NoContainer
  /\ IF ~Accepts(file) THEN UNCHANGED <<RES, exec, mountedOf>>
     ELSE /\ exec' = ExecOf(file)
          /\ IF LastSection(file, "MANIFEST").size = 0
             THEN UNCHANGED <<RES, mountedOf>>
             ELSE RES' = ResourcesOf(file) /\ mountedOf' = packed
  /\ UNCHANGED <<file, packed, intact, loadVars>>

ContainerInit ==
  /\ file = NoContainer /\ intact = FALSE /\ RES = <<>> /\ exec = <<>>
  /\ packed = [icon |-> FALSE, prog |-> <<>>, resources |-> <<>>] /\ mountedOf = packed

ContainerNext ==
  \/ \E c \in Containers : Pack(c)
  \/ \E i \in 1 .. Len(file.bytes) : DamageByte(i)
  \/ \E n \in 0 .. Len(file.bytes) - 1 : Truncate(n)
  \/ Mount

-----------------------------------------------------------------------------
(* Loading a program.  A segment is its bytes in the file and the memory it *)
(* is given: filesz bytes are copied to vaddr, the rest of memsz is zeroed. *)

PlacedNoBss(m, buf, s, at) ==
  [a \in DOMAIN m |-> IF a \in at .. at + s.filesz - 1 THEN buf[s.off + (a - at) + 1] ELSE m[a]]

Placed(m, buf, s, at) ==
  [a \in DOMAIN m |->
     IF a \in at .. at + s.filesz - 1 THEN buf[s.off + (a - at) + 1]
     ELSE IF a \in at + s.filesz .. at + s.memsz - 1 THEN 0 ELSE m[a]]

\* The segments of f whose numbers are in K, one after the other.
Laid(m, f, K, shift) ==
  LET n == Len(f.segs)
      mem[k \in 0 .. n] ==
        IF k = 0 THEN m
        ELSE IF k \in K THEN Placed(mem[k - 1], f.buf, f.segs[k], f.segs[k].vaddr + shift)
        ELSE mem[k - 1]
  IN  mem[n]

Overruns(f, s) == s.off + s.filesz > Len(f.buf)

\* The segments up to the first that overruns the file: the earlier ones have
\* been copied when the loader gives up.
Reached(f, K) == {k \in K : \A j \in K : j <= k => ~Overruns(f, f.segs[j])}

Of(f, types) == {k \in DOMAIN f.segs : f.segs[k].type \in types}
Loads(f) == Of(f, {"LOAD"})

\* load_elf: segments of no size and below LOWEST are passed over.
LoadElf(f) ==
  /\ user' = Laid(user, f, {k \in Reached(f, Loads(f)) :
                             f.segs[k].memsz /= 0 /\ f.segs[k].vaddr >= LOWEST}, 0)
  /\ loaded' = [format |-> "elf", program |-> f, entry |-> f.entry,
                ok |-> Reached(f, Loads(f)) = Loads(f)]
  /\ UNCHANGED containerVars

\* load_elf_rebase moves the lowest segment to RUNTIME_BASE, unless it lies
\* above; a segment that overruns the file is passed over without an error.
Delta(f) ==
  LET least == Min({f.segs[k].vaddr : k \in Loads(f)})
  IN  IF least > RUNTIME_BASE THEN 0 ELSE RUNTIME_BASE - least

LoadElfRebase(f) ==
  /\ IF Loads(f) = {} THEN UNCHANGED user
     ELSE user' = Laid(user, f, {k \in Loads(f) :
                                  f.segs[k].memsz /= 0 /\ ~Overruns(f, f.segs[k])}, Delta(f))
  /\ loaded' = [format |-> "rebased", program |-> f, ok |-> Loads(f) /= {},
                entry |-> IF Loads(f) = {} THEN 0 ELSE f.entry + Delta(f)]
  /\ UNCHANGED containerVars

\* shim_resolve and shim_addr: the first entry of that name has the slot.  A
\* name stands for module and function; atof, which returns its number in a
\* floating-point register, has a trampoline outside the page.
ShimSlots(name) == {k \in DOMAIN SHIM_TABLE : SHIM_TABLE[k] = name}
Resolves(name) == ShimSlots(name) /= {} \/ name \in DOMAIN SHIM_DATA
ShimOf(name) ==
  IF ShimSlots(name) = {} THEN SHIM_DATA[name]
  ELSE IF name = "atof" THEN ATOF_TRAMP ELSE SHIM_PAGE + Min(ShimSlots(name)) - 1

\* The imports that load_pe comes to: the first MAX_IMPORTS of each of the first
\* MAX_DLLS descriptors.  The others are left as they are, without an error.
NumberInDll(f, k) == Cardinality({j \in 1 .. k : f.imports[j].dll = f.imports[k].dll})
Scanned(f) ==
  {k \in DOMAIN f.imports : f.imports[k].dll <= MAX_DLLS /\ NumberInDll(f, k) <= MAX_IMPORTS}

\* These are bound in turn up to the first that nothing answers; of two with
\* one slot the later one stays.
BindableAll(f) == {k \in DOMAIN f.imports : \A j \in 1 .. k : Resolves(f.imports[j].name)}
Bindable(f) ==
  {k \in Scanned(f) : \A j \in Scanned(f) : j <= k => Resolves(f.imports[j].name)}
Bound(m, f) ==
  [a \in DOMAIN m |->
     LET here == {k \in Bindable(f) : f.imports[k].slot = a}
     IN  IF here = {} THEN m[a] ELSE ShimOf(f.imports[Max(here)].name)]

\* The sections are copied as far as the file goes (memsz = filesz), then the
\* imports are bound.
LoadPe(f) ==
  LET reached == Reached(f, DOMAIN f.segs)
      copied == Laid(user, f, reached, 0)
      whole == reached = DOMAIN f.segs
  IN  /\ user' = IF whole THEN Bound(copied, f) ELSE copied
      /\ loaded' = [format |-> "pe", program |-> f, entry |-> f.entry,
                    ok |-> whole /\ Scanned(f) \subseteq Bindable(f)]
      /\ UNCHANGED containerVars

\* load_macho: every command in turn.  Segments move with rloc, those without
\* bytes in the file are passed over, memory and all.  The entry is that of the
\* last thread command, or else that of the last LC_MAIN, counted from the last
\* __TEXT.
Rloc(v) == RUNTIME_BASE + (v - MACHO_BASE)
LastCommand(f, type) == f.segs[Max(Of(f, {type}))]

MachEntryFromStart(f) ==
  IF Of(f, {"THREAD"}) /= {} THEN Rloc(LastCommand(f, "THREAD").vaddr)
  ELSE Rloc(LastCommand(f, "TEXT").vaddr + LastCommand(f, "MAIN").off)

MachEntry(f) ==
  LET text == LastCommand(f, "TEXT")
  IN  IF Of(f, {"THREAD"}) /= {} THEN Rloc(LastCommand(f, "THREAD").vaddr)
      ELSE Rloc(text.vaddr + (LastCommand(f, "MAIN").off - text.off))

MachSegs(f) == Of(f, {"TEXT", "SEGMENT"})
HasEntry(f) ==
  \/ Of(f, {"THREAD"}) /= {}
  \/ /\ Of(f, {"MAIN"}) /= {} /\ LastCommand(f, "MAIN").off /= 0
     /\ Of(f, {"TEXT"}) /= {} /\ LastCommand(f, "TEXT").vaddr /= 0

LoadMacho(f) ==
  LET reached == Reached(f, MachSegs(f))
      ok == reached = MachSegs(f) /\ HasEntry(f)
  IN  /\ user' = Laid(user, f, {k \in reached : f.segs[k].filesz > 0},
                      RUNTIME_BASE - MACHO_BASE)
      /\ loaded' = [format |-> "macho", program |-> f, ok |-> ok,
                    entry |-> IF ok THEN MachEntry(f) ELSE 0]
      /\ UNCHANGED containerVars

\* What lies in memory before the first load is not zero.
LoadInit ==
  /\ user = [a \in 0 .. MEM - 1 |-> 99]
  /\ loaded = [format |-> "none", program |-> <<>>, ok |-> FALSE, entry |-> 0]

LoadNext ==
  \/ \E f \in ElfFiles : LoadElf(f) \/ LoadElfRebase(f)
  \/ \E f \in PeFiles : LoadPe(f)
  \/ \E f \in MachFiles : LoadMacho(f)

LoadersInit == ContainerInit /\ LoadInit

-----------------------------------------------------------------------------
(* Properties.                                                             *)

\* The writer and the two readers agree: an untouched container is accepted by
\* both, and its program is the one that was packed.  What the host accepts the
\* kernel accepts, and what the kernel accepts holds the packed program, even
\* if the file was damaged on the way.
ContainersKept ==
  file /= NoContainer =>
    /\ intact => Accepts(file) /\ ReadRun(file)
    /\ ReadRun(file) => Accepts(file)
    /\ Accepts(file) => ExecOf(file) = packed.prog

\* /runres shows the resources of the container mounted last, in its order, at
\* most MAX_RES of them and RES_MAX bytes of each, under names cut to 15
\* characters, whatever was mounted before; and a resource is found by its name
\* unless another one of that name with bytes comes first, or it has none.
MountedIsPacked ==
  /\ Len(RES) = Shorter(Len(mountedOf.resources), MAX_RES)
  /\ \A k \in DOMAIN RES :
       LET r == mountedOf.resources[k]
           hides(j) == RES[j].data /= <<>> /\ (j < k \/ RES[k].data = <<>>)
       IN  /\ RES[k].name = Kept[r.name]
           /\ RES[k].data = Part(r.data, 0, Shorter(Len(r.data), RES_MAX))
           /\ (\A j \in DOMAIN RES : RES[j].name = RES[k].name => ~hides(j))
                => Resource(r.name) = RES[k].data

\* Whatever was loaded before, memory holds the program a loader reported as
\* loaded: a segment that has bytes in the file has them at its address, followed
\* by zeroes, where no later segment lies over it and no import is bound; every
\* import of a PE file within the limits of descriptors and imports holds the
\* address of its trampoline or cell, unless a later one of these has its slot,
\* and the slots of the imports past the limits hold what the file has there,
\* although the file is reported as loaded; and a Mach-O program that starts with LC_MAIN starts at the byte its
\* offset names.  The memory is the MEM bytes of the model.
Span(s) == 0 .. (IF s.memsz > s.filesz THEN s.memsz ELSE s.filesz) - 1
ByteOf(f, s, j) == IF j < s.filesz THEN f.buf[s.off + j + 1] ELSE 0
Hidden(f, K, k, j) ==
  \E i \in K : i > k /\ f.segs[k].vaddr + j - f.segs[i].vaddr \in Span(f.segs[i])

Holds(f, K, shift, free) ==
  \A k \in K : \A j \in Span(f.segs[k]) :
    LET a == f.segs[k].vaddr + shift + j
    IN  a \in free /\ ~Hidden(f, K, k, j) => user[a] = ByteOf(f, f.segs[k], j)

ElfExact(f) ==
  Holds(f, {k \in Loads(f) : f.segs[k].memsz /= 0 /\ f.segs[k].vaddr >= LOWEST}, 0, DOMAIN user)

RebasedExact(f, entry) ==
  Holds(f, {k \in Loads(f) : f.segs[k].memsz /= 0 /\ ~Overruns(f, f.segs[k])},
        entry - f.entry, DOMAIN user)

PeExact(f) ==
  LET nth(k) == Cardinality({j \in 1 .. k : f.imports[j].dll = f.imports[k].dll})
      within == {k \in DOMAIN f.imports : f.imports[k].dll <= MAX_DLLS /\ nth(k) <= MAX_IMPORTS}
      slots == {f.imports[k].slot : k \in within}
  IN  /\ Holds(f, DOMAIN f.segs, 0, DOMAIN user \ slots)
      /\ \A k \in within :
           LET i == f.imports[k]
           IN  (/\ i.slot \in DOMAIN user
                /\ \A j \in within : j > k => f.imports[j].slot /= i.slot)
                 => \/ i.name \in DOMAIN SHIM_DATA /\ user[i.slot] = SHIM_DATA[i.name]
                    \/ i.name = "atof" /\ user[i.slot] = ATOF_TRAMP
                    \/ /\ i.name /= "atof"
                       /\ user[i.slot] - SHIM_PAGE + 1 \in DOMAIN SHIM_TABLE
                       /\ SHIM_TABLE[user[i.slot] - SHIM_PAGE + 1] = i.name

MachExact(f, entry) ==
  LET K == {k \in MachSegs(f) : f.segs[k].filesz > 0}
      text == Max(Of(f, {"TEXT"}))
      start == LastCommand(f, "MAIN").off
      j == start - f.segs[text].off
  IN  /\ Holds(f, K, RUNTIME_BASE - MACHO_BASE, DOMAIN user)
      /\ (/\ Of(f, {"THREAD"}) = {} /\ j \in 0 .. f.segs[text].filesz - 1
          /\ ~Hidden(f, K, text, j) /\ entry \in DOMAIN user)
           => user[entry] = f.buf[start + 1]

ImagesExact ==
  LET f == loaded.program
  IN  loaded.ok =>
        /\ loaded.format = "elf" => ElfExact(f)
        /\ loaded.format = "rebased" => RebasedExact(f, loaded.entry)
        /\ loaded.format = "pe" => PeExact(f)
        /\ loaded.format = "macho" => MachExact(f, loaded.entry)
=============================================================================

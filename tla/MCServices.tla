---------------------------- MODULE MCServices ----------------------------
(***************************************************************************)
(* The services of the kernel around its core, each a machine of its own:  *)
(* a behaviour runs the part it was started with, and leaves the others as *)
(* they were at boot.                                                      *)
(***************************************************************************)
EXTENDS TLC, Fjfs, PageCache, DeviceQueues, Files, Memory, Windows, Console, Tables, Loaders, Toolchain

MCFmtName == [n \in {"a", "b", "b2", "c"} |-> IF n = "b2" THEN "b" ELSE n]
MCContents == {<<"x">>, <<"y">>, <<"x", "y">>, <<"x", "x", "x">>}
MCGarbage == {{}, {0}}
MCChunks == {<<0>>, <<1, 0>>}
MCSeed == <<1>>
MCTable == (<<"a">> :> <<"A", "B">>) @@ (<<"a", "b">> :> <<"C">>)
MCData == {<<1>>, <<1, 2>>}

MCKept == [n \in {61, 62, 63} |-> IF n = 63 THEN 62 ELSE n]
Res(n, d) == [name |-> n, data |-> d]
MCContainers ==
  {[icon |-> TRUE, prog |-> <<1, 2>>, resources |-> r] :
     r \in {<<>>, <<Res(63, <<1>>)>>,
            <<Res(61, <<>>), Res(62, <<2>>), Res(63, <<3, 1, 2, 3, 4>>)>>}}
  \cup {[icon |-> FALSE, prog |-> <<4, 4, 4, 4>>,
         resources |-> <<Res(61, <<5>>), Res(61, <<6, 6>>)>>]}

Seg(type, off, filesz, vaddr, memsz) ==
  [type |-> type, off |-> off, filesz |-> filesz, vaddr |-> vaddr, memsz |-> memsz]
MCElfFiles ==
  {[buf |-> <<11, 12, 13, 14>>, entry |-> 3,
    segs |-> <<Seg("LOAD", 0, 2, 3, 4), Seg("NOTE", 0, 9, 0, 0),
               Seg("LOAD", 2, 2, 8, 2), Seg("LOAD", 0, 1, 0, 1)>>],
   [buf |-> <<21, 22>>, entry |-> 8,
    segs |-> <<Seg("LOAD", 0, 2, 8, 4), Seg("LOAD", 1, 2, 3, 2)>>],
   [buf |-> <<>>, entry |-> 0, segs |-> <<>>]}
MCShimTable == <<"exit", "atof", "write">>
MCShimData == "fmode" :> 200
Import(dll, name, slot) == [dll |-> dll, name |-> name, slot |-> slot]
\* The last two have one import, and one descriptor, too many.
PeFile(n, imports) ==
  [buf |-> <<31, 32, 33>>, entry |-> 4,
   segs |-> <<Seg("SEC", 0, 2, 4, 2), Seg("SEC", 1, n, 8, n)>>, imports |-> imports]
MCPeFiles ==
  {PeFile(n, <<Import(1, name, 8), Import(1, "write", 9)>>) :
     n \in {2, 3}, name \in {"exit", "fmode", "none"}}
  \cup {PeFile(2, <<Import(1, "exit", 9), Import(2, "atof", 8)>>)}
  \cup {PeFile(2, <<Import(1, "exit", 8), Import(1, "atof", 9), Import(1, last, 5),
                    Import(2, "write", 9), Import(3, last, 4)>>) : last \in {"exit", "none"}}
MCMachFiles ==
  {[buf |-> <<41, 42, 43, 44>>,
    segs |-> <<Seg("SEGMENT", 0, 0, 0, 20), Seg("TEXT", 1, 2, 21, 3),
               Seg("SEGMENT", 3, n, 25, 3), last>>] :
     n \in {0, 1, 2}, last \in {Seg("MAIN", 2, 0, 0, 0), Seg("THREAD", 0, 0, 22, 0),
                                Seg("MAIN", 0, 0, 0, 0)}}

MCInsnBytes == ("nop" :> 1) @@ ("jmp" :> 5) @@ ("je" :> 6) @@ ("mov" :> 10) @@ ("ret" :> 1)
MCLines == {Line(0, "none", 0), Line(1, "none", 0), Line(0, "nop", 0),
            Line(NoLabel, "jmp", 0), Line(NoLabel, "je", 1)}
MCAsmSources == UNION {[1 .. n -> MCLines] : n \in 1 .. 2}
                  \cup {<<a, Line(NoLabel, branch[1], branch[2]), b>> :
                          a, b \in MCLines, branch \in {<<"jmp", 0>>, <<"je", 1>>}}
                  \cup {<<Line(0, "none", 0), Line(NoLabel, "call", 0)>>}
Reloc(place, sym) == [place |-> place, sym |-> sym]
MCLinkInputs ==
  {[text1 |-> [k \in 1 .. n1 |-> <<"one", n1, k>>], text2 |-> [k \in 1 .. n2 |-> <<"two", n2, k>>],
    syms |-> <<1, 2, 3>>, relocs |-> r] :
     n1 \in {0, 3, 4, 5}, n2 \in {0, 2},
     \* the third symbol is one too many, and there is no fourth
     r \in {<<>>, <<Reloc(4, 1), Reloc(7, 3), Reloc(9, 4)>>,
           <<Reloc(4, 1), Reloc(5, 2), Reloc(1, 1)>>, <<Reloc(4, 2), Reloc(5, 3)>>}}
MCCcSources ==
  LET w == <<30>>
      consts == {<<4>>, <<4, 2>>, <<0, X, 15>>, <<0, X, 1, 2, 3>>}
  IN  {<<w, a>> : a \in consts} \cup {<<w, a, w, b>> : a, b \in consts} \cup {<<w, w>>}
MCDbgCode == [a \in 0 .. 2 |-> <<"a", "b", "c">>[a + 1]]

-----------------------------------------------------------------------------
VARIABLES part,  \* the part that runs
          mix    \* of the files, the kinds a behaviour opens

deviceVars == <<blkVars, rxVars, ahVars>>
storageVars == <<fsVars, pcVars, deviceVars, filesVars>>
memoryVars == <<frameVars, heapVars, loaderVars>>
screenVars == <<winVars, consoleVars>>
allVars == <<storageVars, memoryVars, screenVars, tableVars, toolVars, part, mix>>

Init ==
  /\ FsInit /\ PcInit /\ BlkInit /\ RxInit /\ AhInit /\ FilesInit
  /\ FrameInit /\ HeapInit /\ LoadersInit
  /\ WinInit /\ ConsoleInit /\ TableInit /\ ToolInit
  /\ part \in {"fjfs", "cache", "blk", "net", "ahci", "files", "frames", "heap",
               "container", "load", "queue", "mouse", "loop", "drag", "keys", "tty", "term",
               "editor", "ime", "store", "card", "trace", "image", "mix",
               "asm", "link", "compile", "debug"}
  /\ part /= "fjfs" => dBitmap = {}
  /\ part /= "frames" => FRAME_BITMAP = {}
  /\ mix \in IF part = "files" THEN {{"pipe"}, {"disk", "view"}, {"ram"}, {"view", "dir"}} ELSE {{}}

\* Three pipe ends with one byte through the second pipe, or two descriptors of
\* other kinds.  The position of a pipe end is never read; of two disk files or
\* views, one is read from its start.
FilesOfMix ==
  /\ FilesNext
  /\ \A fd \in Fds : FILES'[fd].kind \in mix \cup {"free"}
  /\ "ram" \in mix \/ UNCHANGED TMPFS
  /\ "pipe" \in mix => \A fd \in Fds : FILES'[fd].pos = 0
  /\ "disk" \in mix => FILES'[4].pos = 0
  /\ "pipe" \in mix \/ UNCHANGED KOBJS
  /\ "pipe" \in mix \/ FILES'[5] = FreeFd
  /\ sent'[1].bytes <= 1

StorageNext ==
  \/ part = "fjfs" /\ FsNext /\ UNCHANGED <<pcVars, deviceVars, filesVars>>
  \/ part = "cache" /\ PcNext /\ UNCHANGED <<fsVars, deviceVars, filesVars>>
  \/ part = "blk" /\ BlkNext /\ UNCHANGED <<fsVars, pcVars, rxVars, ahVars, filesVars>>
  \/ part = "net" /\ RxNext /\ UNCHANGED <<fsVars, pcVars, blkVars, ahVars, filesVars>>
  \/ part = "ahci" /\ AhNext /\ UNCHANGED <<fsVars, pcVars, blkVars, rxVars, filesVars>>
  \/ part = "files" /\ FilesOfMix /\ UNCHANGED <<fsVars, pcVars, deviceVars>>

MemoryNext ==
  \/ part = "frames" /\ FrameNext /\ UNCHANGED <<heapVars, loaderVars>>
  \/ part = "heap" /\ HeapNext /\ UNCHANGED <<frameVars, loaderVars>>
  \/ part = "container" /\ ContainerNext /\ UNCHANGED <<frameVars, heapVars>>
  \/ part = "load" /\ LoadNext /\ UNCHANGED <<frameVars, heapVars>>

DeskNext ==
  \/ part = "mouse" /\ (Packets \/ WmGetmsg \/ ProgramCalls) /\ UNCHANGED consoleVars
  \/ part = "queue" /\ (Packets \/ WmGetmsg \/ WmCreate(0)) /\ UNCHANGED consoleVars
  \/ part = "loop" /\ (Packets \/ WmGetmsg \/ WmCreate(0) \/ LoopSteps)
     /\ UNCHANGED consoleVars
  \/ part = "drag" /\ (Packets \/ WmGetmsg \/ LoopSteps \/ LoopMouse) /\ UNCHANGED consoleVars
  \/ part = "keys" /\ KeyNext /\ UNCHANGED <<winVars, ttyVars, termVars, edVars, imeVars>>
  \/ part = "tty" /\ TtyNext /\ UNCHANGED <<winVars, keyVars, termVars, edVars, imeVars>>
  \/ part = "term" /\ TermNext /\ UNCHANGED <<winVars, keyVars, ttyVars, edVars, imeVars>>
  \/ part = "editor" /\ EditorNext /\ UNCHANGED <<winVars, keyVars, ttyVars, termVars, imeVars>>
  \/ part = "ime" /\ ImeNext /\ UNCHANGED <<winVars, keyVars, ttyVars, termVars, edVars>>

TablesNext ==
  \/ part = "store" /\ StoreNext /\ UNCHANGED <<cardVars, traceVars, imageVars, mixVars>>
  \/ part = "card" /\ CardNext /\ UNCHANGED <<storeVars, traceVars, imageVars, mixVars>>
  \/ part = "trace" /\ TraceNext /\ UNCHANGED <<storeVars, cardVars, imageVars, mixVars>>
  \/ part = "image" /\ ImageNext /\ UNCHANGED <<storeVars, cardVars, traceVars, mixVars>>
  \/ part = "mix" /\ MixNext /\ UNCHANGED <<storeVars, cardVars, traceVars, imageVars>>

ToolsNext ==
  \/ part = "asm" /\ \E src \in AsmSources, room \in BOOLEAN : Assemble(src, room)
  \/ part = "link" /\ \E in \in LinkInputs : Link(in)
  \/ part = "compile" /\ \E tokens \in CcSources, abi \in ABI_T \cup {"none"} : Compile(tokens, abi)
  \/ part = "debug" /\ DbgNext

Next ==
  /\ \/ StorageNext /\ UNCHANGED <<memoryVars, screenVars, tableVars, toolVars>>
     \/ MemoryNext /\ UNCHANGED <<storageVars, screenVars, tableVars, toolVars>>
     \/ DeskNext /\ UNCHANGED <<storageVars, memoryVars, tableVars, toolVars>>
     \/ TablesNext /\ UNCHANGED <<storageVars, memoryVars, screenVars, toolVars>>
     \/ ToolsNext /\ UNCHANGED <<storageVars, memoryVars, screenVars, tableVars>>
  /\ UNCHANGED <<part, mix>>

Spec == Init /\ [][Next]_allVars

-----------------------------------------------------------------------------
\* States after which a component promises nothing, or that are bounds of the
\* run, are not explored further.
Explored ==
  /\ ~faulted /\ ~stray
  /\ ~wrapped /\ ~overlaid
  /\ unpinned = {} \/ spaces = 1
  /\ WLIB = <<>> \/ (~HIGH_MAPPED /\ kernel = {} /\ spaces = 1)
  /\ ~raced /\ ~foreign
  /\ part = "queue" \/ Len(owed) <= 1 \/ (part = "loop" /\ todo /= <<>>)
  /\ Len(paper) <= 4 /\ ~lapped /\ ~painted /\ ~twoReaders /\ ~overwrote

\* A state is the state of its part: the others are as they were at boot.  Two
\* states that differ only in where in its ring the message queue lies, or in
\* what a pipe that is free holds, take the same steps.
Seen ==
  <<part, mix,
    CASE part = "fjfs" -> fsVars
      [] part = "cache" -> pcVars
      [] part \in {"blk", "net", "ahci"} -> deviceVars
      [] part = "files" ->
           <<FILES, [p \in PipeIds |-> IF PIPES[p].used THEN PIPES[p] ELSE NoPipe], KOBJS,
             TMPFS, CACHE, DISK_DIRTY, volume, sent, whole, stray>>
      [] part \in {"frames", "heap"} -> <<frameVars, heapVars>>
      [] part \in {"container", "load"} -> loaderVars
      [] part \in {"queue", "mouse", "loop", "drag"} ->
           <<WINS, HIT_RECTS, mouseVars, Waiting, owed, raced, foreign, todo, deskVars>>
      [] part \in {"keys", "tty", "term", "editor", "ime"} -> consoleVars
      [] part \in {"asm", "link", "compile", "debug"} -> toolVars
      [] OTHER -> tableVars>>

-----------------------------------------------------------------------------
\* Every property is about the states of the parts that can change it.

\* The types of every part.
ServicesTypeOK ==
  /\ part = "fjfs" => FsTypeOK
  /\ part = "cache" => PcTypeOK
  /\ part = "files" => FilesTypeOK
  /\ part \in {"frames", "heap"} => MemTypeOK
  /\ part \in {"queue", "mouse", "loop", "drag"} => WinTypeOK
  /\ part \in {"keys", "tty", "term", "editor", "ime"} => ConsoleTypeOK
  /\ part \in {"store", "card", "trace", "image", "mix"} => TablesTypeOK

\* virtio.rs, ahci.rs, net.rs: a request is answered with the data of its own
\* sector, and frames are handed out as they came.
DriversAnswerOwn == BlkAnswersOwn /\ AhciAnswersOwn /\ RxInOrder

\* vfs.rs, kobj.rs: pipes count the descriptors of both their ends, the object
\* table knows the descriptors, and the buffer of the open disk file is the
\* file's.
DescriptorsExact ==
  part = "files" => PipesCountEnds /\ PipeObjectsExact /\ DiskBufferIsOwn

\* ipc.rs, wmsg.rs, kbd.rs: what is put into a ring comes out in order, once.
QueuesInOrder ==
  /\ part = "files" => PipeIsQueue
  /\ part \in {"queue", "mouse", "loop", "drag"} => QueueIsFifo
  /\ part = "keys" => KeysInOrder

\* mem.rs: what a space sees in its pages, in the shared page and in its
\* mappings is its own.
MemoryApart ==
  /\ part = "frames" => SpacesIsolated /\ SharedPageReached
  /\ part = "heap" => MmapRegionsDisjoint

\* fujr.rs, the loaders and the tools: what was packed, loaded, assembled or
\* linked is the program that was given, within the limits of the loader's and
\* the linker's tables.
ProgramsLoaded ==
  /\ part = "container" => ContainersKept /\ MountedIsPacked
  /\ part = "load" => ImagesExact
  /\ part \in {"asm", "link", "compile", "debug"} => ToolsBuild
=============================================================================

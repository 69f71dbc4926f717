----------------------------- MODULE Toolchain -----------------------------
(***************************************************************************)
(* The tools inside the kernel: the two-pass assembler of asm.rs, the      *)
(* linker of ld.rs, the compiler of fujocc.rs that runs both, and the      *)
(* breakpoints of dbg.rs.  An instruction is its name and its operand; the *)
(* bytes of its encoding are only told apart by their place in it.         *)
(***************************************************************************)
EXTENDS Integers, Sequences, FiniteSets

CONSTANTS MAX_LABELS,   \* labels L0, L1, ... (16)
          InsnBytes,    \* the length of every instruction the assembler knows
          AsmSources,   \* programs to assemble
          MAX_SYMS,     \* symbols the linker takes a snapshot of (16)
          BASE,         \* where a linked program starts (0x400000)
          HEAD, OFF1,   \* bytes of the ELF header, offset of the first text
          TEXT_ALIGN,   \* alignment of the second one (16)
          ADDR_BYTES,   \* bytes of a relocated address (8)
          OUT,          \* bytes of the output buffer
          LinkInputs,   \* what is linked: two texts, symbols, relocations
          EXPR_MAX,     \* characters the compiler keeps of an expression (8)
          CcSources,    \* programs to compile, as their tokens
          DbgCode       \* the code under the debugger

\* mov, ret and the branches are instructions; the two texts of a program lie
\* behind its header.
ASSUME ToolsAssumption ==
  /\ {MAX_LABELS, MAX_SYMS} \subseteq Nat /\ {HEAD, OFF1, ADDR_BYTES, OUT} \subseteq Nat /\ HEAD <= OFF1
  /\ {TEXT_ALIGN, EXPR_MAX} \subseteq Nat \ {0}
  /\ {"mov", "ret", "jmp", "je"} \subseteq DOMAIN InsnBytes
  /\ \A op \in DOMAIN InsnBytes : InsnBytes[op] \in Nat \ {0}
  /\ \A src \in AsmSources : src \in Seq([label : Int, op : STRING, arg : Int])
  /\ \A in \in LinkInputs :
       /\ in.text1 \in Seq(STRING \X Int \X Nat) /\ in.text2 \in Seq(STRING \X Int \X Nat)
       /\ in.relocs \in Seq([place : Nat, sym : Nat])
  /\ \A tokens \in CcSources : tokens \in Seq(Seq(Nat))

VARIABLES
  LABEL_AT, LABEL_N,  \* labels of the last assembly, and of those before it
  source, code,       \* the last assembly: its lines and what came out
  dst, LAST_SIZE,   \* the linker's output buffer
  linked,             \* what was linked last
  compiled,           \* the tokens compiled last
  debuggee,               \* the program under the debugger
  BP_ORIG,            \* the byte a breakpoint replaced
  DBG_BP_ENABLED, rip,
  overwrote           \* history: a breakpoint was set on top of another one

asmVars == <<LABEL_AT, LABEL_N, source, code>>
ldVars == <<dst, LAST_SIZE, linked, compiled>>
dbgVars == <<debuggee, BP_ORIG, DBG_BP_ENABLED, rip, overwrote>>
toolVars == <<asmVars, ldVars, dbgVars>>

-----------------------------------------------------------------------------
(* The assembler.  A line is [label, op, arg]; op "none" for a label alone. *)

Labels == 0 .. MAX_LABELS - 1
NoLabel == -1
Branches == {"jmp", "je"}
Line(label, op, arg) == [label |-> label, op |-> op, arg |-> arg]
Size(op) == IF op = "none" THEN 0 ELSE InsnBytes[op]

\* The bytes of the first i lines.
BytesTo(src, i) ==
  LET pc[k \in 0 .. Len(src)] == IF k = 0 THEN 0 ELSE pc[k - 1] + Size(src[k].op)
  IN  pc[i]

LinesWith(src, l) == {i \in DOMAIN src : src[i].label = l}
LastOf(S) == CHOOSE i \in S : \A j \in S : j <= i
Defined(src) == {l \in Labels : LinesWith(src, l) /= {}}

\* Pass 1 takes a label down once its line is counted: before an instruction
\* on the same line it stands for what follows that.  A later line with the
\* same label replaces it.
LabelOffset(src, l) == BytesTo(src, LastOf(LinesWith(src, l)))

\* The labels this source does not define keep what an earlier one left, and
\* count as labels if they are below the highest one that is defined.
LabelTable(src) ==
  [l \in Labels |-> IF l \in Defined(src) THEN LabelOffset(src, l) ELSE LABEL_AT[l]]
LabelCount(src) == IF Defined(src) = {} THEN 0 ELSE LastOf(Defined(src)) + 1

\* A branch is relative to its end; one to an unknown label goes nowhere.
RelOfFromStart(at, op, l, table, n) == IF l < n THEN table[l] - at ELSE 0
RelOf(at, op, l, table, n) == IF l < n THEN table[l] - (at + Size(op)) ELSE 0

\* Pass 2: what every line puts out, and where.
Emitted(src, i, table, n) ==
  LET at == BytesTo(src, i - 1)
      op == src[i].op
  IN  [line |-> i, at |-> at, op |-> op,
       arg |-> IF op \in Branches THEN RelOf(at, op, src[i].arg, table, n) ELSE src[i].arg]

\* The lines with an instruction, and the k-th of them.
Emitting(src) == {i \in DOMAIN src : src[i].op /= "none"}
EmittingLine(src, k) ==
  CHOOSE i \in Emitting(src) : Cardinality({j \in Emitting(src) : j <= i}) = k
Generated(src, table, n) ==
  [k \in 1 .. Cardinality(Emitting(src)) |-> Emitted(src, EmittingLine(src, k), table, n)]

\* An instruction that is not supported ends pass 1.
Supported(src) == \A i \in DOMAIN src : src[i].op \in DOMAIN InsnBytes \cup {"none"}

Assembled(src) ==
  /\ LABEL_AT' = LabelTable(src) /\ LABEL_N' = LabelCount(src)
  /\ source' = src
  /\ code' = Generated(src, LABEL_AT', LABEL_N')

\* fujo_asm_assemble.  It looks at the size of the output buffer once, behind
\* pass 1 and before the label table is written: room says that it has the 64
\* bytes that are asked for.
Assemble(src, room) ==
  /\ IF Supported(src) /\ room THEN Assembled(src) ELSE UNCHANGED asmVars
  /\ UNCHANGED <<ldVars, dbgVars>>

-----------------------------------------------------------------------------
(* The linker.                                                             *)

\* The bytes of an instruction, and of a whole program.
Encoding(insn) == [k \in 1 .. Size(insn.op) |-> <<insn.op, insn.arg, k>>]
Encoded(insns) ==
  LET text[k \in 0 .. Len(insns)] ==
        IF k = 0 THEN <<>> ELSE text[k - 1] \o Encoding(insns[k])
  IN  text[Len(insns)]

RoundedDown(n) == (n \div TEXT_ALIGN) * TEXT_ALIGN
Rounded(n) == ((n + TEXT_ALIGN - 1) \div TEXT_ALIGN) * TEXT_ALIGN
Off2(in) == OFF1 + Rounded(Len(in.text1))

\* The symbols of the snapshot syms_vma, numbered from 1: the first MAX_SYMS.
Snapshot(in) == {s \in DOMAIN in.syms : s <= MAX_SYMS}
Word(r) == r.place .. r.place + ADDR_BYTES - 1

\* The relocations that write a byte of the output; the last one stays.  One of
\* a symbol that does not exist, or that is not in the snapshot, is passed over
\* without an error.
RelocatingAny(in, b) ==
  {k \in DOMAIN in.relocs : in.relocs[k].sym \in DOMAIN in.syms /\ b \in Word(in.relocs[k])}

Relocating(in, b) ==
  {k \in DOMAIN in.relocs : in.relocs[k].sym \in Snapshot(in) /\ b \in Word(in.relocs[k])}

\* ld_link: texts, relocations, and the header over everything else.  Between
\* the texts the buffer keeps what it had.
LinkedByte(in, b) ==
  LET n1 == Len(in.text1)
  IN  IF b < HEAD THEN <<"header", Off2(in) + Len(in.text2), b>>
      ELSE IF Relocating(in, b) /= {}
      THEN LET r == in.relocs[LastOf(Relocating(in, b))]
           IN  <<"addr", BASE + in.syms[r.sym], b - r.place>>
      ELSE IF b \in Off2(in) .. Off2(in) + Len(in.text2) - 1
      THEN in.text2[b - Off2(in) + 1]
      ELSE IF b \in OFF1 .. OFF1 + n1 - 1 THEN in.text1[b - OFF1 + 1]
      ELSE dst[b]

LinkOf(in) ==
  /\ dst' = [b \in 0 .. OUT - 1 |-> LinkedByte(in, b)]
  /\ LAST_SIZE' = Off2(in) + Len(in.text2)
  /\ linked' = in

Link(in) == LinkOf(in) /\ compiled' = <<>> /\ UNCHANGED <<asmVars, dbgVars>>

-----------------------------------------------------------------------------
(* The compiler.  A token is its characters, digits as numbers; those of a  *)
(* word do not matter.                                                      *)

ABI_T == {"linux", "mac", "win"}

X == 16     \* the x of 0x
IsHex(t) == Len(t) > 1 /\ t[1] = 0 /\ t[2] = X
IsDec(t) == t /= <<>> /\ t[1] \in 0 .. 9

\* translate keeps all of a hexadecimal constant and the first digit of a
\* decimal one, as long as its buffer has room: two constants run together.
KeptOf(t) == IF IsHex(t) THEN t ELSE IF IsDec(t) THEN <<t[1]>> ELSE <<>>
Room(e) == EXPR_MAX - Len(e)
Cut(s, n) == SubSeq(s, 1, IF Len(s) < n THEN Len(s) ELSE n)
Expression(tokens) ==
  LET e[k \in 0 .. Len(tokens)] ==
        IF k = 0 THEN <<>> ELSE e[k - 1] \o Cut(KeptOf(tokens[k]), Room(e[k - 1]))
  IN  e[Len(tokens)]

\* parse_const: hexval of what is no digit is 0, the decimal loop passes it over.
Digits(base, e) ==
  LET v[k \in 0 .. Len(e)] ==
        IF k = 0 THEN 0
        ELSE IF e[k] < base THEN v[k - 1] * base + e[k]
        ELSE IF base = 16 THEN v[k - 1] * base ELSE v[k - 1]
  IN  v[Len(e)]
ParseConstDecimal(e) == Digits(10, e)
ParseConst(e) == IF IsHex(e) THEN Digits(16, SubSeq(e, 3, Len(e))) ELSE Digits(10, e)

Translated(tokens) ==
  <<Line(NoLabel, "mov", ParseConst(Expression(tokens))), Line(NoLabel, "ret", 0)>>

\* fujo_cc_compile: one text, no symbols.  An ABI that is not one of the three
\* is refused before anything else.
Compile(tokens, abi) ==
  /\ IF abi \notin ABI_T THEN UNCHANGED <<asmVars, ldVars>>
     ELSE /\ Assembled(Translated(tokens))
          /\ LinkOf([text1 |-> Encoded(code'), text2 |-> <<>>, syms |-> <<>>, relocs |-> <<>>])
          /\ compiled' = tokens
  /\ UNCHANGED dbgVars

-----------------------------------------------------------------------------
(* The debugger.                                                           *)

Int3 == "int3"

\* The program has no int3 of its own: one would be replaced by whatever byte
\* the last breakpoint left.
ASSUME DebuggeeAssumption == \A a \in DOMAIN DbgCode : DbgCode[a] /= Int3

\* 0x7602: the byte is kept in one place, whatever breakpoint it held before.
Bp0(a) ==
  /\ BP_ORIG' = debuggee[a]
  /\ debuggee' = [debuggee EXCEPT ![a] = Int3]
  /\ DBG_BP_ENABLED' = TRUE
  /\ overwrote' = (overwrote \/ \E b \in DOMAIN debuggee : debuggee[b] = Int3)
  /\ UNCHANGED <<asmVars, ldVars, rip>>

\* The program executes an instruction and goes on to any other.
Run(a) ==
  /\ debuggee[rip] /= Int3
  /\ rip' = a
  /\ UNCHANGED <<asmVars, ldVars, debuggee, BP_ORIG, DBG_BP_ENABLED, overwrote>>

\* #BP: rip is behind the int3; the byte goes back and is executed again.
BpHitBehind(at) == at + 1
BpHit(at) == at

BpExc ==
  /\ debuggee[rip] = Int3
  /\ BpHit(rip) \in DOMAIN debuggee
  /\ debuggee' = [debuggee EXCEPT ![BpHit(rip)] = BP_ORIG]
  /\ rip' = BpHit(rip)
  /\ DBG_BP_ENABLED' = FALSE
  /\ UNCHANGED <<asmVars, ldVars, BP_ORIG, overwrote>>

\* 0x7604 leaves the int3 where it is.
DbgClear ==
  /\ DBG_BP_ENABLED' = FALSE
  /\ UNCHANGED <<asmVars, ldVars, debuggee, BP_ORIG, rip, overwrote>>

-----------------------------------------------------------------------------
ToolInit ==
  /\ LABEL_AT = [l \in Labels |-> 0] /\ LABEL_N = 0
  /\ source = <<>> /\ code = <<>>
  /\ dst = [b \in 0 .. OUT - 1 |-> <<"stale", 0, 0>>] /\ LAST_SIZE = 0
  /\ linked = [text1 |-> <<>>, text2 |-> <<>>, syms |-> <<>>, relocs |-> <<>>]
  /\ compiled = <<>>
  /\ debuggee = DbgCode /\ BP_ORIG = "none" /\ DBG_BP_ENABLED = FALSE /\ rip = 0
  /\ overwrote = FALSE

DbgNext == \/ \E a \in DOMAIN debuggee : Bp0(a) \/ Run(a)
           \/ BpExc \/ DbgClear

-----------------------------------------------------------------------------
\* A branch to a label that has a line of its own goes to the first
\* instruction behind that line, forwards or backwards, whatever was assembled
\* before: the addresses of pass 1 are those of pass 2.
BranchesLand ==
  \A k \in DOMAIN code : code[k].op \in Branches =>
    LET l == source[code[k].line].arg
        behind == {j \in DOMAIN code : code[j].line > LastOf(LinesWith(source, l))}
        goal == IF behind = {} THEN BytesTo(source, Len(source))
                ELSE code[CHOOSE j \in behind : \A i \in behind : j <= i].at
    IN  (l \in Defined(source) /\ source[LastOf(LinesWith(source, l))].op = "none")
          => code[k].at + Size(code[k].op) + code[k].arg = goal

\* A linked program that fits its buffer has both texts whole, the second one
\* aligned and behind the first, apart from the words of the relocations to one
\* of the first MAX_SYMS symbols; and the word of such a relocation is the
\* symbol's address, if no other one of them touches it.  Nothing is said of a
\* relocation to a later symbol but that its word keeps the text: ld_link
\* passes over it and reports success.
TextsLinked ==
  LET in == linked
      known(k) == in.relocs[k].sym \in DOMAIN in.syms /\ in.relocs[k].sym <= MAX_SYMS
      fixed(b) == \E k \in DOMAIN in.relocs : known(k) /\ b \in Word(in.relocs[k])
  IN  LAST_SIZE \in 1 .. OUT =>
        /\ \A i \in DOMAIN in.text1 :
             fixed(OFF1 + i - 1) \/ dst[OFF1 + i - 1] = in.text1[i]
        /\ \E off \in OFF1 + Len(in.text1) .. LAST_SIZE :
             /\ (off - OFF1) % TEXT_ALIGN = 0 /\ off + Len(in.text2) = LAST_SIZE
             /\ \A i \in DOMAIN in.text2 :
                  fixed(off + i - 1) \/ dst[off + i - 1] = in.text2[i]
        /\ \A k \in DOMAIN in.relocs :
             LET r == in.relocs[k]
             IN  (/\ known(k) /\ Word(r) \subseteq HEAD .. OUT - 1
                  /\ \A j \in DOMAIN in.relocs \ {k} :
                       known(j) => Word(in.relocs[j]) \cap Word(r) = {})
                   => \A b \in Word(r) :
                        dst[b] = <<"addr", BASE + in.syms[r.sym], b - r.place>>

\* A program that returns one constant which fits the compiler's buffer (one
\* digit, or hexadecimal) is linked as code that returns it.
ReturnsConstant ==
  \A c \in DOMAIN compiled :
    LET t == compiled[c]
        value == IF IsHex(t) THEN Digits(16, SubSeq(t, 3, Len(t))) ELSE t[1]
    IN  (/\ {k \in DOMAIN compiled : IsHex(compiled[k]) \/ IsDec(compiled[k])} = {c}
         /\ Len(t) <= IF IsHex(t) THEN EXPR_MAX ELSE 1
         /\ LAST_SIZE <= OUT)
          => \A k \in 1 .. Size("mov") : dst[OFF1 + k - 1] = <<"mov", value, k>>

\* Until one breakpoint is set on top of another, every byte of the program is
\* its own or can be put back, and an instruction is executed only as it was
\* written.
BreakpointsRestore ==
  ~overwrote => \A a \in DOMAIN debuggee :
    \/ debuggee[a] = DbgCode[a]
    \/ debuggee[a] = Int3 /\ BP_ORIG = DbgCode[a]

ToolsBuild == BranchesLand /\ TextsLinked /\ ReturnsConstant /\ BreakpointsRestore
=============================================================================

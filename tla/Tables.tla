------------------------------- MODULE Tables -------------------------------
(***************************************************************************)
(* The tables that programs keep in the kernel: sessions (kernel/src/      *)
(* sessions.rs), saves (save.rs), the clipboard (clip.rs), the model card  *)
(* and its audit (modelcard.rs), the model registry (modelreg.rs), the     *)
(* kernel image on the drive (upd.rs, installer.rs), the mixer (audio.rs), *)
(* and the call trace (syscall.rs).  Every call is one step.               *)
(***************************************************************************)
EXTENDS Integers, Sequences, FiniteSets, SequencesExt

CONSTANTS NS, CK,        \* sessions (4) and bytes of a checkpoint
          SAVES, SAVE_SZ,  \* slots (8) and bytes a save may not reach (8180)
          CLIP_MAX,      \* the clipboard with its terminator (2048)
          AUDIT_N,       \* entries of the card's audit (16)
          TOKEN_MOD,     \* token counts are taken modulo this (2^64)
          MODELS,        \* slots of the registry (4)
          READBACK,      \* length of the longest image read back (2048)
          KONE,          \* the coefficient that stands for 1 (256)
          CBUF, NCH,     \* samples of a channel (128), channels (4)
          SAMPLE_MAX,    \* 16-bit samples reach from -SAMPLE_MAX-1 to it
          TRACE_N, SHOWN,  \* calls remembered (64) and shown (16)
          Data,          \* what programs store: sequences
          COUNT_MAX      \* a bound of the model for counters

ASSUME TablesAssumption ==
  /\ {NS, SAVES, AUDIT_N, MODELS, KONE, TRACE_N, NCH, CLIP_MAX,
      TOKEN_MOD} \subseteq Nat \ {0}
  /\ {CK, SAVE_SZ, READBACK, CBUF, SAMPLE_MAX, COUNT_MAX} \subseteq Nat
  /\ SHOWN \in 0 .. TRACE_N
  /\ \A d \in Data : d \in Seq(Nat)

VARIABLES
  sessions,   \* ACTIVE, GEN, TOKENS and CK_DATA per session
  SAVE, CLIP, \* what the slots and the clipboard hold
  card,       \* MC_PERM, MC_BUDGET, MC_TOKENS, MC_CALLS
  AUDIT, AUDIT_POS, AUDIT_NUM,
  verdicts,   \* history: the answers to the last AUDIT_N calls
  spent,      \* history: tokens granted since the card was registered
  TRACE_ON, TRACE_FILTER, TRACE_RING, TRACE_POS,
  traced,     \* history: the last TRACE_N calls that were to be recorded
  models,     \* ESIZE and EACTIVE per slot of the registry
  image, bootcount,   \* on the drive
  upd,        \* PENDING, UPD_COUNT and BOOT_COUNT
  cutShort,   \* history: the last update was not read back as a whole
  CH_BUF, CH_K, CH_Y, CH_GAIN

storeVars == <<sessions, SAVE, CLIP>>
cardVars  == <<card, AUDIT, AUDIT_POS, AUDIT_NUM, verdicts, spent>>
traceVars == <<TRACE_ON, TRACE_FILTER, TRACE_RING, TRACE_POS, traced>>
imageVars == <<models, image, bootcount, upd, cutShort>>
mixVars   == <<CH_BUF, CH_K, CH_Y, CH_GAIN>>
tableVars == <<storeVars, cardVars, traceVars, imageVars, mixVars>>

Lesser(a, b) == IF a < b THEN a ELSE b
FirstOf(d, n) == SubSeq(d, 1, Lesser(Len(d), n))
LeastOf(S) == CHOOSE x \in S : \A y \in S : x <= y

-----------------------------------------------------------------------------
(* Sessions, saves and the clipboard.                                      *)

Ids == 0 .. NS        \* one more than there are
Unused == [used |-> FALSE, data |-> <<>>]

\* An id beyond the table means the last session.
SlotOfId(id) == Lesser(id, NS - 1)

FreshSession == [active |-> TRUE, gen |-> 0, tokens |-> 0, data |-> <<>>]

SessCreate(id) ==
  LET i == SlotOfId(id)
  IN  /\ ~sessions[i].active
      /\ sessions' = [sessions EXCEPT ![i] = FreshSession]
      /\ UNCHANGED <<SAVE, CLIP>>

SessSave(id, d) ==
  LET i == SlotOfId(id)
  IN  /\ sessions[i].active
      /\ sessions' = [sessions EXCEPT ![i].data = FirstOf(d, CK)]
      /\ UNCHANGED <<SAVE, CLIP>>

\* 0x7E03 counts a generation, 0x7E05 tokens, up to the bound of the model.
SessLoad(id) ==
  LET i == SlotOfId(id)
  IN  /\ sessions[i].active /\ sessions[i].gen < COUNT_MAX
      /\ sessions' = [sessions EXCEPT ![i].gen = @ + 1]
      /\ UNCHANGED <<SAVE, CLIP>>

SessTick(id) ==
  LET i == SlotOfId(id)
  IN  /\ sessions[i].active /\ sessions[i].tokens < COUNT_MAX
      /\ sessions' = [sessions EXCEPT ![i].tokens = @ + 1]
      /\ UNCHANGED <<SAVE, CLIP>>

\* 0x6701 refuses what would not leave room for the header.
SaveWrite(s, d) ==
  /\ Len(d) < SAVE_SZ
  /\ SAVE' = [SAVE EXCEPT ![s] = [used |-> TRUE, data |-> d]]
  /\ UNCHANGED <<sessions, CLIP>>

\* 0x5801 keeps one byte for the terminator.
ClipSet(d) ==
  /\ CLIP' = FirstOf(d, CLIP_MAX - 1)
  /\ UNCHANGED <<sessions, SAVE>>

StoreInit ==
  /\ sessions = [i \in 0 .. NS - 1 |-> [FreshSession EXCEPT !.active = FALSE]]
  /\ SAVE = [s \in 0 .. SAVES - 1 |-> Unused] /\ CLIP = <<>>

StoreNext ==
  \/ \E id \in Ids : \/ SessCreate(id) \/ SessLoad(id) \/ SessTick(id)
                     \/ \E d \in Data : SessSave(id, d)
  \/ \E s \in 0 .. SAVES - 1, d \in Data : SaveWrite(s, d)
  \/ \E d \in Data : ClipSet(d)

-----------------------------------------------------------------------------
(* The model card.                                                         *)

Perms == SUBSET {"read", "act"}
Tokens == 0 .. TOKEN_MOD - 1
Unlimited == TOKEN_MOD - 1

NoCard == [registered |-> FALSE, perm |-> {}, budget |-> 0, tokens |-> 0,
           calls |-> 0]

\* 0x7D01 starts the account anew; the audit goes on.
McRegister(perm, budget) ==
  /\ card' = [registered |-> TRUE, perm |-> perm, budget |-> budget,
              tokens |-> 0, calls |-> 0]
  /\ spent' = 0
  /\ UNCHANGED <<AUDIT, AUDIT_POS, AUDIT_NUM, verdicts>>

\* The sum wraps around.
OverBudgetLate(tokens) ==
  card.budget \notin {0, Unlimited} /\ card.tokens >= card.budget

OverBudget(tokens) ==
  /\ card.budget \notin {0, Unlimited}
  /\ (card.tokens + tokens) % TOKEN_MOD > card.budget

\* 0x7D02: granted or refused, the call goes into the audit.
SlotOfAudit(pos) == pos % AUDIT_N

McCall(tokens, need) ==
  /\ card.registered
  /\ LET ok == need \subseteq card.perm /\ ~OverBudget(tokens)
         entry == [tokens |-> tokens, granted |-> ok]
     IN  /\ card' = IF ~ok THEN card
                    ELSE [card EXCEPT !.tokens = (@ + tokens) % TOKEN_MOD,
                                      !.calls = Lesser(@ + 1, COUNT_MAX)]
         /\ spent' = IF ok THEN Lesser(spent + tokens, TOKEN_MOD) ELSE spent
         /\ AUDIT' = [AUDIT EXCEPT ![SlotOfAudit(AUDIT_POS)] = entry]
         /\ AUDIT_POS' = (AUDIT_POS + 1) % AUDIT_N
         /\ AUDIT_NUM' = Lesser(AUDIT_NUM + 1, AUDIT_N)
         /\ verdicts' = IF Len(verdicts) = AUDIT_N
                        THEN Append(Tail(verdicts), entry)
                        ELSE Append(verdicts, entry)

\* 0x7D04 with room for n entries: the last ones, the oldest first.  AUDIT_POS
\* is kept modulo the ring, AUDIT_NUM up to its size.
McAudit(n) ==
  LET m == Lesser(n, AUDIT_NUM)
  IN  [i \in 1 .. m |-> AUDIT[(AUDIT_POS + AUDIT_N - m + i - 1) % AUDIT_N]]

CardInit ==
  /\ card = NoCard /\ AUDIT_POS = 0 /\ AUDIT_NUM = 0 /\ verdicts = <<>> /\ spent = 0
  /\ AUDIT = [i \in 0 .. AUDIT_N - 1 |-> [tokens |-> 0, granted |-> TRUE]]

CardNext ==
  \/ \E perm \in Perms, budget \in Tokens : McRegister(perm, budget)
  \/ \E tokens \in Tokens, need \in Perms : McCall(tokens, need)

-----------------------------------------------------------------------------
(* The registry of models and the kernel image.                            *)

NotInstalled == [size |-> 0, active |-> FALSE]
FreeModels == {i \in 0 .. MODELS - 1 : models[i].size = 0}

\* 0x8401: a size of 0 leaves the slot free.
FupmInstall(size) ==
  /\ FreeModels /= {}
  /\ models' = [models EXCEPT ![LeastOf(FreeModels)].size = size]
  /\ UNCHANGED <<image, bootcount, upd, cutShort>>

\* 0x8403, 0x8404: an index beyond the table means the last slot.
RegActive(idx) ==
  LET i == Lesser(idx, MODELS - 1)
  IN  /\ models[i].size /= 0
      /\ models' = [k \in DOMAIN models |-> [models[k] EXCEPT !.active = k = i]]
      /\ UNCHANGED <<image, bootcount, upd, cutShort>>

FupmRemoveKeepsActive(idx) ==
  LET i == Lesser(idx, MODELS - 1)
  IN  /\ models[i].size /= 0
      /\ models' = [models EXCEPT ![i].size = 0]
      /\ UNCHANGED <<image, bootcount, upd, cutShort>>

FupmRemove(idx) ==
  LET i == Lesser(idx, MODELS - 1)
  IN  /\ models[i].size /= 0
      /\ models' = [models EXCEPT ![i] = NotInstalled]
      /\ UNCHANGED <<image, bootcount, upd, cutShort>>

\* An image is the module it came from, an update or what a bad drive makes of
\* it, and has a length.  The volume writes a file as a whole or not at all.
Images == [what : {"module", "update"}, len : {1, READBACK + 1}]
Damaged(img) == [img EXCEPT !.what = "damaged"]

\* 0x8802: the image in use is overwritten first and read back afterwards.
UpdApply(new, onDrive) ==
  /\ new.what = "update" /\ onDrive \in {new, Damaged(new)}
  /\ image' = [what |-> onDrive.what, len |-> onDrive.len, from |-> "update"]
  /\ IF new.len > READBACK THEN upd' = upd /\ cutShort' = TRUE
     ELSE /\ cutShort' = FALSE
          /\ upd' = IF onDrive = new
                    THEN [upd EXCEPT !.count = Lesser(@ + 1, COUNT_MAX), !.pending = FALSE]
                    ELSE [upd EXCEPT !.pending = TRUE]
  /\ UNCHANGED <<models, bootcount>>

\* 0x8701: the count on the drive is read, and written back whether or not
\* that succeeds; a count that cannot be read is 0.
InstInstall(onDrive, readable, writes) ==
  /\ onDrive.what \in {"module", "damaged"}
  /\ image' = [what |-> onDrive.what, len |-> onDrive.len, from |-> "install"]
  /\ upd' = [upd EXCEPT !.boot = (IF readable THEN bootcount ELSE 0) + 1]
  /\ upd'.boot <= COUNT_MAX
  /\ bootcount' = IF writes THEN upd'.boot ELSE bootcount
  /\ UNCHANGED <<models, cutShort>>

ImageInit ==
  /\ models = [i \in 0 .. MODELS - 1 |-> NotInstalled]
  /\ image = [what |-> "none", len |-> 0, from |-> "nobody"] /\ bootcount = 0
  /\ upd = [pending |-> FALSE, count |-> 0, boot |-> 0] /\ cutShort = FALSE

ImageNext ==
  \/ \E size \in 0 .. 1 : FupmInstall(size)
  \/ \E idx \in 0 .. MODELS : RegActive(idx) \/ FupmRemove(idx)
  \/ \E img \in Images : UpdApply(img, img) \/ UpdApply(img, Damaged(img))
  \/ \E img \in Images, readable, writes \in BOOLEAN :
       \/ InstInstall(img, readable, writes)
       \/ InstInstall(Damaged(img), readable, writes)

-----------------------------------------------------------------------------
(* The call trace.                                                         *)

\* fujo_syscall_dispatch, before anything else: 0 is no filter.
Recorded(nr) == TRACE_ON /\ TRACE_FILTER \in {0, nr}

\* TRACE_POS counts on for ever; the model wraps it around above the ring.
TracePos(p) == IF p + 1 = 2 * TRACE_N THEN TRACE_N ELSE p + 1

TraceNote(nr) ==
  IF Recorded(nr)
  THEN /\ TRACE_RING' = [TRACE_RING EXCEPT ![TRACE_POS % TRACE_N] = nr]
       /\ TRACE_POS' = TracePos(TRACE_POS)
       /\ traced' = IF Len(traced) = TRACE_N THEN Append(Tail(traced), nr)
                    ELSE Append(traced, nr)
  ELSE UNCHANGED <<TRACE_RING, TRACE_POS, traced>>

\* 0x5301 and 0x7701, 0x7703, and any other call.
TraceEnable(on) ==
  TraceNote(1) /\ TRACE_ON' = on /\ UNCHANGED TRACE_FILTER

TraceFilter(nr) ==
  TraceNote(2) /\ TRACE_FILTER' = nr /\ UNCHANGED TRACE_ON

OtherCall == TraceNote(3) /\ UNCHANGED <<TRACE_ON, TRACE_FILTER>>

\* trace_show.
TraceShownFromStart ==
  [k \in 1 .. Lesser(TRACE_POS, SHOWN) |-> TRACE_RING[(TRACE_POS + k - 1) % TRACE_N]]

TraceShown ==
  LET n == Lesser(TRACE_POS, SHOWN)
  IN  [k \in 1 .. n |-> TRACE_RING[(TRACE_POS + TRACE_N - n + k - 1) % TRACE_N]]

TraceInit ==
  /\ TRACE_ON = FALSE /\ TRACE_FILTER = 0 /\ TRACE_POS = 0 /\ traced = <<>>
  /\ TRACE_RING = [i \in 0 .. TRACE_N - 1 |-> 0]

TraceNext == \/ \E on \in BOOLEAN : TraceEnable(on)
             \/ \E nr \in 0 .. 3 : TraceFilter(nr)
             \/ OtherCall

-----------------------------------------------------------------------------
(* The mixer.                                                              *)

Channels == 0 .. NCH - 1
ChannelOf(ch) == Lesser(ch, NCH - 1)
Samples == {-SAMPLE_MAX - 1, 0, SAMPLE_MAX}

\* Rust divides towards zero.
Quotient(a, b) == IF a >= 0 THEN a \div b ELSE -((-a) \div b)

MixOpen(ch) ==
  LET c == ChannelOf(ch)
  IN  /\ CH_BUF' = [CH_BUF EXCEPT ![c] = <<>>]
      /\ CH_K' = [CH_K EXCEPT ![c] = KONE]
      /\ CH_Y' = [CH_Y EXCEPT ![c] = 0]
      /\ CH_GAIN' = [CH_GAIN EXCEPT ![c] = KONE]

\* 0x5F06 puts the samples where the ones before them were.
MixPush(ch, s) ==
  /\ CH_BUF' = [CH_BUF EXCEPT ![ChannelOf(ch)] = FirstOf(s, CBUF)]
  /\ UNCHANGED <<CH_K, CH_Y, CH_GAIN>>

\* 0x5F08.
MixEffectUnclamped(ch, kind, param) ==
  LET c == ChannelOf(ch)
  IN  /\ CH_K' = IF kind = 1 THEN [CH_K EXCEPT ![c] = param] ELSE CH_K
      /\ CH_GAIN' = IF kind = 2 THEN [CH_GAIN EXCEPT ![c] = param] ELSE CH_GAIN
      /\ UNCHANGED <<CH_BUF, CH_Y>>

MixEffect(ch, kind, param) ==
  LET c == ChannelOf(ch)
      p == Lesser(param, KONE)
  IN  /\ CH_K' = IF kind = 1 THEN [CH_K EXCEPT ![c] = p] ELSE CH_K
      /\ CH_GAIN' = IF kind = 2 THEN [CH_GAIN EXCEPT ![c] = p] ELSE CH_GAIN
      /\ UNCHANGED <<CH_BUF, CH_Y>>

\* 0x5F07: every sample moves the filter of its channel, one after the other.
Filtered(c, n) ==
  LET m == Lesser(n, Len(CH_BUF[c]))
      y[i \in 0 .. m] ==
        IF i = 0 THEN CH_Y[c]
        ELSE y[i - 1] + Quotient((CH_BUF[c][i] - y[i - 1]) * CH_K[c], KONE)
  IN  y[m]

MixRender(n) ==
  /\ CH_Y' = [c \in Channels |-> Filtered(c, n)]
  /\ UNCHANGED <<CH_BUF, CH_K, CH_GAIN>>

MixInit ==
  /\ CH_BUF = [c \in Channels |-> <<>>] /\ CH_K = [c \in Channels |-> KONE]
  /\ CH_Y = [c \in Channels |-> 0] /\ CH_GAIN = [c \in Channels |-> KONE]

MixNext ==
  \/ \E ch \in 0 .. NCH : \/ MixOpen(ch)
                          \/ \E n \in 0 .. CBUF : \E s \in [1 .. n -> Samples] :
                               MixPush(ch, s)
                          \/ \E kind \in 1 .. 2, param \in 0 .. KONE + 1 :
                               MixEffect(ch, kind, param)
  \/ \E n \in 0 .. CBUF : MixRender(n)

-----------------------------------------------------------------------------
(* Properties.                                                             *)

TableInit == StoreInit /\ CardInit /\ TraceInit /\ ImageInit /\ MixInit

\* What is stored fits where it is stored; the state of a filter stays within
\* the range of the samples it follows, whatever coefficients and samples come
\* in which order (audio.rs:172: a coefficient above 1 would overshoot).
TablesTypeOK ==
  /\ \A i \in 0 .. NS - 1 : Len(sessions[i].data) <= CK
  /\ \A s \in 0 .. SAVES - 1 : SAVE[s].used => Len(SAVE[s].data) < SAVE_SZ
  /\ Len(CLIP) < CLIP_MAX
  /\ AUDIT_POS \in 0 .. AUDIT_N - 1 /\ TRACE_POS \in 0 .. 2 * TRACE_N - 1
  /\ \A c \in Channels : CH_Y[c] \in -SAMPLE_MAX - 1 .. SAMPLE_MAX

\* The two rings that record what programs did show the last entries in their
\* order, across any number of turns and with any room to copy into
\* (modelcard.rs:97, syscall.rs:844), and the card's account is the sum of
\* what it granted, within its budget (modelcard.rs:64) -- as long as the sum
\* of all grants fits its word.
AccountsAgree ==
  /\ \A n \in 0 .. AUDIT_N :
       McAudit(n) = SubSeq(verdicts, Len(verdicts) - Lesser(n, Len(verdicts)) + 1,
                           Len(verdicts))
  /\ TraceShown = SubSeq(traced, Len(traced) - Lesser(SHOWN, Len(traced)) + 1,
                         Len(traced))
  /\ card.registered /\ spent < TOKEN_MOD =>
       /\ card.tokens = spent
       /\ card.budget \notin {0, Unlimited} => spent <= card.budget

\* At most one model is active, and it is installed (modelreg.rs:67, 86).
OneActiveModel ==
  \A i, k \in 0 .. MODELS - 1 :
    models[i].active => /\ models[i].size > 0
                        /\ models[k].active => i = k

\* An update that does not read back as it was sent is marked as pending
\* (upd.rs:67), although the image in use is already gone -- unless the image
\* is longer than what is read back, when nothing is marked.
UnverifiedIsPending ==
  image.what = "damaged" /\ image.from = "update" => upd.pending \/ cutShort

RecordsHonest == AccountsAgree /\ OneActiveModel /\ UnverifiedIsPending
=============================================================================

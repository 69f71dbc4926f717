----------------------------- MODULE ModelLink -----------------------------
(* The link between the kernel and the programs that run on the host: the
   model server, which answers requests for advice, and the box server, which
   runs a command and returns its product.

   Both use one request page in memory (0xA00000) and one serial port (COM2).
   A request is a frame in the page and a trigger line; the answer comes back
   as lines.  The kernel waits in a polling loop and gives up after a while;
   the host is then still at work, so lines of an abandoned call arrive during
   later ones.  The host reads the page when it gets to the trigger, not when
   the trigger was sent.  ai.rs and boxbridge.rs are the kernel's side; the
   two servers, the port and its losses are external.                       *)
EXTENDS Integers, Sequences, FiniteSets

CONSTANTS ATTEMPTS,      \* sends of the line protocol per call
          BOX_TTL,       \* ticks a box call waits
          TTL,           \* validity the model server declares for an answer
          MaxBlocks,     \* blocks the product buffer holds
          MaxAi,         \* bound: advice sequence numbers
          MaxBox,        \* bound: box sequence numbers
          MaxLost        \* bound: lines lost or damaged

ASSUME LinkAssumption ==
  /\ ATTEMPTS \in Nat \ {0} /\ BOX_TTL \in Nat \ {0}
  /\ TTL \in Nat /\ MaxBlocks \in Nat \ {0}
  /\ MaxAi \in Nat /\ MaxBox \in Nat /\ MaxLost \in Nat

VARIABLES
  server,   \* which program the host runs: "model" or "box"
  pc,       \* where the kernel is in the call it is executing
  kind,     \* which advice call: "classify", "advise" or "probe"
  attempt,  \* send of the line protocol
  aiSeq,    \* AI_SEQ
  boxSeq,   \* BOX_SEQ
  page,     \* the request page: whose header and whose payload it holds
  up,       \* trigger lines on their way to the host
  down,     \* answer lines being worked out or on their way to the kernel
  el,       \* ticks since the call was sent
  snap,     \* SNAP_VALID
  since,    \* what happened since SNAP_EVW and SNAP_T0 were taken
  reason,   \* SNAP_REASON
  buf,      \* the product buffer: the blocks up to BOX_BUF_N
  gateBad,  \* gate_bad
  provUp,   \* PROV_UP
  total,    \* PROV_TOTAL
  hits,     \* PROV_HIT and PROV_SCHEMA, which grow together
  fed7,     \* outcomes fed to duty 7 of the trust ledger: the box kept its
  good7,    \* contract; and how many of them were good
  fed8,     \* the same for duty 8: the product satisfies the predicate of
  good8,    \* its verb
  absent,   \* some box call ended with -4
  lost      \* lines lost or damaged so far

kernelVars == <<pc, kind, attempt, aiSeq, boxSeq, page, snap,
                since, reason>>
boxVars    == <<buf, gateBad, provUp, total, hits, fed7, good7, fed8,
                good8, absent>>
hostVars   == <<server, lost>>
vars == <<kernelVars, boxVars, hostVars, up, down, el>>

-----------------------------------------------------------------------------
(* Requests, frames and lines. *)

AiReq(n)  == [ch |-> "ai", n |-> n]
BoxReq(n) == [ch |-> "box", n |-> n]
Requests  == [ch : {"ai", "box"}, n : Nat]

Page == [hdr : Requests, body : Requests]
\* A page the host read between two writes shows one request.
Whole(p) == p.hdr = p.body

\* An answer without a validity, and one whose validity the port has lost.
NoTtl == -1
LostTtl == -2
Rsp(p, ok, ttl) == [k |-> "RSP", seq |-> p.hdr.n, src |-> p, ok |-> ok, ttl |-> ttl]
BoxRsp(p)       == [k |-> "BOXRSP", src |-> p]
Data(p, i, ok)  == [k |-> "DATA", src |-> p, off |-> i, ok |-> ok]
End(p)          == [k |-> "END", src |-> p]

SHM(n)    == [k |-> "SHM", n |-> n]
REQ(n)    == [k |-> "REQ", n |-> n]
BOXREQ(n) == [k |-> "BOXREQ", n |-> n]

\* A critical event was pushed; SNAP_T0 lies further back than any validity.
Quiet == [crit |-> FALSE, aged |-> FALSE]

-----------------------------------------------------------------------------
(* Sending a request. *)

Idle == pc = "idle"

\* shm_write_req up to the header: a new number, the snapshot of the time and
\* of the event ring, and the header of the frame.
AskModel ==
  /\ Idle /\ aiSeq + 1 + ATTEMPTS <= MaxAi
  /\ \E k \in {"classify", "advise", "probe"} : kind' = k
  /\ aiSeq' = aiSeq + 1
  /\ page' = [page EXCEPT !.hdr = AiReq(aiSeq + 1)]
  /\ snap' = TRUE /\ since' = Quiet
  /\ reason' = 0 /\ el' = 0 /\ pc' = "write" /\ attempt' = 0
  /\ UNCHANGED <<boxSeq, boxVars, hostVars, up, down>>

\* The payload and the trigger line.  r3_probe then raises a critical event
\* or moves the time of the snapshot back, as its mode says.
TriggerModel ==
  /\ pc = "write"
  /\ page' = [page EXCEPT !.body = AiReq(aiSeq)]
  /\ up' = Append(up, SHM(aiSeq))
  /\ \E c, a \in BOOLEAN :
       /\ (c \/ a) => kind = "probe"
       /\ since' = [crit |-> c, aged |-> a]
  /\ pc' = "shm"
  /\ UNCHANGED <<kind, attempt, aiSeq, boxSeq, snap, reason, boxVars,
                 hostVars, down, el>>

\* box_write_frame up to the header, after the call's state is cleared.
AskBox ==
  /\ Idle /\ boxSeq < MaxBox
  /\ boxSeq' = boxSeq + 1
  /\ total' = total + 1
  /\ buf' = <<>> /\ gateBad' = FALSE
  /\ page' = [page EXCEPT !.hdr = BoxReq(boxSeq + 1)]
  /\ el' = 0 /\ pc' = "boxwrite"
  /\ UNCHANGED <<kind, attempt, aiSeq, snap, since, reason, provUp, hits,
                 fed7, good7, fed8, good8, absent, hostVars, up, down>>

TriggerBox ==
  /\ pc = "boxwrite"
  /\ page' = [page EXCEPT !.body = BoxReq(boxSeq)]
  /\ up' = Append(up, BOXREQ(boxSeq))
  /\ pc' = "box"
  /\ UNCHANGED <<kind, attempt, aiSeq, boxSeq, snap, since, reason, boxVars,
                 hostVars, down, el>>

-----------------------------------------------------------------------------
(* Waiting for advice. *)

Waiting == pc \in {"shm", "ser"}

LineMatchesAny(l) == l.k = "RSP"
LineMatches(l) == l.k = "RSP" /\ l.seq = aiSeq

\* An answer in which no validity is read is valid for ever.
Expired(l) == l.ttl \in Nat /\ (since.aged \/ el > l.ttl)

\* Reason 1: a critical event since the snapshot.  Reason 2: the answer is
\* older than it says it may get.
DiscardReason(l) ==
  IF ~snap THEN 0
  ELSE IF since.crit THEN 1
  ELSE IF Expired(l) THEN 2 ELSE 0

Finish ==
  /\ pc' = "idle" /\ kind' = "none" /\ attempt' = 0 /\ el' = 0
  /\ UNCHANGED <<aiSeq, up>>

\* One more send of the line protocol; every send has a number of its own.
Resend(i) ==
  /\ aiSeq' = aiSeq + 1 /\ attempt' = i
  /\ up' = Append(up, REQ(aiSeq + 1))
  /\ pc' = "ser" /\ el' = 0
  /\ UNCHANGED kind

NoAnswerUnlimited ==
  IF kind = "classify" THEN Resend(attempt + 1) ELSE Finish

\* What a call does when a wait brought no usable answer: only classify falls
\* back to the line protocol, up to ATTEMPTS sends.
NoAnswer ==
  IF kind = "classify" /\ attempt < ATTEMPTS
    THEN Resend(attempt + 1) ELSE Finish

\* An answer discarded as stale ends the call.
Discarded(why) == reason' = why /\ Finish

SkipClearing ==
  snap' = FALSE /\ UNCHANGED <<pc, kind, aiSeq, attempt, up, el, reason>>

\* A line for another request is dropped: the wait goes on, snapshot and all.
Skip == UNCHANGED <<pc, kind, aiSeq, attempt, up, el, snap, reason>>

Receive ==
  /\ Waiting /\ down # <<>>
  /\ LET l == Head(down) IN
       /\ down' = Tail(down)
       /\ IF ~LineMatches(l) THEN Skip
          ELSE /\ snap' = FALSE
               /\ IF DiscardReason(l) # 0 THEN Discarded(DiscardReason(l))
                  ELSE /\ reason' = 0
                       /\ IF l.ok THEN Finish ELSE NoAnswer
  /\ UNCHANGED <<boxSeq, page, since, boxVars, hostVars>>

\* The polling loop ends after LINK_TIMEOUT ticks, or earlier when it has
\* turned 120 million times.
GiveUp ==
  /\ Waiting
  /\ snap' = FALSE /\ reason' = 0
  /\ NoAnswer
  /\ UNCHANGED <<boxSeq, page, since, boxVars, hostVars, down>>

-----------------------------------------------------------------------------
(* Waiting for a product. *)

PassesGateAnyOffset(l) == l.ok /\ Len(buf) < MaxBlocks

\* A data line passes the gate when it continues the buffer and its bytes pass
\* the checks; its sequence number is not looked at.
PassesGate(l) == l.off = Len(buf) /\ l.ok /\ Len(buf) < MaxBlocks

\* fujo_qual_feed for the two duties; the ledger itself is Authority's.
Feed7(good) == fed7' = fed7 + 1 /\ good7' = good7 + IF good THEN 1 ELSE 0
Feed8(good) == fed8' = fed8 + 1 /\ good8' = good8 + IF good THEN 1 ELSE 0

VerdictTimeoutUnfed ==
  /\ absent' = TRUE /\ provUp' = FALSE
  /\ UNCHANGED <<buf, hits, fed7, good7, fed8, good8>>

\* The four ends of a call: no answer (-4), a product refused by the gate (-2),
\* one that violates the form its verb demands (-3), one accepted (0).
VerdictTimeout ==
  /\ absent' = TRUE /\ provUp' = FALSE
  /\ Feed7(FALSE)
  /\ UNCHANGED <<buf, hits, fed8, good8>>
VerdictRejected ==
  /\ buf' = <<>>
  /\ Feed7(FALSE)
  /\ UNCHANGED <<provUp, hits, fed8, good8, absent>>
VerdictSchema ==
  /\ Feed7(TRUE) /\ Feed8(FALSE)
  /\ UNCHANGED <<buf, provUp, hits, absent>>
VerdictAccepted ==
  /\ hits' = hits + 1
  /\ Feed7(TRUE) /\ Feed8(TRUE)
  /\ UNCHANGED <<buf, provUp, absent>>

\* Whether the text has the form its verb demands is a choice here.
Verdict ==
  IF gateBad \/ buf = <<>> THEN VerdictRejected
  ELSE VerdictSchema \/ VerdictAccepted

Return == pc' = "idle" /\ el' = 0 /\ gateBad' = FALSE

\* A block that fails the gate marks the whole product.
TakeData(l) ==
  /\ IF PassesGate(l)
       THEN buf' = Append(buf, l) /\ UNCHANGED gateBad
       ELSE gateBad' = TRUE /\ UNCHANGED buf
  /\ UNCHANGED <<pc, el, provUp, hits, fed7, good7, fed8, good8, absent>>

TakeStatus ==
  /\ provUp' = TRUE
  /\ UNCHANGED <<pc, el, buf, gateBad, hits, fed7, good7, fed8, good8, absent>>

ReceiveBox ==
  /\ pc = "box" /\ el < BOX_TTL /\ down # <<>>
  /\ down' = Tail(down)
  /\ \/ Head(down).k = "DATA" /\ TakeData(Head(down))
     \/ Head(down).k = "BOXRSP" /\ TakeStatus
     \/ Head(down).k = "END" /\ Verdict /\ Return
     \/ Head(down).k = "RSP" /\ UNCHANGED <<pc, el, boxVars>>
  /\ UNCHANGED <<kind, attempt, aiSeq, boxSeq, page, snap, since, reason,
                 total, hostVars, up>>

GiveUpBoxWhenSilent ==
  /\ pc = "box" /\ el >= BOX_TTL /\ down = <<>>
  /\ VerdictTimeout /\ Return
  /\ UNCHANGED <<kind, attempt, aiSeq, boxSeq, page, snap, since,
                 reason, total, hostVars, up, down>>

GiveUpBox ==
  /\ pc = "box" /\ el >= BOX_TTL
  /\ VerdictTimeout /\ Return
  /\ UNCHANGED <<kind, attempt, aiSeq, boxSeq, page, snap, since,
                 reason, total, hostVars, up, down>>

-----------------------------------------------------------------------------
(* Time, the host and the line. *)

MaxEl == IF TTL >= BOX_TTL THEN TTL + 1 ELSE BOX_TTL

\* The timer interrupt; el stops where no comparison changes any more.
Tick ==
  /\ ~Idle /\ el < MaxEl
  /\ el' = el + 1
  /\ UNCHANGED <<kernelVars, boxVars, hostVars, up, down>>

Product(p, n) == [i \in 1 .. n |-> Data(p, i - 1, TRUE)]

\* The lines the host answers trigger t with: it reads the page as it is now.
\* Nothing at all, when the trigger is damaged or the page cannot be read.
Answers(t) ==
  {<<>>}
    \cup (IF t.k = "SHM" /\ server = "model"
          THEN {<<Rsp(page, TRUE, TTL)>>} ELSE {})
    \cup (IF t.k = "REQ" /\ server = "model"
          THEN {<<Rsp([hdr |-> AiReq(t.n), body |-> AiReq(t.n)], TRUE, NoTtl)>>}
          ELSE {})
    \cup (IF t.k = "BOXREQ" /\ server = "box"
          THEN {<<BoxRsp(page)>> \o Product(page, n) \o <<End(page)>> :
                  n \in 1 .. MaxBlocks + 1}
                 \cup {<<End(page)>>}
          ELSE {})

HostTakes ==
  /\ up # <<>>
  /\ up' = Tail(up)
  /\ \E ls \in Answers(Head(up)) : down' = down \o ls
  /\ UNCHANGED <<kernelVars, boxVars, hostVars, el>>

\* What follows the number of a line is unusable, as when the box produced bytes
\* the gate refuses; or an answer loses the validity it ends with.
Damaged(l) ==
  IF l.k \notin {"RSP", "DATA"} THEN {}
  ELSE {[l EXCEPT !.ok = FALSE]}
       \cup IF l.k = "DATA" \/ l.ttl = NoTtl THEN {}
            ELSE {[l EXCEPT !.ttl = LostTtl], [l EXCEPT !.ok = FALSE, !.ttl = LostTtl]}

\* The port drops bytes in bursts: a line vanishes or is damaged.
LineFails ==
  /\ down # <<>> /\ lost < MaxLost /\ lost' = lost + 1
  /\ \/ down' = Tail(down)
     \/ \E m \in Damaged(Head(down)) \ {Head(down)} : down' = <<m>> \o Tail(down)
  /\ UNCHANGED <<kernelVars, boxVars, server, up, el>>

-----------------------------------------------------------------------------
Init ==
  /\ server \in {"model", "box"}
  /\ pc = "idle" /\ kind = "none" /\ attempt = 0
  /\ aiSeq = 0 /\ boxSeq = 0
  /\ page = [hdr |-> AiReq(0), body |-> AiReq(0)]
  /\ up = <<>> /\ down = <<>> /\ el = 0
  /\ snap = FALSE /\ since = Quiet /\ reason = 0
  /\ buf = <<>> /\ gateBad = FALSE /\ absent = FALSE /\ lost = 0
  /\ provUp = FALSE /\ total = 0 /\ hits = 0
  /\ fed7 = 0 /\ good7 = 0 /\ fed8 = 0 /\ good8 = 0

Next ==
  \/ AskModel \/ TriggerModel \/ Receive \/ GiveUp
  \/ AskBox \/ TriggerBox \/ ReceiveBox \/ GiveUpBox
  \/ Tick \/ HostTakes \/ LineFails

\* The kernel's own steps, one of which it is always at: the polling loops run
\* on, and the timer interrupt stays enabled.
KernelRuns == TriggerModel \/ GiveUp \/ TriggerBox \/ GiveUpBox
Fairness == WF_vars(KernelRuns) /\ WF_vars(Tick)

Spec == Init /\ [][Next]_vars /\ Fairness

-----------------------------------------------------------------------------
(* Properties. *)

AnswerLines ==
  [k : {"RSP"}, seq : Nat, src : Page, ok : BOOLEAN, ttl : {NoTtl, LostTtl, TTL}]
    \cup [k : {"BOXRSP", "END"}, src : Page]
    \cup [k : {"DATA"}, src : Page, off : 0 .. MaxBlocks, ok : BOOLEAN]
Triggers == [k : {"SHM", "REQ", "BOXREQ"}, n : Nat]

\* The type invariant.
TypeOK ==
  /\ server \in {"model", "box"}
  /\ pc \in {"idle", "write", "shm", "ser", "boxwrite", "box"}
  /\ kind \in {"none", "classify", "advise", "probe"}
  /\ attempt \in 0 .. ATTEMPTS
  /\ aiSeq \in Nat /\ boxSeq \in 0 .. MaxBox
  /\ page \in Page
  /\ up \in Seq(Triggers)
  /\ down \in Seq(AnswerLines)
  /\ el \in 0 .. MaxEl
  /\ snap \in BOOLEAN /\ since \in [crit : BOOLEAN, aged : BOOLEAN]
  /\ reason \in 0 .. 2
  /\ buf \in Seq(AnswerLines) /\ Len(buf) <= MaxBlocks
  /\ gateBad \in BOOLEAN /\ provUp \in BOOLEAN /\ absent \in BOOLEAN
  /\ total \in Nat /\ hits \in Nat
  /\ fed7 \in Nat /\ good7 \in Nat /\ fed8 \in Nat /\ good8 \in Nat
  /\ lost \in 0 .. MaxLost

\* The step that hands an answer of the host to the caller as advice.
Adopts ==
  /\ Waiting /\ pc' = "idle" /\ down' # down
  /\ reason' = 0 /\ Head(down).k = "RSP" /\ Head(down).ok

\* The answer adopted was worked out from the request of this very send, however
\* many calls gave up before and whatever they left in the port; the sequence
\* numbers assure that (wait_rsp), with two exceptions: the host read the page
\* while the kernel was writing the next frame, or read the frame of a box
\* call, whose numbers come from a counter of their own.  An answer to the
\* line protocol is exposed to the second only.
AdviceIsOwn ==
  [][Adopts => LET p == Head(down).src IN
                 \/ p.body = AiReq(aiSeq)
                 \/ p.hdr.ch = "box"
                 \/ pc = "shm" /\ ~Whole(p)]_vars

\* R3: no advice is adopted after a critical event that came during its call,
\* or past the validity it was given, unless the port lost that; and an answer
\* refused for either ends the call: only an unreadable one leads on to the line
\* protocol (wait_rsp, qwen_classify).
StaleAdviceRefused ==
  [][/\ Adopts => /\ ~since.crit
                  /\ pc = "shm" => \/ ~since.aged /\ el <= TTL
                                   \/ Head(down).ttl = LostTtl
     /\ (pc = "shm" /\ pc' = "ser" /\ down' # down) =>
          ~since.crit /\ ~Expired(Head(down))]_vars

AcceptsProduct == hits' # hits

\* As long as no box call has run into its timeout, a product accepted is the
\* one of this call, its blocks in order from the first; nothing else keeps an
\* earlier product out, as the kernel does not look at the numbers of the box's
\* lines (fujo_box_run).
ProductIsOwn ==
  [][AcceptsProduct /\ ~absent =>
       \A i \in DOMAIN buf' :
         buf'[i].src.body = BoxReq(boxSeq) /\ buf'[i].off = i - 1]_vars

\* Every box call that passed the domain gate feeds duty 7 once, feeds duty 8
\* exactly when the contract was kept, and is a hit exactly when both outcomes
\* are good, whichever of its four ends it met (fujo_box_run).
LedgerComplete ==
  /\ total = fed7 + IF pc \in {"boxwrite", "box"} THEN 1 ELSE 0
  /\ good7 = fed8
  /\ good8 = hits

\* Every call comes back, whatever the host does or leaves undone: the kernel is
\* idle again and again (wait_rsp, fujo_box_run).
CallEnds == []<>Idle
=============================================================================

-------------------------- MODULE ModelLinkProofs --------------------------
(* Proofs about ModelLink: its type invariant, the ledger of the box calls,
   and the provenance of the advice that is adopted.                        *)
EXTENDS ModelLink, SequenceTheorems, TLAPS

USE LinkAssumption

-----------------------------------------------------------------------------
(* Lines and pages. *)

LEMMA LineTypes ==
  ASSUME NEW p \in Page
  PROVE  /\ \A ok \in BOOLEAN, t \in {NoTtl, TTL} : Rsp(p, ok, t) \in AnswerLines
         /\ BoxRsp(p) \in AnswerLines /\ End(p) \in AnswerLines
         /\ \A i \in 0 .. MaxBlocks, ok \in BOOLEAN : Data(p, i, ok) \in AnswerLines
<1>1. p.hdr.n \in Nat
  BY DEF Page, Requests
<1>2. \A ok \in BOOLEAN, t \in {NoTtl, TTL} : Rsp(p, ok, t) \in AnswerLines
  BY <1>1 DEF Rsp, AnswerLines
<1>3. BoxRsp(p) \in AnswerLines /\ End(p) \in AnswerLines
  BY DEF BoxRsp, End, AnswerLines
<1>4. \A i \in 0 .. MaxBlocks, ok \in BOOLEAN : Data(p, i, ok) \in AnswerLines
  BY DEF Data, AnswerLines
<1> QED
  BY <1>2, <1>3, <1>4

LEMMA RequestTypes ==
  \A n \in Nat : AiReq(n) \in Requests /\ BoxReq(n) \in Requests
BY DEF AiReq, BoxReq, Requests

LEMMA PageTypes ==
  ASSUME NEW p \in Page, NEW n \in Nat
  PROVE  /\ AiReq(n) \in Requests /\ BoxReq(n) \in Requests
         /\ \A q \in Requests : /\ [p EXCEPT !.hdr = q] \in Page
                                /\ [p EXCEPT !.body = q] \in Page
         /\ [hdr |-> AiReq(n), body |-> AiReq(n)] \in Page
<1>1. AiReq(n) \in Requests /\ BoxReq(n) \in Requests
  BY DEF AiReq, BoxReq, Requests
<1>2. ASSUME NEW q \in Requests
      PROVE  [p EXCEPT !.hdr = q] \in Page /\ [p EXCEPT !.body = q] \in Page
  BY DEF Page
<1>3. [hdr |-> AiReq(n), body |-> AiReq(n)] \in Page
  BY <1>1 DEF Page
<1> QED
  BY <1>1, <1>2, <1>3

\* Sequences: what is taken from the front, appended and concatenated.
LEMMA TailType ==
  ASSUME NEW S, NEW q \in Seq(S), q # <<>>
  PROVE  /\ Head(q) \in S /\ Tail(q) \in Seq(S)
         /\ \A i \in DOMAIN Tail(q) : \E j \in DOMAIN q : Tail(q)[i] = q[j]
<1>1. Head(q) \in S /\ Tail(q) \in Seq(S)
  OBVIOUS
<1>2. ASSUME NEW i \in DOMAIN Tail(q)
      PROVE  i + 1 \in DOMAIN q /\ Tail(q)[i] = q[i + 1]
  OBVIOUS
<1> QED
  BY <1>1, <1>2

LEMMA ConcatElements ==
  ASSUME NEW S, NEW q \in Seq(S), NEW r \in Seq(S), NEW i \in DOMAIN (q \o r)
  PROVE  \/ \E j \in DOMAIN q : (q \o r)[i] = q[j]
         \/ \E j \in DOMAIN r : (q \o r)[i] = r[j]
<1>1. CASE i <= Len(q)
  <2>1. i \in DOMAIN q /\ (q \o r)[i] = q[i]
    BY <1>1
  <2> QED
    BY <2>1
<1>2. CASE ~(i <= Len(q))
  <2>1. i - Len(q) \in DOMAIN r /\ (q \o r)[i] = r[i - Len(q)]
    BY <1>2
  <2> QED
    BY <2>1
<1> QED
  BY <1>1, <1>2

\* What the host sends in answer to a trigger.
LEMMA AnswersType ==
  ASSUME page \in Page, NEW t \in Triggers, NEW ls \in Answers(t)
  PROVE  ls \in Seq(AnswerLines)
<1>1. CASE ls = <<>>
  BY <1>1
<1>2. CASE ls = <<Rsp(page, TRUE, TTL)>>
  <2> DEFINE l == Rsp(page, TRUE, TTL)
  <2>1. l \in AnswerLines /\ ls = <<l>>
    BY <1>2, LineTypes
  <2> HIDE DEF l
  <2> QED
    BY <2>1
<1>3. CASE ls = <<Rsp([hdr |-> AiReq(t.n), body |-> AiReq(t.n)], TRUE, NoTtl)>>
  <2>1. t.n \in Nat
    BY DEF Triggers
  <2>2. [hdr |-> AiReq(t.n), body |-> AiReq(t.n)] \in Page
    BY <2>1, PageTypes
  <2> DEFINE l == Rsp([hdr |-> AiReq(t.n), body |-> AiReq(t.n)], TRUE, NoTtl)
  <2>3. l \in AnswerLines /\ ls = <<l>>
    BY <1>3, <2>2, LineTypes
  <2> HIDE DEF l
  <2> QED
    BY <2>3
<1>4. CASE ls = <<End(page)>>
  BY <1>4, LineTypes
<1>5. ASSUME NEW n \in 1 .. MaxBlocks + 1,
             ls = <<BoxRsp(page)>> \o Product(page, n) \o <<End(page)>>
      PROVE  ls \in Seq(AnswerLines)
  <2>1. Product(page, n) \in Seq(AnswerLines)
    <3>1. ASSUME NEW i \in 1 .. n PROVE Data(page, i - 1, TRUE) \in AnswerLines
      <4>1. i - 1 \in 0 .. MaxBlocks
        OBVIOUS
      <4> QED
        BY <4>1, LineTypes
    <3>2. Product(page, n) \in [1 .. n -> AnswerLines]
      BY <3>1 DEF Product
    <3> QED
      BY <3>2, SeqDef
  <2>2. <<BoxRsp(page)>> \in Seq(AnswerLines) /\ <<End(page)>> \in Seq(AnswerLines)
    BY LineTypes
  <2>3. <<BoxRsp(page)>> \o Product(page, n) \in Seq(AnswerLines)
    BY <2>1, <2>2
  <2> QED
    BY <1>5, <2>2, <2>3
<1> QED
  BY <1>1, <1>2, <1>3, <1>4, <1>5 DEF Answers

-----------------------------------------------------------------------------
(* Type correctness. *)

LEMMA NoTime == 0 \in 0 .. MaxEl /\ MaxEl \in Nat
BY DEF MaxEl

LEMMA NoBlocks == <<>> \in Seq(AnswerLines) /\ Len(<<>>) <= MaxBlocks
<1>1. <<>> \in Seq(AnswerLines) /\ Len(<<>>) = 0
  OBVIOUS
<1> QED
  BY <1>1

LEMMA TypeInit == Init => TypeOK
<1> SUFFICES ASSUME Init PROVE TypeOK
  OBVIOUS
<1>1. page \in Page
  BY PageTypes DEF Init, Page, AiReq, Requests
<1>2. el \in 0 .. MaxEl
  BY NoTime DEF Init
<1>3. buf \in Seq(AnswerLines) /\ Len(buf) <= MaxBlocks /\ down \in Seq(AnswerLines)
  BY NoBlocks DEF Init
<1>4. up \in Seq(Triggers)
  BY DEF Init
<1>5. since \in [crit : BOOLEAN, aged : BOOLEAN]
  BY DEF Init, Quiet
<1>6. attempt \in 0 .. ATTEMPTS /\ boxSeq \in 0 .. MaxBox /\ lost \in 0 .. MaxLost
  BY DEF Init
<1>7. snap \in BOOLEAN /\ gateBad \in BOOLEAN /\ provUp \in BOOLEAN /\ absent \in BOOLEAN
  BY DEF Init
<1>8. /\ aiSeq \in Nat /\ reason \in 0 .. 2 /\ total \in Nat /\ hits \in Nat
      /\ fed7 \in Nat /\ good7 \in Nat /\ fed8 \in Nat /\ good8 \in Nat
  BY DEF Init
<1>9. /\ server \in {"model", "box"} /\ pc = "idle" /\ kind = "none"
  BY DEF Init
<1> QED
  BY <1>1, <1>2, <1>3, <1>4, <1>5, <1>6, <1>7, <1>8, <1>9 DEF TypeOK

\* The wait that brought no answer: another send, or the end of the call.
LEMMA NoAnswerType ==
  ASSUME TypeOK, Waiting, NoAnswer
  PROVE  /\ pc' \in {"idle", "ser"} /\ kind' \in {"none", "classify"}
         /\ attempt' \in 0 .. ATTEMPTS /\ aiSeq' \in Nat
         /\ up' \in Seq(Triggers) /\ el' = 0
<1>1. CASE kind = "classify" /\ attempt < ATTEMPTS
  <2>1. Resend(attempt + 1)
    BY <1>1 DEF NoAnswer
  <2>2. REQ(aiSeq + 1) \in Triggers
    BY DEF REQ, Triggers, TypeOK
  <2> QED
    BY <1>1, <2>1, <2>2 DEF Resend, TypeOK
<1>2. CASE ~(kind = "classify" /\ attempt < ATTEMPTS)
  BY <1>2 DEF NoAnswer, Finish, TypeOK
<1> QED
  BY <1>1, <1>2

LEMMA FinishType ==
  ASSUME TypeOK, Finish
  PROVE  /\ pc' \in {"idle", "ser"} /\ kind' \in {"none", "classify"}
         /\ attempt' \in 0 .. ATTEMPTS /\ aiSeq' \in Nat
         /\ up' \in Seq(Triggers) /\ el' = 0
BY DEF Finish, TypeOK

\* Receive disturbs the variables of the advice call only.
LEMMA AdviceStepType ==
  ASSUME TypeOK,
         /\ pc' \in {"idle", "ser"} /\ kind' \in {"none", "classify"}
         /\ attempt' \in 0 .. ATTEMPTS /\ aiSeq' \in Nat
         /\ up' \in Seq(Triggers) /\ el' = 0,
         down' \in Seq(AnswerLines), snap' = FALSE, reason' \in 0 .. 2,
         UNCHANGED <<boxSeq, page, since, boxVars, hostVars>>
  PROVE  TypeOK'
<1>1. UNCHANGED <<server, lost, boxSeq, page, since, buf, gateBad, provUp, total,
                 hits, fed7, good7, fed8, good8, absent>>
  BY DEF boxVars, hostVars
<1>2. el' \in 0 .. MaxEl
  BY NoTime
<1> QED
  BY <1>1, <1>2 DEF TypeOK

LEMMA ReceiveType == TypeOK /\ Receive => TypeOK'
<1> SUFFICES ASSUME TypeOK, Receive PROVE TypeOK'
  OBVIOUS
<1> DEFINE l == Head(down)
<1>1. /\ down' = Tail(down) /\ down # <<>> /\ Waiting
      /\ UNCHANGED <<boxSeq, page, since, boxVars, hostVars>>
  BY DEF Receive
<1>2. down' \in Seq(AnswerLines)
  BY <1>1, TailType DEF TypeOK
<1>3. CASE ~LineMatches(l)
  <2>1. Skip
    BY <1>3 DEF Receive
  <2> QED
    BY <1>1, <1>2, <2>1 DEF Skip, TypeOK, boxVars, hostVars
<1>4. CASE LineMatches(l)
  <2>1. snap' = FALSE
    BY <1>4 DEF Receive
  <2>2. CASE DiscardReason(l) # 0
    <3>1. Finish /\ reason' \in 0 .. 2
      BY <1>4, <2>2 DEF Receive, Discarded, DiscardReason
    <3> QED
      BY <1>1, <1>2, <2>1, <3>1, FinishType, AdviceStepType
  <2>3. CASE DiscardReason(l) = 0
    <3>1. reason' = 0 /\ (Finish \/ NoAnswer)
      BY <1>4, <2>3 DEF Receive
    <3>2. /\ pc' \in {"idle", "ser"} /\ kind' \in {"none", "classify"}
          /\ attempt' \in 0 .. ATTEMPTS /\ aiSeq' \in Nat
          /\ up' \in Seq(Triggers) /\ el' = 0
      BY <1>1, <3>1, FinishType, NoAnswerType
    <3>3. reason' \in 0 .. 2
      BY <3>1
    <3>4. UNCHANGED <<boxSeq, page, since, boxVars, hostVars>>
      BY <1>1
    <3> HIDE DEF l
    <3> QED
      BY <1>2, <2>1, <3>2, <3>3, <3>4, AdviceStepType
  <2> QED
    BY <2>2, <2>3
<1> QED
  BY <1>3, <1>4

\* Every verdict keeps the types of the box call's variables.
LEMMA VerdictType ==
  ASSUME TypeOK, Verdict \/ VerdictTimeout
  PROVE  /\ buf' \in Seq(AnswerLines) /\ Len(buf') <= MaxBlocks
         /\ provUp' \in BOOLEAN /\ absent' \in BOOLEAN /\ hits' \in Nat
         /\ fed7' \in Nat /\ good7' \in Nat /\ fed8' \in Nat /\ good8' \in Nat
<1>1. CASE VerdictTimeout
  <2>1. fed7' = fed7 + 1 /\ good7' \in Nat
    BY <1>1 DEF VerdictTimeout, Feed7, TypeOK
  <2>2. /\ absent' = TRUE /\ provUp' = FALSE
        /\ UNCHANGED <<buf, hits, fed8, good8>>
    BY <1>1 DEF VerdictTimeout
  <2>3. buf' \in Seq(AnswerLines) /\ Len(buf') <= MaxBlocks
    BY <2>2 DEF TypeOK
  <2>4. fed7' \in Nat /\ hits' \in Nat /\ fed8' \in Nat /\ good8' \in Nat
    BY <2>1, <2>2 DEF TypeOK
  <2> QED
    BY <2>1, <2>2, <2>3, <2>4
<1>2. CASE VerdictRejected
  <2>1. buf' \in Seq(AnswerLines) /\ Len(buf') <= MaxBlocks
    BY <1>2, NoBlocks DEF VerdictRejected
  <2>2. fed7' = fed7 + 1 /\ good7' \in Nat
    BY <1>2 DEF VerdictRejected, Feed7, TypeOK
  <2>3. UNCHANGED <<provUp, hits, fed8, good8, absent>>
    BY <1>2 DEF VerdictRejected
  <2> QED
    BY <2>1, <2>2, <2>3 DEF TypeOK
<1>3. CASE VerdictSchema
  BY <1>3 DEF VerdictSchema, Feed7, Feed8, TypeOK
<1>4. CASE VerdictAccepted
  BY <1>4 DEF VerdictAccepted, Feed7, Feed8, TypeOK
<1> QED
  BY <1>1, <1>2, <1>3, <1>4 DEF Verdict

\* A damaged line is a line; it keeps its kind, its number and its source, and
\* whether it ever had a validity.
LEMMA DamagedLine ==
  ASSUME NEW l \in AnswerLines, NEW m \in Damaged(l)
  PROVE  /\ m \in AnswerLines /\ m.k = l.k /\ m.src = l.src
         /\ l.k = "RSP" => m.seq = l.seq /\ (m.ttl = NoTtl => l.ttl = NoTtl)
<1>1. CASE l \in [k : {"RSP"}, seq : Nat, src : Page, ok : BOOLEAN,
                  ttl : {NoTtl, LostTtl, TTL}]
  <2>1. l.k = "RSP" /\ l.ok \in BOOLEAN /\ l.ttl \in {NoTtl, LostTtl, TTL}
    BY <1>1
  <2> DEFINE R == [k : {"RSP"}, seq : Nat, src : Page, ok : BOOLEAN,
                   ttl : {NoTtl, LostTtl, TTL}]
  <2>2. NoTtl # LostTtl
    BY DEF NoTtl, LostTtl
  <2>3. CASE m = [l EXCEPT !.ok = FALSE]
    <3>1. m \in R /\ m.src = l.src /\ m.seq = l.seq /\ m.ttl = l.ttl
      BY <1>1, <2>3
    <3> QED
      BY <2>1, <3>1 DEF AnswerLines
  <2>4. CASE m = [l EXCEPT !.ttl = LostTtl] \/ m = [l EXCEPT !.ok = FALSE, !.ttl = LostTtl]
    <3>1. m \in R /\ m.src = l.src /\ m.seq = l.seq /\ m.ttl = LostTtl
      BY <1>1, <2>4
    <3> QED
      BY <2>1, <2>2, <3>1 DEF AnswerLines
  <2> QED
    BY <2>1, <2>3, <2>4 DEF Damaged
<1>2. CASE l \in [k : {"DATA"}, src : Page, off : 0 .. MaxBlocks, ok : BOOLEAN]
  <2>1. l.k = "DATA"
    BY <1>2
  <2>2. m = [l EXCEPT !.ok = FALSE]
    BY <2>1 DEF Damaged
  <2>3. /\ m \in [k : {"DATA"}, src : Page, off : 0 .. MaxBlocks, ok : BOOLEAN]
        /\ m.src = l.src
    BY <1>2, <2>2
  <2> QED
    BY <2>1, <2>3 DEF AnswerLines
<1>3. CASE l \in [k : {"BOXRSP", "END"}, src : Page]
  <2>1. l.k # "DATA" /\ l.k # "RSP"
    BY <1>3
  <2> QED
    BY <2>1 DEF Damaged
<1> QED
  BY <1>1, <1>2, <1>3 DEF AnswerLines

\* Every line that is left was there, in the same order, as it was or damaged.
LEMMA LinesLeft ==
  ASSUME TypeOK, LineFails
  PROVE  /\ down' \in Seq(AnswerLines)
         /\ \E n \in {0, 1} : \A i \in DOMAIN down' :
              /\ i \in Nat /\ i + n \in DOMAIN down
              /\ down'[i] = down[i + n] \/ down'[i] \in Damaged(down[i + n])
<1>1. down \in Seq(AnswerLines)
  BY DEF TypeOK
<1>2. down # <<>>
  BY DEF LineFails
<1>3. /\ 1 \in DOMAIN down /\ Head(down) = down[1] /\ down[1] \in AnswerLines
      /\ Tail(down) \in Seq(AnswerLines) /\ Len(Tail(down)) = Len(down) - 1
      /\ \A i \in DOMAIN Tail(down) :
           i \in Nat /\ i + 1 \in DOMAIN down /\ Tail(down)[i] = down[i + 1]
  BY <1>1, <1>2
<1>4. CASE down' = Tail(down)
  BY <1>3, <1>4
<1>5. CASE \E m \in Damaged(Head(down)) : down' = <<m>> \o Tail(down)
  <2>1. PICK m \in Damaged(down[1]) : down' = <<m>> \o Tail(down)
    BY <1>3, <1>5
  <2>2. m \in AnswerLines
    BY <1>3, DamagedLine
  <2>3. <<m>> \in Seq(AnswerLines)
    BY <2>2
  <2>4. down' \in Seq(AnswerLines)
    BY <1>3, <2>1, <2>3
  <2>5. \A i \in DOMAIN down' :
          /\ i \in Nat /\ i \in DOMAIN down
          /\ (i = 1 /\ down'[i] = m) \/ down'[i] = down[i]
    BY <1>1, <1>3, <2>1, <2>2
  <2>6. \A i \in DOMAIN down' :
          /\ i \in Nat /\ i + 0 \in DOMAIN down
          /\ down'[i] = down[i + 0] \/ down'[i] \in Damaged(down[i + 0])
    BY <2>5
  <2> QED
    BY <2>4, <2>6
<1> QED
  BY <1>4, <1>5 DEF LineFails

LEMMA ReceiveBoxType == TypeOK /\ ReceiveBox => TypeOK'
<1> SUFFICES ASSUME TypeOK, ReceiveBox PROVE TypeOK'
  OBVIOUS
<1> DEFINE l == Head(down)
<1>1. /\ down' = Tail(down) /\ down # <<>>
      /\ UNCHANGED <<kind, attempt, aiSeq, boxSeq, page, snap, since, reason,
                     total, hostVars, up>>
  BY DEF ReceiveBox
<1>2. l \in AnswerLines /\ down' \in Seq(AnswerLines)
  BY <1>1, TailType DEF TypeOK
<1>3. CASE TakeData(l)
  <2>1. buf' \in Seq(AnswerLines) /\ Len(buf') <= MaxBlocks /\ gateBad' \in BOOLEAN
    <3>1. CASE PassesGate(l)
      <4>1. buf' = Append(buf, l) /\ gateBad' = gateBad /\ Len(buf) < MaxBlocks
        BY <1>3, <3>1 DEF TakeData, PassesGate
      <4>2. buf \in Seq(AnswerLines) /\ gateBad \in BOOLEAN
        BY DEF TypeOK
      <4> HIDE DEF l
      <4>3. Len(Append(buf, l)) = Len(buf) + 1 /\ Append(buf, l) \in Seq(AnswerLines)
        BY <1>2, <4>2
      <4> QED
        BY <4>1, <4>2, <4>3
    <3>2. CASE ~PassesGate(l)
      BY <1>3, <3>2 DEF TakeData, TypeOK
    <3> QED
      BY <3>1, <3>2
  <2>2. UNCHANGED <<pc, el, provUp, hits, fed7, good7, fed8, good8, absent>>
    BY <1>3 DEF TakeData
  <2> QED
    BY <1>1, <1>2, <2>1, <2>2 DEF TypeOK, hostVars
<1>4. CASE TakeStatus
  BY <1>1, <1>2, <1>4 DEF TakeStatus, TypeOK, hostVars
<1>5. CASE Verdict /\ Return
  <2>1. pc' = "idle" /\ el' = 0 /\ gateBad' = FALSE
    BY <1>5 DEF Return
  <2> QED
    BY <1>1, <1>2, <1>5, <2>1, VerdictType, NoTime DEF TypeOK, hostVars
<1>6. CASE UNCHANGED <<pc, el, boxVars>>
  BY <1>1, <1>2, <1>6 DEF TypeOK, hostVars, boxVars
<1> QED
  BY <1>3, <1>4, <1>5, <1>6 DEF ReceiveBox

LEMMA TypeStep == TypeOK /\ [Next]_vars => TypeOK'
<1> SUFFICES ASSUME TypeOK, [Next]_vars PROVE TypeOK'
  OBVIOUS
<1>1. CASE AskModel
  <2>1. page' \in Page
    <3>1. AiReq(aiSeq + 1) \in Requests
      <4>1. aiSeq + 1 \in Nat
        BY DEF TypeOK
      <4> QED
        BY <4>1, RequestTypes
    <3> QED
      BY <1>1, <3>1, PageTypes DEF AskModel, TypeOK
  <2>2. since' \in [crit : BOOLEAN, aged : BOOLEAN]
    BY <1>1 DEF AskModel, Quiet
  <2>3. /\ kind' \in {"classify", "advise", "probe"} /\ aiSeq' = aiSeq + 1
        /\ snap' = TRUE /\ reason' = 0 /\ el' = 0 /\ pc' = "write" /\ attempt' = 0
        /\ UNCHANGED <<boxSeq, boxVars, hostVars, up, down>>
    BY <1>1 DEF AskModel
  <2> QED
    BY <2>1, <2>2, <2>3, NoTime DEF TypeOK, boxVars, hostVars
<1>2. CASE TriggerModel
  <2>1. page' \in Page
    <3>1. AiReq(aiSeq) \in Requests
      BY RequestTypes DEF TypeOK
    <3> QED
      BY <1>2, <3>1, PageTypes DEF TriggerModel, TypeOK
  <2>2. since' \in [crit : BOOLEAN, aged : BOOLEAN]
    BY <1>2 DEF TriggerModel
  <2>3. up' \in Seq(Triggers)
    <3>1. SHM(aiSeq) \in Triggers
      BY DEF SHM, Triggers, TypeOK
    <3> QED
      BY <1>2, <3>1 DEF TriggerModel, TypeOK
  <2>4. /\ pc' = "shm"
        /\ UNCHANGED <<kind, attempt, aiSeq, boxSeq, snap, reason, boxVars,
                       hostVars, down, el>>
    BY <1>2 DEF TriggerModel
  <2> QED
    BY <2>1, <2>2, <2>3, <2>4 DEF TypeOK, boxVars, hostVars
<1>3. CASE Receive
  BY <1>3, ReceiveType
<1>4. CASE GiveUp
  <2>1. /\ pc' \in {"idle", "ser"} /\ kind' \in {"none", "classify"}
        /\ attempt' \in 0 .. ATTEMPTS /\ aiSeq' \in Nat
        /\ up' \in Seq(Triggers) /\ el' = 0
    BY <1>4, NoAnswerType DEF GiveUp
  <2>2. /\ snap' = FALSE /\ reason' \in 0 .. 2
        /\ UNCHANGED <<boxSeq, page, since, boxVars, hostVars>>
    BY <1>4 DEF GiveUp
  <2>3. down' \in Seq(AnswerLines)
    BY <1>4 DEF GiveUp, TypeOK
  <2> QED
    BY <2>1, <2>2, <2>3, AdviceStepType
<1>5. CASE AskBox
  <2>1. page' \in Page
    <3>1. BoxReq(boxSeq + 1) \in Requests
      <4>1. boxSeq + 1 \in Nat
        BY DEF TypeOK
      <4> QED
        BY <4>1, RequestTypes
    <3> QED
      BY <1>5, <3>1, PageTypes DEF AskBox, TypeOK
  <2>2. buf' \in Seq(AnswerLines) /\ Len(buf') <= MaxBlocks
    BY <1>5, NoBlocks DEF AskBox
  <2>3. boxSeq' \in 0 .. MaxBox /\ total' \in Nat
    <3>1. boxSeq < MaxBox /\ boxSeq' = boxSeq + 1 /\ total' = total + 1
      BY <1>5 DEF AskBox
    <3>2. boxSeq \in 0 .. MaxBox /\ total \in Nat
      BY DEF TypeOK
    <3> QED
      BY <3>1, <3>2
  <2>4. /\ gateBad' = FALSE /\ el' = 0 /\ pc' = "boxwrite"
        /\ UNCHANGED <<kind, attempt, aiSeq, snap, since, reason, provUp, hits,
                       fed7, good7, fed8, good8, absent, hostVars, up, down>>
    BY <1>5 DEF AskBox
  <2> QED
    BY <2>1, <2>2, <2>3, <2>4, NoTime DEF TypeOK, hostVars
<1>6. CASE TriggerBox
  <2>1. page' \in Page
    <3>1. BoxReq(boxSeq) \in Requests
      <4>1. boxSeq \in Nat
        BY DEF TypeOK
      <4> QED
        BY <4>1, RequestTypes
    <3> QED
      BY <1>6, <3>1, PageTypes DEF TriggerBox, TypeOK
  <2>2. up' \in Seq(Triggers)
    <3>1. BOXREQ(boxSeq) \in Triggers
      BY DEF BOXREQ, Triggers, TypeOK
    <3> QED
      BY <1>6, <3>1 DEF TriggerBox, TypeOK
  <2>3. /\ pc' = "box"
        /\ UNCHANGED <<kind, attempt, aiSeq, boxSeq, snap, since, reason, boxVars,
                       hostVars, down, el>>
    BY <1>6 DEF TriggerBox
  <2> QED
    BY <2>1, <2>2, <2>3 DEF TypeOK, boxVars, hostVars
<1>7. CASE ReceiveBox
  BY <1>7, ReceiveBoxType
<1>8. CASE GiveUpBox
  <2>1. pc' = "idle" /\ el' = 0 /\ gateBad' = FALSE
    BY <1>8 DEF GiveUpBox, Return
  <2>2. UNCHANGED <<kind, attempt, aiSeq, boxSeq, page, snap, since, reason,
                   total, hostVars, up, down>>
    BY <1>8 DEF GiveUpBox
  <2>3. /\ buf' \in Seq(AnswerLines) /\ Len(buf') <= MaxBlocks
        /\ provUp' \in BOOLEAN /\ absent' \in BOOLEAN /\ hits' \in Nat
        /\ fed7' \in Nat /\ good7' \in Nat /\ fed8' \in Nat /\ good8' \in Nat
    BY <1>8, VerdictType DEF GiveUpBox
  <2> QED
    BY <2>1, <2>2, <2>3, NoTime DEF TypeOK, hostVars
<1>9. CASE Tick
  <2>1. el' \in 0 .. MaxEl
    BY <1>9, NoTime DEF Tick, TypeOK
  <2>2. UNCHANGED <<kernelVars, boxVars, hostVars, up, down>>
    BY <1>9 DEF Tick
  <2> QED
    BY <2>1, <2>2 DEF TypeOK, kernelVars, boxVars, hostVars
<1>10. CASE HostTakes
  <2>1. up' \in Seq(Triggers) /\ Head(up) \in Triggers
    BY <1>10, TailType DEF HostTakes, TypeOK
  <2>2. down' \in Seq(AnswerLines)
    <3>1. PICK ls \in Answers(Head(up)) : down' = down \o ls
      BY <1>10 DEF HostTakes
    <3>2. ls \in Seq(AnswerLines)
      BY <2>1, AnswersType DEF TypeOK
    <3> QED
      BY <3>1, <3>2 DEF TypeOK
  <2>3. UNCHANGED <<kernelVars, boxVars, hostVars, el>>
    BY <1>10 DEF HostTakes
  <2> QED
    BY <2>1, <2>2, <2>3 DEF TypeOK, kernelVars, boxVars, hostVars
<1>11. CASE LineFails
  <2>1. /\ down # <<>> /\ lost < MaxLost /\ lost' = lost + 1
        /\ UNCHANGED <<kernelVars, boxVars, server, up, el>>
    BY <1>11 DEF LineFails
  <2>2. down' \in Seq(AnswerLines)
    BY <1>11, LinesLeft
  <2>3. lost' \in 0 .. MaxLost
    BY <2>1 DEF TypeOK
  <2> QED
    BY <2>1, <2>2, <2>3 DEF TypeOK, kernelVars, boxVars
<1>12. CASE UNCHANGED vars
  BY <1>12 DEF vars, kernelVars, boxVars, hostVars, TypeOK
<1> QED
  BY <1>1, <1>2, <1>3, <1>4, <1>5, <1>6, <1>7, <1>8, <1>9, <1>10, <1>11, <1>12
  DEF Next

\* Every variable of the link keeps its type.
THEOREM TypeCorrect == Spec => []TypeOK
BY TypeInit, TypeStep, PTL DEF Spec

-----------------------------------------------------------------------------
(* The ledger of the box calls. *)

LEMMA LedgerStep == TypeOK /\ LedgerComplete /\ [Next]_vars => LedgerComplete'
<1> SUFFICES ASSUME TypeOK, LedgerComplete, [Next]_vars PROVE LedgerComplete'
  OBVIOUS
<1>1. /\ total \in Nat /\ hits \in Nat /\ fed7 \in Nat /\ good7 \in Nat
      /\ fed8 \in Nat /\ good8 \in Nat
  BY DEF TypeOK
<1>2. ASSUME UNCHANGED <<total, hits, fed7, good7, fed8, good8>>,
             pc \in {"boxwrite", "box"} <=> pc' \in {"boxwrite", "box"}
      PROVE  LedgerComplete'
  BY <1>2 DEF LedgerComplete
<1>3. ASSUME Verdict \/ VerdictTimeout, total' = total, pc = "box", pc' = "idle"
      PROVE  LedgerComplete'
  <2>1. total = fed7 + 1 /\ good7 = fed8 /\ good8 = hits
    BY <1>3 DEF LedgerComplete
  <2>2. fed7' = fed7 + 1 /\ good7' = fed8' /\ good8' = hits'
    <3>1. CASE VerdictTimeout \/ VerdictRejected
      BY <1>1, <2>1, <3>1 DEF VerdictTimeout, VerdictRejected, Feed7
    <3>2. CASE VerdictSchema
      BY <1>1, <2>1, <3>2 DEF VerdictSchema, Feed7, Feed8
    <3>3. CASE VerdictAccepted
      BY <1>1, <2>1, <3>3 DEF VerdictAccepted, Feed7, Feed8
    <3> QED
      BY <1>3, <3>1, <3>2, <3>3 DEF Verdict
  <2> QED
    BY <1>1, <1>3, <2>1, <2>2 DEF LedgerComplete
<1>4. CASE AskModel
  BY <1>2, <1>4 DEF AskModel, Idle, boxVars
<1>5. CASE TriggerModel
  BY <1>2, <1>5 DEF TriggerModel, boxVars
<1>6. CASE Receive
  <2>1. pc' \notin {"boxwrite", "box"} /\ pc \notin {"boxwrite", "box"}
    BY <1>6 DEF Receive, Waiting, Skip, Discarded, Finish, NoAnswer, Resend
  <2> QED
    BY <1>2, <1>6, <2>1 DEF Receive, boxVars
<1>7. CASE GiveUp
  <2>1. pc' \notin {"boxwrite", "box"} /\ pc \notin {"boxwrite", "box"}
    BY <1>7 DEF GiveUp, Waiting, Finish, NoAnswer, Resend
  <2> QED
    BY <1>2, <1>7, <2>1 DEF GiveUp, boxVars
<1>8. CASE AskBox
  <2>1. total = fed7 /\ good7 = fed8 /\ good8 = hits
    BY <1>1, <1>8 DEF AskBox, Idle, LedgerComplete
  <2>2. /\ total' = total + 1 /\ pc' = "boxwrite"
        /\ UNCHANGED <<hits, fed7, good7, fed8, good8>>
    BY <1>8 DEF AskBox
  <2> QED
    BY <1>1, <2>1, <2>2 DEF LedgerComplete
<1>9. CASE TriggerBox
  BY <1>2, <1>9 DEF TriggerBox, boxVars
<1>10. CASE ReceiveBox
  <2>1. pc = "box" /\ total' = total
    BY <1>10 DEF ReceiveBox
  <2>2. CASE Verdict /\ Return
    BY <1>3, <2>1, <2>2 DEF Return
  <2>3. CASE ~(Verdict /\ Return)
    BY <1>2, <1>10, <2>1, <2>3 DEF ReceiveBox, TakeData, TakeStatus, boxVars
  <2> QED
    BY <2>2, <2>3
<1>11. CASE GiveUpBox
  BY <1>3, <1>11 DEF GiveUpBox, Return
<1>12. CASE Tick \/ HostTakes \/ LineFails \/ UNCHANGED vars
  BY <1>2, <1>12
  DEF Tick, HostTakes, LineFails, vars, kernelVars, boxVars
<1> QED
  BY <1>4, <1>5, <1>6, <1>7, <1>8, <1>9, <1>10, <1>11, <1>12 DEF Next

\* Every box call is counted in the ledger once, whichever end it met.
THEOREM LedgerCompleteCorrect == Spec => []LedgerComplete
<1>1. Init => LedgerComplete
  BY DEF Init, LedgerComplete
<1> QED
  BY <1>1, TypeInit, TypeStep, LedgerStep, PTL DEF Spec

-----------------------------------------------------------------------------
(* Whose answer is adopted. *)

\* What is known of a line l when the kernel's counter is n and the kernel is
\* at w.  An answer bears the number of the frame it was worked out from, which
\* is not ahead of the counter; and an answer that bears the number of a send
\* of the line protocol was worked out from that line, not from the page.  An
\* answer to the line protocol declares no validity, and none bears the number
\* of a request made through the page.
PagePhase(w) == w \in {"write", "shm"}

Known(l, n, w) ==
  l.k = "RSP" => /\ l.seq = l.src.hdr.n
                 /\ l.src.hdr.ch = "ai" => l.src.hdr.n <= n
                 /\ (w = "ser" /\ l.src.hdr = AiReq(n)) => Whole(l.src)
                 /\ l.ttl = NoTtl => l.seq <= n /\ (PagePhase(w) => l.seq < n)

LinesKnown    == \A i \in DOMAIN down : Known(down[i], aiSeq, pc)
Sent(t, n, w) == t.k = "REQ" => t.n <= n /\ (PagePhase(w) => t.n < n)
TriggersKnown == \A i \in DOMAIN up : Sent(up[i], aiSeq, pc)
PageKnown     == /\ page.hdr.ch = "ai" => page.hdr.n <= aiSeq
                 /\ pc = "ser" => page.hdr # AiReq(aiSeq)

Provenance == LinesKnown /\ TriggersKnown /\ PageKnown

\* The counter stands still, and neither protocol is begun; or it moves on, and
\* no line bears its new value yet.
SamePhase(v, w) == (w = "ser" => v = "ser") /\ (PagePhase(w) => PagePhase(v))
CounterKept == aiSeq' = aiSeq /\ SamePhase(pc, pc')
CounterMoves == aiSeq' = aiSeq + 1

LEMMA ProvenanceInit == Init => Provenance
<1> SUFFICES ASSUME Init PROVE Provenance
  OBVIOUS
<1>1. LinesKnown /\ TriggersKnown
  BY DEF Init, LinesKnown, TriggersKnown
<1>2. PageKnown
  BY DEF Init, PageKnown, AiReq
<1> QED
  BY <1>1, <1>2 DEF Provenance

LEMMA KnownKept ==
  ASSUME NEW l \in AnswerLines, NEW n \in Nat, NEW m \in Nat, NEW v, NEW w,
         Known(l, n, v),
         (m = n /\ SamePhase(v, w)) \/ m = n + 1
  PROVE  Known(l, m, w)
<1> SUFFICES ASSUME l.k = "RSP" PROVE Known(l, m, w)
  BY DEF Known
<1>1. l.src \in Page /\ l.src.hdr \in Requests
  BY DEF AnswerLines, Page
<1>2. l.src.hdr.n \in Nat
  BY <1>1 DEF Requests
<1>3. CASE m = n /\ SamePhase(v, w)
  BY <1>3 DEF Known, SamePhase
<1>4. CASE m = n + 1
  <2>1. l.src.hdr.ch = "ai" => l.src.hdr.n <= n
    BY DEF Known
  <2>2. l.src.hdr # AiReq(m)
    BY <1>2, <1>4, <2>1 DEF AiReq
  <2>3. l.seq \in Nat
    BY DEF AnswerLines
  <2> QED
    BY <1>2, <1>4, <2>1, <2>2, <2>3 DEF Known
<1> QED
  BY <1>3, <1>4

LEMMA LinesKept ==
  ASSUME TypeOK, TypeOK', LinesKnown, CounterKept \/ CounterMoves,
         down' = down \/ (down # <<>> /\ down' = Tail(down))
  PROVE  LinesKnown'
<1>1. aiSeq \in Nat /\ aiSeq' \in Nat /\ down \in Seq(AnswerLines)
  BY DEF TypeOK
<1>2. \A i \in DOMAIN down' : \E j \in DOMAIN down : down'[i] = down[j]
  BY <1>1, TailType
<1>3. \A j \in DOMAIN down : down[j] \in AnswerLines
  BY <1>1
<1>4. \A j \in DOMAIN down : Known(down[j], aiSeq', pc')
  BY <1>1, <1>3, KnownKept DEF LinesKnown, CounterKept, CounterMoves
<1> QED
  BY <1>2, <1>4 DEF LinesKnown

\* A page the step leaves alone.
LEMMA PageKept ==
  ASSUME TypeOK, PageKnown, CounterKept \/ CounterMoves, page'.hdr = page.hdr
  PROVE  PageKnown'
<1>1. aiSeq \in Nat /\ page.hdr.n \in Nat
  BY DEF TypeOK, Page, Requests
<1>2. CASE CounterKept
  BY <1>2 DEF PageKnown, CounterKept, SamePhase
<1>3. CASE CounterMoves
  <2>1. page.hdr.ch = "ai" => page.hdr.n <= aiSeq
    BY DEF PageKnown
  <2>2. page.hdr # AiReq(aiSeq + 1)
    BY <1>1, <2>1 DEF AiReq
  <2> QED
    BY <1>1, <1>3, <2>1, <2>2 DEF PageKnown, CounterMoves
<1> QED
  BY <1>2, <1>3

\* Triggers: none added, one taken, or one sent that bears at most the counter.
LEMMA TriggersKept ==
  ASSUME TypeOK, TriggersKnown, CounterKept \/ CounterMoves,
         \/ up' = up
         \/ up # <<>> /\ up' = Tail(up)
         \/ \E t \in Triggers : up' = Append(up, t) /\ Sent(t, aiSeq', pc')
  PROVE  TriggersKnown'
<1>1. aiSeq \in Nat /\ up \in Seq(Triggers)
  BY DEF TypeOK
<1>2. \A j \in DOMAIN up : up[j].n \in Nat
  <2>1. \A j \in DOMAIN up : up[j] \in Triggers
    BY <1>1
  <2> QED
    BY <2>1 DEF Triggers
<1>3. \A j \in DOMAIN up : Sent(up[j], aiSeq', pc')
  BY <1>1, <1>2 DEF TriggersKnown, Sent, CounterKept, CounterMoves, SamePhase
<1>4. CASE up' = up
  BY <1>3, <1>4 DEF TriggersKnown
<1>5. CASE up # <<>> /\ up' = Tail(up)
  <2>1. \A i \in DOMAIN up' : \E j \in DOMAIN up : up'[i] = up[j]
    BY <1>1, <1>5, TailType
  <2> QED
    BY <1>3, <2>1 DEF TriggersKnown
<1>6. ASSUME NEW t \in Triggers, up' = Append(up, t), Sent(t, aiSeq', pc')
      PROVE  TriggersKnown'
  <2>1. \A i \in DOMAIN up' : up'[i] = t \/ \E j \in DOMAIN up : up'[i] = up[j]
    BY <1>1, <1>6
  <2> QED
    BY <1>3, <1>6, <2>1 DEF TriggersKnown
<1> QED
  BY <1>4, <1>5, <1>6

\* A wait that ends, goes on, or leads to the next send.
LEMMA WaitKept ==
  ASSUME TypeOK, TypeOK', Provenance, Waiting, UNCHANGED page,
         Skip \/ Finish \/ Resend(attempt + 1),
         down' = down \/ (down # <<>> /\ down' = Tail(down))
  PROVE  Provenance'
<1>1. aiSeq \in Nat /\ aiSeq' \in Nat
  BY DEF TypeOK
<1>2. CounterKept \/ CounterMoves
  BY DEF Skip, Finish, Resend, CounterKept, CounterMoves, SamePhase, PagePhase
<1>3. TriggersKnown'
  <2>1. CASE Skip \/ Finish
    <3>1. up' = up
      BY <2>1 DEF Skip, Finish
    <3> QED
      BY <1>2, <3>1, TriggersKept DEF Provenance
  <2>2. CASE Resend(attempt + 1)
    <3>1. up' = Append(up, REQ(aiSeq + 1)) /\ aiSeq' = aiSeq + 1
      BY <2>2 DEF Resend
    <3>2. REQ(aiSeq + 1) \in Triggers /\ Sent(REQ(aiSeq + 1), aiSeq', pc')
      BY <1>1, <2>2 DEF REQ, Triggers, Sent, PagePhase, Resend
    <3> QED
      BY <1>2, <3>1, <3>2, TriggersKept DEF Provenance
  <2> QED
    BY <2>1, <2>2
<1>4. LinesKnown'
  BY <1>2, LinesKept DEF Provenance
<1>5. PageKnown'
  BY <1>2, PageKept DEF Provenance
<1> QED
  BY <1>3, <1>4, <1>5 DEF Provenance

\* The lines the host sends are worked out from the page or from the trigger.
LEMMA AnswersKnown ==
  ASSUME TypeOK, PageKnown, NEW t \in Triggers, NEW ls \in Answers(t),
         Sent(t, aiSeq, pc)
  PROVE  \A i \in DOMAIN ls : Known(ls[i], aiSeq, pc)
<1>1. Known(Rsp(page, TRUE, TTL), aiSeq, pc)
  BY DEF Known, Rsp, PageKnown, NoTtl
<1>2. Known(BoxRsp(page), aiSeq, pc) /\ Known(End(page), aiSeq, pc)
  BY DEF Known, BoxRsp, End
<1>3. CASE ls = <<>>
  BY <1>3
<1>4. CASE ls = <<Rsp(page, TRUE, TTL)>>
  <2> DEFINE l == Rsp(page, TRUE, TTL)
  <2>1. Known(l, aiSeq, pc) /\ ls = <<l>>
    BY <1>1, <1>4
  <2> HIDE DEF l
  <2> QED
    BY <2>1
<1>5. CASE t.k = "REQ"
           /\ ls = <<Rsp([hdr |-> AiReq(t.n), body |-> AiReq(t.n)], TRUE, NoTtl)>>
  <2> DEFINE l == Rsp([hdr |-> AiReq(t.n), body |-> AiReq(t.n)], TRUE, NoTtl)
  <2>1. Known(l, aiSeq, pc)
    BY <1>5 DEF Known, Rsp, AiReq, Whole, Sent
  <2> HIDE DEF l
  <2>2. ls = <<l>>
    BY <1>5 DEF l
  <2> QED
    BY <2>1, <2>2
<1>6. CASE ls = <<End(page)>>
  BY <1>2, <1>6
<1>7. ASSUME NEW n \in 1 .. MaxBlocks + 1,
             ls = <<BoxRsp(page)>> \o Product(page, n) \o <<End(page)>>
      PROVE  \A i \in DOMAIN ls : Known(ls[i], aiSeq, pc)
  <2>1. ls \in Seq(AnswerLines) /\ page \in Page
    BY AnswersType DEF TypeOK
  <2>2. \A i \in DOMAIN ls : ls[i].k # "RSP"
    <3>1. Product(page, n) \in [1 .. n -> {Data(page, j - 1, TRUE) : j \in 1 .. n}]
      BY DEF Product
    <3> DEFINE K == {BoxRsp(page), End(page)} \cup {Data(page, j - 1, TRUE) : j \in 1 .. n}
    <3>2. \A l \in K : l.k # "RSP"
      BY DEF BoxRsp, End, Data
    <3>3. Product(page, n) \in Seq(K) /\ <<BoxRsp(page)>> \in Seq(K) /\ <<End(page)>> \in Seq(K)
      <4>1. BoxRsp(page) \in K /\ End(page) \in K
        OBVIOUS
      <4>2. Product(page, n) \in [1 .. n -> K]
        BY <3>1
      <4> HIDE DEF K
      <4>3. Product(page, n) \in Seq(K)
        BY <4>2, SeqDef
      <4> QED
        BY <4>1, <4>3
    <3> HIDE DEF K
    <3>4. <<BoxRsp(page)>> \o Product(page, n) \in Seq(K)
      BY <3>3
    <3>5. ls \in Seq(K)
      BY <1>7, <3>3, <3>4
    <3> QED
      BY <3>2, <3>5
  <2> QED
    BY <2>2 DEF Known
<1> QED
  BY <1>3, <1>4, <1>5, <1>6, <1>7 DEF Answers

LEMMA ProvenanceStep ==
  TypeOK /\ TypeOK' /\ Provenance /\ [Next]_vars => Provenance'
<1> SUFFICES ASSUME TypeOK, TypeOK', Provenance, [Next]_vars PROVE Provenance'
  OBVIOUS
<1>1. aiSeq \in Nat /\ aiSeq' \in Nat /\ page \in Page
  BY DEF TypeOK
\* What a step leaves known that changes neither the counter nor a header.
<1>2. ASSUME CounterKept, page'.hdr = page.hdr, up' = up,
             down' = down \/ (down # <<>> /\ down' = Tail(down))
      PROVE  Provenance'
  <2>1. TriggersKnown'
    BY <1>2, TriggersKept DEF Provenance
  <2> QED
    BY <1>2, <2>1, LinesKept, PageKept DEF Provenance
<1>3. CASE AskModel
  <2>1. CounterMoves /\ up' = up /\ down' = down /\ pc' = "write"
    BY <1>3 DEF AskModel, CounterMoves
  <2>2. page'.hdr = AiReq(aiSeq')
    BY <1>1, <1>3 DEF AskModel, Page
  <2>3. PageKnown'
    BY <1>1, <2>1, <2>2 DEF PageKnown, AiReq
  <2>4. TriggersKnown'
    BY <2>1, TriggersKept DEF Provenance
  <2> QED
    BY <2>1, <2>3, <2>4, LinesKept DEF Provenance
<1>4. CASE TriggerModel
  <2>1. CounterKept /\ down' = down
    BY <1>4 DEF TriggerModel, CounterKept, SamePhase, PagePhase
  <2>2. page'.hdr = page.hdr
    BY <1>1, <1>4 DEF TriggerModel, Page
  <2>3. TriggersKnown'
    <3>1. SHM(aiSeq) \in Triggers /\ Sent(SHM(aiSeq), aiSeq', pc')
      BY <1>1 DEF SHM, Triggers, Sent
    <3>2. up' = Append(up, SHM(aiSeq))
      BY <1>4 DEF TriggerModel
    <3> QED
      BY <2>1, <3>1, <3>2, TriggersKept DEF Provenance
  <2> QED
    BY <2>1, <2>2, <2>3, LinesKept, PageKept DEF Provenance
<1>5. CASE AskBox
  <2>1. CounterKept /\ up' = up /\ down' = down /\ pc' = "boxwrite"
    BY <1>5 DEF AskBox, CounterKept, SamePhase, PagePhase
  <2>2. page'.hdr.ch = "box"
    BY <1>1, <1>5 DEF AskBox, Page, BoxReq
  <2>3. PageKnown'
    BY <2>1, <2>2 DEF PageKnown
  <2>4. TriggersKnown'
    BY <2>1, TriggersKept DEF Provenance
  <2> QED
    BY <2>1, <2>3, <2>4, LinesKept DEF Provenance
<1>6. CASE TriggerBox
  <2>1. CounterKept /\ down' = down
    BY <1>6 DEF TriggerBox, CounterKept, SamePhase, PagePhase
  <2>2. page'.hdr = page.hdr
    BY <1>1, <1>6 DEF TriggerBox, Page
  <2>3. TriggersKnown'
    <3>1. BOXREQ(boxSeq) \in Triggers /\ Sent(BOXREQ(boxSeq), aiSeq', pc')
      BY DEF BOXREQ, Triggers, TypeOK, Sent
    <3>2. up' = Append(up, BOXREQ(boxSeq))
      BY <1>6 DEF TriggerBox
    <3> QED
      BY <2>1, <3>1, <3>2, TriggersKept DEF Provenance
  <2> QED
    BY <2>1, <2>2, <2>3, LinesKept, PageKept DEF Provenance
<1>7. CASE Receive
  <2>1. /\ Waiting /\ UNCHANGED page /\ down # <<>> /\ down' = Tail(down)
        /\ Skip \/ Finish \/ Resend(attempt + 1)
    BY <1>7 DEF Receive, Discarded, NoAnswer
  <2> QED
    BY <2>1, WaitKept
<1>8. CASE GiveUp
  <2>1. /\ Waiting /\ UNCHANGED page /\ down' = down
        /\ Finish \/ Resend(attempt + 1)
    BY <1>8 DEF GiveUp, NoAnswer
  <2> QED
    BY <2>1, WaitKept
<1>9. CASE ReceiveBox
  <2>1. CounterKept
    BY <1>9
    DEF ReceiveBox, TakeData, TakeStatus, Return, boxVars, CounterKept,
        SamePhase, PagePhase
  <2>2. page' = page /\ up' = up /\ down # <<>> /\ down' = Tail(down)
    BY <1>9 DEF ReceiveBox
  <2> QED
    BY <1>2, <2>1, <2>2
<1>10. CASE GiveUpBox
  BY <1>2, <1>10 DEF GiveUpBox, Return, CounterKept, SamePhase, PagePhase
<1>11. CASE HostTakes
  <2>1. /\ aiSeq' = aiSeq /\ pc' = pc /\ page' = page
        /\ up # <<>> /\ up' = Tail(up)
    BY <1>11 DEF HostTakes, kernelVars
  <2>2. PageKnown'
    BY <2>1 DEF Provenance, PageKnown
  <2>3. TriggersKnown'
    BY <2>1, TriggersKept DEF Provenance, CounterKept, SamePhase
  <2>4. PICK ls \in Answers(Head(up)) : down' = down \o ls
    BY <1>11 DEF HostTakes
  <2>5. Head(up) \in Triggers /\ Sent(Head(up), aiSeq, pc)
    <3>1. up \in Seq(Triggers)
      BY DEF TypeOK
    <3>2. Head(up) = up[1] /\ 1 \in DOMAIN up /\ Head(up) \in Triggers
      BY <2>1, <3>1
    <3> QED
      BY <3>2 DEF Provenance, TriggersKnown
  <2>6. ls \in Seq(AnswerLines) /\ down \in Seq(AnswerLines)
    BY <2>5, AnswersType DEF TypeOK
  <2>7. \A i \in DOMAIN ls : Known(ls[i], aiSeq, pc)
    BY <2>5, AnswersKnown DEF Provenance
  <2>8. \A i \in DOMAIN down' : Known(down'[i], aiSeq, pc)
    BY <2>4, <2>6, <2>7, ConcatElements DEF Provenance, LinesKnown
  <2> QED
    BY <2>1, <2>2, <2>3, <2>8 DEF Provenance, LinesKnown
<1>12. CASE LineFails
  <2>1. CounterKept /\ page' = page /\ up' = up /\ aiSeq' = aiSeq /\ pc' = pc
    BY <1>12 DEF LineFails, kernelVars, CounterKept, SamePhase
  <2>2. PICK n \in {0, 1} : \A i \in DOMAIN down' :
              /\ i \in Nat /\ i + n \in DOMAIN down
              /\ down'[i] = down[i + n] \/ down'[i] \in Damaged(down[i + n])
    BY <1>12, LinesLeft
  <2>3. \A j \in DOMAIN down : down[j] \in AnswerLines /\ Known(down[j], aiSeq, pc)
    <3>1. down \in Seq(AnswerLines)
      BY DEF TypeOK
    <3> QED
      BY <3>1 DEF Provenance, LinesKnown
  <2>4. ASSUME NEW l \in AnswerLines, NEW m \in Damaged(l), Known(l, aiSeq, pc)
        PROVE  Known(m, aiSeq, pc)
    BY <2>4, DamagedLine DEF Known
  <2>5. LinesKnown'
    BY <2>1, <2>2, <2>3, <2>4 DEF LinesKnown
  <2>6. TriggersKnown'
    BY <2>1, TriggersKept DEF Provenance
  <2> QED
    BY <2>1, <2>5, <2>6, PageKept DEF Provenance
<1>13. CASE Tick \/ UNCHANGED vars
  BY <1>2, <1>13 DEF Tick, vars, kernelVars, CounterKept, SamePhase
<1> QED
  BY <1>3, <1>4, <1>5, <1>6, <1>7, <1>8, <1>9, <1>10, <1>11, <1>12, <1>13 DEF Next

\* Advice is adopted in Receive only, from a line that bears the number of the
\* send the kernel waits for.
LEMMA AdoptsOwn ==
  ASSUME TypeOK, Provenance, [Next]_vars, Adopts
  PROVE  LET p == Head(down).src IN
           \/ p.body = AiReq(aiSeq)
           \/ p.hdr.ch = "box"
           \/ pc = "shm" /\ ~Whole(p)
<1> DEFINE l == Head(down)
<1>1. Receive
  BY DEF Adopts, Waiting, Next, vars, kernelVars, Idle, AskModel, TriggerModel,
         AskBox, TriggerBox, ReceiveBox, GiveUp, GiveUpBox, Tick, HostTakes,
         LineFails
<1>2. LineMatches(l)
  BY <1>1 DEF Receive, Skip, Adopts, Waiting
<1>3. down \in Seq(AnswerLines) /\ 1 \in DOMAIN down /\ l = down[1]
  BY <1>1 DEF Receive, TypeOK
<1>4. l \in AnswerLines /\ Known(l, aiSeq, pc)
  BY <1>3 DEF Provenance, LinesKnown
<1>5. l.k = "RSP" /\ l.seq = aiSeq
  BY <1>2 DEF LineMatches
<1>6. l.src.hdr.n = aiSeq /\ (pc = "ser" /\ l.src.hdr = AiReq(aiSeq) => Whole(l.src))
  BY <1>4, <1>5 DEF Known
<1>7. l.src \in Page /\ l.src.hdr \in Requests
  BY <1>4 DEF AnswerLines, Page
<1>8. CASE l.src.hdr.ch = "ai"
  <2>1. l.src.hdr = AiReq(aiSeq)
    BY <1>6, <1>7, <1>8 DEF Requests, AiReq
  <2>2. CASE Whole(l.src)
    BY <2>1, <2>2 DEF Whole
  <2>3. CASE ~Whole(l.src)
    BY <1>6, <2>1, <2>3 DEF Adopts, Waiting
  <2> QED
    BY <2>2, <2>3
<1>9. CASE l.src.hdr.ch = "box"
  BY <1>9
<1> QED
  BY <1>7, <1>8, <1>9 DEF Requests

\* Advice adopted was worked out from the request of this very send, but for
\* the two exceptions the property names (wait_rsp, line_seq_ok).
THEOREM AdviceIsOwnCorrect == Spec => AdviceIsOwn
<1>1. TypeOK /\ Provenance /\ [Next]_vars => (Adopts =>
        LET p == Head(down).src IN
          \/ p.body = AiReq(aiSeq)
          \/ p.hdr.ch = "box"
          \/ pc = "shm" /\ ~Whole(p))
  BY AdoptsOwn
<1> QED
  BY <1>1, TypeInit, TypeStep, ProvenanceInit, ProvenanceStep, PTL
  DEF Spec, AdviceIsOwn

-----------------------------------------------------------------------------
(* R3: stale advice. *)

\* The snapshot is held from the request to the answer, and the line protocol
\* is entered by a call during which nothing critical happened.
SnapshotHeld ==
  /\ PagePhase(pc) => snap
  /\ (Waiting /\ (since.crit \/ since.aged)) => kind = "probe"
  /\ pc = "ser" => kind = "classify"

LEMMA SnapshotStep ==
  TypeOK /\ SnapshotHeld /\ [Next]_vars => SnapshotHeld'
<1> SUFFICES ASSUME TypeOK, SnapshotHeld, [Next]_vars PROVE SnapshotHeld'
  OBVIOUS
<1>1. CASE AskModel
  BY <1>1 DEF AskModel, SnapshotHeld, Waiting
<1>2. CASE TriggerModel
  <2>1. pc' = "shm" /\ snap' = snap /\ kind' = kind /\ snap
    BY <1>2 DEF TriggerModel, SnapshotHeld, PagePhase
  <2>2. PICK c \in BOOLEAN, a \in BOOLEAN :
          ((c \/ a) => kind = "probe") /\ since' = [crit |-> c, aged |-> a]
    BY <1>2 DEF TriggerModel
  <2>3. (since'.crit \/ since'.aged) => kind = "probe"
    BY <2>2
  <2> QED
    BY <2>1, <2>3 DEF SnapshotHeld
<1>3. CASE AskBox \/ TriggerBox \/ ReceiveBox \/ GiveUpBox
  <2>1. pc' \in {"boxwrite", "box", "idle"}
    BY <1>3 DEF AskBox, TriggerBox, ReceiveBox, GiveUpBox, TakeData, TakeStatus,
                Return
  <2> QED
    BY <2>1 DEF SnapshotHeld, Waiting, PagePhase
\* A wait ends the call, or turns to the line protocol in a call to classify.
<1>4. ASSUME Waiting, since' = since, Finish \/ NoAnswer
      PROVE  SnapshotHeld'
  <2>1. CASE Finish
    BY <2>1 DEF Finish, SnapshotHeld, Waiting, PagePhase
  <2>2. CASE kind = "classify" /\ Resend(attempt + 1)
    BY <1>4, <2>2 DEF Resend, SnapshotHeld, Waiting, PagePhase
  <2> QED
    BY <1>4, <2>1, <2>2 DEF NoAnswer
<1>5. CASE Receive
  <2>1. CASE Skip
    BY <1>5, <2>1 DEF Receive, Skip, SnapshotHeld, Waiting, PagePhase
  <2>2. CASE ~Skip
    BY <1>4, <1>5, <2>2 DEF Receive, Discarded
  <2> QED
    BY <2>1, <2>2
<1>6. CASE GiveUp
  BY <1>4, <1>6 DEF GiveUp
<1>7. CASE Tick \/ HostTakes \/ LineFails \/ UNCHANGED vars
  BY <1>7 DEF Tick, HostTakes, LineFails, vars, kernelVars, SnapshotHeld,
              Waiting, PagePhase
<1> QED
  BY <1>1, <1>2, <1>3, <1>5, <1>6, <1>7 DEF Next

\* An answer that is acted on passed the test while the snapshot was held.
LEMMA FreshOnly ==
  ASSUME TypeOK, Provenance, SnapshotHeld, [Next]_vars
  PROVE  /\ Adopts => /\ ~since.crit
                      /\ pc = "shm" => \/ ~since.aged /\ el <= TTL
                                       \/ Head(down).ttl = LostTtl
         /\ (pc = "shm" /\ pc' = "ser" /\ down' # down) =>
              ~since.crit /\ ~Expired(Head(down))
<1> SUFFICES ASSUME Adopts \/ (pc = "shm" /\ pc' = "ser" /\ down' # down)
    PROVE  /\ ~since.crit
           /\ pc = "shm" => ~Expired(Head(down))
           /\ (pc = "shm" /\ Adopts) => \/ ~since.aged /\ el <= TTL
                                        \/ Head(down).ttl = LostTtl
  BY DEF Adopts
<1> DEFINE l == Head(down)
<1>1. Receive
  BY DEF Adopts, Waiting, Next, vars, kernelVars, Idle, AskModel, TriggerModel,
         AskBox, TriggerBox, ReceiveBox, GiveUp, GiveUpBox, Tick, HostTakes,
         LineFails
<1>2. LineMatches(l)
  BY <1>1 DEF Receive, Skip, Adopts, Waiting
<1>3. DiscardReason(l) = 0
  <2>1. CASE Discarded(DiscardReason(l))
    BY <1>1, <1>2, <2>1 DEF Receive, Discarded, Finish, Adopts
  <2>2. CASE ~Discarded(DiscardReason(l))
    BY <1>1, <1>2, <2>2 DEF Receive
  <2> QED
    BY <2>1, <2>2
<1>4. CASE pc = "ser"
  BY <1>4 DEF SnapshotHeld, Waiting
<1>5. CASE pc = "shm"
  <2>1. snap /\ ~since.crit /\ ~Expired(l)
    BY <1>3, <1>5 DEF SnapshotHeld, PagePhase, DiscardReason
  <2>2. down \in Seq(AnswerLines) /\ 1 \in DOMAIN down /\ l = down[1]
    BY <1>1 DEF Receive, TypeOK
  <2>3. l \in AnswerLines /\ Known(l, aiSeq, pc)
    BY <2>2 DEF Provenance, LinesKnown
  <2>4. l.k = "RSP" /\ l.seq = aiSeq
    BY <1>2 DEF LineMatches
  <2>5. l.ttl \in {NoTtl, LostTtl, TTL}
    BY <2>3, <2>4 DEF AnswerLines
  <2>6. l.ttl # NoTtl
    BY <1>5, <2>3, <2>4 DEF Known, PagePhase, TypeOK
  <2>7. CASE l.ttl = LostTtl
    BY <1>5, <2>1, <2>7
  <2>8. CASE l.ttl = TTL
    <3>1. ~since.aged /\ ~(el > TTL)
      BY <2>1, <2>8 DEF Expired
    <3>2. el <= TTL
      BY <3>1, NoTime DEF TypeOK
    <3> QED
      BY <1>5, <2>1, <3>1, <3>2
  <2> QED
    BY <2>5, <2>6, <2>7, <2>8
<1> QED
  BY <1>1, <1>4, <1>5 DEF Receive, Waiting

\* No advice is acted on past a critical event or its validity, and a call is
\* not continued after such advice (wait_rsp, qwen_classify).
THEOREM StaleAdviceRefusedCorrect == Spec => StaleAdviceRefused
<1>1. TypeOK /\ Provenance /\ SnapshotHeld /\ [Next]_vars =>
        /\ Adopts => /\ ~since.crit
                     /\ pc = "shm" => \/ ~since.aged /\ el <= TTL
                                      \/ Head(down).ttl = LostTtl
        /\ (pc = "shm" /\ pc' = "ser" /\ down' # down) =>
             ~since.crit /\ ~Expired(Head(down))
  BY FreshOnly
<1>2. Init => SnapshotHeld
  BY DEF Init, SnapshotHeld, Waiting, PagePhase
<1> QED
  BY <1>1, <1>2, TypeInit, TypeStep, ProvenanceInit, ProvenanceStep, SnapshotStep,
     PTL
  DEF Spec, StaleAdviceRefused

-----------------------------------------------------------------------------
(* Whose product is accepted. *)

BoxLine(l) == l.k # "RSP"

NoBoxLines    == \A i \in DOMAIN down : ~BoxLine(down[i])
NoBoxTriggers == \A i \in DOMAIN up : up[i].k # "BOXREQ"
OneBoxTrigger ==
  \A i, j \in DOMAIN up : up[i].k = "BOXREQ" /\ up[j].k = "BOXREQ" => i = j

\* The box's lines on their way answer this call, and END is the last of them.
OneAnswer ==
  /\ \A i \in DOMAIN down :
       BoxLine(down[i]) => down[i].src.body = BoxReq(boxSeq)
  /\ \A i, j \in DOMAIN down : down[i].k = "END" /\ i < j => ~BoxLine(down[j])

OwnBlocks ==
  \A i \in DOMAIN buf : buf[i].src.body = BoxReq(boxSeq) /\ buf[i].off = i - 1

\* As long as every box call ended with its END, nothing of the box is on its
\* way between the calls, and during a call only its trigger or its answer.
BoxCall ==
  /\ pc # "box" => NoBoxLines /\ NoBoxTriggers
  /\ pc = "boxwrite" => buf = <<>>
  /\ pc = "box" =>
       /\ page.body = BoxReq(boxSeq) /\ OwnBlocks
       /\ OneAnswer /\ OneBoxTrigger /\ (NoBoxTriggers \/ NoBoxLines)

\* The shape of an answer: the box's lines answer the page, END comes last.
LEMMA AnswersShape ==
  ASSUME page \in Page, NEW t \in Triggers, NEW ls \in Answers(t)
  PROVE  /\ t.k # "BOXREQ" => \A i \in DOMAIN ls : ~BoxLine(ls[i])
         /\ \A i \in DOMAIN ls : BoxLine(ls[i]) => ls[i].src = page
         /\ \A i \in DOMAIN ls : ls[i].k = "END" => i = Len(ls)
<1>1. CASE ls = <<>>
  BY <1>1
<1>2. ASSUME NEW p, NEW o, ls = <<Rsp(p, TRUE, o)>>
      PROVE  \A i \in DOMAIN ls : ls[i].k = "RSP"
  <2> DEFINE l == Rsp(p, TRUE, o)
  <2>1. l.k = "RSP" /\ ls = <<l>>
    BY <1>2 DEF Rsp
  <2> HIDE DEF l
  <2> QED
    BY <2>1
<1>3. CASE t.k = "BOXREQ" /\ ls = <<End(page)>>
  <2>1. End(page).k = "END" /\ End(page).src = page
    BY DEF End
  <2> QED
    BY <1>3, <2>1
<1>4. ASSUME NEW n \in 1 .. MaxBlocks + 1, t.k = "BOXREQ",
             ls = <<BoxRsp(page)>> \o Product(page, n) \o <<End(page)>>
      PROVE  /\ \A i \in DOMAIN ls : ls[i].src = page
             /\ \A i \in DOMAIN ls : ls[i].k = "END" => i = Len(ls)
  <2> DEFINE D == {Data(page, j - 1, TRUE) : j \in 1 .. n}
             F == {BoxRsp(page)} \cup D
             front == <<BoxRsp(page)>> \o Product(page, n)
  <2>1. \A l \in F : l.k # "END" /\ l.src = page
    BY DEF BoxRsp, Data
  <2>2. End(page).k = "END" /\ End(page).src = page
    BY DEF End
  <2>3. Product(page, n) \in Seq(F) /\ <<BoxRsp(page)>> \in Seq(F)
    <3>1. Product(page, n) \in [1 .. n -> F] /\ BoxRsp(page) \in F
      BY DEF Product
    <3> HIDE DEF F
    <3>2. Product(page, n) \in Seq(F)
      BY <3>1, SeqDef
    <3> QED
      BY <3>1, <3>2
  <2> HIDE DEF F
  <2>4. front \in Seq(F) /\ ls = front \o <<End(page)>>
    BY <1>4, <2>3
  <2> HIDE DEF front
  <2>5. /\ Len(ls) = Len(front) + 1 /\ ls[Len(ls)] = End(page)
        /\ \A i \in DOMAIN ls : i # Len(ls) => ls[i] \in F
    BY <2>4
  <2>6. \A i \in DOMAIN ls : ls[i] \in F \/ (i = Len(ls) /\ ls[i] = End(page))
    BY <2>5
  <2> QED
    BY <2>1, <2>2, <2>6
<1> QED
  BY <1>1, <1>2, <1>3, <1>4 DEF Answers, BoxLine

\* Steps outside a box call.
LEMMA OutsideKept ==
  ASSUME TypeOK, BoxCall, pc # "box", pc' # "box", pc' = "boxwrite" => buf' = <<>>,
         down' = down \/ (down # <<>> /\ down' = Tail(down)),
         up' = up \/ \E t \in Triggers : up' = Append(up, t) /\ t.k # "BOXREQ"
  PROVE  BoxCall'
<1>1. down \in Seq(AnswerLines) /\ up \in Seq(Triggers)
  BY DEF TypeOK
<1>2. NoBoxLines'
  <2>1. \A i \in DOMAIN down' : \E j \in DOMAIN down : down'[i] = down[j]
    BY <1>1, TailType
  <2> QED
    BY <2>1 DEF BoxCall, NoBoxLines
<1>3. NoBoxTriggers'
  <2>1. CASE up' = up
    BY <2>1 DEF BoxCall, NoBoxTriggers
  <2>2. ASSUME NEW t \in Triggers, up' = Append(up, t), t.k # "BOXREQ"
        PROVE  NoBoxTriggers'
    <3>1. \A i \in DOMAIN up' : up'[i] = t \/ \E j \in DOMAIN up : up'[i] = up[j]
      BY <1>1, <2>2
    <3> QED
      BY <2>2, <3>1 DEF BoxCall, NoBoxTriggers
  <2> QED
    BY <2>1, <2>2
<1> QED
  BY <1>2, <1>3 DEF BoxCall

\* A line of the box's answer is taken, and the call goes on or ends with END.
LEMMA ReceiveBoxKept ==
  ASSUME TypeOK, BoxCall, ReceiveBox
  PROVE  BoxCall'
<1>1. /\ pc = "box" /\ down # <<>> /\ down' = Tail(down) /\ up' = up
      /\ page' = page /\ boxSeq' = boxSeq
  BY DEF ReceiveBox
<1>2. down \in Seq(AnswerLines) /\ buf \in Seq(AnswerLines)
  BY DEF TypeOK
<1>3. 1 \in DOMAIN down /\ Head(down) = down[1] /\ down[1] \in AnswerLines
  BY <1>1, <1>2
<1>4. \A i \in DOMAIN down' : i + 1 \in DOMAIN down /\ down'[i] = down[i + 1] /\ 1 < i + 1
  BY <1>1, <1>2
<1>5. /\ OneAnswer /\ OwnBlocks /\ page.body = BoxReq(boxSeq)
      /\ OneBoxTrigger /\ (NoBoxTriggers \/ NoBoxLines)
  BY <1>1 DEF BoxCall
<1>6. CASE pc' = "box" /\ OwnBlocks'
  <2>1. OneAnswer'
    <3>0. DOMAIN down' \subseteq Nat
      BY <1>1, <1>2
    <3>1. \A i, j \in DOMAIN down' : i < j => i + 1 < j + 1
      BY <3>0
    <3> QED
      BY <1>1, <1>4, <1>5, <3>1 DEF OneAnswer
  <2>2. OneBoxTrigger' /\ (NoBoxTriggers' \/ NoBoxLines')
    BY <1>1, <1>4, <1>5 DEF OneBoxTrigger, NoBoxTriggers, NoBoxLines
  <2> QED
    BY <1>1, <1>5, <1>6, <2>1, <2>2 DEF BoxCall
<1>7. CASE Head(down).k = "END" /\ Return
  <2>1. pc' = "idle"
    BY <1>7 DEF Return
  <2>2. NoBoxLines'
    BY <1>3, <1>4, <1>5, <1>7 DEF OneAnswer, NoBoxLines
  <2>3. NoBoxTriggers'
    BY <1>1, <1>3, <1>5, <1>7 DEF NoBoxTriggers, NoBoxLines, BoxLine
  <2> QED
    BY <2>1, <2>2, <2>3 DEF BoxCall
<1>8. CASE Head(down).k = "DATA" /\ TakeData(Head(down))
  <2>1. pc' = "box"
    BY <1>1, <1>8 DEF TakeData
  <2>2. CASE PassesGate(Head(down))
    <3>1. buf' = Append(buf, down[1]) /\ down[1].off = Len(buf)
      BY <1>3, <1>8, <2>2 DEF TakeData, PassesGate
    <3>2. down[1].src.body = BoxReq(boxSeq)
      BY <1>3, <1>5, <1>8 DEF OneAnswer, BoxLine
    <3>3. /\ \A i \in DOMAIN buf' : i \in DOMAIN buf \/ i = Len(buf) + 1
          /\ \A i \in DOMAIN buf : buf'[i] = buf[i]
          /\ buf'[Len(buf) + 1] = down[1]
          /\ Len(buf) \in Nat
      BY <1>2, <3>1
    <3>4. OwnBlocks'
      BY <1>1, <1>5, <3>1, <3>2, <3>3 DEF OwnBlocks
    <3> QED
      BY <1>6, <2>1, <3>4
  <2>3. CASE ~PassesGate(Head(down))
    BY <1>1, <1>5, <1>6, <1>8, <2>1, <2>3 DEF TakeData, OwnBlocks
  <2> QED
    BY <2>2, <2>3
<1>9. CASE TakeStatus \/ (Head(down).k = "RSP" /\ UNCHANGED <<pc, el, boxVars>>)
  <2>1. pc' = "box" /\ buf' = buf
    BY <1>1, <1>9 DEF TakeStatus, boxVars
  <2> QED
    BY <1>1, <1>5, <1>6, <2>1 DEF OwnBlocks
<1> QED
  BY <1>7, <1>8, <1>9 DEF ReceiveBox

\* The host answers a trigger.
LEMMA HostTakesBox ==
  ASSUME TypeOK, BoxCall, HostTakes
  PROVE  BoxCall'
<1>1. /\ pc' = pc /\ page' = page /\ boxSeq' = boxSeq /\ buf' = buf
      /\ up # <<>> /\ up' = Tail(up)
  BY DEF HostTakes, kernelVars, boxVars
<1>2. down \in Seq(AnswerLines) /\ up \in Seq(Triggers) /\ page \in Page
  BY DEF TypeOK
<1>3. PICK ls \in Answers(Head(up)) : down' = down \o ls
  BY DEF HostTakes
<1>4. Head(up) \in Triggers /\ Head(up) = up[1] /\ 1 \in DOMAIN up
  BY <1>1, <1>2
<1>5. ls \in Seq(AnswerLines)
  BY <1>2, <1>4, AnswersType
<1>6. \A i \in DOMAIN up' : i + 1 \in DOMAIN up /\ up'[i] = up[i + 1] /\ i + 1 # 1
  BY <1>1, <1>2
<1>7. /\ Head(up).k # "BOXREQ" => \A i \in DOMAIN ls : ~BoxLine(ls[i])
      /\ \A i \in DOMAIN ls : BoxLine(ls[i]) => ls[i].src = page
      /\ \A i \in DOMAIN ls : ls[i].k = "END" => i = Len(ls)
  BY <1>2, <1>4, AnswersShape
<1>8. \A i \in DOMAIN down' :
        \/ i \in DOMAIN down /\ down'[i] = down[i]
        \/ /\ i - Len(down) \in DOMAIN ls /\ down'[i] = ls[i - Len(down)]
           /\ i > Len(down)
  BY <1>2, <1>3, <1>5
<1>9. CASE pc # "box"
  <2>1. Head(up).k # "BOXREQ"
    BY <1>4, <1>9 DEF BoxCall, NoBoxTriggers
  <2>2. NoBoxLines' /\ NoBoxTriggers'
    BY <1>6, <1>7, <1>8, <1>9, <2>1 DEF BoxCall, NoBoxLines, NoBoxTriggers
  <2> QED
    BY <1>1, <1>9, <2>2 DEF BoxCall
<1>10. CASE pc = "box"
  <2>1. /\ OneAnswer /\ OwnBlocks /\ page.body = BoxReq(boxSeq)
        /\ OneBoxTrigger /\ (NoBoxTriggers \/ NoBoxLines)
    BY <1>10 DEF BoxCall
  <2>2. OwnBlocks' /\ page'.body = BoxReq(boxSeq')
    BY <1>1, <2>1 DEF OwnBlocks
  <2>3. OneBoxTrigger'
    <3>1. DOMAIN up' \subseteq Nat
      BY <1>1, <1>2
    <3>2. \A i, j \in DOMAIN up' : i + 1 = j + 1 => i = j
      BY <3>1
    <3> QED
      BY <1>6, <2>1, <3>2 DEF OneBoxTrigger
  <2>4. CASE Head(up).k = "BOXREQ"
    <3>1. NoBoxLines
      BY <1>4, <2>1, <2>4 DEF NoBoxTriggers
    <3>2. NoBoxTriggers'
      BY <1>4, <1>6, <2>1, <2>4 DEF OneBoxTrigger, NoBoxTriggers
    <3>3. \A i \in DOMAIN down' : BoxLine(down'[i]) => down'[i].src.body = BoxReq(boxSeq')
      BY <1>1, <1>7, <1>8, <2>1, <3>1 DEF NoBoxLines
    <3>4. ASSUME NEW i \in DOMAIN down', NEW j \in DOMAIN down',
                 down'[i].k = "END", i < j
          PROVE  ~BoxLine(down'[j])
      <4>1. BoxLine(down'[i])
        BY <3>4 DEF BoxLine
      <4>2. i - Len(down) \in DOMAIN ls /\ down'[i] = ls[i - Len(down)]
        BY <1>8, <3>1, <4>1 DEF NoBoxLines
      <4>3. i = Len(down) + Len(ls)
        <5>1. i - Len(down) = Len(ls)
          BY <1>7, <3>4, <4>2
        <5>2. i \in Nat /\ Len(down) \in Nat /\ Len(ls) \in Nat
          BY <1>2, <1>3, <1>5
        <5> QED
          BY <5>1, <5>2
      <4>4. j <= Len(down) + Len(ls)
        BY <1>2, <1>3, <1>5, <3>4
      <4> QED
        BY <1>2, <1>3, <1>5, <3>4, <4>3, <4>4
    <3> QED
      BY <1>1, <1>10, <2>2, <2>3, <3>2, <3>3, <3>4 DEF BoxCall, OneAnswer
  <2>5. CASE Head(up).k # "BOXREQ"
    <3>1. \A i \in DOMAIN down' :
            BoxLine(down'[i]) => i \in DOMAIN down /\ down'[i] = down[i]
      BY <1>7, <1>8, <2>5
    <3>2. \A i \in DOMAIN down' : down'[i].k = "END" => BoxLine(down'[i])
      BY DEF BoxLine
    <3>3. OneAnswer'
      BY <1>1, <2>1, <3>1, <3>2 DEF OneAnswer
    <3>4. NoBoxTriggers' \/ NoBoxLines'
      BY <1>6, <2>1, <3>1 DEF NoBoxTriggers, NoBoxLines
    <3> QED
      BY <1>1, <1>10, <2>2, <2>3, <3>3, <3>4 DEF BoxCall
  <2> QED
    BY <2>4, <2>5
<1> QED
  BY <1>9, <1>10

\* A line is lost or damaged.
LEMMA LineFailsBox ==
  ASSUME TypeOK, BoxCall, LineFails
  PROVE  BoxCall'
<1>1. /\ pc' = pc /\ page' = page /\ boxSeq' = boxSeq /\ buf' = buf /\ up' = up
      /\ down # <<>>
  BY DEF LineFails, kernelVars, boxVars
<1>2. down \in Seq(AnswerLines)
  BY DEF TypeOK
<1>3. PICK n \in {0, 1} :
        \A i \in DOMAIN down' :
          /\ i \in Nat /\ i + n \in DOMAIN down
          /\ down'[i].k = down[i + n].k /\ down'[i].src = down[i + n].src
  <2>1. PICK n \in {0, 1} : \A i \in DOMAIN down' :
              /\ i \in Nat /\ i + n \in DOMAIN down
              /\ down'[i] = down[i + n] \/ down'[i] \in Damaged(down[i + n])
    BY LinesLeft
  <2>2. \A j \in DOMAIN down : down[j] \in AnswerLines
    BY <1>2
  <2> QED
    BY <2>1, <2>2, DamagedLine
<1>4. NoBoxLines => NoBoxLines'
  BY <1>3 DEF NoBoxLines, BoxLine
<1>5. OneAnswer => OneAnswer'
  <2>1. \A i, j \in DOMAIN down' : i < j => i + n < j + n
    BY <1>3
  <2> QED
    BY <1>1, <1>3, <2>1 DEF OneAnswer, BoxLine
<1> QED
  BY <1>1, <1>4, <1>5 DEF BoxCall, NoBoxTriggers, OneBoxTrigger, OwnBlocks

LEMMA BoxCallStep ==
  TypeOK /\ (absent \/ BoxCall) /\ [Next]_vars => (absent \/ BoxCall)'
<1> SUFFICES ASSUME TypeOK, absent \/ BoxCall, [Next]_vars, ~absent'
             PROVE  BoxCall'
  OBVIOUS
<1>1. BoxCall
  <2>1. CASE GiveUpBox
    BY <2>1 DEF GiveUpBox, VerdictTimeout
  <2>2. CASE ReceiveBox
    <3>1. TakeData(Head(down)) \/ TakeStatus \/ Verdict \/ UNCHANGED boxVars
      BY <2>2 DEF ReceiveBox
    <3>2. TakeData(Head(down)) => UNCHANGED absent
      BY DEF TakeData
    <3>3. TakeStatus => UNCHANGED absent
      BY DEF TakeStatus
    <3>4. Verdict => UNCHANGED absent
      BY DEF Verdict, VerdictRejected, VerdictSchema, VerdictAccepted
    <3>5. UNCHANGED boxVars => UNCHANGED absent
      BY DEF boxVars
    <3>6. UNCHANGED absent
      BY <3>1, <3>2, <3>3, <3>4, <3>5
    <3> QED
      BY <3>6
  <2>3. CASE ~GiveUpBox /\ ~ReceiveBox
    BY <2>3 DEF Next, vars, boxVars, AskModel, TriggerModel, Receive, GiveUp,
                AskBox, TriggerBox, Tick, HostTakes, LineFails
  <2> QED
    BY <2>1, <2>2, <2>3
<1>2. aiSeq \in Nat /\ boxSeq \in Nat /\ page \in Page /\ up \in Seq(Triggers)
  BY DEF TypeOK
<1>3. CASE AskModel
  BY <1>1, <1>3, OutsideKept DEF AskModel, Idle
<1>4. CASE TriggerModel
  <2>1. SHM(aiSeq) \in Triggers /\ SHM(aiSeq).k # "BOXREQ"
    BY <1>2 DEF SHM, Triggers
  <2> QED
    BY <1>1, <1>4, <2>1, OutsideKept DEF TriggerModel
<1>5. ASSUME Waiting, NoAnswer \/ Finish \/ Skip,
             down' = down \/ (down # <<>> /\ down' = Tail(down))
      PROVE  BoxCall'
  <2>1. REQ(aiSeq + 1) \in Triggers /\ REQ(aiSeq + 1).k # "BOXREQ"
    BY <1>2 DEF REQ, Triggers
  <2>2. pc # "box" /\ pc' \in {"idle", "shm", "ser"}
    BY <1>5 DEF Waiting, NoAnswer, Finish, Skip, Resend
  <2>3. up' = up \/ up' = Append(up, REQ(aiSeq + 1))
    BY <1>5 DEF NoAnswer, Finish, Skip, Resend
  <2> QED
    BY <1>1, <1>5, <2>1, <2>2, <2>3, OutsideKept
<1>6. CASE Receive
  BY <1>5, <1>6 DEF Receive, Discarded
<1>7. CASE GiveUp
  BY <1>5, <1>7 DEF GiveUp
<1>8. CASE AskBox
  BY <1>1, <1>8, OutsideKept DEF AskBox, Idle
<1>9. CASE TriggerBox
  <2>1. /\ pc = "boxwrite" /\ pc' = "box" /\ up' = Append(up, BOXREQ(boxSeq))
        /\ page' = [page EXCEPT !.body = BoxReq(boxSeq)]
        /\ boxSeq' = boxSeq /\ buf' = buf /\ down' = down
    BY <1>9 DEF TriggerBox, boxVars
  <2>2. NoBoxLines /\ NoBoxTriggers /\ buf = <<>>
    BY <1>1, <2>1 DEF BoxCall
  <2>3. OneAnswer' /\ NoBoxLines' /\ OwnBlocks'
    BY <2>1, <2>2 DEF OneAnswer, NoBoxLines, OwnBlocks, BoxLine
  <2>4. page'.body = BoxReq(boxSeq')
    BY <1>2, <2>1 DEF Page
  <2>5. OneBoxTrigger'
    <3>1. \A i \in DOMAIN up' : i = Len(up) + 1 \/ (i \in DOMAIN up /\ up'[i] = up[i])
      BY <1>2, <2>1
    <3> QED
      BY <2>2, <3>1 DEF OneBoxTrigger, NoBoxTriggers
  <2> QED
    BY <2>1, <2>3, <2>4, <2>5 DEF BoxCall
<1>10. CASE ReceiveBox
  BY <1>1, <1>10, ReceiveBoxKept
<1>11. CASE GiveUpBox
  BY <1>11 DEF GiveUpBox, VerdictTimeout
<1>12. CASE HostTakes
  BY <1>1, <1>12, HostTakesBox
<1>13. CASE LineFails
  BY <1>1, <1>13, LineFailsBox
<1>14. CASE Tick \/ UNCHANGED vars
  BY <1>1, <1>14 DEF Tick, vars, kernelVars, boxVars, BoxCall, NoBoxLines,
    NoBoxTriggers, OneBoxTrigger, OneAnswer, OwnBlocks, BoxLine
<1> QED
  BY <1>3, <1>4, <1>6, <1>7, <1>8, <1>9, <1>10, <1>11, <1>12, <1>13, <1>14 DEF Next

\* A product is accepted when END arrives in the call it answers.
LEMMA AcceptsOwn ==
  ASSUME TypeOK, absent \/ BoxCall, [Next]_vars, AcceptsProduct, ~absent
  PROVE  \A i \in DOMAIN buf' :
           buf'[i].src.body = BoxReq(boxSeq) /\ buf'[i].off = i - 1
<1>1. ReceiveBox /\ ~TakeStatus
  BY DEF AcceptsProduct, Next, vars, boxVars, AskModel, TriggerModel, Receive, GiveUp,
         AskBox, TriggerBox, GiveUpBox, Tick, HostTakes, LineFails, VerdictTimeout,
         TakeStatus
<1>2. Verdict
  BY <1>1 DEF AcceptsProduct, ReceiveBox, TakeData, TakeStatus, boxVars
<1>3. buf' = buf
  BY <1>2 DEF AcceptsProduct, Verdict, VerdictRejected, VerdictSchema, VerdictAccepted
<1>4. pc = "box"
  BY <1>1 DEF ReceiveBox
<1> QED
  BY <1>3, <1>4 DEF BoxCall, OwnBlocks

\* Until a box call has timed out, a product accepted is this call's, whole and
\* in order (fujo_box_run).
THEOREM ProductIsOwnCorrect == Spec => ProductIsOwn
<1>1. TypeOK /\ (absent \/ BoxCall) /\ [Next]_vars =>
        (AcceptsProduct /\ ~absent =>
           \A i \in DOMAIN buf' :
             buf'[i].src.body = BoxReq(boxSeq) /\ buf'[i].off = i - 1)
  BY AcceptsOwn
<1>2. Init => absent \/ BoxCall
  BY DEF Init, BoxCall, NoBoxLines, NoBoxTriggers
<1> QED
  BY <1>1, <1>2, TypeInit, TypeStep, BoxCallStep, PTL DEF Spec, ProductIsOwn
=============================================================================

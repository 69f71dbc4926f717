-------------------------- MODULE AuthorityProofs --------------------------
(***************************************************************************)
(* Proofs about Authority for every number of tasks and domains, every     *)
(* window of the ledger, and whatever texts, permissions and policies      *)
(* callers and models come up with.                                        *)
(***************************************************************************)
EXTENDS Authority, TLAPS

USE SizesAssumption, DutiesAssumption, PermsAssumption, TextsAssumption,
    ShapesAssumption

-----------------------------------------------------------------------------
(* Typing of the helpers. *)

CfgType == [Keys -> {Unset} \cup 0 .. 100]
TrailType == Seq(AudActions \X Nat \X (0 .. 2))

\* cfg_set writes nothing but values of their range.
LEMMA CfgAfterType ==
  ASSUME cfg \in CfgType, NEW key, NEW val
  PROVE  CfgAfter(key, val) \in CfgType
<1>1. CASE CfgAccepts(key, val)
  <2>1. val \in 0 .. 100 /\ key \in Keys
    BY <1>1 DEF CfgAccepts, MaxOf
  <2> QED
    BY <1>1, <2>1 DEF CfgType, CfgAfter
<1>2. CASE ~CfgAccepts(key, val)
  BY <1>2 DEF CfgAfter
<1> QED
  BY <1>1, <1>2

\* fujo_cap_exec keeps the types of what it changes.
LEMMA CapExecType ==
  ASSUME TypeOK, NEW act, NEW a0, NEW a1, FujoCapExec(act, a0, a1)
  PROVE  /\ state' \in [Tasks -> {"unused", "runnable", "suspended", "dead"}]
         /\ cfg' \in CfgType
         /\ pending' \in 0 .. MaxPending
         /\ UNCHANGED <<aux, bound, cur>>
<1>1. cfg' \in CfgType
  BY CfgAfterType DEF FujoCapExec, TypeOK, CfgType
<1>2. state' \in [Tasks -> {"unused", "runnable", "suspended", "dead"}]
  BY DEF FujoCapExec, TypeOK, Granted, Succeeds, StateOf, KILL, ISOLATE,
         RESUME, SET_CFG, ACK
<1>3. pending' \in 0 .. MaxPending
  BY DEF FujoCapExec, TypeOK
<1> QED
  BY <1>1, <1>2, <1>3 DEF FujoCapExec

\* The integer average of the full window stays between 0 and its size.
LEMMA AverageBound ==
  ASSUME NEW n \in Nat \ {0}, NEW h \in 0 .. n, NEW x \in {0, n}
  PROVE  (h * (n - 1) + x) \div n \in 0 .. n
<1> DEFINE s == h * (n - 1) + x
<1>1. h * (n - 1) \in Nat /\ h * (n - 1) <= n * (n - 1)
  OBVIOUS
<1>2. s \in 0 .. n * n
  BY <1>1
<1>3. s \div n \in Nat /\ n * (s \div n) <= s
  BY <1>2
<1>4. n * (s \div n) <= n * n
  BY <1>2, <1>3
<1>5. s \div n <= n
  BY <1>3, <1>4
<1> QED
  BY <1>3, <1>5

\* A well-formed ledger, with the history that belongs to it.
LedgerType == [hit : Nat, total : 0 .. QUAL_N, up : 0 .. WIDEN_CONFIRM]
StreakType == [hits : 0 .. QUAL_N, from : Nat]

LEMMA FedHitType ==
  ASSUME NEW l \in LedgerType, NEW hit \in BOOLEAN
  PROVE  FedHit(l, hit) \in Nat
<1>1. l.hit \in Nat /\ l.total \in 0 .. QUAL_N
  BY DEF LedgerType
<1>2. CASE l.total < QUAL_N
  BY <1>1, <1>2 DEF FedHit
<1>3. CASE ~(l.total < QUAL_N)
  <2> DEFINE s == l.hit * (QUAL_N - 1) + (IF hit THEN QUAL_N ELSE 0)
  <2>1. l.hit * (QUAL_N - 1) \in Nat
    BY <1>1
  <2>2. s \in Nat
    BY <2>1
  <2>3. s \div QUAL_N \in Nat
    BY <2>2
  <2> QED
    BY <1>3, <2>3 DEF FedHit
<1> QED
  BY <1>2, <1>3

LEMMA FeedType ==
  ASSUME TypeOK, NEW duty, NEW hit \in BOOLEAN, Feed(duty, hit)
  PROVE  /\ ledger' \in [Duties -> LedgerType]
         /\ streak' \in [Duties -> StreakType]
<1>1. ledger \in [Duties -> LedgerType] /\ streak \in [Duties -> StreakType]
  BY DEF TypeOK, LedgerType, StreakType
<1>2. CASE duty \in Duties
  <2>1. ledger[duty] \in LedgerType /\ streak[duty] \in StreakType
    BY <1>1, <1>2
  <2>2. FedHit(ledger[duty], hit) \in Nat 
    BY <2>1, FedHitType
  <2>3. Fed(ledger[duty], hit) \in LedgerType
    BY <2>1, <2>2 DEF Fed, UpTo, LedgerType
  <2>4. Ran(streak[duty], ledger[duty], hit) \in StreakType
    <3>1. CASE hit
      BY <2>1, <3>1 DEF Ran, UpTo, StreakType
    <3>2. CASE ~hit
      BY <2>2, <3>2 DEF Ran, StreakType
    <3> QED
      BY <3>1, <3>2
  <2>5. /\ ledger' = [ledger EXCEPT ![duty] = Fed(ledger[duty], hit)]
        /\ streak' = [streak EXCEPT
                        ![duty] = Ran(streak[duty], ledger[duty], hit)]
    BY <1>2 DEF Feed
  <2> QED
    BY <1>1, <1>2, <2>3, <2>4, <2>5
<1>3. CASE duty \notin Duties
  BY <1>1, <1>3 DEF Feed
<1> QED
  BY <1>2, <1>3

-----------------------------------------------------------------------------
(* Type correctness. *)

\* What a step writes to the audit ring is a sequence of entries.
LEMMA NoTrailType == <<>> \in TrailType
BY DEF TrailType

LEMMA ExecTrailType ==
  ASSUME NEW act \in Nat, NEW ok \in BOOLEAN
  PROVE  <<ExecNote(act, ok)>> \in TrailType
BY DEF ExecNote, Note, TrailType, AudActions

LEMMA TwiceTrailType ==
  ASSUME NEW act \in Nat, NEW ok \in BOOLEAN
  PROVE  TwiceNoted(act, ok) \in TrailType
BY DEF TwiceNoted, ExecNote, Note, TrailType, AudActions

LEMMA CheckTrailType == <<Note("check", 0, 1)>> \in TrailType
BY DEF Note, TrailType, AudActions

LEMMA LogTrailType ==
  ASSUME NEW k \in AudActions, NEW s \in ALL_ACTS
  PROVE  <<Note(k, s, 0)>> \in TrailType
BY DEF Note, TrailType, ALL_ACTS

LEMMA DomTrailType ==
  ASSUME NEW d \in Nat, NEW r \in 0 .. 2
  PROVE  <<DomNote(d, r)>> \in TrailType
BY DEF DomNote, Note, TrailType, AudActions

\* The job a step leaves behind is a well-formed rest of the text.
LEMMA JobTypes ==
  /\ NoJob \in Job
  /\ \A p \in Plans : [kind |-> "plan", rest |-> p, ok |-> FALSE] \in Job
  /\ \A t \in PolicyTexts :
       [kind |-> "policy", rest |-> t, ok |-> FALSE] \in Job
  /\ \A j \in Job, b \in BOOLEAN :
       j.rest # <<>> => /\ [kind |-> j.kind, rest |-> Tail(j.rest), ok |-> b] \in Job
                        /\ Head(j.rest)[1] \in Nat
<1>1. NoJob \in Job
  BY DEF NoJob, Job
<1>2. /\ \A p \in Plans : [kind |-> "plan", rest |-> p, ok |-> FALSE] \in Job
      /\ \A t \in PolicyTexts :
           [kind |-> "policy", rest |-> t, ok |-> FALSE] \in Job
  BY DEF Job
<1>3. ASSUME NEW j \in Job, NEW b \in BOOLEAN, j.rest # <<>>
      PROVE  /\ [kind |-> j.kind, rest |-> Tail(j.rest), ok |-> b] \in Job
             /\ Head(j.rest)[1] \in Nat
  <2>1. CASE j.rest \in Seq(Nat \X Nat \X Nat)
    <3>1. Tail(j.rest) \in Seq(Nat \X Nat \X Nat)
          /\ Head(j.rest) \in Nat \X Nat \X Nat
      BY <1>3, <2>1
    <3> QED
      BY <1>3, <3>1 DEF Job
  <2>2. CASE j.rest \in Seq(Nat \X Nat)
    <3>1. Tail(j.rest) \in Seq(Nat \X Nat) /\ Head(j.rest) \in Nat \X Nat
      BY <1>3, <2>2
    <3> QED
      BY <1>3, <3>1 DEF Job
  <2> QED
    BY <1>3, <2>1, <2>2 DEF Job
<1> QED
  BY <1>1, <1>2, <1>3

LEMMA TypeInit == Init => TypeOK
<1> SUFFICES ASSUME Init PROVE TypeOK
  OBVIOUS
<1>1. /\ exec \in [granted : BOOLEAN, perm : Perms]
      /\ dom \in [Doms -> [perm : SUBSET ALL_ACTS, granted : BOOLEAN,
                           as : SUBSET Regions, irq : BOOLEAN]]
      /\ state \in [Tasks -> {"unused", "runnable", "suspended", "dead"}]
      /\ aux \subseteq Tasks
      /\ bound \in [Tasks -> {0} \cup Doms]
      /\ cur \in Tasks
  BY DEF Init, Perms, Tasks
<1>2. cfg \in [Keys -> {Unset} \cup 0 .. 100] /\ pending \in 0 .. MaxPending
  BY DEF Init
<1>3. /\ ledger \in [Duties -> [hit : Nat, total : 0 .. QUAL_N,
                                up : 0 .. WIDEN_CONFIRM]]
      /\ streak \in [Duties -> [hits : 0 .. QUAL_N, from : Nat]]
  BY DEF Init, NoData, WIDEN_CONFIRM
<1>4. job \in Job
  BY JobTypes DEF Init
<1> QED
  BY <1>1, <1>2, <1>3, <1>4, NoTrailType DEF Init, TypeOK, TrailType

LEMMA TypeStep == TypeOK /\ [Next]_vars => TypeOK'
<1> SUFFICES ASSUME TypeOK, [Next]_vars PROVE TypeOK'
  OBVIOUS
<1>1. ASSUME NEW p \in PermSets, CapGrant(p) PROVE TypeOK'
  <2>1. p \in Perms
    BY DEF Perms
  <2>2. exec' \in [granted : BOOLEAN, perm : Perms]
    BY <1>1, <2>1 DEF CapGrant
  <2> QED
    BY <1>1, <2>2, NoTrailType DEF CapGrant, TypeOK, taskVars, TrailType
<1>2. ASSUME NEW p \in PermSets, CapCheck(p) PROVE TypeOK'
  <2>1. trail' \in TrailType
    BY <1>2, NoTrailType, CheckTrailType DEF CapCheck
  <2> QED
    BY <1>2, <2>1 DEF CapCheck, TypeOK, taskVars, TrailType
<1>20. ASSUME NEW k \in AudActions, NEW s \in ALL_ACTS, AudLog(k, s)
       PROVE  TypeOK'
  <2>1. trail' \in TrailType
    BY <1>20, LogTrailType DEF AudLog
  <2>2. UNCHANGED <<exec, dom, state, aux, bound, cur, cfg, pending, ledger,
                    irqSet, job, streak, revoked>>
    BY <1>20 DEF AudLog, taskVars
  <2> QED
    BY <2>1, <2>2 DEF TypeOK, TrailType
<1>3. ASSUME NEW p \in PermSets, NEW s \in DomShapes, DomCreate(p, s[1], s[2])
      PROVE  TypeOK'
  <2>1. s[1] \in SUBSET Regions /\ s[2] \in BOOLEAN
    OBVIOUS
  <2>2. PICK d \in Doms :
          /\ dom' = [dom EXCEPT ![d] = [perm |-> p \cap ALL_ACTS,
                                        granted |-> TRUE,
                                        as |-> s[1], irq |-> s[2]]]
          /\ trail' = <<DomNote(d, 0)>>
          /\ revoked' = revoked \ {d}
    BY <1>3 DEF DomCreate
  <2>3. trail' \in TrailType
    <3>1. d \in Nat /\ 0 \in 0 .. 2
      BY DEF Doms
    <3> QED
      BY <2>2, <3>1, DomTrailType
  <2> QED
    BY <1>3, <2>1, <2>2, <2>3 DEF DomCreate, TypeOK, taskVars, TrailType
<1>4. ASSUME NEW d \in {0} \cup Doms, SetCurrentDomain(d) PROVE TypeOK'
  <2>1. trail' \in TrailType
    BY <1>4, NoTrailType DEF SetCurrentDomain
  <2>2. bound' \in [Tasks -> {0} \cup Doms]
    BY <1>4 DEF SetCurrentDomain, TypeOK
  <2> QED
    BY <1>4, <2>1, <2>2 DEF SetCurrentDomain, TypeOK, TrailType
<1>5. ASSUME NEW d \in Doms, DomRevoke(d) PROVE TypeOK'
  <2>1. trail' \in TrailType
    <3>1. d \in Nat /\ 1 \in 0 .. 2
      BY DEF Doms
    <3> QED
      BY <1>5, <3>1, DomTrailType DEF DomRevoke
  <2>2. dom' \in [Doms -> [perm : SUBSET ALL_ACTS, granted : BOOLEAN,
                          as : SUBSET Regions, irq : BOOLEAN]]
    <3>1. [dom[d] EXCEPT !.granted = FALSE]
            \in [perm : SUBSET ALL_ACTS, granted : BOOLEAN,
                 as : SUBSET Regions, irq : BOOLEAN]
      <4> DEFINE R == [perm : SUBSET ALL_ACTS, granted : BOOLEAN,
                       as : SUBSET Regions, irq : BOOLEAN]
      <4>1. dom[d] \in R
        BY DEF TypeOK
      <4>2. \A x \in R : [x EXCEPT !.granted = FALSE] \in R
        OBVIOUS
      <4> QED
        BY <4>1, <4>2
    <3>2. dom' = [dom EXCEPT ![d] = [dom[d] EXCEPT !.granted = FALSE]]
      BY <1>5 DEF DomRevoke
    <3> QED
      BY <3>1, <3>2 DEF TypeOK
  <2> QED
    BY <1>5, <2>1, <2>2 DEF DomRevoke, TypeOK, taskVars, TrailType
<1>6. ASSUME IrqConfig PROVE TypeOK'
  BY <1>6 DEF IrqConfig, TypeOK, taskVars
<1>7. ASSUME NEW e \in ExecArgs, CapExec(e[1], e[2], e[3]) PROVE TypeOK'
  <2>1. e[1] \in Nat
    BY DEF ExecArgs, KILL, ISOLATE, RESUME, SET_CFG, ACK, BOX_CMD
  <2>2. trail' \in TrailType
    <3> DEFINE ok == Granted(e[1], e[2], e[3])
    <3>1. ok \in BOOLEAN
      BY DEF Granted, ExecAuthorized, Succeeds
    <3>2. trail' = TwiceNoted(e[1], ok) \/ trail' = <<ExecNote(e[1], FALSE)>>
      BY <1>7 DEF CapExec
    <3> HIDE DEF ok
    <3>3. TwiceNoted(e[1], ok) \in TrailType
      BY <2>1, <3>1, TwiceTrailType
    <3>4. <<ExecNote(e[1], FALSE)>> \in TrailType
      BY <2>1, ExecTrailType
    <3> QED
      BY <3>2, <3>3, <3>4
  <2>3. FujoCapExec(e[1], e[2], e[3])
    BY <1>7 DEF CapExec
  <2> QED
    BY <1>7, <2>2, <2>3, CapExecType DEF CapExec, TypeOK, TrailType, CfgType
<1>8. ASSUME NEW r, CapLaunch(r) PROVE TypeOK'
  <2>1. trail' \in TrailType
    BY <1>8, ExecTrailType DEF CapLaunch, LAUNCH
  <2>2. \A t \in LaunchSlots : t \in Tasks
    BY DEF LaunchSlots, TypeOK
  <2>3. /\ state' \in [Tasks -> {"unused", "runnable", "suspended", "dead"}]
        /\ aux' \subseteq Tasks
        /\ bound' \in [Tasks -> {0} \cup Doms]
    <3>1. CASE UNCHANGED <<state, aux, bound>>
      BY <3>1 DEF TypeOK
    <3>2. ASSUME NEW t \in LaunchSlots,
                 state' = [state EXCEPT ![t] = "runnable"],
                 aux' = aux \cup {t}, bound' = [bound EXCEPT ![t] = 0]
          PROVE  /\ state' \in [Tasks -> {"unused", "runnable", "suspended", "dead"}]
                 /\ aux' \subseteq Tasks
                 /\ bound' \in [Tasks -> {0} \cup Doms]
      BY <2>2, <3>2 DEF TypeOK
    <3> QED
      BY <1>8, <3>1, <3>2 DEF CapLaunch
  <2> QED
    BY <1>8, <2>1, <2>3 DEF CapLaunch, TypeOK, TrailType
<1>9. ASSUME NEW p \in Plans, PlanRun(p) PROVE TypeOK'
  BY <1>9, JobTypes DEF PlanRun, TypeOK, taskVars
<1>10. ASSUME PlanStep PROVE TypeOK'
  <2> DEFINE act == Head(job.rest)[1]
             a0 == Head(job.rest)[2]
             a1 == Head(job.rest)[3]
  <2>1. act \in Nat
    BY <1>10, JobTypes DEF PlanStep, TypeOK
  <2>2. job' \in Job
    <3> DEFINE b == job.ok \/ (Granted(act, a0, a1) /\ ActVerify(act, a0, a1))
    <3>1. b \in BOOLEAN /\ job.ok \in BOOLEAN
      BY DEF TypeOK, Job
    <3>2. job' = RestOfJob(b) \/ job' = RestOfJob(job.ok)
      BY <1>10 DEF PlanStep
    <3>3. job.rest # <<>> /\ job \in Job
      BY <1>10 DEF PlanStep, TypeOK
    <3> HIDE DEF b
    <3>4. RestOfJob(b) \in Job /\ RestOfJob(job.ok) \in Job
      BY <3>1, <3>3, JobTypes DEF RestOfJob
    <3> QED
      BY <3>2, <3>4
  <2>3. CASE act \in 1 .. 6
    <3>1. FujoCapExec(act, a0, a1)
          /\ trail' = <<ExecNote(act, Granted(act, a0, a1))>>
      BY <1>10, <2>3 DEF PlanStep
    <3>2. Granted(act, a0, a1) \in BOOLEAN
      BY DEF Granted, ExecAuthorized, Succeeds
    <3>3. UNCHANGED <<exec, dom, ledger, irqSet, streak, revoked>>
      BY <1>10 DEF PlanStep
    <3> HIDE DEF act, a0, a1
    <3>4. trail' \in TrailType
      BY <2>1, <3>1, <3>2, ExecTrailType
    <3>5. /\ state' \in [Tasks -> {"unused", "runnable", "suspended", "dead"}]
          /\ cfg' \in CfgType /\ pending' \in 0 .. MaxPending
          /\ UNCHANGED <<aux, bound, cur>>
      BY <3>1, CapExecType
    <3> QED
      BY <2>2, <3>3, <3>4, <3>5 DEF TypeOK, TrailType, CfgType
  <2>4. CASE act \notin 1 .. 6
    <3>1. /\ trail' = <<>>
          /\ UNCHANGED <<exec, dom, taskVars, cfg, pending, ledger, irqSet,
                         streak, revoked>>
      BY <1>10, <2>4 DEF PlanStep
    <3> HIDE DEF act, a0, a1
    <3>2. trail' \in TrailType
      BY <3>1, NoTrailType
    <3> QED
      BY <2>2, <3>1, <3>2 DEF TypeOK, taskVars, TrailType
  <2> QED
    BY <2>3, <2>4
<1>11. ASSUME NEW t \in PolicyTexts, NlcSet(t) PROVE TypeOK'
  BY <1>11, JobTypes DEF NlcSet, TypeOK, taskVars
<1>12. ASSUME NlcStep PROVE TypeOK'
  <2> DEFINE key == Head(job.rest)[1]
             val == Head(job.rest)[2]
  <2>1. cfg' \in CfgType
    BY <1>12, CfgAfterType DEF NlcStep, TypeOK, CfgType
  <2>2. job' \in Job
    <3> DEFINE b == job.ok \/ CfgAccepts(key, val)
    <3>1. b \in BOOLEAN
      BY DEF TypeOK, Job, CfgAccepts
    <3>2. job' = RestOfJob(b)
      BY <1>12 DEF NlcStep
    <3>3. job.rest # <<>> /\ job \in Job
      BY <1>12 DEF NlcStep, TypeOK
    <3> HIDE DEF b
    <3> QED
      BY <3>1, <3>2, <3>3, JobTypes DEF RestOfJob
  <2> QED
    BY <1>12, <2>1, <2>2, NoTrailType
    DEF NlcStep, TypeOK, taskVars, CfgType, TrailType
<1>13. ASSUME JobEnds PROVE TypeOK'
  <2> DEFINE duty == IF job.kind = "plan" THEN PlanDuty ELSE PolicyDuty
  <2>1. job.ok \in BOOLEAN
    BY DEF TypeOK, Job
  <2>2. Feed(duty, job.ok)
    BY <1>13 DEF JobEnds
  <2>3. ledger' \in [Duties -> LedgerType] /\ streak' \in [Duties -> StreakType]
    BY <2>1, <2>2, FeedType
  <2> QED
    BY <1>13, <2>3, JobTypes
    DEF JobEnds, TypeOK, taskVars, LedgerType, StreakType
<1>14. ASSUME NEW anom \in BOOLEAN, NEW conf \in Confs,
              NEW pid \in -1 .. MAX_TASKS, AnomRun(anom, conf, pid)
       PROVE  TypeOK'
  <2> DEFINE act == anom /\ CfgGet(2) = 1 /\ conf >= CfgGet(1) /\ pid # -1
             isolate == act /\ Granted(ISOLATE, pid, 0)
  <2>1. isolate \in BOOLEAN
    OBVIOUS
  <2>2. Feed(SentinelDuty, isolate)
    BY <1>14 DEF AnomRun
  <2>3. isolate => pid \in Tasks
    BY DEF Granted, Succeeds, KILL, ISOLATE, RESUME, SET_CFG, ACK
  <2>4. trail' = <<>> \/ trail' = <<ExecNote(ISOLATE, isolate)>>
    BY <1>14 DEF AnomRun
  <2>5. \/ state' = state
        \/ isolate /\ state' = [state EXCEPT ![pid] = "suspended"]
    BY <1>14 DEF AnomRun
  <2>6. /\ pending' = pending + (IF anom THEN 1 ELSE 0)
        /\ anom => pending < MaxPending
    BY <1>14 DEF AnomRun
  <2>7. UNCHANGED <<exec, dom, aux, bound, cur, cfg, irqSet, job, revoked>>
    BY <1>14 DEF AnomRun
  <2> HIDE DEF isolate
  <2>8. ledger' \in [Duties -> LedgerType] /\ streak' \in [Duties -> StreakType]
    BY <2>1, <2>2, FeedType
  <2>9. trail' \in TrailType
    <3>1. ISOLATE \in Nat
      BY DEF ISOLATE
    <3> QED
      BY <2>1, <2>4, <3>1, NoTrailType, ExecTrailType
  <2>10. state' \in [Tasks -> {"unused", "runnable", "suspended", "dead"}]
    BY <2>3, <2>5 DEF TypeOK
  <2>11. pending' \in 0 .. MaxPending
    BY <2>6 DEF TypeOK
  <2> QED
    BY <2>7, <2>8, <2>9, <2>10, <2>11
    DEF TypeOK, LedgerType, StreakType, TrailType
<1>15. ASSUME NEW p \in Profiles, EnvScan(p) PROVE TypeOK'
  <2>1. cfg' \in CfgType
    BY <1>15, CfgAfterType DEF EnvScan, TypeOK, CfgType
  <2> QED
    BY <1>15, <2>1 DEF EnvScan, TypeOK, taskVars, CfgType
<1>16. ASSUME NEW d \in Duties, NEW hit \in BOOLEAN, QualFeed(d, hit)
       PROVE  TypeOK'
  <2>1. ledger' \in [Duties -> LedgerType] /\ streak' \in [Duties -> StreakType]
    BY <1>16, FeedType DEF QualFeed
  <2> QED
    BY <1>16, <2>1, NoTrailType
    DEF QualFeed, TypeOK, taskVars, LedgerType, StreakType, TrailType
<1>17. ASSUME NEW d \in Duties, DomAdmit(d) PROVE TypeOK'
  <2>1. UpRun(d) \in 0 .. WIDEN_CONFIRM
    <3>1. ledger[d].up \in 0 .. 2
      BY DEF WIDEN_CONFIRM, TypeOK
    <3> DEFINE q == Rate(ledger[d]) < (IF CfgGet(7) > 1 THEN CfgGet(7) ELSE 1)
    <3>2. UpRun(d) = IF q THEN 0
                     ELSE IF ledger[d].up < 2 THEN ledger[d].up + 1 ELSE 2
      BY DEF UpRun, WIDEN_CONFIRM
    <3> HIDE DEF q
    <3>3. CASE q
      BY <3>2, <3>3 DEF WIDEN_CONFIRM
    <3>4. CASE ~q
      BY <3>1, <3>2, <3>4 DEF WIDEN_CONFIRM
    <3> QED
      BY <3>3, <3>4
  <2>2. ledger' \in [Duties -> [hit : Nat, total : 0 .. QUAL_N,
                               up : 0 .. WIDEN_CONFIRM]]
    <3> DEFINE u == UpRun(d)
    <3>1. ledger' = [ledger EXCEPT ![d].up = u]
      BY <1>17 DEF DomAdmit
    <3>2. u \in 0 .. WIDEN_CONFIRM
      BY <2>1
    <3>3. ledger \in [Duties -> [hit : Nat, total : 0 .. QUAL_N,
                                 up : 0 .. WIDEN_CONFIRM]]
      BY DEF TypeOK
    <3> HIDE DEF u
    <3> QED
      BY <3>1, <3>2, <3>3
  <2>3. CASE CurDom \in Doms /\ Admits(d) # "keep"
    <3> DEFINE pm == IF Admits(d) = "widen" THEN ALL_ACTS ELSE {ACK}
    <3>1. pm \in SUBSET ALL_ACTS
      BY DEF ALL_ACTS, ACK
    <3>2. /\ dom' = Adjusted(CurDom, pm)
          /\ trail' = <<DomNote(CurDom, 2)>>
      BY <1>17, <2>3 DEF DomAdmit
    <3> HIDE DEF pm
    <3>3. dom' \in [Doms -> [perm : SUBSET ALL_ACTS, granted : BOOLEAN,
                            as : SUBSET Regions, irq : BOOLEAN]]
      BY <2>3, <3>1, <3>2 DEF Adjusted, TypeOK
    <3>4. trail' \in TrailType
      <4>1. CurDom \in Nat /\ 2 \in 0 .. 2
        BY <2>3 DEF Doms
      <4> QED
        BY <3>2, <4>1, DomTrailType
    <3> QED
      BY <1>17, <2>2, <3>3, <3>4 DEF DomAdmit, TypeOK, taskVars, TrailType
  <2>4. CASE ~(CurDom \in Doms /\ Admits(d) # "keep")
    BY <1>17, <2>2, <2>4, NoTrailType DEF DomAdmit, TypeOK, taskVars, TrailType
  <2> QED
    BY <2>3, <2>4
<1>18. ASSUME NEW t \in Tasks, Schedule(t) PROVE TypeOK'
  <2>1. /\ cur' \in Tasks /\ trail' = <<>>
        /\ UNCHANGED <<exec, dom, state, aux, bound, cfg, pending, ledger,
                       irqSet, job, streak, revoked>>
    BY <1>18 DEF Schedule
  <2>2. trail' \in TrailType
    BY <2>1, NoTrailType
  <2> QED
    BY <2>1, <2>2, SMTT(30) DEF TypeOK, TrailType
<1>19. CASE UNCHANGED vars
  BY <1>19 DEF vars, taskVars, TypeOK
<1> QED
  BY <1>1, <1>2, <1>3, <1>4, <1>5, <1>6, <1>7, <1>8, <1>9, <1>10, <1>11,
     <1>12, <1>13, <1>14, <1>15, <1>16, <1>17, <1>18, <1>19, <1>20 DEF Next

\* Type correctness of every component: whatever texts, policies and
\* permissions come in, no policy leaves its range, no domain gets a right
\* outside of ALL_ACTS, and the executors only ever hold rests of their texts.
THEOREM TypeCorrect == Spec => []TypeOK
<1>1. Init => TypeOK
  BY TypeInit
<1>2. TypeOK /\ [Next]_vars => TypeOK'
  BY TypeStep
<1> QED
  BY <1>1, <1>2, PTL DEF Spec

-----------------------------------------------------------------------------
(* Authority and audit. *)

\* Steps that touch neither tasks, anomalies nor policies.
LEMMA QuietStep ==
  ASSUME TypeOK, UNCHANGED <<state, pending, cfg>>
  PROVE  Authorized
BY DEF Authorized, TypeOK

\* fujo_cap_exec changes nothing that the caller's domain may not change.
LEMMA CapExecAuthorized ==
  ASSUME TypeOK, NEW act, NEW a0, NEW a1, FujoCapExec(act, a0, a1)
  PROVE  Authorized
<1>1. CASE ~Granted(act, a0, a1)
  BY <1>1, QuietStep DEF FujoCapExec
<1>2. CASE Granted(act, a0, a1)
  <2>1. act \in DomainPerm(CurDom) /\ Succeeds(act, a0, a1)
    BY <1>2 DEF Granted, ExecAuthorized
  <2>2. ASSUME NEW t \in Tasks, state'[t] # state[t]
        PROVE  \E a \in {KILL, ISOLATE, RESUME} :
                 a \in DomainPerm(CurDom) /\ state'[t] = StateOf(a)
    <3>1. act \in {KILL, ISOLATE, RESUME}
          /\ state' = [state EXCEPT ![a0] = StateOf(act)]
      BY <1>2, <2>2 DEF FujoCapExec
    <3>2. t = a0
      BY <2>2, <3>1 DEF TypeOK
    <3>3. state'[t] = StateOf(act)
      BY <3>1, <3>2 DEF TypeOK
    <3> QED
      BY <2>1, <3>1, <3>3
  <2>3. pending' < pending => ACK \in DomainPerm(CurDom)
    BY <1>2, <2>1 DEF FujoCapExec, TypeOK
  <2>4. ASSUME NEW k \in Keys, cfg'[k] # cfg[k]
        PROVE  SET_CFG \in DomainPerm(CurDom)
    BY <1>2, <2>1, <2>4 DEF FujoCapExec
  <2> QED
    BY <2>2, <2>3, <2>4 DEF Authorized
<1> QED
  BY <1>1, <1>2

LEMMA AuthorizedStep == TypeOK /\ [Next]_vars => Authorized
<1> SUFFICES ASSUME TypeOK, [Next]_vars PROVE Authorized
  OBVIOUS
<1>1. ASSUME NEW e \in ExecArgs, CapExec(e[1], e[2], e[3]) PROVE Authorized
  BY <1>1, CapExecAuthorized DEF CapExec
<1>2. ASSUME NEW r, CapLaunch(r) PROVE Authorized
  <2>1. pending' = pending /\ cfg' = cfg
    BY <1>2 DEF CapLaunch
  <2>2. ASSUME NEW t \in Tasks, state'[t] # state[t]
        PROVE  LAUNCH \in DomainPerm(CurDom) /\ state'[t] = "runnable"
    <3>1. LAUNCH \in DomainPerm(CurDom)
      BY <1>2, <2>2 DEF CapLaunch, ExecAuthorized
    <3>2. PICK u \in LaunchSlots : state' = [state EXCEPT ![u] = "runnable"]
      BY <1>2, <2>2 DEF CapLaunch
    <3>3. state'[t] = "runnable"
      BY <2>2, <3>2 DEF TypeOK
    <3> QED
      BY <3>1, <3>3
  <2> QED
    BY <2>1, <2>2 DEF Authorized, TypeOK
<1>3. ASSUME PlanStep PROVE Authorized
  <2> DEFINE act == Head(job.rest)[1]
  <2>1. CASE act \in 1 .. 6
    BY <1>3, <2>1, CapExecAuthorized DEF PlanStep
  <2>2. CASE act \notin 1 .. 6
    BY <1>3, <2>2, QuietStep DEF PlanStep, taskVars
  <2> QED
    BY <2>1, <2>2
<1>4. ASSUME NlcStep PROVE Authorized
  BY <1>4 DEF NlcStep, Authorized, taskVars, TypeOK
<1>5. ASSUME NEW anom \in BOOLEAN, NEW conf \in Confs,
             NEW pid \in -1 .. MAX_TASKS, AnomRun(anom, conf, pid)
      PROVE  Authorized
  <2>1. cfg' = cfg
    BY <1>5 DEF AnomRun
  <2>2. \/ state' = state
        \/ Granted(ISOLATE, pid, 0) /\ state' = [state EXCEPT ![pid] = "suspended"]
    BY <1>5 DEF AnomRun
  <2>3. ASSUME NEW t \in Tasks, state'[t] # state[t]
        PROVE  ISOLATE \in DomainPerm(CurDom) /\ state'[t] = StateOf(ISOLATE)
    BY <2>2, <2>3 DEF Granted, ExecAuthorized, StateOf, KILL, ISOLATE, RESUME,
                      TypeOK
  <2>4. \A k \in Keys : cfg'[k] = cfg[k]
    BY <2>1
  <2>5. pending' \in Int /\ ~(pending' < pending)
    BY <1>5 DEF AnomRun, TypeOK
  <2>6. ISOLATE \in {KILL, ISOLATE, RESUME}
    OBVIOUS
  <2> QED
    BY <2>3, <2>4, <2>5, <2>6 DEF Authorized
<1>6. ASSUME NEW p \in Profiles, EnvScan(p) PROVE Authorized
  <2>1. \A k \in Keys \ {6} : cfg'[k] = cfg[k]
    BY <1>6 DEF EnvScan, CfgAfter, TypeOK
  <2>2. state' = state /\ pending' = pending
    BY <1>6 DEF EnvScan, taskVars
  <2> QED
    BY <2>1, <2>2 DEF Authorized, TypeOK
<1>7. ASSUME UNCHANGED <<state, pending, cfg>> PROVE Authorized
  BY <1>7, QuietStep
<1> QED
  BY <1>1, <1>2, <1>3, <1>4, <1>5, <1>6, <1>7
  DEF Next, vars, taskVars, CapGrant, CapCheck, AudLog, DomCreate, SetCurrentDomain,
      DomRevoke, IrqConfig, PlanRun, NlcSet, JobEnds, QualFeed, DomAdmit,
      Schedule

\* The blast radius theorem: for every number of tasks and domains, whatever
\* the plans, verdicts and texts of a model say, and after any history of
\* grants, revocations and adjustments, no step changes a task, acknowledges
\* an anomaly or sets a policy without the right of the caller's domain.
THEOREM EffectsAuthorizedCorrect == Spec => EffectsAuthorized
<1>1. Init => TypeOK
  BY TypeInit
<1>2. TypeOK /\ [Next]_vars => TypeOK'
  BY TypeStep
<1>3. TypeOK /\ [Next]_vars => [Authorized]_vars
  BY AuthorizedStep
<1> QED
  BY <1>1, <1>2, <1>3, PTL DEF Spec, EffectsAuthorized

\* What a trail of one entry says, and of one entry written twice.
LEMMA SaysOne ==
  ASSUME NEW n, NEW act, NEW r, trail' = <<n>> \/ trail' = <<n, n>>
  PROVE  Says(act, r) <=> n = Note("exec", act, r)
BY DEF Says

LEMMA SaysNothing ==
  ASSUME NEW act, NEW r, trail' = <<>>
  PROVE  ~Says(act, r)
BY DEF Says

\* A step that changes nothing of importance, and says nothing about actions.
LEMMA QuietHonest ==
  ASSUME TypeOK, UNCHANGED <<state, pending, cfg>>,
         \A act \in ALL_ACTS : ~Says(act, 1) \/ act = LAUNCH
  PROVE  Honest
<1>1. pending \in Int
  BY DEF TypeOK
<1> QED
  BY <1>1 DEF Honest

\* An entry of another kind says nothing about actions.
LEMMA OtherNotes ==
  ASSUME NEW d, NEW r, NEW k \in {"check", "domain"}, trail' = <<Note(k, d, r)>>
  PROVE  \A act \in ALL_ACTS : ~Says(act, 1)
<1> SUFFICES ASSUME NEW act \in ALL_ACTS PROVE ~Says(act, 1)
  OBVIOUS
<1>1. Says(act, 1) <=> Note(k, d, r) = Note("exec", act, 1)
  BY SaysOne
<1>2. Note(k, d, r) # Note("exec", act, 1)
  BY DEF Note
<1> QED
  BY <1>1, <1>2

\* fujo_cap_exec and its entry, once or twice in the ring.
LEMMA CapExecHonest ==
  ASSUME TypeOK, NEW act \in Nat \ {LAUNCH}, NEW a0, NEW a1,
         NEW ok \in BOOLEAN, ok <=> Granted(act, a0, a1),
         FujoCapExec(act, a0, a1),
         \/ trail' = <<ExecNote(act, ok)>>
         \/ trail' = <<ExecNote(act, ok), ExecNote(act, ok)>>
  PROVE  Honest
<1>1. \A b, r : Says(b, r) <=> ExecNote(act, ok) = Note("exec", b, r)
  BY SaysOne
<1>2. \A b, r : Says(b, r) <=> b = act /\ r = (IF ok THEN 0 ELSE 1)
  BY <1>1 DEF ExecNote, Note
<1>3. CASE ~ok
  <2>1. UNCHANGED <<state, pending, cfg>>
    BY <1>3 DEF FujoCapExec
  <2>2. pending \in Int
    BY DEF TypeOK
  <2> QED
    BY <1>2, <1>3, <2>1, <2>2 DEF Honest
<1>4. CASE ok
  <2>1. Says(act, 0) /\ \A b : ~Says(b, 1)
    BY <1>2, <1>4
  <2>2. ASSUME NEW t \in Tasks, state'[t] # state[t]
        PROVE  act \in {KILL, ISOLATE, RESUME} /\ state'[t] = StateOf(act)
    <3>1. act \in {KILL, ISOLATE, RESUME}
          /\ state' = [state EXCEPT ![a0] = StateOf(act)]
      BY <1>4, <2>2 DEF FujoCapExec
    <3>2. t = a0 /\ state'[t] = StateOf(act)
      BY <2>2, <3>1 DEF TypeOK
    <3> QED
      BY <3>1, <3>2
  <2>3. pending' < pending => act = ACK
    BY <1>4 DEF FujoCapExec, TypeOK
  <2>4. ASSUME NEW k \in Keys, cfg'[k] # cfg[k]
        PROVE  act = SET_CFG
    BY <1>4, <2>4 DEF FujoCapExec
  <2> QED
    BY <2>1, <2>2, <2>3, <2>4 DEF Honest
<1> QED
  BY <1>3, <1>4

LEMMA HonestStep == TypeOK /\ [Next]_vars => [Honest]_vars
<1> SUFFICES ASSUME TypeOK, Next PROVE Honest
  OBVIOUS
<1>1. ASSUME UNCHANGED <<state, pending, cfg>>, trail' = <<>> PROVE Honest
  BY <1>1, QuietHonest, SaysNothing
<1>2. ASSUME UNCHANGED <<state, pending, cfg>>,
             NEW d, NEW r, trail' = <<DomNote(d, r)>>
      PROVE  Honest
  BY <1>2, QuietHonest, OtherNotes DEF DomNote
<1>3. ASSUME NEW p \in PermSets, CapCheck(p) PROVE Honest
  <2>1. UNCHANGED <<state, pending, cfg>>
    BY <1>3 DEF CapCheck, taskVars
  <2>2. trail' = <<>> \/ trail' = <<Note("check", 0, 1)>>
    BY <1>3 DEF CapCheck
  <2> QED
    BY <1>1, <2>1, <2>2, QuietHonest, OtherNotes
<1>14. ASSUME NEW k \in AudActions, NEW s \in ALL_ACTS, AudLog(k, s)
       PROVE  Honest
  <2>1. \A act : ~Says(act, 1)
    <3>1. \A act : Says(act, 1) <=> Note(k, s, 0) = Note("exec", act, 1)
      BY <1>14, SaysOne DEF AudLog
    <3> QED
      BY <3>1 DEF Note
  <2> QED
    BY <1>14, <2>1, QuietHonest DEF AudLog, taskVars
<1>4. ASSUME NEW e \in ExecArgs, CapExec(e[1], e[2], e[3]) PROVE Honest
  <2> DEFINE ok == Granted(e[1], e[2], e[3])
  <2>1. e[1] \in Nat \ {LAUNCH}
    BY <1>4 DEF CapExec, ExecArgs, KILL, ISOLATE, RESUME, SET_CFG, ACK,
                BOX_CMD, LAUNCH
  <2>2. ok \in BOOLEAN /\ (ok => ExecAuthorized(e[1]))
    BY DEF Granted, ExecAuthorized, Succeeds
  <2>3. FujoCapExec(e[1], e[2], e[3])
    BY <1>4 DEF CapExec
  <2>4. trail' = IF ExecAuthorized(e[1]) THEN TwiceNoted(e[1], ok)
                                         ELSE <<ExecNote(e[1], FALSE)>>
    BY <1>4 DEF CapExec
  <2>5. ok <=> Granted(e[1], e[2], e[3])
    OBVIOUS
  <2> HIDE DEF ok
  <2>6. \/ trail' = <<ExecNote(e[1], ok)>>
        \/ trail' = <<ExecNote(e[1], ok), ExecNote(e[1], ok)>>
    <3>1. CASE ExecAuthorized(e[1])
      BY <2>4, <3>1 DEF TwiceNoted
    <3>2. CASE ~ExecAuthorized(e[1])
      <4>1. ok = FALSE
        BY <2>2, <3>2
      <4> QED
        BY <2>4, <3>2, <4>1
    <3> QED
      BY <3>1, <3>2
  <2> QED
    BY <2>1, <2>2, <2>3, <2>5, <2>6, CapExecHonest
<1>5. ASSUME NEW r, CapLaunch(r) PROVE Honest
  <2>1. pending' = pending /\ cfg' = cfg /\ pending \in Int
        /\ trail' = <<ExecNote(LAUNCH, FALSE)>>
    BY <1>5 DEF CapLaunch, TypeOK
  <2>2. \A b, x : Says(b, x) <=> ExecNote(LAUNCH, FALSE) = Note("exec", b, x)
    BY <2>1, SaysOne
  <2>3. \A b, x : Says(b, x) <=> b = LAUNCH /\ x = 1
    BY <2>2 DEF ExecNote, Note
  <2> QED
    BY <2>1, <2>3 DEF Honest
<1>6. ASSUME PlanStep PROVE Honest
  <2> DEFINE act == Head(job.rest)[1]
             a0 == Head(job.rest)[2]
             a1 == Head(job.rest)[3]
             ok == Granted(act, a0, a1)
  <2>1. CASE act \in 1 .. 6 /\ act # LAUNCH
    <3>1. FujoCapExec(act, a0, a1) /\ trail' = <<ExecNote(act, ok)>>
      BY <1>6, <2>1 DEF PlanStep
    <3>2. ok \in BOOLEAN /\ (ok <=> Granted(act, a0, a1)) /\ act \in Nat \ {LAUNCH}
      BY <2>1 DEF Granted, ExecAuthorized, Succeeds
    <3> HIDE DEF ok, act, a0, a1
    <3> QED
      BY <3>1, <3>2, CapExecHonest
  <2>2. CASE act = LAUNCH
    <3>1. FujoCapExec(LAUNCH, a0, a1) /\ trail' = <<ExecNote(LAUNCH, ok)>>
      BY <1>6, <2>2 DEF PlanStep, LAUNCH
    <3>2. UNCHANGED <<state, pending, cfg>>
      BY <3>1 DEF FujoCapExec, KILL, ISOLATE, RESUME, SET_CFG, ACK, LAUNCH
    <3>3. \A b, x : Says(b, x) <=> ExecNote(LAUNCH, ok) = Note("exec", b, x)
      BY <3>1, SaysOne
    <3>4. \A b, x : Says(b, x) => b = LAUNCH
      BY <3>3 DEF ExecNote, Note
    <3> QED
      BY <3>2, <3>4, QuietHonest
  <2>3. CASE act \notin 1 .. 6
    BY <1>1, <1>6, <2>3 DEF PlanStep, taskVars
  <2> QED
    BY <2>1, <2>2, <2>3
<1>7. ASSUME NlcStep PROVE Honest
  <2>1. \A b, x : ~Says(b, x)
    BY <1>7, SaysNothing DEF NlcStep
  <2> QED
    BY <1>7, <2>1 DEF NlcStep, Honest, taskVars, TypeOK
<1>8. ASSUME NEW anom \in BOOLEAN, NEW conf \in Confs,
             NEW pid \in -1 .. MAX_TASKS, AnomRun(anom, conf, pid)
      PROVE  Honest
  <2> DEFINE act == anom /\ CfgGet(2) = 1 /\ conf >= CfgGet(1) /\ pid # -1
             isolate == act /\ Granted(ISOLATE, pid, 0)
  <2>1. isolate \in BOOLEAN
    OBVIOUS
  <2>2. \/ /\ state' = state
           /\ trail' = <<>>
        \/ /\ state' = IF isolate THEN [state EXCEPT ![pid] = "suspended"]
                                  ELSE state
           /\ trail' = <<ExecNote(ISOLATE, isolate)>>
    BY <1>8 DEF AnomRun
  <2>3. cfg' = cfg
    BY <1>8 DEF AnomRun
  <2>4. pending' \in Int /\ ~(pending' < pending) /\ pending' >= pending
    BY <1>8 DEF AnomRun, TypeOK
  <2> HIDE DEF isolate
  <2>5. CASE state' = state /\ trail' = <<>>
    <3>1. \A b, x : ~Says(b, x)
      BY <2>5, SaysNothing
    <3> QED
      BY <2>3, <2>4, <2>5, <3>1 DEF Honest
  <2>6. CASE /\ state' = IF isolate THEN [state EXCEPT ![pid] = "suspended"]
                                    ELSE state
             /\ trail' = <<ExecNote(ISOLATE, isolate)>>
    <3>1. \A b, x : Says(b, x) <=> ExecNote(ISOLATE, isolate) = Note("exec", b, x)
      BY <2>6, SaysOne
    <3>2. \A b, x : Says(b, x) <=> b = ISOLATE /\ x = (IF isolate THEN 0 ELSE 1)
      BY <3>1 DEF ExecNote, Note
    <3>3. CASE ~isolate
      BY <2>3, <2>4, <2>6, <3>2, <3>3 DEF Honest
    <3>4. CASE isolate
      <4>1. Says(ISOLATE, 0) /\ \A b : ~Says(b, 1)
        BY <3>2, <3>4
      <4>2. \A t \in Tasks : state'[t] # state[t] => state'[t] = StateOf(ISOLATE)
        BY <2>6, <3>4 DEF TypeOK, StateOf, KILL, ISOLATE, RESUME
      <4>3. ISOLATE \in {KILL, ISOLATE, RESUME}
        OBVIOUS
      <4> QED
        BY <2>3, <2>4, <4>1, <4>2, <4>3 DEF Honest
    <3> QED
      BY <3>3, <3>4
  <2> QED
    BY <2>2, <2>5, <2>6
<1>9. ASSUME NEW p \in Profiles, EnvScan(p) PROVE Honest
  <2>1. \A k \in Keys \ {6} : cfg'[k] = cfg[k]
    BY <1>9 DEF EnvScan, CfgAfter, TypeOK
  <2>2. state' = state /\ pending' = pending /\ pending \in Int
    BY <1>9 DEF EnvScan, taskVars, TypeOK
  <2>3. \A b, x : ~Says(b, x)
    BY <1>9, SaysNothing DEF EnvScan
  <2> QED
    BY <2>1, <2>2, <2>3 DEF Honest
<1>10. ASSUME NEW p \in PermSets, NEW s \in DomShapes, DomCreate(p, s[1], s[2])
       PROVE  Honest
  BY <1>2, <1>10 DEF DomCreate, taskVars
<1>11. ASSUME NEW d \in Doms, DomRevoke(d) PROVE Honest
  BY <1>2, <1>11 DEF DomRevoke, taskVars
<1>12. ASSUME NEW d \in Duties, DomAdmit(d) PROVE Honest
  BY <1>1, <1>2, <1>12 DEF DomAdmit, taskVars
<1>13. CASE \/ \E p \in PermSets : CapGrant(p)
            \/ \E d \in {0} \cup Doms : SetCurrentDomain(d)
            \/ IrqConfig
            \/ \E p \in Plans : PlanRun(p)
            \/ \E t \in PolicyTexts : NlcSet(t)
            \/ JobEnds
            \/ \E d \in Duties, hit \in BOOLEAN : QualFeed(d, hit)
            \/ \E t \in Tasks : Schedule(t)
  BY <1>1, <1>13
  DEF CapGrant, SetCurrentDomain, IrqConfig, PlanRun, NlcSet, JobEnds,
      QualFeed, Schedule, taskVars
<1> QED
  BY <1>3, <1>4, <1>5, <1>6, <1>7, <1>8, <1>9, <1>10, <1>11, <1>12, <1>13,
     <1>14
  DEF Next

\* The audit ring tells the truth about every action, for every text and
\* every history: an entry that says denied stands for a step that did
\* nothing, and nothing happens to a task or by an action without an entry.
THEOREM AuditHonestCorrect == Spec => AuditHonest
<1>1. Init => TypeOK
  BY TypeInit
<1>2. TypeOK /\ [Next]_vars => TypeOK'
  BY TypeStep
<1>3. TypeOK /\ [Next]_vars => [Honest]_vars
  BY HonestStep
<1> QED
  BY <1>1, <1>2, <1>3, PTL DEF Spec, AuditHonest

-----------------------------------------------------------------------------
(* Thresholds and ledger. *)

\* cfg_set keeps the order of thresholds that were both set.
LEMMA CfgAfterOrdered ==
  ASSUME cfg \in CfgType, TauOrderedOnceSet, NEW key, NEW val,
         cfg' = CfgAfter(key, val)
  PROVE  TauOrderedOnceSet'
<1>1. CASE ~CfgAccepts(key, val)
  BY <1>1 DEF CfgAfter, TauOrderedOnceSet, CfgGet, Unset
<1>2. CASE CfgAccepts(key, val)
  <2>1. cfg' = [cfg EXCEPT ![key] = val] /\ key \in Keys /\ val \in 0 .. 100
    <3>1. cfg' = [cfg EXCEPT ![key] = val]
      BY <1>2 DEF CfgAfter
    <3>2. key \in Keys /\ val \in 0 .. MaxOf(key)
      BY <1>2 DEF CfgAccepts
    <3> DEFINE m == MaxOf(key)
    <3>3. m \in {1, 100} /\ val \in 0 .. m
      BY <3>2 DEF MaxOf
    <3> HIDE DEF m
    <3>4. val \in 0 .. 100
      BY <3>3
    <3> QED
      BY <3>1, <3>2, <3>4
  <2>2. /\ key = 7 => val > (IF cfg[8] = Unset THEN 30 ELSE cfg[8])
        /\ key = 8 => val < (IF cfg[7] = Unset THEN 70 ELSE cfg[7])
    BY <1>2 DEF CfgAccepts
  <2>3. cfg[7] \in Int /\ cfg[8] \in Int /\ 7 \in Keys /\ 8 \in Keys
    <3>1. 7 \in Keys /\ 8 \in Keys
      BY DEF Keys
    <3>2. cfg[7] \in {Unset} \cup 0 .. 100 /\ cfg[8] \in {Unset} \cup 0 .. 100
      BY <3>1 DEF CfgType
    <3>3. Unset \in Int
      BY DEF Unset
    <3>4. \A x \in {Unset} \cup 0 .. 100 : x \in Int
      BY <3>3
    <3> QED
      BY <3>1, <3>2, <3>4
  <2>4. CASE key = 7
    BY <2>1, <2>2, <2>3, <2>4 DEF TauOrderedOnceSet, CfgGet, CfgType, Unset
  <2>5. CASE key = 8
    BY <2>1, <2>2, <2>3, <2>5 DEF TauOrderedOnceSet, CfgGet, CfgType, Unset
  <2>6. CASE key \notin {7, 8}
    <3>1. cfg'[7] = cfg[7] /\ cfg'[8] = cfg[8]
      BY <2>1, <2>6 DEF CfgType
    <3> QED
      BY <3>1 DEF TauOrderedOnceSet, CfgGet
  <2> QED
    BY <2>4, <2>5, <2>6
<1> QED
  BY <1>1, <1>2

LEMMA TauStep ==
  TypeOK /\ TauOrderedOnceSet /\ [Next]_vars => TauOrderedOnceSet'
<1> SUFFICES ASSUME TypeOK, TauOrderedOnceSet, [Next]_vars
             PROVE  TauOrderedOnceSet'
  OBVIOUS
<1> DEFINE Writes == \E key, val : cfg' = CfgAfter(key, val)
<1>1. cfg \in CfgType
  BY DEF TypeOK, CfgType
<1>2. ASSUME cfg' = cfg PROVE TauOrderedOnceSet'
  BY <1>2 DEF TauOrderedOnceSet, CfgGet
<1>3. ASSUME Writes PROVE TauOrderedOnceSet'
  BY <1>1, <1>3, CfgAfterOrdered
<1>4. ASSUME NEW act, NEW a0, NEW a1, FujoCapExec(act, a0, a1)
      PROVE  cfg' = cfg \/ Writes
  BY <1>4 DEF FujoCapExec
<1>5. ASSUME NEW e \in ExecArgs, CapExec(e[1], e[2], e[3])
      PROVE  cfg' = cfg \/ Writes
  BY <1>4, <1>5 DEF CapExec
<1>6. ASSUME PlanStep PROVE cfg' = cfg \/ Writes
  BY <1>4, <1>6 DEF PlanStep
<1>7. ASSUME NlcStep PROVE Writes
  BY <1>7 DEF NlcStep
<1>8. ASSUME NEW p \in Profiles, EnvScan(p) PROVE Writes
  BY <1>8 DEF EnvScan
<1>9. CASE \/ \E p \in PermSets : CapGrant(p)
           \/ \E p \in PermSets : CapCheck(p)
           \/ \E k \in AudActions, s \in ALL_ACTS : AudLog(k, s)
           \/ \E p \in PermSets, s \in DomShapes : DomCreate(p, s[1], s[2])
           \/ \E d \in {0} \cup Doms : SetCurrentDomain(d)
           \/ \E d \in Doms : DomRevoke(d)
           \/ IrqConfig
           \/ \E r \in Regions \cup {"outside"} : CapLaunch(r)
           \/ \E p \in Plans : PlanRun(p)
           \/ \E t \in PolicyTexts : NlcSet(t)
           \/ JobEnds
           \/ \E anom \in BOOLEAN, conf \in Confs, pid \in -1 .. MAX_TASKS :
                AnomRun(anom, conf, pid)
           \/ \E d \in Duties, hit \in BOOLEAN : QualFeed(d, hit)
           \/ \E d \in Duties : DomAdmit(d)
           \/ \E t \in Tasks : Schedule(t)
           \/ UNCHANGED vars
  <2>1. cfg' = cfg
    BY <1>9
    DEF CapGrant, CapCheck, AudLog, DomCreate, SetCurrentDomain, DomRevoke, IrqConfig,
        CapLaunch, PlanRun, NlcSet, JobEnds, AnomRun, QualFeed, DomAdmit,
        Schedule, vars
  <2> QED
    BY <1>2, <2>1
<1> HIDE DEF Writes
<1> QED
  BY <1>2, <1>3, <1>5, <1>6, <1>7, <1>8, <1>9 DEF Next

\* However the thresholds are written and by whom, once both were set the one
\* for widening is above the one for shrinking: a quality never counts as
\* good enough to widen and bad enough to shrink at once.
THEOREM TauOrderedCorrect == Spec => []TauOrderedOnceSet
<1>1. Init => TypeOK /\ TauOrderedOnceSet
  BY TypeInit DEF Init, TauOrderedOnceSet, Keys
<1>2. TypeOK /\ TauOrderedOnceSet /\ [Next]_vars
        => TypeOK' /\ TauOrderedOnceSet'
  BY TypeStep, TauStep
<1> QED
  BY <1>1, <1>2, PTL DEF Spec

\* One sample keeps the count within the window, and exact before it is full.
LEMMA FedCounts ==
  ASSUME NEW l \in LedgerType, NEW s \in StreakType, NEW hit \in BOOLEAN,
         l.hit <= l.total,
         l.total < QUAL_N => l.hit = s.from + s.hits
  PROVE  /\ Fed(l, hit).hit <= Fed(l, hit).total
         /\ Fed(l, hit).total < QUAL_N =>
              Fed(l, hit).hit = Ran(s, l, hit).from + Ran(s, l, hit).hits
<1>1. /\ l.hit \in Nat /\ l.total \in 0 .. QUAL_N
      /\ s.hits \in 0 .. QUAL_N /\ s.from \in Nat
  BY DEF LedgerType, StreakType
<1>2. /\ Fed(l, hit).hit = FedHit(l, hit)
      /\ Fed(l, hit).total = UpTo(l.total)
  BY DEF Fed
<1>3. CASE l.total < QUAL_N
  <2>1. /\ FedHit(l, hit) = l.hit + (IF hit THEN 1 ELSE 0)
        /\ UpTo(l.total) = l.total + 1
    BY <1>3 DEF FedHit, UpTo
  <2>2. s.hits < QUAL_N
    BY <1>1, <1>3
  <2>3. CASE hit
    <3>1. Ran(s, l, hit).hits = s.hits + 1 /\ Ran(s, l, hit).from = s.from
      BY <2>2, <2>3 DEF Ran, UpTo
    <3>2. Fed(l, hit).hit = l.hit + 1 /\ Fed(l, hit).total = l.total + 1
      BY <1>2, <2>1, <2>3
    <3>3. l.hit = s.from + s.hits
      BY <1>3
    <3>4. l.hit + 1 <= l.total + 1
      BY <1>1
    <3>5. Fed(l, hit).hit = Ran(s, l, hit).from + Ran(s, l, hit).hits
      BY <1>1, <3>1, <3>2, <3>3
    <3> QED
      BY <3>2, <3>4, <3>5
  <2>4. CASE ~hit
    <3>1. Ran(s, l, hit).hits = 0 /\ Ran(s, l, hit).from = FedHit(l, hit)
      BY <2>4 DEF Ran
    <3> QED
      BY <1>1, <1>2, <1>3, <2>1, <2>4, <3>1
  <2> QED
    BY <2>3, <2>4
<1>4. CASE ~(l.total < QUAL_N)
  <2> DEFINE x == IF hit THEN QUAL_N ELSE 0
  <2>1. l.total = QUAL_N /\ UpTo(l.total) = QUAL_N /\ l.hit \in 0 .. QUAL_N
    BY <1>1, <1>4 DEF UpTo
  <2>2. FedHit(l, hit) = (l.hit * (QUAL_N - 1) + x) \div QUAL_N
    BY <1>4 DEF FedHit
  <2>3. x \in {0, QUAL_N}
    OBVIOUS
  <2> HIDE DEF x
  <2>4. FedHit(l, hit) \in 0 .. QUAL_N
    <3>1. (l.hit * (QUAL_N - 1) + x) \div QUAL_N \in 0 .. QUAL_N
      BY <2>1, <2>3, AverageBound
    <3> QED
      BY <2>2, <3>1, Zenon
  <2>5. Fed(l, hit).hit \in 0 .. QUAL_N /\ Fed(l, hit).total = QUAL_N
    BY <1>2, <2>1, <2>4
  <2>6. ~(Fed(l, hit).total < QUAL_N)
    BY <2>5
  <2> QED
    BY <2>5, <2>6
<1> QED
  BY <1>3, <1>4

LEMMA LedgerStep == TypeOK /\ LedgerCounts /\ [Next]_vars => LedgerCounts'
<1> SUFFICES ASSUME TypeOK, LedgerCounts, [Next]_vars PROVE LedgerCounts'
  OBVIOUS
<1>1. ledger \in [Duties -> LedgerType] /\ streak \in [Duties -> StreakType]
  BY DEF TypeOK, LedgerType, StreakType
<1>2. ASSUME UNCHANGED <<ledger, streak>> PROVE LedgerCounts'
  BY <1>2 DEF LedgerCounts
<1>3. ASSUME NEW duty, NEW hit \in BOOLEAN, Feed(duty, hit) PROVE LedgerCounts'
  <2>1. CASE duty \notin Duties
    BY <1>2, <1>3, <2>1 DEF Feed
  <2>2. CASE duty \in Duties
    <3>1. /\ ledger' = [ledger EXCEPT ![duty] = Fed(ledger[duty], hit)]
          /\ streak' = [streak EXCEPT
                          ![duty] = Ran(streak[duty], ledger[duty], hit)]
      BY <1>3, <2>2 DEF Feed
    <3> SUFFICES ASSUME NEW d \in Duties
                 PROVE  /\ ledger'[d].hit <= ledger'[d].total
                        /\ ledger'[d].total < QUAL_N =>
                             ledger'[d].hit = streak'[d].from + streak'[d].hits
      BY DEF LedgerCounts
    <3>2. CASE d = duty
      <4>1. /\ ledger'[d] = Fed(ledger[d], hit)
            /\ streak'[d] = Ran(streak[d], ledger[d], hit)
        BY <1>1, <3>1, <3>2
      <4>2. /\ ledger[d] \in LedgerType /\ streak[d] \in StreakType
            /\ ledger[d].hit <= ledger[d].total
            /\ ledger[d].total < QUAL_N =>
                 ledger[d].hit = streak[d].from + streak[d].hits
        BY <1>1 DEF LedgerCounts
      <4> QED
        BY <4>1, <4>2, FedCounts
    <3>3. CASE d # duty
      <4>1. ledger'[d] = ledger[d] /\ streak'[d] = streak[d]
        BY <1>1, <3>1, <3>3
      <4> QED
        BY <4>1 DEF LedgerCounts
    <3> QED
      BY <3>2, <3>3
  <2> QED
    BY <2>1, <2>2
<1>4. ASSUME JobEnds PROVE LedgerCounts'
  <2>1. job.ok \in BOOLEAN
    BY DEF TypeOK, Job
  <2> QED
    BY <1>3, <1>4, <2>1 DEF JobEnds
<1>5. ASSUME NEW anom \in BOOLEAN, NEW conf \in Confs,
             NEW pid \in -1 .. MAX_TASKS, AnomRun(anom, conf, pid)
      PROVE  LedgerCounts'
  <2>1. PICK isolate \in BOOLEAN : Feed(SentinelDuty, isolate)
    BY <1>5 DEF AnomRun
  <2> QED
    BY <1>3, <2>1
<1>6. ASSUME NEW d \in Duties, NEW hit \in BOOLEAN, QualFeed(d, hit)
      PROVE  LedgerCounts'
  BY <1>3, <1>6 DEF QualFeed
<1>7. ASSUME NEW d \in Duties, DomAdmit(d) PROVE LedgerCounts'
  <2>1. ledger' = [ledger EXCEPT ![d].up = UpRun(d)] /\ streak' = streak
    BY <1>7 DEF DomAdmit
  <2>2. \A e \in Duties : /\ ledger'[e].hit = ledger[e].hit
                          /\ ledger'[e].total = ledger[e].total
    BY <1>1, <2>1 DEF LedgerType
  <2> QED
    BY <2>1, <2>2 DEF LedgerCounts
<1>8. ASSUME PlanStep \/ NlcStep \/ IrqConfig PROVE LedgerCounts'
  BY <1>2, <1>8 DEF PlanStep, NlcStep, IrqConfig
<1>9. CASE \/ \E p \in PermSets : CapGrant(p)
           \/ \E p \in PermSets : CapCheck(p)
           \/ \E k \in AudActions, s \in ALL_ACTS : AudLog(k, s)
           \/ \E p \in PermSets, s \in DomShapes : DomCreate(p, s[1], s[2])
           \/ \E d \in {0} \cup Doms : SetCurrentDomain(d)
           \/ \E d \in Doms : DomRevoke(d)
           \/ \E e \in ExecArgs : CapExec(e[1], e[2], e[3])
           \/ \E r \in Regions \cup {"outside"} : CapLaunch(r)
           \/ \E p \in Plans : PlanRun(p)
           \/ \E t \in PolicyTexts : NlcSet(t)
           \/ \E p \in Profiles : EnvScan(p)
           \/ \E t \in Tasks : Schedule(t)
           \/ UNCHANGED vars
  <2>1. UNCHANGED <<ledger, streak>>
    BY <1>9
    DEF CapGrant, CapCheck, AudLog, DomCreate, SetCurrentDomain, DomRevoke, CapExec,
        CapLaunch, PlanRun, NlcSet, EnvScan, Schedule, vars
  <2> QED
    BY <1>2, <2>1
<1> QED
  BY <1>4, <1>5, <1>6, <1>7, <1>8, <1>9 DEF Next

\* For every window size and every order of samples a quality rate is a
\* percentage, and exact until the window is full.
THEOREM LedgerCountsCorrect == Spec => []LedgerCounts
<1>1. Init => TypeOK /\ LedgerCounts
  <2>1. Init => LedgerCounts
    BY DEF Init, LedgerCounts, NoData
  <2> QED
    BY <2>1, TypeInit
<1>2. TypeOK /\ LedgerCounts /\ [Next]_vars => TypeOK' /\ LedgerCounts'
  BY TypeStep, LedgerStep
<1> QED
  BY <1>1, <1>2, PTL DEF Spec

\* A rate below the threshold for shrinking is below the one for widening, so
\* it ends the run of good admissions and the admission shrinks the domain.
LEMMA ShrinkStep ==
  ASSUME TypeOK, TauOrderedOnceSet, NEW d \in Duties, DomAdmit(d),
         CurDom \in Doms, cfg[7] # Unset, cfg[8] # Unset,
         Rate(ledger[d]) < CfgGet(8)
  PROVE  dom'[CurDom].perm = {ACK}
<1>1. CfgGet(7) \in Int /\ CfgGet(8) \in Int /\ CfgGet(7) > CfgGet(8)
  <2>1. 7 \in Keys /\ 8 \in Keys
    BY DEF Keys
  <2>2. cfg[7] \in 0 .. 100 /\ cfg[8] \in 0 .. 100
    BY <2>1 DEF TypeOK
  <2>3. CfgGet(7) = cfg[7] /\ CfgGet(8) = cfg[8]
    BY DEF CfgGet
  <2>4. CfgGet(7) > CfgGet(8)
    BY DEF TauOrderedOnceSet
  <2>5. cfg[7] \in Int /\ cfg[8] \in Int
    <3>1. \A x \in 0 .. 100 : x \in Int
      OBVIOUS
    <3> QED
      BY <2>2, <3>1, Zenon
  <2>6. CfgGet(7) \in Int /\ CfgGet(8) \in Int
    BY <2>3, <2>5, Zenon
  <2> QED
    BY <2>4, <2>6, Zenon
<1>2. Rate(ledger[d]) \in Int
  <2>1. ledger[d].hit \in Nat /\ ledger[d].total \in 0 .. QUAL_N
    BY DEF TypeOK
  <2> QED
    BY <2>1 DEF Rate
<1>3. Rate(ledger[d]) < (IF CfgGet(7) > 1 THEN CfgGet(7) ELSE 1)
  BY <1>1, <1>2
<1>4. UpRun(d) = 0
  BY <1>3 DEF UpRun
<1>5. Admits(d) = "shrink"
  BY <1>4 DEF Admits, WIDEN_CONFIRM
<1>6. dom' = Adjusted(CurDom, {ACK})
  BY <1>5 DEF DomAdmit
<1>7. dom \in [Doms -> [perm : SUBSET ALL_ACTS, granted : BOOLEAN,
                        as : SUBSET Regions, irq : BOOLEAN]]
  BY DEF TypeOK
<1> QED
  BY <1>6, <1>7 DEF Adjusted

\* However good the admissions before were and however the thresholds came
\* about: one admission below the lower threshold takes every right but ACK.
THEOREM LowQualityShrinksCorrect == Spec => LowQualityShrinks
<1> DEFINE Shrinks ==
      \A d \in Duties :
        /\ DomAdmit(d)
        /\ CurDom \in Doms
        /\ cfg[7] # Unset /\ cfg[8] # Unset
        /\ Rate(ledger[d]) < CfgGet(8)
        => dom'[CurDom].perm = {ACK}
<1>1. TypeOK /\ TauOrderedOnceSet => Shrinks
  BY ShrinkStep
<1>2. TypeOK /\ TauOrderedOnceSet => [Shrinks]_vars
  BY <1>1
<1> QED
  BY <1>2, TypeCorrect, TauOrderedCorrect, PTL DEF LowQualityShrinks
=============================================================================

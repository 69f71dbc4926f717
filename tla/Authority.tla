------------------------------ MODULE Authority ------------------------------
(***************************************************************************)
(* Who may do what to the system: kernel/src/capability.rs (exec slot,     *)
(* domains, policy values, audit), the dispatch of 0x8105 in syscall.rs,   *)
(* and the parts of ai.rs that act on a model's advice: the plan executor, *)
(* the sentinel, policy texts and the trust ledger that widens and shrinks *)
(* a domain.  Syscalls are atomic; the plan and policy executors loop over *)
(* the items of a text, one step of the model per item, and nothing else   *)
(* runs meanwhile.  What the text says is up to a model outside of the     *)
(* kernel.  Sched models how tasks get and lose the CPU.                   *)
(***************************************************************************)
EXTENDS Integers, Sequences, FiniteSets

CONSTANTS
  MAX_TASKS,   \* slots of the task table
  DOM_MAX,     \* domains, with the system domain 0
  QUAL_N,      \* samples of the quality ledger (64)
  Duties,      \* duties whose ledger is followed
  PermSets,    \* permissions that callers of 0x8101 and 0x8107 ask for
  Regions,     \* regions of entry points
  DomShapes,   \* <<regions, irq>> that callers of 0x8107 ask for
  Profiles,    \* profiles that the environment scan finds
  Policies,    \* <<key, value>> pairs that callers and texts try to set
  Plans,       \* action vectors: sequences of <<act, a0, a1>>
  PolicyTexts, \* sequences of elements of Policies
  Confs,       \* confidences a sentinel verdict may have
  MaxPending   \* bound on unacknowledged anomalies

KILL == 1
ISOLATE == 2
LAUNCH == 3
SET_CFG == 4
RESUME == 5
ACK == 6
BOX_CMD == 7

ALL_ACTS == 1 .. 7
Keys == 1 .. 8
PlanDuty == 3
SentinelDuty == 2
PolicyDuty == 5
WIDEN_CONFIRM == 2

ASSUME SizesAssumption  == /\ MAX_TASKS \in Nat \ {0}
                           /\ DOM_MAX \in Nat \ {0}
                           /\ QUAL_N \in Nat \ {0}
                           /\ MaxPending \in Nat
ASSUME DutiesAssumption == Duties \subseteq 1 .. 8
ASSUME PermsAssumption  == \A p \in PermSets : p \subseteq 1 .. 64
ASSUME ShapesAssumption == DomShapes \subseteq (SUBSET Regions) \X BOOLEAN
ASSUME TextsAssumption  == /\ Policies \subseteq Nat \X Nat
                           /\ PolicyTexts \subseteq Seq(Nat \X Nat)
                           /\ Plans \subseteq Seq(Nat \X Nat \X Nat)

Tasks == 0 .. MAX_TASKS - 1
Doms == 1 .. DOM_MAX - 1

VARIABLES
  exec,     \* CAP_GRANT and CAP_PERM of the exec slot
  dom,      \* DOM[1 ..]
  state,    \* TASKS[t].state
  aux,      \* tasks on the auxiliary kernel stack (LAUNCH)
  bound,    \* TASKS[t].domain
  cur,      \* CUR
  cfg,      \* CFG
  pending,  \* ANOM_PENDING
  ledger,   \* QUAL_HIT, QUAL_TOTAL and QUAL_UP_RUN per duty
  irqSet,   \* the interrupt configuration was changed (0x6D01, 0x6B04)
  job,      \* what is left of the text being executed
  trail,    \* the entries the last step wrote to the audit ring
  streak,   \* history: per duty, the hits since the last miss (at most
            \* QUAL_N) and the count of the ledger before them
  revoked   \* history: domains revoked and not created again

taskVars == <<state, aux, bound, cur>>
vars == <<exec, dom, taskVars, cfg, pending, ledger, irqSet, job, trail,
          streak, revoked>>

Unset == -1   \* a policy value that was never written

NoJob == [kind |-> "none", rest |-> <<>>, ok |-> FALSE]
Idle == job = NoJob

-----------------------------------------------------------------------------
(* Gates *)

CurDom == bound[cur]

\* domain_perm: what domain d may do.
DomainPerm(d) ==
  IF d = 0 THEN IF exec.granted THEN exec.perm ELSE {}
  ELSE IF d \in Doms /\ dom[d].granted THEN dom[d].perm ELSE {}

ExecAuthorizedGlobal(act) == act \in 1 .. 8 /\ act \in DomainPerm(0)
ExecAuthorized(act) == act \in 1 .. 8 /\ act \in DomainPerm(CurDom)

\* launch_entry_ok and dom_irq_ok look at the domain's table entry.
LaunchEntryOk(region) ==
  region \in Regions /\ (CurDom # 0 => region \in dom[CurDom].as)

DomIrqOk == CurDom # 0 => dom[CurDom].irq

AudActions == {"check", "exec", "domain"}

\* An entry of the audit ring: {action, subject, result}.
Note(action, subject, result) == <<action, subject, result>>
ExecNote(act, ok) == Note("exec", act, IF ok THEN 0 ELSE 1)
DomNote(d, result) == Note("domain", d, result)

-----------------------------------------------------------------------------
(* Policy values *)

Default(key) == CASE key = 1 -> 50
                  [] key = 7 -> 46
                  [] key = 8 -> 35
                  [] OTHER -> 0

\* fujo_cfg_get.
CfgGet(key) == IF cfg[key] = Unset THEN Default(key) ELSE cfg[key]

MaxOf(key) == IF key = 2 THEN 1 ELSE 100

CfgAcceptsUnbounded(key, val) ==
  /\ key \in Keys
  /\ key = 7 => val > (IF cfg[8] = Unset THEN 30 ELSE cfg[8])
  /\ key = 8 => val < (IF cfg[7] = Unset THEN 70 ELSE cfg[7])

CfgAcceptsUnordered(key, val) ==
  /\ key \in Keys
  /\ val \in 0 .. MaxOf(key)
  /\ key = 7 => val > (IF cfg[8] = Unset THEN 30 ELSE cfg[8])

\* cfg_set guards the order of the two thresholds, with defaults of its own
\* for values that were never written.
CfgAccepts(key, val) ==
  /\ key \in Keys
  /\ val \in 0 .. MaxOf(key)
  /\ key = 7 => val > (IF cfg[8] = Unset THEN 30 ELSE cfg[8])
  /\ key = 8 => val < (IF cfg[7] = Unset THEN 70 ELSE cfg[7])

CfgAfter(key, val) ==
  IF CfgAccepts(key, val) THEN [cfg EXCEPT ![key] = val] ELSE cfg

-----------------------------------------------------------------------------
(* The trust ledger *)

NoData == [hit |-> 0, total |-> 0, up |-> 0]

FedHitNoDecay(l, hit) == l.hit + (IF hit THEN 1 ELSE 0)

\* fujo_qual_feed: a count up to QUAL_N samples, an integer average after.
FedHit(l, hit) ==
  IF l.total < QUAL_N
  THEN l.hit + (IF hit THEN 1 ELSE 0)
  ELSE (l.hit * (QUAL_N - 1) + (IF hit THEN QUAL_N ELSE 0)) \div QUAL_N

UpTo(n) == IF n < QUAL_N THEN n + 1 ELSE n

Fed(l, hit) ==
  [hit |-> FedHit(l, hit), total |-> UpTo(l.total), up |-> l.up]

Ran(s, l, hit) ==
  IF hit THEN [hits |-> UpTo(s.hits), from |-> s.from]
         ELSE [hits |-> 0, from |-> FedHit(l, hit)]

Feed(duty, hit) ==
  IF duty \in Duties
  THEN /\ ledger' = [ledger EXCEPT ![duty] = Fed(ledger[duty], hit)]
       /\ streak' = [streak EXCEPT
                       ![duty] = Ran(streak[duty], ledger[duty], hit)]
  ELSE UNCHANGED <<ledger, streak>>

\* qual_rate, in percent.
Rate(l) == IF l.total = 0 THEN 50 ELSE (l.hit * 100) \div l.total

-----------------------------------------------------------------------------
(* Actions on tasks, policies and anomalies *)

\* The return code of the action is 0: kill_task, task_suspend, task_resume,
\* cfg_set, anom_ack; fujo_cap_exec knows no other.
Succeeds(act, a0, a1) ==
  \/ act = KILL /\ a0 \in Tasks /\ state[a0] = "runnable"
  \/ act = ISOLATE /\ a0 \in Tasks /\ state[a0] = "runnable" /\ a0 # cur
  \/ act = RESUME /\ a0 \in Tasks /\ state[a0] = "suspended"
  \/ act = SET_CFG /\ CfgAccepts(a0, a1)
  \/ act = ACK

StateOf(act) == CASE act = KILL -> "dead"
                  [] act = ISOLATE -> "suspended"
                  [] act = RESUME -> "runnable"

\* fujo_cap_exec: the gate, the action, one audit entry.  `ok` is rc = 0.
Granted(act, a0, a1) == ExecAuthorized(act) /\ Succeeds(act, a0, a1)

FujoCapExec(act, a0, a1) ==
  LET ok == Granted(act, a0, a1)
  IN  /\ state' = IF ok /\ act \in {KILL, ISOLATE, RESUME}
                  THEN [state EXCEPT ![a0] = StateOf(act)] ELSE state
      /\ cfg' = IF ok /\ act = SET_CFG THEN CfgAfter(a0, a1) ELSE cfg
      /\ pending' = IF ok /\ act = ACK THEN 0 ELSE pending
      /\ UNCHANGED <<aux, bound, cur>>

\* exec_spawn: the lowest dead task of the auxiliary stack, else a new slot.
AuxBusy == \E t \in aux : state[t] = "runnable"
LaunchSlots ==
  LET dead   == {t \in aux : state[t] = "dead"}
      unused == {t \in Tasks : state[t] = "unused"}
      from   == IF dead # {} THEN dead ELSE unused
  IN  IF AuxBusy THEN {} ELSE {t \in from : \A u \in from : t <= u}

TwiceNotedAlwaysOk(act, ok) == <<ExecNote(act, TRUE), ExecNote(act, ok)>>

\* What 0x8105 writes for an authorised action that is not LAUNCH:
\* fujo_cap_exec writes its entry, and cap_exec writes it again.
TwiceNoted(act, ok) == <<ExecNote(act, ok), ExecNote(act, ok)>>

-----------------------------------------------------------------------------
(* Syscalls of the current task *)

\* 0x8101 for the exec slot.
CapGrant(perm) ==
  /\ Idle
  /\ exec' = [granted |-> TRUE, perm |-> perm]
  /\ trail' = <<>>
  /\ UNCHANGED <<dom, taskVars, cfg, pending, ledger, irqSet, job, streak,
                 revoked>>

\* 0x8102 for the exec slot: a denial is audited.
CapCheck(perm) ==
  /\ Idle
  /\ trail' = IF exec.granted /\ perm \subseteq exec.perm
              THEN <<>> ELSE <<Note("check", 0, 1)>>
  /\ UNCHANGED <<exec, dom, taskVars, cfg, pending, ledger, irqSet, job,
                 streak, revoked>>

\* 0x8103: any task adds an entry of its choice, but none with result 1.
AudLog(action, subject) ==
  /\ Idle
  /\ trail' = <<Note(action, subject, 0)>>
  /\ UNCHANGED <<exec, dom, taskVars, cfg, pending, ledger, irqSet, job,
                 streak, revoked>>

\* 0x8107: the first slot that is not granted.
DomCreate(perm, as, irq) ==
  /\ Idle
  /\ \E d \in Doms :
       /\ ~dom[d].granted
       /\ \A e \in Doms : e < d => dom[e].granted
       /\ dom' = [dom EXCEPT ![d] = [perm |-> perm \cap ALL_ACTS,
                                     granted |-> TRUE,
                                     as |-> as, irq |-> irq]]
       /\ trail' = <<DomNote(d, 0)>>
       /\ revoked' = revoked \ {d}
  /\ UNCHANGED <<exec, taskVars, cfg, pending, ledger, irqSet, job, streak>>

\* 0x8108.
SetCurrentDomain(d) ==
  /\ Idle
  /\ bound' = [bound EXCEPT ![cur] = d]
  /\ trail' = <<>>
  /\ UNCHANGED <<exec, dom, state, aux, cur, cfg, pending, ledger, irqSet, job,
                 streak, revoked>>

\* 0x8109.
DomRevoke(d) ==
  /\ Idle
  /\ dom' = [dom EXCEPT ![d].granted = FALSE]
  /\ trail' = <<DomNote(d, 1)>>
  /\ revoked' = revoked \cup {d}
  /\ UNCHANGED <<exec, taskVars, cfg, pending, ledger, irqSet, job, streak>>

\* 0x6D01 and 0x6B04.
IrqConfig ==
  /\ Idle
  /\ DomIrqOk
  /\ irqSet' = TRUE
  /\ trail' = <<>>
  /\ UNCHANGED <<exec, dom, taskVars, cfg, pending, ledger, job, streak,
                 revoked>>

\* 0x8105, every action but LAUNCH.
CapExec(act, a0, a1) ==
  /\ Idle
  /\ act # LAUNCH
  /\ FujoCapExec(act, a0, a1)
  /\ trail' = IF ExecAuthorized(act)
              THEN TwiceNoted(act, Granted(act, a0, a1))
              ELSE <<ExecNote(act, FALSE)>>
  /\ UNCHANGED <<exec, dom, ledger, irqSet, job, streak, revoked>>

\* 0x8105 LAUNCH: the return code of a success is the new task's number, so
\* its audit entry says 1 as well.
CapLaunch(region) ==
  /\ Idle
  /\ IF ExecAuthorized(LAUNCH) /\ LaunchEntryOk(region)
     THEN \/ /\ LaunchSlots = {}
             /\ UNCHANGED <<state, aux, bound>>
          \/ \E t \in LaunchSlots :
               /\ state' = [state EXCEPT ![t] = "runnable"]
               /\ aux' = aux \cup {t}
               /\ bound' = [bound EXCEPT ![t] = 0]
     ELSE UNCHANGED <<state, aux, bound>>
  /\ trail' = <<ExecNote(LAUNCH, FALSE)>>
  /\ UNCHANGED <<exec, dom, cur, cfg, pending, ledger, irqSet, job, streak,
                 revoked>>

-----------------------------------------------------------------------------
(* Acting on advice *)

\* The loop goes on to the next item of the text.
RestOfJob(ok) == [kind |-> job.kind, rest |-> Tail(job.rest), ok |-> ok]

\* 0x8305: a goal became an action vector; the loop starts.
PlanRun(plan) ==
  /\ Idle
  /\ job' = [kind |-> "plan", rest |-> plan, ok |-> FALSE]
  /\ trail' = <<>>
  /\ UNCHANGED <<exec, dom, taskVars, cfg, pending, ledger, irqSet, streak,
                 revoked>>

\* act_verify, after the action.
ActVerify(act, a0, a1) ==
  \/ act \in {KILL, ISOLATE, RESUME} /\ state'[a0] = StateOf(act)
  \/ act = SET_CFG /\ cfg'[a0] = a1
  \/ act = ACK /\ pending' = 0

PlanStep ==
  /\ job.kind = "plan" /\ job.rest # <<>>
  /\ LET act == Head(job.rest)[1]
         a0  == Head(job.rest)[2]
         a1  == Head(job.rest)[3]
     IN  IF act \in 1 .. 6
         THEN /\ FujoCapExec(act, a0, a1)
              /\ trail' = <<ExecNote(act, Granted(act, a0, a1))>>
              /\ job' = RestOfJob(job.ok \/ ( /\ Granted(act, a0, a1)
                                              /\ ActVerify(act, a0, a1)))
         ELSE /\ UNCHANGED <<taskVars, cfg, pending>>
              /\ trail' = <<>>
              /\ job' = RestOfJob(job.ok)
  /\ UNCHANGED <<exec, dom, ledger, irqSet, streak, revoked>>

\* 0x8307: the loop over POL=k:v items writes policies without any gate.
NlcSet(text) ==
  /\ Idle
  /\ job' = [kind |-> "policy", rest |-> text, ok |-> FALSE]
  /\ trail' = <<>>
  /\ UNCHANGED <<exec, dom, taskVars, cfg, pending, ledger, irqSet, streak,
                 revoked>>

NlcStep ==
  /\ job.kind = "policy" /\ job.rest # <<>>
  /\ LET key == Head(job.rest)[1]
         val == Head(job.rest)[2]
     IN  /\ cfg' = CfgAfter(key, val)
         /\ job' = RestOfJob(job.ok \/ CfgAccepts(key, val))
  /\ trail' = <<>>
  /\ UNCHANGED <<exec, dom, taskVars, pending, ledger, irqSet, streak, revoked>>

\* The end of either loop: the outcome is the quality signal of the duty.
JobEnds ==
  /\ job.kind # "none" /\ job.rest = <<>>
  /\ Feed(IF job.kind = "plan" THEN PlanDuty ELSE PolicyDuty, job.ok)
  /\ job' = NoJob
  /\ trail' = <<>>
  /\ UNCHANGED <<exec, dom, taskVars, cfg, pending, irqSet, revoked>>

\* 0x8304: a verdict on an event text; an anomaly isolates the task the text
\* names (a task number or none) if the policy says so.
AnomRun(anom, conf, pid) ==
  /\ Idle
  /\ LET act     == anom /\ CfgGet(2) = 1 /\ conf >= CfgGet(1) /\ pid # -1
         isolate == act /\ Granted(ISOLATE, pid, 0)
     IN  /\ IF act
            THEN /\ state' = IF isolate
                             THEN [state EXCEPT ![pid] = "suspended"]
                             ELSE state
                 /\ trail' = <<ExecNote(ISOLATE, isolate)>>
            ELSE /\ trail' = <<>>
                 /\ UNCHANGED state
         /\ Feed(SentinelDuty, isolate)
  /\ anom => pending < MaxPending
  /\ pending' = pending + (IF anom THEN 1 ELSE 0)
  /\ UNCHANGED <<exec, dom, aux, bound, cur, cfg, irqSet, job, revoked>>

\* 0x8308: the environment scan writes its profile to key 6.
EnvScan(profile) ==
  /\ Idle
  /\ cfg' = CfgAfter(6, profile)
  /\ trail' = <<>>
  /\ UNCHANGED <<exec, dom, taskVars, pending, ledger, irqSet, job, streak,
                 revoked>>

\* 0x8314.
QualFeed(duty, hit) ==
  /\ Idle
  /\ Feed(duty, hit)
  /\ trail' = <<>>
  /\ UNCHANGED <<exec, dom, taskVars, cfg, pending, irqSet, job, revoked>>

UpRunNoReset(duty) ==
  IF ledger[duty].up < WIDEN_CONFIRM THEN ledger[duty].up + 1
  ELSE WIDEN_CONFIRM

\* The counter of admissions at high quality, which only matters up to
\* WIDEN_CONFIRM.
UpRun(duty) ==
  IF Rate(ledger[duty]) < (IF CfgGet(7) > 1 THEN CfgGet(7) ELSE 1) THEN 0
  ELSE IF ledger[duty].up < WIDEN_CONFIRM THEN ledger[duty].up + 1
       ELSE WIDEN_CONFIRM

\* dom_adjust: a domain with other rights, which also grants it.
Adjusted(d, perm) ==
  [dom EXCEPT ![d] = [perm |-> perm, granted |-> TRUE,
                      as |-> dom[d].as, irq |-> dom[d].irq]]

\* 0x8313 dom_admit: the domain of the caller as wide as its measured
\* quality.
Admits(duty) ==
  IF UpRun(duty) >= WIDEN_CONFIRM THEN "widen"
  ELSE IF Rate(ledger[duty]) < CfgGet(8) THEN "shrink" ELSE "keep"

DomAdmit(duty) ==
  /\ Idle
  /\ ledger' = [ledger EXCEPT ![duty].up = UpRun(duty)]
  /\ IF CurDom \in Doms /\ Admits(duty) # "keep"
     THEN /\ dom' = Adjusted(CurDom, IF Admits(duty) = "widen"
                                     THEN ALL_ACTS ELSE {ACK})
          /\ trail' = <<DomNote(CurDom, 2)>>
     ELSE /\ trail' = <<>>
          /\ UNCHANGED dom
  /\ UNCHANGED <<exec, taskVars, cfg, pending, irqSet, job, streak, revoked>>

\* The scheduler hands the CPU to a runnable task (Sched says which).
Schedule(t) ==
  /\ Idle
  /\ state[t] = "runnable" /\ t # cur
  /\ cur' = t
  /\ trail' = <<>>
  /\ UNCHANGED <<exec, dom, state, aux, bound, cfg, pending, ledger, irqSet,
                 job, streak, revoked>>

-----------------------------------------------------------------------------
ExecArgs ==
  ({KILL, ISOLATE, RESUME} \X (0 .. MAX_TASKS) \X {0})
    \cup {<<SET_CFG, p[1], p[2]>> : p \in Policies}
    \cup ({0, ACK, BOX_CMD} \X {0} \X {0})

Init ==
  /\ exec = [granted |-> FALSE, perm |-> {}]
  /\ dom = [d \in Doms |-> [perm |-> {}, granted |-> FALSE,
                            as |-> {}, irq |-> FALSE]]
  /\ \E n \in 1 .. MAX_TASKS :
       state = [t \in Tasks |-> IF t < n THEN "runnable" ELSE "unused"]
  /\ aux = {}
  /\ bound = [t \in Tasks |-> 0]
  /\ cur = 0
  /\ cfg = [k \in Keys |-> Unset]
  /\ pending = 0
  /\ ledger = [d \in Duties |-> NoData]
  /\ irqSet = FALSE
  /\ job = NoJob
  /\ trail = <<>>
  /\ streak = [d \in Duties |-> [hits |-> 0, from |-> 0]]
  /\ revoked = {}

Next ==
  \/ \E p \in PermSets : CapGrant(p)
  \/ \E p \in PermSets : CapCheck(p)
  \/ \E k \in AudActions, s \in ALL_ACTS : AudLog(k, s)
  \/ \E p \in PermSets, s \in DomShapes : DomCreate(p, s[1], s[2])
  \/ \E d \in {0} \cup Doms : SetCurrentDomain(d)
  \/ \E d \in Doms : DomRevoke(d)
  \/ IrqConfig
  \/ \E e \in ExecArgs : CapExec(e[1], e[2], e[3])
  \/ \E r \in Regions \cup {"outside"} : CapLaunch(r)
  \/ \E p \in Plans : PlanRun(p)
  \/ PlanStep
  \/ \E t \in PolicyTexts : NlcSet(t)
  \/ NlcStep
  \/ JobEnds
  \/ \E anom \in BOOLEAN, conf \in Confs, pid \in -1 .. MAX_TASKS :
       AnomRun(anom, conf, pid)
  \/ \E p \in Profiles : EnvScan(p)
  \/ \E d \in Duties, hit \in BOOLEAN : QualFeed(d, hit)
  \/ \E d \in Duties : DomAdmit(d)
  \/ \E t \in Tasks : Schedule(t)

Spec == Init /\ [][Next]_vars

-----------------------------------------------------------------------------
Perms == SUBSET (1 .. 64)
Job == [kind : {"none", "plan", "policy"},
        rest : Seq(Nat \X Nat \X Nat) \cup Seq(Nat \X Nat),
        ok : BOOLEAN]

TypeOK ==
  /\ exec \in [granted : BOOLEAN, perm : Perms]
  /\ dom \in [Doms -> [perm : SUBSET ALL_ACTS, granted : BOOLEAN,
                       as : SUBSET Regions, irq : BOOLEAN]]
  /\ state \in [Tasks -> {"unused", "runnable", "suspended", "dead"}]
  /\ aux \subseteq Tasks
  /\ bound \in [Tasks -> {0} \cup Doms]
  /\ cur \in Tasks
  /\ cfg \in [Keys -> {Unset} \cup 0 .. 100]
  /\ pending \in 0 .. MaxPending
  /\ ledger \in [Duties -> [hit : Nat, total : 0 .. QUAL_N,
                            up : 0 .. WIDEN_CONFIRM]]
  /\ irqSet \in BOOLEAN
  /\ job \in Job
  /\ trail \in Seq(AudActions \X Nat \X (0 .. 2))
  /\ streak \in [Duties -> [hits : 0 .. QUAL_N, from : Nat]]
  /\ revoked \subseteq Doms

\* The blast radius: whatever proposes an action (the task itself, an item of
\* a plan, the sentinel), a task changes state, an anomaly is acknowledged
\* and a policy is set only if the domain of the caller has the right for
\* exactly that action at that moment, also when it was revoked, rebound or
\* shrunk before.  Policy texts and the environment scan (key 6) write
\* policies on their own authority.
Authorized ==
  /\ \A t \in Tasks :
       state'[t] # state[t] =>
         \/ LAUNCH \in DomainPerm(CurDom) /\ state'[t] = "runnable"
         \/ \E act \in {KILL, ISOLATE, RESUME} :
              act \in DomainPerm(CurDom) /\ state'[t] = StateOf(act)
  /\ pending' < pending => ACK \in DomainPerm(CurDom)
  /\ \A k \in Keys \ {6} :
       cfg'[k] # cfg[k] =>
         SET_CFG \in DomainPerm(CurDom) \/ job.kind = "policy"

EffectsAuthorized == [][Authorized]_vars

\* The audit trail tells what happened: an action other than LAUNCH that is
\* recorded as denied or failed left no trace, and every change of a task,
\* and every policy set by an action, has its record.
Says(act, result) ==
  \E i \in DOMAIN trail' : trail'[i] = Note("exec", act, result)

Honest ==
  /\ \A act \in ALL_ACTS \ {LAUNCH} :
       Says(act, 1) => /\ ~Says(act, 0)
                       /\ UNCHANGED <<state, cfg>>
                       /\ pending' >= pending
  /\ \A t \in Tasks :
       state'[t] # state[t] =>
         \/ Says(LAUNCH, 1)
         \/ \E act \in {KILL, ISOLATE, RESUME} :
              Says(act, 0) /\ state'[t] = StateOf(act)
  /\ pending' < pending => Says(ACK, 0)
  /\ \A k \in Keys \ {6} :
       cfg'[k] # cfg[k] => Says(SET_CFG, 0) \/ job.kind = "policy"

AuditHonest == [][Honest]_vars

\* A ledger never counts more hits than samples: the rate is a percentage.
\* Until the window is full it counts exactly: what it had at the last miss
\* and the hits since.
LedgerCounts ==
  \A d \in Duties :
    /\ ledger[d].hit <= ledger[d].total
    /\ ledger[d].total < QUAL_N =>
         ledger[d].hit = streak[d].from + streak[d].hits

\* Once both thresholds were set, in whatever order and however often, the
\* one for widening is above the one for shrinking.
TauOrderedOnceSet ==
  cfg[7] # Unset /\ cfg[8] # Unset => CfgGet(7) > CfgGet(8)

\* "Shrinking is immediate": an admission at a quality below the lower
\* threshold leaves the caller's domain with ACK alone, whatever the earlier
\* admissions were (both thresholds set).
LowQualityShrinks ==
  [][\A d \in Duties :
       /\ DomAdmit(d)
       /\ CurDom \in Doms
       /\ cfg[7] # Unset /\ cfg[8] # Unset
       /\ Rate(ledger[d]) < CfgGet(8)
       => dom'[CurDom].perm = {ACK}]_vars

-----------------------------------------------------------------------------
(* What comments of the source say and the code does not do. *)

\* capability.rs: after a revocation every cap_exec and configuration of the
\* domain is refused, until the slot is created again.
RevokedIsPowerless ==
  [][revoked # {} /\ CurDom \in revoked => irqSet' = irqSet /\ state' = state]_vars

\* ai.rs: the ledger approximates the hit rate of a rolling window of QUAL_N
\* samples: a whole window of hits raises it, unless it is 100 already.
WindowRolls ==
  \A d \in Duties :
    streak[d].hits = QUAL_N =>
      ledger[d].hit > streak[d].from \/ ledger[d].hit = QUAL_N
=============================================================================

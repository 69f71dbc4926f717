---------------------------- MODULE SchedProofs ----------------------------
(***************************************************************************)
(* Proofs about Sched for every table size, every set of domains, handlers *)
(* and signal targets, and whatever as_create answers.                     *)
(***************************************************************************)
EXTENDS Sched, LeastNumber, TLAPS

USE MaxTasksAssumption, DomainsAssumption, HandlersAssumption,
    TargetsAssumption, OutcomesAssumption

-----------------------------------------------------------------------------
(* Typing of the helpers. *)

\* A table entry a spawn or a registration builds is well-formed.
LEMMA RegisteredTaskType ==
  ASSUME NEW dom \in Domains
  PROVE  RegisteredTask(dom) \in Task
BY DEF RegisteredTask, FreeTask, Task, Pointer, Null, KStacks,
       TaskStacks, BootStack, MainStack, Offsets, SystemAS, Slots, Free,
       Runnable, Suspended, Dead

LEMMA SpawnedTaskType ==
  ASSUME NEW i \in Slots, NEW k \in KStacks, NEW asOk \in BOOLEAN
  PROVE  SpawnedTask(i, k, asOk) \in Task
BY DEF SpawnedTask, FreeTask, Task, Pointer, Null, KStacks,
       TaskStacks, BootStack, MainStack, Offsets, SystemAS, Slots, Free,
       Runnable, Suspended, Dead

\* Popping a well-formed pointer runs a slot's context or garbage.
LEMMA RestoreType ==
  ASSUME NEW stks \in [KStacks -> Frame], NEW p \in Pointer
  PROVE  Restore(stks, p) \in Slots \cup {Nobody}
BY DEF Restore, Frame, Pointer

LEMMA PushedType ==
  ASSUME TypeOK, NEW at \in Offsets
  PROVE  Pushed(at) \in [KStacks -> Frame]
BY DEF TypeOK, Pushed, Frame

LEMMA EmptyType == Empty \in Frame
BY DEF Empty, Frame, Offsets

\* A context switch keeps the CPU's part of the state well-formed.
LEMMA SwitchType ==
  ASSUME TypeOK, NEW tab \in [Slots -> Task], NEW n \in Slots,
         NEW at \in Offsets, SwitchTo(tab, at, n)
  PROVE  /\ cur' \in Slots
         /\ nextRsp' \in Pointer
         /\ rsp0' \in KStacks
         /\ cr3' \in Slots \cup {SystemAS}
         /\ running' \in Slots \cup {Nobody}
         /\ stacks' \in [KStacks -> Frame]
<1>1. tab[n] \in Task
  OBVIOUS
<1>2. tab[n].saved \in Pointer /\ tab[n].kstack \in KStacks
      /\ tab[n].cr3 \in Slots \cup {SystemAS}
  BY <1>1 DEF Task
<1>3. Pushed(at) \in [KStacks -> Frame]
  BY PushedType
<1>4. Restore(Pushed(at), tab[n].saved) \in Slots \cup {Nobody}
  BY <1>2, <1>3, RestoreType
<1>5. [Pushed(at) EXCEPT ![tab[n].saved.stack] = Empty] \in [KStacks -> Frame]
  BY <1>3, EmptyType
<1> QED
  BY <1>2, <1>4, <1>5 DEF SwitchTo

LEMMA StayType ==
  ASSUME TypeOK, StayOn
  PROVE  /\ cur' \in Slots
         /\ nextRsp' \in Pointer
         /\ rsp0' \in KStacks
         /\ cr3' \in Slots \cup {SystemAS}
         /\ running' \in Slots \cup {Nobody}
         /\ stacks' \in [KStacks -> Frame]
BY EmptyType DEF TypeOK, StayOn

LEMMA HaltType ==
  ASSUME TypeOK, NEW at \in Offsets, Halt(at)
  PROVE  /\ cur' \in Slots
         /\ nextRsp' \in Pointer
         /\ rsp0' \in KStacks
         /\ cr3' \in Slots \cup {SystemAS}
         /\ running' \in Slots \cup {Nobody}
         /\ stacks' \in [KStacks -> Frame]
         /\ pfMustSwitch' \in BOOLEAN
         /\ mode' = "halted"
BY PushedType DEF TypeOK, Halt

LEMMA SignalType ==
  ASSUME TypeOK, NEW t \in Slots
  PROVE  AfterSignal(t) \in [Slots -> Task]
<1>1. tasks[t] \in Task
  BY DEF TypeOK
<1>2. [[tasks[t] EXCEPT !.pending = FALSE] EXCEPT !.active = TRUE] \in Task
  BY <1>1 DEF Task
<1> QED
  BY <1>2 DEF AfterSignal, TypeOK

LEMMA KilledType ==
  ASSUME TypeOK, NEW t
  PROVE  Killed(t) \in [Slots -> Task]
<1>1. CASE t \in Slots
  <2>1. tasks[t] \in Task
    BY <1>1 DEF TypeOK
  <2>2. [tasks[t] EXCEPT !.state = Dead] \in Task
    BY <2>1 DEF Task
  <2> QED
    BY <1>1, <2>2 DEF Killed, TypeOK
<1>2. CASE t \notin Slots
  BY <1>2 DEF Killed, TypeOK
<1> QED
  BY <1>1, <1>2

\* The table with the implicit task registered.
LEMMA ParentType ==
  ASSUME TypeOK, NEW dom \in Domains
  PROVE  /\ WithParent(dom) \in [Slots -> Task]
         /\ Registered \in 1 .. MAX_TASKS
<1>1. RegisteredTask(dom) \in Task
  BY RegisteredTaskType
<1>2. WithParent(dom) \in [Slots -> Task]
  BY <1>1 DEF TypeOK, WithParent
<1>3. Registered \in 1 .. MAX_TASKS
  BY DEF TypeOK, Registered
<1> QED
  BY <1>2, <1>3

\* A spawn into an existing slot keeps table, stacks and count well-formed.
LEMMA SpawnType ==
  ASSUME TypeOK, NEW tab \in [Slots -> Task], NEW count \in 0 .. MAX_TASKS,
         NEW i \in Slots, NEW k \in KStacks, NEW asOk \in BOOLEAN,
         Spawn(tab, count, i, k, asOk)
  PROVE  /\ tasks' \in [Slots -> Task]
         /\ taskCount' \in 0 .. MAX_TASKS
         /\ stacks' \in [KStacks -> Frame]
         /\ broken' \in BOOLEAN
<1>1. SpawnedTask(i, k, asOk) \in Task
  BY SpawnedTaskType
<1>2. InitialFrame(i) \in Frame
  BY DEF InitialFrame, Frame, Offsets
<1>3. tasks' \in [Slots -> Task]
  BY <1>1 DEF Spawn
<1>4. stacks' \in [KStacks -> Frame]
  BY <1>2 DEF Spawn, TypeOK
<1>5. taskCount' \in 0 .. MAX_TASKS
  BY DEF Spawn, CountAfter, Slots
<1>6. broken' \in BOOLEAN
  BY DEF Spawn, TypeOK
<1> QED
  BY <1>3, <1>4, <1>5, <1>6

-----------------------------------------------------------------------------
(* Type correctness. *)

LEMMA TypeInit == Init => TypeOK
<1>1. FreeTask \in Task
  BY DEF FreeTask, Task, Pointer, Null, KStacks, TaskStacks, BootStack,
         Offsets, SystemAS, Free
<1>2. BootStack \in KStacks /\ Null \in Pointer /\ 0 \in Slots
  BY DEF KStacks, Null, Pointer, Offsets, Slots
<1>3. 0 \in 0 .. MAX_TASKS /\ SystemAS \in Slots \cup {SystemAS}
  OBVIOUS
<1> QED
  BY <1>1, <1>2, <1>3, EmptyType DEF Init, TypeOK

LEMMA TypeStep == TypeOK /\ [Next]_vars => TypeOK'
<1> SUFFICES ASSUME TypeOK, [Next]_vars
             PROVE  TypeOK'
  OBVIOUS
<1>1. CASE Tick
  <2>1. AfterSignal(cur) \in [Slots -> Task]
    BY SignalType DEF TypeOK
  <2>2. [AfterSignal(cur) EXCEPT ![cur].saved = [stack |-> rsp0, at |-> "irq"]]
          \in [Slots -> Task]
    <3>1. [stack |-> rsp0, at |-> "irq"] \in Pointer
      BY DEF TypeOK, Pointer, Offsets
    <3>2. AfterSignal(cur)[cur] \in Task
      BY <2>1 DEF TypeOK
    <3> QED
      BY <2>1, <3>1, <3>2 DEF Task
  <2>3. tasks' \in [Slots -> Task]
    BY <1>1, <2>1, <2>2 DEF Tick
  <2>4. StayOn \/ \E n \in Slots : SwitchTo(tasks', "irq", n)
    BY <1>1 DEF Tick
  <2>5. "irq" \in Offsets
    BY DEF Offsets
  <2> QED
    BY <1>1, <2>3, <2>4, <2>5, StayType, SwitchType DEF Tick, TypeOK
<1>2. CASE DemandZero
  <2>1. "pf" \in Offsets
    BY DEF Offsets
  <2>2. CASE pfMustSwitch
    <3>1. Restore(Pushed("pf"), nextRsp) \in Slots \cup {Nobody}
      BY <2>1, PushedType, RestoreType DEF TypeOK
    <3>2. [Pushed("pf") EXCEPT ![nextRsp.stack] = Empty]
            \in [KStacks -> Frame]
      BY <2>1, PushedType, EmptyType
    <3> QED
      BY <1>2, <2>2, <3>1, <3>2 DEF DemandZero, TypeOK
  <2>3. CASE ~pfMustSwitch
    BY <1>2, <2>3, StayType DEF DemandZero, TypeOK
  <2> QED
    BY <2>2, <2>3
<1>3. ASSUME NEW byFault \in BOOLEAN, Terminate(byFault)
      PROVE  TypeOK'
  <2> DEFINE at == IF byFault THEN "pf" ELSE "irq"
  <2>1. at \in Offsets
    BY DEF Offsets
  <2>2. tasks' \in [Slots -> Task]
    <3>1. tasks[cur] \in Task
      BY DEF TypeOK
    <3>2. [tasks[cur] EXCEPT !.state = Dead] \in Task
      BY <3>1 DEF Task
    <3> QED
      BY <1>3, <3>2 DEF Terminate, TypeOK
  <2>3. \/ Halt(at)
        \/ /\ \E n \in Slots : SwitchTo(tasks', at, n)
           /\ pfMustSwitch' = ~byFault
           /\ UNCHANGED mode
    BY <1>3 DEF Terminate
  <2>4. CASE Halt(at)
    BY <1>3, <2>1, <2>2, <2>4, HaltType DEF Terminate, TypeOK
  <2>5. CASE /\ \E n \in Slots : SwitchTo(tasks', at, n)
             /\ pfMustSwitch' = ~byFault
             /\ UNCHANGED mode
    <3> HIDE DEF at
    <3> QED
      BY <1>3, <2>1, <2>2, <2>5, SwitchType DEF Terminate, TypeOK
  <2> QED
    BY <2>3, <2>4, <2>5
<1>4. ASSUME NEW asOk \in BOOLEAN, Fork(asOk)
      PROVE  TypeOK'
  <2>1. 0 \in Domains /\ ForkStack \in KStacks /\ MainStack \in KStacks
    BY DEF KStacks, TaskStacks, ForkStack, MainStack
  <2>2. CASE HasSlot(Registered) /\ asOk
    <3>1. Registered \in Slots
      BY <2>2, <2>1, ParentType DEF HasSlot, Slots
    <3>2. Spawn(WithParent(0), Registered, Registered, ForkStack, TRUE)
      BY <1>4, <2>2 DEF Fork
    <3>3. WithParent(0) \in [Slots -> Task] /\ Registered \in 0 .. MAX_TASKS
      BY <2>1, ParentType
    <3>4. /\ tasks' \in [Slots -> Task]
          /\ taskCount' \in 0 .. MAX_TASKS
          /\ stacks' \in [KStacks -> Frame]
          /\ broken' \in BOOLEAN
      BY <2>1, <3>1, <3>2, <3>3, SpawnType
    <3> QED
      BY <1>4, <2>1, <3>4 DEF Fork, TypeOK
  <2>3. CASE ~(HasSlot(Registered) /\ asOk)
    <3>1. Register(0)
      BY <1>4, <2>3 DEF Fork
    <3>2. WithParent(0) \in [Slots -> Task] /\ Registered \in 0 .. MAX_TASKS
      BY <2>1, ParentType
    <3> QED
      BY <1>4, <2>1, <3>1, <3>2 DEF Fork, Register, TypeOK
  <2> QED
    BY <2>2, <2>3
<1>5. ASSUME NEW asOk \in BOOLEAN, ExecSpawn(asOk)
      PROVE  TypeOK'
  <2>1. AuxStack \in KStacks /\ MainStack \in KStacks
    BY DEF KStacks, TaskStacks, AuxStack, MainStack
  <2>2. /\ WithParent(boundDomain) \in [Slots -> Task]
        /\ Registered \in 0 .. MAX_TASKS
    BY ParentType DEF TypeOK
  <2>3. PICK i \in 0 .. MAX_TASKS :
          IF HasSlot(i)
          THEN Spawn(WithParent(boundDomain), Registered, i, AuxStack, asOk)
          ELSE Register(boundDomain)
    BY <1>5 DEF ExecSpawn
  <2>4. /\ tasks' \in [Slots -> Task]
        /\ taskCount' \in 0 .. MAX_TASKS
        /\ stacks' \in [KStacks -> Frame]
        /\ broken' \in BOOLEAN
    <3>1. CASE HasSlot(i)
      <4>1. i \in Slots
        BY <3>1 DEF HasSlot, Slots
      <4> QED
        BY <2>1, <2>2, <2>3, <3>1, <4>1, SpawnType
    <3>2. CASE ~HasSlot(i)
      BY <2>2, <2>3, <3>2 DEF Register, TypeOK
    <3> QED
      BY <3>1, <3>2
  <2> QED
    BY <1>5, <2>1, <2>4 DEF ExecSpawn, TypeOK
<1>6. ASSUME NEW loadOk \in BOOLEAN, NEW asOk \in BOOLEAN,
             DeskLaunch(loadOk, asOk)
      PROVE  TypeOK'
  <2> DEFINE tab == Killed(ttyTask)
  <2>1. tab \in [Slots -> Task]
    BY KilledType
  <2>2. WindowStack \in KStacks
    BY DEF WindowStack, KStacks, TaskStacks, ForkStack, MainStack
  <2>3. PICK i \in 0 .. MAX_TASKS :
          IF loadOk /\ HasSlot(i)
          THEN /\ Spawn(tab, taskCount, i, WindowStack, asOk)
               /\ rsp0' = IF taskCount = 0 THEN WindowStack ELSE rsp0
               /\ ttyTask' = i
          ELSE /\ tasks' = tab
               /\ ttyTask' = -1
               /\ UNCHANGED <<taskCount, stacks, rsp0, broken>>
    BY <1>6 DEF DeskLaunch
  <2> HIDE DEF tab
  <2>4. CASE loadOk /\ HasSlot(i)
    <3>1. i \in Slots
      BY <2>4 DEF HasSlot, Slots
    <3>2. taskCount \in 0 .. MAX_TASKS
      BY DEF TypeOK
    <3>3. /\ tasks' \in [Slots -> Task]
          /\ taskCount' \in 0 .. MAX_TASKS
          /\ stacks' \in [KStacks -> Frame]
          /\ broken' \in BOOLEAN
      BY <2>1, <2>2, <2>3, <2>4, <3>1, <3>2, SpawnType
    <3> QED
      BY <1>6, <2>2, <2>3, <2>4, <3>1, <3>3 DEF DeskLaunch, TypeOK
  <2>5. CASE ~(loadOk /\ HasSlot(i))
    BY <1>6, <2>1, <2>3, <2>5 DEF DeskLaunch, TypeOK
  <2> QED
    BY <2>4, <2>5
<1>7. ASSUME NEW t \in Slots, KillTask(t) \/ TaskSuspend(t) \/ TaskResume(t)
      PROVE  TypeOK'
  <2>1. tasks[t] \in Task
    BY DEF TypeOK
  <2>2. \A st \in {Runnable, Suspended, Dead} :
          [tasks[t] EXCEPT !.state = st] \in Task
    BY <2>1 DEF Task
  <2>3. tasks' \in [Slots -> Task]
    BY <1>7, <2>2, KilledType
       DEF KillTask, TaskSuspend, TaskResume, TypeOK
  <2> QED
    BY <1>7, <2>3
       DEF KillTask, TaskSuspend, TaskResume, cpuVars, TypeOK
<1>8. ASSUME NEW d \in Domains, SetCurrentDomain(d)
      PROVE  TypeOK'
  <2>1. tasks[cur] \in Task
    BY DEF TypeOK
  <2>2. [tasks[cur] EXCEPT !.domain = d] \in Task
    BY <2>1 DEF Task
  <2> QED
    BY <1>8, <2>2 DEF SetCurrentDomain, cpuVars, TypeOK
<1>9. ASSUME NEW h \in Handlers \cup {0}, SigSet(h)
      PROVE  TypeOK'
  <2>1. tasks[cur] \in Task
    BY DEF TypeOK
  <2>2. [tasks[cur] EXCEPT !.handler = h] \in Task
    BY <2>1 DEF Task
  <2> QED
    BY <1>9, <2>2 DEF SigSet, cpuVars, TypeOK
<1>10. ASSUME NEW t \in Slots, SigKill(t) \/ SigRet(t)
       PROVE  TypeOK'
  <2>1. tasks[t] \in Task
    BY DEF TypeOK
  <2>2. /\ [tasks[t] EXCEPT !.pending = TRUE] \in Task
        /\ [tasks[t] EXCEPT !.active = FALSE] \in Task
    BY <2>1 DEF Task
  <2> QED
    BY <1>10, <2>2 DEF SigKill, SigRet, cpuVars, TypeOK
<1>11. CASE ExitToShell
  BY <1>11 DEF ExitToShell, tableVars, TypeOK
<1>12. ASSUME NEW threads \in BOOLEAN, NEW asA \in BOOLEAN,
              NEW asB \in BOOLEAN, OsRun(threads, asA, asB)
       PROVE  TypeOK'
  <2>1. /\ 0 \in Slots /\ 1 \in Slots /\ 2 \in 0 .. MAX_TASKS
        /\ 1 \in 0 .. MAX_TASKS
        /\ ThreadAStack \in KStacks /\ ThreadBStack \in KStacks
        /\ MainStack \in KStacks
    BY DEF Slots, KStacks, TaskStacks, ThreadAStack, ThreadBStack, MainStack
  <2>2. /\ SpawnedTask(0, ThreadAStack, asA) \in Task
        /\ SpawnedTask(1, ThreadBStack, asB) \in Task
        /\ RegisteredTask(0) \in Task
    BY <2>1, SpawnedTaskType, RegisteredTaskType
  <2>3. InitialFrame(0) \in Frame /\ InitialFrame(1) \in Frame
    BY <2>1 DEF InitialFrame, Frame, Offsets
  <2>4. tasks' \in [Slots -> Task]
    BY <1>12, <2>2 DEF OsRun, TypeOK
  <2>5. stacks' \in [KStacks -> Frame]
    BY <1>12, <2>3 DEF OsRun, TypeOK
  <2>6. cr3' \in Slots \cup {SystemAS}
    <3>1. tasks'[0].cr3 \in Slots \cup {SystemAS}
      BY <2>1, <2>4 DEF Task
    <3> QED
      BY <1>12, <3>1 DEF OsRun, TypeOK
  <2> QED
    BY <1>12, <2>1, <2>4, <2>5, <2>6 DEF OsRun, TypeOK
<1>13. CASE UNCHANGED vars
  BY <1>13 DEF vars, tableVars, cpuVars, TypeOK
<1>14. SigTargets \subseteq Slots /\ AsOutcomes \subseteq BOOLEAN
  BY DEF Slots
<1> QED
  BY <1>1, <1>2, <1>3, <1>4, <1>5, <1>6, <1>7, <1>8, <1>9, <1>10, <1>11,
     <1>12, <1>13, <1>14 DEF Next

\* The types of the model are kept by every step, for every table size: in
\* particular no sequence of spawns, revivals and registrations moves
\* TASK_COUNT or CUR out of the table, and no pointer names a stack that
\* does not exist.
THEOREM TypeCorrect == Spec => []TypeOK
<1>1. Init => TypeOK
  BY TypeInit
<1>2. TypeOK /\ [Next]_vars => TypeOK'
  BY TypeStep
<1> QED
  BY <1>1, <1>2, PTL DEF Spec

-----------------------------------------------------------------------------
(* The shape of the task table. *)

ShapeInv == TypeOK /\ TableShape /\ tasks[cur].state # Suspended

USE DEF Free, Runnable, Suspended, Dead

\* What a spawn does to the shape of the table.
LEMMA SpawnShape ==
  ASSUME NEW tab \in [Slots -> Task], NEW count \in 0 .. MAX_TASKS,
         NEW i \in Slots, NEW k, NEW asOk, i <= count,
         \A t \in Slots : tab[t].state # Free <=> t < count,
         cur \in Slots, tab[cur].state # Suspended,
         cur < count \/ (cur = 0 /\ count = 0),
         Spawn(tab, count, i, k, asOk), cur' = cur
  PROVE  TableShape' /\ tasks'[cur'].state # Suspended
<1>1. SpawnedTask(i, k, asOk).state = Runnable
  BY DEF SpawnedTask, FreeTask
<1>2. \A t \in Slots : tasks'[t] = IF t = i THEN SpawnedTask(i, k, asOk)
                                            ELSE tab[t]
  BY DEF Spawn
<1>3. taskCount' = IF i = count THEN count + 1 ELSE count
  BY DEF Spawn, CountAfter, Slots
<1>4. \A t \in Slots : tasks'[t].state # Free <=> t < taskCount'
  BY <1>1, <1>2, <1>3 DEF Slots
<1>5. cur' < taskCount'
  BY <1>3 DEF Slots
<1> QED
  BY <1>1, <1>2, <1>4, <1>5 DEF TableShape

LEMMA ParentShape ==
  ASSUME ShapeInv, NEW dom \in Domains
  PROVE  /\ \A t \in Slots : WithParent(dom)[t].state # Free <=> t < Registered
         /\ WithParent(dom)[cur].state # Suspended
         /\ cur < Registered
<1>1. RegisteredTask(dom).state = Runnable
  BY DEF RegisteredTask, FreeTask
<1>2. CASE taskCount = 0
  <2>1. cur = 0
    BY <1>2 DEF ShapeInv, TableShape, TypeOK, Slots
  <2>2. \A t \in Slots : WithParent(dom)[t] = IF t = 0 THEN RegisteredTask(dom)
                                                       ELSE tasks[t]
    BY <1>2 DEF WithParent, ShapeInv, TypeOK
  <2> QED
    BY <1>1, <1>2, <2>1, <2>2 DEF ShapeInv, TableShape, Registered, Slots
<1>3. CASE taskCount # 0
  BY <1>3 DEF ShapeInv, TableShape, WithParent, Registered
<1> QED
  BY <1>2, <1>3

LEMMA KilledShape ==
  ASSUME ShapeInv, NEW t \in Slots \cup {-1}
  PROVE  /\ \A s \in Slots : Killed(t)[s].state # Free <=> s < taskCount
         /\ Killed(t)[cur].state # Suspended
<1>1. \A s \in Slots : Killed(t)[s] = IF s = t /\ tasks[t].state = Runnable
                                      THEN [tasks[s] EXCEPT !.state = Dead]
                                      ELSE tasks[s]
  BY DEF Killed, ShapeInv, TypeOK
<1>2. \A s \in Slots : [tasks[s] EXCEPT !.state = Dead].state = Dead
  BY DEF ShapeInv, TypeOK, Task
<1> QED
  BY <1>1, <1>2 DEF ShapeInv, TableShape, TypeOK

LEMMA ShapeStep == ShapeInv /\ [Next]_vars => ShapeInv'
<1> SUFFICES ASSUME ShapeInv, [Next]_vars
             PROVE  TableShape' /\ tasks'[cur'].state # Suspended
  BY TypeStep DEF ShapeInv
<1>1. CASE Tick
  <2>1. \A t \in Slots : tasks'[t].state = tasks[t].state
    BY <1>1 DEF Tick, AfterSignal, ShapeInv, TypeOK, Task
  <2>2. \/ cur' = cur
        \/ cur' \in Slots /\ cur' < taskCount /\ tasks'[cur'].state = Runnable
    BY <1>1 DEF Tick, StayOn, SwitchTo, IsNext
  <2> QED
    BY <1>1, <2>1, <2>2 DEF Tick, ShapeInv, TableShape, TypeOK
<1>2. CASE DemandZero
  BY <1>2 DEF DemandZero, StayOn, ShapeInv, TableShape
<1>3. ASSUME NEW byFault \in BOOLEAN, Terminate(byFault)
      PROVE  TableShape' /\ tasks'[cur'].state # Suspended
  <2>1. CASE taskCount < 2
    BY <1>3, <2>1 DEF Terminate, Halt, ShapeInv, TableShape, TypeOK
  <2>2. CASE taskCount >= 2
    <3>1. \A t \in Slots : tasks'[t].state =
                             IF t = cur THEN Dead ELSE tasks[t].state
      BY <1>3, <2>2 DEF Terminate, ShapeInv, TypeOK, Task
    <3>2. \/ cur' = cur
          \/ cur' \in Slots /\ cur' < taskCount /\ tasks'[cur'].state = Runnable
      BY <1>3, <2>2 DEF Terminate, Halt, SwitchTo, IsNext
    <3> QED
      BY <1>3, <2>2, <3>1, <3>2
         DEF Terminate, ShapeInv, TableShape, TypeOK
  <2> QED
    BY <2>1, <2>2 DEF ShapeInv, TypeOK
<1>4. ASSUME NEW asOk \in BOOLEAN, Fork(asOk)
      PROVE  TableShape' /\ tasks'[cur'].state # Suspended
  <2>1. /\ WithParent(0) \in [Slots -> Task]
        /\ Registered \in 0 .. MAX_TASKS
    BY ParentType DEF ShapeInv
  <2>2. CASE HasSlot(Registered) /\ asOk
    <3>1. Registered \in Slots /\ Registered <= Registered
      BY <2>1, <2>2 DEF HasSlot, Slots
    <3> QED
      BY <1>4, <2>1, <2>2, <3>1, ParentShape, SpawnShape
         DEF Fork, ShapeInv, TypeOK
  <2>3. CASE ~(HasSlot(Registered) /\ asOk)
    BY <1>4, <2>3, ParentShape DEF Fork, Register, TableShape
  <2> QED
    BY <2>2, <2>3
<1>5. ASSUME NEW asOk \in BOOLEAN, ExecSpawn(asOk)
      PROVE  TableShape' /\ tasks'[cur'].state # Suspended
  <2>1. /\ WithParent(boundDomain) \in [Slots -> Task]
        /\ Registered \in 0 .. MAX_TASKS
        /\ boundDomain \in Domains
    BY ParentType DEF ShapeInv, TypeOK
  <2>2. PICK i \in 0 .. MAX_TASKS :
          /\ FirstOr(Aux(Dead), Registered, i)
          /\ IF HasSlot(i)
             THEN Spawn(WithParent(boundDomain), Registered, i, AuxStack, asOk)
             ELSE Register(boundDomain)
    BY <1>5 DEF ExecSpawn
  <2>3. cur' = cur
    BY <1>5 DEF ExecSpawn
  <2>4. CASE HasSlot(i)
    <3>1. i \in Slots
      BY <2>4 DEF HasSlot, Slots
    <3>2. i <= Registered
      <4>1. CASE i = Registered
        BY <4>1, <2>1
      <4>2. CASE i \in Aux(Dead)
        BY <4>2, <3>1, <2>1
           DEF Aux, ShapeInv, TableShape, TypeOK, Registered, Slots
      <4> QED
        BY <2>2, <4>1, <4>2 DEF FirstOr
    <3> QED
      BY <2>1, <2>2, <2>3, <2>4, <3>1, <3>2, ParentShape, SpawnShape
         DEF ShapeInv, TypeOK
  <2>5. CASE ~HasSlot(i)
    BY <2>1, <2>2, <2>3, <2>5, ParentShape DEF Register, TableShape
  <2> QED
    BY <2>4, <2>5
<1>6. ASSUME NEW loadOk \in BOOLEAN, NEW asOk \in BOOLEAN,
             DeskLaunch(loadOk, asOk)
      PROVE  TableShape' /\ tasks'[cur'].state # Suspended
  <2> DEFINE tab  == Killed(ttyTask)
             dead == {t \in Slots : taskCount > 0 /\ tab[t].state = Dead}
  <2>1. /\ tab \in [Slots -> Task]
        /\ \A s \in Slots : tab[s].state # Free <=> s < taskCount
        /\ tab[cur].state # Suspended
        /\ taskCount \in 0 .. MAX_TASKS
        /\ cur \in Slots
        /\ cur < taskCount \/ (cur = 0 /\ taskCount = 0)
    BY KilledType, KilledShape DEF ShapeInv, TableShape, TypeOK
  <2>2. PICK i \in 0 .. MAX_TASKS :
          /\ FirstOr(dead, taskCount, i)
          /\ IF loadOk /\ HasSlot(i)
             THEN Spawn(tab, taskCount, i, WindowStack, asOk)
             ELSE tasks' = tab /\ UNCHANGED taskCount
    BY <1>6 DEF DeskLaunch
  <2>3. cur' = cur
    BY <1>6 DEF DeskLaunch
  <2>4. i <= taskCount
    BY <2>1, <2>2 DEF FirstOr, Slots
  <2> HIDE DEF tab, dead
  <2>5. CASE loadOk /\ HasSlot(i)
    <3>1. i \in Slots
      BY <2>5 DEF HasSlot, Slots
    <3> QED
      BY <2>1, <2>2, <2>3, <2>4, <2>5, <3>1, SpawnShape
  <2>6. CASE ~(loadOk /\ HasSlot(i))
    BY <2>1, <2>2, <2>3, <2>6 DEF TableShape
  <2> QED
    BY <2>5, <2>6
<1>7. ASSUME NEW t \in Slots, KillTask(t)
      PROVE  TableShape' /\ tasks'[cur'].state # Suspended
  BY <1>7, KilledShape DEF KillTask, cpuVars, ShapeInv, TableShape
<1>8. ASSUME NEW t \in Slots, TaskSuspend(t) \/ TaskResume(t)
      PROVE  TableShape' /\ tasks'[cur'].state # Suspended
  <2>1. \A s \in Slots :
          /\ s # t => tasks'[s] = tasks[s]
          /\ tasks'[t].state \in {Runnable, Suspended}
          /\ TaskResume(t) => tasks'[t].state = Runnable
    BY <1>8 DEF TaskSuspend, TaskResume, ShapeInv, TypeOK, Task
  <2> QED
    BY <1>8, <2>1
       DEF TaskSuspend, TaskResume, ShapeInv, TableShape, TypeOK
<1>9. ASSUME \/ \E d \in Domains : SetCurrentDomain(d)
             \/ \E h \in Handlers \cup {0} : SigSet(h)
             \/ \E t \in Slots : SigKill(t) \/ SigRet(t)
      PROVE  TableShape' /\ tasks'[cur'].state # Suspended
  <2>1. \A s \in Slots : tasks'[s].state = tasks[s].state
    BY <1>9 DEF SetCurrentDomain, SigSet, SigKill, SigRet, ShapeInv, TypeOK,
                Task
  <2> QED
    BY <1>9, <2>1
       DEF SetCurrentDomain, SigSet, SigKill, SigRet, ShapeInv, TableShape,
           TypeOK
<1>10. CASE ExitToShell
  BY <1>10 DEF ExitToShell, tableVars, ShapeInv, TableShape
<1>11. ASSUME NEW threads \in BOOLEAN, NEW asA \in BOOLEAN,
              NEW asB \in BOOLEAN, OsRun(threads, asA, asB)
       PROVE  TableShape' /\ tasks'[cur'].state # Suspended
  <2>1. /\ SpawnedTask(0, ThreadAStack, asA).state = Runnable
        /\ SpawnedTask(1, ThreadBStack, asB).state = Runnable
        /\ RegisteredTask(0).state = Runnable
    BY DEF SpawnedTask, RegisteredTask, FreeTask
  <2>2. CASE taskCount = 0 /\ threads
    <3>1. \A s \in Slots : tasks'[s].state # Free <=> s < 2
      BY <1>11, <2>1, <2>2 DEF OsRun, ShapeInv, TableShape, TypeOK, Slots
    <3>2. tasks'[0].state = Runnable
      BY <1>11, <2>1, <2>2 DEF OsRun, ShapeInv, TypeOK, Slots
    <3> QED
      BY <1>11, <2>2, <3>1, <3>2 DEF OsRun, TableShape
  <2>3. CASE taskCount = 0 /\ ~threads /\ proxyMode
    <3>1. \A s \in Slots : tasks'[s].state # Free <=> s < 1
      BY <1>11, <2>1, <2>3 DEF OsRun, ShapeInv, TableShape, TypeOK, Slots
    <3>2. tasks'[0].state = Runnable
      BY <1>11, <2>1, <2>3 DEF OsRun, ShapeInv, TypeOK, Slots
    <3> QED
      BY <1>11, <2>3, <3>1, <3>2 DEF OsRun, TableShape
  <2>4. CASE ~(taskCount = 0 /\ (threads \/ proxyMode))
    BY <1>11, <2>4 DEF OsRun, ShapeInv, TableShape
  <2> QED
    BY <2>2, <2>3, <2>4
<1>12. CASE UNCHANGED vars
  BY <1>12 DEF vars, tableVars, ShapeInv, TableShape
<1>13. SigTargets \subseteq Slots /\ AsOutcomes \subseteq BOOLEAN
  BY DEF Slots
<1> QED
  BY <1>1, <1>2, <1>3, <1>4, <1>5, <1>6, <1>7, <1>8, <1>9, <1>10, <1>11,
     <1>12, <1>13 DEF Next

\* TASK_COUNT separates used from never-used slots after any sequence of
\* appending and reviving spawns, kills and crashes, so the modulo scan of
\* the tick sees every task and CUR stays inside the table.
THEOREM TableShapeCorrect == Spec => []TableShape
<1>1. Init => ShapeInv
  BY TypeInit DEF Init, ShapeInv, TableShape, FreeTask, Slots
<1>2. ShapeInv /\ [Next]_vars => ShapeInv'
  BY ShapeStep
<1>3. ShapeInv => TableShape
  BY DEF ShapeInv
<1> QED
  BY <1>1, <1>2, <1>3, PTL DEF Spec

-----------------------------------------------------------------------------
(* No context is lost. *)

\* The parts of IndInv that speak of contexts, for a table that a syscall
\* is still building.
LiveIn(tab, t) == tab[t].state \in {Runnable, Suspended}

Frames(tab, stks) ==
  \A t \in Slots : LiveIn(tab, t) /\ t # cur =>
    /\ tab[t].saved.stack = tab[t].kstack
    /\ stks[tab[t].kstack] = [owner |-> t, at |-> tab[t].saved.at]

Apart(tab, count) ==
  \A s, t \in Slots :
    /\ s < count /\ (s = cur \/ LiveIn(tab, s))
    /\ t < count /\ (t = cur \/ LiveIn(tab, t))
    /\ s # t
    => tab[s].kstack # tab[t].kstack

\* Everything of IndInv' that ShapeStep does not give.
ContextGoal ==
  /\ ContextIntegrity'
  /\ CpuCoherence'
  /\ ~broken' => \A s, t \in Slots :
       Holds(s)' /\ Holds(t)' /\ s # t => tasks'[s].kstack # tasks'[t].kstack
  /\ taskCount' = 0 => cr3' = SystemAS

LEMMA IndShape == IndInv => ShapeInv
BY DEF IndInv, ShapeInv

LEMMA IndFrames ==
  ASSUME IndInv, ~broken
  PROVE  Frames(tasks, stacks) /\ Apart(tasks, taskCount)
BY DEF IndInv, ContextIntegrity, Resumable, Live, Holds, Frames, Apart, LiveIn

\* A spawn that takes no stack in use leaves every waiting context in place
\* and gives the new task one of its own.
LEMMA SpawnContext ==
  ASSUME NEW tab \in [Slots -> Task], NEW count \in 0 .. MAX_TASKS,
         NEW i \in Slots, NEW k \in KStacks, NEW asOk, i <= count,
         stacks \in [KStacks -> Frame], cur \in Slots,
         Frames(tab, stacks), Apart(tab, count),
         Spawn(tab, count, i, k, asOk), ~broken'
  PROVE  /\ Frames(tasks', stacks')
         /\ Apart(tasks', taskCount')
         /\ tasks'[cur] = tab[cur]
         /\ i # cur
         /\ taskCount' > 0
<1>1. /\ i # cur
      /\ \A t \in Slots : t = cur \/ LiveIn(tab, t) => tab[t].kstack # k
  BY DEF Spawn, Clobbers, LiveIn
<1>2. \A t \in Slots : tasks'[t] = IF t = i THEN SpawnedTask(i, k, asOk)
                                            ELSE tab[t]
  BY DEF Spawn
<1>3. /\ SpawnedTask(i, k, asOk).kstack = k
      /\ SpawnedTask(i, k, asOk).saved = [stack |-> k, at |-> "init"]
  BY DEF SpawnedTask, FreeTask
<1>4. \A x \in KStacks : stacks'[x] = IF x = k
                                      THEN [owner |-> i, at |-> "init"]
                                      ELSE stacks[x]
  BY DEF Spawn, InitialFrame
<1>5. taskCount' = IF i = count THEN count + 1 ELSE count
  BY DEF Spawn, CountAfter, Slots
<1>6. \A t \in Slots : tab[t].kstack \in KStacks
  BY DEF Task
<1>7. Frames(tasks', stacks')
  <2> SUFFICES ASSUME NEW t \in Slots, LiveIn(tasks', t), t # cur
               PROVE  /\ tasks'[t].saved.stack = tasks'[t].kstack
                      /\ stacks'[tasks'[t].kstack] =
                           [owner |-> t, at |-> tasks'[t].saved.at]
    BY DEF Frames
  <2>1. CASE t = i
    BY <1>2, <1>3, <1>4, <2>1
  <2>2. CASE t # i
    BY <1>1, <1>2, <1>4, <1>6, <2>2 DEF Frames, LiveIn
  <2> QED
    BY <2>1, <2>2
<1>8. Apart(tasks', taskCount')
  <2> SUFFICES ASSUME NEW s \in Slots, NEW t \in Slots,
                      s < taskCount', s = cur \/ LiveIn(tasks', s),
                      t < taskCount', t = cur \/ LiveIn(tasks', t),
                      s # t
               PROVE  tasks'[s].kstack # tasks'[t].kstack
    BY DEF Apart
  <2>1. CASE s = i
    BY <1>1, <1>2, <1>3, <2>1 DEF LiveIn
  <2>2. CASE t = i
    BY <1>1, <1>2, <1>3, <2>2 DEF LiveIn
  <2>3. CASE s # i /\ t # i
    BY <1>2, <1>5, <2>3 DEF Apart, LiveIn, Slots
  <2> QED
    BY <2>1, <2>2, <2>3
<1> QED
  BY <1>1, <1>2, <1>5, <1>7, <1>8 DEF Slots

\* Registering the implicit task moves no frame; it takes the main stack,
\* which nobody else can hold while the table is empty.
LEMMA ParentContext ==
  ASSUME IndInv, ~broken, NEW dom \in Domains
  PROVE  /\ Frames(WithParent(dom), stacks)
         /\ Apart(WithParent(dom), Registered)
         /\ taskCount = 0 => /\ WithParent(dom)[cur].kstack = MainStack
                             /\ WithParent(dom)[cur].cr3 = SystemAS
<1>1. CASE taskCount = 0
  <2>1. cur = 0 /\ \A t \in Slots : tasks[t].state = Free
    BY <1>1 DEF IndInv, TableShape, TypeOK, Slots
  <2>2. \A t \in Slots : WithParent(dom)[t] = IF t = 0 THEN RegisteredTask(dom)
                                                       ELSE tasks[t]
    BY <1>1 DEF WithParent, IndInv, TypeOK
  <2>3. /\ RegisteredTask(dom).kstack = MainStack
        /\ RegisteredTask(dom).cr3 = SystemAS
    BY DEF RegisteredTask, FreeTask
  <2>4. Frames(WithParent(dom), stacks)
    BY <2>1, <2>2 DEF Frames, LiveIn
  <2>5. Apart(WithParent(dom), Registered)
    BY <1>1, <2>1, <2>2 DEF Apart, LiveIn, Registered, Slots
  <2>6. 0 \in Slots
    BY DEF Slots
  <2> QED
    BY <2>1, <2>2, <2>3, <2>4, <2>5, <2>6
<1>2. CASE taskCount # 0
  BY <1>2, IndFrames DEF WithParent, Registered
<1> QED
  BY <1>1, <1>2

LEMMA KilledContext ==
  ASSUME IndInv, ~broken, NEW t \in Slots \cup {-1}
  PROVE  /\ Frames(Killed(t), stacks)
         /\ Apart(Killed(t), taskCount)
         /\ Killed(t)[cur].kstack = tasks[cur].kstack
         /\ Killed(t)[cur].cr3 = tasks[cur].cr3
<1>1. \A s \in Slots : /\ Killed(t)[s].kstack = tasks[s].kstack
                       /\ Killed(t)[s].saved = tasks[s].saved
                       /\ Killed(t)[s].cr3 = tasks[s].cr3
                       /\ LiveIn(Killed(t), s) => LiveIn(tasks, s)
  BY DEF Killed, IndInv, TypeOK, Task, LiveIn
<1>2. cur \in Slots
  BY DEF IndInv, TypeOK
<1> QED
  BY <1>1, <1>2, IndFrames DEF Frames, Apart

\* From the table-level facts back to the invariant.
LEMMA GoalFromTable ==
  ASSUME cur' = cur,
         Frames(tasks', stacks'), Apart(tasks', taskCount'),
         mode' = "user" => running' = cur',
         taskCount' > 0 => /\ rsp0' = tasks'[cur].kstack
                           /\ cr3' = tasks'[cur].cr3,
         taskCount' = 0 => cr3' = SystemAS
  PROVE  ContextGoal
BY DEF ContextGoal, ContextIntegrity, CpuCoherence, Resumable, Live, Holds,
       Frames, Apart, LiveIn

\* A switch away from CUR, whose frame is then on its own stack unless it is
\* dead, to the waiting task n.
LEMMA SwitchContext ==
  ASSUME IndInv, ~broken, mode = "user", taskCount > 0,
         NEW n \in Slots, n # cur, n < taskCount, tasks[n].state = Runnable,
         NEW at \in Offsets, SwitchTo(tasks', at, n),
         \A t \in Slots : /\ tasks'[t].kstack = tasks[t].kstack
                          /\ tasks'[t].cr3 = tasks[t].cr3
                          /\ t # cur => /\ tasks'[t].state = tasks[t].state
                                        /\ tasks'[t].saved = tasks[t].saved,
         \/ tasks'[cur].state = Dead
         \/ tasks'[cur].saved = [stack |-> rsp0, at |-> at],
         taskCount' = taskCount
  PROVE  ContextGoal
<1>1. /\ cur \in Slots /\ running = cur /\ rsp0 = tasks[cur].kstack
      /\ rsp0 \in KStacks
      /\ stacks \in [KStacks -> Frame]
      /\ cur < taskCount
    BY DEF IndInv, ContextIntegrity, CpuCoherence, TableShape, TypeOK
<1>2. Frames(tasks, stacks) /\ Apart(tasks, taskCount)
  BY IndFrames
<1>3. \A t \in Slots : tasks[t].kstack \in KStacks
  BY DEF IndInv, TypeOK, Task
<1>4. /\ tasks[n].saved.stack = tasks[n].kstack
      /\ stacks[tasks[n].kstack] = [owner |-> n, at |-> tasks[n].saved.at]
      /\ tasks[n].kstack # rsp0
  BY <1>1, <1>2 DEF Frames, Apart, LiveIn
<1>5. /\ cur' = n
      /\ rsp0' = tasks'[n].kstack
      /\ cr3' = tasks'[n].cr3
      /\ running' = Restore(Pushed(at), tasks[n].saved)
      /\ stacks' = [Pushed(at) EXCEPT ![tasks[n].kstack] = Empty]
  BY <1>4 DEF SwitchTo
<1>6. \A x \in KStacks :
        Pushed(at)[x] = IF x = rsp0 THEN [owner |-> cur, at |-> at]
                                    ELSE stacks[x]
  BY <1>1 DEF Pushed
<1>7. running' = n
  BY <1>1, <1>3, <1>4, <1>5, <1>6 DEF Restore
<1>8. \A x \in KStacks \ {tasks[n].kstack} :
        stacks'[x] = IF x = rsp0 THEN [owner |-> cur, at |-> at]
                                 ELSE stacks[x]
  BY <1>1, <1>3, <1>5, <1>6 DEF Pushed
<1>9. ASSUME NEW t \in Slots, LiveIn(tasks', t), t # n
      PROVE  /\ tasks'[t].saved.stack = tasks'[t].kstack
             /\ stacks'[tasks'[t].kstack] =
                  [owner |-> t, at |-> tasks'[t].saved.at]
  <2>1. CASE t = cur
    <3>1. tasks'[cur].saved = [stack |-> rsp0, at |-> at]
      BY <1>9, <2>1 DEF LiveIn
    <3> QED
      BY <1>1, <1>4, <1>8, <2>1, <3>1
  <2>2. CASE t # cur
    <3>1. LiveIn(tasks, t) /\ t < taskCount
      BY <1>9, <2>2 DEF LiveIn, IndInv, TableShape
    <3>2. tasks[t].kstack # rsp0 /\ tasks[t].kstack # tasks[n].kstack
      BY <1>1, <1>2, <1>9, <2>2, <3>1 DEF Apart, LiveIn
    <3> QED
      BY <1>2, <1>3, <1>8, <2>2, <3>1, <3>2 DEF Frames
  <2> QED
    BY <2>1, <2>2
<1>10. \A s, t \in Slots :
         Holds(s)' /\ Holds(t)' /\ s # t => tasks'[s].kstack # tasks'[t].kstack
  <2>1. \A t \in Slots : Holds(t)' => t < taskCount /\ (t = cur \/ LiveIn(tasks, t))
    BY <1>5 DEF Holds, Live, LiveIn
  <2> QED
    BY <1>2, <2>1 DEF Apart
<1> QED
  BY <1>5, <1>7, <1>9, <1>10
     DEF ContextGoal, ContextIntegrity, CpuCoherence, Resumable, Live, LiveIn

LEMMA StayContext ==
  ASSUME IndInv, ~broken, mode = "user", StayOn,
         \A t \in Slots : /\ tasks'[t].kstack = tasks[t].kstack
                          /\ tasks'[t].cr3 = tasks[t].cr3
                          /\ tasks'[t].state = tasks[t].state
                          /\ t # cur => tasks'[t].saved = tasks[t].saved,
         taskCount' = taskCount, mode' = mode
  PROVE  ContextGoal
<1>1. /\ cur \in Slots /\ running = cur
      /\ taskCount > 0 => /\ rsp0 = tasks[cur].kstack
                          /\ cr3 = tasks[cur].cr3
      /\ taskCount = 0 => cr3 = SystemAS
      /\ rsp0 \in KStacks
      /\ stacks \in [KStacks -> Frame]
      /\ \A t \in Slots : tasks[t].state # Free <=> t < taskCount
      /\ taskCount \in Nat
      /\ cur < taskCount \/ (cur = 0 /\ taskCount = 0)
  BY DEF IndInv, ContextIntegrity, CpuCoherence, TableShape, TypeOK
<1>2. Frames(tasks, stacks) /\ Apart(tasks, taskCount)
  BY IndFrames
<1>3. \A t \in Slots : tasks[t].kstack \in KStacks
  BY DEF IndInv, TypeOK, Task
<1>4. \A x \in KStacks : x # rsp0 => stacks'[x] = stacks[x]
  BY <1>1 DEF StayOn
<1>5. Frames(tasks', stacks')
  <2> SUFFICES ASSUME NEW t \in Slots, LiveIn(tasks', t), t # cur
               PROVE  /\ tasks'[t].saved.stack = tasks'[t].kstack
                      /\ stacks'[tasks'[t].kstack] =
                           [owner |-> t, at |-> tasks'[t].saved.at]
    BY DEF Frames
  <2>1. LiveIn(tasks, t) /\ t < taskCount
    BY <1>1 DEF LiveIn
  <2>2. tasks[t].kstack # rsp0
    BY <1>1, <1>2, <2>1 DEF Apart, Slots
  <2> QED
    BY <1>2, <1>3, <1>4, <2>1, <2>2 DEF Frames
<1>6. Apart(tasks', taskCount')
  BY <1>2 DEF Apart, LiveIn
<1> QED
  BY <1>1, <1>5, <1>6, GoalFromTable DEF StayOn

LEMMA BrokenStays ==
  ASSUME IndInv, [Next]_vars, broken
  PROVE  broken'
BY DEF Next, Tick, DemandZero, Terminate, Fork, ExecSpawn, DeskLaunch,
       KillTask, TaskSuspend, TaskResume, SetCurrentDomain, SigSet, SigKill,
       SigRet, ExitToShell, OsRun, Spawn, Register, vars, IndInv, TypeOK

\* The table never becomes empty again, and while it is empty no step loads
\* page tables.
LEMMA EmptyTableCr3 ==
  ASSUME IndInv, [Next]_vars, taskCount' = 0
  PROVE  taskCount = 0 /\ cr3' = cr3
<1>1. taskCount \in Nat
  BY DEF IndInv, TypeOK
<1>2. Registered \in Nat \ {0}
  BY <1>1 DEF Registered
<1>3. \A i \in 0 .. MAX_TASKS, count \in Nat : CountAfter(i, count) # 0
  BY DEF CountAfter
<1>4. ASSUME NEW asOk, Fork(asOk) \/ ExecSpawn(asOk)
      PROVE  FALSE
  <2>1. CASE Fork(asOk)
    <3>1. taskCount' \in {CountAfter(Registered, Registered), Registered}
      BY <2>1 DEF Fork, Spawn, Register
    <3> QED
      BY <1>2, <3>1 DEF CountAfter
  <2>2. CASE ExecSpawn(asOk)
    <3>1. PICK i \in 0 .. MAX_TASKS :
            taskCount' \in {CountAfter(i, Registered), Registered}
      BY <2>2 DEF ExecSpawn, Spawn, Register
    <3> QED
      BY <1>2, <1>3, <3>1
  <2> QED
    BY <1>4, <2>1, <2>2
<1>5. ASSUME NEW loadOk, NEW asOk, DeskLaunch(loadOk, asOk)
      PROVE  taskCount' = taskCount /\ cr3' = cr3
  BY <1>1, <1>3, <1>5 DEF DeskLaunch, Spawn
<1>6. ASSUME NEW threads, NEW asA, NEW asB, OsRun(threads, asA, asB)
      PROVE  taskCount' = taskCount /\ cr3' = cr3
  BY <1>6 DEF OsRun
<1>7. CASE Tick \/ DemandZero \/ \E byFault \in BOOLEAN : Terminate(byFault)
  BY <1>7 DEF Tick, DemandZero, Terminate, StayOn, Halt
<1>8. CASE \/ \E t \in Slots : KillTask(t) \/ TaskSuspend(t) \/ TaskResume(t)
           \/ \E d \in Domains : SetCurrentDomain(d)
           \/ \E h \in Handlers \cup {0} : SigSet(h)
           \/ \E t \in SigTargets : SigKill(t)
           \/ \E t \in Slots : SigRet(t)
           \/ ExitToShell
           \/ UNCHANGED vars
  BY <1>8 DEF KillTask, TaskSuspend, TaskResume, SetCurrentDomain, SigSet,
              SigKill, SigRet, ExitToShell, vars, tableVars, cpuVars
<1> QED
  BY <1>4, <1>5, <1>6, <1>7, <1>8 DEF Next

LEMMA ContextStep ==
  ASSUME IndInv, [Next]_vars, ShapeInv'
  PROVE  IndInv'
<1> SUFFICES ContextGoal
  BY DEF IndInv, ShapeInv, ContextGoal
<1>a. CASE broken'
  <2>1. taskCount' = 0 => taskCount = 0 /\ cr3' = cr3
    BY EmptyTableCr3
  <2> QED
    BY <1>a, <2>1
       DEF ContextGoal, ContextIntegrity, CpuCoherence, IndInv
<1>b. CASE ~broken'
  <2>0. ~broken
    BY <1>b, BrokenStays
  <2>t. /\ cur \in Slots
        /\ taskCount \in 0 .. MAX_TASKS
        /\ taskCount > 0 => rsp0 = tasks[cur].kstack /\ cr3 = tasks[cur].cr3
        /\ taskCount = 0 => cr3 = SystemAS
        /\ mode = "user" => running = cur
        /\ Frames(tasks, stacks) /\ Apart(tasks, taskCount)
        /\ stacks \in [KStacks -> Frame]
        /\ tasks \in [Slots -> Task]
        /\ cur < taskCount \/ (cur = 0 /\ taskCount = 0)
    BY <2>0, IndFrames
       DEF IndInv, TypeOK, ContextIntegrity, CpuCoherence, TableShape
  <2>1. CASE Tick
    <3>1. \A t \in Slots : /\ tasks'[t].kstack = tasks[t].kstack
                           /\ tasks'[t].cr3 = tasks[t].cr3
                           /\ tasks'[t].state = tasks[t].state
                           /\ t # cur => tasks'[t].saved = tasks[t].saved
      BY <2>1, <2>t DEF Tick, AfterSignal, Task
    <3>2. CASE StayOn
      BY <2>0, <2>1, <3>1, <3>2, StayContext DEF Tick
    <3>3. ASSUME ~StayOn
          PROVE  ContextGoal
      <4>1. PICK n \in Slots \ {cur} :
              /\ taskCount >= 2
              /\ IsNext(tasks', n)
              /\ SwitchTo(tasks', "irq", n)
        BY <2>1, <3>3, <2>t DEF Tick
      <4>2. tasks'[cur].saved = [stack |-> rsp0, at |-> "irq"]
        BY <2>1, <2>t, <4>1 DEF Tick, AfterSignal, Task
      <4>3. "irq" \in Offsets
        BY DEF Offsets
      <4>4. n < taskCount /\ tasks[n].state = Runnable
        BY <3>1, <4>1 DEF IsNext
      <4>5. mode = "user" /\ taskCount' = taskCount
        BY <2>1 DEF Tick
      <4> QED
        BY <2>0, <2>t, <3>1, <4>1, <4>2, <4>3, <4>4, <4>5, SwitchContext
    <3> QED
      BY <3>2, <3>3
  <2>2. CASE DemandZero
    <3>1. ~pfMustSwitch
      BY <1>b, <2>2 DEF DemandZero
    <3>2. /\ mode = "user" /\ StayOn /\ tasks' = tasks
          /\ taskCount' = taskCount /\ mode' = mode
      BY <2>2, <3>1 DEF DemandZero
    <3> QED
      BY <2>0, <3>2, StayContext
  <2>3. ASSUME NEW byFault \in BOOLEAN, Terminate(byFault)
        PROVE  ContextGoal
    <3> DEFINE at == IF byFault THEN "pf" ELSE "irq"
    <3>1. at \in Offsets
      BY DEF Offsets
    <3>2. /\ \A t \in Slots : /\ tasks'[t].kstack = tasks[t].kstack
                              /\ tasks'[t].cr3 = tasks[t].cr3
                              /\ tasks'[t].saved = tasks[t].saved
                              /\ t # cur => tasks'[t].state = tasks[t].state
          /\ taskCount < 2 \/ tasks'[cur].state = Dead
          /\ taskCount < 2 => tasks' = tasks
      BY <2>3, <2>t DEF Terminate, Task
    <3>3. CASE Halt(at)
      <4>1. \A t \in Slots : LiveIn(tasks', t) => LiveIn(tasks, t)
        BY <3>2, <2>t DEF LiveIn
      <4>2. Frames(tasks', stacks')
        <5> SUFFICES ASSUME NEW t \in Slots, LiveIn(tasks', t), t # cur
                     PROVE  /\ tasks'[t].saved.stack = tasks'[t].kstack
                            /\ stacks'[tasks'[t].kstack] =
                                 [owner |-> t, at |-> tasks'[t].saved.at]
          BY <3>3 DEF Frames
        <5>1. LiveIn(tasks, t) /\ t < taskCount
          BY <4>1 DEF LiveIn, IndInv, TableShape
        <5>2. tasks[t].kstack # rsp0
          BY <2>t, <5>1 DEF Apart, Slots
        <5>3. tasks[t].kstack \in KStacks /\ rsp0 \in KStacks
          BY <2>t DEF Task, IndInv, TypeOK
        <5>4. stacks'[tasks[t].kstack] = stacks[tasks[t].kstack]
          BY <3>3, <5>2, <5>3, <2>t DEF Halt, Pushed
        <5> QED
          BY <2>t, <3>2, <5>1, <5>4 DEF Frames
      <4>3. Apart(tasks', taskCount')
        BY <2>3, <2>t, <3>2, <4>1 DEF Apart, Terminate
      <4> QED
        BY <1>b, <2>3, <2>t, <3>2, <3>3, <4>2, <4>3, GoalFromTable
           DEF Terminate, Halt
    <3>4. ASSUME ~Halt(at)
          PROVE  ContextGoal
      <4>1. PICK n \in Slots :
              /\ taskCount >= 2
              /\ IsNext(tasks', n)
              /\ SwitchTo(tasks', at, n)
        BY <2>3, <3>4, <2>t DEF Terminate
      <4>2. tasks'[cur].state = Dead
        BY <3>2, <4>1, <2>t
      <4>3. n # cur /\ n < taskCount /\ tasks[n].state = Runnable
        BY <3>2, <4>1, <4>2 DEF IsNext
      <4>4. mode = "user" /\ taskCount' = taskCount /\ broken' = broken
        BY <2>3 DEF Terminate
      <4> HIDE DEF at
      <4> QED
        BY <2>0, <2>t, <3>1, <3>2, <4>1, <4>2, <4>3, <4>4, SwitchContext
    <3> QED
      BY <3>3, <3>4
  <2>4. ASSUME NEW asOk \in BOOLEAN, Fork(asOk)
        PROVE  ContextGoal
    <3>1. /\ WithParent(0) \in [Slots -> Task]
          /\ Registered \in 0 .. MAX_TASKS
          /\ Frames(WithParent(0), stacks)
          /\ Apart(WithParent(0), Registered)
          /\ rsp0' = WithParent(0)[cur].kstack
          /\ cr3 = WithParent(0)[cur].cr3
          /\ Registered > 0
      <4>1. rsp0' = WithParent(0)[cur].kstack /\ cr3 = WithParent(0)[cur].cr3
        <5>1. CASE taskCount = 0
          BY <2>0, <2>4, <2>t, <5>1, ParentContext DEF Fork
        <5>2. CASE taskCount # 0
          BY <2>4, <2>t, <5>2 DEF Fork, WithParent
        <5> QED
          BY <5>1, <5>2
      <4> QED
        BY <2>0, <4>1, ParentContext, ParentType DEF IndInv
    <3>a. /\ cur' = cur /\ mode' = mode /\ running' = running /\ cr3' = cr3
          /\ mode = "user"
      BY <2>4 DEF Fork
    <3>2. CASE HasSlot(Registered) /\ asOk
      <4>1. Registered \in Slots /\ Registered <= Registered
        BY <3>1, <3>2 DEF HasSlot, Slots
      <4>2. ForkStack \in KStacks
        BY DEF KStacks, TaskStacks, ForkStack
      <4>3. Spawn(WithParent(0), Registered, Registered, ForkStack, TRUE)
        BY <2>4, <3>2 DEF Fork
      <4>4. /\ Frames(tasks', stacks')
            /\ Apart(tasks', taskCount')
            /\ tasks'[cur] = WithParent(0)[cur]
            /\ taskCount' > 0
        BY <1>b, <2>t, <3>1, <4>1, <4>2, <4>3, SpawnContext
      <4> QED
        BY <2>t, <3>1, <3>a, <4>4, GoalFromTable
    <3>3. CASE ~(HasSlot(Registered) /\ asOk)
      <4>1. tasks' = WithParent(0) /\ taskCount' = Registered /\ stacks' = stacks
        BY <2>4, <3>3 DEF Fork, Register
      <4> QED
        BY <2>t, <3>1, <3>a, <4>1, GoalFromTable
    <3> QED
      BY <3>2, <3>3
  <2>5. ASSUME NEW asOk \in BOOLEAN, ExecSpawn(asOk)
        PROVE  ContextGoal
    <3> DEFINE par == WithParent(boundDomain)
    <3>0. boundDomain \in Domains
      BY DEF IndInv, TypeOK
    <3>1. /\ par \in [Slots -> Task]
          /\ Registered \in 0 .. MAX_TASKS
          /\ Frames(par, stacks)
          /\ Apart(par, Registered)
          /\ rsp0' = par[cur].kstack
          /\ cr3 = par[cur].cr3
          /\ Registered > 0
      <4>1. rsp0' = par[cur].kstack /\ cr3 = par[cur].cr3
        <5>1. CASE taskCount = 0
          BY <2>0, <2>5, <2>t, <3>0, <5>1, ParentContext DEF ExecSpawn
        <5>2. CASE taskCount # 0
          BY <2>5, <2>t, <5>2 DEF ExecSpawn, WithParent
        <5> QED
          BY <5>1, <5>2
      <4> QED
        BY <2>0, <3>0, <4>1, ParentContext, ParentType DEF IndInv
    <3>2. PICK i \in 0 .. MAX_TASKS :
            /\ FirstOr(Aux(Dead), Registered, i)
            /\ IF HasSlot(i)
               THEN Spawn(par, Registered, i, AuxStack, asOk)
               ELSE Register(boundDomain)
      BY <2>5 DEF ExecSpawn
    <3>3. /\ cur' = cur /\ mode' = mode /\ running' = running /\ cr3' = cr3
          /\ mode = "user"
      BY <2>5 DEF ExecSpawn
    <3>4. CASE HasSlot(i)
      <4>1. i \in Slots
        BY <3>4 DEF HasSlot, Slots
      <4>2. i <= Registered
        <5>1. CASE i = Registered
          BY <5>1, <3>1
        <5>2. CASE i \in Aux(Dead)
          BY <5>2, <4>1, <3>1
             DEF Aux, IndInv, TableShape, TypeOK, Registered, Slots
        <5> QED
          BY <3>2, <5>1, <5>2 DEF FirstOr
      <4>3. AuxStack \in KStacks
        BY DEF KStacks, TaskStacks, AuxStack
      <4> HIDE DEF par
      <4>4. /\ Frames(tasks', stacks')
            /\ Apart(tasks', taskCount')
            /\ tasks'[cur] = par[cur]
            /\ taskCount' > 0
        BY <1>b, <2>t, <3>1, <3>2, <3>4, <4>1, <4>2, <4>3, SpawnContext
      <4> QED
        BY <1>b, <2>t, <3>1, <3>3, <4>4, GoalFromTable
    <3>5. CASE ~HasSlot(i)
      <4>1. /\ tasks' = par /\ taskCount' = Registered /\ stacks' = stacks
        BY <3>2, <3>5 DEF Register
      <4> HIDE DEF par
      <4> QED
        BY <1>b, <2>t, <3>1, <3>3, <4>1, GoalFromTable
    <3> QED
      BY <3>4, <3>5
  <2>6. ASSUME NEW loadOk \in BOOLEAN, NEW asOk \in BOOLEAN,
               DeskLaunch(loadOk, asOk)
        PROVE  ContextGoal
    <3> DEFINE tab  == Killed(ttyTask)
               dead == {t \in Slots : taskCount > 0 /\ tab[t].state = Dead}
    <3>1. /\ tab \in [Slots -> Task]
          /\ Frames(tab, stacks) /\ Apart(tab, taskCount)
          /\ tab[cur].kstack = tasks[cur].kstack
          /\ tab[cur].cr3 = tasks[cur].cr3
          /\ \A s \in Slots : tab[s].state # Free <=> s < taskCount
      BY <2>0, KilledType, KilledContext, KilledShape, IndShape
         DEF IndInv, TypeOK
    <3>2. PICK i \in 0 .. MAX_TASKS :
            /\ FirstOr(dead, taskCount, i)
            /\ IF loadOk /\ HasSlot(i)
               THEN /\ Spawn(tab, taskCount, i, WindowStack, asOk)
                    /\ rsp0' = IF taskCount = 0 THEN WindowStack ELSE rsp0
               ELSE tasks' = tab /\ UNCHANGED <<taskCount, stacks, rsp0>>
      BY <2>6 DEF DeskLaunch
    <3>3. /\ cur' = cur /\ mode' = mode /\ running' = running /\ cr3' = cr3
          /\ mode = "user"
      BY <2>6 DEF DeskLaunch
    <3>4. i <= taskCount
      BY <2>t, <3>1, <3>2 DEF FirstOr, Slots
    <3>5. WindowStack \in KStacks
      BY DEF WindowStack, KStacks, TaskStacks, ForkStack, MainStack
    <3> HIDE DEF tab, dead
    <3>6. CASE loadOk /\ HasSlot(i)
      <4>1. i \in Slots
        BY <3>6 DEF HasSlot, Slots
      <4>2. /\ Frames(tasks', stacks')
            /\ Apart(tasks', taskCount')
            /\ tasks'[cur] = tab[cur]
            /\ i # cur
            /\ taskCount' > 0
        BY <1>b, <2>t, <3>1, <3>2, <3>4, <3>5, <3>6, <4>1, SpawnContext
      <4>3. taskCount > 0
        BY <2>t, <3>4, <4>1, <4>2 DEF Slots
      <4> QED
        BY <1>b, <2>t, <3>1, <3>2, <3>3, <3>6, <4>2, <4>3, GoalFromTable
    <3>7. CASE ~(loadOk /\ HasSlot(i))
      BY <1>b, <2>t, <3>1, <3>2, <3>3, <3>7, GoalFromTable
    <3> QED
      BY <3>6, <3>7
  <2>7. ASSUME NEW t \in Slots, KillTask(t)
        PROVE  ContextGoal
    <3>1. /\ Frames(Killed(t), stacks) /\ Apart(Killed(t), taskCount)
          /\ Killed(t)[cur].kstack = tasks[cur].kstack
          /\ Killed(t)[cur].cr3 = tasks[cur].cr3
      BY <2>0, KilledContext
    <3> QED
      BY <1>b, <2>7, <2>t, <3>1, GoalFromTable DEF KillTask, cpuVars
  <2>8. ASSUME \/ \E t \in Slots : TaskSuspend(t) \/ TaskResume(t)
               \/ \E d \in Domains : SetCurrentDomain(d)
               \/ \E h \in Handlers \cup {0} : SigSet(h)
               \/ \E t \in Slots : SigKill(t) \/ SigRet(t)
        PROVE  ContextGoal
    <3>1. \A s \in Slots : /\ tasks'[s].kstack = tasks[s].kstack
                           /\ tasks'[s].saved = tasks[s].saved
                           /\ tasks'[s].cr3 = tasks[s].cr3
                           /\ LiveIn(tasks', s) <=> LiveIn(tasks, s)
      BY <2>8, <2>t DEF TaskSuspend, TaskResume, SetCurrentDomain, SigSet,
                        SigKill, SigRet, Task, LiveIn
    <3>2. /\ cur' = cur /\ taskCount' = taskCount /\ cpuVars' = cpuVars
      BY <2>8 DEF TaskSuspend, TaskResume, SetCurrentDomain, SigSet, SigKill,
                  SigRet
    <3>3. Frames(tasks', stacks') /\ Apart(tasks', taskCount')
      BY <2>t, <3>1, <3>2 DEF Frames, Apart, cpuVars
    <3> QED
      BY <1>b, <2>t, <3>1, <3>2, <3>3, GoalFromTable DEF cpuVars
  <2>9. CASE ExitToShell
    BY <1>b, <2>9, <2>t, GoalFromTable DEF ExitToShell, tableVars
  <2>10. ASSUME NEW threads \in BOOLEAN, NEW asA \in BOOLEAN,
                NEW asB \in BOOLEAN, OsRun(threads, asA, asB)
         PROVE  ContextGoal
    <3>1. /\ SpawnedTask(0, ThreadAStack, asA).kstack = ThreadAStack
          /\ SpawnedTask(1, ThreadBStack, asB).kstack = ThreadBStack
          /\ SpawnedTask(1, ThreadBStack, asB).saved =
               [stack |-> ThreadBStack, at |-> "init"]
          /\ RegisteredTask(0).kstack = MainStack
          /\ RegisteredTask(0).cr3 = SystemAS
      BY DEF SpawnedTask, RegisteredTask, FreeTask
    <3>2. taskCount = 0 => cur = 0 /\ \A t \in Slots : tasks[t].state = Free
      BY DEF IndInv, TableShape, TypeOK, Slots
    <3>3. 0 \in Slots /\ 1 \in Slots
      BY DEF Slots
    <3>4. CASE taskCount = 0 /\ threads
      <4>1. /\ cur' = cur /\ cur = 0 /\ taskCount' = 2
            /\ \A t \in Slots : tasks'[t] =
                 IF t = 0 THEN SpawnedTask(0, ThreadAStack, asA)
                 ELSE IF t = 1 THEN SpawnedTask(1, ThreadBStack, asB)
                 ELSE tasks[t]
            /\ rsp0' = ThreadAStack /\ cr3' = tasks'[0].cr3
            /\ running' = cur'
        BY <2>10, <2>t, <3>2, <3>4 DEF OsRun
      <4>2. stacks'[ThreadBStack] = [owner |-> 1, at |-> "init"]
        BY <2>10, <2>t, <3>4
           DEF OsRun, InitialFrame, KStacks, TaskStacks, ThreadAStack,
               ThreadBStack
      <4>3. Frames(tasks', stacks')
        BY <3>1, <3>2, <3>4, <4>1, <4>2 DEF Frames, LiveIn
      <4>4. Apart(tasks', taskCount')
        BY <3>1, <3>2, <3>4, <4>1
           DEF Apart, LiveIn, ThreadAStack, ThreadBStack
      <4> QED
        BY <1>b, <3>1, <3>3, <4>1, <4>3, <4>4, GoalFromTable
    <3>5. CASE taskCount = 0 /\ ~threads /\ proxyMode
      <4>1. /\ cur' = cur /\ cur = 0 /\ taskCount' = 1
            /\ \A t \in Slots :
                 tasks'[t] = IF t = 0 THEN RegisteredTask(0) ELSE tasks[t]
            /\ rsp0' = MainStack /\ cr3' = cr3 /\ stacks' = stacks
            /\ running' = cur'
        BY <2>10, <2>t, <3>2, <3>5 DEF OsRun
      <4>2. Frames(tasks', stacks') /\ Apart(tasks', taskCount')
        BY <3>2, <3>5, <4>1 DEF Frames, Apart, LiveIn
      <4> QED
        BY <1>b, <2>t, <3>1, <3>3, <3>5, <4>1, <4>2, GoalFromTable
    <3>6. CASE ~(taskCount = 0 /\ (threads \/ proxyMode))
      <4>1. /\ UNCHANGED <<tasks, taskCount, cur, rsp0, cr3, stacks>>
            /\ running' = cur'
        BY <2>10, <3>6 DEF OsRun
      <4> QED
        BY <1>b, <2>t, <4>1, GoalFromTable
    <3> QED
      BY <3>4, <3>5, <3>6
  <2>11. CASE UNCHANGED vars
    BY <1>b, <2>11, <2>t, GoalFromTable DEF vars, tableVars, cpuVars
  <2>12. SigTargets \subseteq Slots /\ AsOutcomes \subseteq BOOLEAN
    BY DEF Slots
  <2> QED
    BY <2>1, <2>2, <2>3, <2>4, <2>5, <2>6, <2>7, <2>8, <2>9, <2>10, <2>11,
       <2>12 DEF Next
<1> QED
  BY <1>a, <1>b

LEMMA IndCorrect == Spec => []IndInv
<1>1. Init => IndInv
  BY TypeInit
     DEF Init, IndInv, TableShape, ContextIntegrity, CpuCoherence, Holds,
         Live, FreeTask, Slots
<1>2. IndInv /\ [Next]_vars => IndInv'
  BY IndShape, ShapeStep, ContextStep
<1> QED
  BY <1>1, <1>2, PTL DEF Spec

\* As long as no spawn took a stack in use and no stale pf_must_switch fired,
\* the CPU executes the task CUR names and the context of every other live
\* task is intact behind its saved_rsp.
THEOREM ContextIntegrityCorrect == Spec => []ContextIntegrity
BY IndCorrect, PTL DEF IndInv

\* rsp0 and CR3 always belong to the task CUR names.
THEOREM CpuCoherenceCorrect == Spec => []CpuCoherence
BY IndCorrect, PTL DEF IndInv

\* A task suspended by ISOLATE does not execute.
THEOREM IsolationCorrect == Spec => []IsolatedNotRunning
<1>1. IndInv => IsolatedNotRunning
  BY DEF IndInv, ContextIntegrity, IsolatedNotRunning
<1> QED
  BY <1>1, IndCorrect, PTL

-----------------------------------------------------------------------------
(* The tick reaches somebody. *)

\* The scan of a tick finds another task whenever one is runnable: some slot
\* is the nearest after CUR.
LEMMA ScanFinds ==
  ASSUME NEW tab, NEW t \in Slots \ {cur}, cur \in Slots,
         taskCount \in 0 .. MAX_TASKS, cur < taskCount,
         t < taskCount, tab[t].state = Runnable
  PROVE  \E n \in Slots \ {cur} : IsNext(tab, n)
<1> DEFINE Others == {s \in Slots \ {cur} :
                        s < taskCount /\ tab[s].state = Runnable}
           Away == {Distance(cur, s) : s \in Others}
<1>1. /\ taskCount \in Nat /\ cur \in Nat /\ cur < taskCount
      /\ \A s \in Slots : s \in Nat
  BY DEF Slots
<1>2. \A s \in Others : Distance(cur, s) \in Nat /\ Distance(cur, s) < taskCount
  BY <1>1 DEF Distance
<1>3. Away \in SUBSET Nat /\ Away # {}
  BY <1>2
<1>4. PICK x \in Away : \A y \in Away : x <= y
  <2> HIDE DEF Away
  <2> QED
    BY <1>3, Minimum
<1>5. PICK n \in Others : x = Distance(cur, n)
  BY <1>4
<1>6. \A s \in Others : Distance(cur, n) <= Distance(cur, s)
  BY <1>4, <1>5
<1>7. Distance(cur, cur) = taskCount
  BY <1>1 DEF Distance
<1>8. Distance(cur, n) <= Distance(cur, cur)
  BY <1>1, <1>2, <1>7
<1>9. \A s \in 0 .. taskCount - 1 :
        tab[s].state = Runnable => s = cur \/ s \in Others
  BY <1>1 DEF Slots
<1>10. \A s \in 0 .. taskCount - 1 :
         tab[s].state = Runnable => Distance(cur, n) <= Distance(cur, s)
  BY <1>6, <1>8, <1>9
<1> QED
  BY <1>5, <1>10 DEF IsNext

\* A tick with somebody to run: the scan switches to a runnable slot, or CUR
\* is the only one that runs.
LEMMA TickReaches ==
  ASSUME ShapeInv, Tick, NEW t \in Slots, tasks[t].state = Runnable
  PROVE  tasks[cur'].state = Runnable
<1>1. /\ taskCount \in 0 .. MAX_TASKS /\ cur \in Slots
      /\ t < taskCount /\ cur < taskCount /\ t \in Nat /\ cur \in Nat
  BY DEF ShapeInv, TypeOK, TableShape, Slots
<1>2. CASE taskCount < 2
  <2>1. t = 0 /\ cur = 0
    BY <1>1, <1>2
  <2>2. cur' = cur
    BY <1>2 DEF Tick, StayOn
  <2> QED
    BY <2>1, <2>2
<1>3. CASE taskCount >= 2
  <2>1. \A s \in Slots : tasks'[s].state = tasks[s].state
    BY DEF Tick, AfterSignal, ShapeInv, TypeOK, Task
  <2>2. \/ \E n \in Slots \ {cur} : IsNext(tasks', n) /\ cur' = n
        \/ ~(\E n \in Slots \ {cur} : IsNext(tasks', n)) /\ cur' = cur
    BY <1>1, <1>3 DEF Tick, SwitchTo, StayOn
  <2>3. CASE \E n \in Slots \ {cur} : IsNext(tasks', n) /\ cur' = n
    BY <2>1, <2>3 DEF IsNext
  <2>4. CASE ~(\E n \in Slots \ {cur} : IsNext(tasks', n)) /\ cur' = cur
    <3>1. PICK tab : tab = tasks'
      OBVIOUS
    <3>2. tab[t].state = Runnable
      BY <2>1, <3>1
    <3>3. t # cur => \E n \in Slots \ {cur} : IsNext(tab, n)
      BY <1>1, <3>2, ScanFinds
    <3> QED
      BY <2>4, <3>1, <3>3
  <2> QED
    BY <2>2, <2>3, <2>4
<1> QED
  BY <1>1, <1>2, <1>3

\* Whatever was killed, suspended or crashed since the last one: a tick never
\* leaves a dead task on the CPU while another could run.
THEOREM NoZombieAfterTickCorrect == Spec => NoZombieAfterTick
<1>1. ShapeInv => [Tick /\ (\E t \in Slots : tasks[t].state = Runnable)
                     => tasks[cur'].state = Runnable]_vars
  BY TickReaches
<1>2. IndInv => ShapeInv
  BY IndShape
<1> QED
  BY <1>1, <1>2, IndCorrect, PTL DEF NoZombieAfterTick

\* The nearest runnable slot lies on the way to every other one.
LEMMA NextIsOnTheWay ==
  ASSUME NEW c \in Nat, NEW n \in Nat, NEW t \in Nat, taskCount \in Nat,
         c < taskCount, n < taskCount, t < taskCount, n # t, n # c, t # c,
         Distance(c, n) <= Distance(c, t)
  PROVE  Distance(n, t) < Distance(c, t)
BY DEF Distance

\* A tick brings the CPU nearer to every task that is ready and waits.
LEMMA TickApproaches ==
  ASSUME ShapeInv, Tick, NEW t \in Slots,
         tasks[t].state = Runnable, t # cur, cur' # t
  PROVE  Distance(cur', t) < Distance(cur, t)
<1>1. /\ taskCount \in 0 .. MAX_TASKS /\ cur \in Slots
      /\ t < taskCount /\ cur < taskCount
      /\ t \in Nat /\ cur \in Nat /\ taskCount \in Nat
      /\ \A s \in Slots : s \in Nat
  BY DEF ShapeInv, TypeOK, TableShape, Slots
<1>2. taskCount >= 2
  BY <1>1
<1>3. PICK tab : tab = tasks'
  OBVIOUS
<1>4. tab[t].state = Runnable
  BY <1>3 DEF Tick, AfterSignal, ShapeInv, TypeOK, Task
<1>5. \E n \in Slots \ {cur} : IsNext(tab, n)
  BY <1>1, <1>4, ScanFinds
<1>6. PICK n \in Slots \ {cur} : IsNext(tab, n) /\ cur' = n
  BY <1>1, <1>2, <1>3, <1>5 DEF Tick, SwitchTo
<1>7. n < taskCount /\ Distance(cur, n) <= Distance(cur, t)
  BY <1>1, <1>4, <1>6 DEF IsNext
<1>8. Distance(n, t) < Distance(cur, t)
  BY <1>1, <1>6, <1>7, NextIsOnTheWay
<1> QED
  BY <1>6, <1>8

\* For every table size: a tick brings the CPU nearer to every runnable task
\* that waits, in the order of the slots, and never past it.
THEOREM TickApproachesWaiterCorrect == Spec => TickApproachesWaiter
<1>1. ShapeInv =>
        [Tick => \A t \in Slots :
           tasks[t].state = Runnable /\ t # cur /\ cur' # t
             => Distance(cur', t) < Distance(cur, t)]_vars
  BY TickApproaches
<1>2. IndInv => ShapeInv
  BY IndShape
<1> QED
  BY <1>1, <1>2, IndCorrect, PTL DEF TickApproachesWaiter

-----------------------------------------------------------------------------
(* The scheduler implements RoundRobin. *)

StateOf(tab) == [t \in Slots |-> tab[t].state]

\* A syscall that leaves CUR alone and changes task states in the permitted
\* ways is a Manage step.
LEMMA ManageStep ==
  ASSUME ShapeInv, ShapeInv', cur' = cur,
         mode \in {"shell", "user"}, mode' \in {"shell", "user"},
         taskCount <= taskCount',
         \A s \in Slots :
           RR!MayBecome(s, tasks[s].state, tasks'[s].state)
  PROVE  RR!Manage
<1>1. \A s \in Slots : tasks'[s].state \in RR!States
  BY DEF ShapeInv, TypeOK, Task, RR!States
<1>2. RR!Slots = Slots
  BY DEF RR!Slots, Slots
<1>3. taskCount' \in taskCount .. MAX_TASKS
  BY DEF ShapeInv, TypeOK
<1>4. \A s \in Slots : tasks'[s].state # "free" <=> s < taskCount'
  BY DEF ShapeInv, TableShape
<1> QED
  BY <1>1, <1>2, <1>3, <1>4 DEF RR!Manage

LEMMA SpawnChange ==
  ASSUME NEW tab \in [Slots -> Task], NEW count \in 0 .. MAX_TASKS,
         NEW i \in Slots, NEW k, NEW asOk,
         Spawn(tab, count, i, k, asOk)
  PROVE  /\ \A s \in Slots : tasks'[s].state = IF s = i THEN Runnable
                                                        ELSE tab[s].state
         /\ count <= taskCount'
BY DEF Spawn, SpawnedTask, FreeTask, CountAfter, Slots

LEMMA IsNextMapped ==
  ASSUME NEW tab, NEW n \in Slots, taskCount \in 0 .. MAX_TASKS
  PROVE  IsNext(tab, n) <=> RR!IsNext(StateOf(tab), cur, n)
<1>1. \A s \in 0 .. taskCount - 1 : s \in Slots
  BY DEF Slots
<1>2. \A s \in Slots : StateOf(tab)[s] = tab[s].state
  BY DEF StateOf
<1>3. \A s : Distance(cur, s) = RR!Distance(cur, s)
  BY DEF Distance, RR!Distance
<1> QED
  BY <1>1, <1>2, <1>3 DEF IsNext, RR!IsNext

LEMMA ParentChange ==
  ASSUME ShapeInv, NEW dom
  PROVE  /\ \A s \in Slots : WithParent(dom)[s].state =
                               IF taskCount = 0 /\ s = 0 THEN Runnable
                                                         ELSE tasks[s].state
         /\ taskCount <= Registered
BY DEF WithParent, RegisteredTask, FreeTask, Registered, ShapeInv, TypeOK,
       Slots

LEMMA RefinementStep ==
  ASSUME ShapeInv, [Next]_vars, ShapeInv'
  PROVE  [RR!Next]_(RR!vars)
<1>t. /\ tasks \in [Slots -> Task] /\ tasks' \in [Slots -> Task]
      /\ taskCount \in 0 .. MAX_TASKS /\ cur \in Slots
      /\ tasks[cur].state # Suspended
      /\ \A s \in Slots : tasks[s].state \in {Free, Runnable, Suspended, Dead}
      /\ \A s \in Slots : tasks[s].state # Free <=> s < taskCount
  BY DEF ShapeInv, TypeOK, TableShape, Task
<1>s. RR!Slots = Slots
  BY DEF RR!Slots, Slots
<1>1. CASE Tick
  <2>1. \A t \in Slots : tasks'[t].state = tasks[t].state
    BY <1>1, <1>t DEF Tick, AfterSignal, Task
  <2>2. /\ mode = "user" /\ UNCHANGED <<taskCount, mode>>
        /\ StateOf(tasks') = StateOf(tasks)
    BY <1>1, <2>1 DEF Tick, StateOf
  <2>3. CASE taskCount < 2
    <3>1. cur' = cur
      BY <1>1, <2>3 DEF Tick, StayOn
    <3>2. ~(\E n \in Slots \ {cur} : RR!IsNext(StateOf(tasks), cur, n))
      BY <1>t, <2>3 DEF RR!IsNext, ShapeInv, TableShape, Slots
    <3> QED
      BY <1>s, <2>2, <3>1, <3>2 DEF RR!Next, RR!Rotate, StateOf
  <2>4. CASE taskCount >= 2
    <3>1. \/ \E n \in Slots \ {cur} : IsNext(tasks', n) /\ cur' = n
          \/ ~(\E n \in Slots \ {cur} : IsNext(tasks', n)) /\ cur' = cur
      BY <1>1, <1>t, <2>4 DEF Tick, SwitchTo, StayOn
    <3>2. \A n \in Slots : IsNext(tasks', n)
                             <=> RR!IsNext(StateOf(tasks), cur, n)
      BY <1>t, <2>2, IsNextMapped
    <3> QED
      BY <1>s, <2>2, <3>1, <3>2 DEF RR!Next, RR!Rotate, StateOf
  <2> QED
    BY <1>t, <2>3, <2>4
<1>2. CASE DemandZero
  BY <1>2 DEF DemandZero, StayOn, RR!vars
<1>3. ASSUME NEW byFault \in BOOLEAN, Terminate(byFault)
      PROVE  [RR!Next]_(RR!vars)
  <2>1. CASE taskCount < 2
    <3>1. /\ mode = "user" /\ mode' = "halted" /\ tasks' = tasks
          /\ cur' = cur /\ taskCount' = taskCount
      BY <1>3, <1>t, <2>1 DEF Terminate, Halt
    <3> QED
      BY <1>s, <3>1 DEF RR!Next, RR!Crash
  <2>2. CASE taskCount >= 2
    <3>1. StateOf(tasks') = [StateOf(tasks) EXCEPT ![cur] = "dead"]
      <4>1. \A t \in Slots :
              tasks'[t].state = IF t = cur THEN "dead" ELSE tasks[t].state
        BY <1>3, <1>t, <2>2 DEF Terminate, Task
      <4> QED
        BY <4>1 DEF StateOf
    <3>2. /\ mode = "user" /\ taskCount' = taskCount
          /\ \/ /\ \E n \in Slots : IsNext(tasks', n) /\ cur' = n
                /\ mode' = mode
             \/ mode' = "halted" /\ cur' = cur
      BY <1>3, <1>t, <2>2 DEF Terminate, SwitchTo, Halt
    <3>3. \A n \in Slots : IsNext(tasks', n)
                             <=> RR!IsNext(StateOf(tasks'), cur, n)
      BY <1>t, IsNextMapped
    <3> QED
      BY <1>s, <3>1, <3>2, <3>3 DEF RR!Next, RR!Crash, StateOf
  <2> QED
    BY <1>t, <2>1, <2>2
<1>4. ASSUME NEW asOk \in BOOLEAN, Fork(asOk)
      PROVE  RR!Manage
  <2>1. /\ WithParent(0) \in [Slots -> Task]
        /\ Registered \in 0 .. MAX_TASKS
        /\ 0 \in Domains
    BY ParentType DEF ShapeInv
  <2>a. /\ \A s \in Slots : \/ WithParent(0)[s].state = tasks[s].state
                            \/ /\ tasks[s].state = Free
                               /\ WithParent(0)[s].state = Runnable
        /\ taskCount <= Registered /\ taskCount' \in Nat
    <3>1. taskCount = 0 => \A s \in Slots : tasks[s].state = Free
      BY <1>t DEF Slots
    <3>2. taskCount' \in Nat
      BY DEF ShapeInv, TypeOK
    <3> QED
      BY <3>1, <3>2, ParentChange
  <2>2. /\ \A s \in Slots : tasks'[s].state = tasks[s].state
                            \/ /\ tasks[s].state = Free
                               /\ tasks'[s].state = Runnable
        /\ taskCount <= taskCount'
    <3>1. CASE HasSlot(Registered) /\ asOk
      <4>1. Registered \in Slots
        BY <2>1, <3>1 DEF HasSlot, Slots
      <4>2. Spawn(WithParent(0), Registered, Registered, ForkStack, TRUE)
        BY <1>4, <3>1 DEF Fork
      <4>3. tasks[Registered].state = Free
        BY <1>t, <2>1, <4>1 DEF Registered, Slots
      <4>4. /\ \A s \in Slots : tasks'[s].state =
                 IF s = Registered THEN Runnable ELSE WithParent(0)[s].state
            /\ Registered <= taskCount'
        BY <2>1, <4>1, <4>2, SpawnChange
      <4> QED
        BY <1>t, <2>1, <2>a, <4>3, <4>4
    <3>2. CASE ~(HasSlot(Registered) /\ asOk)
      <4>1. tasks' = WithParent(0) /\ taskCount' = Registered
        BY <1>4, <3>2 DEF Fork, Register
      <4> QED
        BY <1>t, <2>1, <2>a, <4>1
    <3> QED
      BY <3>1, <3>2
  <2>3. cur' = cur /\ mode = "user" /\ mode' = mode
    BY <1>4 DEF Fork
  <2> QED
    BY <2>2, <2>3, ManageStep DEF RR!MayBecome
<1>5. ASSUME NEW asOk \in BOOLEAN, ExecSpawn(asOk)
      PROVE  RR!Manage
  <2>1. /\ WithParent(boundDomain) \in [Slots -> Task]
        /\ Registered \in 0 .. MAX_TASKS
    BY ParentType DEF ShapeInv, TypeOK
  <2>a. /\ \A s \in Slots :
             \/ WithParent(boundDomain)[s].state = tasks[s].state
             \/ /\ tasks[s].state = Free
                /\ WithParent(boundDomain)[s].state = Runnable
        /\ taskCount <= Registered /\ taskCount' \in Nat
    BY <1>t, ParentChange DEF ShapeInv, TypeOK, Slots
  <2>2. PICK i \in 0 .. MAX_TASKS :
          /\ FirstOr(Aux(Dead), Registered, i)
          /\ IF HasSlot(i)
             THEN Spawn(WithParent(boundDomain), Registered, i, AuxStack, asOk)
             ELSE Register(boundDomain)
    BY <1>5 DEF ExecSpawn
  <2>3. /\ \A s \in Slots : tasks'[s].state = tasks[s].state
                            \/ /\ tasks[s].state \in {Free, Dead}
                               /\ tasks'[s].state = Runnable
        /\ taskCount <= taskCount'
    <3>1. CASE HasSlot(i)
      <4>1. i \in Slots
        BY <3>1 DEF HasSlot, Slots
      <4>2. tasks[i].state \in {Free, Dead}
        BY <1>t, <2>1, <2>2, <4>1 DEF FirstOr, Aux, Registered, Slots
      <4>3. /\ \A s \in Slots : tasks'[s].state =
                 IF s = i THEN Runnable
                 ELSE WithParent(boundDomain)[s].state
            /\ Registered <= taskCount'
        BY <2>1, <2>2, <3>1, <4>1, SpawnChange
      <4> QED
        BY <1>t, <2>1, <2>a, <4>2, <4>3
    <3>2. CASE ~HasSlot(i)
      <4>1. tasks' = WithParent(boundDomain) /\ taskCount' = Registered
        BY <2>2, <3>2 DEF Register
      <4> QED
        BY <1>t, <2>1, <2>a, <4>1
    <3> QED
      BY <3>1, <3>2
  <2>4. cur' = cur /\ mode = "user" /\ mode' = mode
    BY <1>5 DEF ExecSpawn
  <2> QED
    BY <2>3, <2>4, ManageStep DEF RR!MayBecome
<1>6. ASSUME NEW loadOk \in BOOLEAN, NEW asOk \in BOOLEAN,
             DeskLaunch(loadOk, asOk)
      PROVE  RR!Manage
  <2> DEFINE tab  == Killed(ttyTask)
             dead == {t \in Slots : taskCount > 0 /\ tab[t].state = Dead}
  <2>1. /\ tab \in [Slots -> Task]
        /\ \A s \in Slots :
             \/ tab[s].state = tasks[s].state
             \/ tasks[s].state = Runnable /\ tab[s].state = Dead
    BY <1>t, KilledType DEF ShapeInv, Killed, Task
  <2>2. PICK i \in 0 .. MAX_TASKS :
          /\ FirstOr(dead, taskCount, i)
          /\ IF loadOk /\ HasSlot(i)
             THEN Spawn(tab, taskCount, i, WindowStack, asOk)
             ELSE tasks' = tab /\ UNCHANGED taskCount
    BY <1>6 DEF DeskLaunch
  <2>3. i \in Slots => tasks[i].state \in {Free, Dead, Runnable}
    BY <1>t, <2>1, <2>2 DEF FirstOr, Slots
  <2> HIDE DEF tab, dead
  <2>4. /\ \A s \in Slots :
             \/ tasks'[s].state = tasks[s].state
             \/ /\ tasks[s].state \in {Free, Dead}
                /\ tasks'[s].state = Runnable
             \/ /\ tasks[s].state = Runnable
                /\ tasks'[s].state = Dead
        /\ taskCount <= taskCount'
    <3>1. CASE loadOk /\ HasSlot(i)
      <4>1. i \in Slots
        BY <3>1 DEF HasSlot, Slots
      <4> QED
        BY <1>t, <2>1, <2>2, <2>3, <3>1, <4>1, SpawnChange
    <3>2. CASE ~(loadOk /\ HasSlot(i))
      BY <1>t, <2>1, <2>2, <3>2
    <3> QED
      BY <3>1, <3>2
  <2>5. cur' = cur /\ mode = "user" /\ mode' = mode
    BY <1>6 DEF DeskLaunch
  <2> QED
    BY <2>4, <2>5, ManageStep DEF RR!MayBecome
<1>7. ASSUME \E t \in Slots : KillTask(t) \/ TaskSuspend(t) \/ TaskResume(t)
      PROVE  RR!Manage
  <2>1. /\ \A s \in Slots : RR!MayBecome(s, tasks[s].state, tasks'[s].state)
        /\ cur' = cur /\ mode = "user" /\ mode' = mode
        /\ taskCount <= taskCount'
    BY <1>7, <1>t DEF KillTask, TaskSuspend, TaskResume, Killed, cpuVars,
                      RR!MayBecome, Task
  <2> QED
    BY <2>1, ManageStep
<1>8. ASSUME \/ \E d \in Domains : SetCurrentDomain(d)
             \/ \E h \in Handlers \cup {0} : SigSet(h)
             \/ \E t \in Slots : SigKill(t) \/ SigRet(t)
      PROVE  UNCHANGED RR!vars
  <2>1. \A s \in Slots : tasks'[s].state = tasks[s].state
    BY <1>8, <1>t DEF SetCurrentDomain, SigSet, SigKill, SigRet, Task
  <2> QED
    BY <1>8, <2>1 DEF SetCurrentDomain, SigSet, SigKill, SigRet, cpuVars,
                      RR!vars
<1>9. ASSUME ExitToShell
      PROVE  RR!Manage
  <2>1. /\ \A s \in Slots : RR!MayBecome(s, tasks[s].state, tasks'[s].state)
        /\ cur' = cur /\ mode = "user" /\ mode' = "shell"
        /\ taskCount <= taskCount'
    BY <1>9, <1>t DEF ExitToShell, tableVars, RR!MayBecome
  <2> QED
    BY <2>1, ManageStep
<1>10. ASSUME NEW threads \in BOOLEAN, NEW asA \in BOOLEAN,
              NEW asB \in BOOLEAN, OsRun(threads, asA, asB)
       PROVE  RR!Manage
  <2>1. /\ mode = "shell" /\ mode' = "user" /\ taskCount <= taskCount'
    BY <1>10, <1>t DEF OsRun
  <2>2. cur' = cur
    BY <1>10, <1>t DEF OsRun, ShapeInv, TableShape, Slots
  <2>3. \A s \in Slots : tasks'[s].state = tasks[s].state
                         \/ /\ tasks[s].state = Free
                            /\ tasks'[s].state = Runnable
    <3>1. taskCount = 0 => \A s \in Slots : tasks[s].state = Free
      BY <1>t DEF Slots
    <3>2. /\ SpawnedTask(0, ThreadAStack, asA).state = Runnable
          /\ SpawnedTask(1, ThreadBStack, asB).state = Runnable
          /\ RegisteredTask(0).state = Runnable
      BY DEF SpawnedTask, RegisteredTask, FreeTask
    <3>3. \/ tasks' = tasks
          \/ /\ taskCount = 0
             /\ tasks' = [tasks EXCEPT ![0] = SpawnedTask(0, ThreadAStack, asA),
                                       ![1] = SpawnedTask(1, ThreadBStack, asB)]
          \/ taskCount = 0 /\ tasks' = [tasks EXCEPT ![0] = RegisteredTask(0)]
      BY <1>10 DEF OsRun
    <3> QED
      BY <1>t, <3>1, <3>2, <3>3
  <2> QED
    BY <2>1, <2>2, <2>3, ManageStep DEF RR!MayBecome
<1>11. CASE UNCHANGED vars
  BY <1>11 DEF vars, tableVars, cpuVars, RR!vars
<1>12. SigTargets \subseteq Slots /\ AsOutcomes \subseteq BOOLEAN
  BY DEF Slots
<1>13. ASSUME RR!Manage \/ UNCHANGED RR!vars
       PROVE  [RR!Next]_(RR!vars)
  <2>1. CASE RR!Manage
    BY <2>1 DEF RR!Next
  <2>2. CASE UNCHANGED RR!vars
    BY <2>2
  <2> QED
    BY <1>13, <2>1, <2>2
<1> QED
  BY <1>1, <1>2, <1>3, <1>4, <1>5, <1>6, <1>7, <1>8, <1>9, <1>10, <1>11,
     <1>12, <1>13 DEF Next

\* For every table size the scheduler implements round robin: CUR only moves
\* by a tick or a crash, then always to the first runnable slot after it,
\* and task states change only along the permitted edges.
THEOREM RoundRobinImplemented == Spec => ImplementsRoundRobin
<1>1. Init => ShapeInv /\ RR!Init
  BY TypeInit
     DEF Init, ShapeInv, TableShape, FreeTask, Slots, RR!Init, RR!Slots
<1>2. ShapeInv /\ [Next]_vars => ShapeInv'
  BY ShapeStep
<1>3. ShapeInv /\ ShapeInv' /\ [Next]_vars => [RR!Next]_(RR!vars)
  BY RefinementStep
<1> QED
  BY <1>1, <1>2, <1>3, PTL DEF Spec, ImplementsRoundRobin, RR!Spec
=============================================================================

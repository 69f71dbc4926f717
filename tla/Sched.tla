------------------------------- MODULE Sched -------------------------------
(***************************************************************************)
(* The preemptive round-robin scheduler of kernel/src/sched.rs, with the   *)
(* interrupt stubs of interrupts.rs that save and restore user contexts.   *)
(*                                                                         *)
(* Syscalls run with interrupts masked (SFMASK clears IF), so each syscall *)
(* is one step; the PIT interrupt, page faults and CPU exceptions are      *)
(* steps of their own, taken between any two syscalls of the running task. *)
(*                                                                         *)
(* A user context is saved on a kernel stack.  Every stack is modelled by  *)
(* the one frame at its top: whose context it is and at which offset it    *)
(* was written, because the frame a spawn builds, the frame the PIT stub   *)
(* pushes and the frame of a page fault (with its error code) overlap at   *)
(* different offsets.                                                      *)
(***************************************************************************)
EXTENDS Integers, FiniteSets

CONSTANTS MAX_TASKS,   \* slots of the task table (8 in the kernel)
          Domains,     \* capability-domain ids a task may bind to
          Handlers,    \* user addresses a program registers as handler
          SigTargets,  \* task ids that programs send signals to
          AsOutcomes   \* whether as_create finds its frames, of {TRUE, FALSE}

ASSUME MaxTasksAssumption == MAX_TASKS \in Nat /\ MAX_TASKS >= 2
ASSUME DomainsAssumption  == Domains \subseteq Nat /\ 0 \in Domains
ASSUME HandlersAssumption == Handlers \subseteq Nat \ {0}
ASSUME OutcomesAssumption == AsOutcomes \subseteq BOOLEAN
ASSUME TargetsAssumption  == SigTargets \subseteq 0 .. MAX_TASKS - 1

Slots == 0 .. MAX_TASKS - 1

(***************************************************************************)
(* Kernel stacks, named by their top address.  BootStack is where the      *)
(* interrupts of an unregistered (implicit) task land.                     *)
(***************************************************************************)
BootStack    == "0x300000"
ThreadAStack == "0x2C0000"
ThreadBStack == "0x280000"
MainStack    == "0x380000"   \* fork parent, proxy, implicit task, window
ForkStack    == "0x340000"   \* fork child; window program in proxy mode
AuxStack     == "0x3C0000"   \* cap_exec LAUNCH
TaskStacks   == {ThreadAStack, ThreadBStack, MainStack, ForkStack, AuxStack}
KStacks      == TaskStacks \cup {BootStack}

Free      == "free"
Runnable  == "runnable"
Suspended == "suspended"
Dead      == "dead"

Nobody   == -1               \* no frame written / a context that is garbage
SystemAS == -1               \* the boot page tables (cr3 = 0 in the table)

Offsets == {"init", "irq", "pf"}
Frame   == [owner : Slots \cup {Nobody}, at : Offsets]
Pointer == [stack : KStacks, at : Offsets] \* saved_rsp
Null    == [stack |-> BootStack, at |-> "pf"]  \* saved_rsp = 0, no frame

Task == [state : {Free, Runnable, Suspended, Dead},
         kstack : KStacks, saved : Pointer,
         handler : Handlers \cup {0}, pending : BOOLEAN, active : BOOLEAN,
         domain : Domains, cr3 : Slots \cup {SystemAS}]

VARIABLES
  tasks,        \* TASKS
  taskCount,    \* TASK_COUNT
  cur,          \* CUR
  boundDomain,  \* BOUND_DOMAIN, the domain of the implicit task
  proxyMode,    \* PROXY_MODE
  ttyTask,      \* desk.rs TTY_PID - 1: slot of the window program, or -1
  rsp0,         \* TSS.rsp0: the stack of user-mode interrupts
  cr3,          \* the loaded address space
  nextRsp,      \* sched_next_rsp
  pfMustSwitch, \* pf_must_switch
  stacks,       \* the frame at the top of every kernel stack
  mode,         \* "shell", "user" or "halted"
  running,      \* whose user context the CPU really executes
  broken        \* history: a stack in use was taken or a stale switch taken

tableVars == <<tasks, taskCount, cur, boundDomain, ttyTask>>
cpuVars   == <<rsp0, cr3, nextRsp, pfMustSwitch, stacks, mode, running>>
vars      == <<tableVars, proxyMode, cpuVars, broken>>

FreeTask == [state |-> Free, kstack |-> BootStack, saved |-> Null,
             handler |-> 0, pending |-> FALSE, active |-> FALSE,
             domain |-> 0, cr3 |-> SystemAS]

\* A task that was running before it got a table entry: no frame is built,
\* the first user-mode tick overwrites saved_rsp.
RegisteredTask(dom) ==
  [FreeTask EXCEPT !.state = Runnable, !.kstack = MainStack, !.domain = dom]

\* spawn / spawn_at: an initial frame at the top of stack k; the private
\* page tables are skipped when as_create is out of frames.
SpawnedTask(i, k, asOk) ==
  [FreeTask EXCEPT !.state = Runnable, !.kstack = k,
                   !.saved = [stack |-> k, at |-> "init"],
                   !.cr3 = IF asOk THEN i ELSE SystemAS]

\* No context that anybody waits for: never written, or already resumed.
Empty == [owner |-> Nobody, at |-> "init"]

InitialFrame(i) == [owner |-> i, at |-> "init"]

Live(t) == tasks[t].state \in {Runnable, Suspended}

\* The slot i is the running task's own, or the stack k holds a context that
\* is still needed or takes the running task's interrupts.
Clobbers(tab, i, k) ==
  \/ i = cur
  \/ \E t \in Slots : /\ t = cur \/ tab[t].state \in {Runnable, Suspended}
                      /\ tab[t].kstack = k

HasSlotOffByOne(i) == i <= MAX_TASKS

\* The table-full checks of spawn, fork_current, spawn_single, exec_spawn.
HasSlot(i) == i < MAX_TASKS

CountAfterStrict(i, count) == IF i > count THEN i + 1 ELSE count

\* TASK_COUNT after spawn_at(i): it only grows.
CountAfter(i, count) == IF i >= count THEN i + 1 ELSE count

-----------------------------------------------------------------------------
(* Choosing and loading the next task. *)

\* How many places after c the scan that starts at c + 1 reaches slot n.
Distance(c, n) == IF n > c THEN n - c ELSE n + taskCount - c

IsNextNoScan(tab, n) ==
  /\ n = (cur + 1) % taskCount
  /\ tab[n].state = Runnable

IsNextLowest(tab, n) ==
  /\ n < taskCount /\ tab[n].state = Runnable
  /\ \A s \in 0 .. taskCount - 1 :
       s # cur /\ tab[s].state = Runnable => n <= s

IsNextFromZero(tab, n) ==
  /\ n < taskCount /\ tab[n].state = Runnable
  /\ \A s \in 0 .. taskCount - 1 : tab[s].state = Runnable => n <= s

\* The scan of fujo_tick_sched and terminate_current_and_next over table
\* tab stops at slot n: the first runnable one after CUR, CUR itself last.
IsNext(tab, n) ==
  /\ n < taskCount /\ tab[n].state = Runnable
  /\ \A s \in 0 .. taskCount - 1 :
       tab[s].state = Runnable => Distance(cur, n) <= Distance(cur, s)

\* What popping a frame from pointer p makes the CPU execute.
Restore(stks, p) == IF stks[p.stack].at = p.at THEN stks[p.stack].owner
                                               ELSE Nobody

Pushed(at) == [stacks EXCEPT ![rsp0] = [owner |-> running, at |-> at]]

SwitchToKeepRsp0(tab, at, n) ==
  LET p == tab[n].saved
  IN  /\ cur' = n
      /\ nextRsp' = p
      /\ cr3' = tab[n].cr3
      /\ running' = Restore(Pushed(at), p)
      /\ stacks' = [Pushed(at) EXCEPT ![p.stack] = Empty]
      /\ UNCHANGED rsp0

SwitchToKeepCr3(tab, at, n) ==
  LET p == tab[n].saved
  IN  /\ cur' = n
      /\ nextRsp' = p
      /\ rsp0' = tab[n].kstack
      /\ running' = Restore(Pushed(at), p)
      /\ stacks' = [Pushed(at) EXCEPT ![p.stack] = Empty]
      /\ UNCHANGED cr3

\* A user-mode interrupt pushed the running context on rsp0's stack; CUR,
\* rsp0, CR3 and the stub's stack pointer move to task n, whose frame the
\* stub pops.
SwitchTo(tab, at, n) ==
  LET p == tab[n].saved
  IN  /\ cur' = n
      /\ nextRsp' = p
      /\ rsp0' = tab[n].kstack
      /\ cr3' = tab[n].cr3
      /\ running' = Restore(Pushed(at), p)
      /\ stacks' = [Pushed(at) EXCEPT ![p.stack] = Empty]

\* The interrupt returns to the code it interrupted.
StayOn == /\ stacks' = [stacks EXCEPT ![rsp0] = Empty]
          /\ UNCHANGED <<cur, nextRsp, rsp0, cr3, running>>

\* No survivor: the stub never returns.
Halt(at) == /\ mode' = "halted"
            /\ stacks' = Pushed(at)
            /\ UNCHANGED <<cur, nextRsp, rsp0, cr3, running,
                           pfMustSwitch>>

-----------------------------------------------------------------------------
(* Interrupts. *)

\* maybe_deliver_signal.
SignalDue(t) == /\ t < taskCount
                /\ tasks[t].pending /\ ~tasks[t].active
                /\ tasks[t].handler # 0

AfterSignalStillPending(t) ==
  IF SignalDue(t) THEN [tasks EXCEPT ![t].active = TRUE] ELSE tasks

AfterSignal(t) == IF SignalDue(t)
                  THEN [tasks EXCEPT ![t].pending = FALSE, ![t].active = TRUE]
                  ELSE tasks

\* fujo_pit_stub + fujo_tick_sched; a tick in kernel mode changes nothing.
Tick ==
  /\ mode = "user"
  /\ IF taskCount < 2
     THEN tasks' = AfterSignal(cur) /\ StayOn
     ELSE /\ tasks' = [AfterSignal(cur) EXCEPT
                         ![cur].saved = [stack |-> rsp0, at |-> "irq"]]
          /\ \/ \E n \in Slots \ {cur} :
                  IsNext(tasks', n) /\ SwitchTo(tasks', "irq", n)
             \/ ~(\E n \in Slots \ {cur} : IsNext(tasks', n)) /\ StayOn
  /\ UNCHANGED <<taskCount, boundDomain, ttyTask, proxyMode, pfMustSwitch,
                 mode, broken>>

\* A page fault in the heap that demand_zero or wmap_fault resolves.  The
\* stub then looks at pf_must_switch, whoever set it.
DemandZero ==
  /\ mode = "user"
  /\ IF pfMustSwitch
     THEN /\ running' = Restore(Pushed("pf"), nextRsp)
          /\ stacks' = [Pushed("pf") EXCEPT ![nextRsp.stack] = Empty]
          /\ UNCHANGED <<cur, nextRsp, rsp0, cr3>>
     ELSE StayOn
  /\ pfMustSwitch' = FALSE
  /\ broken' = (broken \/ pfMustSwitch)
  /\ UNCHANGED <<tasks, taskCount, boundDomain, ttyTask, proxyMode, mode>>

\* terminate_current_and_next, reached from a fatal user page fault
\* (byFault) or from fujo_exc2.  Only the page-fault stub clears the flag.
Terminate(byFault) ==
  /\ mode = "user"
  /\ LET at == IF byFault THEN "pf" ELSE "irq"
     IN  \/ taskCount < 2 /\ UNCHANGED tasks /\ Halt(at)
         \/ /\ taskCount >= 2
            /\ tasks' = [tasks EXCEPT ![cur].state = Dead]
            /\ \/ /\ \E n \in Slots : /\ IsNext(tasks', n)
                                      /\ SwitchTo(tasks', at, n)
                  /\ pfMustSwitch' = ~byFault
                  /\ UNCHANGED mode
               \/ ~(\E n \in Slots : IsNext(tasks', n)) /\ Halt(at)
  /\ UNCHANGED <<taskCount, boundDomain, ttyTask, proxyMode, broken>>

-----------------------------------------------------------------------------
(* Syscalls that create tasks. *)

\* The implicit task gets a table entry before the first other task is made.
WithParent(dom) == IF taskCount = 0
                   THEN [tasks EXCEPT ![0] = RegisteredTask(dom)]
                   ELSE tasks

Registered == IF taskCount = 0 THEN 1 ELSE taskCount

Register(dom) == /\ tasks' = WithParent(dom)
                 /\ taskCount' = Registered
                 /\ UNCHANGED <<stacks, broken>>

\* spawn / spawn_at into slot i of table tab, with count slots in use.
Spawn(tab, count, i, k, asOk) ==
  /\ tasks' = [tab EXCEPT ![i] = SpawnedTask(i, k, asOk)]
  /\ taskCount' = CountAfter(i, count)
  /\ stacks' = [stacks EXCEPT ![k] = InitialFrame(i)]
  /\ broken' = (broken \/ Clobbers(tab, i, k))

\* Slot i is the first of the set, or the fallback if the set is empty.
FirstOr(set, fallback, i) == \/ set = {} /\ i = fallback
                             \/ i \in set /\ \A j \in set : i <= j

\* fork_current; the parent stays registered also when the child fails.
Fork(asOk) ==
  /\ mode = "user"
  /\ HasSlot(taskCount)
  /\ rsp0' = IF taskCount = 0 THEN MainStack ELSE rsp0
  /\ IF HasSlot(Registered) /\ asOk
     THEN Spawn(WithParent(0), Registered, Registered, ForkStack, TRUE)
     ELSE Register(0)
  /\ UNCHANGED <<cur, boundDomain, ttyTask, proxyMode, cr3, nextRsp,
                 pfMustSwitch, mode, running>>

\* Slots whose task uses the stack of LAUNCH and is in state st.
Aux(st) == {t \in Slots : tasks[t].kstack = AuxStack /\ tasks[t].state = st}

\* exec_spawn, the LAUNCH action of cap_exec.
ExecSpawn(asOk) ==
  /\ mode = "user"
  /\ Aux(Runnable) = {}
  /\ rsp0' = IF taskCount = 0 THEN MainStack ELSE rsp0
  /\ \E i \in 0 .. MAX_TASKS :
       /\ FirstOr(Aux(Dead), Registered, i)
       /\ IF HasSlot(i)
          THEN Spawn(WithParent(boundDomain), Registered, i, AuxStack, asOk)
          ELSE Register(boundDomain)
  /\ UNCHANGED <<cur, boundDomain, ttyTask, proxyMode, cr3, nextRsp,
                 pfMustSwitch, mode, running>>

\* kill_task.
Killed(t) == IF t \in Slots /\ tasks[t].state = Runnable
             THEN [tasks EXCEPT ![t].state = Dead]
             ELSE tasks

\* The stack of a window program in spawn_single.
WindowStack == IF proxyMode THEN ForkStack ELSE MainStack

\* desk_launch (0x5B10): kill_program, load the ELF, spawn_single.
DeskLaunch(loadOk, asOk) ==
  /\ mode = "user"
  /\ LET tab  == Killed(ttyTask)
         dead == {t \in Slots : taskCount > 0 /\ tab[t].state = Dead}
     IN  \E i \in 0 .. MAX_TASKS :
           /\ FirstOr(dead, taskCount, i)
           /\ IF loadOk /\ HasSlot(i)
              THEN /\ Spawn(tab, taskCount, i, WindowStack, asOk)
                   /\ rsp0' = IF taskCount = 0 THEN WindowStack ELSE rsp0
                   /\ ttyTask' = i
              ELSE /\ tasks' = tab
                   /\ ttyTask' = -1
                   /\ UNCHANGED <<taskCount, stacks, rsp0, broken>>
  /\ UNCHANGED <<cur, boundDomain, proxyMode, cr3, nextRsp, pfMustSwitch,
                 mode, running>>

-----------------------------------------------------------------------------
(* Syscalls on existing tasks. *)

KillTask(t) ==
  /\ mode = "user"
  /\ tasks[t].state = Runnable
  /\ tasks' = Killed(t)
  /\ UNCHANGED <<taskCount, cur, boundDomain, ttyTask, proxyMode, cpuVars,
                 broken>>

TaskSuspendCurrent(t) ==
  /\ mode = "user"
  /\ tasks[t].state = Runnable
  /\ tasks' = [tasks EXCEPT ![t].state = Suspended]
  /\ UNCHANGED <<taskCount, cur, boundDomain, ttyTask, proxyMode, cpuVars,
                 broken>>

TaskSuspend(t) ==
  /\ mode = "user"
  /\ tasks[t].state = Runnable /\ t # cur
  /\ tasks' = [tasks EXCEPT ![t].state = Suspended]
  /\ UNCHANGED <<taskCount, cur, boundDomain, ttyTask, proxyMode, cpuVars,
                 broken>>

TaskResume(t) ==
  /\ mode = "user"
  /\ tasks[t].state = Suspended
  /\ tasks' = [tasks EXCEPT ![t].state = Runnable]
  /\ UNCHANGED <<taskCount, cur, boundDomain, ttyTask, proxyMode, cpuVars,
                 broken>>

\* set_current_domain (0x8108).
SetCurrentDomain(d) ==
  /\ mode = "user"
  /\ IF tasks[cur].state # Free
     THEN tasks' = [tasks EXCEPT ![cur].domain = d] /\ UNCHANGED boundDomain
     ELSE boundDomain' = d /\ UNCHANGED tasks
  /\ UNCHANGED <<taskCount, cur, ttyTask, proxyMode, cpuVars, broken>>

\* fujo_sigset: only a registered task has a place for the handler.
SigSet(h) ==
  /\ mode = "user"
  /\ cur < taskCount
  /\ tasks' = [tasks EXCEPT ![cur].handler = h]
  /\ UNCHANGED <<taskCount, cur, boundDomain, ttyTask, proxyMode, cpuVars,
                 broken>>

\* fujo_sigkill.
SigKill(t) ==
  /\ mode = "user"
  /\ t < taskCount /\ tasks[t].state = Runnable
  /\ tasks' = [tasks EXCEPT ![t].pending = TRUE]
  /\ UNCHANGED <<taskCount, cur, boundDomain, ttyTask, proxyMode, cpuVars,
                 broken>>

\* fujo_sigret.
SigRet(t) ==
  /\ mode = "user"
  /\ t = cur /\ t < taskCount
  /\ tasks' = [tasks EXCEPT ![t].active = FALSE]
  /\ UNCHANGED <<taskCount, cur, boundDomain, ttyTask, proxyMode, cpuVars,
                 broken>>

\* exit / exit_group: back to the shell loop; the table stays as it is.
ExitToShell ==
  /\ mode = "user"
  /\ mode' = "shell"
  /\ UNCHANGED <<tableVars, proxyMode, rsp0, cr3, nextRsp, pfMustSwitch,
                 stacks, running, broken>>

\* `os run ...`: spawn_tasks when threads were asked for, spawn_proxy in
\* proxy mode, both only on an empty table; then iretq to the program.
OsRun(threads, asA, asB) ==
  /\ mode = "shell"
  /\ mode' = "user"
  /\ IF taskCount = 0 /\ threads
     THEN /\ tasks' = [tasks EXCEPT ![0] = SpawnedTask(0, ThreadAStack, asA),
                                    ![1] = SpawnedTask(1, ThreadBStack, asB)]
          /\ stacks' = [stacks EXCEPT ![ThreadAStack] = InitialFrame(0),
                                      ![ThreadBStack] = InitialFrame(1)]
          /\ taskCount' = 2
          /\ cur' = 0
          /\ rsp0' = ThreadAStack
          /\ cr3' = tasks'[0].cr3
     ELSE IF taskCount = 0 /\ proxyMode
     THEN /\ tasks' = [tasks EXCEPT ![0] = RegisteredTask(0)]
          /\ taskCount' = 1
          /\ cur' = 0
          /\ rsp0' = MainStack
          /\ UNCHANGED <<stacks, cr3>>
     ELSE UNCHANGED <<tasks, taskCount, cur, rsp0, cr3, stacks>>
  /\ running' = cur'
  /\ UNCHANGED <<boundDomain, ttyTask, proxyMode, nextRsp, pfMustSwitch,
                 broken>>

-----------------------------------------------------------------------------
Init ==
  /\ tasks = [t \in Slots |-> FreeTask]
  /\ taskCount = 0
  /\ cur = 0
  /\ boundDomain = 0
  /\ proxyMode \in BOOLEAN
  /\ ttyTask = -1
  /\ rsp0 = BootStack
  /\ cr3 = SystemAS
  /\ nextRsp = Null
  /\ pfMustSwitch = FALSE
  /\ stacks = [k \in KStacks |-> Empty]
  /\ mode = "shell"
  /\ running = 0
  /\ broken = FALSE

Next ==
  \/ Tick
  \/ DemandZero
  \/ \E byFault \in BOOLEAN : Terminate(byFault)
  \/ \E asOk \in AsOutcomes : Fork(asOk)
  \/ \E asOk \in AsOutcomes : ExecSpawn(asOk)
  \/ \E loadOk \in BOOLEAN, asOk \in AsOutcomes : DeskLaunch(loadOk, asOk)
  \/ \E t \in Slots : KillTask(t)
  \/ \E t \in Slots : TaskSuspend(t)
  \/ \E t \in Slots : TaskResume(t)
  \/ \E d \in Domains : SetCurrentDomain(d)
  \/ \E h \in Handlers \cup {0} : SigSet(h)
  \/ \E t \in SigTargets : SigKill(t)
  \/ \E t \in Slots : SigRet(t)
  \/ ExitToShell
  \/ \E threads \in BOOLEAN, asA, asB \in AsOutcomes : OsRun(threads, asA, asB)

Spec == Init /\ [][Next]_vars

\* The PIT keeps firing and user code runs with interrupts enabled; nothing
\* else is assumed to happen.
FairSpec == Spec /\ WF_vars(Tick)

-----------------------------------------------------------------------------
(* Properties. *)

TypeOK ==
  /\ tasks \in [Slots -> Task]
  /\ taskCount \in 0 .. MAX_TASKS
  /\ cur \in Slots
  /\ boundDomain \in Domains
  /\ proxyMode \in BOOLEAN
  /\ ttyTask \in Slots \cup {-1}
  /\ rsp0 \in KStacks
  /\ cr3 \in Slots \cup {SystemAS}
  /\ nextRsp \in Pointer
  /\ pfMustSwitch \in BOOLEAN
  /\ stacks \in [KStacks -> Frame]
  /\ mode \in {"shell", "user", "halted"}
  /\ running \in Slots \cup {Nobody}
  /\ broken \in BOOLEAN

\* TASK_COUNT is the boundary between used and never-used slots, whatever
\* mix of appending and slot-reviving spawns, kills and crashes happened:
\* the modulo scan of fujo_tick_sched reaches every task there is, and CUR
\* stays inside it.
TableShape ==
  /\ \A t \in Slots : tasks[t].state # Free <=> t < taskCount
  /\ cur < taskCount \/ (cur = 0 /\ taskCount = 0)

\* The context of task t can be resumed: saved_rsp points at a frame on its
\* own stack that nobody overwrote and that was written at this offset.
Resumable(t) == /\ tasks[t].saved.stack = tasks[t].kstack
                /\ stacks[tasks[t].kstack] = [owner |-> t,
                                              at |-> tasks[t].saved.at]

\* "No context is lost" (the header of sched.rs): as long as no spawn took a
\* stack that was in use and no stale pf_must_switch fired, the CPU executes
\* the task that CUR names, and every other task that still has to run finds
\* its own context behind saved_rsp.
ContextIntegrity ==
  ~broken => /\ mode = "user" => running = cur
             /\ \A t \in Slots : Live(t) /\ t # cur => Resumable(t)

\* The stack of the next interrupt and the loaded page tables are those of
\* the task CUR names, through every switch, crash, registration and return
\* through the shell.
CpuCoherence ==
  ~broken /\ taskCount > 0 => /\ rsp0 = tasks[cur].kstack
                              /\ cr3 = tasks[cur].cr3

\* ISOLATE: a task that cap_exec suspended does not execute until RESUME.
IsolatedNotRunning ==
  ~broken /\ mode = "user" => tasks[running].state # Suspended

\* A task that was killed while it ran loses the CPU at the next tick if
\* anybody else can run: a tick never leaves a dead task on the CPU.
NoZombieAfterTick ==
  [][Tick /\ (\E t \in Slots : tasks[t].state = Runnable)
       => tasks[cur'].state = Runnable]_vars

\* No overtaking: a tick that does not give the CPU to a waiting runnable task
\* moves it strictly towards that task and never past it, so whoever is forked
\* or revived meanwhile, a task waits at most one round of the table.
TickApproachesWaiter ==
  [][Tick => \A t \in Slots :
       tasks[t].state = Runnable /\ t # cur /\ cur' # t
         => Distance(cur', t) < Distance(cur, t)]_vars

\* Round robin: the context of a task that stays runnable keeps getting the
\* CPU, whatever the others fork, kill, suspend or crash meanwhile.
NoStarvation ==
  \A t \in Slots :
    <>[](mode = "user" /\ ~broken /\ tasks[t].state = Runnable)
      => []<>(running = t)

\* A signal sent to a task that has a handler and is not inside it is
\* delivered, unless the task stops being runnable or drops the handler.
SignalDelivered ==
  \A t \in Slots :
    tasks[t].pending /\ ~tasks[t].active /\ tasks[t].handler # 0
      ~> \/ ~tasks[t].pending
         \/ tasks[t].handler = 0
         \/ tasks[t].state # Runnable
         \/ mode # "user"
         \/ broken

\* A slot whose context is needed or whose stack takes the next interrupt.
Holds(t) == t < taskCount /\ (t = cur \/ Live(t))

\* The strengthening that makes ContextIntegrity, CpuCoherence and
\* IsolatedNotRunning inductive: stacks in use are pairwise distinct, the
\* task under CUR is never suspended, and before the first registration the
\* boot page tables are loaded.
IndInv ==
  /\ TypeOK
  /\ TableShape
  /\ tasks[cur].state # Suspended
  /\ ContextIntegrity
  /\ CpuCoherence
  /\ ~broken => \A s, t \in Slots :
       Holds(s) /\ Holds(t) /\ s # t => tasks[s].kstack # tasks[t].kstack
  /\ taskCount = 0 => cr3 = SystemAS

RR == INSTANCE RoundRobin
        WITH state <- [t \in Slots |-> tasks[t].state], count <- taskCount

\* The scheduler implements RoundRobin: syscalls, spawns, registrations and
\* returns through the shell never move CUR, and ticks and crashes move it
\* to the next runnable slot.
ImplementsRoundRobin == RR!Spec

\* Bound of the runs: `broken` never resets and the properties above promise
\* nothing after it.
Unbroken == ~broken

-----------------------------------------------------------------------------
(* What comments of the source say and the code does not do. *)

\* sched.rs: every task has a kernel stack of its own.
KernelStacksDistinct ==
  \A s, t \in Slots :
    s # t /\ Live(s) /\ Live(t) => tasks[s].kstack # tasks[t].kstack

\* mem.rs: after a resolved page fault the stub retries the instruction of
\* the task that faulted.
FaultIsRetried == [][DemandZero => running' = running]_vars
=============================================================================

# FujoOS in TLA+

A verification development for the FujoOS kernel (`kernel/src`, Rust, one CPU
core that runs user code).  It consists of TLA+ modules, TLC configurations
that check them on small instances, and TLAPS proofs that hold for every value
of the constants.  `PROJECT.json` lists the components, the runs, the mutants
each property is tested against, the source lines behind every definition,
the hazards and the theorems.

To repeat a result: `tlc -workers 2 -config X.cfg M` for a run,
`tlapm MProofs.tla` for the proofs.

## 1. The system and its parts

FujoOS boots to a kernel shell (`shell.rs`) that loads one program at a time
(`elf_loader.rs`, `pe_loader.rs`, `macho_loader.rs`, `fujr.rs`) and enters it
in ring 3.  A program talks to the kernel through one gate (`syscall.rs`),
which masks interrupts: **a syscall is atomic with respect to every other
task**, except that the waits for the serial model link and the few calls
that execute `sti` see the timer tick (never a task switch, because a tick
that interrupts kernel mode only counts).  Concurrency therefore comes from

* the PIT tick, which may switch tasks between any two user instructions,
* page faults and exceptions of the running task,
* devices and the host behind the second serial port, which answer late,
  twice or not at all,
* power loss between two sector writes.

| part | state | operations | interacts with |
|---|---|---|---|
| scheduler (`sched.rs`, stubs in `interrupts.rs`, `gdt.rs`) | task table, CUR, saved frames on kernel stacks, TSS.rsp0, CR3, `pf_must_switch` | tick, crash isolation, fork, LAUNCH, window programs, kill/suspend/resume, signals, domain binding | memory (address spaces), capability (who may kill), ctx (exit events), desk (window programs) |
| event ring (`ctx.rs`) | 128-slot ring, write and read cursor, mask | push, subscribe, read, statistics | scheduler, window messages and sentinel push; model link reads deltas |
| authority (`capability.rs`, dispatch in `syscall.rs`, trust part of `ai.rs`) | exec slot, domains 1-4, policy values, audit ring, denial counter, quality ledger | grant/check, cap_exec, create/revoke/adjust domain, cfg_set, dom_admit, plan execution, sentinel | scheduler (actions), model link (who proposes) |
| model link (`ai.rs`, `boxbridge.rs`, `serial.rs`) | sequence numbers, shared request page, COM2 line, snapshot, product buffer | classify/anomaly/plan requests, retries, box requests | host model server and box server (external) |
| local file system (`fjfs.rs`, `ata.rs`) | superblock, cluster bitmap, root directory on disk and their RAM copies | format, mount, read, write | ATA driver, VFS |
| page cache (`pcache.rs`) | 16 slots, 4-page disk | get, write, prefetch, flush, evict | system calls only |
| IPC (`ipc.rs`), kernel objects (`kobj.rs`), leak counters (`leak.rs`) | 8 pipes, shared page, handle table | pipe open/read/write/close, shm, sigset, sigkill | scheduler, VFS descriptors |
| memory (`mem.rs`) | frame bitmap, page tables, HEAP_BRK, W+X windows | brk, mmap/munmap, demand zero, as_create, as_copy_heap | scheduler |
| VFS (`vfs.rs`) | memory files, descriptors | open, read, write, seek, getdents, close | fjfs, pipes |
| window messages and desktop (`wmsg.rs`, `desk.rs`, `graphics.rs`, `term.rs`, ...) | message queues, focus, window list | post/get message, launch | scheduler, event ring |
| device drivers (`virtio.rs`, `net.rs`, `ahci.rs`) | requests and buffers in memory shared with the device, positions in its rings | read, write, receive | devices that answer late or not at all |
| input rings (`kbd.rs`, `mouse.rs`, `serial.rs`) | byte rings filled by interrupts | irq handler, poll | shell, syscalls, desktop loop |
| text surfaces (`desk.rs`, `term.rs`, `editor.rs`, `ime.rs`) | lines, cursor, letters | print, feed, key | input rings |
| records (`sessions.rs`, `save.rs`, `clip.rs`, `modelcard.rs`, `modelreg.rs`, `upd.rs`, `installer.rs`, `audio.rs`, call trace) | tables and rings that programs keep in the kernel | store, load, grant, install, update, mix | drive, system calls |
| loaders (`elf_loader.rs`, `pe_loader.rs`, `macho_loader.rs`, `fujr.rs`, `fujopack`) | user memory, mounted resources | pack, check, mount, load | shell, `os run` |
| tool chain (`asm.rs`, `ld.rs`, `fujocc.rs`, `dbg.rs`) | label table, output buffers, breakpoint | assemble, link, compile, break | each uses the one before |
| SMP bring-up and probing (`smp.rs`, `acpi.rs`, ...), fonts, GL, shaders, games, self tests | none that another part depends on | - | - |
| host tools (`fujo-compat`, `fujopack`, `fujorun`, `tools`, `scripts`, `sdk`) | files on the host | pack, verify, serve | container format, model link |

## 2. What makes them correct, and what is hard

* **Scheduler.** Every live task's context must survive until it is resumed,
  CUR, rsp0 and CR3 must name the same task, nobody starves, a killed or
  suspended task stops.  Hard: frames of different layouts share stacks,
  contexts switch inside interrupt stubs, slots and stacks are reused.
* **Event ring.** The reader must get every event of its mask once, in order,
  unless the ring overran; the overrun must drop the oldest.
* **Authority.** No effect without a grant *at the time of the action*,
  revocation that stays, thresholds that keep their order, an audit trail
  without gaps.  Hard: four paths lead to the same effects.
* **Model link.** An answer must belong to the question, also after timeouts
  and retries; a suggestion made obsolete by an event must be discarded; the
  kernel must go on when the host is silent.
* **File system, page cache.** What was written must be read back, also after
  power loss between two writes; a cluster belongs to one file.
* **IPC and objects.** Bytes in order, no descriptor outlives its object.
  Hard: one table for five kinds of descriptor, and a pipe that fails half-way.
* **Memory.** A frame has one owner; what a task frees is free; a space sees its
  own pages.  Hard: fork copies, faults fill and munmap gives back one page at a
  time, over pages that are pinned and a region that may be drawn over them.
* **Devices.** An answer belongs to the request.  Hard: a driver that gives up
  leaves its request with the device.
* **Desktop and console.** No message or key is lost, doubled or reordered; what
  is shown is what was written.  Hard: interrupts between the steps of loops that
  run in the kernel.
* **Records, loaders, tools.** What was accepted can be read back; what was
  refused has no effect; what was built is what was asked for.

## 3. Plan

Order of the modules, most important behaviour first; each has its own section
when it is done.

| module(s) | status | abstract specification | main properties | theorems |
|---|---|---|---|---|
| `RoundRobin`, `Sched`, `SchedProofs` | done | `RoundRobin` | context integrity, coherence of CUR/rsp0/CR3, no starvation | all but the liveness, refinement |
| `EventLog`, `EventRing`, `EventRingProofs` | done | `EventLog` (bounded queue) | ring holds the log, critical count, a read hands out recorded events | all, refinement |
| `Authority`, `AuthorityProofs` | done | - | effects authorised, audit honest, thresholds, ledger | all |
| `ModelLink`, `ModelLinkProofs` | done | - | answers belong to their request, stale advice refused, products whole, ledger complete | all safety properties |
| `Volume`, `Fjfs` | done | `Volume` (map from names to contents) | no cluster in two files, a write is one step, also through power loss | `FormatProofs`: both, and the types |
| `PageCache` | done | - | a block never gets another block's page | `PartsProofs` |
| `DeviceQueues` | done | - | answers belong to their request, frames in order | `PartsProofs` |
| `Files` (pipes, objects, descriptors) | done | uses `Volume`'s map | order, ends counted, no descriptor outlives its pipe | `PartsProofs` |
| `Memory` | done | - | one owner per frame, spaces apart, mappings disjoint | `PartsProofs` |
| `Windows` | done | - | messages in order, rectangles agree with the windows | `PartsProofs` |
| `Console`, `Tables` | done | - | keys in order, text agrees with what was written; accounts and rings honest, one active model, damaged updates marked | `ServicesProofs` |
| `Loaders`, `Toolchain` | done | - | what is packed, loaded, assembled, linked is the program given | `FormatProofs` |
| `MCServices`, `ServicesProofs` | done | - | runs the machines of the ten service modules | all of their properties |
| `LeastNumber` | done | - | least and greatest elements, ranks, recursion over an interval | lemmas |

What would come next: the transmit queue of `net.rs`, the start of window programs in
`mem.rs`, and the arms of the dispatch that copy structures in and out.

Composition: `ModelLink` uses of the event ring only whether a critical event
came since the snapshot, which is what `DeltaExact` of `EventRing` assures, and
feeds the quality ledger that `Authority` models; `Authority` uses the task
states of `Sched`.  The modules are tied by such promises and by shared actions
(ISOLATE, KILL, RESUME, LAUNCH have the same guards in `Sched` and
`Authority`), not by one big module, because the product would hide each behind
the other's states.

The services of section 8 meet in one
run, which interleaves the steps within a machine but not two machines: what one
relies on of another is one of the properties.

Bounds: two or three of everything that is counted (tasks, domains, slots,
clusters, pipes), sequence numbers and pushes up to one lap more than the
structure holds.  Where there is a proof, it covers every size.

## 4. The scheduler: `RoundRobin`, `Sched`, `SchedProofs`

### 4.1 Correspondence

`Sched.tla` has one variable per static of `sched.rs` (`tasks`, `taskCount`,
`cur`, `boundDomain`, `nextRsp`, `pfMustSwitch`), the CPU state that a switch
must keep in step (`rsp0`, `cr3`), and the memory contexts live in: `stacks`
maps every kernel stack to the frame at its top.  A frame is abstracted to
*whose* context it holds and *at which offset* it was written, because the
frame a spawn builds (`"init"`), the frame of the tick stub (`"irq"`) and that
of the page-fault stub with its error code (`"pf"`) have different layouts;
popping a pointer of one kind from a frame of another yields garbage
(`Nobody`).  `running` is the context the CPU really executes, as opposed to
`cur`, the one the kernel thinks it executes.

| action | code |
|---|---|
| `Tick` | `fujo_pit_stub`, `fujo_tick_sched`, `maybe_deliver_signal` |
| `DemandZero` | `fujo_pf_stub` on a fault that `demand_zero`/`wmap_fault` resolves |
| `Terminate(byFault)` | `terminate_current_and_next` from `fujo_pf_stub` (TRUE) or `fujo_exc2` (FALSE) |
| `Fork`, `ExecSpawn`, `DeskLaunch` | `fork_current`, `exec_spawn` (LAUNCH), `launch_program` + `spawn_single` |
| `KillTask`, `TaskSuspend`, `TaskResume` | the three primitives `cap_exec` uses |
| `SetCurrentDomain`, `SigSet`, `SigKill`, `SigRet` | 0x8108 and the signal calls of `ipc.rs` |
| `OsRun`, `ExitToShell` | `spawn_tasks`/`spawn_proxy`/plain entry, and `exit` |

`RoundRobin.tla` is the promise: slots with states, a CPU that a tick hands to
the next runnable slot in cyclic order, a crash that hands it on or halts, and
management steps that never move the CPU.  `Sched!ImplementsRoundRobin`
states the refinement (`state` is the state column of the table).

The history variable `broken` takes part in no decision.  It records that a
spawn took a stack in use or that a stale `pf_must_switch` fired; both are real
(runs `sched_stacks`, `sched_retry`), and after them no context property can
hold, so the safety properties are conditional on `~broken` and the runs stop
exploring behind it (`CONSTRAINT Unbroken`).  The proofs need no such cut.

### 4.2 Runs

| run | instance | shows |
|---|---|---|
| `round_robin` | 5 slots | no starvation under weak fairness of the tick |
| `sched_safety` | 3 slots | types, table shape, context integrity, isolation, no zombie after a tick, no overtaking, refinement of `RoundRobin` |
| `sched_live` | 2 slots, one handler, one signal target, `as_create` may fail | signal delivery and no starvation in the detailed model, rsp0 and CR3 always belong to CUR |
| `sched_stacks`, `sched_retry` | 3 slots | two comments of the source that the code does not keep, each with a short trace |

Bounds.  Three slots let two tasks wait while a third runs, revive a dead slot
between live ones, fill the table and use four of the five task stacks.  Two
slots suffice where the question is about one switch or one waiting task
(`sched_live`); `round_robin` uses five so that the
cyclic distance matters.  Signal handlers and domains do not influence
switching and are left out (`{}`, `{0}`) where no property mentions them.

Fairness.  Only `WF(Tick)` is assumed: the PIT runs at 100 Hz and user mode
runs with interrupts enabled.  No task is assumed to make progress, fault, or
call anything.  `mode = "halted"` is a legal end, hence `CHECK_DEADLOCK FALSE`.

### 4.3 Proofs

`SchedProofs.tla` proves for every `MAX_TASKS >= 2`, every set of domains,
handlers and targets and every answer of `as_create`:

* `TypeCorrect`, `TableShapeCorrect`,
* `ContextIntegrityCorrect`, `CpuCoherenceCorrect`, `IsolationCorrect`,
* `NoZombieAfterTickCorrect` and `TickApproachesWaiterCorrect`, action properties,
* `RoundRobinImplemented`: `Spec => RR!Spec`.

`ContextIntegrity` is not inductive: a switch to a task is only harmless if no
other live task uses its stack, and only finds its frame if `rsp0` was right
when it was saved.  `IndInv` adds that stacks of live tasks and of CUR are
pairwise distinct, that CUR is never suspended, that rsp0 and CR3 agree with
the table, and that the boot page tables are loaded before the first
registration.  `IndCorrect` proves it step by step (one case per action, with
lemmas `SwitchContext`, `SpawnContext`, `StayContext`, `KilledContext` and
`ParentContext` for the shared helpers); the theorems follow.  The refinement
proof maps each action to `Rotate`, `Crash`, `Manage` or a stutter.

That a tick finds a runnable task whenever there is one (`NoZombieAfterTick`)
needs that the modulo scan, whose first hit `IsNext` names, has a first hit:
`ScanFinds` takes the least distance (`Minimum` of `LeastNumber`).  That this hit is
on the way to every other waiting task (`NextIsOnTheWay`) makes the distance of a
waiting task fall with every tick, which is the measure behind `NoStarvation`;
`NoStarvation` and `SignalDelivered` themselves are liveness and stay with TLC.

### 4.4 Where comments and code part

Two divergences have a run: `sched_stacks` (`sched.rs:3`, every task has a
kernel stack of its own, against the constant 0x340000 of every fork) and
`sched_retry` (`mem.rs:942`, a resolved fault is retried, against the
`pf_must_switch` a crash through `fujo_exc2` leaves behind).  The model shows
three more without a run of their own:

* `exec_spawn` counts only runnable tasks as busy (`sched.rs:607`), so LAUNCH,
  ISOLATE, LAUNCH puts two live tasks on the auxiliary stack, against the
  comment of line 601 (single slot, busy means -EBUSY).  It is one more way to
  violate `KernelStacksDistinct`.
* `fork_current` registers the implicit task with domain 0 (`sched.rs:328`)
  and so loses a binding made with 0x8108, which `exec_spawn` takes care to
  keep (`sched.rs:619`).
* `exit` resets MULTI only (`sched.rs:92`); the comment above it speaks of
  clearing the residue, but the finished program's tasks stay runnable and
  share the CPU with the next one.

One is below the model's grain: the tick stub pushes rax, rcx, rdx, rsi, rdi
and r8-r11 (`interrupts.rs:216`), so rbx, rbp and r12-r15 pass from the
interrupted task to the next, although the header of `sched.rs` (lines 4-6)
promises a full save.  A context is one value here.

## 5. The event ring: `EventLog`, `EventRing`, `EventRingProofs`

`EventRing.tla` has the statics of `ctx.rs`: `ring` (EV), `w` (EV_W), `c`
(EV_C), `mask` (EV_SUB), and `batch`, what the last read copied out.  `EvPush`,
`Subscribe` and `CtxEvents` are `ev_push`, `fujo_ctx_subscribe` and
`fujo_ctx_events`; `DeltaCritical` is `ev_delta_critical`, the count the model
link uses to find out that a suggestion came too late.  A push into a full
ring overwrites the oldest slot and moves the reader on; positions grow for
ever, so only the modulo and the distance `w - c` matter.  `log` is a history
of all events.

`EventLog.tla` is the promise: a queue of at most EV_N events, which a push
into a full queue shortens at the front and a read empties from the front.

| run | instance | shows |
|---|---|---|
| `event_ring` | 3 slots, 6 pushes, 2 masks, buffers of 0-2 events | types, `RingHoldsLog`, `DeltaExact`, refinement of `EventLog` |

Three slots and six pushes lap the ring once completely, with the reader at
every distance; a short buffer leaves zero, one or two events behind.

`EventRingProofs.tla` proves `TypeOK`, `RingHoldsLog`, `DeltaExact` and the refinement
of `EventLog` for every ring size, every set of kinds and masks and every number
of pushes.  The inductive
invariant `RingInv` adds the types; the lemma `SlotsDiffer` (two positions
less than EV_N apart have different slots) carries the step of `EvPush`.  The type
of `batch` is the interesting part of `TypeOK`: `InOrder` picks the event of every
rank, which exists (`RankExists` of `LeastNumber`) and whose slot was written
(`RingHoldsLog`).  For the refinement (`EventLogImplemented`) `EventLog` selects the
wanted events of what is left by their rank as well, over a sequence instead of
a ring; a position of the log has the same rank on both sides (`RanksMove`,
`RanksKept` of `LeastNumber`), so that the read of the ring is the read of the
queue, and a push onto a full ring is the queue's loss of its oldest event.

Two comments of `ctx.rs` differ from the code, and both modules state what the
code does.  Line 172 says that a read into a short buffer leaves the rest
unconsumed, but the cursor has passed the event that did not fit (line 169), so
exactly one event is lost, as line 155 concedes.  And the mask test uses
`(kind & 63) - 1` in wrapping arithmetic, so a kind above 64 passes the bit of
a smaller one (kind 65 that of kind 1) while `ev_delta_critical` ignores it.

## 6. Authority and trust: `Authority`, `AuthorityProofs`

### 6.1 Correspondence

Four paths lead to the same effects on tasks, policies and anomalies: a task's
own `cap_exec` (0x8105), the plan executor (0x8305), the sentinel's automatic
isolation (0x8304), and policy texts (0x8307).  `Authority.tla` models all of
them on one state.

| variable | code |
|---|---|
| `exec` | `CAP_GRANT[6]`, `CAP_PERM[6]`: the rights of the system domain |
| `dom` | `DOM[1..4]` |
| `bound`, `cur`, `state`, `aux` | domain column, CUR, state column of the task table, which tasks sit on the auxiliary stack |
| `cfg`, `pending` | `CFG`, `ANOM_PENDING` |
| `ledger` | `QUAL_HIT`, `QUAL_TOTAL`, `QUAL_UP_RUN` of the followed duties |
| `job` | the text an executor loop is working through, and whether an item succeeded |
| `trail` | the entries the last step wrote to the audit ring |

| action | code |
|---|---|
| `CapGrant`, `CapCheck`, `AudLog` | 0x8101, 0x8102, 0x8103 |
| `DomCreate`, `SetCurrentDomain`, `DomRevoke` | 0x8107, 0x8108, 0x8109 |
| `CapExec`, `CapLaunch` | `cap_exec` in `syscall.rs` with `fujo_cap_exec`, `exec_spawn` |
| `IrqConfig` | `fujo_irq_set_window`, `fujo_irq_route` behind `dom_irq_ok` |
| `PlanRun`, `PlanStep`, `NlcSet`, `NlcStep`, `JobEnds` | `fujo_plan_run`, `fujo_nlc_set`: start, one item, end with the quality sample |
| `AnomRun`, `EnvScan` | `fujo_anom_run`, `fujo_env_scan` |
| `QualFeed`, `DomAdmit` | `fujo_qual_feed`, `fujo_dom_admit` with `dom_adjust` |
| `Schedule` | any task switch; which task is chosen is the matter of `Sched` |

What a model, a rule or a text says is an input: plans, policy texts, verdicts
and confidences are chosen freely from the sets of the instance.  The loops are
split into one step per item so that each item has its own gate and record;
nothing else can run in between (`Idle`), because a syscall is atomic.

`streak` and `revoked` are histories that no action reads: the hits since the
last miss with the count of the ledger before them, and the domains revoked and
not created again.

### 6.2 Runs

| run | instance | shows |
|---|---|---|
| `authority` | 2 tasks, domains 0 and 1, 2 permission sets, 3 plans, 1 policy text, sentinel with one confidence | types, `EffectsAuthorized`, `AuditHonest` |
| `trust` | 1 task, domains 0 and 1, 1 duty with a window of 3, thresholds 30-80 written by calls, a plan and a text | `LedgerCounts`, `TauOrderedOnceSet`, `LowQualityShrinks` |
| `authority_revoke`, `trust_window` | as `trust` | two comments that the code does not keep |

Bounds.  Two tasks give every action a target other than its caller; one
domain beside the system domain is enough because no rule relates two domains
except "first free slot", and the proofs cover any number.  The plans are one
that kills and then isolates the same task, one that mixes valid, unknown and
LAUNCH items, and one that kills the task that runs it and then goes on.  A
window of three fills after three samples and then averages; the arithmetic is
that of 64 with another constant, and `LedgerCounts` is proved for every size.
`MaxPending` bounds unacknowledged anomalies, which only count up.

`VIEW WithoutTrail` lets TLC identify states that differ in the last audit
entries only.  This is sound: no action reads `trail`, `AuditHonest` is a
property of steps and TLC evaluates it on every step it generates, and the
type of `trail` is proved.

Deadlock is checked: there always is a next call.

### 6.3 Proofs

`AuthorityProofs.tla` proves, for every number of tasks and domains, every
window, and arbitrary permission sets, plans and texts: `TypeCorrect`,
`EffectsAuthorizedCorrect`, `AuditHonestCorrect`, `TauOrderedCorrect`,
`LedgerCountsCorrect` and `LowQualityShrinksCorrect`.  Assumptions are the sizes (positive naturals) and the
shapes of the constant sets.  The first two action properties follow from `TypeOK`
alone, one case per action, over the lemmas `CapExecAuthorized` and
`CapExecHonest` about `fujo_cap_exec`.  `TauOrderedOnceSet` is inductive
because `cfg_set` compares with the other key whenever it was written;
`LedgerCounts` rests on `AverageBound` (the truncated average of a value in
0..n is in 0..n) and on the streak, which makes "exact until full" inductive.
`LowQualityShrinks` needs that both thresholds were
written in an order that `TauOrderedOnceSet` guarantees: a quality below the lower
one is then not above the upper one, so an admission shrinks and never widens.

### 6.4 Where comments and code part

Two have runs (see `findings`).  The model shows five more:

* `capability.rs:66` says that the widening threshold is above the shrinking
  one.  `cfg_set` compares with the defaults 30 and 70 when the other key was
  never written (`capability.rs:71`), `fujo_cfg_get` reads 46 and 35
  (`capability.rs:104-105`): writing 8 := 60 alone leaves 46 against 60.
  `TauOrderedOnceSet` therefore speaks of thresholds that were both set.
* A revoked domain comes back: `dom_adjust` sets `granted` whenever the new
  rights are not empty (`capability.rs:386`), and `dom_admit` calls it for the
  caller's domain without looking whether it was revoked.
* 0x8105 writes two audit entries for one authorised action and, when it
  fails, counts two denials (`syscall.rs:1933` after `capability.rs:158`);
  `docs/59-ai-os-interface.md:14` speaks of one entry.
* A successful LAUNCH is audited with result 1, as a denial, because its
  return code is the number of the new task.
* Policy texts (0x8307) write policies without the SET_CFG right
  (`ai.rs:1669`), which is why `EffectsAuthorized` names them as an exception.

### 6.5 Left out

The grant slots other than the exec slot, the position of the audit ring and
`DENIES` decide nothing.  A task counts as registered from the start (the
implicit task's binding is the matter of `Sched`).  `fujo_qual_feed` treats an
even hit greater than one as a hit before the window is full and as a miss
after; samples are Booleans here, as every caller in the kernel passes.  The
self check 0x830A is a fixed sequence of `CapExec`, `CapGrant` and `CapExec`.

## 7. The link to the host: `ModelLink`, `ModelLinkProofs`

### 7.1 Correspondence

The kernel asks two programs on the host: a model server for advice
(`ai.rs`), a box server for the product of a command (`boxbridge.rs`).  Both
use the request page at 0xA00000 and COM2; one of them is connected at a time
(`server`).  The kernel waits inside the syscall, so there is one call at a
time; what makes it hard is that the host is not done when the kernel gives up.

| variable | code |
|---|---|
| `aiSeq`, `boxSeq` | `AI_SEQ`, `BOX_SEQ`: two counters for one page |
| `page` | whose header and whose payload the page holds; they differ while a frame is written |
| `up`, `down` | lines on COM2, in order: triggers, and answers that are being worked out or on their way (an answer enters `down` when the host has read the request) |
| `snap`, `since`, `reason` | `SNAP_VALID`; whether a critical event came after `SNAP_EVW`, whether the snapshot's time was moved back; `SNAP_REASON` |
| `el` | ticks since `SNAP_T0`, or since the wait began |
| `buf`, `gateBad` | the blocks in the product buffer up to `BOX_BUF_N`; `gate_bad` |
| `provUp`, `total`, `hits` | `PROV_UP`, `PROV_TOTAL`, `PROV_HIT` (with `PROV_SCHEMA`) |
| `fed7`, `good7`, `fed8`, `good8` | the samples given to `fujo_qual_feed` for the two duties of the box |
| `pc`, `kind`, `attempt` | where the kernel is in its call |
| `absent`, `lost` | history: some box call timed out; lines that failed |

| action | code |
|---|---|
| `AskModel`, `TriggerModel` | `shm_send_req` in two steps, header and payload, because the host reads the page on its own; `fujo_r3_probe` is the kind that also pushes a critical event or moves `SNAP_T0` back |
| `Receive` | one complete line in `wait_rsp`, with what the caller makes of the result (`qwen_classify`, `qwen_classify_ser`, `anom_llm`, `plan_llm`, ...) |
| `GiveUp` | the end of `wait_rsp` by time or by the 120 million turns, whichever is first; hence no lower bound on `el` |
| `AskBox`, `TriggerBox` | `fujo_box_run` up to the trigger, again in two steps |
| `ReceiveBox` | one complete line in the receive loop; END leads to one of the verdicts |
| `GiveUpBox` | the end of the loop after `BOX_TTL_TICKS` |
| `Tick` | the timer interrupt |
| `HostTakes` | a server takes a trigger, reads the page **now** (both servers answer the newest frame, whatever the trigger said) and answers, or does not |
| `LineFails` | bytes lost in the port or in the ring of `serial.rs` |

A line is a record of its kind, its number and the page it was worked out
from (`src`), which is not on the wire and which no guard reads: it is what
the properties are about.

### 7.2 Run

`model_link`: one resend per call (the code has three), a validity of 0 ticks,
a box timeout of 1 tick, a buffer of two blocks and products of up to three,
two advice calls or one with its resend, two box calls, one line that fails.
A second call of each kind is what a late answer needs; a second block is what
a gap needs; a third is one too many for the buffer.  The types, the ledger and
the three action properties are proved for all sizes, so the bounds matter for
`CallEnds` only, where each call is alone with time anyway.  `CHECK_DEADLOCK
FALSE` because the calls are bounded by `MaxAi` and `MaxBox` and then nothing is
left to do.

Fairness: one of the kernel's own steps is always taken (`KernelRuns`: the
loops poll and do not sleep), and the timer interrupt comes (`sti` before both
loops).  None for the host, the line or the reception: `CallEnds` holds with a
host that is silent and with one that never stops.

### 7.3 Proofs

All five safety properties are proved for every number of calls, resends,
blocks and failing lines.  `LedgerComplete` is inductive with the types.
`AdviceIsOwn` needs `Provenance`: every answer bears the number of the frame it
was worked out from, no number is ahead of `AI_SEQ`, and a number that was used
by the line protocol never appears in the page, so that an answer which bears
it was worked out from the line.  `StaleAdviceRefused` adds `SnapshotHeld`: the
snapshot is valid from the request to the first answer that matches, and the
line protocol is only entered by a call during which nothing critical happened.
`ProductIsOwn` needs `BoxCall`: as long as every box call ended with its END,
nothing of the box is on its way between calls, and during a call there is its
trigger or its answer, with END last.  `CallEnds` is model-checked only.

### 7.4 What the properties except, and where comments and code part

`AdviceIsOwn` names two exceptions that the code has, and `ProductIsOwn` a
condition that it needs; strengthened versions without them are violated in
the instance of `model_link`.

* `boxbridge.rs:214` says of the shared page that the kernel is single-threaded
  and there is no concurrent use.  The host is concurrent: it reads the page late.
  A page read while the next frame is written carries the new number and the
  old payload, and the answer passes `line_seq_ok`.
  `docs/53-m112.md:106-107` describes a second read when the numbers differ;
  neither server has one.
* A trigger of an abandoned advice call that the server gets to during a box
  call is answered with the *box's* number, which can be the number a later
  advice call waits for.
* `boxbridge.rs:339` says the box waits "as wait_rsp does", and
  `docs/109-w36-b2-boxbridge-spec.md` (11.3) that it reuses the rule which drops
  expired answers.  The numbers of RSP, DATA and END lines are not read at all:
  after one timeout the late END ends the next call, and from then on every
  product can be the previous call's.
* The same section refuses an incomplete product when assembly times out; the
  timeout path sets no `BOX_BUF_N`, so 0x8318 returns the blocks that came.
* The validity is the last field of an answer, and an answer without one is
  valid for ever (`ai.rs:317`): a line cut there escapes the R3 test.

### 7.5 Left out

The fields of an answer, the schema test of a product and the argument checks
are choices or absent.  A request whose text was damaged on the line is
answered like any other, since nothing checks it.  That a call gives up in the
middle of a line, whose rest is then a bad line of the next call, is a line
that vanishes.  Numbers are unbounded (`u64` in the code).

## 8. The services around the core: `MCServices` and its ten modules

### 8.1 Modules and code

| module | parts | code |
|---|---|---|
| `Fjfs` (abstraction: `Volume`) | `fjfs` | `fjfs.rs` over `ata.rs`: `Boot`, `ZeroSector`, `WriteSuper`, `Load` are `init`; `WriteFile`, `WriteData`, `FlushBitmap`, `FlushRoot` are `write_file` sector by sector; `PowerLoss` may come between any two |
| `PageCache` | `cache` | `pcache.rs`, one action per call; the loops over blocks are recursive functions |
| `DeviceQueues` | `blk`, `net`, `ahci` | the request protocols of `virtio.rs`, the receive path of `net.rs`, the command slot of `ahci.rs` with its repetitions; the device is a process of its own |
| `Files` | `files` | the descriptor table of `vfs.rs` with `ipc.rs` (pipes) and `kobj.rs` (objects); the volume is the map of `Volume` |
| `Memory` | `frames`, `heap` | `mem.rs`: frames, address spaces, demand zero, pins, weights, window region; `brk` and `mmap` on numbers of a small word |
| `Windows` | `queue`, `mouse`, `loop`, `drag` | `wmsg.rs`, `mouse.rs`, the desktop loop of `desk.rs`, the drop of `clip.rs` |
| `Console` | `keys`, `tty`, `term`, `editor`, `ime` | `kbd.rs` with `shell.rs`, the window text of `desk.rs`, `term.rs`, `editor.rs`, `ime.rs` |
| `Tables` | `store`, `card`, `trace`, `image`, `mix` | `sessions.rs`, `save.rs`, `clip.rs`; `modelcard.rs`; the trace of `syscall.rs`; `modelreg.rs`, `upd.rs`, `installer.rs`; `audio.rs` |
| `Loaders` | `container`, `load` | `fujopack`, `fujo-compat/src/run.rs` and `fujr.rs`; `elf_loader.rs`, `pe_loader.rs`, `macho_loader.rs` |
| `Toolchain` | `asm`, `link`, `compile`, `debug` | `asm.rs`, `ld.rs`, `fujocc.rs`, `dbg.rs` |

A call is one step where interrupts are off.  Where they are on, it is several:
the transfers of the file system (the power may go), the requests to a device
(it answers when it likes, also after the driver gave up), the desktop loop
(`todo` holds what is left of the call it has begun; a mouse packet may come
between any two of its steps) and the kernel's poll of the keyboard (`poll`).

Data is what the properties tell apart.  A cluster, a page, a sector or a frame
of the network is a value; a file is a sequence of clusters or chunks; the bytes
of a pipe are numbered in the order they are written, so that order and
duplication show.  A history variable is marked so; a guard reads one only to
bound a run (the bytes sent, one damage to a container).

### 8.2 The run

`services` checks all of them.  `part` picks one of 27 machines at the start; the
others keep their initial state.  They are one run and not 27 because they share
nothing that a property relates: what one part relies on from another is a
promise that part's own properties state (`Files` stores to the map that `Fjfs`
implements; `Windows` and `Console` meet only in the key message).

| property | says | parts |
|---|---|---|
| `ServicesTypeOK` | the indices and lengths stay in their tables | all |
| `NoSharedCluster`, `ImplementsVolume` | no cluster is in two files or free and in a file, wherever the power went; the drive is a map that a write changes in one step | `fjfs` |
| `DiskHasOwnPages` | a block of the disk is zero or has a page written to that block | `cache` |
| `DriversAnswerOwn` | an answer without an error is the data of the caller's own sector; frames come in order, once | `blk`, `ahci`, `net` |
| `QueuesInOrder` | pipes, messages and keys come out in order, once | `files`, `queue`, `mouse`, `loop`, `drag`, `keys` |
| `DescriptorsExact` | pipes count their ends, the object table knows the descriptors, the disk buffer is the open file's | `files` |
| `FramesAccounted` | the bitmap is who refers to frames, and nobody shares one | `frames` |
| `MemoryApart` | a space sees its own pages and the shared one; mappings are disjoint | `frames`, `heap` |
| `RectsMatchWindows` | the mouse looks for the windows there are, where they are | `mouse`, `loop`, `drag` |
| `TextSurfaces` | window, terminal and editor show what was written to them | `tty`, `term`, `editor` |
| `RecordsHonest` | accounts and rings show the last entries; one active model; a damaged update is marked | `card`, `trace`, `image` |
| `ProgramsLoaded` | a container comes back as it was packed or not at all; images are in memory as their file says and their imports are bound, within the loader's limits; assembled and linked code goes where its labels and the first `MAX_SYMS` symbols say | `container`, `load`, `asm`, `link`, `compile`, `debug` |

Most of these hold under conditions that the definitions spell out (a transfer
has failed, a packet came inside the loop's own push, a program freed an object
of another, ...).  Each is a place where the code does not keep the promise;
they are collected in 8.4.

Bounds (`Services.cfg`).  Two of everything with a table (slots, pipes, objects,
memory files, sessions, models, directory sectors), so that there is a full
table, a free slot between taken ones, and a reuse; one more than the table
holds of what goes round a ring (keys, messages, trace entries, virtqueue
entries), so that each ring is lapped; five clusters of which the drive has
four, so that the last one is past its end as in the code; four frames of which
one lies under the window region; two address spaces; a word of 16 values for
`mmap`, whose sums then wrap as 64-bit ones do.  Requests and frames to devices
are bounded by `MaxCalls` and `MaxFrames`, bytes through a pipe by `MaxSent`: three
requests are one abandoned, one that meets its answer, and one after that.
`mix` lets a behaviour of `files` open either pipe ends (three descriptors, so
that `fujo_pipe` fails half-way; a second pipe carries one byte), or two
descriptors of disk files and views, of memory files, or of views and
directories; a file or view is read from any position, of two disk files or views one.
The programs of the assembler are all of up to two lines over five
kinds of line, and those of three with a branch in the middle; there is a chosen
list of linker inputs, containers and images that covers each check.  The
linker's snapshot has two symbols and an input three, with relocations to the
third and to a fourth that does not exist; the PE loader takes two descriptors
with two imports each, and an image has a third import and a third descriptor,
which nothing may answer; `atof` is among the imports.  A virtio request may end
with an error, and a receive entry may be malformed in each of the three ways
that `net.rs:273` looks for.

`CONSTRAINT Explored` stops behind a state after which a component promises
nothing (its condition above is false) and behind two bounds (four lines of
terminal text, one unread message).  The second does not hold in `queue`, nor in
`loop` while the loop is in the middle of a call, so that a full queue is met
by packets and by the loop.  `VIEW Seen` identifies states of the same
part that differ only in what no action can read: the initial state of the other
parts, the position of the message queue in its ring (the properties speak of
`Waiting`, the messages in it), the bytes of a free pipe (which are
written again before anyone reads them).  `CHECK_DEADLOCK FALSE` because bounded histories end and some parts stop by
design (`net` after `MaxFrames`).

There is no liveness property: no part waits for another except for a device,
and the drivers give up after a count of polls, which is `GiveUp` of the
device parts.

### 8.3 Proofs

**The volume.** `FormatProofs.tla` proves for every size of volume and directory, and
every set of names and contents:

* `NoSharedClusterCorrect`: `FsSpec => []NoSharedCluster`,
* `VolumeImplemented`: `FsSpec => ImplementsVolume`, the refinement of `Volume`,
* `FsTypeCorrect`: `FsSpec => []FsTypeOK`, also after transfers have failed.

Assumptions: the sizes are naturals, the volume has a cluster, contents are
sequences, stored names come from `FmtName`, and no file has an empty name
(`NameAssumption`; a free entry has none).  `NoSharedCluster` is not inductive.
`FsInv` has the types and `VolumeSound`,
which holds as long as no transfer has failed: the directories on the drive and
in memory are `Separate` (files share neither name nor cluster, and all their
clusters are taken); between calls they are the same; during a write they differ
in one entry (`OneChange`); the new content goes to clusters that are free *on
the drive*, its clusters up to the present one have `Arrived`, and the bitmap is
on the drive before the first sector of the directory is.  Hence every mixture
of old and new directory sectors is a directory of separate files
(`FlushRootInv`), and exactly the sector with the changed entry makes the new
file appear, whole (`FlushRootWrites`); all other steps leave the map alone
(`WriteDataKeepsMap`, `SameMap`).

**The other services.** `PartsProofs.tla` has an inductive invariant for each of
the machines of `Files`, `DeviceQueues`, `Memory`, `PageCache` and `Windows`;
`ServicesProofs.tla` has those of `Console` and `Tables`, shows that a step of
`MCServices` is a step of one machine or leaves it alone (`PartSteps`, `RecordSteps`,
`SurfaceSteps`, `RestSteps`, `ProgramSteps`, `DebuggerSteps`), and states the properties of the run as theorems of
`MCServices!Spec`, for every value of the constants:

| theorem | invariant it rests on |
|---|---|
| `DescriptorsExactCorrect` | `FilesInv`: besides the counts, the bytes of a pipe lie in its ring as numbered (`PipeIsQueue`), no pipe has more than two ends, the disk buffer is the open file's (`DiskInv`), and the descriptors and the object table name each other (`ObjTied`) |
| `DriversAnswerOwnCorrect` | `BlkInv`, `AhInv`: a request the driver waits for is the only one the device has, as long as none was abandoned; `RxInv`: up to the end of the ring's first turn, an entry that waits is malformed or its frame is in the buffer of its own number |
| `FramesAccountedCorrect`, `MemoryApartCorrect` | `FrameInv`: bitmap, owners and what a space sees, all until the window region came over frames in use (`overlaid`, a history variable); spaces not yet made are empty; `HeapInv`: regions end below the break until a length wrapped |
| `DiskHasOwnPagesCorrect` | `PcInv`: a dirty slot's page was written to its block (`DirtyIsOwn`); slots lose their mark whenever they change block |
| `QueuesInOrderCorrect` | `FilesInv`, `WinInv` and `KeyInv`: a ring is the sequence of what is in it (`RingSeq`), and three laws say what a put (`RingPuts`), a take (`RingTakes`) and a slot written half-way (`RingUnseen`) make of that sequence |
| `RectsMatchWindowsCorrect` | `WinInv`: `HalfWritten` (what the loop has put down but not yet counted) and `RectsKnown` (which of the loop's remaining steps will rebuild the rectangles) |
| `TextSurfacesCorrect` | `TtyInv`: the last rows of the ring of lines hold the last lines written, the others anything; `TermInv`: the paper has at least the lines on the screen; `EdInv`: the cursor is on a row of the text |
| `RecordsHonestCorrect` | `CardInv`, `TraceInv`: the ring `Remembers` the last entries, whatever is shown of it is their end (`ShowsLast`); `ImageInv` |
| `BreakpointsRestoreCorrect` | `BpInv`: the debugger's part of `ProgramsLoaded`, for programs without an int3 of their own |
| `ContainersCorrect` | `ContainerInv`: whatever happened to its bytes, the table of a file is the one `WriteRun` made, an intact file is as written, and `RES` is a function (`ShownOf`) of the container mounted last |
| `ImagesCorrect` | `LoadedInv`: user memory keeps its domain, whatever is loaded over it |
| `ToolsBuildCorrect` | `BuiltInv` and `BpInv` |
| `ProgramsLoadedCorrect` | the four before it |
| `ServicesTypeCorrect` | all of these, and `StoreInv`, `MixInv`, `ImeInv`, `FsBounds` |

Where the code counts lines by scanning for line ends, the proof of `EdInv` is
about cardinalities: `RowStartIs` and `RowLenIs` say where a row begins and ends,
`InsertedIs` and `RemovedIs` how that changes by one character, the cursor's
awkward move upwards (8.4) included.  `MixInv` is the one place with numbers: a
filter moves by a part of its distance to the sample (`PartOfDistance`), rounded
towards zero, so it never leaves the range of the two (`FilterStays`), however
many samples it follows (`FilteredStays`).

Loops are recursive functions over an interval.  What such a function does can
be proved although an induction rule over an arbitrary predicate cannot be
cited: `LeastNumber.tla` derives from the well-foundedness of `<` that a set of
naturals has a least element (`Minimum`), that a finite set has an element of every
rank (`RankExists`), that a recursion over an interval defines a function
(`RecursionDefines`) and that what every step of it preserves holds of its end
(`StepsStay`, and `EveryStep` for a set of step numbers).  The prefetch of `PageCache`, the loop over a packet's messages in
`Windows` and the filter of `Tables` are proved so.

Assumptions are those of the modules: sizes are positive naturals, rings have at
least two slots, the sets of values contain what the initial states hold, the
pages of a space are a finite interval, the program under the debugger has no
int3 of its own (`BpExc` would replace it by the last byte kept, as the code does).
Those about programs say what kind of thing is packed and loaded, never which:
bytes and names are naturals and every packed name has a kept form
(`PackedAssumption`); segments have natural offsets, sizes and addresses, and a
section of a PE file is as long in memory as in the file, because `load_pe` does
not look at its virtual size (`ImageAssumption`); `mov`, `ret` and the branches are
instructions with at least one byte, and the header of a linked file ends before
its first text (`ToolsAssumption`).  Images may overlap themselves, lie partly or
wholly outside of the memory that is modelled, overrun their file or import what nothing answers.

**Programs.** The second half of `FormatProofs.tla` is about the loops that pack, load
and build a program.  Each is a recursive function over the parts of a program,
and each has one lemma that says what it computes, part by part:

* `WrittenIs`: what `write_run` has put out before part *k* is the beginning of all
  it puts out later (padding only appends).  So each part is found again at the
  offset the table gives for it (`SectionsWritten`), and host and kernel read back
  what was packed (`ReadsBack`).  A damaged file keeps its table; the hash of the
  EMBED section then settles that an accepted one has the packed program.
* `LaidIs`: after the segments in `K` are laid, a byte of a segment that no later
  one in `K` covers (`Hidden`) is the byte of the file, or zero behind its bytes.
  This is an induction on the segments laid, with "no later one up to here
  covers it" in the hypothesis.  The loaders differ in `K` and in the shift; PE binds its imports
  over it (`BoundIs`), where of two imports with one slot the later stays.  It binds
  those it comes to (`Scanned`: at most `MAX_IMPORTS` of each of the first `MAX_DLLS`
  descriptors); if all of these are answered the image counts as loaded
  (`ScannedIs`), and the slots of the others are bytes of their segment like any.
* `BytesAre`, `LinesInOrder`, `LabelsOnly`: pass 1 counts the bytes of one line after
  another, pass 2 puts the lines with an instruction out in their order, and lines
  without one take no bytes.  So the address behind a label's line, which is what
  pass 1 took down (`BranchIs`), is that of the next instruction that pass 2 puts
  out (`GoalIs`), and a branch lands there.  `LABEL_AT` may hold anything from earlier assemblies.
* `LinkedTexts`: texts, padding and relocations lie apart, for every alignment
  (`RoundedIs`).  A relocation writes its word only if its symbol is one of the
  `MAX_SYMS` of the snapshot (`RelocatingIs`); under any other one the texts are whole.
  `EncodedIs` does for the text of a program what `WrittenIs` does for
  a container.
* `ExpressionIs`, `ConstantIs`: if one token of an expression is a constant, what is
  kept of the others is nothing.  The value is `Digits` of that token on both
  sides; that `Digits` is the number the digits denote is its definition.

Stating this for every program, and not only for those of the run, changed what
the properties say.  Where segments, imports or relocations overlap, the later
one wins and the earlier is not whole; two `LC_MAIN`, or two `__TEXT`, are counted by the
last (`macho_loader.rs:57`, `:77`); a letter beyond `f` in a hexadecimal constant is a
zero digit, while the decimal loop passes it over (`fujocc.rs:37`); of two
resources with the same first 15 characters only the first with bytes is found.
The definitions in `Loaders` and `Toolchain` say so as conditions on the byte, the
import or the name in question.

### 8.4 Where comments and code part

Each is a condition of a property above, or a choice in the model; none has a
run of its own.

* **File system.** Nobody looks at the result of a transfer: after a failed
  bitmap write a later boot allocates clusters of a file.  The last cluster of
  2048 lies behind a 4 MiB drive (`fjfs.rs:46`).  Overwriting a file never frees
  its old clusters, and a full directory is noticed after the clusters are taken.
* **Page cache.** `prefetch` and `alloc` take a second slot for a cached block;
  a full cache drops a dirty page, though the comment of line 165 says dirty
  pages are not cleared; a slot handed out by `alloc` shows the page of the block
  before it.
* **Drivers.** `net.rs:267` takes the used ring modulo the number of buffers (16)
  where the ring has 256 entries, so from the seventeenth frame on it looks at
  the wrong entry; a frame that does not fit the caller's buffer is dropped, a malformed entry is passed over as if nothing had come, and
  in both cases the buffer is never posted again.  After an abandoned request, virtio and
  AHCI take the late answer for the next request's.
* **Descriptors.** The epoch of an object handle, which `kobj.rs:28` says guards
  against reuse, is never compared; programs may create objects of the kinds the
  kernel uses for pipes; a second open disk file takes over the buffer of the
  first; names longer than a memory file's 15 characters are stored but never
  found again.
* **Memory.** `wmap_fault` scales a byte offset by the page size a second time
  (`mem.rs:876`); `mmap` of a huge length wraps; `munmap` gives up the pinned
  pages, which `mem.rs:406` says are kept; a fork that runs out of frames
  silently misses pages, and makes the box page private to the child; dead
  tasks' frames are never freed; the window region is mapped over frames that
  may already be taken (`mem.rs:307`).
* **Windows.** `wm_top` does not refresh the rectangles though `wmsg.rs:83` says
  so, and the mouse takes the first match, which is the bottom window; after
  `wm_top`, `wm_create` can hand out a number in use; a drag moves the drawn window
  and not its rectangle; a packet inside the loop's own push can lose a message.
* **Console.** The editor moves the cursor up when the character *behind* the
  deleted one is a newline; the terminal overwrites its last row instead of
  scrolling when a line breaks there; the first line of every program is never
  drawn; a program that polls inside the kernel's poll makes a key come twice.
* **Tables.** Session numbers past the table alias the slots; removing a model
  keeps its call count; an update overwrites the image before it verifies it,
  and one longer than the read-back buffer leaves no mark; `mix_push` overwrites
  where its comment says append; the sum of tokens wraps.
* **Loaders.** A writer with debug assertions always stops at the assertion about its
  own length; the first section is not aligned though the format's documentation
  says so; names equal in their first 15 characters collide; segments without
  file bytes are not zeroed in PE and Mach-O; a refused load leaves what it had
  already copied.  `load_pe` looks at 64 descriptors (`pe_loader.rs:306`) and at 256
  imports of each (`:331`): an image with more is loaded and reported as such,
  the later slots unbound.  `PeExact` says so: the imports within the limits are
  bound, the other slots are the file's.
* **Tool chain.** A label on the line of an instruction gets the address behind
  it (`asm.rs:365`, against `asm.rs:265`); a label that the program does not define
  has the address of the previous assembly; the linked file's entry is its ELF
  header and not its text (`ld.rs:9`); `1 + 2` compiles to 12, against
  `fujocc.rs:6`; the linker keeps 16 symbols (`ld.rs:55`) and passes over a
  relocation to a later one, as over one to a symbol that does not exist,
  reporting success (`:66`), so `TextsLinked` promises addresses for the first
  `MAX_SYMS` only; the assembler looks at the size of its output once, before pass 2
  (`asm.rs:376`); a second breakpoint loses the byte the first one replaced.

### 8.5 Left out

Registers and probing of the devices (their outcomes are choices) and the
transmit queue of the network; listing of the volume; `stat`, the model device and
the text of the read-only views; drawing; the shift state of the keyboard; the
opcode tables of the assembler and the fields of file headers, of which only
what the loader decides on is kept.

## 9. What is not modelled

`PROJECT.json` gives the reason for every part.

* **SMP bring-up, hardware probing, interrupt statistics** (`smp.rs`, `acpi.rs`,
  `platform.rs`, `irq.rs`, `hvm.rs`, `hw.rs`): the second core halts after
  start-up; the rest reads hardware and counts.
* **Graphics libraries and games**: arithmetic on pixels, without state that
  another part depends on.
* **Measurement and self tests** (`perf.rs`, `timer.rs`, `dump.rs`, ...): counters that
  decide nothing.  Two remarks from reading: the average of `perf.rs` divides the
  sum of all samples by at most 64, and the microseconds of `timer.rs`, which its
  comment calls monotonic, can step back when the calibration changes.
* **The dispatch of `syscall.rs`** is modelled as the calls it makes: every arm that
  changes state is an action of the component it calls.  Arms that only check
  arguments, copy results out or format numbers are not.
* **Text rules of `ai.rs`** (prompts, parsing of fields, rule books, embeddings):
  their verdicts are choices of `Authority` and `ModelLink`.
* **Programs of ring 3, host tools, scripts**: they are the callers; the models
  let them call anything at any time.

Timing is the order of events; a byte, a name and a message are values; integers
are unbounded except where a property is about their width.  Liveness under
fairness is model-checked, not proved (`NoStarvation`, of `RoundRobin`
and of `Sched`, `SignalDelivered`, `CallEnds`): the provers have neither
`ENABLED` nor the rules for fairness.  Every other property of the passing runs,
invariants, action properties and refinements, is also a theorem.

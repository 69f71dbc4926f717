----------------------------- MODULE RoundRobin -----------------------------
(***************************************************************************)
(* What the scheduler of kernel/src/sched.rs promises, without contexts,   *)
(* stacks or address spaces: which slots of the task table may run, and    *)
(* who is next.  Sched implements this specification.                      *)
(***************************************************************************)
EXTENDS Integers

CONSTANT MAX_TASKS

ASSUME MaxTasksAssumption == MAX_TASKS \in Nat \ {0}

Slots  == 0 .. MAX_TASKS - 1
States == {"free", "runnable", "suspended", "dead"}

VARIABLES state,   \* of every slot
          count,   \* slots 0 .. count-1 have been used
          cur,     \* the slot that has the CPU
          mode     \* "shell", "user" or "halted"

vars == <<state, count, cur, mode>>

\* How many places after c the scan that starts at c + 1 reaches slot n.
Distance(c, n) == IF n > c THEN n - c ELSE n + count - c

IsNextLowest(st, c, n) ==
  /\ n < count /\ st[n] = "runnable"
  /\ \A s \in 0 .. count - 1 : st[s] = "runnable" => n <= s

\* Slot n is the first runnable one after c in the cyclic order, c last.
IsNext(st, c, n) ==
  /\ n < count /\ st[n] = "runnable"
  /\ \A s \in 0 .. count - 1 :
       st[s] = "runnable" => Distance(c, n) <= Distance(c, s)

\* The state changes a syscall may make to slot s.
MayBecome(s, from, to) ==
  \/ from = to
  \/ from \in {"free", "dead", "suspended"} /\ to = "runnable"
  \/ from = "runnable" /\ to = "dead"
  \/ from = "runnable" /\ to = "suspended" /\ s # cur

\* The PIT tick.
Rotate ==
  /\ mode = "user"
  /\ \/ \E n \in Slots \ {cur} : IsNext(state, cur, n) /\ cur' = n
     \/ ~(\E n \in Slots \ {cur} : IsNext(state, cur, n)) /\ cur' = cur
  /\ UNCHANGED <<state, count, mode>>

\* The running task dies of an exception.
Crash ==
  /\ mode = "user"
  /\ UNCHANGED count
  /\ \/ /\ state' = [state EXCEPT ![cur] = "dead"]
        /\ \E n \in Slots : IsNext(state', cur, n) /\ cur' = n
        /\ UNCHANGED mode
     \/ /\ mode' = "halted"
        /\ state' \in {state, [state EXCEPT ![cur] = "dead"]}
        /\ UNCHANGED cur

\* Tasks are created, killed, suspended, resumed; the running one goes on.
Manage ==
  /\ mode \in {"shell", "user"}
  /\ state' \in [Slots -> States]
  /\ \A s \in Slots : MayBecome(s, state[s], state'[s])
  /\ count' \in count .. MAX_TASKS
  /\ \A s \in Slots : state'[s] # "free" <=> s < count'
  /\ mode' \in {"shell", "user"}
  /\ UNCHANGED cur

Init ==
  /\ state = [s \in Slots |-> "free"]
  /\ count = 0
  /\ cur = 0
  /\ mode = "shell"

Next == Rotate \/ Crash \/ Manage

Spec     == Init /\ [][Next]_vars
FairSpec == Spec /\ WF_vars(Rotate)

-----------------------------------------------------------------------------
\* Round robin: a task that stays runnable keeps getting the CPU, whatever
\* the other tasks fork, kill, suspend or crash meanwhile.
NoStarvation ==
  \A t \in Slots :
    <>[](mode = "user" /\ state[t] = "runnable") => []<>(cur = t)
=============================================================================

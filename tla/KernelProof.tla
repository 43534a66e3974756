----------------------------- MODULE KernelProof -----------------------------
(***************************************************************************)
(* Proofs about Kernel, for any finite set of processes: it implements     *)
(* Sched, no wakeup is lost, the family tree stays consistent, timers stay *)
(* in the frames they belong to, and init ends only when nobody is left.   *)
(*                                                                         *)
(* The scheduler's own invariant is not proved again: each step is shown   *)
(* to be one of Sched's, and SchedProof's step theorem does the rest.      *)
(***************************************************************************)
EXTENDS Kernel, ListLemmas

Sch == INSTANCE SchedProof WITH blocking <- Blocking

(***************************************************************************)
(* Where a process stands says what its state and wait_state may be.       *)
(***************************************************************************)
FieldTypes ==
  /\ parent \in [Proc -> Proc]
  /\ children \in [Proc -> Seq(Proc)]
  /\ exiting \in [Proc -> BOOLEAN]
  /\ wait_pid \in [Proc -> Proc]
  /\ pc \in [Proc -> Label]

Stands ==
  \A p \in Proc :
    /\ state[p] = "UNUSED" => pc[p] = "none" /\ time_slice[p] = 0
    /\ state[p] = "ZOMBIE" => pc[p] \in {"none", "exit_links", "exit_sched"}
    /\ pc[p] = "none" => state[p] \in {"UNUSED", "ZOMBIE"}
    /\ pc[p] \in {"exit_links", "exit_sched"} => state[p] = "ZOMBIE" /\ p = current
    /\ pc[p] \in {"wait_sched", "sleep_sched"} => state[p] # "ZOMBIE" /\ p = current
    /\ wait_state[p] \in {"0", "WT_CHILD", "WT_TIMER"}
    /\ wait_state[p] = "WT_CHILD" => pc[p] \in {"wait_sched", "wait_woken"}
    /\ wait_state[p] = "WT_TIMER" => pc[p] \in {"sleep_sched", "sleep_woken"}

(* The two processes that the kernel makes itself.                         *)
InitLabel == {"none", "init_fork", "init_sched", "init_done", "wait", "wait_sched", "wait_woken"}

Places ==
  /\ pc[idleproc] \in {"boot", "idle"}
  /\ pc[initproc] \in InitLabel
  /\ \A p \in User : pc[p] \notin {"boot", "idle", "init_fork", "init_sched", "init_done"}
  /\ pc[idleproc] = "boot" => current = idleproc
  /\ pc[initproc] = "init_done" => current = initproc
  /\ pc[idleproc] = "boot" <=> state[initproc] = "UNUSED"

InitStays ==
  /\ state[initproc] # "ZOMBIE" /\ ~exiting[initproc]
  /\ wait_pid[initproc] = idleproc
  /\ parent[initproc] = idleproc /\ parent[idleproc] = idleproc

(***************************************************************************)
(* Every chain of parents of user processes ends, and it ends at init.     *)
(***************************************************************************)
Rooted ==
  /\ \A c \in User : Exists(c) => parent[c] # idleproc
  /\ \A S \in SUBSET User :
       S # {} /\ (\A c \in S : Exists(c)) => \E c \in S : parent[c] \notin S

Timers ==
  /\ Ticking(timer_list)
  /\ Armed(timer_list) \subseteq User
  /\ \A p : LeftOf(timer_list, p) <= MAX_SLEEP
  /\ ArmedInFrame
  /\ AwakeWasKilled

KernInv ==
  /\ FieldTypes
  /\ Stands
  /\ Places
  /\ InitStays
  /\ FamilyTree
  /\ Rooted
  /\ Timers
  /\ NoLostWakeup

KInv == Sch!IInv /\ KernInv

-----------------------------------------------------------------------------
(***************************************************************************)
(* The scheduler's invariant, in the words of this module.                 *)
(***************************************************************************)
LEMMA ProcFinite == Sch!IsFiniteSet(Proc)
BY SchedAssumption DEF Sch!IsFiniteSet, IsFiniteSet

(* What the invariant of the scheduler says of the fields of a process.    *)
LEMMA SchedFacts ==
  ASSUME Sch!IInv
  PROVE  /\ RunqTypeOK
         /\ \A p \in Proc :
              /\ InList(p, run_list) <=> state[p] = "RUNNABLE" /\ p # current /\ p # idleproc
              /\ wait_state[p] # "0" <=> state[p] = "SLEEPING"
              /\ need_resched[p] => p = current
         /\ NoRepeat(run_list)
         /\ Blocking \/ state[current] = "RUNNABLE"
         /\ state[idleproc] = "RUNNABLE"
         /\ Blocking => current # idleproc
<1>1. RunqTypeOK
  BY DEF Sch!IInv, Sch!TypeOK, Sch!RunqTypeOK, RunqTypeOK, Sch!ProcState, ProcState
<1>2. /\ \A p \in Proc :
           InList(p, run_list) <=> state[p] = "RUNNABLE" /\ p # current /\ p # idleproc
      /\ NoRepeat(run_list)
  BY DEF Sch!IInv, Sch!RunQueueExact, Sch!InList, InList, Sch!NoRepeat, NoRepeat
<1>3. \A p \in Proc : wait_state[p] # "0" <=> state[p] = "SLEEPING"
  BY DEF Sch!IInv, Sch!WaitingIffSleeping
<1>4. QED
  BY <1>1, <1>2, <1>3
  DEF Sch!IInv, Sch!CurrentCanRun, Sch!IdleRunnable, Sch!OnlyCurrentResched

(* Both instances of Sched, under Kernel and under SchedProof, have the    *)
(* same steps.                                                             *)
LEMMA SameNext == Scheduler!Next <=> Sch!Next
<1>1. \A p : Scheduler!Fork(p) <=> Sch!Fork(p)
  BY DEF Scheduler!Fork, Sch!Fork, Scheduler!RR_enqueue, Sch!RR_enqueue
<1>2. \A p : Scheduler!Reap(p) <=> Sch!Reap(p)
  BY DEF Scheduler!Reap, Sch!Reap
<1>3. \A why : Scheduler!Sleep(why) <=> Sch!Sleep(why)
  BY DEF Scheduler!Sleep, Sch!Sleep
<1>4. Scheduler!Exit <=> Sch!Exit
  BY DEF Scheduler!Exit, Sch!Exit
<1>5. Scheduler!Yield <=> Sch!Yield
  BY DEF Scheduler!Yield, Sch!Yield
<1>6. \A p : Scheduler!RefilledSlice(p) = Sch!RefilledSlice(p)
  BY DEF Scheduler!RefilledSlice, Sch!RefilledSlice
<1>7. \A joining : Scheduler!SlicesAfterJoin(joining) = Sch!SlicesAfterJoin(joining)
  BY <1>6 DEF Scheduler!SlicesAfterJoin, Sch!SlicesAfterJoin, Scheduler!InList, Sch!InList
<1>8. \A woken, joining : Scheduler!WakeupProcs(woken, joining) <=> Sch!WakeupProcs(woken, joining)
  BY DEF Scheduler!WakeupProcs, Sch!WakeupProcs
<1>9. \A woken, joining : Scheduler!Wakeup(woken, joining) <=> Sch!Wakeup(woken, joining)
  BY <1>7, <1>8 DEF Scheduler!Wakeup, Sch!Wakeup
<1>10. \A joining : Scheduler!sched_class_proc_tick(joining) <=> Sch!sched_class_proc_tick(joining)
  BY <1>7 DEF Scheduler!sched_class_proc_tick, Sch!sched_class_proc_tick,
              Scheduler!SliceAfterTick, Sch!SliceAfterTick
<1>11. \A woken, joining : Scheduler!Tick(woken, joining) <=> Sch!Tick(woken, joining)
  BY <1>8, <1>10 DEF Scheduler!Tick, Sch!Tick
<1>12. Scheduler!schedule <=> Sch!schedule
  BY <1>6 DEF Scheduler!schedule, Sch!schedule, Scheduler!Requeues, Sch!Requeues,
              Scheduler!QueueWithCurrent, Sch!QueueWithCurrent, Scheduler!RR_enqueue, Sch!RR_enqueue
<1>13. Scheduler!Schedule <=> Sch!Schedule
  BY <1>12 DEF Scheduler!Schedule, Sch!Schedule
<1>14. Scheduler!Sleepers = Sch!Sleepers
  BY DEF Scheduler!Sleepers, Sch!Sleepers
<1>15. \A S : Scheduler!Orderings(S) = Sch!Orderings(S)
  BY DEF Scheduler!Orderings, Sch!Orderings, Scheduler!NoRepeat, Sch!NoRepeat,
         Scheduler!InList, Sch!InList, Scheduler!Cardinality, Sch!Cardinality
<1>16. \A S : {p \in S : Scheduler!Enqueues(p)} = {p \in S : Sch!Enqueues(p)}
  BY DEF Scheduler!Enqueues, Sch!Enqueues
<1>17. QED
  BY <1>1, <1>2, <1>3, <1>4, <1>5, <1>9, <1>11, <1>13, <1>14, <1>15, <1>16
  DEF Scheduler!Next, Sch!Next

(* A step that Sched allows keeps its invariant.                           *)
LEMMA SchedStep ==
  ASSUME Sch!IInv, [Scheduler!Next]_(Scheduler!vars) PROVE Sch!IInv'
<1>1. UNCHANGED (Scheduler!vars) => UNCHANGED (Sch!vars)
  BY DEF Scheduler!vars, Sch!vars, Scheduler!runqVars, Sch!runqVars
<1>2. [Sch!Next]_(Sch!vars)
  BY <1>1, SameNext
<1>3. QED
  BY <1>2, ProcFinite, SchedAssumption, Sch!NextInv

-----------------------------------------------------------------------------
(* The process on the CPU is in its frame, awake unless it is blocking.    *)
LEMMA CurrentFacts ==
  ASSUME KInv
  PROVE  /\ current \in Proc /\ pc[current] # "none"
         /\ ~Blocking => /\ state[current] = "RUNNABLE"
                         /\ wait_state[current] = "0"
         /\ ~Blocking /\ pc[current] \notin {"boot", "idle"} => current # idleproc
         /\ pc[current] \in {"user", "trapret", "exit", "exit_links", "exit_sched",
                             "sleep_sched", "sleep_woken"} => current \in User
BY SchedFacts, KernelAssumption, SchedAssumption
DEF KInv, KernInv, Stands, Places, RunqTypeOK, FieldTypes, Blocking, User, InitLabel

(* A process is its own parent only if it is idle, and parents exist.      *)
LEMMA ParentFacts ==
  ASSUME KInv, NEW c \in Proc \ {idleproc}, Exists(c)
  PROVE  parent[c] \in Proc /\ parent[c] # c /\ Exists(parent[c]) /\ InList(c, children[parent[c]])
<1>1. parent[c] \in Proc /\ InList(c, children[parent[c]])
  BY DEF KInv, KernInv, FieldTypes, FamilyTree
<1>2. parent[c] # c
  <2>1. CASE c = initproc
    BY <2>1 DEF KInv, KernInv, InitStays
  <2>2. CASE c # initproc
    <3>1. {c} \in SUBSET User
      BY <2>2 DEF User
    <3>2. QED
      BY <3>1 DEF KInv, KernInv, Rooted
  <2>3. QED
    BY <2>1, <2>2
<1>3. Exists(parent[c])
  <2>1. SUFFICES ASSUME ~Exists(parent[c]) PROVE FALSE
    OBVIOUS
  <2>2. pc[parent[c]] = "none" /\ state[parent[c]] = "UNUSED"
    BY <1>1, <2>1 DEF KInv, KernInv, Stands, Exists
  <2>3. children[parent[c]] = <<>>
    BY <1>1, <2>2 DEF KInv, KernInv, FamilyTree
  <2>4. QED
    BY <1>1, <2>3, EmptyList
<1>4. QED
  BY <1>1, <1>2, <1>3

(***************************************************************************)
(* What a step may do without touching a part of the invariant.            *)
(***************************************************************************)
LEMMA FamilyFrame ==
  ASSUME KInv, UNCHANGED <<parent, children>>,
         \A p \in Proc : state'[p] = "UNUSED" <=> state[p] = "UNUSED",
         \A p \in Proc : state'[p] = "ZOMBIE" /\ pc'[p] # "exit_links"
                         => state[p] = "ZOMBIE" /\ pc[p] # "exit_links"
  PROVE  FamilyTree' /\ Rooted'
<1>1. \A p \in Proc : Exists(p)' <=> Exists(p)
  BY DEF Exists
<1>2. Rooted'
  BY <1>1 DEF KInv, KernInv, Rooted, User
<1>3. \A p \in Proc : state'[p] \in {"UNUSED", "ZOMBIE"} /\ pc'[p] # "exit_links"
                      => children[p] = <<>>
  BY DEF KInv, KernInv, FamilyTree, Stands
<1>4. FamilyTree'
  BY <1>1, <1>3 DEF KInv, KernInv, FamilyTree
<1>5. QED
  BY <1>2, <1>4

(* No timer is touched, and the processes that have one stay in do_sleep.  *)
LEMMA TimersFrame ==
  ASSUME KInv, timer_list' = timer_list,
         \A p \in User : HasTimer(timer_list, p) =>
           /\ pc'[p] \in {"sleep_sched", "sleep_woken"}
           /\ wait_state'[p] = "0" => wait_state[p] = "0" \/ exiting'[p]
           /\ exiting[p] => exiting'[p]
  PROVE  Timers'
<1>1. \A i \in 1..Len(timer_list) :
        timer_list[i].proc \in User /\ HasTimer(timer_list, timer_list[i].proc)
  BY ArmedHasTimer DEF KInv, KernInv, Timers, Armed
<1>2. ArmedInFrame'
  BY <1>1 DEF KInv, KernInv, Timers, ArmedInFrame
<1>3. AwakeWasKilled'
  BY DEF KInv, KernInv, Timers, AwakeWasKilled
<1>4. QED
  BY <1>2, <1>3 DEF KInv, KernInv, Timers

(* Nobody goes to wait for a child, is reaped or ends.                     *)
LEMMA WakeupFrame ==
  ASSUME KInv, parent' = parent,
         \A p \in Proc : wait_state'[p] = "WT_CHILD" =>
           wait_state[p] = "WT_CHILD" /\ wait_pid'[p] = wait_pid[p],
         \A p \in Proc : wait_state'[p] = "WT_TIMER" => HasTimer(timer_list', p),
         \A p \in Proc : state'[p] = "UNUSED" <=> state[p] = "UNUSED",
         \A p \in Proc : state'[p] = "ZOMBIE" /\ pc'[p] # "exit_links"
                         => state[p] = "ZOMBIE" /\ pc[p] # "exit_links"
  PROVE  NoLostWakeup'
<1>1. \A p, c \in Proc : Awaits(p, c)' => Awaits(p, c)
  BY DEF Awaits, Exists
<1>2. \A p, c \in Proc : wait_state'[p] = "WT_CHILD" /\ Awaits(p, c) => Awaits(p, c)'
  BY DEF Awaits, Exists
<1>3. SleeperHasWaker'
  <2>1. ASSUME NEW p \in Proc, wait_state'[p] = "WT_CHILD"
        PROVE  \E c \in Proc : Awaits(p, c)'
    BY <1>2, <2>1 DEF KInv, KernInv, NoLostWakeup, SleeperHasWaker
  <2>2. QED
    BY <2>1 DEF SleeperHasWaker
<1>4. QED
  BY <1>1, <1>3 DEF KInv, KernInv, NoLostWakeup

-----------------------------------------------------------------------------
(***************************************************************************)
(* The current process goes on to its next point, and nothing else that    *)
(* this module speaks of happens but a change of its own wait_pid.         *)
(***************************************************************************)
LEMMA MoveInv ==
  ASSUME KInv, NEW label \in {"user", "trapret", "wait", "exit", "init_done"}, Goto(label),
         pc[current] \in {"user", "trapret", "wait", "wait_woken"},
         current = initproc => label \in {"wait", "init_done"},
         current # initproc => label # "init_done",
         UNCHANGED <<current, state, wait_state, run_list, time_slice,
                     parent, children, exiting, timer_list>>,
         wait_pid' \in [Proc -> Proc],
         \A p \in Proc : p # current => wait_pid'[p] = wait_pid[p],
         wait_pid'[initproc] = idleproc
  PROVE  KernInv' /\ Blocking = FALSE /\ Blocking' = FALSE
<1>1. /\ current \in Proc /\ ~Blocking
      /\ state[current] = "RUNNABLE" /\ wait_state[current] = "0" /\ current # idleproc
  BY CurrentFacts DEF Blocking
<1>2. /\ pc' \in [Proc -> Label] /\ pc'[current] = label
      /\ \A p \in Proc : p # current => pc'[p] = pc[p]
  BY <1>1 DEF KInv, KernInv, FieldTypes, Goto, Label
<1>3. FieldTypes'
  BY <1>2 DEF KInv, KernInv, FieldTypes
<1>4. Stands'
  BY <1>1, <1>2 DEF KInv, KernInv, Stands
<1>5. Places' /\ InitStays'
  BY <1>1, <1>2, KernelAssumption DEF KInv, KernInv, Places, InitStays, User, InitLabel
<1>6. FamilyTree' /\ Rooted'
  BY <1>1, <1>2, FamilyFrame
<1>7. Timers'
  <2>1. \A p \in User : HasTimer(timer_list, p) => pc[p] \in {"sleep_sched", "sleep_woken"}
    BY DEF KInv, KernInv, Timers, ArmedInFrame, HasTimer, TimerIndex
  <2>2. QED
    BY <1>2, <2>1, TimersFrame DEF User
<1>8. NoLostWakeup'
  <2>1. \A p \in Proc : wait_state[p] = "WT_TIMER" => HasTimer(timer_list, p)
    BY DEF KInv, KernInv, NoLostWakeup, SleeperHasWaker
  <2>2. QED
    BY <1>1, <1>2, <2>1, WakeupFrame
<1>9. Blocking = FALSE /\ Blocking' = FALSE
  BY <1>1, <1>2 DEF Blocking
<1>10. QED
  BY <1>3, <1>4, <1>5, <1>6, <1>7, <1>8, <1>9 DEF KernInv

(* The actions that are such moves.                                        *)
QuietStep ==
  \/ sys_fork_fails \/ sys_exit \/ do_yield
  \/ \E pid \in Proc \ {initproc} : sys_wait(pid)
  \/ \E p \in User : do_kill_fails(p)
  \/ do_wait_none \/ do_wait_woken \/ trap_exit \/ trap_return

(* They keep the invariant, and the scheduler sees at most a do_yield.     *)
LEMMA QuietInv ==
  ASSUME KInv, QuietStep
  PROVE  KernInv' /\ [Scheduler!Next]_(Scheduler!vars)
<1>1. /\ pc[current] = "user" => current \in User
      /\ pc[current] = "trapret" => current \in User
      /\ pc[current] # "idle" /\ pc[current] # "boot" /\ ~Blocking => current # idleproc
      /\ current \in Proc
  BY CurrentFacts
<1>2. /\ wait_pid \in [Proc -> Proc] /\ wait_pid[initproc] = idleproc /\ ~exiting[initproc]
      /\ initproc \in Proc /\ idleproc \in Proc /\ initproc \notin User
  BY KernelAssumption, SchedAssumption DEF KInv, KernInv, FieldTypes, InitStays, User
<1>3. CASE sys_fork_fails \/ sys_exit \/ trap_exit \/ trap_return
           \/ \E p \in User : do_kill_fails(p)
  <2>1. PICK label \in {"user", "trapret", "exit"} :
          /\ Goto(label) /\ pc[current] \in {"user", "trapret"}
          /\ UNCHANGED <<runqVars, parent, children, exiting, timer_list, wait_pid>>
    BY <1>3 DEF sys_fork_fails, sys_exit, trap_exit, trap_return, do_kill_fails, At
  <2>2. KernInv' /\ Blocking = FALSE /\ Blocking' = FALSE
    BY <1>1, <1>2, <2>1, MoveInv DEF runqVars
  <2>3. UNCHANGED (Scheduler!vars)
    BY <2>1, <2>2 DEF Scheduler!vars, Scheduler!runqVars, runqVars
  <2>4. QED
    BY <2>2, <2>3
<1>4. CASE do_yield
  <2>1. KernInv' /\ Blocking = FALSE /\ Blocking' = FALSE
    BY <1>1, <1>2, <1>4, MoveInv DEF do_yield, At
  <2>2. Scheduler!Yield
    BY <1>1, <1>4, <2>1 DEF do_yield, At, Scheduler!Yield
  <2>3. QED
    BY <2>1, <2>2 DEF Scheduler!Next
<1>5. CASE \E pid \in Proc \ {initproc} : sys_wait(pid)
  <2>1. KernInv' /\ Blocking = FALSE /\ Blocking' = FALSE
    <3>1. PICK pid \in Proc \ {initproc} : sys_wait(pid)
      BY <1>5
    <3>2. /\ pc[current] = "user" /\ Goto("wait") /\ current \in User
          /\ UNCHANGED <<runqVars, parent, children, exiting, timer_list>>
      BY <1>1, <3>1 DEF sys_wait, At
    <3>3. wait_pid' = [wait_pid EXCEPT ![current] = pid]
      BY <3>1 DEF sys_wait
    <3>4. /\ wait_pid' \in [Proc -> Proc] /\ wait_pid'[initproc] = idleproc
          /\ \A p \in Proc : p # current => wait_pid'[p] = wait_pid[p]
      BY <1>2, <3>1, <3>2, <3>3
    <3>5. QED
      BY <1>2, <3>2, <3>4, MoveInv DEF runqVars
  <2>2. UNCHANGED (Scheduler!vars)
    BY <1>5, <2>1 DEF sys_wait, Scheduler!vars, Scheduler!runqVars, runqVars
  <2>3. QED
    BY <2>1, <2>2
<1>6. CASE do_wait_none \/ do_wait_woken
  <2>1. PICK label \in {"wait", "exit", "trapret", "init_done"} :
          /\ Goto(label) /\ pc[current] \in {"wait", "wait_woken"}
          /\ current = initproc => label \in {"wait", "init_done"}
          /\ current # initproc => label # "init_done"
          /\ UNCHANGED <<runqVars, parent, children, exiting, timer_list>>
    BY <1>2, <1>6 DEF do_wait_none, do_wait_woken, AfterWaitWoken, At
  <2>2. /\ wait_pid' \in [Proc -> Proc] /\ wait_pid'[initproc] = idleproc
        /\ \A p \in Proc : p # current => wait_pid'[p] = wait_pid[p]
    BY <1>2, <1>6 DEF do_wait_none, do_wait_woken
  <2>3. KernInv' /\ Blocking = FALSE /\ Blocking' = FALSE
    BY <1>1, <1>2, <2>1, <2>2, MoveInv DEF runqVars
  <2>4. UNCHANGED (Scheduler!vars)
    BY <2>1, <2>3 DEF Scheduler!vars, Scheduler!runqVars, runqVars
  <2>5. QED
    BY <2>3, <2>4
<1>7. QED
  BY <1>3, <1>4, <1>5, <1>6 DEF QuietStep

-----------------------------------------------------------------------------
(***************************************************************************)
(* do_fork.                                                                *)
(***************************************************************************)
ForkAllowed(child, start, next) ==
  \/ /\ pc[current] = "boot" /\ child = initproc /\ start = "init_fork" /\ next = "idle"
  \/ /\ pc[current] \in {"init_fork", "user"} /\ child \in User /\ start = "user"
     /\ next = IF pc[current] = "user" THEN "trapret" ELSE "wait"

(* A new process has no past: no links, no timer, nobody waits for it.     *)
LEMMA ForkInv ==
  ASSUME KInv, NEW child \in Proc, NEW start, NEW next,
         ForkAllowed(child, start, next), do_fork(child, start, next)
  PROVE  KernInv' /\ [Scheduler!Next]_(Scheduler!vars)
<1>1. /\ current \in Proc /\ Blocking = FALSE
      /\ state[current] = "RUNNABLE" /\ wait_state[current] = "0"
      /\ pc[current] = "boot" => current = idleproc
      /\ pc[current] = "init_fork" => current = initproc
      /\ pc[current] = "user" => current \in User
  BY CurrentFacts, KernelAssumption, SchedAssumption
  DEF Blocking, ForkAllowed, KInv, KernInv, Places, User, InitLabel
<1>2. /\ state[child] = "UNUSED" /\ pc[child] = "none" /\ child # current /\ child # idleproc
      /\ wait_state[child] = "0" /\ time_slice[child] = 0
  BY <1>1, SchedFacts DEF do_fork, KInv, KernInv, Stands
<1>3. /\ pc' \in [Proc -> Label] /\ pc'[current] = next /\ pc'[child] = start
      /\ \A p \in Proc : p # current /\ p # child => pc'[p] = pc[p]
  BY <1>1, <1>2 DEF do_fork, ForkAllowed, KInv, KernInv, FieldTypes, Label
<1>4. /\ \A p \in Proc : state'[p] = IF p = child THEN "RUNNABLE" ELSE state[p]
      /\ \A p \in Proc : parent'[p] = IF p = child THEN current ELSE parent[p]
      /\ parent' \in [Proc -> Proc]
      /\ UNCHANGED <<current, wait_state, exiting, timer_list, wait_pid>>
  BY <1>1, SchedFacts DEF do_fork, KInv, KernInv, FieldTypes, RunqTypeOK
<1>5. \A p \in Proc : Exists(p)' <=> Exists(p) \/ p = child
  BY <1>4 DEF Exists
<1>6. \A p \in Proc : InList(child, children[p]) => FALSE
  BY <1>2 DEF KInv, KernInv, FamilyTree, Exists
<1>7. /\ children' \in [Proc -> Seq(Proc)]
      /\ \A p \in Proc : p # current => children'[p] = children[p]
      /\ NoRepeat(children'[current])
      /\ \A q : InList(q, children'[current]) <=> q = child \/ InList(q, children[current])
  <2>1. children[current] \in Seq(Proc) /\ NoRepeat(children[current])
    BY <1>1 DEF KInv, KernInv, FieldTypes, FamilyTree
  <2> DEFINE one == <<child>>
  <2>2. one \in Seq(Proc) /\ NoRepeat(one) /\ \A q : InList(q, one) <=> q = child
    BY SingletonList
  <2>3. children' = [children EXCEPT ![current] = one \o children[current]]
    BY DEF do_fork
  <2> HIDE DEF one
  <2>4. /\ one \o children[current] \in Seq(Proc)
        /\ NoRepeat(one \o children[current])
        /\ \A q : InList(q, one \o children[current]) <=> q = child \/ InList(q, children[current])
    BY <1>1, <1>6, <2>1, <2>2, ConcatLists
  <2>5. QED
    BY <1>1, <2>3, <2>4 DEF KInv, KernInv, FieldTypes
<1>8. FieldTypes'
  BY <1>3, <1>4, <1>7 DEF KInv, KernInv, FieldTypes
<1>9. Stands'
  <2>1. \A p \in Proc : p # child => time_slice'[p] = time_slice[p]
    BY SchedFacts DEF do_fork, RunqTypeOK, KInv
  <2>2. QED
    BY <1>1, <1>2, <1>3, <1>4, <2>1 DEF KInv, KernInv, Stands, ForkAllowed
<1>10. Places' /\ InitStays'
  BY <1>1, <1>2, <1>3, <1>4, KernelAssumption, SchedAssumption
  DEF KInv, KernInv, Places, InitStays, User, InitLabel, ForkAllowed
<1>11. FamilyTree'
  <2>1. \A p, c \in Proc : InList(c, children'[p]) <=> Exists(c)' /\ c # idleproc /\ parent'[c] = p
    <3>1. ASSUME NEW p \in Proc, NEW c \in Proc
          PROVE  InList(c, children'[p]) <=> (c = child /\ p = current) \/ InList(c, children[p])
      BY <1>7
    <3>2. ASSUME NEW p \in Proc, NEW c \in Proc
          PROVE  InList(c, children[p]) <=> Exists(c) /\ c # idleproc /\ parent[c] = p
      BY DEF KInv, KernInv, FamilyTree
    <3>3. ~Exists(child) /\ child # idleproc
      BY <1>2 DEF Exists
    <3>4. ASSUME NEW p \in Proc
          PROVE  InList(child, children'[p]) <=> parent'[child] = p
      BY <1>4, <3>1, <3>2, <3>3
    <3>5. ASSUME NEW p \in Proc, NEW c \in Proc, c # child
          PROVE  InList(c, children'[p]) <=> Exists(c) /\ c # idleproc /\ parent'[c] = p
      BY <1>4, <3>1, <3>2, <3>5
    <3>6. QED
      BY <1>5, <3>3, <3>4, <3>5
  <2>2. \A p \in Proc : NoRepeat(children'[p])
    BY <1>7 DEF KInv, KernInv, FamilyTree
  <2>3. \A p \in Proc : state'[p] \in {"UNUSED", "ZOMBIE"} /\ pc'[p] # "exit_links"
                         => children'[p] = <<>>
    <3>1. \A p \in Proc : state[p] \in {"UNUSED", "ZOMBIE"} /\ pc[p] # "exit_links"
                           => children[p] = <<>>
      BY DEF KInv, KernInv, FamilyTree
    <3>2. state'[child] = "RUNNABLE" /\ state'[current] = "RUNNABLE"
      BY <1>1, <1>2, <1>4
    <3>3. \A p \in Proc : p # child /\ p # current =>
            state'[p] = state[p] /\ pc'[p] = pc[p] /\ children'[p] = children[p]
      BY <1>3, <1>4, <1>7
    <3>4. QED
      BY <3>1, <3>2, <3>3
  <2>4. QED
    BY <2>1, <2>2, <2>3 DEF FamilyTree
<1>12. Rooted'
  <2>1. \A c \in User : Exists(c)' => parent'[c] # idleproc
    BY <1>1, <1>2, <1>4, <1>5, KernelAssumption DEF KInv, KernInv, Rooted, User, ForkAllowed
  <2>2. ASSUME NEW S \in SUBSET User, S # {}, \A c \in S : Exists(c)'
        PROVE  \E c \in S : parent'[c] \notin S
    <3>1. CASE S = {child}
      BY <1>2, <1>4, <3>1
    <3>2. CASE S \ {child} # {}
      <4> DEFINE T == S \ {child}
      <4>1. T \in SUBSET User /\ T # {} /\ \A c \in T : Exists(c)
        BY <1>5, <2>2, <3>2 DEF User
      <4> HIDE DEF T
      <4>2. \E c \in T : parent[c] \notin T
        BY <4>1 DEF KInv, KernInv, Rooted
      <4>3. PICK c \in S \ {child} : parent[c] \notin S \ {child}
        BY <4>2 DEF T
      <4>4. c \in Proc \ {idleproc} /\ Exists(c)
        BY <1>5, <2>2, <4>3 DEF User
      <4>5. parent[c] # child
        BY <1>2, <4>4, ParentFacts DEF Exists
      <4>6. QED
        BY <1>4, <4>3, <4>4, <4>5
    <3>3. QED
      BY <2>2, <3>1, <3>2
  <2>3. QED
    BY <2>1, <2>2 DEF Rooted
<1>13. Timers'
  <2>1. \A p \in User : HasTimer(timer_list, p) => pc[p] \in {"sleep_sched", "sleep_woken"}
    BY DEF KInv, KernInv, Timers, ArmedInFrame, HasTimer, TimerIndex
  <2>2. QED
    BY <1>1, <1>2, <1>3, <1>4, <2>1, TimersFrame DEF User, ForkAllowed
<1>14. NoLostWakeup'
  <2>1. ASSUME NEW p \in Proc, wait_state[p] = "WT_CHILD"
        PROVE  \E c \in Proc : Awaits(p, c)'
    <3>1. PICK c \in Proc : Awaits(p, c)
      BY <2>1 DEF KInv, KernInv, NoLostWakeup, SleeperHasWaker
    <3>2. QED
      BY <1>2, <1>4, <1>5, <3>1 DEF Awaits, Exists
  <2>2. SleeperHasWaker'
    BY <1>4, <2>1 DEF KInv, KernInv, NoLostWakeup, SleeperHasWaker
  <2>3. ASSUME NEW p \in Proc, NEW c \in Proc, Awaits(p, c)'
        PROVE  state'[c] # "ZOMBIE" \/ pc'[c] = "exit_links"
    <3>1. CASE c = child
      BY <1>4, <3>1
    <3>2. CASE c # child
      <4>1. Awaits(p, c)
        BY <1>4, <1>5, <2>3, <3>2 DEF Awaits, Exists
      <4>2. QED
        BY <1>1, <1>3, <1>4, <3>2, <4>1 DEF KInv, KernInv, NoLostWakeup
    <3>3. QED
      BY <3>1, <3>2
  <2>4. QED
    BY <2>2, <2>3 DEF NoLostWakeup
<1>15. Scheduler!Fork(child)
  <2>1. Blocking' = FALSE
    BY <1>1, <1>3, <1>4 DEF Blocking, ForkAllowed
  <2>2. RefilledSlice(child) = MAX_TIME_SLICE
    BY <1>2, SchedAssumption DEF RefilledSlice
  <2>3. QED
    BY <1>1, <1>2, <2>1, <2>2 DEF do_fork, Scheduler!Fork, Scheduler!RR_enqueue, RR_enqueue
<1>16. QED
  BY <1>8, <1>9, <1>10, <1>11, <1>12, <1>13, <1>14, <1>15 DEF KernInv, Scheduler!Next

-----------------------------------------------------------------------------
(***************************************************************************)
(* do_wait finds a ZOMBIE and takes it apart.                              *)
(***************************************************************************)
LEMMA ReapInv ==
  ASSUME KInv, NEW c \in User, do_wait_reap(c)
  PROVE  KernInv' /\ [Scheduler!Next]_(Scheduler!vars)
<1>1. /\ current \in Proc /\ Blocking = FALSE /\ pc[current] = "wait"
      /\ state[current] = "RUNNABLE" /\ wait_state[current] = "0" /\ current # idleproc
  BY CurrentFacts DEF Blocking, do_wait_reap, At
<1>2. /\ InList(c, children[current]) /\ state[c] = "ZOMBIE" /\ c \in Proc
      /\ c # idleproc /\ c # initproc
  <2>1. c \in Range(children[current])
    BY DEF do_wait_reap, Found, Targets, WaitTargets
  <2>2. QED
    BY <1>1, <2>1, RangeList DEF do_wait_reap, Found, KInv, KernInv, FieldTypes, User
<1>3. /\ parent[c] = current /\ c # current /\ pc[c] = "none" /\ wait_state[c] = "0"
      /\ children[c] = <<>>
  BY <1>1, <1>2, SchedFacts DEF KInv, KernInv, Stands, FamilyTree
<1> DEFINE next == IF current = initproc THEN "init_sched" ELSE "trapret"
<1>4. /\ pc' \in [Proc -> Label] /\ pc'[current] = next
      /\ \A p \in Proc : p # current => pc'[p] = pc[p]
  BY <1>1 DEF do_wait_reap, Goto, KInv, KernInv, FieldTypes, Label
<1>5. /\ \A p \in Proc : state'[p] = IF p = c THEN "UNUSED" ELSE state[p]
      /\ \A p \in Proc : parent'[p] = IF p = c THEN idleproc ELSE parent[p]
      /\ \A p \in Proc : exiting'[p] = IF p = c THEN FALSE ELSE exiting[p]
      /\ \A p \in Proc : wait_pid'[p] = IF p \in {c, current} THEN idleproc ELSE wait_pid[p]
      /\ \A p \in Proc : time_slice'[p] = IF p = c THEN 0 ELSE time_slice[p]
      /\ parent' \in [Proc -> Proc] /\ exiting' \in [Proc -> BOOLEAN] /\ wait_pid' \in [Proc -> Proc]
      /\ UNCHANGED <<current, wait_state, timer_list>>
  BY <1>1, <1>2, SchedFacts, SchedAssumption
  DEF do_wait_reap, KInv, KernInv, FieldTypes, RunqTypeOK
<1>6. \A p \in Proc : Exists(p)' <=> Exists(p) /\ p # c
  BY <1>5 DEF Exists
<1>7. /\ children' \in [Proc -> Seq(Proc)]
      /\ \A p \in Proc : p # current => children'[p] = children[p]
      /\ NoRepeat(children'[current])
      /\ \A q : InList(q, children'[current]) <=> InList(q, children[current]) /\ q # c
  <2> DEFINE list == children[current]
             i    == PlaceOf(current, c)
             rest == SubSeq(list, 1, i - 1) \o SubSeq(list, i + 1, Len(list))
  <2>1. list \in Seq(Proc) /\ NoRepeat(list)
    BY <1>1 DEF KInv, KernInv, FieldTypes, FamilyTree
  <2>2. i \in 1..Len(list) /\ list[i] = c
    BY <1>2 DEF InList, PlaceOf
  <2>3. children' = [children EXCEPT ![current] = rest]
    BY DEF do_wait_reap, Unlinked, RemoveAt
  <2> HIDE DEF i, list
  <2>4. rest \in Seq(Proc) /\ NoRepeat(rest) /\ \A q : InList(q, rest) <=> InList(q, list) /\ q # c
    BY <2>1, <2>2, CutList
  <2> HIDE DEF rest
  <2>5. QED
    BY <1>1, <2>3, <2>4 DEF KInv, KernInv, FieldTypes, list
<1>8. FieldTypes'
  BY <1>4, <1>5, <1>7 DEF KInv, KernInv, FieldTypes
<1>9. Stands'
  BY <1>1, <1>2, <1>3, <1>4, <1>5 DEF KInv, KernInv, Stands
<1>10. Places' /\ InitStays'
  BY <1>1, <1>2, <1>3, <1>4, <1>5, KernelAssumption, SchedAssumption
  DEF KInv, KernInv, Places, InitStays, User, InitLabel
<1>11. FamilyTree'
  <2>1. \A p, q \in Proc : InList(q, children'[p]) <=> Exists(q)' /\ q # idleproc /\ parent'[q] = p
    <3>1. ASSUME NEW p \in Proc, NEW q \in Proc
          PROVE  InList(q, children'[p]) <=> InList(q, children[p]) /\ ~(q = c /\ p = current)
      BY <1>7
    <3>2. ASSUME NEW p \in Proc, NEW q \in Proc
          PROVE  InList(q, children[p]) <=> Exists(q) /\ q # idleproc /\ parent[q] = p
      BY DEF KInv, KernInv, FamilyTree
    <3>3. QED
      BY <1>3, <1>5, <1>6, <3>1, <3>2
  <2>2. \A p \in Proc : NoRepeat(children'[p])
    BY <1>7 DEF KInv, KernInv, FamilyTree
  <2>3. \A p \in Proc : state'[p] \in {"UNUSED", "ZOMBIE"} /\ pc'[p] # "exit_links"
                         => children'[p] = <<>>
    <3>1. ASSUME NEW p \in Proc, p # current, p # c
          PROVE  state'[p] = state[p] /\ pc'[p] = pc[p] /\ children'[p] = children[p]
      BY <1>4, <1>5, <1>7, <3>1
    <3>2. state'[current] = "RUNNABLE" /\ children'[c] = <<>>
      BY <1>1, <1>2, <1>3, <1>5, <1>7
    <3>3. QED
      BY <3>1, <3>2 DEF KInv, KernInv, FamilyTree
  <2>4. QED
    BY <2>1, <2>2, <2>3 DEF FamilyTree
<1>12. Rooted'
  <2>1. \A q \in User : Exists(q)' => parent'[q] # idleproc
    BY <1>5, <1>6 DEF KInv, KernInv, Rooted, User
  <2>2. ASSUME NEW S \in SUBSET User, S # {}, \A q \in S : Exists(q)'
        PROVE  \E q \in S : parent'[q] \notin S
    <3>1. \A q \in S : Exists(q) /\ parent'[q] = parent[q]
      BY <1>5, <1>6, <2>2 DEF User
    <3>2. QED
      BY <2>2, <3>1 DEF KInv, KernInv, Rooted
  <2>3. QED
    BY <2>1, <2>2 DEF Rooted
<1>13. Timers'
  <2>1. \A p \in User : HasTimer(timer_list, p) => pc[p] \in {"sleep_sched", "sleep_woken"}
    BY DEF KInv, KernInv, Timers, ArmedInFrame, HasTimer, TimerIndex
  <2>2. QED
    BY <1>1, <1>3, <1>4, <1>5, <2>1, TimersFrame DEF User
<1>14. NoLostWakeup'
  <2>1. ASSUME NEW p \in Proc, wait_state[p] = "WT_CHILD", NEW q \in Proc
        PROVE  Awaits(p, q)' <=> Awaits(p, q)
    <3>1. p # c /\ p # current
      BY <1>1, <1>3, <2>1
    <3>2. QED
      BY <1>3, <1>5, <1>6, <3>1 DEF Awaits
  <2>2. SleeperHasWaker'
    BY <1>5, <2>1 DEF KInv, KernInv, NoLostWakeup, SleeperHasWaker
  <2>3. ASSUME NEW p \in Proc, NEW q \in Proc, Awaits(p, q)'
        PROVE  state'[q] # "ZOMBIE" \/ pc'[q] = "exit_links"
    <3>1. Awaits(p, q)
      BY <1>5, <2>1, <2>3 DEF Awaits
    <3>2. state[q] # "ZOMBIE" \/ pc[q] = "exit_links"
      BY <3>1 DEF KInv, KernInv, NoLostWakeup
    <3>3. QED
      BY <1>1, <1>4, <1>5, <3>2
  <2>4. QED
    BY <2>2, <2>3 DEF NoLostWakeup
<1>15. Scheduler!Reap(c)
  <2>1. Blocking' = FALSE
    BY <1>4, <1>5 DEF Blocking
  <2>2. QED
    BY <1>1, <1>2, <1>3, <2>1 DEF do_wait_reap, Scheduler!Reap
<1>16. QED
  BY <1>2, <1>8, <1>9, <1>10, <1>11, <1>12, <1>13, <1>14, <1>15 DEF KernInv, Scheduler!Next

-----------------------------------------------------------------------------
(***************************************************************************)
(* do_wait goes to sleep: whoever it waits for is there, and is no ZOMBIE. *)
(***************************************************************************)
LEMMA WaitSleepInv ==
  ASSUME KInv, do_wait_sleep
  PROVE  KernInv' /\ [Scheduler!Next]_(Scheduler!vars)
<1>1. /\ current \in Proc /\ Blocking = FALSE /\ pc[current] = "wait"
      /\ state[current] = "RUNNABLE" /\ wait_state[current] = "0" /\ current # idleproc
  BY CurrentFacts DEF Blocking, do_wait_sleep, At
<1>2. /\ pc' \in [Proc -> Label] /\ pc'[current] = "wait_sched"
      /\ \A p \in Proc : p # current => pc'[p] = pc[p]
  BY <1>1 DEF do_wait_sleep, Goto, KInv, KernInv, FieldTypes, Label
<1>3. /\ \A p \in Proc : state'[p] = IF p = current THEN "SLEEPING" ELSE state[p]
      /\ \A p \in Proc : wait_state'[p] = IF p = current THEN "WT_CHILD" ELSE wait_state[p]
      /\ UNCHANGED <<current, run_list, time_slice, need_resched,
                     parent, children, exiting, timer_list, wait_pid>>
  BY <1>1, SchedFacts DEF do_wait_sleep, RunqTypeOK, KInv
<1>4. FieldTypes'
  BY <1>2, <1>3 DEF KInv, KernInv, FieldTypes
<1>5. Stands'
  BY <1>1, <1>2, <1>3 DEF KInv, KernInv, Stands
<1>6. Places' /\ InitStays'
  BY <1>1, <1>2, <1>3, KernelAssumption, SchedAssumption
  DEF KInv, KernInv, Places, InitStays, User, InitLabel
<1>7. FamilyTree' /\ Rooted'
  BY <1>1, <1>2, <1>3, FamilyFrame
<1>8. Timers'
  <2>1. \A p \in User : HasTimer(timer_list, p) => pc[p] \in {"sleep_sched", "sleep_woken"}
    BY DEF KInv, KernInv, Timers, ArmedInFrame, HasTimer, TimerIndex
  <2>2. QED
    BY <1>1, <1>2, <1>3, <2>1, TimersFrame DEF User
<1>9. NoLostWakeup'
  <2>1. \A q : q \in Targets <=> /\ InList(q, children[current])
                                 /\ wait_pid[current] \in {idleproc, q}
    BY <1>1, RangeList DEF Targets, WaitTargets, KInv, KernInv, FieldTypes
  <2>2. ASSUME NEW q \in Proc
        PROVE  Awaits(current, q)' <=> q \in Targets
    <3>1. InList(q, children[current]) => q # current
      BY <1>1, ParentFacts DEF KInv, KernInv, FamilyTree
    <3>2. Exists(q)' <=> Exists(q)
      BY <1>1, <1>3 DEF Exists
    <3>3. parent[q] = current => q # idleproc
      BY <1>1 DEF KInv, KernInv, InitStays
    <3>4. QED
      BY <1>1, <1>3, <2>1, <3>1, <3>2, <3>3 DEF Awaits, KInv, KernInv, FamilyTree
  <2>3. ASSUME NEW p \in Proc, p # current, NEW q \in Proc
        PROVE  Awaits(p, q)' <=> Awaits(p, q)
    BY <1>1, <1>3, <2>3 DEF Awaits, Exists
  <2>4. \E q \in Proc : Awaits(current, q)'
    <3>1. PICK q \in Targets : TRUE
      BY DEF do_wait_sleep
    <3>2. q \in Proc
      <4>1. children[current] \in Seq(Proc) /\ InList(q, children[current])
        BY <1>1, <2>1 DEF KInv, KernInv, FieldTypes
      <4>2. QED
        BY <4>1, ElementOfSeq DEF InList
    <3>3. QED
      BY <2>2, <3>2
  <2>5. SleeperHasWaker'
    BY <1>1, <1>3, <2>3, <2>4 DEF KInv, KernInv, NoLostWakeup, SleeperHasWaker
  <2>6. ASSUME NEW p \in Proc, NEW q \in Proc, Awaits(p, q)'
        PROVE  state'[q] # "ZOMBIE" \/ pc'[q] = "exit_links"
    <3>1. CASE p = current
      BY <1>3, <2>2, <2>6, <3>1 DEF do_wait_sleep
    <3>2. CASE p # current
      <4>1. state[q] # "ZOMBIE" \/ pc[q] = "exit_links"
        BY <2>3, <2>6, <3>2 DEF KInv, KernInv, NoLostWakeup
      <4>2. QED
        BY <1>1, <1>2, <1>3, <4>1
    <3>3. QED
      BY <3>1, <3>2
  <2>7. QED
    BY <2>5, <2>6 DEF NoLostWakeup
<1>10. Scheduler!Sleep("WT_CHILD")
  <2>1. Blocking' = TRUE
    BY <1>2, <1>3 DEF Blocking
  <2>2. QED
    BY <1>1, <2>1 DEF do_wait_sleep, Scheduler!Sleep
<1>11. QED
  BY <1>4, <1>5, <1>6, <1>7, <1>8, <1>9, <1>10, KernelAssumption DEF KernInv, Scheduler!Next

(***************************************************************************)
(* do_exit: a ZOMBIE whose parent does not know of it yet.                 *)
(***************************************************************************)
LEMMA ExitInv ==
  ASSUME KInv, do_exit
  PROVE  KernInv' /\ [Scheduler!Next]_(Scheduler!vars)
<1>1. /\ current \in User /\ current \in Proc /\ Blocking = FALSE /\ pc[current] = "exit"
      /\ state[current] = "RUNNABLE" /\ wait_state[current] = "0"
      /\ current # idleproc /\ current # initproc
  BY CurrentFacts DEF Blocking, do_exit, At, User
<1>2. /\ pc' \in [Proc -> Label] /\ pc'[current] = "exit_links"
      /\ \A p \in Proc : p # current => pc'[p] = pc[p]
  BY <1>1 DEF do_exit, Goto, KInv, KernInv, FieldTypes, Label
<1>3. /\ \A p \in Proc : state'[p] = IF p = current THEN "ZOMBIE" ELSE state[p]
      /\ UNCHANGED <<current, wait_state, run_list, time_slice, need_resched,
                     parent, children, exiting, timer_list, wait_pid>>
  BY <1>1, SchedFacts DEF do_exit, RunqTypeOK, KInv
<1>4. FieldTypes'
  BY <1>2, <1>3 DEF KInv, KernInv, FieldTypes
<1>5. Stands'
  BY <1>1, <1>2, <1>3 DEF KInv, KernInv, Stands
<1>6. Places' /\ InitStays'
  BY <1>1, <1>2, <1>3, KernelAssumption, SchedAssumption
  DEF KInv, KernInv, Places, InitStays, User, InitLabel
<1>7. FamilyTree' /\ Rooted'
  BY <1>1, <1>2, <1>3, FamilyFrame
<1>8. Timers'
  <2>1. \A p \in User : HasTimer(timer_list, p) => pc[p] \in {"sleep_sched", "sleep_woken"}
    BY DEF KInv, KernInv, Timers, ArmedInFrame, HasTimer, TimerIndex
  <2>2. QED
    BY <1>1, <1>2, <1>3, <2>1, TimersFrame DEF User
<1>9. NoLostWakeup'
  <2>1. \A p \in Proc : wait_state[p] = "WT_TIMER" => HasTimer(timer_list, p)
    BY DEF KInv, KernInv, NoLostWakeup, SleeperHasWaker
  <2>2. QED
    BY <1>1, <1>2, <1>3, <2>1, WakeupFrame
<1>10. Scheduler!Exit
  <2>1. Blocking' = TRUE
    BY <1>2, <1>3 DEF Blocking
  <2>2. QED
    BY <1>1, <2>1 DEF do_exit, Scheduler!Exit
<1>11. QED
  BY <1>4, <1>5, <1>6, <1>7, <1>8, <1>9, <1>10 DEF KernInv, Scheduler!Next

(***************************************************************************)
(* do_sleep, before and after it gave up the CPU.                          *)
(***************************************************************************)
LEMMA SleepInv ==
  ASSUME KInv, NEW ticks \in 1..MAX_SLEEP, do_sleep(ticks)
  PROVE  KernInv' /\ [Scheduler!Next]_(Scheduler!vars)
<1>1. /\ current \in User /\ current \in Proc /\ Blocking = FALSE /\ pc[current] = "user"
      /\ state[current] = "RUNNABLE" /\ wait_state[current] = "0"
      /\ current # idleproc /\ current # initproc
  BY CurrentFacts DEF Blocking, do_sleep, At, User
<1>2. /\ pc' \in [Proc -> Label] /\ pc'[current] = "sleep_sched"
      /\ \A p \in Proc : p # current => pc'[p] = pc[p]
  BY <1>1 DEF do_sleep, Goto, KInv, KernInv, FieldTypes, Label
<1>3. /\ \A p \in Proc : state'[p] = IF p = current THEN "SLEEPING" ELSE state[p]
      /\ \A p \in Proc : wait_state'[p] = IF p = current THEN "WT_TIMER" ELSE wait_state[p]
      /\ UNCHANGED <<current, run_list, time_slice, need_resched,
                     parent, children, exiting, wait_pid>>
  BY <1>1, SchedFacts DEF do_sleep, RunqTypeOK, KInv
<1>4. FieldTypes'
  BY <1>2, <1>3 DEF KInv, KernInv, FieldTypes
<1>5. Stands'
  BY <1>1, <1>2, <1>3 DEF KInv, KernInv, Stands
<1>6. Places' /\ InitStays'
  BY <1>1, <1>2, <1>3, KernelAssumption, SchedAssumption
  DEF KInv, KernInv, Places, InitStays, User, InitLabel
<1>7. FamilyTree' /\ Rooted'
  BY <1>1, <1>2, <1>3, FamilyFrame
<1>8. /\ Ticking(timer_list') /\ OneEach(timer_list')
      /\ Armed(timer_list') = Armed(timer_list) \cup {current}
      /\ \A p : LeftOf(timer_list', p) <= MAX_SLEEP
  <2>1. current \notin Armed(timer_list)
    BY <1>1 DEF KInv, KernInv, Timers, ArmedInFrame, Armed
  <2>2. Ticking(timer_list) /\ \A p : LeftOf(timer_list, p) <= MAX_SLEEP
    BY DEF KInv, KernInv, Timers
  <2>3. timer_list' = add_timer(timer_list, current, ticks)
    BY DEF do_sleep
  <2>4. ticks \in Nat \ {0} /\ ticks <= MAX_SLEEP
    BY KernelAssumption
  <2>5. /\ Ticking(timer_list')
        /\ Armed(timer_list') = Armed(timer_list) \cup {current}
        /\ \A p : LeftOf(timer_list', p) = IF p = current THEN ticks ELSE LeftOf(timer_list, p)
    BY <2>1, <2>2, <2>3, <2>4, AddTimer
  <2>6. QED
    BY <2>2, <2>4, <2>5 DEF Ticking
<1>9. \A p : HasTimer(timer_list', p) <=> HasTimer(timer_list, p) \/ p = current
  BY <1>8, ArmedHasTimer
<1>10. Timers'
  <2>1. \A i \in 1..Len(timer_list') : HasTimer(timer_list', timer_list'[i].proc)
    BY ArmedHasTimer DEF Armed
  <2>2. \A p : HasTimer(timer_list, p) => p \in User /\ pc[p] \in {"sleep_sched", "sleep_woken"}
    BY DEF KInv, KernInv, Timers, ArmedInFrame, HasTimer, TimerIndex, Armed
  <2>3. ArmedInFrame'
    BY <1>2, <1>8, <1>9, <2>1, <2>2 DEF ArmedInFrame, OneEach, User
  <2>4. AwakeWasKilled'
    BY <1>1, <1>3, <1>9 DEF KInv, KernInv, Timers, AwakeWasKilled, User
  <2>5. QED
    BY <1>1, <1>8, <2>3, <2>4 DEF KInv, KernInv, Timers, User
<1>11. NoLostWakeup'
  <2>1. \A p \in Proc : wait_state[p] = "WT_TIMER" => HasTimer(timer_list, p)
    BY DEF KInv, KernInv, NoLostWakeup, SleeperHasWaker
  <2>2. QED
    BY <1>1, <1>2, <1>3, <1>9, <2>1, WakeupFrame
<1>12. Scheduler!Sleep("WT_TIMER")
  <2>1. Blocking' = TRUE
    BY <1>2, <1>3 DEF Blocking
  <2>2. QED
    BY <1>1, <2>1 DEF do_sleep, Scheduler!Sleep
<1>13. QED
  BY <1>4, <1>5, <1>6, <1>7, <1>10, <1>11, <1>12, KernelAssumption DEF KernInv, Scheduler!Next

(* do_sleep is over: del_timer takes out what is still armed.              *)
LEMMA SleepWokenInv ==
  ASSUME KInv, do_sleep_woken
  PROVE  KernInv' /\ [Scheduler!Next]_(Scheduler!vars)
<1>1. /\ current \in User /\ current \in Proc /\ Blocking = FALSE /\ pc[current] = "sleep_woken"
      /\ state[current] = "RUNNABLE" /\ wait_state[current] = "0"
      /\ current # idleproc /\ current # initproc
  BY CurrentFacts DEF Blocking, do_sleep_woken, At, User
<1>2. /\ pc' \in [Proc -> Label] /\ pc'[current] = "trapret"
      /\ \A p \in Proc : p # current => pc'[p] = pc[p]
  BY <1>1 DEF do_sleep_woken, Goto, KInv, KernInv, FieldTypes, Label
<1>3. UNCHANGED <<current, state, wait_state, run_list, time_slice, need_resched,
                  parent, children, exiting, wait_pid>>
  BY DEF do_sleep_woken, runqVars
<1>4. FieldTypes'
  BY <1>2, <1>3 DEF KInv, KernInv, FieldTypes
<1>5. Stands'
  BY <1>1, <1>2, <1>3 DEF KInv, KernInv, Stands
<1>6. Places' /\ InitStays'
  BY <1>1, <1>2, <1>3, KernelAssumption, SchedAssumption
  DEF KInv, KernInv, Places, InitStays, User, InitLabel
<1>7. FamilyTree' /\ Rooted'
  BY <1>1, <1>2, <1>3, FamilyFrame
<1>8. /\ Ticking(timer_list') /\ OneEach(timer_list')
      /\ Armed(timer_list') = Armed(timer_list) \ {current}
      /\ \A p : LeftOf(timer_list', p) <= MAX_SLEEP
  <2>1. Ticking(timer_list) /\ \A p : LeftOf(timer_list, p) <= MAX_SLEEP
    BY DEF KInv, KernInv, Timers
  <2>2. timer_list' = del_timer(timer_list, current)
    BY DEF do_sleep_woken, TimersAfterSleep
  <2>3. /\ Ticking(timer_list')
        /\ Armed(timer_list') = Armed(timer_list) \ {current}
        /\ \A p : LeftOf(timer_list', p) = IF p = current THEN 0 ELSE LeftOf(timer_list, p)
    BY <2>1, <2>2, DelTimer
  <2>4. QED
    BY <2>1, <2>3, KernelAssumption DEF Ticking
<1>9. \A p : HasTimer(timer_list', p) <=> HasTimer(timer_list, p) /\ p # current
  BY <1>8, ArmedHasTimer
<1>10. Timers'
  <2>1. \A i \in 1..Len(timer_list') : HasTimer(timer_list', timer_list'[i].proc)
    BY ArmedHasTimer DEF Armed
  <2>2. \A p : HasTimer(timer_list, p) => p \in User /\ pc[p] \in {"sleep_sched", "sleep_woken"}
    BY DEF KInv, KernInv, Timers, ArmedInFrame, HasTimer, TimerIndex, Armed
  <2>3. ArmedInFrame'
    BY <1>2, <1>8, <1>9, <2>1, <2>2 DEF ArmedInFrame, OneEach, User
  <2>4. AwakeWasKilled'
    BY <1>1, <1>3, <1>9 DEF KInv, KernInv, Timers, AwakeWasKilled, User
  <2>5. QED
    BY <1>1, <1>8, <2>3, <2>4 DEF KInv, KernInv, Timers, User
<1>11. NoLostWakeup'
  <2>1. \A p \in Proc : wait_state[p] = "WT_TIMER" => HasTimer(timer_list, p)
    BY DEF KInv, KernInv, NoLostWakeup, SleeperHasWaker
  <2>2. QED
    BY <1>1, <1>2, <1>3, <1>9, <2>1, WakeupFrame
<1>12. UNCHANGED (Scheduler!vars)
  <2>1. Blocking' = FALSE
    BY <1>2, <1>3 DEF Blocking
  <2>2. QED
    BY <1>1, <1>3, <2>1 DEF Scheduler!vars, Scheduler!runqVars
<1>13. QED
  BY <1>4, <1>5, <1>6, <1>7, <1>10, <1>11, <1>12 DEF KernInv

-----------------------------------------------------------------------------
(***************************************************************************)
(* Wakeups.                                                                *)
(***************************************************************************)
LEMMA ListIsOrdering ==
  ASSUME NEW T, NEW list \in Seq(T), NoRepeat(list),
         NEW S, \A x : InList(x, list) <=> x \in S
  PROVE  list \in Orderings(S)
<1>1. Len(list) \in Nat /\ list \in [1..Len(list) -> T] /\ DOMAIN list = 1..Len(list)
  BY LenProperties
<1>2. \A i \in 1..Len(list) : list[i] \in S
  BY DEF InList
<1>3. list \in [1..Len(list) -> S]
  BY <1>1, <1>2
<1>4. list \in Bijection(1..Len(list), S)
  <2>1. \A i, j \in 1..Len(list) : list[i] = list[j] => i = j
    BY DEF NoRepeat
  <2>2. \A x \in S : \E i \in 1..Len(list) : list[i] = x
    BY DEF InList
  <2>3. QED
    BY <1>1, <1>3, <2>1, <2>2 DEF Bijection, Injection, Surjection, IsInjective
<1>5. Cardinality(S) = Len(list)
  BY <1>1, <1>4, FS_CountingElements DEF ExistsBijection
<1>6. QED
  BY <1>3, <1>5 DEF Orderings

(* WakeupProcs is a Wakeup, or with the tick a Tick, of the scheduler.     *)
LEMMA WakeStep ==
  ASSUME KInv,
         NEW woken \in SUBSET Proc, \A p \in woken : state[p] = "SLEEPING",
         NEW joining \in Orderings({p \in woken : Enqueues(p)}),
         WakeupProcs(woken, joining),
         Blocking' = Blocking, current' = current,
         \/ time_slice' = SlicesAfterJoin(joining) /\ need_resched' = need_resched
         \/ sched_class_proc_tick(joining)
  PROVE  Scheduler!Next
<1>1. woken \in SUBSET Scheduler!Sleepers
  BY DEF Scheduler!Sleepers
<1>2. {p \in woken : Enqueues(p)} = {p \in woken : Scheduler!Enqueues(p)}
  BY DEF Enqueues, Scheduler!Enqueues
<1>3. \A S : Orderings(S) = Scheduler!Orderings(S)
  BY DEF Orderings, Scheduler!Orderings, NoRepeat, Scheduler!NoRepeat,
         InList, Scheduler!InList, Cardinality, Scheduler!Cardinality
<1>4. joining \in Scheduler!Orderings({p \in woken : Scheduler!Enqueues(p)})
  BY <1>2, <1>3
<1>5. Scheduler!WakeupProcs(woken, joining)
  BY DEF WakeupProcs, Scheduler!WakeupProcs
<1>6. SlicesAfterJoin(joining) = Scheduler!SlicesAfterJoin(joining)
  <2>1. \A p : RefilledSlice(p) = Scheduler!RefilledSlice(p)
    BY DEF RefilledSlice, Scheduler!RefilledSlice
  <2>2. QED
    BY <2>1 DEF SlicesAfterJoin, Scheduler!SlicesAfterJoin, InList, Scheduler!InList
<1>7. Scheduler!Wakeup(woken, joining) \/ Scheduler!Tick(woken, joining)
  <2>1. CASE time_slice' = SlicesAfterJoin(joining) /\ need_resched' = need_resched
    BY <1>5, <1>6, <2>1 DEF Scheduler!Wakeup
  <2>2. CASE sched_class_proc_tick(joining)
    <3>1. Scheduler!sched_class_proc_tick(joining)
      BY <1>6, <2>2 DEF sched_class_proc_tick, Scheduler!sched_class_proc_tick,
                        SliceAfterTick, Scheduler!SliceAfterTick
    <3>2. QED
      BY <1>5, <3>1 DEF Scheduler!Tick
  <2>3. QED
    BY <2>1, <2>2
<1>8. QED
  BY <1>1, <1>4, <1>7 DEF Scheduler!Next

(* The fields of a woken process.                                          *)
LEMMA WakeFields ==
  ASSUME KInv, NEW woken \in SUBSET Proc, \A p \in woken : state[p] = "SLEEPING",
         NEW joining, WakeupProcs(woken, joining)
  PROVE  /\ \A p \in Proc : state'[p] = IF p \in woken THEN "RUNNABLE" ELSE state[p]
         /\ \A p \in Proc : wait_state'[p] = IF p \in woken THEN "0" ELSE wait_state[p]
         /\ \A p \in woken : p # idleproc /\ pc[p] \notin {"none", "exit_links", "exit_sched"}
BY SchedFacts DEF KInv, KernInv, Stands, WakeupProcs

(* Queueing what exists leaves the slices of free slots alone.             *)
LEMMA WakeSlices ==
  ASSUME KInv, NEW list, \A q \in Proc : InList(q, list) => state[q] # "UNUSED"
  PROVE  \A p \in Proc : state[p] = "UNUSED" => SlicesAfterJoin(list)[p] = 0
BY DEF SlicesAfterJoin, KInv, KernInv, Stands

(***************************************************************************)
(* do_kill.                                                                *)
(***************************************************************************)
LEMMA KillInv ==
  ASSUME KInv, NEW p \in User, do_kill(p)
  PROVE  KernInv' /\ [Scheduler!Next]_(Scheduler!vars)
<1>1. /\ current \in User /\ current \in Proc /\ Blocking = FALSE /\ pc[current] = "user"
      /\ state[current] = "RUNNABLE" /\ wait_state[current] = "0"
      /\ current # idleproc /\ current # initproc
      /\ p \in Proc /\ p # idleproc /\ p # initproc
  BY CurrentFacts DEF Blocking, do_kill, At, User
<1> DEFINE list  == KillWakes(p)
           woken == Range(list)
<1>2. /\ list \in Seq(Proc) /\ NoRepeat(list)
      /\ \A q : InList(q, list) <=> q = p /\ wait_state[p] # "0"
  <2>1. CASE wait_state[p] = "0"
    BY <2>1, EmptyList, EmptySeq DEF KillWakes
  <2>2. CASE wait_state[p] # "0"
    BY <1>1, <2>2, SingletonList DEF KillWakes
  <2>3. QED
    BY <2>1, <2>2
<1> HIDE DEF list
<1>3. \A q : q \in woken <=> q = p /\ wait_state[p] # "0"
  BY <1>2, RangeList
<1> HIDE DEF woken
<1>4. woken \in SUBSET Proc /\ (\A q \in woken : state[q] = "SLEEPING")
  BY <1>1, <1>3, SchedFacts DEF KInv
<1>5. list \in Orderings({q \in woken : Enqueues(q)})
  <2>1. \A q : InList(q, list) <=> q \in {r \in woken : Enqueues(r)}
    BY <1>1, <1>2, <1>3 DEF Enqueues
  <2>2. QED
    BY <1>2, <2>1, ListIsOrdering
<1>6. /\ WakeupProcs(woken, list) /\ time_slice' = SlicesAfterJoin(list)
      /\ exiting' = [exiting EXCEPT ![p] = TRUE]
      /\ UNCHANGED <<current, need_resched, parent, children, timer_list, wait_pid>>
  BY DEF do_kill, list, woken
<1>7. /\ \A q \in Proc : state'[q] = IF q \in woken THEN "RUNNABLE" ELSE state[q]
      /\ \A q \in Proc : wait_state'[q] = IF q \in woken THEN "0" ELSE wait_state[q]
      /\ \A q \in woken : q # idleproc /\ pc[q] \notin {"none", "exit_links", "exit_sched"}
  BY <1>4, <1>6, WakeFields
<1>8. /\ pc' \in [Proc -> Label] /\ pc'[current] = "trapret"
      /\ \A q \in Proc : q # current => pc'[q] = pc[q]
  BY <1>1 DEF do_kill, Goto, KInv, KernInv, FieldTypes, Label
<1>9. FieldTypes'
  BY <1>6, <1>8 DEF KInv, KernInv, FieldTypes
<1>10. Stands'
  <2>1. \A q \in Proc : state[q] = "UNUSED" => time_slice'[q] = 0
    <3>1. \A q \in Proc : InList(q, list) => state[q] # "UNUSED"
      BY <1>2, <1>3, <1>4
    <3>2. QED
      BY <1>6, <3>1, WakeSlices
  <2>2. QED
    BY <1>1, <1>4, <1>6, <1>7, <1>8, <2>1 DEF KInv, KernInv, Stands
<1>11. Places' /\ InitStays'
  BY <1>1, <1>3, <1>4, <1>6, <1>7, <1>8, KernelAssumption, SchedAssumption
  DEF KInv, KernInv, FieldTypes, Places, InitStays, User, InitLabel
<1>12. FamilyTree' /\ Rooted'
  BY <1>1, <1>4, <1>6, <1>7, <1>8, FamilyFrame
<1>13. Timers'
  <2>1. \A q \in User : HasTimer(timer_list, q) => pc[q] \in {"sleep_sched", "sleep_woken"}
    BY DEF KInv, KernInv, Timers, ArmedInFrame, HasTimer, TimerIndex
  <2>2. \A q \in Proc : exiting'[q] = IF q = p THEN TRUE ELSE exiting[q]
    BY <1>6 DEF KInv, KernInv, FieldTypes
  <2>3. QED
    BY <1>1, <1>3, <1>6, <1>7, <1>8, <2>1, <2>2, TimersFrame DEF User
<1>14. NoLostWakeup'
  <2>1. \A q \in Proc : wait_state[q] = "WT_TIMER" => HasTimer(timer_list, q)
    BY DEF KInv, KernInv, NoLostWakeup, SleeperHasWaker
  <2>2. QED
    BY <1>1, <1>4, <1>6, <1>7, <1>8, <2>1, WakeupFrame
<1>15. Scheduler!Next
  <2>1. Blocking' = Blocking
    BY <1>1, <1>6, <1>8 DEF Blocking
  <2>2. QED
    BY <1>4, <1>5, <1>6, <2>1, WakeStep
<1>16. QED
  BY <1>9, <1>10, <1>11, <1>12, <1>13, <1>14, <1>15 DEF KernInv

(***************************************************************************)
(* The timer interrupt.                                                    *)
(***************************************************************************)
LEMMA TickInv ==
  ASSUME KInv, run_timer_list
  PROVE  KernInv' /\ [Scheduler!Next]_(Scheduler!vars)
<1>1. /\ current \in Proc /\ pc[current] # "none"
      /\ pc[current] = "user" => /\ current \in User /\ current # idleproc /\ current # initproc
                                 /\ state[current] = "RUNNABLE" /\ wait_state[current] = "0"
      /\ Blocking => current # idleproc
  BY CurrentFacts, SchedFacts DEF Blocking, User, KInv
<1>2. /\ Ticking(timer_list') /\ OneEach(timer_list')
      /\ Range(ExpiredProcs(timer_list)) \subseteq Armed(timer_list)
      /\ Armed(timer_list') = Armed(timer_list) \ Range(ExpiredProcs(timer_list))
      /\ \A p : LeftOf(timer_list', p) <= MAX_SLEEP
  <2>1. Ticking(timer_list) /\ \A p : LeftOf(timer_list, p) <= MAX_SLEEP
    BY DEF KInv, KernInv, Timers
  <2>2. timer_list' = AfterTick(timer_list)
    BY DEF run_timer_list
  <2>3. \A p : LeftOf(timer_list', p) = IF LeftOf(timer_list, p) > 0 THEN LeftOf(timer_list, p) - 1 ELSE 0
    BY <2>1, <2>2, TickTimers
  <2>4. \A p : LeftOf(timer_list, p) \in Nat
    BY <2>1, LeftIsNat
  <2>5. \A p : LeftOf(timer_list', p) <= MAX_SLEEP
    BY <2>1, <2>3, <2>4, KernelAssumption
  <2>6. /\ Ticking(timer_list')
        /\ Range(ExpiredProcs(timer_list)) \subseteq Armed(timer_list)
        /\ Armed(timer_list') = Armed(timer_list) \ Range(ExpiredProcs(timer_list))
    BY <2>1, <2>2, TickTimers
  <2>7. QED
    BY <2>5, <2>6 DEF Ticking
<1>3. \A p : /\ HasTimer(timer_list, p) => p \in User /\ p \in Proc
                                           /\ pc[p] \in {"sleep_sched", "sleep_woken"}
             /\ HasTimer(timer_list', p) <=> /\ HasTimer(timer_list, p)
                                             /\ p \notin Range(ExpiredProcs(timer_list))
             /\ p \in Expired <=> p \in Range(ExpiredProcs(timer_list)) /\ state[p] # "RUNNABLE"
             /\ p \in Expired => HasTimer(timer_list, p)
  <2> DEFINE fired == Range(ExpiredProcs(timer_list))
  <2>1. \A p : HasTimer(timer_list, p) => p \in User /\ p \in Proc
                                          /\ pc[p] \in {"sleep_sched", "sleep_woken"}
    BY DEF KInv, KernInv, Timers, ArmedInFrame, HasTimer, TimerIndex, Armed, User
  <2>2. \A p : HasTimer(timer_list', p) <=> p \in Armed(timer_list')
    BY ArmedHasTimer
  <2>3. \A p : HasTimer(timer_list, p) <=> p \in Armed(timer_list)
    BY ArmedHasTimer
  <2>4. \A p : p \in Expired <=> p \in fired /\ state[p] # "RUNNABLE"
    BY DEF Expired
  <2> HIDE DEF fired
  <2>5. fired \subseteq Armed(timer_list) /\ Armed(timer_list') = Armed(timer_list) \ fired
    BY <1>2 DEF fired
  <2>6. QED
    BY <2>1, <2>2, <2>3, <2>4, <2>5 DEF fired
<1>4. Expired \in SUBSET Proc /\ (\A p \in Expired : state[p] = "SLEEPING")
  BY <1>3, SchedFacts DEF KInv, KernInv, Stands, RunqTypeOK, ProcState
<1>5. PICK joining \in Orderings({p \in Expired : Enqueues(p)}) :
        WakeupProcs(Expired, joining) /\ sched_class_proc_tick(joining)
  BY DEF run_timer_list
<1>6. \A p : InList(p, joining) <=> p \in Expired /\ Enqueues(p)
  <2> DEFINE S == {p \in Expired : Enqueues(p)}
  <2>1. S \in SUBSET Proc /\ joining \in Orderings(S)
    BY <1>4
  <2>2. \A p : p \in S <=> p \in Expired /\ Enqueues(p)
    OBVIOUS
  <2> HIDE DEF S
  <2>3. IsFiniteSet(S)
    BY <2>1, FS_Subset, SchedAssumption
  <2>4. QED
    BY <2>1, <2>2, <2>3, OrderingsList
<1>7. /\ \A p \in Proc : state'[p] = IF p \in Expired THEN "RUNNABLE" ELSE state[p]
      /\ \A p \in Proc : wait_state'[p] = IF p \in Expired THEN "0" ELSE wait_state[p]
      /\ \A p \in Expired : p # idleproc /\ pc[p] \notin {"none", "exit_links", "exit_sched"}
  BY <1>4, <1>5, WakeFields
<1>8. UNCHANGED <<current, parent, children, exiting, wait_pid>>
  BY DEF run_timer_list
<1>9. /\ pc' \in [Proc -> Label]
      /\ \A p \in Proc : pc'[p] = IF p = current /\ pc[p] = "user" THEN "trapret" ELSE pc[p]
  BY <1>1 DEF run_timer_list, At, KInv, KernInv, FieldTypes, Label
<1>10. FieldTypes'
  BY <1>8, <1>9 DEF KInv, KernInv, FieldTypes
<1>11. Stands'
  <2>1. \A p \in Proc : state[p] = "UNUSED" => time_slice'[p] = 0
    <3>1. \A p \in Proc : state[p] = "UNUSED" => SlicesAfterJoin(joining)[p] = 0
      BY <1>4, <1>6, WakeSlices
    <3>2. state[current] # "UNUSED"
      BY <1>1 DEF KInv, KernInv, Stands
    <3>3. \A p \in Proc : p # current => time_slice'[p] = SlicesAfterJoin(joining)[p]
      BY <1>5 DEF sched_class_proc_tick, SlicesAfterJoin
    <3>4. QED
      BY <3>1, <3>2, <3>3
  <2>2. QED
    BY <1>1, <1>4, <1>7, <1>8, <1>9, <2>1 DEF KInv, KernInv, Stands
<1>12. Places' /\ InitStays'
  BY <1>1, <1>3, <1>4, <1>7, <1>8, <1>9, KernelAssumption, SchedAssumption
  DEF KInv, KernInv, FieldTypes, Places, InitStays, User, InitLabel
<1>13. FamilyTree' /\ Rooted'
  BY <1>1, <1>4, <1>7, <1>8, <1>9, FamilyFrame
<1>14. Timers'
  <2>1. \A i \in 1..Len(timer_list') : HasTimer(timer_list', timer_list'[i].proc)
    BY ArmedHasTimer DEF Armed
  <2>2. ArmedInFrame'
    BY <1>1, <1>2, <1>3, <1>9, <2>1 DEF ArmedInFrame, OneEach
  <2>3. AwakeWasKilled'
    BY <1>3, <1>7, <1>8 DEF KInv, KernInv, Timers, AwakeWasKilled
  <2>4. QED
    BY <1>2, <2>2, <2>3 DEF KInv, KernInv, Timers
<1>15. NoLostWakeup'
  <2>1. \A p \in Proc : wait_state[p] = "WT_TIMER" => HasTimer(timer_list, p) /\ state[p] = "SLEEPING"
    BY SchedFacts DEF KInv, KernInv, NoLostWakeup, SleeperHasWaker
  <2>2. \A p \in Proc : wait_state'[p] = "WT_TIMER" => HasTimer(timer_list', p)
    BY <1>3, <1>7, <2>1
  <2>3. QED
    BY <1>1, <1>4, <1>7, <1>8, <1>9, <2>2, WakeupFrame
<1>16. Scheduler!Next
  <2>1. Blocking' = Blocking
    BY <1>1, <1>8, <1>9 DEF Blocking
  <2>2. QED
    BY <1>4, <1>5, <1>8, <2>1, WakeStep
<1>17. QED
  BY <1>10, <1>11, <1>12, <1>13, <1>14, <1>15, <1>16 DEF KernInv

-----------------------------------------------------------------------------
(***************************************************************************)
(* schedule().                                                             *)
(***************************************************************************)
LEMMA NextCurrent ==
  ASSUME KInv, schedule
  PROVE  current' \in Proc
<1>1. run_list \in Seq(Proc) /\ NoRepeat(run_list) /\ current \in Proc /\ idleproc \in Proc
      /\ (Requeues => ~InList(current, run_list))
  BY SchedFacts, SchedAssumption DEF KInv, RunqTypeOK
<1>2. QueueWithCurrent \in Seq(Proc) /\ NoRepeat(QueueWithCurrent)
  BY <1>1, AppendList DEF QueueWithCurrent, RR_enqueue
<1>3. CASE QueueWithCurrent = <<>>
  BY <1>1, <1>3 DEF schedule
<1>4. CASE QueueWithCurrent # <<>>
  BY <1>2, <1>4, TailList DEF schedule
<1>5. QED
  BY <1>3, <1>4

(* The process that gives up the CPU goes on past its call; nothing else   *)
(* moves.                                                                  *)
LEMMA ScheduleInv ==
  ASSUME KInv, call_schedule \/ trap_resched
  PROVE  KernInv' /\ [Scheduler!Next]_(Scheduler!vars)
<1> DEFINE Before == {"wait_sched", "sleep_sched", "exit_sched", "init_sched", "idle", "trapret"}
           next == CASE pc[current] = "wait_sched" -> "wait_woken"
                     [] pc[current] = "sleep_sched" -> "sleep_woken"
                     [] pc[current] = "exit_sched" -> "none"
                     [] pc[current] = "init_sched" -> "wait"
                     [] pc[current] = "idle" -> "idle"
                     [] OTHER -> "user"
<1>1. /\ pc[current] \in Before
      /\ schedule
      /\ current = idleproc => need_resched[idleproc]
      /\ Goto(next)
      /\ UNCHANGED <<parent, children, exiting, timer_list, wait_pid>>
  <2>1. CASE call_schedule
    BY <2>1 DEF call_schedule, AfterSchedule
  <2>2. CASE trap_resched
    <3>1. pc[current] = "trapret" /\ current # idleproc
      BY <2>2, CurrentFacts DEF trap_resched, At, User
    <3>2. QED
      BY <2>2, <3>1 DEF trap_resched
  <2>3. QED
    BY <2>1, <2>2
<1>2. current \in Proc /\ current' \in Proc /\ UNCHANGED <<state, wait_state>>
  BY <1>1, CurrentFacts, NextCurrent DEF schedule
<1>3. /\ pc' \in [Proc -> Label] /\ pc'[current] = next
      /\ \A p \in Proc : p # current => pc'[p] = pc[p]
      /\ next \in {"wait_woken", "sleep_woken", "none", "wait", "idle", "user"}
  BY <1>1, <1>2 DEF Goto, KInv, KernInv, FieldTypes, Label
<1>4. /\ next = "none" <=> pc[current] = "exit_sched"
      /\ next = "wait_woken" <=> pc[current] = "wait_sched"
      /\ next = "sleep_woken" <=> pc[current] = "sleep_sched"
      /\ next = "wait" <=> pc[current] = "init_sched"
      /\ next = "idle" <=> pc[current] = "idle"
      /\ next = "user" <=> pc[current] = "trapret"
  BY <1>1
<1> HIDE DEF next
<1>5. FieldTypes'
  BY <1>1, <1>3 DEF KInv, KernInv, FieldTypes
<1>6. Stands'
  <2>1. \A p \in Proc : state[p] = "UNUSED" => time_slice'[p] = time_slice[p]
    BY <1>1, SchedFacts DEF schedule, Requeues, KInv, RunqTypeOK
  <2>2. /\ state[current] = "ZOMBIE" <=> pc[current] = "exit_sched"
        /\ state[current] # "UNUSED"
    BY <1>1, <1>2 DEF KInv, KernInv, Stands
  <2>3. QED
    BY <1>1, <1>2, <1>3, <1>4, <2>1, <2>2 DEF KInv, KernInv, Stands
<1>7. Places' /\ InitStays'
  BY <1>1, <1>2, <1>3, <1>4, KernelAssumption, SchedAssumption
  DEF KInv, KernInv, Places, InitStays, User, InitLabel
<1>8. FamilyTree' /\ Rooted'
  BY <1>1, <1>2, <1>3, FamilyFrame
<1>9. Timers'
  <2>1. \A p \in User : HasTimer(timer_list, p) => pc[p] \in {"sleep_sched", "sleep_woken"}
    BY DEF KInv, KernInv, Timers, ArmedInFrame, HasTimer, TimerIndex
  <2>2. QED
    BY <1>1, <1>2, <1>3, <1>4, <2>1, TimersFrame DEF User
<1>10. NoLostWakeup'
  <2>1. \A p \in Proc : wait_state[p] = "WT_TIMER" => HasTimer(timer_list, p)
    BY DEF KInv, KernInv, NoLostWakeup, SleeperHasWaker
  <2>2. QED
    BY <1>1, <1>2, <1>3, <2>1, WakeupFrame
<1>11. Scheduler!Schedule
  <2>1. Blocking' = FALSE
    <3>1. CASE current' = current
      BY <1>3, <3>1 DEF Blocking
    <3>2. CASE current' # current
      BY <1>2, <1>3, <3>2 DEF Blocking, KInv, KernInv, Stands
    <3>3. QED
      BY <3>1, <3>2
  <2>2. Scheduler!schedule
    BY <1>1 DEF schedule, Scheduler!schedule, Requeues, Scheduler!Requeues,
                QueueWithCurrent, Scheduler!QueueWithCurrent, RR_enqueue, Scheduler!RR_enqueue,
                RefilledSlice, Scheduler!RefilledSlice
  <2>3. QED
    BY <1>1, <2>1, <2>2 DEF Scheduler!Schedule
<1>12. QED
  BY <1>5, <1>6, <1>7, <1>8, <1>9, <1>10, <1>11 DEF KernInv, Scheduler!Next

-----------------------------------------------------------------------------
(***************************************************************************)
(* do_exit hands the children to init and wakes who waits for this.        *)
(***************************************************************************)
LEMMA ReverseList ==
  ASSUME NEW S, NEW list \in Seq(S)
  PROVE  /\ Reverse(list) \in Seq(S)
         /\ \A q : InList(q, Reverse(list)) <=> InList(q, list)
         /\ NoRepeat(list) => NoRepeat(Reverse(list))
<1> DEFINE n == Len(list)
           back == [i \in 1..n |-> list[(n - i) + 1]]
<1>1. n \in Nat /\ \A i \in 1..n : list[i] \in S
  BY LenProperties, ElementOfSeq
<1>2. Reverse(list) = back
  BY DEF Reverse
<1>3. back \in Seq(S) /\ Len(back) = n
  BY <1>1
<1>4. \A i \in 1..n : (n - i) + 1 \in 1..n /\ back[i] = list[(n - i) + 1]
                      /\ (n - ((n - i) + 1)) + 1 = i
  BY <1>1
<1> HIDE DEF back
<1>5. \A q : InList(q, back) <=> InList(q, list)
  <2>1. ASSUME NEW q, InList(q, back) PROVE InList(q, list)
    BY <1>3, <1>4, <2>1 DEF InList
  <2>2. ASSUME NEW q, NEW i \in 1..n, list[i] = q PROVE InList(q, back)
    <3>1. (n - i) + 1 \in 1..n /\ back[(n - i) + 1] = q
      BY <1>4, <2>2
    <3>2. QED
      BY <1>3, <3>1 DEF InList
  <2>3. QED
    BY <2>1, <2>2 DEF InList
<1>6. NoRepeat(list) => NoRepeat(back)
  <2>1. SUFFICES ASSUME NoRepeat(list), NEW i \in 1..n, NEW j \in 1..n, back[i] = back[j]
                 PROVE  i = j
    BY <1>3 DEF NoRepeat
  <2>2. list[(n - i) + 1] = list[(n - j) + 1]
    BY <1>4, <2>1
  <2>3. (n - i) + 1 = (n - j) + 1
    BY <1>4, <2>1, <2>2 DEF NoRepeat
  <2>4. QED
    BY <1>1, <2>3
<1>7. QED
  BY <1>2, <1>3, <1>5, <1>6

(* Who is woken, and that each of them is asleep.                          *)
LEMMA ExitWakesList ==
  ASSUME KInv, current \in User
  PROVE  /\ ExitWakes \in Seq(Proc) /\ NoRepeat(ExitWakes)
         /\ \A q : InList(q, ExitWakes) <=>
              \/ q = parent[current] /\ wait_state[parent[current]] = "WT_CHILD"
              \/ q = initproc /\ WakesInit
<1> DEFINE one == IF wait_state[parent[current]] = "WT_CHILD" THEN <<parent[current]>> ELSE <<>>
           two == IF WakesInit THEN <<initproc>> ELSE <<>>
<1>1. parent[current] \in Proc /\ initproc \in Proc
  BY KernelAssumption DEF User, KInv, KernInv, FieldTypes
<1>2. /\ one \in Seq(Proc) /\ NoRepeat(one)
      /\ \A q : InList(q, one) <=> q = parent[current] /\ wait_state[parent[current]] = "WT_CHILD"
  <2>1. CASE wait_state[parent[current]] = "WT_CHILD"
    BY <1>1, <2>1, SingletonList
  <2>2. CASE wait_state[parent[current]] # "WT_CHILD"
    BY <2>2, EmptyList, EmptySeq
  <2>3. QED
    BY <2>1, <2>2
<1>3. /\ two \in Seq(Proc) /\ NoRepeat(two)
      /\ \A q : InList(q, two) <=> q = initproc /\ WakesInit
  <2>1. CASE WakesInit
    BY <1>1, <2>1, SingletonList
  <2>2. CASE ~WakesInit
    BY <2>2, EmptyList, EmptySeq
  <2>3. QED
    BY <2>1, <2>2
<1>4. ExitWakes = one \o two
  BY DEF ExitWakes
<1> HIDE DEF one, two
<1>5. \A q : ~(InList(q, one) /\ InList(q, two))
  BY <1>2, <1>3 DEF WakesInit
<1>6. QED
  BY <1>2, <1>3, <1>4, <1>5, ConcatLists

(* The links that go to init and the wakeups of do_exit, in one step with  *)
(* interrupts off.                                                         *)
LEMMA ExitLinksInv ==
  ASSUME KInv, do_exit_links
  PROVE  KernInv' /\ [Scheduler!Next]_(Scheduler!vars)
<1> DEFINE kids  == children[current]
           up    == parent[current]
           woken == Range(ExitWakes)
<1>1. /\ current \in User /\ current \in Proc /\ Blocking = TRUE /\ pc[current] = "exit_links"
      /\ state[current] = "ZOMBIE" /\ wait_state[current] = "0"
      /\ current # idleproc /\ current # initproc
      /\ initproc \in Proc /\ initproc # idleproc /\ initproc \notin User
  <2>1. current \in User /\ pc[current] = "exit_links"
    BY CurrentFacts DEF do_exit_links, At
  <2>2. state[current] = "ZOMBIE" /\ wait_state[current] = "0"
    BY <2>1, SchedFacts DEF KInv, KernInv, Stands, User
  <2>3. QED
    BY <2>1, <2>2, KernelAssumption DEF User, Blocking
<1>2. up \in Proc /\ up # current /\ up # idleproc
  <2>1. Exists(current)
    BY <1>1 DEF Exists
  <2>2. QED
    BY <1>1, <2>1, ParentFacts DEF KInv, KernInv, Rooted
<1>3. /\ ExitWakes \in Seq(Proc) /\ NoRepeat(ExitWakes)
      /\ \A q : InList(q, ExitWakes) <=> \/ q = up /\ wait_state[up] = "WT_CHILD"
                                         \/ q = initproc /\ WakesInit
  BY <1>1, ExitWakesList
<1>4. \A q : q \in woken <=> \/ q = up /\ wait_state[up] = "WT_CHILD"
                             \/ q = initproc /\ WakesInit
  BY <1>3, RangeList
<1>5. \A q \in woken : /\ q \in Proc /\ q # current /\ q # idleproc
                       /\ wait_state[q] = "WT_CHILD" /\ state[q] = "SLEEPING"
  BY <1>1, <1>2, <1>4, SchedFacts DEF WakesInit, KInv
<1>6. ExitWakes \in Orderings({q \in woken : Enqueues(q)})
  <2>1. \A q : InList(q, ExitWakes) <=> q \in {r \in woken : Enqueues(r)}
    BY <1>3, <1>4, <1>5 DEF Enqueues
  <2>2. QED
    BY <1>3, <2>1, ListIsOrdering
<1>7. /\ WakeupProcs(woken, ExitWakes) /\ time_slice' = SlicesAfterJoin(ExitWakes)
      /\ parent' = ParentAfterExit
      /\ children' = [children EXCEPT ![current] = <<>>, ![initproc] = Reverse(kids) \o @]
      /\ UNCHANGED <<current, need_resched, exiting, timer_list, wait_pid>>
  BY DEF do_exit_links
<1> HIDE DEF woken
<1>8. /\ \A q \in Proc : state'[q] = IF q \in woken THEN "RUNNABLE" ELSE state[q]
      /\ \A q \in Proc : wait_state'[q] = IF q \in woken THEN "0" ELSE wait_state[q]
  BY <1>5, <1>7, WakeFields
<1>9. /\ pc' \in [Proc -> Label] /\ pc'[current] = "exit_sched"
      /\ \A q \in Proc : q # current => pc'[q] = pc[q]
  BY <1>1 DEF do_exit_links, Goto, KInv, KernInv, FieldTypes, Label
<1>10. \A q \in Proc : Exists(q)' <=> Exists(q)
  BY <1>5, <1>8 DEF Exists
<1>11. /\ kids \in Seq(Proc) /\ NoRepeat(kids)
       /\ \A q : InList(q, kids) <=> /\ q \in Proc /\ Exists(q)
                                     /\ q # idleproc /\ parent[q] = current
  <2>1. kids \in Seq(Proc) /\ NoRepeat(kids)
    BY <1>1 DEF KInv, KernInv, FieldTypes, FamilyTree
  <2>2. \A q : InList(q, kids) => q \in Proc
    BY <2>1, ElementOfSeq DEF InList
  <2>3. QED
    BY <1>1, <2>1, <2>2 DEF KInv, KernInv, FamilyTree
<1>12. /\ parent' \in [Proc -> Proc]
       /\ \A q \in Proc : parent'[q] = IF InList(q, kids) THEN initproc ELSE parent[q]
  <2>1. \A q : q \in Range(kids) <=> InList(q, kids)
    BY <1>11, RangeList
  <2>2. QED
    BY <1>1, <1>7, <2>1 DEF ParentAfterExit, KInv, KernInv, FieldTypes
<1>13. ~InList(initproc, kids) /\ ~InList(current, kids)
  BY <1>1, <1>2, <1>11 DEF KInv, KernInv, InitStays
<1>14. /\ children' \in [Proc -> Seq(Proc)]
       /\ children'[current] = <<>>
       /\ \A p \in Proc : p # current /\ p # initproc => children'[p] = children[p]
       /\ NoRepeat(children'[initproc])
       /\ \A q : InList(q, children'[initproc]) <=> \/ InList(q, kids)
                                                    \/ InList(q, children[initproc])
  <2> DEFINE back == Reverse(kids)
             all  == back \o children[initproc]
  <2>1. back \in Seq(Proc) /\ NoRepeat(back) /\ \A q : InList(q, back) <=> InList(q, kids)
    BY <1>11, ReverseList
  <2>2. children[initproc] \in Seq(Proc) /\ NoRepeat(children[initproc])
    BY <1>1 DEF KInv, KernInv, FieldTypes, FamilyTree
  <2>3. \A q : InList(q, children[initproc]) /\ q \in Proc => parent[q] = initproc
    BY <1>1 DEF KInv, KernInv, FamilyTree
  <2>4. children' = [children EXCEPT ![current] = <<>>, ![initproc] = all]
    BY <1>1, <1>7 DEF KInv, KernInv, FieldTypes
  <2> HIDE DEF back
  <2>5. /\ all \in Seq(Proc) /\ NoRepeat(all)
        /\ \A q : InList(q, all) <=> InList(q, kids) \/ InList(q, children[initproc])
    BY <1>1, <1>11, <2>1, <2>2, <2>3, ConcatLists
  <2> HIDE DEF all
  <2>6. children'[initproc] = all /\ children'[current] = <<>>
        /\ \A p \in Proc : p # current /\ p # initproc => children'[p] = children[p]
    BY <1>1, <2>4 DEF KInv, KernInv, FieldTypes
  <2>7. children' \in [Proc -> Seq(Proc)]
    BY <1>1, <2>4, <2>5, EmptySeq DEF KInv, KernInv, FieldTypes
  <2>8. QED
    BY <2>5, <2>6, <2>7
<1>15. FieldTypes'
  BY <1>7, <1>9, <1>12, <1>14 DEF KInv, KernInv, FieldTypes
<1>16. Stands'
  <2>1. \A q \in Proc : state[q] = "UNUSED" => time_slice'[q] = 0
    <3>1. \A q \in Proc : InList(q, ExitWakes) => state[q] # "UNUSED"
      BY <1>3, <1>4, <1>5
    <3>2. QED
      BY <1>7, <3>1, WakeSlices
  <2>2. QED
    BY <1>1, <1>5, <1>7, <1>8, <1>9, <2>1 DEF KInv, KernInv, Stands
<1>17. Places' /\ InitStays'
  BY <1>1, <1>5, <1>7, <1>8, <1>9, <1>12, <1>13, SchedAssumption, <1>11
  DEF KInv, KernInv, FieldTypes, Places, InitStays, User, InitLabel
<1>18. FamilyTree'
  <2>1. ASSUME NEW p \in Proc, NEW c \in Proc
        PROVE  InList(c, children'[p]) <=> Exists(c)' /\ c # idleproc /\ parent'[c] = p
    <3>1. \A q \in Proc : InList(c, children[q]) <=> Exists(c) /\ c # idleproc /\ parent[c] = q
      BY DEF KInv, KernInv, FamilyTree
    <3>2. CASE p = current
      BY <1>1, <1>11, <1>12, <1>14, <3>2, EmptyList, <1>10
    <3>3. CASE p = initproc
      BY <1>1, <1>10, <1>11, <1>12, <1>14, <3>1, <3>3
    <3>4. CASE p # current /\ p # initproc
      <4>1. parent'[c] = p <=> parent[c] = p
        BY <1>11, <1>12, <3>4
      <4>2. QED
        BY <1>10, <1>14, <3>1, <3>4, <4>1
    <3>5. QED
      BY <3>2, <3>3, <3>4
  <2>2. \A p \in Proc : NoRepeat(children'[p])
    BY <1>14, EmptyList DEF KInv, KernInv, FamilyTree
  <2>3. \A p \in Proc : state'[p] \in {"UNUSED", "ZOMBIE"} /\ pc'[p] # "exit_links"
                         => children'[p] = <<>>
    <3>1. state[initproc] \notin {"ZOMBIE", "UNUSED"}
      BY <1>1 DEF KInv, KernInv, InitStays, Places, User
    <3>2. \A p \in Proc : state[p] \in {"UNUSED", "ZOMBIE"} /\ pc[p] # "exit_links"
                           => children[p] = <<>>
      BY DEF KInv, KernInv, FamilyTree
    <3>3. \A p \in Proc : state'[p] = state[p] \/ state'[p] = "RUNNABLE"
      BY <1>8
    <3>4. QED
      BY <1>9, <1>14, <3>1, <3>2, <3>3
  <2>4. QED
    BY <2>1, <2>2, <2>3 DEF FamilyTree
<1>19. Rooted'
  <2>1. \A c \in User : Exists(c)' => parent'[c] # idleproc
    BY <1>1, <1>10, <1>12 DEF KInv, KernInv, Rooted, User
  <2>2. ASSUME NEW S \in SUBSET User, S # {}, \A c \in S : Exists(c)'
        PROVE  \E c \in S : parent'[c] \notin S
    <3>1. CASE \E c \in S : InList(c, kids)
      BY <1>1, <1>12, <3>1 DEF User
    <3>2. CASE \A c \in S : ~InList(c, kids)
      <4>1. PICK c \in S : parent[c] \notin S
        BY <1>10, <2>2 DEF KInv, KernInv, Rooted, User
      <4>2. QED
        BY <1>12, <3>2, <4>1 DEF User
    <3>3. QED
      BY <3>1, <3>2
  <2>3. QED
    BY <2>1, <2>2 DEF Rooted
<1>20. Timers'
  <2>1. \A q \in User : HasTimer(timer_list, q) => pc[q] \in {"sleep_sched", "sleep_woken"}
    BY DEF KInv, KernInv, Timers, ArmedInFrame, HasTimer, TimerIndex
  <2>2. \A q \in woken : pc[q] \in {"wait_sched", "wait_woken"}
    BY <1>5 DEF KInv, KernInv, Stands
  <2>3. QED
    BY <1>1, <1>7, <1>8, <1>9, <2>1, <2>2, TimersFrame DEF User
<1>21. NoLostWakeup'
  <2>1. ASSUME NEW p \in Proc, wait_state'[p] = "WT_CHILD"
        PROVE  \E c \in Proc : Awaits(p, c)'
    <3>1. wait_state[p] = "WT_CHILD" /\ p # current
      BY <1>1, <1>8, <2>1
    <3>2. PICK c \in Proc : Awaits(p, c)
      BY <3>1 DEF KInv, KernInv, NoLostWakeup, SleeperHasWaker
    <3>3. parent'[c] = p
      BY <1>11, <1>12, <3>1, <3>2 DEF Awaits
    <3>4. QED
      BY <1>7, <1>10, <2>1, <3>2, <3>3 DEF Awaits
  <2>2. SleeperHasWaker'
    BY <1>7, <1>8, <2>1 DEF KInv, KernInv, NoLostWakeup, SleeperHasWaker
  <2>3. ASSUME NEW p \in Proc, NEW c \in Proc, Awaits(p, c)', state'[c] = "ZOMBIE"
        PROVE  FALSE
    <3>1. wait_state[p] = "WT_CHILD" /\ p \notin woken /\ state[c] = "ZOMBIE"
      BY <1>8, <2>3 DEF Awaits
    <3>2. CASE InList(c, kids)
      <4>1. p = initproc
        BY <1>12, <2>3, <3>2 DEF Awaits
      <4>2. c \in Range(kids)
        BY <1>11, <3>2, RangeList
      <4>3. QED
        BY <1>4, <3>1, <4>1, <4>2 DEF WakesInit
    <3>3. CASE ~InList(c, kids)
      <4>1. Awaits(p, c)
        BY <1>7, <1>10, <1>12, <2>3, <3>1, <3>3 DEF Awaits
      <4>2. pc[c] = "exit_links"
        BY <3>1, <4>1 DEF KInv, KernInv, NoLostWakeup
      <4>3. c = current /\ p = up
        BY <4>1, <4>2 DEF KInv, KernInv, Stands, Awaits
      <4>4. QED
        BY <1>4, <3>1, <4>3
    <3>4. QED
      BY <3>2, <3>3
  <2>4. QED
    BY <2>2, <2>3 DEF NoLostWakeup
<1>22. Scheduler!Next
  <2>1. Blocking' = Blocking
    BY <1>1, <1>7, <1>9 DEF Blocking
  <2>2. woken \in SUBSET Proc /\ \A q \in woken : state[q] = "SLEEPING"
    BY <1>5
  <2>3. QED
    BY <1>6, <1>7, <2>1, <2>2, WakeStep
<1>23. QED
  BY <1>15, <1>16, <1>17, <1>18, <1>19, <1>20, <1>21, <1>22 DEF KernInv

-----------------------------------------------------------------------------
(***************************************************************************)
(* The invariant is inductive, and every step is one of the scheduler's.   *)
(***************************************************************************)
LEMMA SchedInit == Init => Scheduler!Init /\ Sch!IInv
<1> SUFFICES ASSUME Init PROVE Scheduler!Init /\ Sch!IInv
  OBVIOUS
<1>1. Blocking = FALSE
  BY SchedAssumption DEF Init, Blocking
<1>2. Scheduler!Init /\ Sch!Init
  BY <1>1 DEF Init, Scheduler!Init, Sch!Init
<1>3. QED
  BY <1>2, ProcFinite, SchedAssumption, Sch!InitInv

(* The invariant holds when proc_init has made idle.                       *)
LEMMA KernInit == Init => KernInv
<1> SUFFICES ASSUME Init PROVE KernInv
  OBVIOUS
<1>1. FieldTypes
  BY SchedAssumption, EmptySeq DEF Init, FieldTypes, Label
<1>2. Stands
  BY SchedAssumption DEF Init, Stands
<1>3. Places /\ InitStays
  BY SchedAssumption, KernelAssumption DEF Init, Places, InitStays, User, InitLabel
<1>4. FamilyTree /\ Rooted
  <2>1. \A p \in Proc : Exists(p) <=> p = idleproc
    BY DEF Init, Exists
  <2>2. FamilyTree
    BY <2>1, EmptyList DEF Init, FamilyTree
  <2>3. QED
    BY <2>1, <2>2 DEF Rooted, User
<1>5. Timers
  <2>1. timer_list = <<>>
    BY DEF Init
  <2>2. Armed(timer_list) = {} /\ OneEach(timer_list) /\ \A p : ~HasTimer(timer_list, p)
    BY <2>1 DEF Armed, OneEach, HasTimer, TimerIndex
  <2>3. \A p : LeftOf(timer_list, p) = 0
    BY <2>2 DEF LeftOf
  <2>4. Ticking(timer_list)
    BY <2>1, <2>2, EmptySeq DEF Ticking
  <2>5. ArmedInFrame /\ AwakeWasKilled
    BY <2>1, <2>2 DEF ArmedInFrame, AwakeWasKilled
  <2>6. QED
    BY <2>2, <2>3, <2>4, <2>5, KernelAssumption DEF Timers
<1>6. NoLostWakeup
  BY DEF Init, NoLostWakeup, SleeperHasWaker, Awaits
<1>7. QED
  BY <1>1, <1>2, <1>3, <1>4, <1>5, <1>6 DEF KernInv

(* A step that changes nothing.                                            *)
LEMMA Stutter == ASSUME KInv, UNCHANGED vars PROVE KernInv' /\ UNCHANGED (Scheduler!vars)
<1>1. UNCHANGED <<current, state, wait_state, run_list, time_slice, need_resched, parent, children,
                  exiting, timer_list, wait_pid, pc>>
  BY DEF vars, runqVars, kernVars
<1>2. FieldTypes' /\ Stands' /\ Places' /\ InitStays'
  BY <1>1 DEF KInv, KernInv, FieldTypes, Stands, Places, InitStays
<1>3. FamilyTree' /\ Rooted' /\ Timers' /\ NoLostWakeup'
  BY <1>1 DEF KInv, KernInv, FamilyTree, Rooted, Timers, ArmedInFrame, AwakeWasKilled, Exists,
              NoLostWakeup, SleeperHasWaker, Awaits
<1>4. UNCHANGED (Scheduler!vars)
  BY <1>1 DEF Scheduler!vars, Scheduler!runqVars, Blocking
<1>5. QED
  BY <1>2, <1>3, <1>4 DEF KernInv

(* One case for each action.                                               *)
LEMMA StepInv ==
  ASSUME KInv, [Next]_vars
  PROVE  KernInv' /\ [Scheduler!Next]_(Scheduler!vars)
<1>1. CASE QuietStep
  BY <1>1, QuietInv
<1>2. CASE proc_init \/ init_main_fork \/ sys_fork
  <2>1. CASE proc_init
    <3>1. initproc \in Proc /\ do_fork(initproc, "init_fork", "idle")
          /\ ForkAllowed(initproc, "init_fork", "idle")
      BY <2>1, KernelAssumption DEF proc_init, At, ForkAllowed
    <3>2. QED
      BY <3>1, ForkInv
  <2>2. CASE init_main_fork
    <3>1. PICK c \in User : do_fork(c, "user", "wait")
      BY <2>2 DEF init_main_fork
    <3>2. c \in Proc /\ ForkAllowed(c, "user", "wait")
      BY <2>2 DEF init_main_fork, At, ForkAllowed, User
    <3>3. QED
      BY <3>1, <3>2, ForkInv
  <2>3. CASE sys_fork
    <3>1. PICK c \in User : do_fork(c, "user", "trapret")
      BY <2>3 DEF sys_fork
    <3>2. c \in Proc /\ ForkAllowed(c, "user", "trapret")
      BY <2>3 DEF sys_fork, At, ForkAllowed, User
    <3>3. QED
      BY <3>1, <3>2, ForkInv
  <2>4. QED
    BY <1>2, <2>1, <2>2, <2>3
<1>3. CASE \E c \in User : do_wait_reap(c)
  BY <1>3, ReapInv
<1>4. CASE do_wait_sleep
  BY <1>4, WaitSleepInv
<1>5. CASE do_exit
  BY <1>5, ExitInv
<1>6. CASE do_exit_links
  BY <1>6, ExitLinksInv
<1>7. CASE \E p \in User : do_kill(p)
  BY <1>7, KillInv
<1>8. CASE \E ticks \in 1..MAX_SLEEP : do_sleep(ticks)
  BY <1>8, SleepInv
<1>9. CASE do_sleep_woken
  BY <1>9, SleepWokenInv
<1>10. CASE call_schedule \/ trap_resched
  BY <1>10, ScheduleInv
<1>11. CASE run_timer_list
  BY <1>11, TickInv
<1>12. CASE halted \/ UNCHANGED vars
  BY <1>12, Stutter DEF halted
<1>13. QED
  BY <1>1, <1>2, <1>3, <1>4, <1>5, <1>6, <1>7, <1>8, <1>9, <1>10, <1>11, <1>12
  DEF Next, UserStep, KernelStep, QuietStep

(* The two halves of the invariant together.                               *)
LEMMA NextInv ==
  ASSUME KInv, [Next]_vars
  PROVE  KInv' /\ [Scheduler!Next]_(Scheduler!vars)
<1>1. KernInv' /\ [Scheduler!Next]_(Scheduler!vars)
  BY StepInv
<1>2. Sch!IInv'
  BY <1>1, SchedStep DEF KInv
<1>3. QED
  BY <1>1, <1>2 DEF KInv

(* The invariant holds in every behaviour.                                 *)
LEMMA KInvAlways == Spec => []KInv
<1>1. Init => KInv
  BY SchedInit, KernInit DEF KInv
<1>2. KInv /\ [Next]_vars => KInv'
  BY NextInv
<1>3. QED
  BY <1>1, <1>2, PTL DEF Spec

(***************************************************************************)
(* What proc.c does to the scheduler is what the scheduler allows.         *)
(***************************************************************************)
THEOREM KernelImplementsSched == Spec => SchedSafe
<1>1. Init => KInv
  BY SchedInit, KernInit DEF KInv
<1>2. KInv /\ [Next]_vars => KInv' /\ [Scheduler!Next]_(Scheduler!vars)
  BY NextInv
<1>3. Init => Scheduler!Init
  BY SchedInit
<1>4. QED
  BY <1>1, <1>2, <1>3, PTL DEF Spec, SchedSafe, Scheduler!SafeSpec

(* Nobody sleeps in do_wait while a child it may reap has ended, and every *)
(* sleeper has someone to wake it.                                         *)
THEOREM KernelNoLostWakeup == Spec => []NoLostWakeup
<1>1. KInv => NoLostWakeup
  BY DEF KInv, KernInv
<1>2. QED
  BY <1>1, KInvAlways, PTL

(* Parents and chains of children agree in every behaviour.                *)
THEOREM KernelFamilyTree == Spec => []FamilyTree
<1>1. KInv => FamilyTree
  BY DEF KInv, KernInv
<1>2. QED
  BY <1>1, KInvAlways, PTL

(* No armed timer outlives the stack frame it is a variable of, nobody has *)
(* two, whoever is awake while it is armed was killed, and the assert of   *)
(* run_timer_list holds: the head of the list has ticks left.              *)
THEOREM KernelTimers == Spec => []TimersInFrames
<1>1. ASSUME KInv PROVE TimersInFrames
  <2>1. Timers /\ FieldTypes /\ RunqTypeOK
    BY <1>1, SchedFacts DEF KInv, KernInv
  <2>2. timer_list \in Seq([proc : User, expires : 0..MAX_SLEEP])
    BY <2>1, EntriesBound, KernelAssumption DEF Timers
  <2>3. TypeOK
    BY <2>1, <2>2 DEF TypeOK, FieldTypes
  <2>4. timer_list # <<>> => timer_list[1].expires > 0
    BY <2>1 DEF Timers, Ticking
  <2>5. QED
    BY <2>1, <2>3, <2>4 DEF TimersInFrames, Timers
<1>2. QED
  BY <1>1, KInvAlways, PTL

(***************************************************************************)
(* The delta list implements independent countdowns.  What the abstraction *)
(* sees of a state is the ticks that everyone has left, and ListLemmas     *)
(* says what the operations of the list do to those.                       *)
(***************************************************************************)
TicksLeftOfAll == [p \in User |-> TicksLeft(p)]

(* A step that leaves the list alone is one that the abstraction cannot    *)
(* see: only do_sleep, its return and the timer interrupt touch the list.  *)
LEMMA WhoTouchesTimers ==
  ASSUME [Next]_vars
  PROVE  \/ \E ticks \in 1..MAX_SLEEP : do_sleep(ticks)
         \/ do_sleep_woken
         \/ run_timer_list
         \/ timer_list' = timer_list
<1>1. CASE UserStep
  BY <1>1 DEF UserStep, sys_fork, do_fork, sys_fork_fails, sys_exit, do_yield, sys_wait, do_kill,
              do_kill_fails
<1>2. CASE KernelStep
  BY <1>2 DEF KernelStep, proc_init, init_main_fork, do_fork, do_wait_reap, do_wait_sleep,
              do_wait_none, do_wait_woken, do_exit, do_exit_links, call_schedule, trap_exit,
              trap_resched, trap_return
<1>3. QED
  BY <1>1, <1>2 DEF Next, halted, vars, kernVars

(* Each step sets, cancels or counts down, or is not seen by the           *)
(* countdowns.                                                             *)
LEMMA CountdownStep ==
  ASSUME KInv, [Next]_vars
  PROVE  [Countdowns!Next]_TicksLeftOfAll
<1>1. Ticking(timer_list)
  BY DEF KInv, KernInv, Timers
<1>2. \A p \in User : TicksLeft(p) = LeftOf(timer_list, p) /\ TicksLeft(p)' = LeftOf(timer_list', p)
  BY DEF TicksLeft, LeftOf
<1>3. CASE \E ticks \in 1..MAX_SLEEP : do_sleep(ticks)
  <2>1. PICK ticks \in 1..MAX_SLEEP : do_sleep(ticks)
    BY <1>3
  <2>2. current \in User /\ current \notin Armed(timer_list)
    BY <2>1, CurrentFacts
    DEF do_sleep, At, User, KInv, KernInv, Timers, ArmedInFrame, Armed
  <2>3. ticks \in Nat \ {0} /\ timer_list' = add_timer(timer_list, current, ticks)
    BY <2>1, KernelAssumption DEF do_sleep
  <2>4. \A p : LeftOf(timer_list', p) = IF p = current THEN ticks ELSE LeftOf(timer_list, p)
    BY <1>1, <2>2, <2>3, AddTimer
  <2>5. LeftOf(timer_list, current) = 0
    BY <1>1, <2>2, LeftIsNat
  <2>6. Countdowns!Arm(current, ticks)
    BY <1>2, <2>2, <2>4, <2>5 DEF Countdowns!Arm
  <2>7. QED
    BY <2>2, <2>6 DEF Countdowns!Next
<1>4. CASE do_sleep_woken
  <2>1. current \in User
    BY <1>4, CurrentFacts DEF do_sleep_woken, At, User
  <2>2. timer_list' = del_timer(timer_list, current)
    BY <1>4 DEF do_sleep_woken, TimersAfterSleep
  <2>3. \A p : LeftOf(timer_list', p) = IF p = current THEN 0 ELSE LeftOf(timer_list, p)
    BY <1>1, <2>2, DelTimer
  <2>4. Countdowns!Cancel(current)
    BY <1>2, <2>1, <2>3 DEF Countdowns!Cancel
  <2>5. QED
    BY <2>1, <2>4 DEF Countdowns!Next
<1>5. CASE run_timer_list
  <2>1. timer_list' = AfterTick(timer_list)
    BY <1>5 DEF run_timer_list
  <2>2. \A p : LeftOf(timer_list', p) = IF LeftOf(timer_list, p) > 0 THEN LeftOf(timer_list, p) - 1 ELSE 0
    BY <1>1, <2>1, TickTimers
  <2>3. Countdowns!Tick
    BY <1>2, <2>2 DEF Countdowns!Tick
  <2>4. QED
    BY <2>3 DEF Countdowns!Next
<1>6. CASE timer_list' = timer_list
  BY <1>2, <1>6 DEF TicksLeftOfAll
<1>7. QED
  BY <1>3, <1>4, <1>5, <1>6, WhoTouchesTimers

(* Each process sleeps exactly as long as it asked to, for any number of   *)
(* processes and any ticks: whatever is armed, cancelled or expires before *)
(* its own timer, the differences that the list holds add up to the same.  *)
THEOREM KernelImplementsTimers == Spec => CountdownSpec
<1>1. Init => Countdowns!Init
  <2>1. SUFFICES ASSUME Init PROVE \A p \in User : TicksLeft(p) = 0
    BY DEF Countdowns!Init
  <2>2. timer_list = <<>>
    BY <2>1 DEF Init
  <2>3. QED
    BY <2>2 DEF TicksLeft, HasTimer, TimerIndex
<1>2. KInv /\ [Next]_vars => [Countdowns!Next]_TicksLeftOfAll
  BY CountdownStep
<1>3. QED
  BY <1>1, <1>2, KInvAlways, PTL DEF Spec, CountdownSpec, Countdowns!Spec, TicksLeftOfAll

-----------------------------------------------------------------------------
(***************************************************************************)
(* The asserts of init_main.  init ends its loop when it has no children;  *)
(* as every chain of parents ends at init, then no user process is left.   *)
(***************************************************************************)
Alone == pc[initproc] = "init_done" => \A p \in User : ~Exists(p)

(* A list that lists nobody is empty.                                      *)
LEMMA NobodyListed ==
  ASSUME NEW S, NEW list \in Seq(S), \A q : ~InList(q, list)
  PROVE  list = <<>>
<1>1. Len(list) \in Nat
  BY LenProperties
<1>2. Len(list) = 0
  BY <1>1 DEF InList
<1>3. QED
  BY <1>2, EmptySeq

(* Whoever is left has a chain of parents that ends at a child of init.    *)
LEMMA ChildlessInit ==
  ASSUME KInv, children[initproc] = <<>>
  PROVE  \A p \in User : ~Exists(p)
<1> DEFINE S == {p \in User : Exists(p)}
<1>1. SUFFICES ASSUME S # {} PROVE FALSE
  OBVIOUS
<1>2. PICK c \in S : parent[c] \notin S
  BY <1>1 DEF KInv, KernInv, Rooted
<1>3. c \in Proc \ {idleproc} /\ c \in User /\ Exists(c)
  BY DEF User
<1>4. parent[c] \in Proc /\ Exists(parent[c]) /\ InList(c, children[parent[c]])
  BY <1>3, ParentFacts
<1>5. parent[c] # idleproc
  BY <1>3 DEF KInv, KernInv, Rooted
<1>6. parent[c] = initproc
  BY <1>2, <1>4, <1>5 DEF User
<1>7. QED
  BY <1>4, <1>6, EmptyList

(* init reaches its last point only without children, and nothing happens  *)
(* after.                                                                  *)
LEMMA AloneStep ==
  ASSUME KInv, Alone, [Next]_vars
  PROVE  Alone'
<1>1. SUFFICES ASSUME pc'[initproc] = "init_done"
               PROVE  \A p \in User : ~Exists(p)'
  BY DEF Alone
<1>2. /\ pc \in [Proc -> Label] /\ current \in Proc /\ initproc \in Proc
      /\ pc[initproc] = "init_done" => current = initproc
      /\ User \subseteq Proc
  BY CurrentFacts, KernelAssumption DEF KInv, KernInv, FieldTypes, Places, User
<1>3. CASE pc[initproc] = "init_done"
  <2>1. At("init_done")
    BY <1>2, <1>3 DEF At
  <2>2. UNCHANGED vars
    <3>1. ~UserStep
      BY <2>1 DEF At, UserStep, sys_fork, sys_fork_fails, sys_exit, do_yield, sys_wait, do_kill,
                  do_kill_fails, do_sleep
    <3>2. ~KernelStep
      BY <2>1 DEF At, KernelStep, proc_init, init_main_fork, do_wait_reap, do_wait_sleep,
                  do_wait_none, do_wait_woken, do_exit, do_exit_links, do_sleep_woken,
                  call_schedule, AfterSchedule, trap_exit, trap_resched, trap_return
    <3>3. ~run_timer_list
      BY <1>3 DEF run_timer_list, Interruptible
    <3>4. QED
      BY <3>1, <3>2, <3>3 DEF Next, halted
  <2>3. QED
    BY <1>3, <2>2 DEF Alone, Exists, vars, runqVars
<1>4. CASE pc[initproc] # "init_done"
  <2>1. do_wait_none /\ current = initproc
    <3>1. CASE UserStep
      BY <1>1, <1>2, <1>4, <3>1
      DEF UserStep, sys_fork, sys_fork_fails, sys_exit, do_yield, sys_wait, do_kill,
          do_kill_fails, do_sleep, do_fork, Goto
    <3>2. CASE KernelStep
      <4>1. ASSUME NEW label, Goto(label), label # "init_done"
            PROVE  FALSE
        BY <1>1, <1>2, <1>4, <4>1 DEF Goto
      <4>2. CASE proc_init \/ init_main_fork
        BY <1>1, <1>2, <1>4, <4>2 DEF proc_init, init_main_fork, do_fork
      <4>3. CASE call_schedule
        BY <4>1, <4>3 DEF call_schedule, AfterSchedule
      <4>4. CASE do_wait_none
        BY <4>1, <4>4 DEF do_wait_none
      <4>5. QED
        BY <3>2, <4>1, <4>2, <4>3, <4>4
        DEF KernelStep, do_wait_reap, do_wait_sleep, do_wait_woken, AfterWaitWoken, do_exit,
            do_exit_links, do_sleep_woken, trap_exit, trap_resched, trap_return
    <3>3. CASE run_timer_list
      BY <1>1, <1>2, <1>4, <3>3 DEF run_timer_list
    <3>4. CASE halted \/ UNCHANGED vars
      BY <1>1, <1>4, <3>4 DEF halted, vars, kernVars
    <3>5. QED
      BY <3>1, <3>2, <3>3, <3>4 DEF Next
  <2>2. children[initproc] = <<>>
    <3>1. wait_pid[initproc] = idleproc /\ children[initproc] \in Seq(Proc)
      BY <1>2 DEF KInv, KernInv, InitStays, FieldTypes
    <3>2. Range(children[initproc]) = {}
      BY <2>1, <3>1 DEF do_wait_none, NoChildToWaitFor, WaitTargets
    <3>3. \A q : ~InList(q, children[initproc])
      BY <3>1, <3>2, RangeList
    <3>4. QED
      BY <3>1, <3>3, NobodyListed
  <2>3. UNCHANGED state
    BY <2>1 DEF do_wait_none, runqVars
  <2>4. QED
    BY <2>2, <2>3, ChildlessInit DEF Exists
<1>5. QED
  BY <1>3, <1>4

(* Then the chains, the timers and the run queue are empty too.            *)
LEMMA AloneAsserts == KInv /\ Alone => InitAsserts
<1> SUFFICES ASSUME KInv, Alone, pc[initproc] = "init_done" PROVE InitAsserts
  BY DEF InitAsserts
<1>1. /\ \A p \in User : ~Exists(p)
      /\ current = initproc /\ initproc \in Proc /\ idleproc \in Proc /\ initproc # idleproc
      /\ \A p \in Proc : p \in User \/ p = initproc \/ p = idleproc
      /\ Exists(initproc) /\ parent[initproc] = idleproc
  BY SchedAssumption, KernelAssumption, CurrentFacts
  DEF Alone, KInv, KernInv, Places, InitStays, User, Exists, Stands
<1>2. \A p \in Proc : /\ children[p] \in Seq(Proc) /\ NoRepeat(children[p])
                      /\ \A q : InList(q, children[p]) <=> q = initproc /\ p = idleproc
  <2>1. ASSUME NEW p \in Proc
        PROVE  /\ children[p] \in Seq(Proc) /\ NoRepeat(children[p])
               /\ \A q \in Proc : InList(q, children[p]) <=> q = initproc /\ p = idleproc
    BY <1>1 DEF KInv, KernInv, FieldTypes, FamilyTree
  <2>2. ASSUME NEW p \in Proc, NEW q, InList(q, children[p])
        PROVE  q \in Proc
    BY <2>1, <2>2, ElementOfSeq DEF InList
  <2>3. QED
    BY <1>1, <2>1, <2>2
<1>3. children[initproc] = <<>>
  BY <1>1, <1>2, NobodyListed
<1>4. children[idleproc] = <<initproc>>
  <2> DEFINE kids == children[idleproc]
  <2>1. kids \in Seq(Proc) /\ NoRepeat(kids) /\ \A q : InList(q, kids) <=> q = initproc
    BY <1>1, <1>2
  <2> HIDE DEF kids
  <2>2. Len(kids) \in Nat
    BY <2>1, LenProperties
  <2>3. \A i \in 1..Len(kids) : kids[i] = initproc
    BY <2>1 DEF InList
  <2>4. Len(kids) = 1
    <3>1. Len(kids) # 0
      BY <2>1 DEF InList
    <3>2. ASSUME Len(kids) > 1 PROVE FALSE
      <4>1. 1 \in 1..Len(kids) /\ 2 \in 1..Len(kids)
        BY <2>2, <3>2
      <4>2. kids[1] = kids[2]
        BY <2>3, <4>1
      <4>3. QED
        BY <2>1, <4>1, <4>2 DEF NoRepeat
    <3>3. \A n \in Nat : n = 0 \/ n = 1 \/ n > 1
      OBVIOUS
    <3>4. QED
      BY <2>2, <3>1, <3>2, <3>3
  <2>5. kids = <<initproc>>
    BY <2>1, <2>3, <2>4
  <2>6. QED
    BY <2>5 DEF kids
<1>5. timer_list = <<>>
  <2>1. \A i \in 1..Len(timer_list) : FALSE
    BY <1>1 DEF KInv, KernInv, Timers, ArmedInFrame, Armed, Stands, Exists, User
  <2>2. QED
    BY <2>1 DEF KInv, KernInv, Timers, Ticking
<1>6. run_list = <<>>
  <2>1. run_list \in Seq(Proc) /\ \A q : ~InList(q, run_list)
    <3>1. \A q \in Proc : ~InList(q, run_list)
      BY <1>1, SchedFacts DEF KInv, Exists
    <3>2. run_list \in Seq(Proc)
      BY SchedFacts DEF KInv, RunqTypeOK
    <3>3. QED
      BY <3>1, <3>2, ElementOfSeq DEF InList
  <2>2. QED
    BY <2>1, NobodyListed
<1>7. QED
  BY <1>1, <1>3, <1>4, <1>5, <1>6 DEF InitAsserts

(* When init's loop ends only idle and init are left, and nothing is armed *)
(* or queued: the asserts of init_main hold.                               *)
THEOREM KernelInitAsserts == Spec => []InitAsserts
<1>1. Init => Alone
  BY KernelAssumption DEF Init, Alone
<1>2. KInv /\ Alone /\ [Next]_vars => Alone'
  BY AloneStep
<1>3. QED
  BY <1>1, <1>2, AloneAsserts, KInvAlways, PTL DEF Spec
=============================================================================

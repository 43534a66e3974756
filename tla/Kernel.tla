-------------------------------- MODULE Kernel --------------------------------
(***************************************************************************)
(* The life of a process in the lab8 kernel: kern/process/proc.c on top of *)
(* the scheduler and the timer list of kern/schedule/sched.c.              *)
(*                                                                         *)
(* User processes fork, exit, wait, kill, sleep and yield as they like;    *)
(* init forks the first one and then reaps until nobody is left.  Kernel   *)
(* code gives the CPU up only in schedule(), so a step lasts up to the     *)
(* next point where the timer interrupt can be told from none: pc says at  *)
(* which of these points each process stands.                              *)
(*                                                                         *)
(* A slot of Proc stands for a proc_struct and its pid; slots are reused.  *)
(* idleproc is also pid 0, which do_wait takes for "any child".            *)
(***************************************************************************)
EXTENDS RunQueue, TimerList, SequencesExt

CONSTANTS
  initproc,        \* the kernel thread init_main
  MAX_SLEEP        \* longest sleep a process asks for, in ticks (bound)

ASSUME KernelAssumption ==
  /\ initproc \in Proc \ {idleproc}
  /\ {"WT_CHILD", "WT_TIMER"} \subseteq WaitReason
  /\ MAX_SLEEP \in Nat

VARIABLES
  parent,          \* proc_struct.parent; idleproc where there is none
  children,        \* the cptr/optr chain of a process, youngest first
  exiting,         \* PF_EXITING
  timer_list,      \* armed timers, each on the kernel stack of its process
  wait_pid,        \* argument of do_wait
  pc               \* where each process stands

kernVars == <<parent, children, exiting, timer_list, wait_pid, pc>>
vars == <<runqVars, kernVars>>

User == Proc \ {idleproc, initproc}

Label == {"none", "boot", "idle", "user", "trapret",
          "init_fork", "init_sched", "init_done",
          "wait", "wait_sched", "wait_woken", "sleep_sched", "sleep_woken",
          "exit", "exit_links", "exit_sched"}

TypeOK ==
  /\ RunqTypeOK
  /\ parent \in [Proc -> Proc]
  /\ children \in [Proc -> Seq(Proc)]
  /\ exiting \in [Proc -> BOOLEAN]
  /\ timer_list \in Seq([proc : User, expires : 0..MAX_SLEEP])
  /\ wait_pid \in [Proc -> Proc]
  /\ pc \in [Proc -> Label]

At(label) == pc[current] = label
Goto(label) == pc' = [pc EXCEPT ![current] = label]

Exists(p) == state[p] # "UNUSED"

-----------------------------------------------------------------------------
(* Deviant forms of the definitions below.                                 *)
WakesParentOnly == IF wait_state[parent[current]] = "WT_CHILD" THEN <<parent[current]>> ELSE <<>>
AdoptedNoParent == parent
TimerLeftArmed == timer_list
InitGivesUp(p) == \A c \in Range(children[p]) : state[c] # "ZOMBIE"
ExpiredEvenIfWoken == Range(ExpiredProcs(timer_list))
WaitsAgain(p) == "wait"
NothingExpires == {}

-----------------------------------------------------------------------------
(***************************************************************************)
(* proc_init has made idle; its next step is to fork init.                 *)
(***************************************************************************)
Init ==
  /\ current = idleproc
  /\ state = [p \in Proc |-> IF p = idleproc THEN "RUNNABLE" ELSE "UNUSED"]
  /\ wait_state = [p \in Proc |-> "0"]
  /\ run_list = <<>>
  /\ time_slice = [p \in Proc |-> 0]
  /\ need_resched = [p \in Proc |-> p = idleproc]
  /\ parent = [p \in Proc |-> idleproc]
  /\ children = [p \in Proc |-> <<>>]
  /\ exiting = [p \in Proc |-> FALSE]
  /\ timer_list = <<>>
  /\ wait_pid = [p \in Proc |-> idleproc]
  /\ pc = [p \in Proc |-> IF p = idleproc THEN "boot" ELSE "none"]

(***************************************************************************)
(* do_fork by the current process, which goes on at next; the child first  *)
(* runs at start.  set_links makes it its parent's youngest.               *)
(***************************************************************************)
do_fork(child, start, next) ==
  /\ state[child] = "UNUSED"
  /\ state' = [state EXCEPT ![child] = "RUNNABLE"]
  /\ run_list' = RR_enqueue(run_list, child)
  /\ time_slice' = [time_slice EXCEPT ![child] = RefilledSlice(child)]
  /\ parent' = [parent EXCEPT ![child] = current]
  /\ children' = [children EXCEPT ![current] = <<child>> \o @]
  /\ pc' = [pc EXCEPT ![current] = next, ![child] = start]
  /\ UNCHANGED <<current, wait_state, need_resched, exiting, timer_list, wait_pid>>

proc_init == At("boot") /\ do_fork(initproc, "init_fork", "idle")

init_main_fork == At("init_fork") /\ \E c \in User : do_fork(c, "user", "wait")

sys_fork == At("user") /\ \E c \in User : do_fork(c, "user", "trapret")

(* nr_process >= MAX_PROCESS: fork fails.                                  *)
sys_fork_fails ==
  /\ At("user")
  /\ \A c \in User : Exists(c)
  /\ Goto("trapret")
  /\ UNCHANGED <<runqVars, parent, children, exiting, timer_list, wait_pid>>

-----------------------------------------------------------------------------
(***************************************************************************)
(* do_wait: which children the caller p may reap for pid.                  *)
(***************************************************************************)
WaitTargets(p, pid) ==
  IF pid = idleproc THEN Range(children[p]) ELSE {pid} \cap Range(children[p])

sys_wait(pid) ==
  /\ At("user")
  /\ wait_pid' = [wait_pid EXCEPT ![current] = pid]
  /\ Goto("wait")
  /\ UNCHANGED <<runqVars, parent, children, exiting, timer_list>>

Targets == WaitTargets(current, wait_pid[current])

(* The first zombie in the order of the chain.                             *)
Found(c) ==
  /\ c \in Targets
  /\ state[c] = "ZOMBIE"
  /\ \E i \in 1..Len(children[current]) :
       /\ children[current][i] = c
       /\ \A j \in 1..(i-1) :
            children[current][j] \in Targets => state[children[current][j]] # "ZOMBIE"

(* The links to a child on both sides of it are joined.                    *)
PlaceOf(p, c) == CHOOSE i \in 1..Len(children[p]) : children[p][i] = c

Unlinked(p, c) == RemoveAt(children[p], PlaceOf(p, c))

(* remove_links, unhash_proc and kfree leave the slot free.                *)
do_wait_reap(c) ==
  /\ At("wait")
  /\ Found(c)
  /\ state' = [state EXCEPT ![c] = "UNUSED"]
  /\ time_slice' = [time_slice EXCEPT ![c] = 0]
  /\ need_resched' = [need_resched EXCEPT ![c] = FALSE]
  /\ children' = [children EXCEPT ![current] = Unlinked(current, c)]
  /\ parent' = [parent EXCEPT ![c] = idleproc]
  /\ exiting' = [exiting EXCEPT ![c] = FALSE]
  /\ wait_pid' = [wait_pid EXCEPT ![c] = idleproc, ![current] = idleproc]
  /\ Goto(IF current = initproc THEN "init_sched" ELSE "trapret")
  /\ UNCHANGED <<current, wait_state, run_list, timer_list>>

do_wait_sleep ==
  /\ At("wait")
  /\ Targets # {}
  /\ \A c \in Targets : state[c] # "ZOMBIE"
  /\ state' = [state EXCEPT ![current] = "SLEEPING"]
  /\ wait_state' = [wait_state EXCEPT ![current] = "WT_CHILD"]
  /\ Goto("wait_sched")
  /\ UNCHANGED <<current, run_list, time_slice, need_resched,
                 parent, children, exiting, timer_list, wait_pid>>

NoChildToWaitFor(p) == WaitTargets(p, wait_pid[p]) = {}

(* -E_BAD_PROC; it ends init's loop.                                       *)
do_wait_none ==
  /\ At("wait")
  /\ NoChildToWaitFor(current)
  /\ wait_pid' = [wait_pid EXCEPT ![current] = idleproc]
  /\ Goto(IF current = initproc THEN "init_done" ELSE "trapret")
  /\ UNCHANGED <<runqVars, parent, children, exiting, timer_list>>

AfterWaitWoken(p) == IF exiting[p] THEN "exit" ELSE "wait"

do_wait_woken ==
  /\ At("wait_woken")
  /\ Goto(AfterWaitWoken(current))
  /\ UNCHANGED <<runqVars, parent, children, exiting, timer_list, wait_pid>>

-----------------------------------------------------------------------------
sys_exit ==
  /\ At("user")
  /\ Goto("exit")
  /\ UNCHANGED <<runqVars, parent, children, exiting, timer_list, wait_pid>>

(***************************************************************************)
(* do_exit up to the point where interrupts go off.                        *)
(***************************************************************************)
do_exit ==
  /\ At("exit")
  /\ state' = [state EXCEPT ![current] = "ZOMBIE"]
  /\ Goto("exit_links")
  /\ UNCHANGED <<current, wait_state, run_list, time_slice, need_resched,
                 parent, children, exiting, timer_list, wait_pid>>

(***************************************************************************)
(* do_exit with interrupts off: a parent that waits for a child is woken,  *)
(* the children become init's, and so is init when one of them is a ZOMBIE.*)
(***************************************************************************)
WakesInit ==
  /\ wait_state[initproc] = "WT_CHILD"
  /\ parent[current] # initproc
  /\ \E c \in Range(children[current]) : state[c] = "ZOMBIE"

ExitWakes ==
  (IF wait_state[parent[current]] = "WT_CHILD" THEN <<parent[current]>> ELSE <<>>)
    \o (IF WakesInit THEN <<initproc>> ELSE <<>>)

ParentAfterExit ==
  [p \in Proc |-> IF p \in Range(children[current]) THEN initproc ELSE parent[p]]

do_exit_links ==
  /\ At("exit_links")
  /\ WakeupProcs(Range(ExitWakes), ExitWakes)
  /\ time_slice' = SlicesAfterJoin(ExitWakes)
  /\ parent' = ParentAfterExit
  /\ children' = [children EXCEPT ![current] = <<>>,
                                  ![initproc] = Reverse(children[current]) \o @]
  /\ Goto("exit_sched")
  /\ UNCHANGED <<current, need_resched, exiting, timer_list, wait_pid>>

-----------------------------------------------------------------------------
(***************************************************************************)
(* do_kill: only an interruptible sleep ends early; every sleep here is.   *)
(***************************************************************************)
KillWakes(p) == IF wait_state[p] # "0" THEN <<p>> ELSE <<>>

do_kill(p) ==
  /\ At("user")
  /\ Exists(p) /\ ~exiting[p]
  /\ exiting' = [exiting EXCEPT ![p] = TRUE]
  /\ WakeupProcs(Range(KillWakes(p)), KillWakes(p))
  /\ time_slice' = SlicesAfterJoin(KillWakes(p))
  /\ Goto("trapret")
  /\ UNCHANGED <<current, need_resched, parent, children, timer_list, wait_pid>>

(* -E_INVAL or -E_KILLED.                                                  *)
do_kill_fails(p) ==
  /\ At("user")
  /\ ~Exists(p) \/ exiting[p]
  /\ Goto("trapret")
  /\ UNCHANGED <<runqVars, parent, children, exiting, timer_list, wait_pid>>

-----------------------------------------------------------------------------
(***************************************************************************)
(* do_sleep, before and after its call to schedule().                      *)
(***************************************************************************)
do_sleep(ticks) ==
  /\ At("user")
  /\ state' = [state EXCEPT ![current] = "SLEEPING"]
  /\ wait_state' = [wait_state EXCEPT ![current] = "WT_TIMER"]
  /\ timer_list' = add_timer(timer_list, current, ticks)
  /\ Goto("sleep_sched")
  /\ UNCHANGED <<current, run_list, time_slice, need_resched,
                 parent, children, exiting, wait_pid>>

TimersAfterSleep == del_timer(timer_list, current)

do_sleep_woken ==
  /\ At("sleep_woken")
  /\ timer_list' = TimersAfterSleep
  /\ Goto("trapret")
  /\ UNCHANGED <<runqVars, parent, children, exiting, wait_pid>>

do_yield ==
  /\ At("user")
  /\ need_resched' = [need_resched EXCEPT ![current] = TRUE]
  /\ Goto("trapret")
  /\ UNCHANGED <<current, state, wait_state, run_list, time_slice,
                 parent, children, exiting, timer_list, wait_pid>>

-----------------------------------------------------------------------------
(***************************************************************************)
(* Where each caller of schedule() goes on when it has the CPU again.      *)
(***************************************************************************)
AfterSchedule ==
  [wait_sched |-> "wait_woken", sleep_sched |-> "sleep_woken",
   exit_sched |-> "none", init_sched |-> "wait", idle |-> "idle"]

call_schedule ==
  /\ pc[current] \in DOMAIN AfterSchedule
  /\ current = idleproc => need_resched[idleproc]
  /\ schedule
  /\ Goto(AfterSchedule[pc[current]])
  /\ UNCHANGED <<parent, children, exiting, timer_list, wait_pid>>

(***************************************************************************)
(* The end of trap() when the trap came from user mode.                    *)
(***************************************************************************)
trap_exit ==
  /\ At("trapret")
  /\ exiting[current]
  /\ Goto("exit")
  /\ UNCHANGED <<runqVars, parent, children, exiting, timer_list, wait_pid>>

trap_resched ==
  /\ At("trapret")
  /\ ~exiting[current]
  /\ need_resched[current]
  /\ schedule
  /\ Goto("user")
  /\ UNCHANGED <<parent, children, exiting, timer_list, wait_pid>>

trap_return ==
  /\ At("trapret")
  /\ ~exiting[current]
  /\ ~need_resched[current]
  /\ Goto("user")
  /\ UNCHANGED <<runqVars, parent, children, exiting, timer_list, wait_pid>>

(***************************************************************************)
(* The timer interrupt: run_timer_list, on top of whatever runs, once      *)
(* kern_init has enabled interrupts.  After init's end the kernel has      *)
(* panicked ("initproc exit") and takes no interrupt.                      *)
(***************************************************************************)
Interruptible == pc[idleproc] # "boot" /\ pc[initproc] # "init_done"

(* A timer that expires for a process that is awake already does nothing.  *)
Expired == {p \in Range(ExpiredProcs(timer_list)) : state[p] # "RUNNABLE"}

run_timer_list ==
  /\ Interruptible
  /\ \E joining \in Orderings({p \in Expired : Enqueues(p)}) :
       /\ InExpiryOrder(timer_list, joining)
       /\ WakeupProcs(Expired, joining)
       /\ sched_class_proc_tick(joining)
  /\ timer_list' = AfterTick(timer_list)
  /\ pc' = IF At("user") THEN [pc EXCEPT ![current] = "trapret"] ELSE pc
  /\ UNCHANGED <<current, parent, children, exiting, wait_pid>>

halted == pc[initproc] = "init_done" /\ UNCHANGED vars

-----------------------------------------------------------------------------
UserStep ==
  \/ sys_fork \/ sys_fork_fails \/ sys_exit \/ do_yield
  \/ \E pid \in Proc \ {initproc} : sys_wait(pid)
  \/ \E p \in User : do_kill(p) \/ do_kill_fails(p)
  \/ \E ticks \in 1..MAX_SLEEP : do_sleep(ticks)

KernelStep ==
  \/ proc_init \/ init_main_fork
  \/ \E c \in User : do_wait_reap(c)
  \/ do_wait_sleep \/ do_wait_none \/ do_wait_woken
  \/ do_exit \/ do_exit_links \/ do_sleep_woken
  \/ call_schedule \/ trap_exit \/ trap_resched \/ trap_return

Next == UserStep \/ KernelStep \/ run_timer_list \/ halted

(***************************************************************************)
(* Kernel code runs on to its next schedule() or return, and the clock     *)
(* ticks for ever.  User code owes nobody another step.                    *)
(***************************************************************************)
Fairness == WF_vars(KernelStep) /\ WF_vars(run_timer_list)

Spec == Init /\ [][Next]_vars /\ Fairness

-----------------------------------------------------------------------------
(***************************************************************************)
(* Every step of the kernel is a step the scheduler allows: proc.c never   *)
(* wakes a ZOMBIE (the assert of wakeup_proc), never queues a process      *)
(* twice, never frees the proc_struct it runs on, and calls schedule()     *)
(* next whenever it has taken itself off the RUNNABLE state.               *)
(***************************************************************************)
Blocking == pc[current] \in {"wait_sched", "sleep_sched", "exit_links", "exit_sched"}

Scheduler == INSTANCE Sched WITH blocking <- Blocking

SchedSafe == Scheduler!SafeSpec

(***************************************************************************)
(* No lost wakeup: nobody sleeps in do_wait while a child it may reap is a *)
(* ZOMBIE whose do_exit is past the wakeups; and every sleeper has someone *)
(* to wake it, a child it waits for or a timer.                            *)
(***************************************************************************)
Awaits(p, c) ==
  /\ wait_state[p] = "WT_CHILD"
  /\ Exists(c) /\ parent[c] = p /\ c # p
  /\ wait_pid[p] \in {idleproc, c}

SleeperHasWaker ==
  \A p \in Proc :
    /\ wait_state[p] = "WT_CHILD" => \E c \in Proc : Awaits(p, c)
    /\ wait_state[p] = "WT_TIMER" => HasTimer(timer_list, p)

NoLostWakeup ==
  /\ SleeperHasWaker
  /\ \A p, c \in Proc : Awaits(p, c) => state[c] # "ZOMBIE" \/ pc[c] = "exit_links"

(***************************************************************************)
(* The timer of do_sleep is a local variable: an armed timer lies in the   *)
(* frame of a do_sleep that has not returned, and nobody has two.  Whoever *)
(* is awake in do_sleep while it is armed was killed, not woken too early. *)
(* The assert of run_timer_list: the head has ticks left, whoever was      *)
(* woken, killed or put in front of it.                                    *)
(***************************************************************************)
ArmedInFrame ==
  /\ \A i \in 1..Len(timer_list) :
       pc[timer_list[i].proc] \in {"sleep_sched", "sleep_woken"}
  /\ \A i, j \in 1..Len(timer_list) : timer_list[i].proc = timer_list[j].proc => i = j

AwakeWasKilled ==
  \A p \in User : HasTimer(timer_list, p) /\ wait_state[p] = "0" => exiting[p]

TimersInFrames ==
  /\ TypeOK
  /\ ArmedInFrame
  /\ AwakeWasKilled
  /\ timer_list # <<>> => timer_list[1].expires > 0

(***************************************************************************)
(* Each process sleeps exactly as long as it asked to, whatever is armed   *)
(* or cancelled in front of it: the delta list implements independent      *)
(* countdowns.                                                             *)
(***************************************************************************)
TicksLeft(p) ==
  IF HasTimer(timer_list, p)
  THEN TicksUntil(timer_list)[CHOOSE i \in TimerIndex(timer_list, p) : TRUE]
  ELSE 0

Countdowns == INSTANCE AbsTimers WITH
  Sleeper <- User, MaxTicks <- MAX_SLEEP, left <- [p \in User |-> TicksLeft(p)]

CountdownSpec == Countdowns!Spec

(***************************************************************************)
(* The family tree: parent and the cptr/optr chains agree, every process   *)
(* hangs below idle, and one that has ended keeps no children.             *)
(***************************************************************************)
FamilyTree ==
  /\ \A p, c \in Proc : InList(c, children[p]) <=> Exists(c) /\ c # idleproc /\ parent[c] = p
  /\ \A p \in Proc : NoRepeat(children[p])
  /\ \A p \in Proc : state[p] \in {"UNUSED", "ZOMBIE"} /\ pc[p] # "exit_links"
                      => children[p] = <<>>

(***************************************************************************)
(* The asserts at the end of init_main: when init's loop ends only idle    *)
(* and init are left.  Nothing is armed or queued any more either.         *)
(***************************************************************************)
InitAsserts ==
  pc[initproc] = "init_done" =>
    /\ \A p \in User : ~Exists(p)
    /\ children[initproc] = <<>> /\ children[idleproc] = <<initproc>>
    /\ timer_list = <<>> /\ run_list = <<>>

(***************************************************************************)
(* While a child of init, orphans included, is a ZOMBIE, init reaps one    *)
(* after another.  Not necessarily that one: do_wait takes the youngest    *)
(* zombie, and an older one starves while younger ones keep ending.        *)
(***************************************************************************)
InitKeepsReaping ==
  (\E c \in Range(children[initproc]) : state[c] = "ZOMBIE") ~> pc[initproc] = "init_sched"

(***************************************************************************)
(* A kill ends a process that it finds asleep in the kernel.               *)
(***************************************************************************)
KilledAsleepDies ==
  \A p \in User :
    exiting[p] /\ state[p] = "RUNNABLE" /\ pc[p] \in {"wait_woken", "sleep_woken"}
      ~> state[p] = "ZOMBIE"

(***************************************************************************)
(* Whoever sleeps for a time gets the CPU again.                           *)
(***************************************************************************)
SleepEnds ==
  \A p \in User : wait_state[p] = "WT_TIMER" ~> current = p /\ state[p] = "RUNNABLE"

=============================================================================

----------------------------- MODULE Philosophers -----------------------------
(***************************************************************************)
(* check_sync of kern/sync/check_sync.c, the semaphore half: N kernel      *)
(* threads dine with do_sleep and semaphores on the real scheduler.  It    *)
(* composes the run queue, the timer list and the semaphores.              *)
(*                                                                         *)
(* Init forks the philosophers and then reaps them; its other children     *)
(* (user_main, the condition-variable philosophers) are left out.          *)
(***************************************************************************)
EXTENDS RunQueue, TimerList, Semaphore, SequencesExt

CONSTANTS
  initproc,    \* runs init_main, which calls check_sync
  mutex,       \* the name of the semaphore mutex
  N,           \* philosophers; the proc_struct of number i is named i
  TIMES,       \* meals of each
  SLEEP_TIME   \* longest time it thinks or eats, in ticks

Phil == 0..(N-1)

ASSUME PhilAssumption ==
  /\ N \in Nat /\ N > 2 /\ TIMES \in Nat /\ SLEEP_TIME \in Nat \ {0}
  /\ initproc # idleproc /\ {initproc, idleproc, mutex} \cap Phil = {}
  /\ Proc = Phil \cup {idleproc, initproc}
  /\ WaitReason = {"WT_CHILD", "WT_TIMER", "WT_KSEM"}

VARIABLES
  timer_list,  \* armed timers
  sems,        \* the semaphores: mutex, and s[i] under the name i
  state_sema,  \* THINKING, HUNGRY or EATING
  iter,        \* meals each has had
  pc           \* where each thread stands

philVars == <<timer_list, sems, state_sema, iter, pc>>
vars == <<runqVars, philVars>>

(* Where the callers of schedule() go on when they have the CPU again.     *)
AfterSchedule ==
  [idle |-> "idle", init_sched |-> "wait", wait_sched |-> "wait",
   think_sched |-> "think_woken", eat_sched |-> "eat_woken",
   take_sched |-> "hungry", fork_sched |-> "eat", put_sched |-> "full",
   exit_sched |-> "none"]

Label == DOMAIN AfterSchedule \cup
  {"none", "boot", "init_fork", "wait", "init_done", "think", "think_woken", "take", "hungry",
   "fork", "eat", "eat_woken", "put", "full", "exit", "exit_links"}

TypeOK ==
  /\ RunqTypeOK
  /\ timer_list \in Seq([proc : Phil, expires : 0..SLEEP_TIME])
  /\ sems \in [Phil \cup {mutex} -> [value : Nat, queue : Seq(Phil)]]
  /\ state_sema \in [Phil -> {"THINKING", "HUNGRY", "EATING"}]
  /\ iter \in [Phil -> 0..TIMES]
  /\ pc \in [Proc -> Label]

At(label) == pc[current] = label
Goto(label) == pc' = [pc EXCEPT ![current] = label]

Left(i) == (i - 1 + N) % N
Right(i) == (i + 1) % N

-----------------------------------------------------------------------------
(* Deviant forms of the definitions below.                                 *)
LeftIsFree(st, i) == st[i] = "HUNGRY" /\ st[Left(i)] # "EATING"
TestsLeftOnly(i) == <<Left(i)>>

-----------------------------------------------------------------------------
Init ==
  /\ current = idleproc
  /\ state = [p \in Proc |-> IF p = idleproc THEN "RUNNABLE" ELSE "UNUSED"]
  /\ wait_state = [p \in Proc |-> "0"]
  /\ run_list = <<>>
  /\ time_slice = [p \in Proc |-> 0]
  /\ need_resched = [p \in Proc |-> p = idleproc]
  /\ timer_list = <<>>
  /\ sems = [x \in Phil \cup {mutex} |-> sem_init(IF x = mutex THEN 1 ELSE 0)]
  /\ state_sema = [i \in Phil |-> "THINKING"]
  /\ iter = [i \in Phil |-> 0]
  /\ pc = [p \in Proc |-> IF p = idleproc THEN "boot" ELSE "none"]

(* kernel_thread: the child starts at start, its creator goes on at next.  *)
kernel_thread(child, start, next) ==
  /\ state' = [state EXCEPT ![child] = "RUNNABLE"]
  /\ run_list' = RR_enqueue(run_list, child)
  /\ time_slice' = [time_slice EXCEPT ![child] = RefilledSlice(child)]
  /\ pc' = [pc EXCEPT ![current] = next, ![child] = start]
  /\ UNCHANGED <<current, wait_state, need_resched, timer_list, sems, state_sema, iter>>

proc_init == At("boot") /\ kernel_thread(initproc, "init_fork", "idle")

(* check_sync creates them in the order of their numbers.                  *)
check_sync(i) ==
  /\ At("init_fork")
  /\ \A j \in Phil : state[j] = "UNUSED" <=> j >= i
  /\ kernel_thread(i, "think", IF i = N - 1 THEN "wait" ELSE "init_fork")

(***************************************************************************)
(* init_main's loop: do_wait(0, NULL), and schedule() after each success.  *)
(***************************************************************************)
init_reap(c) ==
  /\ At("wait")
  /\ state[c] = "ZOMBIE"
  /\ \A d \in Phil : d > c => state[d] # "ZOMBIE"
  /\ state' = [state EXCEPT ![c] = "UNUSED"]
  /\ time_slice' = [time_slice EXCEPT ![c] = 0]
  /\ need_resched' = [need_resched EXCEPT ![c] = FALSE]
  /\ Goto("init_sched")
  /\ UNCHANGED <<current, wait_state, run_list, timer_list, sems, state_sema, iter>>

(* Off the CPU at label until somebody ends the wait why.                  *)
SleepAt(label, why) ==
  /\ state' = [state EXCEPT ![current] = "SLEEPING"]
  /\ wait_state' = [wait_state EXCEPT ![current] = why]
  /\ Goto(label)
  /\ UNCHANGED <<current, run_list, time_slice, need_resched>>

init_sleep ==
  /\ At("wait")
  /\ \E c \in Phil : state[c] # "UNUSED"
  /\ \A c \in Phil : state[c] # "ZOMBIE"
  /\ SleepAt("wait_sched", "WT_CHILD")
  /\ UNCHANGED <<timer_list, sems, state_sema, iter>>

init_end ==
  /\ At("wait")
  /\ \A c \in Phil : state[c] = "UNUSED"
  /\ Goto("init_done")
  /\ UNCHANGED <<runqVars, timer_list, sems, state_sema, iter>>

-----------------------------------------------------------------------------
(***************************************************************************)
(* do_sleep from one label to another.  The code passes SLEEP_TIME; here   *)
(* it may be any shorter time too, so that nothing hangs on the threads    *)
(* thinking and eating in step.                                            *)
(***************************************************************************)
do_sleep(from, label) ==
  /\ At(from)
  /\ SleepAt(label, "WT_TIMER")
  /\ \E ticks \in 1..SLEEP_TIME : timer_list' = add_timer(timer_list, current, ticks)
  /\ UNCHANGED <<sems, state_sema, iter>>

TimersAfterSleep(p) == del_timer(timer_list, p)

sleep_woken(from, next) ==
  /\ At(from)
  /\ timer_list' = TimersAfterSleep(current)
  /\ Goto(next)
  /\ UNCHANGED <<runqVars, sems, state_sema, iter>>

(***************************************************************************)
(* down on semaphore x: with a permit, or into its wait queue.             *)
(***************************************************************************)
down(x, from, label, next) ==
  /\ At(from)
  /\ IF CanTake(sems[x])
     THEN /\ sems' = [sems EXCEPT ![x] = Take(@)]
          /\ Goto(next)
          /\ UNCHANGED runqVars
     ELSE /\ sems' = [sems EXCEPT ![x] = wait_queue_add(@, current)]
          /\ SleepAt(label, "WT_KSEM")
  /\ UNCHANGED <<timer_list, state_sema, iter>>

(***************************************************************************)
(* phi_test_sema and up, on a record of the philosophers' states, the      *)
(* semaphores and the processes woken so far.                              *)
(***************************************************************************)
Woken(sem) == IF sem.queue = <<>> THEN <<>> ELSE <<Head(sem.queue)>>

up(w, x) ==
  [w EXCEPT !.sems[x] = AfterUp(@), !.woken = @ \o Woken(w.sems[x])]

MayEat(st, i) == st[i] = "HUNGRY" /\ st[Left(i)] # "EATING" /\ st[Right(i)] # "EATING"

phi_test_sema(w, i) ==
  IF MayEat(w.st, i) THEN up([w EXCEPT !.st[i] = "EATING"], i) ELSE w

(* Set one's own state, test the philosophers of list, leave the mutex.    *)
Announce(mine, list) ==
  LET w0 == [st |-> [state_sema EXCEPT ![current] = mine], sems |-> sems, woken |-> <<>>]
      w1 == FoldLeft(phi_test_sema, w0, list)
      w  == up(w1, mutex)
  IN  /\ state_sema' = w.st
      /\ sems' = w.sems
      /\ WakeupProcs(Range(w.woken), w.woken)
      /\ time_slice' = SlicesAfterJoin(w.woken)
      /\ UNCHANGED <<current, need_resched, timer_list>>

phi_take_forks_sema ==
  /\ At("hungry")
  /\ Announce("HUNGRY", <<current>>)
  /\ Goto("fork")
  /\ UNCHANGED iter

Neighbours(i) == <<Left(i), Right(i)>>

phi_put_forks_sema ==
  /\ At("full")
  /\ Announce("THINKING", Neighbours(current))
  /\ iter' = [iter EXCEPT ![current] = @ + 1]
  /\ Goto("think")

(***************************************************************************)
(* One round of philosopher_using_semaphore; then do_exit, which wakes     *)
(* init if it waits.                                                       *)
(***************************************************************************)
Dine ==
  \/ current \in Phil /\ iter[current] < TIMES /\ do_sleep("think", "think_sched")
  \/ sleep_woken("think_woken", "take")
  \/ down(mutex, "take", "take_sched", "hungry")
  \/ phi_take_forks_sema
  \/ down(current, "fork", "fork_sched", "eat")
  \/ do_sleep("eat", "eat_sched")
  \/ sleep_woken("eat_woken", "put")
  \/ down(mutex, "put", "put_sched", "full")
  \/ phi_put_forks_sema

Quit ==
  /\ At("think") /\ iter[current] = TIMES
  /\ state' = [state EXCEPT ![current] = "ZOMBIE"]
  /\ Goto("exit_links")
  /\ UNCHANGED <<current, wait_state, run_list, time_slice, need_resched,
                 timer_list, sems, state_sema, iter>>

do_exit_links ==
  /\ At("exit_links")
  /\ LET woken == IF wait_state[initproc] = "WT_CHILD" THEN <<initproc>> ELSE <<>>
     IN  WakeupProcs(Range(woken), woken) /\ time_slice' = SlicesAfterJoin(woken)
  /\ Goto("exit_sched")
  /\ UNCHANGED <<current, need_resched, timer_list, sems, state_sema, iter>>

call_schedule ==
  /\ pc[current] \in DOMAIN AfterSchedule
  /\ current = idleproc => need_resched[idleproc]
  /\ schedule
  /\ Goto(AfterSchedule[pc[current]])
  /\ UNCHANGED <<timer_list, sems, state_sema, iter>>

(* The timer interrupt, until init has ended and the kernel has panicked.  *)
Expired == {p \in Range(ExpiredProcs(timer_list)) : state[p] # "RUNNABLE"}

run_timer_list ==
  /\ pc[idleproc] # "boot" /\ pc[initproc] # "init_done"
  /\ \E joining \in Orderings({p \in Expired : Enqueues(p)}) :
       /\ InExpiryOrder(timer_list, joining)
       /\ WakeupProcs(Expired, joining)
       /\ sched_class_proc_tick(joining)
  /\ timer_list' = AfterTick(timer_list)
  /\ UNCHANGED <<current, sems, state_sema, iter, pc>>

KernelStep ==
  \/ proc_init \/ \E i \in Phil : check_sync(i) \/ init_reap(i)
  \/ init_sleep \/ init_end
  \/ Dine \/ Quit \/ do_exit_links
  \/ call_schedule

halted == pc[initproc] = "init_done" /\ UNCHANGED vars

Next == KernelStep \/ run_timer_list \/ halted

(* The clock ticks for ever, and kernel code runs on between the ticks.    *)
Fairness == WF_vars(KernelStep) /\ WF_vars(run_timer_list)

Spec == Init /\ [][Next]_vars /\ Fairness

-----------------------------------------------------------------------------
(***************************************************************************)
(* Nobody eats beside an eater: not by the shared array, and not by where  *)
(* the threads are (one that still waits for its down has no forks).       *)
(***************************************************************************)
HasForks(i) ==
  /\ pc[i] \in {"eat", "eat_sched", "eat_woken", "put", "put_sched", "full"}
  /\ ~InList(i, sems[i].queue)

ForksExclusive ==
  /\ TypeOK
  /\ \A i \in Phil :
       /\ HasForks(i) => state_sema[i] = "EATING"
       /\ state_sema[i] = "EATING" => state_sema[Right(i)] # "EATING"

(***************************************************************************)
(* s[i] carries one permit at most, only to an eater that has not fetched  *)
(* it, and its queue holds none but i.                                     *)
(***************************************************************************)
PrivatePermit ==
  \A i \in Phil :
    /\ sems[i].value = 1 => state_sema[i] = "EATING" /\ ~HasForks(i)
    /\ sems[i].value \in {0, 1}
    /\ sems[i].queue \in {<<>>, <<i>>}

(***************************************************************************)
(* The asserts of __up and down: what waits in a queue waits for WT_KSEM,  *)
(* and what waits for WT_KSEM is in just one queue.                        *)
(***************************************************************************)
QueuedForKsem ==
  \A p \in Proc :
    wait_state[p] = "WT_KSEM"
      <=> Cardinality({x \in DOMAIN sems : InList(p, sems[x].queue)}) = 1

(***************************************************************************)
(* Nobody is forgotten: whoever sleeps hungry has a neighbour that eats,   *)
(* and is where the up of that neighbour will look for him.                *)
(***************************************************************************)
HungryForAReason ==
  /\ PrivatePermit /\ QueuedForKsem
  /\ \A i \in Phil :
       sems[i].queue # <<>> =>
         /\ state_sema[i] = "HUNGRY"
         /\ "EATING" \in {state_sema[Left(i)], state_sema[Right(i)]}

(* Everyone has all his meals and the dinner ends.                         *)
DinnerEnds == <>(pc[initproc] = "init_done" /\ \A i \in Phil : iter[i] = TIMES)

=============================================================================

-------------------------------- MODULE Sched --------------------------------
(***************************************************************************)
(* The scheduler under its most general client.  Whatever runs in kernel   *)
(* mode may create, put to sleep, wake, end or reap a process; the timer   *)
(* interrupt may come at any point.  The modules that model real callers   *)
(* (Kernel, Philosophers) are checked to implement this one.               *)
(***************************************************************************)
EXTENDS RunQueue

VARIABLE
  blocking   \* current set itself SLEEPING or ZOMBIE; its next call is schedule()

vars == <<runqVars, blocking>>

TypeOK == RunqTypeOK /\ blocking \in BOOLEAN

(***************************************************************************)
(* proc_init: idle runs, and asks for a reschedule.                        *)
(***************************************************************************)
Init ==
  /\ current = idleproc
  /\ state = [p \in Proc |-> IF p = idleproc THEN "RUNNABLE" ELSE "UNUSED"]
  /\ wait_state = [p \in Proc |-> "0"]
  /\ run_list = <<>>
  /\ time_slice = [p \in Proc |-> 0]
  /\ need_resched = [p \in Proc |-> p = idleproc]
  /\ blocking = FALSE

(***************************************************************************)
(* do_fork ends in wakeup_proc on the new process.                         *)
(***************************************************************************)
Fork(p) ==
  /\ ~blocking
  /\ state[p] = "UNUSED"
  /\ state' = [state EXCEPT ![p] = "RUNNABLE"]
  /\ run_list' = RR_enqueue(run_list, p)
  /\ time_slice' = [time_slice EXCEPT ![p] = MAX_TIME_SLICE]
  /\ UNCHANGED <<current, wait_state, need_resched, blocking>>

(***************************************************************************)
(* A process prepares to sleep: do_wait, do_sleep, wait_current_set.       *)
(***************************************************************************)
Sleep(why) ==
  /\ ~blocking
  /\ current # idleproc
  /\ state' = [state EXCEPT ![current] = "SLEEPING"]
  /\ wait_state' = [wait_state EXCEPT ![current] = why]
  /\ blocking' = TRUE
  /\ UNCHANGED <<current, run_list, time_slice, need_resched>>

(***************************************************************************)
(* do_exit: the process becomes a ZOMBIE and will never run again.         *)
(***************************************************************************)
Exit ==
  /\ ~blocking
  /\ current # idleproc
  /\ state' = [state EXCEPT ![current] = "ZOMBIE"]
  /\ blocking' = TRUE
  /\ UNCHANGED <<current, wait_state, run_list, time_slice, need_resched>>

(***************************************************************************)
(* do_wait frees a ZOMBIE's proc_struct.  The slot is left as alloc_proc   *)
(* will hand it out again.                                                 *)
(***************************************************************************)
Reap(p) ==
  /\ ~blocking
  /\ p # current
  /\ state[p] = "ZOMBIE"
  /\ state' = [state EXCEPT ![p] = "UNUSED"]
  /\ time_slice' = [time_slice EXCEPT ![p] = 0]
  /\ need_resched' = [need_resched EXCEPT ![p] = FALSE]
  /\ UNCHANGED <<current, wait_state, run_list, blocking>>

(***************************************************************************)
(* do_yield.                                                               *)
(***************************************************************************)
Yield ==
  /\ ~blocking
  /\ current # idleproc
  /\ need_resched' = [need_resched EXCEPT ![current] = TRUE]
  /\ UNCHANGED <<current, state, wait_state, run_list, time_slice, blocking>>

(***************************************************************************)
(* One step of the kernel may wake any set of sleeping processes, calling  *)
(* wakeup_proc on them in any order.                                       *)
(***************************************************************************)
Sleepers == {p \in Proc : state[p] = "SLEEPING"}

(***************************************************************************)
(* Wakeups by the running code (up, do_exit, do_kill) or by a device       *)
(* interrupt.                                                              *)
(***************************************************************************)
Wakeup(woken, joining) ==
  /\ WakeupProcs(woken, joining)
  /\ time_slice' = SlicesAfterJoin(joining)
  /\ UNCHANGED <<current, need_resched, blocking>>

(***************************************************************************)
(* The timer interrupt, run_timer_list: wakeups, then the tick.            *)
(***************************************************************************)
Tick(woken, joining) ==
  /\ WakeupProcs(woken, joining)
  /\ sched_class_proc_tick(joining)
  /\ UNCHANGED <<current, blocking>>

(***************************************************************************)
(* A call to schedule().  Idle makes it only when asked to (cpu_idle).     *)
(***************************************************************************)
Schedule ==
  /\ current = idleproc => need_resched[idleproc]
  /\ schedule
  /\ blocking' = FALSE

Next ==
  \/ \E p \in Proc : Fork(p) \/ Reap(p)
  \/ \E why \in WaitReason : Sleep(why)
  \/ Exit
  \/ Yield
  \/ \E woken \in SUBSET Sleepers :
       \E joining \in Orderings({p \in woken : Enqueues(p)}) :
         Wakeup(woken, joining) \/ Tick(woken, joining)
  \/ Schedule

(***************************************************************************)
(* Fairness.  Ticks keep coming.  Kernel code is finite between two calls  *)
(* to schedule(): a process that blocks gets to it, and one that was asked *)
(* to give up the CPU gets to it when its trap returns.                    *)
(***************************************************************************)
MustSchedule == blocking \/ need_resched[current]

Fairness ==
  /\ WF_vars(MustSchedule /\ Schedule)
  /\ WF_vars(\E woken \in SUBSET Sleepers :
              \E joining \in Orderings({p \in woken : Enqueues(p)}) :
                Tick(woken, joining))

SafeSpec == Init /\ [][Next]_vars

Spec == SafeSpec /\ Fairness

-----------------------------------------------------------------------------
(***************************************************************************)
(* The run queue holds exactly the processes that wait for the CPU, once   *)
(* each: no wakeup between setting SLEEPING and schedule() queues a process *)
(* twice or loses it, and no process that left the queue stays linked (the *)
(* list_empty asserts of RR_enqueue and RR_dequeue).                       *)
(***************************************************************************)
RunQueueExact ==
  /\ NoRepeat(run_list)
  /\ \A p \in Proc :
       InList(p, run_list) <=> state[p] = "RUNNABLE" /\ p # current /\ p # idleproc

(***************************************************************************)
(* A process waits for something exactly while it sleeps.  Wakers decide   *)
(* on wait_state alone (do_exit, do_kill, run_timer_list) and wakeup_proc  *)
(* asserts that what they found is not a ZOMBIE.                           *)
(***************************************************************************)
WaitingIffSleeping ==
  \A p \in Proc : wait_state[p] # "0" <=> state[p] = "SLEEPING"

(***************************************************************************)
(* A queued process has ticks to run: it is never preempted before it ran. *)
(***************************************************************************)
QueuedHasSlice ==
  \A p \in Proc : InList(p, run_list) => time_slice[p] > 0 /\ ~need_resched[p]

(***************************************************************************)
(* The process on the CPU is RUNNABLE unless it is about to give it up.    *)
(***************************************************************************)
CurrentCanRun == blocking \/ state[current] = "RUNNABLE"

(***************************************************************************)
(* Round robin: nobody overtakes a queued process.                         *)
(***************************************************************************)
NoOvertaking ==
  [][\A i \in 1..Len(run_list), j \in 1..Len(run_list') :
       run_list[i] = run_list'[j] => j <= i \/ run_list[i] = current']_vars

(***************************************************************************)
(* Whatever is queued gets the CPU, whatever the other processes do.       *)
(***************************************************************************)
NoStarvation ==
  \A p \in Proc : InList(p, run_list) ~> current = p

=============================================================================

------------------------------ MODULE RunQueue ------------------------------
(***************************************************************************)
(* The scheduler core of the lab8 kernel: kern/schedule/sched.c with the   *)
(* round-robin class of kern/schedule/default_sched.c.  The module holds   *)
(* the scheduling fields of every process and the functions that change    *)
(* them, as operators.  The modules Sched, Kernel and Philosophers put     *)
(* these operators together into actions.                                  *)
(*                                                                         *)
(* A kernel function runs with interrupts off wherever it touches this     *)
(* state, and there is one CPU, so a call is one indivisible step.         *)
(***************************************************************************)
EXTENDS Integers, FiniteSets, Lists

CONSTANTS
  Proc,            \* slots for struct proc_struct
  idleproc,        \* the idle thread: never queued, run when nothing else can
  WaitReason,      \* the WT_xxx values a process can sleep with
  MAX_TIME_SLICE   \* ticks a process may run before it is preempted

ASSUME SchedAssumption ==
  /\ IsFiniteSet(Proc)
  /\ idleproc \in Proc
  /\ MAX_TIME_SLICE \in Nat \ {0}
  /\ "0" \notin WaitReason

VARIABLES
  current,         \* the process on the CPU
  state,           \* proc_struct.state; "UNUSED" is a slot that holds no process
  wait_state,      \* proc_struct.wait_state, "0" when not waiting
  run_list,        \* rq->run_list, head first
  time_slice,      \* proc_struct.time_slice
  need_resched     \* proc_struct.need_resched

runqVars == <<current, state, wait_state, run_list, time_slice, need_resched>>

ProcState == {"UNUSED", "SLEEPING", "RUNNABLE", "ZOMBIE"}

RunqTypeOK ==
  /\ current \in Proc
  /\ state \in [Proc -> ProcState]
  /\ wait_state \in [Proc -> WaitReason \cup {"0"}]
  /\ run_list \in Seq(Proc)
  /\ time_slice \in [Proc -> 0..MAX_TIME_SLICE]
  /\ need_resched \in [Proc -> BOOLEAN]

-----------------------------------------------------------------------------
(* Deviant forms of the definitions below, which the checked properties    *)
(* must tell from the code.                                                *)
EnqueueAtHead(list, p) == <<p>> \o list
SliceNotCounted(p) == time_slice[p]
EnqueuesCurrentToo(p) == p # idleproc

-----------------------------------------------------------------------------
(* RR_enqueue: a process joins at the tail, and an empty slice is refilled.*)
RR_enqueue(list, p) == Append(list, p)

RefilledSlice(p) ==
  IF time_slice[p] \in 1..MAX_TIME_SLICE THEN time_slice[p] ELSE MAX_TIME_SLICE

(* RR_proc_tick: the slice that is left after this tick.                   *)
SliceAfterTick(p) == IF time_slice[p] > 0 THEN time_slice[p] - 1 ELSE 0

(***************************************************************************)
(* wakeup_proc on each of the processes woken, none of them RUNNABLE (a    *)
(* call on a RUNNABLE one only warns).  What it wakes joins the run queue, *)
(* in the order of the calls, unless it is the process on the CPU: that    *)
(* one has set its state but not yet called schedule(), which will queue   *)
(* it.  So joining lists woken \ {current, idleproc}.                      *)
(***************************************************************************)
Enqueues(p) == p # current /\ p # idleproc

WakeupProcs(woken, joining) ==
  /\ state' = [p \in Proc |-> IF p \in woken THEN "RUNNABLE" ELSE state[p]]
  /\ wait_state' = [p \in Proc |-> IF p \in woken THEN "0" ELSE wait_state[p]]
  /\ run_list' = run_list \o joining

(* The slices after the joining processes were queued.                     *)
SlicesAfterJoin(joining) ==
  [p \in Proc |-> IF InList(p, joining) THEN RefilledSlice(p) ELSE time_slice[p]]

(***************************************************************************)
(* schedule(): the current process goes to the tail of the queue if it is  *)
(* still RUNNABLE, and the head of the queue gets the CPU; idle runs when  *)
(* the queue is empty.                                                     *)
(***************************************************************************)
Requeues == state[current] = "RUNNABLE" /\ current # idleproc

QueueWithCurrent == IF Requeues THEN RR_enqueue(run_list, current) ELSE run_list

schedule ==
  /\ need_resched' = [need_resched EXCEPT ![current] = FALSE]
  /\ time_slice' = IF Requeues
                   THEN [time_slice EXCEPT ![current] = RefilledSlice(current)]
                   ELSE time_slice
  /\ IF QueueWithCurrent = <<>>
     THEN current' = idleproc /\ run_list' = <<>>
     ELSE current' = Head(QueueWithCurrent) /\ run_list' = Tail(QueueWithCurrent)
  /\ UNCHANGED <<state, wait_state>>

(***************************************************************************)
(* sched_class_proc_tick(current), after the timers woke the processes of  *)
(* joining.                                                                *)
(***************************************************************************)
sched_class_proc_tick(joining) ==
  IF current = idleproc
  THEN /\ need_resched' = [need_resched EXCEPT ![idleproc] = TRUE]
       /\ time_slice' = SlicesAfterJoin(joining)
  ELSE /\ need_resched' = [need_resched EXCEPT ![current] = @ \/ SliceAfterTick(current) = 0]
       /\ time_slice' = [SlicesAfterJoin(joining) EXCEPT ![current] = SliceAfterTick(current)]

=============================================================================

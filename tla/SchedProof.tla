----------------------------- MODULE SchedProof -----------------------------
(***************************************************************************)
(* Proofs about Sched, for any finite set of processes and any slice.      *)
(***************************************************************************)
EXTENDS Sched, ListLemmas

(***************************************************************************)
(* The inductive invariant.  RunQueueExact alone is not inductive: that a  *)
(* woken process is not queued already needs WaitingIffSleeping, and that  *)
(* schedule() queues the right process needs idle to stay RUNNABLE.  Only  *)
(* the running process can have been asked to give up the CPU.             *)
(***************************************************************************)
IdleRunnable == state[idleproc] = "RUNNABLE" /\ (blocking => current # idleproc)

OnlyCurrentResched == \A p \in Proc : need_resched[p] => p = current

IInv ==
  /\ TypeOK
  /\ RunQueueExact
  /\ WaitingIffSleeping
  /\ QueuedHasSlice
  /\ CurrentCanRun
  /\ IdleRunnable
  /\ OnlyCurrentResched

-----------------------------------------------------------------------------
(* An ordering of a set of processes lists each of them once.              *)
LEMMA OrderingsOfProcs ==
  ASSUME NEW S \in SUBSET Proc, NEW list \in Orderings(S)
  PROVE  /\ list \in Seq(Proc)
         /\ NoRepeat(list)
         /\ \A p : InList(p, list) <=> p \in S
<1>1. IsFiniteSet(S)
  BY FS_Subset, SchedAssumption
<1>2. QED
  BY <1>1, OrderingsList

(* wakeup_proc on sleeping processes keeps the run queue exact.            *)
LEMMA WakeupInv ==
  ASSUME IInv,
         NEW woken \in SUBSET Sleepers,
         NEW joining \in Orderings({p \in woken : Enqueues(p)}),
         WakeupProcs(woken, joining),
         UNCHANGED <<current, blocking>>
  PROVE  /\ RunQueueExact' /\ WaitingIffSleeping' /\ CurrentCanRun' /\ IdleRunnable'
         /\ state' \in [Proc -> ProcState]
         /\ wait_state' \in [Proc -> WaitReason \cup {"0"}]
         /\ run_list' \in Seq(Proc)
         /\ \A p \in Proc : InList(p, run_list') <=> InList(p, run_list) \/ InList(p, joining)
         /\ \A p \in Proc : InList(p, joining) => p # current /\ p # idleproc
<1> DEFINE S == {p \in woken : Enqueues(p)}
<1>1. S \in SUBSET Proc /\ woken \in SUBSET Proc
  BY DEF Sleepers
<1>2. /\ joining \in Seq(Proc)
      /\ NoRepeat(joining)
      /\ \A p : InList(p, joining) <=> p \in S
  BY <1>1, OrderingsOfProcs
<1>3. \A p \in woken : state[p] = "SLEEPING" /\ p # idleproc
  BY DEF Sleepers, IInv, IdleRunnable
<1>4. run_list \in Seq(Proc) /\ NoRepeat(run_list)
  BY DEF IInv, TypeOK, RunqTypeOK, RunQueueExact
<1>5. \A q : ~(InList(q, run_list) /\ InList(q, joining))
  <2>1. SUFFICES ASSUME NEW q, InList(q, run_list), InList(q, joining) PROVE FALSE
    OBVIOUS
  <2>2. q \in Proc /\ state[q] = "SLEEPING"
    BY <2>1, <1>1, <1>2, <1>3
  <2>3. QED
    BY <2>1, <2>2 DEF IInv, RunQueueExact
<1>6. /\ run_list' \in Seq(Proc)
      /\ NoRepeat(run_list')
      /\ \A q : InList(q, run_list') <=> InList(q, run_list) \/ InList(q, joining)
  BY <1>2, <1>4, <1>5, ConcatLists DEF WakeupProcs
<1>7. /\ state' \in [Proc -> ProcState]
      /\ wait_state' \in [Proc -> WaitReason \cup {"0"}]
      /\ \A p \in Proc : /\ state'[p] = IF p \in woken THEN "RUNNABLE" ELSE state[p]
                         /\ wait_state'[p] = IF p \in woken THEN "0" ELSE wait_state[p]
  BY DEF WakeupProcs, IInv, TypeOK, RunqTypeOK, ProcState
<1>8. RunQueueExact'
  <2>1. ASSUME NEW p \in Proc
        PROVE  InList(p, run_list') <=> state'[p] = "RUNNABLE" /\ p # current' /\ p # idleproc
    <3>1. InList(p, run_list) <=> state[p] = "RUNNABLE" /\ p # current /\ p # idleproc
      BY DEF IInv, RunQueueExact
    <3>2. InList(p, joining) <=> p \in woken /\ p # current /\ p # idleproc
      BY <1>2 DEF Enqueues
    <3>3. QED
      BY <3>1, <3>2, <1>3, <1>6, <1>7
  <2>2. QED
    BY <2>1, <1>6 DEF RunQueueExact
<1>9. WaitingIffSleeping'
  BY <1>3, <1>7, SchedAssumption DEF IInv, WaitingIffSleeping
<1>10. CurrentCanRun' /\ IdleRunnable'
  BY <1>7, SchedAssumption DEF IInv, CurrentCanRun, IdleRunnable, TypeOK, RunqTypeOK
<1>11. QED
  BY <1>2, <1>6, <1>7, <1>8, <1>9, <1>10 DEF Enqueues

(* The slices after wakeups stay within bounds, and those of the processes *)
(* that joined the queue are not empty.                                    *)
LEMMA JoinSlices ==
  ASSUME TypeOK, NEW joining
  PROVE  /\ SlicesAfterJoin(joining) \in [Proc -> 0..MAX_TIME_SLICE]
         /\ \A p \in Proc :
              /\ InList(p, joining) => SlicesAfterJoin(joining)[p] > 0
              /\ ~InList(p, joining) => SlicesAfterJoin(joining)[p] = time_slice[p]
BY SchedAssumption DEF SlicesAfterJoin, RefilledSlice, TypeOK, RunqTypeOK

-----------------------------------------------------------------------------
(* A new process joins the queue.                                          *)
LEMMA ForkInv == ASSUME IInv, NEW p \in Proc, Fork(p) PROVE IInv'
<1>1. /\ p # current /\ p # idleproc /\ ~InList(p, run_list) /\ wait_state[p] = "0"
  BY DEF IInv, Fork, CurrentCanRun, IdleRunnable, RunQueueExact, WaitingIffSleeping, TypeOK
<1>2. /\ run_list' \in Seq(Proc)
      /\ NoRepeat(run_list')
      /\ \A q : InList(q, run_list') <=> InList(q, run_list) \/ q = p
  BY <1>1, AppendList DEF IInv, Fork, RR_enqueue, TypeOK, RunqTypeOK, RunQueueExact
<1>3. TypeOK'
  BY <1>2, SchedAssumption DEF IInv, Fork, TypeOK, RunqTypeOK, ProcState
<1>4. RunQueueExact'
  BY <1>1, <1>2 DEF IInv, Fork, TypeOK, RunqTypeOK, RunQueueExact
<1>5. WaitingIffSleeping' /\ CurrentCanRun' /\ IdleRunnable' /\ OnlyCurrentResched'
  BY <1>1 DEF IInv, Fork, TypeOK, RunqTypeOK, WaitingIffSleeping, CurrentCanRun,
              IdleRunnable, OnlyCurrentResched
<1>6. QueuedHasSlice'
  BY <1>1, <1>2, SchedAssumption
  DEF IInv, Fork, TypeOK, RunqTypeOK, QueuedHasSlice, OnlyCurrentResched
<1>7. QED
  BY <1>3, <1>4, <1>5, <1>6 DEF IInv

(* A process that sets itself asleep stays current.                        *)
LEMMA SleepInv == ASSUME IInv, NEW why \in WaitReason, Sleep(why) PROVE IInv'
<1>1. why # "0" /\ ~InList(current, run_list)
  BY SchedAssumption DEF IInv, RunQueueExact, TypeOK, RunqTypeOK
<1>2. QED
  BY <1>1, SchedAssumption
  DEF IInv, Sleep, TypeOK, RunqTypeOK, ProcState, RunQueueExact, WaitingIffSleeping,
      QueuedHasSlice, CurrentCanRun, IdleRunnable, OnlyCurrentResched

(* A process that ends stays current.                                      *)
LEMMA ExitInv == ASSUME IInv, Exit PROVE IInv'
<1>1. ~InList(current, run_list) /\ wait_state[current] = "0"
  BY DEF IInv, Exit, RunQueueExact, WaitingIffSleeping, CurrentCanRun, TypeOK, RunqTypeOK
<1>2. QED
  BY <1>1, SchedAssumption
  DEF IInv, Exit, TypeOK, RunqTypeOK, ProcState, RunQueueExact, WaitingIffSleeping,
      QueuedHasSlice, CurrentCanRun, IdleRunnable, OnlyCurrentResched

(* A zombie that is not current is not queued.                             *)
LEMMA ReapInv == ASSUME IInv, NEW p \in Proc, Reap(p) PROVE IInv'
<1>1. ~InList(p, run_list)
  BY DEF IInv, Reap, RunQueueExact
<1>2. QED
  BY <1>1, SchedAssumption
  DEF IInv, Reap, TypeOK, RunqTypeOK, ProcState, RunQueueExact, WaitingIffSleeping,
      QueuedHasSlice, CurrentCanRun, IdleRunnable, OnlyCurrentResched

(* do_yield only asks for schedule().                                      *)
LEMMA YieldInv == ASSUME IInv, Yield PROVE IInv'
BY SchedAssumption
DEF IInv, Yield, TypeOK, RunqTypeOK, ProcState, RunQueueExact, WaitingIffSleeping,
    QueuedHasSlice, CurrentCanRun, IdleRunnable, OnlyCurrentResched

(* Woken sleepers join the queue, but for the current process.             *)
LEMMA WakeupStepInv ==
  ASSUME IInv,
         NEW woken \in SUBSET Sleepers,
         NEW joining \in Orderings({p \in woken : Enqueues(p)}),
         Wakeup(woken, joining)
  PROVE  IInv'
<1>1. /\ RunQueueExact' /\ WaitingIffSleeping' /\ CurrentCanRun' /\ IdleRunnable'
      /\ state' \in [Proc -> ProcState]
      /\ wait_state' \in [Proc -> WaitReason \cup {"0"}]
      /\ run_list' \in Seq(Proc)
      /\ \A p \in Proc : InList(p, run_list') <=> InList(p, run_list) \/ InList(p, joining)
      /\ \A p \in Proc : InList(p, joining) => p # current /\ p # idleproc
  BY WakeupInv DEF Wakeup
<1>2. TypeOK'
  BY <1>1, JoinSlices DEF IInv, Wakeup, TypeOK, RunqTypeOK
<1>3. QueuedHasSlice' /\ OnlyCurrentResched'
  BY <1>1, JoinSlices DEF IInv, Wakeup, QueuedHasSlice, OnlyCurrentResched
<1>4. QED
  BY <1>1, <1>2, <1>3 DEF IInv

(* A tick wakes sleepers and counts down the slice.                        *)
LEMMA TickInv ==
  ASSUME IInv,
         NEW woken \in SUBSET Sleepers,
         NEW joining \in Orderings({p \in woken : Enqueues(p)}),
         Tick(woken, joining)
  PROVE  IInv'
<1>1. /\ RunQueueExact' /\ WaitingIffSleeping' /\ CurrentCanRun' /\ IdleRunnable'
      /\ state' \in [Proc -> ProcState]
      /\ wait_state' \in [Proc -> WaitReason \cup {"0"}]
      /\ run_list' \in Seq(Proc)
      /\ \A p \in Proc : InList(p, run_list') <=> InList(p, run_list) \/ InList(p, joining)
      /\ \A p \in Proc : InList(p, joining) => p # current /\ p # idleproc
  BY WakeupInv DEF Tick
<1>2. SliceAfterTick(current) \in 0..MAX_TIME_SLICE
  BY SchedAssumption DEF IInv, TypeOK, RunqTypeOK, SliceAfterTick
<1>3. /\ time_slice' \in [Proc -> 0..MAX_TIME_SLICE]
      /\ \A p \in Proc : p # current => time_slice'[p] = SlicesAfterJoin(joining)[p]
  <2>1. SlicesAfterJoin(joining) \in [Proc -> 0..MAX_TIME_SLICE]
    <3>1. TypeOK
      BY DEF IInv
    <3>2. QED
      BY <3>1, JoinSlices
  <2> DEFINE slices == SlicesAfterJoin(joining)
  <2>2. time_slice' = IF current = idleproc THEN slices
                      ELSE [slices EXCEPT ![current] = SliceAfterTick(current)]
    BY DEF Tick, sched_class_proc_tick
  <2> HIDE DEF slices
  <2>3. slices \in [Proc -> 0..MAX_TIME_SLICE]
    BY <2>1 DEF slices
  <2>4. /\ time_slice' \in [Proc -> 0..MAX_TIME_SLICE]
        /\ \A p \in Proc : p # current => time_slice'[p] = slices[p]
    BY <1>2, <2>2, <2>3
  <2>5. QED
    BY <2>4 DEF slices
<1>4. /\ need_resched' \in [Proc -> BOOLEAN]
      /\ \A p \in Proc : p # current => need_resched'[p] = need_resched[p]
  <2>1. PICK b \in BOOLEAN : need_resched' = [need_resched EXCEPT ![current] = b]
    <3>1. CASE current = idleproc
      BY <3>1 DEF Tick, sched_class_proc_tick
    <3>2. CASE current # idleproc
      <4>1. need_resched' = [need_resched EXCEPT
                               ![current] = @ \/ SliceAfterTick(current) = 0]
        BY <3>2 DEF Tick, sched_class_proc_tick
      <4>2. (need_resched[current] \/ SliceAfterTick(current) = 0) \in BOOLEAN
        OBVIOUS
      <4>3. QED
        BY <4>1, <4>2, Zenon
    <3>3. QED
      BY <3>1, <3>2
  <2>2. need_resched \in [Proc -> BOOLEAN]
    BY DEF IInv, TypeOK, RunqTypeOK
  <2>3. QED
    BY <2>1, <2>2
<1>5. TypeOK'
  BY <1>1, <1>3, <1>4 DEF IInv, Tick, TypeOK, RunqTypeOK
<1>6. QueuedHasSlice'
  <2>1. ASSUME NEW p \in Proc, InList(p, run_list')
        PROVE  time_slice'[p] > 0 /\ ~need_resched'[p]
    <3>1. p # current /\ (InList(p, run_list) \/ InList(p, joining))
      BY <2>1, <1>1 DEF IInv, RunQueueExact, TypeOK, RunqTypeOK
    <3>2. QED
      BY <3>1, <1>3, <1>4, JoinSlices DEF IInv, QueuedHasSlice, OnlyCurrentResched
  <2>2. QED
    BY <2>1 DEF QueuedHasSlice
<1>7. OnlyCurrentResched'
  BY <1>4 DEF IInv, Tick, OnlyCurrentResched
<1>8. QED
  BY <1>1, <1>5, <1>6, <1>7 DEF IInv

(* schedule() queues the process it leaves and takes the head.             *)
LEMMA ScheduleInv == ASSUME IInv, Schedule PROVE IInv'
<1> DEFINE q == QueueWithCurrent
<1>1. /\ q \in Seq(Proc)
      /\ NoRepeat(q)
      /\ \A p \in Proc : InList(p, q) <=> state[p] = "RUNNABLE" /\ p # idleproc
  <2>1. /\ run_list \in Seq(Proc) /\ NoRepeat(run_list)
        /\ current \in Proc /\ ~InList(current, run_list)
        /\ \A p \in Proc :
             InList(p, run_list) <=> state[p] = "RUNNABLE" /\ p # current /\ p # idleproc
    BY DEF IInv, TypeOK, RunqTypeOK, RunQueueExact
  <2>2. CASE Requeues
    BY <2>1, <2>2, AppendList DEF QueueWithCurrent, RR_enqueue, Requeues
  <2>3. CASE ~Requeues
    BY <2>1, <2>3 DEF QueueWithCurrent, Requeues
  <2>4. QED
    BY <2>2, <2>3
<1> HIDE DEF q
<1>2. state' = state /\ wait_state' = wait_state /\ blocking' = FALSE
  BY DEF Schedule, schedule
<1>3. /\ time_slice' \in [Proc -> 0..MAX_TIME_SLICE]
      /\ \A p \in Proc : (p = current /\ Requeues => time_slice'[p] > 0)
                      /\ (p # current => time_slice'[p] = time_slice[p])
  BY SchedAssumption DEF IInv, TypeOK, RunqTypeOK, Schedule, schedule, RefilledSlice
<1>4. /\ need_resched' \in [Proc -> BOOLEAN]
      /\ \A p \in Proc : ~need_resched'[p]
  BY DEF IInv, TypeOK, RunqTypeOK, Schedule, schedule, OnlyCurrentResched
<1>5. /\ current' \in Proc
      /\ run_list' \in Seq(Proc)
      /\ NoRepeat(run_list')
      /\ \A p \in Proc : InList(p, run_list') <=> InList(p, q) /\ p # current'
      /\ current' = idleproc \/ InList(current', q)
  <2>1. CASE q = <<>>
    <3>1. current' = idleproc /\ run_list' = <<>>
      BY <2>1 DEF Schedule, schedule, q
    <3>2. QED
      BY <2>1, <3>1, EmptyList, EmptySeq, SchedAssumption
  <2>2. CASE q # <<>>
    <3>1. current' = Head(q) /\ run_list' = Tail(q)
      BY <2>2 DEF Schedule, schedule, q
    <3>2. QED
      BY <2>2, <3>1, <1>1, TailList
  <2>3. QED
    BY <2>1, <2>2
<1>6. TypeOK'
  BY <1>2, <1>3, <1>4, <1>5 DEF IInv, TypeOK, RunqTypeOK
<1>7. RunQueueExact'
  BY <1>1, <1>2, <1>5 DEF RunQueueExact
<1>8. WaitingIffSleeping' /\ CurrentCanRun' /\ IdleRunnable' /\ OnlyCurrentResched'
  BY <1>1, <1>2, <1>4, <1>5
  DEF IInv, WaitingIffSleeping, CurrentCanRun, IdleRunnable, OnlyCurrentResched
<1>9. QueuedHasSlice'
  <2>1. ASSUME NEW p \in Proc, InList(p, run_list')
        PROVE  time_slice'[p] > 0
    <3>1. CASE p = current
      BY <3>1, <2>1, <1>1, <1>3, <1>5 DEF Requeues
    <3>2. CASE p # current
      <4>1. InList(p, run_list)
        BY <3>2, <2>1, <1>1, <1>5 DEF IInv, RunQueueExact
      <4>2. QED
        BY <4>1, <3>2, <1>3 DEF IInv, QueuedHasSlice
    <3>3. QED
      BY <3>1, <3>2
  <2>2. QED
    BY <2>1, <1>4 DEF QueuedHasSlice
<1>10. QED
  BY <1>6, <1>7, <1>8, <1>9 DEF IInv

-----------------------------------------------------------------------------
(* At the start only idle exists.                                          *)
LEMMA InitInv == Init => IInv
<1> SUFFICES ASSUME Init PROVE IInv
  OBVIOUS
<1>1. \A p : ~InList(p, run_list)
  BY EmptyList DEF Init
<1>2. RunQueueExact
  BY <1>1, EmptyList DEF Init, RunQueueExact
<1>3. run_list \in Seq(Proc)
  BY EmptySeq DEF Init
<1>4. need_resched \in [Proc -> BOOLEAN]
  BY DEF Init
<1>5. TypeOK
  <2>1. state \in [Proc -> ProcState]
    BY DEF Init, ProcState
  <2>2. wait_state \in [Proc -> WaitReason \cup {"0"}]
    BY DEF Init
  <2>3. time_slice \in [Proc -> 0..MAX_TIME_SLICE]
    BY SchedAssumption DEF Init
  <2>4. current \in Proc /\ blocking \in BOOLEAN
    BY SchedAssumption DEF Init
  <2>5. QED
    BY <1>3, <1>4, <2>1, <2>2, <2>3, <2>4 DEF TypeOK, RunqTypeOK
<1>6. QueuedHasSlice
  BY <1>1 DEF QueuedHasSlice
<1>7. WaitingIffSleeping /\ CurrentCanRun /\ IdleRunnable /\ OnlyCurrentResched
  BY SchedAssumption DEF Init, WaitingIffSleeping, CurrentCanRun, IdleRunnable, OnlyCurrentResched
<1>8. QED
  BY <1>2, <1>5, <1>6, <1>7 DEF IInv

(* Every step keeps the invariant.                                         *)
LEMMA NextInv == IInv /\ [Next]_vars => IInv'
<1> SUFFICES ASSUME IInv, [Next]_vars PROVE IInv'
  OBVIOUS
<1>1. CASE \E p \in Proc : Fork(p) \/ Reap(p)
  BY <1>1, ForkInv, ReapInv
<1>2. CASE \E why \in WaitReason : Sleep(why)
  BY <1>2, SleepInv
<1>3. CASE Exit
  BY <1>3, ExitInv
<1>4. CASE Yield
  BY <1>4, YieldInv
<1>5. CASE \E woken \in SUBSET Sleepers :
             \E joining \in Orderings({p \in woken : Enqueues(p)}) :
               Wakeup(woken, joining) \/ Tick(woken, joining)
  BY <1>5, WakeupStepInv, TickInv
<1>6. CASE Schedule
  BY <1>6, ScheduleInv
<1>7. CASE UNCHANGED vars
  BY <1>7 DEF vars, runqVars, IInv, TypeOK, RunqTypeOK, RunQueueExact, WaitingIffSleeping,
              QueuedHasSlice, CurrentCanRun, IdleRunnable, OnlyCurrentResched
<1>8. QED
  BY <1>1, <1>2, <1>3, <1>4, <1>5, <1>6, <1>7 DEF Next

(* The scheduling fields keep their types in every behaviour.              *)
THEOREM SchedType == Spec => []TypeOK
<1>1. IInv => TypeOK
  BY DEF IInv
<1>2. QED
  BY <1>1, InitInv, NextInv, PTL DEF Spec, SafeSpec

(* The run queue always holds exactly the processes waiting for the CPU.   *)
THEOREM SchedRunQueue == Spec => []RunQueueExact
<1>1. IInv => RunQueueExact
  BY DEF IInv
<1>2. QED
  BY <1>1, InitInv, NextInv, PTL DEF Spec, SafeSpec

(* A process has a wait_state exactly while it is SLEEPING.                *)
THEOREM SchedWaiting == Spec => []WaitingIffSleeping
<1>1. IInv => WaitingIffSleeping
  BY DEF IInv
<1>2. QED
  BY <1>1, InitInv, NextInv, PTL DEF Spec, SafeSpec

(* A queued process has ticks left and has not been asked to give way.     *)
THEOREM SchedSlice == Spec => []QueuedHasSlice
<1>1. IInv => QueuedHasSlice
  BY DEF IInv
<1>2. QED
  BY <1>1, InitInv, NextInv, PTL DEF Spec, SafeSpec

(* Whoever is on the CPU can run, or is about to give it up.               *)
THEOREM SchedCurrent == Spec => []CurrentCanRun
<1>1. IInv => CurrentCanRun
  BY DEF IInv
<1>2. QED
  BY <1>1, InitInv, NextInv, PTL DEF Spec, SafeSpec

-----------------------------------------------------------------------------
(***************************************************************************)
(* Round robin.  A step either puts processes behind the queue, and then   *)
(* everybody keeps his place, or it is schedule(), and everybody moves up. *)
(***************************************************************************)
Overtakes(i, j) == run_list[i] = run_list'[j] /\ ~(j <= i \/ run_list[i] = current')

(* Who joins at the end overtakes nobody.                                  *)
LEMMA BehindTheQueue ==
  ASSUME NEW list \in Seq(Proc), run_list \in Seq(Proc), run_list' = run_list \o list,
         NoRepeat(run_list'),
         NEW i \in 1..Len(run_list), NEW j \in 1..Len(run_list')
  PROVE  ~Overtakes(i, j)
<1>1. /\ Len(run_list') = Len(run_list) + Len(list)
      /\ \A k \in 1..Len(run_list) : run_list'[k] = run_list[k]
  BY ConcatProperties
<1>2. Len(run_list) \in Nat /\ Len(list) \in Nat
  BY LenProperties
<1>3. i \in 1..Len(run_list') /\ run_list'[i] = run_list[i]
  BY <1>1, <1>2
<1>4. run_list[i] = run_list'[j] => i = j
  BY <1>3 DEF NoRepeat
<1>5. QED
  BY <1>2, <1>4 DEF Overtakes

(* Taking the head and appending keep the order of the others.             *)
LEMMA ScheduleOvertakesNone ==
  ASSUME IInv, schedule,
         NEW i \in 1..Len(run_list), NEW j \in 1..Len(run_list')
  PROVE  ~Overtakes(i, j)
<1> DEFINE q == QueueWithCurrent
<1>1. /\ run_list \in Seq(Proc) /\ NoRepeat(run_list) /\ Len(run_list) \in Nat
      /\ current \in Proc /\ ~InList(current, run_list)
  BY LenProperties DEF IInv, TypeOK, RunqTypeOK, RunQueueExact
<1>2. q \in Seq(Proc) /\ NoRepeat(q) /\ i \in 1..Len(q) /\ q[i] = run_list[i]
  <2>1. CASE Requeues
    BY <1>1, <2>1, AppendList, AppendProperties DEF QueueWithCurrent, RR_enqueue
  <2>2. CASE ~Requeues
    BY <1>1, <2>2 DEF QueueWithCurrent
  <2>3. QED
    BY <2>1, <2>2
<1>3. q # <<>> /\ run_list' = Tail(q)
  BY <1>2, LenProperties, EmptySeq DEF schedule
<1>4. Len(Tail(q)) = Len(q) - 1 /\ Len(q) \in Nat /\ Tail(q)[j] = q[j + 1]
  BY <1>2, <1>3, HeadTailProperties, LenProperties
<1>5. run_list[i] = run_list'[j] => i = j + 1
  BY <1>2, <1>3, <1>4 DEF NoRepeat
<1>6. QED
  BY <1>1, <1>3, <1>4, <1>5 DEF Overtakes

(***************************************************************************)
(* Nobody in the run queue is overtaken, whatever the clients of the       *)
(* scheduler do.                                                           *)
(***************************************************************************)
THEOREM SchedNoOvertaking == Spec => NoOvertaking
<1>1. ASSUME IInv, IInv', [Next]_vars,
             NEW i \in 1..Len(run_list), NEW j \in 1..Len(run_list')
      PROVE  ~Overtakes(i, j)
  <2>1. run_list \in Seq(Proc) /\ NoRepeat(run_list')
    BY <1>1 DEF IInv, TypeOK, RunqTypeOK, RunQueueExact
  <2>2. CASE run_list' = run_list
    <3>1. run_list' = run_list \o <<>> /\ <<>> \in Seq(Proc)
      BY <2>1, <2>2, ConcatEmptySeq, EmptySeq
    <3>2. QED
      BY <2>1, <3>1, BehindTheQueue
  <2>3. CASE \E p \in Proc : Fork(p)
    <3>1. PICK p \in Proc : run_list' = Append(run_list, p)
      BY <2>3 DEF Fork, RR_enqueue
    <3>2. run_list' = run_list \o <<p>> /\ <<p>> \in Seq(Proc)
      BY <2>1, <3>1, AppendIsConcat
    <3>3. QED
      BY <2>1, <3>2, BehindTheQueue
  <2>4. CASE \E woken \in SUBSET Sleepers :
               \E joining \in Orderings({p \in woken : Enqueues(p)}) :
                 Wakeup(woken, joining) \/ Tick(woken, joining)
    <3>1. PICK woken \in SUBSET Sleepers :
                 \E joining \in Orderings({p \in woken : Enqueues(p)}) :
                   run_list' = run_list \o joining
      BY <2>4 DEF Wakeup, Tick, WakeupProcs
    <3>2. PICK joining \in Orderings({p \in woken : Enqueues(p)}) :
                 run_list' = run_list \o joining
      BY <3>1
    <3>3. {p \in woken : Enqueues(p)} \in SUBSET Proc
      BY DEF Sleepers
    <3>4. joining \in Seq(Proc)
      BY <3>3, OrderingsOfProcs
    <3>5. QED
      BY <2>1, <3>2, <3>4, BehindTheQueue
  <2>5. CASE Schedule
    BY <1>1, <2>5, ScheduleOvertakesNone DEF Schedule
  <2>6. QED
    BY <1>1, <2>2, <2>3, <2>4, <2>5 DEF Next, Reap, Sleep, Exit, Yield, vars, runqVars
<1>2. ASSUME IInv, IInv', [Next]_vars
      PROVE  [\A i \in 1..Len(run_list), j \in 1..Len(run_list') :
                run_list[i] = run_list'[j] => j <= i \/ run_list[i] = current']_vars
  BY <1>1, <1>2 DEF Overtakes
<1>3. QED
  BY <1>2, InitInv, NextInv, PTL DEF Spec, SafeSpec, NoOvertaking

=============================================================================

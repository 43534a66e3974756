--------------------------------- MODULE Sem ---------------------------------
(***************************************************************************)
(* One semaphore of kern/sync/sem.c and the threads that call down,        *)
(* try_down and up on it.  The sections with interrupts off are atomic and *)
(* a thread gives up the CPU only in the schedule() of __down, so a thread *)
(* that was woken runs on after any number of steps of the others.         *)
(***************************************************************************)
EXTENDS Semaphore, FiniteSets

CONSTANTS
  Thread,      \* the kernel threads
  InitValue,   \* sem_init's value
  MaxSurplus   \* bound, for model checking: how far ups may outrun downs

ASSUME SemAssumption ==
  /\ IsFiniteSet(Thread)
  /\ InitValue \in Nat
  /\ MaxSurplus \in Nat

VARIABLES
  sem,            \* the semaphore
  pc,             \* "ready", "asleep" in __down, "woken" and about to return from it
  wakeup_flags,   \* wait_t.wakeup_flags of the thread's wait_t
  taken           \* returns of down (and try_down with success) less calls of up

vars == <<sem, pc, wakeup_flags, taken>>

TypeOK ==
  /\ sem \in [value : Nat, queue : Seq(Thread)]
  /\ pc \in [Thread -> {"ready", "asleep", "woken"}]
  /\ wakeup_flags \in [Thread -> {"WT_INTERRUPTED", "WT_KSEM"}]
  /\ taken \in Int

Init ==
  /\ sem = sem_init(InitValue)
  /\ pc = [t \in Thread |-> "ready"]
  /\ wakeup_flags = [t \in Thread |-> "WT_INTERRUPTED"]
  /\ taken = 0

(* down, and try_down when it returns 1: a permit is there.                *)
DownTakes(t) ==
  /\ pc[t] = "ready"
  /\ CanTake(sem)
  /\ sem' = Take(sem)
  /\ taken' = taken + 1
  /\ UNCHANGED <<pc, wakeup_flags>>

(* down with no permit left: sleep in the wait queue.                      *)
DownSleeps(t) ==
  /\ pc[t] = "ready"
  /\ ~CanTake(sem)
  /\ sem' = wait_queue_add(sem, t)
  /\ pc' = [pc EXCEPT ![t] = "asleep"]
  /\ wakeup_flags' = [wakeup_flags EXCEPT ![t] = "WT_INTERRUPTED"]
  /\ UNCHANGED taken

(***************************************************************************)
(* The woken thread returns from schedule().  wait_current_del finds its   *)
(* wait_t already unlinked, and __down returns 0 because of the flags.     *)
(***************************************************************************)
DownReturns(t) ==
  /\ pc[t] = "woken"
  /\ pc' = [pc EXCEPT ![t] = "ready"]
  /\ taken' = taken + 1
  /\ UNCHANGED <<sem, wakeup_flags>>

(* wakeup_wait tells the first waiter what woke it.                        *)
FlagsAfterUp ==
  [u \in Thread |-> IF u \in FirstWaiter(sem) THEN "WT_KSEM" ELSE wakeup_flags[u]]

(* Any thread may call up.                                                 *)
Up(t) ==
  /\ taken > -MaxSurplus
  /\ pc[t] = "ready"
  /\ sem' = AfterUp(sem)
  /\ pc' = [u \in Thread |-> IF u \in FirstWaiter(sem) THEN "woken" ELSE pc[u]]
  /\ wakeup_flags' = FlagsAfterUp
  /\ taken' = taken - 1

Next == \E t \in Thread : DownTakes(t) \/ DownSleeps(t) \/ DownReturns(t) \/ Up(t)

Spec == Init /\ [][Next]_vars

-----------------------------------------------------------------------------
(* Permits on their way: their takers are woken but have not run yet.      *)
Granted == {t \in Thread : pc[t] = "woken"}

(***************************************************************************)
(* No permit is made or lost by the hand-over from up to a sleeping down.  *)
(***************************************************************************)
Conservation == sem.value + Cardinality(Granted) + taken = InitValue

(***************************************************************************)
(* No thread sleeps while a permit is free.                                *)
(***************************************************************************)
NoIdlePermit == sem.queue # <<>> => sem.value = 0

(***************************************************************************)
(* The wait queue holds exactly the threads asleep in down, once each, so  *)
(* that the wait_t on a thread's stack is unlinked before down returns.    *)
(***************************************************************************)
QueueIsAsleep ==
  /\ NoRepeat(sem.queue)
  /\ \A t \in Thread : InList(t, sem.queue) <=> pc[t] = "asleep"

(* down's assert(flags == 0): only up ends its sleep.                      *)
NotInterrupted == \A t \in Thread : pc[t] = "woken" => wakeup_flags[t] = "WT_KSEM"

(***************************************************************************)
(* First come, first served: nobody gets in before a thread that already   *)
(* waits, not even by finding a permit that was meant for the waiter.      *)
(***************************************************************************)
Ahead(u, t) == \E i, j \in 1..Len(sem.queue) : i < j /\ sem.queue[i] = u /\ sem.queue[j] = t

NoBarging ==
  [][\A t \in Thread :
       pc[t] = "asleep" /\ pc'[t] = "asleep" =>
         /\ sem'.value = sem.value
         /\ \A u \in Granted' \ Granted : Ahead(u, t)
         /\ \A u \in Thread : Ahead(u, t)' => Ahead(u, t)]_vars

(* The semaphore implements counted permits.                               *)
Permits == INSTANCE AbsSem WITH permits <- sem.value + Cardinality(Granted)

PermitSpec == Permits!Spec

=============================================================================

----------------------------- MODULE SemMmProof -----------------------------
(***************************************************************************)
(* Semaphores and address spaces.                                          *)
(*                                                                         *)
(* Sem and MmLock, for any finite set of threads and, for Sem, any initial *)
(* value.                                                                  *)
(*                                                                         *)
(* AddrSpace, for any finite set of processes, any number of frames and    *)
(* any shape of the address space: every frame is free or in exactly one   *)
(* place of one process, the areas are in order and cover what is mapped,  *)
(* user_mem_check is right about every range, and a fork copies.  The      *)
(* operations are functions from worlds to worlds, so most lemmas say what *)
(* one of them makes of a sane world; the actions only call them.          *)
(***************************************************************************)
EXTENDS MmLock, AddrSpace, ListLemmas, FiniteSetTheorems

(***************************************************************************)
(* The inductive invariant of Sem.  Conservation needs QueueIsAsleep: the  *)
(* thread that up wakes was asleep, so it adds one to Granted.             *)
(***************************************************************************)
SemInv ==
  /\ TypeOK
  /\ Conservation
  /\ NoIdlePermit
  /\ QueueIsAsleep
  /\ NotInterrupted

(* Granted is finite, and counting it follows the thread that joins or     *)
(* leaves it.                                                              *)
LEMMA GrantedFinite == IsFiniteSet(Granted) /\ Cardinality(Granted) \in Nat
<1>1. IsFiniteSet(Granted)
  BY FS_Subset, SemAssumption DEF Granted
<1>2. QED
  BY <1>1, FS_CardinalityType

(* A thread that is woken is one more with a permit.                       *)
LEMMA GrantedGrows ==
  ASSUME NEW t \in Thread, pc[t] # "woken", Granted' = Granted \cup {t}
  PROVE  Cardinality(Granted)' = Cardinality(Granted) + 1
<1>1. t \notin Granted
  BY DEF Granted
<1>2. Cardinality(Granted \cup {t}) = Cardinality(Granted) + 1
  BY <1>1, GrantedFinite, FS_AddElement
<1>3. QED
  BY <1>2

(* A woken thread that returns is one less.                                *)
LEMMA GrantedShrinks ==
  ASSUME NEW t \in Thread, pc[t] = "woken", Granted' = Granted \ {t}
  PROVE  Cardinality(Granted)' = Cardinality(Granted) - 1
<1>1. t \in Granted
  BY DEF Granted
<1>2. Cardinality(Granted \ {t}) = Cardinality(Granted) - 1
  BY <1>1, GrantedFinite, FS_RemoveElement
<1>3. QED
  BY <1>2

-----------------------------------------------------------------------------
(* All permits are free at the start.                                      *)
LEMMA SemInit == Init => SemInv
<1> SUFFICES ASSUME Init PROVE SemInv
  OBVIOUS
<1>1. sem = [value |-> InitValue, queue |-> <<>>]
  BY DEF Init, sem_init
<1>2. Granted = {}
  BY DEF Init, Granted
<1>3. Conservation
  BY <1>1, <1>2, FS_EmptySet, SemAssumption DEF Init, Conservation
<1>4. TypeOK
  BY <1>1, EmptySeq, SemAssumption DEF Init, TypeOK
<1>5. \A t : ~InList(t, <<>>)
  BY DEF InList
<1>6. NoRepeat(<<>>)
  BY DEF NoRepeat
<1>7. NoIdlePermit /\ QueueIsAsleep /\ NotInterrupted
  BY <1>1, <1>5, <1>6 DEF Init, NoIdlePermit, QueueIsAsleep, NotInterrupted
<1>8. QED
  BY <1>3, <1>4, <1>7 DEF SemInv

(* down finds a permit.                                                    *)
LEMMA DownTakesInv == ASSUME SemInv, NEW t \in Thread, DownTakes(t) PROVE SemInv'
<1>1. /\ sem.value > 0
      /\ sem' = [sem EXCEPT !.value = @ - 1]
      /\ taken' = taken + 1
      /\ pc' = pc /\ wakeup_flags' = wakeup_flags
  BY DEF DownTakes, CanTake, Take
<1>2. /\ sem'.value = sem.value - 1 /\ sem'.queue = sem.queue
      /\ TypeOK'
  BY <1>1 DEF SemInv, TypeOK
<1>3. Granted' = Granted
  BY <1>1 DEF Granted
<1>4. Conservation'
  BY <1>1, <1>2, <1>3, GrantedFinite, SemAssumption DEF SemInv, TypeOK, Conservation
<1>5. NoIdlePermit' /\ QueueIsAsleep' /\ NotInterrupted'
  BY <1>1, <1>2 DEF SemInv, NoIdlePermit, QueueIsAsleep, NotInterrupted
<1>6. QED
  BY <1>2, <1>4, <1>5 DEF SemInv

(* down finds none and queues the thread.                                  *)
LEMMA DownSleepsInv == ASSUME SemInv, NEW t \in Thread, DownSleeps(t) PROVE SemInv'
<1>1. /\ ~(sem.value > 0)
      /\ pc[t] = "ready"
      /\ sem' = [sem EXCEPT !.queue = Append(@, t)]
      /\ pc' = [pc EXCEPT ![t] = "asleep"]
      /\ wakeup_flags' = [wakeup_flags EXCEPT ![t] = "WT_INTERRUPTED"]
      /\ taken' = taken
  BY DEF DownSleeps, CanTake, wait_queue_add
<1>2. ~InList(t, sem.queue) /\ sem.queue \in Seq(Thread) /\ NoRepeat(sem.queue)
  BY <1>1 DEF SemInv, TypeOK, QueueIsAsleep
<1>3. sem'.queue = Append(sem.queue, t) /\ sem'.value = sem.value
  BY <1>1 DEF SemInv, TypeOK
<1>4. /\ sem'.queue \in Seq(Thread)
      /\ NoRepeat(sem'.queue)
      /\ \A u : InList(u, sem'.queue) <=> InList(u, sem.queue) \/ u = t
  BY <1>2, <1>3, AppendList
<1>5. TypeOK'
  BY <1>1, <1>3, <1>4 DEF SemInv, TypeOK
<1>6. Granted' = Granted
  BY <1>1 DEF Granted, SemInv, TypeOK
<1>7. Conservation'
  BY <1>1, <1>3, <1>6 DEF SemInv, Conservation
<1>8. NoIdlePermit'
  BY <1>1, <1>3 DEF SemInv, TypeOK, NoIdlePermit
<1>9. QueueIsAsleep'
  BY <1>1, <1>4 DEF SemInv, TypeOK, QueueIsAsleep
<1>10. NotInterrupted'
  BY <1>1 DEF SemInv, TypeOK, NotInterrupted
<1>11. QED
  BY <1>5, <1>7, <1>8, <1>9, <1>10 DEF SemInv

(* down returns in a thread that was woken.                                *)
LEMMA DownReturnsInv == ASSUME SemInv, NEW t \in Thread, DownReturns(t) PROVE SemInv'
<1>1. /\ pc[t] = "woken"
      /\ pc' = [pc EXCEPT ![t] = "ready"]
      /\ taken' = taken + 1
      /\ sem' = sem /\ wakeup_flags' = wakeup_flags
  BY DEF DownReturns
<1>2. TypeOK'
  BY <1>1 DEF SemInv, TypeOK
<1>3. Granted' = Granted \ {t}
  BY <1>1 DEF Granted, SemInv, TypeOK
<1>4. Cardinality(Granted)' = Cardinality(Granted) - 1
  BY <1>1, <1>3, GrantedShrinks
<1>5. Conservation'
  BY <1>1, <1>4, GrantedFinite, SemAssumption DEF SemInv, TypeOK, Conservation
<1>6. NoIdlePermit' /\ QueueIsAsleep' /\ NotInterrupted'
  BY <1>1 DEF SemInv, TypeOK, NoIdlePermit, QueueIsAsleep, NotInterrupted
<1>7. QED
  BY <1>2, <1>5, <1>6 DEF SemInv

(* up hands its permit to the head of the queue, or counts it.             *)
LEMMA UpInv == ASSUME SemInv, NEW t \in Thread, Up(t) PROVE SemInv'
<1>1. taken' = taken - 1 /\ sem' = AfterUp(sem)
  BY DEF Up
<1>2. CASE sem.queue = <<>>
  <2>1. /\ sem' = [sem EXCEPT !.value = @ + 1]
        /\ pc' = pc /\ wakeup_flags' = wakeup_flags
    BY <1>1, <1>2 DEF Up, FlagsAfterUp, AfterUp, FirstWaiter, SemInv, TypeOK
  <2>2. TypeOK' /\ sem'.value = sem.value + 1 /\ sem'.queue = <<>>
    BY <1>1, <1>2, <2>1 DEF SemInv, TypeOK
  <2>3. Granted' = Granted
    BY <2>1 DEF Granted
  <2>4. Conservation'
    <3>1. Cardinality(Granted)' = Cardinality(Granted)
      BY <2>3
    <3>2. sem.value \in Nat /\ taken \in Int
      BY DEF SemInv, TypeOK
    <3>3. sem.value + Cardinality(Granted) + taken = InitValue
      BY DEF SemInv, Conservation
    <3>4. sem'.value + Cardinality(Granted)' + taken' = InitValue
      BY <1>1, <2>2, <3>1, <3>2, <3>3, GrantedFinite, SemAssumption
    <3>5. QED
      BY <3>4 DEF Conservation
  <2>5. NoIdlePermit' /\ QueueIsAsleep' /\ NotInterrupted'
    BY <1>2, <2>1, <2>2 DEF SemInv, NoIdlePermit, QueueIsAsleep, NotInterrupted
  <2>6. QED
    BY <2>2, <2>4, <2>5 DEF SemInv
<1>3. CASE sem.queue # <<>>
  <2> DEFINE w == Head(sem.queue)
  <2>1. /\ sem' = [sem EXCEPT !.queue = Tail(@)]
        /\ pc' = [u \in Thread |-> IF u = w THEN "woken" ELSE pc[u]]
        /\ wakeup_flags' = [u \in Thread |-> IF u = w THEN "WT_KSEM" ELSE wakeup_flags[u]]
    BY <1>1, <1>3 DEF Up, FlagsAfterUp, AfterUp, FirstWaiter
  <2>2. sem.queue \in Seq(Thread) /\ NoRepeat(sem.queue)
    BY DEF SemInv, TypeOK, QueueIsAsleep
  <2>3. /\ w \in Thread
        /\ InList(w, sem.queue)
        /\ Tail(sem.queue) \in Seq(Thread)
        /\ NoRepeat(Tail(sem.queue))
        /\ \A u : InList(u, Tail(sem.queue)) <=> InList(u, sem.queue) /\ u # w
    BY <1>3, <2>2, TailList
  <2>4. pc[w] = "asleep"
    BY <2>3 DEF SemInv, QueueIsAsleep
  <2> HIDE DEF w
  <2>5. TypeOK' /\ sem'.value = sem.value /\ sem'.queue = Tail(sem.queue)
    <3>1. /\ sem' \in [value : Nat, queue : Seq(Thread)]
          /\ sem'.value = sem.value /\ sem'.queue = Tail(sem.queue)
      BY <2>1, <2>3 DEF SemInv, TypeOK
    <3>2. pc' \in [Thread -> {"ready", "asleep", "woken"}]
      BY <2>1 DEF SemInv, TypeOK
    <3>3. wakeup_flags' \in [Thread -> {"WT_INTERRUPTED", "WT_KSEM"}]
      BY <2>1 DEF SemInv, TypeOK
    <3>4. taken' \in Int
      BY <1>1 DEF SemInv, TypeOK
    <3>5. QED
      BY <3>1, <3>2, <3>3, <3>4 DEF TypeOK
  <2>6. Granted' = Granted \cup {w}
    BY <2>1, <2>3 DEF Granted, SemInv, TypeOK
  <2>7. Cardinality(Granted)' = Cardinality(Granted) + 1
    BY <2>3, <2>4, <2>6, GrantedGrows
  <2>8. Conservation'
    BY <1>1, <2>5, <2>7, GrantedFinite, SemAssumption DEF SemInv, TypeOK, Conservation
  <2>9. NoIdlePermit'
    BY <1>3, <2>5 DEF SemInv, NoIdlePermit
  <2>10. QueueIsAsleep'
    BY <2>1, <2>3, <2>5 DEF SemInv, QueueIsAsleep
  <2>11. NotInterrupted'
    BY <2>1 DEF SemInv, NotInterrupted
  <2>12. QED
    BY <2>5, <2>8, <2>9, <2>10, <2>11 DEF SemInv
<1>4. QED
  BY <1>2, <1>3

(* The invariant speaks of the variables only.                             *)
LEMMA SemStutter == ASSUME SemInv, UNCHANGED vars PROVE SemInv'
<1>1. Granted' = Granted
  BY DEF vars, Granted
<1>2. QED
  BY <1>1 DEF vars, SemInv, TypeOK, Conservation, NoIdlePermit, QueueIsAsleep, NotInterrupted

(* Every step keeps the invariant.                                         *)
LEMMA SemNext == SemInv /\ [Next]_vars => SemInv'
BY DownTakesInv, DownSleepsInv, DownReturnsInv, UpInv, SemStutter DEF Next

(* The hand-over of a permit neither makes nor loses one.                  *)
THEOREM SemConservation == Spec => []Conservation
<1>1. SemInv => Conservation
  BY DEF SemInv
<1>2. QED
  BY <1>1, SemInit, SemNext, PTL DEF Spec

(* Nobody sleeps in down while a permit is free.                           *)
THEOREM SemNoIdlePermit == Spec => []NoIdlePermit
<1>1. SemInv => NoIdlePermit
  BY DEF SemInv
<1>2. QED
  BY <1>1, SemInit, SemNext, PTL DEF Spec

(* down returns only because of an up: its assert on the flags holds.      *)
THEOREM SemNotInterrupted == Spec => []NotInterrupted
<1>1. SemInv => NotInterrupted
  BY DEF SemInv
<1>2. QED
  BY <1>1, SemInit, SemNext, PTL DEF Spec

(* The wait queue is the set of threads asleep in down.                    *)
THEOREM SemQueue == Spec => []QueueIsAsleep
<1>1. SemInv => QueueIsAsleep
  BY DEF SemInv
<1>2. QED
  BY <1>1, SemInit, SemNext, PTL DEF Spec

-----------------------------------------------------------------------------
(***************************************************************************)
(* First come, first served.  While t sleeps no permit is free, so that    *)
(* down queues up behind t, and up serves the head of the queue.           *)
(***************************************************************************)
Served(t) ==
  /\ sem'.value = sem.value
  /\ \A u \in Granted' \ Granted : Ahead(u, t)
  /\ \A u \in Thread : Ahead(u, t)' => Ahead(u, t)

(* A sleeper is in the queue, and no permit is free.                       *)
LEMMA SleeperWaits ==
  ASSUME SemInv, NEW t \in Thread, pc[t] = "asleep"
  PROVE  /\ sem.queue \in Seq(Thread) /\ Len(sem.queue) \in Nat
         /\ sem.queue # <<>> /\ InList(t, sem.queue)
         /\ sem.value = 0
<1>1. sem.queue \in Seq(Thread) /\ InList(t, sem.queue)
  BY DEF SemInv, TypeOK, QueueIsAsleep
<1>2. sem.queue # <<>>
  BY <1>1, EmptySeq DEF InList
<1>3. QED
  BY <1>1, <1>2, LenProperties DEF SemInv, NoIdlePermit

(* Another thread that joins the queue does so behind.                     *)
LEMMA DownSleepsServed ==
  ASSUME SemInv, NEW v \in Thread, DownSleeps(v), NEW t \in Thread, pc[t] = "asleep"
  PROVE  Served(t)
<1> DEFINE q == sem.queue
<1>1. q \in Seq(Thread) /\ Len(q) \in Nat /\ v # t
  BY SleeperWaits DEF DownSleeps
<1>2. sem'.value = sem.value /\ sem'.queue = Append(q, v) /\ Granted' = Granted
  BY DEF DownSleeps, wait_queue_add, Granted, SemInv, TypeOK
<1>3. /\ Len(Append(q, v)) = Len(q) + 1
      /\ \A i \in 1..Len(q) : Append(q, v)[i] = q[i]
      /\ Append(q, v)[Len(q) + 1] = v
  BY <1>1, AppendProperties
<1>4. ASSUME NEW u \in Thread, Ahead(u, t)' PROVE Ahead(u, t)
  <2>1. PICK i \in 1..Len(Append(q, v)), j \in 1..Len(Append(q, v)) :
          i < j /\ Append(q, v)[i] = u /\ Append(q, v)[j] = t
    BY <1>2, <1>4 DEF Ahead
  <2>2. i \in 1..Len(q) /\ j \in 1..Len(q)
    BY <1>1, <1>3, <2>1
  <2>3. QED
    BY <1>3, <2>1, <2>2 DEF Ahead
<1>5. QED
  BY <1>2, <1>4 DEF Served

(* up serves the head, which is ahead of every other sleeper.              *)
LEMMA UpServed ==
  ASSUME SemInv, NEW v \in Thread, Up(v),
         NEW t \in Thread, pc[t] = "asleep", pc'[t] = "asleep"
  PROVE  Served(t)
<1> DEFINE q == sem.queue
           w == Head(q)
<1>1. q \in Seq(Thread) /\ Len(q) \in Nat /\ q # <<>> /\ InList(t, q)
  BY SleeperWaits
<1>2. /\ sem' = [sem EXCEPT !.queue = Tail(@)]
      /\ pc' = [u \in Thread |-> IF u = w THEN "woken" ELSE pc[u]]
  BY <1>1 DEF Up, AfterUp, FirstWaiter
<1>3. sem'.value = sem.value /\ sem'.queue = Tail(q) /\ t # w
  BY <1>2 DEF SemInv, TypeOK
<1>4. /\ w = q[1] /\ 1 \in 1..Len(q) /\ Len(Tail(q)) = Len(q) - 1
      /\ \A i \in 1..Len(Tail(q)) : Tail(q)[i] = q[i + 1]
  BY <1>1, HeadTailProperties, EmptySeq
<1>5. Granted' \ Granted \subseteq {w}
  BY <1>2 DEF Granted
<1>6. Ahead(w, t)
  BY <1>1, <1>3, <1>4 DEF Ahead, InList
<1>7. ASSUME NEW u \in Thread, Ahead(u, t)' PROVE Ahead(u, t)
  <2>1. PICK i \in 1..Len(Tail(q)), j \in 1..Len(Tail(q)) :
          i < j /\ Tail(q)[i] = u /\ Tail(q)[j] = t
    BY <1>3, <1>7 DEF Ahead
  <2>2. i + 1 \in 1..Len(q) /\ j + 1 \in 1..Len(q) /\ i + 1 < j + 1
    BY <1>1, <1>4, <2>1
  <2>3. QED
    BY <1>4, <2>1, <2>2 DEF Ahead
<1>8. QED
  BY <1>3, <1>5, <1>6, <1>7 DEF Served

(***************************************************************************)
(* Nobody gets a permit before a thread that already sleeps for one, for   *)
(* any number of threads and permits.                                      *)
(***************************************************************************)
THEOREM SemNoBarging == Spec => NoBarging
<1>1. ASSUME SemInv, [Next]_vars, NEW t \in Thread, pc[t] = "asleep", pc'[t] = "asleep"
      PROVE  Served(t)
  <2>1. CASE \E v \in Thread : DownTakes(v)
    BY <1>1, <2>1, SleeperWaits DEF DownTakes, CanTake
  <2>2. CASE \E v \in Thread : DownSleeps(v)
    BY <1>1, <2>2, DownSleepsServed
  <2>3. CASE \E v \in Thread : DownReturns(v)
    <3>1. sem' = sem /\ Granted' \subseteq Granted
      BY <1>1, <2>3 DEF DownReturns, Granted, SemInv, TypeOK
    <3>2. QED
      BY <3>1 DEF Served, Ahead
  <2>4. CASE \E v \in Thread : Up(v)
    BY <1>1, <2>4, UpServed
  <2>5. CASE UNCHANGED vars
    BY <2>5 DEF vars, Served, Ahead, Granted
  <2>6. QED
    BY <1>1, <2>1, <2>2, <2>3, <2>4, <2>5 DEF Next
<1>2. ASSUME SemInv, [Next]_vars
      PROVE  [\A t \in Thread :
                pc[t] = "asleep" /\ pc'[t] = "asleep" =>
                  /\ sem'.value = sem.value
                  /\ \A u \in Granted' \ Granted : Ahead(u, t)
                  /\ \A u \in Thread : Ahead(u, t)' => Ahead(u, t)]_vars
  BY <1>1, <1>2 DEF Served
<1>3. QED
  BY <1>2, SemInit, SemNext, PTL DEF Spec, NoBarging

-----------------------------------------------------------------------------
(***************************************************************************)
(* The semaphore implements counted permits: each step maps to one of      *)
(* AbsSem or leaves its variables unchanged.                               *)
(***************************************************************************)
FreePermits == sem.value + Cardinality(Granted)

(* Permits are free or taken, before a step ...                            *)
LEMMA FreePermitsCount ==
  SemInv => FreePermits \in Nat /\ taken \in Int /\ FreePermits + taken = InitValue
BY GrantedFinite DEF SemInv, TypeOK, Conservation, FreePermits

(* ... and after it.                                                       *)
LEMMA FreePermitsCountPrimed ==
  SemInv' => FreePermits' \in Nat /\ taken' \in Int /\ FreePermits' + taken' = InitValue
<1>1. IsFiniteSet(Granted')
  BY FS_Subset, SemAssumption DEF Granted
<1>2. Cardinality(Granted') \in Nat
  BY <1>1, FS_CardinalityType
<1>3. QED
  BY <1>2 DEF SemInv, TypeOK, Conservation, FreePermits

(* Two balanced accounts, before and after a step.                         *)
LEMMA PermitArithmetic ==
  ASSUME NEW f \in Nat, NEW g \in Nat, NEW a \in Int, NEW b \in Int,
         f + a = InitValue, g + b = InitValue
  PROVE  /\ b = a + 1 => f > 0 /\ g = f - 1
         /\ b = a - 1 => g = f + 1
         /\ b = a => g = f
BY SemAssumption

(* sem.c implements a counter of permits, for any number of threads.       *)
THEOREM SemImplementsPermits == Spec => PermitSpec
<1>1. Init => Permits!Init
  <2>1. SUFFICES ASSUME Init PROVE sem.value + Cardinality(Granted) = InitValue /\ taken = 0
    BY DEF Permits!Init
  <2>2. Granted = {}
    BY <2>1 DEF Init, Granted
  <2>3. sem.value = InitValue /\ taken = 0
    BY <2>1 DEF Init, sem_init
  <2>4. QED
    BY <2>2, <2>3, FS_EmptySet, SemAssumption
<1>2. ASSUME SemInv, SemInv', [Next]_vars
      PROVE  [Permits!Take \/ Permits!Give]_(Permits!vars)
  <2>1. /\ taken' = taken + 1 => FreePermits > 0 /\ FreePermits' = FreePermits - 1
        /\ taken' = taken - 1 => FreePermits' = FreePermits + 1
        /\ taken' = taken => FreePermits' = FreePermits
    BY <1>2, FreePermitsCount, FreePermitsCountPrimed, PermitArithmetic
  <2>2. taken' = taken + 1 \/ taken' = taken - 1 \/ taken' = taken
    BY <1>2 DEF Next, DownTakes, DownSleeps, DownReturns, Up, vars
  <2>3. CASE taken' = taken + 1
    BY <2>1, <2>3 DEF Permits!Take, FreePermits
  <2>4. CASE taken' = taken - 1
    BY <2>1, <2>4 DEF Permits!Give, FreePermits
  <2>5. CASE taken' = taken
    BY <2>1, <2>5 DEF Permits!vars, FreePermits
  <2>6. QED
    BY <2>2, <2>3, <2>4, <2>5
<1>3. QED
  BY <1>1, <1>2, SemInit, SemNext, PTL DEF Spec, PermitSpec, Permits!Spec

-----------------------------------------------------------------------------
(***************************************************************************)
(* The lock: the permits taken are the threads inside, none of which is on *)
(* its way in.  A thread that is about to write locked_by is alone: nobody *)
(* else writes, and nobody else got in since it called up.                 *)
(***************************************************************************)
WriterIsAlone == \A t \in writing : writing \subseteq {t} /\ held \subseteq {t}

LockInv ==
  /\ SemInv
  /\ LockTypeOK
  /\ taken = Cardinality(held)
  /\ \A t \in held : pc[t] = "ready"
  /\ \A t, u \in held : t = u
  /\ WriterIsAlone
  /\ OwnerIsHolder

(* The holders can be counted.                                             *)
LEMMA HeldFinite == ASSUME LockTypeOK PROVE IsFiniteSet(held) /\ Cardinality(held) \in Nat
<1>1. IsFiniteSet(held)
  BY FS_Subset, SemAssumption DEF LockTypeOK
<1>2. QED
  BY <1>1, FS_CardinalityType

(* With one permit at most one thread holds the lock.                      *)
LEMMA LockExclusion == LockInv => Exclusion
<1> SUFFICES ASSUME LockInv PROVE Exclusion
  OBVIOUS
<1>1. /\ IsFiniteSet(held) /\ Cardinality(held) \in Nat
      /\ IsFiniteSet(Granted) /\ Cardinality(Granted) \in Nat
      /\ sem.value \in Nat
      /\ sem.value + Cardinality(Granted) + Cardinality(held) = 1
  BY HeldFinite, GrantedFinite, MmLockAssumption
  DEF LockInv, SemInv, TypeOK, Conservation
<1>2. ASSUME NEW t \in held, NEW u \in held PROVE t = u
  BY <1>2 DEF LockInv
<1>3. ASSUME held # {} PROVE Granted = {} /\ sem.value = 0
  <2>1. Cardinality(held) # 0
    BY <1>1, <1>3, FS_EmptySet
  <2>2. Cardinality(Granted) = 0 /\ sem.value = 0
    BY <1>1, <2>1
  <2>3. QED
    BY <1>1, <2>2, FS_EmptySet
<1>4. QED
  BY <1>2, <1>3 DEF Exclusion

(* Nobody holds the lock at the start.                                     *)
LEMMA LockInitInv == LockInit => LockInv
<1> SUFFICES ASSUME LockInit PROVE LockInv
  OBVIOUS
<1>1. SemInv
  BY SemInit DEF LockInit
<1>2. taken = Cardinality(held)
  BY FS_EmptySet DEF LockInit, Init
<1>3. OwnerIsHolder /\ WriterIsAlone
  BY MmLockAssumption DEF LockInit, OwnerIsHolder, WriterIsAlone
<1>4. QED
  BY <1>1, <1>2, <1>3 DEF LockInit, LockInv, LockTypeOK, SemInv

(* Every step of the lock is a step of its semaphore, or leaves it alone.  *)
LEMMA LockStep ==
  ASSUME LockInv, [LockNext]_lockVars PROVE [Next]_vars
BY DEF LockNext, lockVars, Next, LockTakes, LockSleeps, LockReturns, RecordsOwner,
       unlock_mm, ClearsOwner

(* Who calls lock_mm or unlock_mm finds nobody about to write locked_by.   *)
LEMMA CallsAlone == ASSUME NEW t, Calls(t) PROVE writing = {}
BY DEF Calls, KeepsCpu

(* A thread that gets the lock joins held while nobody is inside.          *)
LEMMA EnterInv ==
  ASSUME LockInv, SemInv', NEW t \in Thread,
         Calls(t), pc'[t] = "ready",
         taken' = taken + 1,
         t \notin held,
         Enters(t)
  PROVE  LockInv'
<1>1. held \subseteq Thread /\ IsFiniteSet(held) /\ Cardinality(held) \in Nat
  BY HeldFinite DEF LockInv, LockTypeOK
<1>2. Cardinality(held') = Cardinality(held) + 1
  BY <1>1, FS_AddElement DEF Enters
<1>3. held = {}
  <2>1. FreePermits > 0 /\ FreePermits + taken = 1 /\ FreePermits \in Nat
    BY FreePermitsCount, FreePermitsCountPrimed, PermitArithmetic, MmLockAssumption DEF LockInv
  <2>2. Cardinality(held) = 0
    BY <1>1, <2>1 DEF LockInv
  <2>3. QED
    BY <1>1, <2>2, FS_EmptySet
<1>4. writing = {} /\ held' = {t} /\ writing' = {t} /\ locked_by' = locked_by
  BY <1>3, CallsAlone DEF Enters
<1>5. LockTypeOK'
  BY <1>4 DEF LockInv, LockTypeOK, SemInv
<1>6. taken' = Cardinality(held)'
  BY <1>2 DEF LockInv
<1>7. WriterIsAlone' /\ OwnerIsHolder'
  BY <1>3, <1>4 DEF LockInv, WriterIsAlone, OwnerIsHolder
<1>8. QED
  BY <1>4, <1>5, <1>6, <1>7 DEF LockInv

(* Every step keeps the invariant.                                         *)
LEMMA LockNextInv == LockInv /\ [LockNext]_lockVars => LockInv'
<1> SUFFICES ASSUME LockInv, [LockNext]_lockVars PROVE LockInv'
  OBVIOUS
<1>1. SemInv'
  BY LockStep, SemNext DEF LockInv
<1>2. ASSUME NEW t \in Thread, LockTakes(t) PROVE LockInv'
  BY <1>1, <1>2, EnterInv DEF LockTakes, DownTakes, SemInv, TypeOK
<1>3. ASSUME NEW t \in Thread, LockReturns(t) PROVE LockInv'
  <2>1. t \notin held
    BY <1>3 DEF LockReturns, DownReturns, LockInv
  <2>2. pc' = [pc EXCEPT ![t] = "ready"] /\ pc \in [Thread -> {"ready", "asleep", "woken"}]
    BY <1>3 DEF LockReturns, DownReturns, LockInv, SemInv, TypeOK
  <2>3. QED
    BY <1>1, <1>3, <2>1, <2>2, EnterInv DEF LockReturns, DownReturns
<1>4. ASSUME NEW t \in Thread, LockSleeps(t) PROVE LockInv'
  <2>1. /\ held' = held /\ writing' = writing /\ locked_by' = locked_by /\ taken' = taken
        /\ t \notin held /\ pc' = [pc EXCEPT ![t] = "asleep"]
        /\ pc \in [Thread -> {"ready", "asleep", "woken"}]
    BY <1>4 DEF LockSleeps, DownSleeps, LockInv, SemInv, TypeOK
  <2>2. QED
    BY <1>1, <2>1 DEF LockInv, LockTypeOK, SemInv, OwnerIsHolder, WriterIsAlone
<1>5. ASSUME NEW t \in Thread, unlock_mm(t) PROVE LockInv'
  <2>1. /\ t \in held /\ held' = held \ {t} /\ writing' = {t} /\ locked_by' = locked_by
        /\ taken' = taken - 1 /\ writing = {}
    BY <1>5, CallsAlone DEF unlock_mm, Up
  <2>2. held' = {}
    BY <2>1 DEF LockInv
  <2>3. taken' = Cardinality(held)'
    <3>1. IsFiniteSet(held) /\ Cardinality(held \ {t}) = Cardinality(held) - 1
      BY <2>1, HeldFinite, FS_RemoveElement DEF LockInv
    <3>2. QED
      BY <2>1, <3>1 DEF LockInv
  <2>4. LockTypeOK' /\ WriterIsAlone'
    BY <1>1, <2>1, <2>2 DEF LockInv, LockTypeOK, WriterIsAlone, SemInv
  <2>5. OwnerIsHolder'
    BY <2>1, <2>2 DEF LockInv, OwnerIsHolder
  <2>6. QED
    BY <1>1, <2>2, <2>3, <2>4, <2>5 DEF LockInv
<1>6. ASSUME NEW t \in Thread, RecordsOwner(t) PROVE LockInv'
  <2>1. /\ pc' = pc /\ taken' = taken /\ held' = held
        /\ writing' = {} /\ locked_by' = t /\ held = {t}
    BY <1>6 DEF RecordsOwner, KeepsCpu, vars, LockInv, WriterIsAlone
  <2>2. LockTypeOK' /\ OwnerIsHolder' /\ WriterIsAlone'
    BY <1>1, <2>1 DEF LockTypeOK, OwnerIsHolder, WriterIsAlone, SemInv
  <2>3. QED
    BY <1>1, <2>1, <2>2 DEF LockInv
<1>7. ASSUME NEW t \in Thread, ClearsOwner(t) PROVE LockInv'
  <2>1. /\ pc' = pc /\ taken' = taken /\ held' = held
        /\ writing' = {} /\ locked_by' = NoPid /\ held = {}
    BY <1>7 DEF ClearsOwner, KeepsCpu, vars, LockInv, WriterIsAlone
  <2>2. LockTypeOK' /\ OwnerIsHolder' /\ WriterIsAlone'
    BY <1>1, <2>1, MmLockAssumption DEF LockTypeOK, OwnerIsHolder, WriterIsAlone, SemInv
  <2>3. QED
    BY <1>1, <2>1, <2>2 DEF LockInv
<1>8. CASE UNCHANGED lockVars
  BY <1>1, <1>8
  DEF lockVars, vars, LockInv, LockTypeOK, SemInv, OwnerIsHolder, WriterIsAlone
<1>9. QED
  BY <1>2, <1>3, <1>4, <1>5, <1>6, <1>7, <1>8 DEF LockNext

(***************************************************************************)
(* At most one thread holds the lock; while one does, no permit is free    *)
(* and none is on its way to another thread.                               *)
(***************************************************************************)
THEOREM LockMutualExclusion == LockSpec => []Exclusion
BY LockInitInv, LockNextInv, LockExclusion, PTL DEF LockSpec

(***************************************************************************)
(* To every thread but one about to write it, mm->locked_by names the      *)
(* thread that has the lock, although unlock_mm clears it after up.        *)
(***************************************************************************)
THEOREM LockOwner == LockSpec => []OwnerIsHolder
<1>1. LockInv => OwnerIsHolder
  BY DEF LockInv
<1>2. QED
  BY <1>1, LockInitInv, LockNextInv, PTL DEF LockSpec

(***************************************************************************)
(* The lock is exact: one holder at most, and locked_by is the holder but  *)
(* for the step between up or down and the write that follows it.          *)
(***************************************************************************)
THEOREM LockIsExact == LockSpec => []LockExact
<1>1. LockInv => LockExact
  BY LockExclusion DEF LockInv, LockExact
<1>2. QED
  BY <1>1, LockInitInv, LockNextInv, PTL DEF LockSpec

-----------------------------------------------------------------------------
-----------------------------------------------------------------------------
(***************************************************************************)
(* Division.                                                               *)
(***************************************************************************)
LEMMA DivModFacts ==
  ASSUME NEW n \in Nat \ {0}, NEW x \in Int
  PROVE  x % n \in 0..(n-1) /\ x \div n \in Int /\ x = n * (x \div n) + (x % n)
OBVIOUS

(* Division and multiplication are adjoint.                                *)
LEMMA DivAdjoint ==
  ASSUME NEW n \in Nat \ {0}, NEW a \in Int, NEW b \in Int
  PROVE  (n * b <= a) <=> (b <= a \div n)
<1> DEFINE q == a \div n
           r == a % n
<1>1. r \in 0..(n-1) /\ q \in Int /\ a = n * q + r
  BY DivModFacts
<1> HIDE DEF q, r
<1>2. ASSUME b <= q PROVE n * b <= n * q
  <2> DEFINE k == q - b
  <2>1. k \in Nat /\ n * k \in Nat
    BY <1>1, <1>2
  <2>2. n * q = n * b + n * k
    BY <1>1
  <2>3. n * b \in Int /\ n * q \in Int
    BY <1>1
  <2> HIDE DEF k
  <2>4. QED
    BY <2>1, <2>2, <2>3
<1>3. ASSUME ~(b <= q) PROVE n * b >= n * q + n
  <2> DEFINE k == b - q - 1
  <2>1. k \in Nat /\ n * k \in Nat
    BY <1>1, <1>3
  <2>2. n * b = n * q + n + n * k
    BY <1>1
  <2>3. n * b \in Int /\ n * q \in Int
    BY <1>1
  <2> HIDE DEF k
  <2>4. QED
    BY <2>1, <2>2, <2>3
<1>4. n * b \in Int /\ n * q \in Int
  BY <1>1
<1>5. QED
  BY <1>1, <1>2, <1>3, <1>4 DEF q

(* A number is a multiple just if its remainder is 0.                      *)
LEMMA DivExact ==
  ASSUME NEW n \in Nat \ {0}, NEW b \in Int
  PROVE  (n * b) \div n = b /\ (n * b) % n = 0
<1>1. n * b \in Int
  OBVIOUS
<1>2. b <= (n * b) \div n
  BY <1>1, DivAdjoint
<1>3. ~(b + 1 <= (n * b) \div n)
  <2>1. ~(n * (b + 1) <= n * b)
    <3>1. n * (b + 1) = n * b + n
      OBVIOUS
    <3>2. QED
      BY <1>1, <3>1
  <2>2. b + 1 \in Int
    OBVIOUS
  <2>3. QED
    BY <1>1, <2>1, <2>2, DivAdjoint
<1>4. (n * b) \div n \in Int /\ n * b = n * ((n * b) \div n) + ((n * b) % n) /\ (n * b) % n \in 0..(n-1)
  BY <1>1, DivModFacts
<1>5. (n * b) \div n = b
  BY <1>2, <1>3, <1>4
<1>6. QED
  BY <1>1, <1>4, <1>5

(* Division keeps the order.                                               *)
LEMMA DivMonotone ==
  ASSUME NEW n \in Nat \ {0}, NEW a \in Int, NEW b \in Int, a <= b
  PROVE  a \div n <= b \div n
<1>1. a \div n \in Int /\ n * (a \div n) \in Int
  BY DivModFacts
<1>2. n * (a \div n) <= a
  BY <1>1, DivAdjoint
<1>3. n * (a \div n) <= b
  BY <1>1, <1>2
<1>4. QED
  BY <1>1, <1>3, DivAdjoint

(* Dividing twice is dividing by the product.                              *)
LEMMA DivTwice ==
  ASSUME NEW m \in Nat \ {0}, NEW n \in Nat \ {0}, NEW a \in Int
  PROVE  m * n \in Nat \ {0} /\ (a \div m) \div n = a \div (m * n)
<1>1. m * n \in Nat \ {0}
  OBVIOUS
<1> DEFINE x == (a \div m) \div n
           y == a \div (m * n)
<1>2. a \div m \in Int /\ x \in Int /\ y \in Int
  BY <1>1, DivModFacts
<1>3. x <= y
  <2>1. n * x <= a \div m /\ n * x \in Int
    BY <1>2, DivAdjoint
  <2>2. m * (n * x) <= a
    BY <1>2, <2>1, DivAdjoint
  <2>3. m * (n * x) = (m * n) * x
    BY <1>2
  <2>4. QED
    BY <1>1, <1>2, <2>2, <2>3, DivAdjoint
<1>4. y <= x
  <2>1. (m * n) * y <= a
    BY <1>1, <1>2, DivAdjoint
  <2>2. m * (n * y) = (m * n) * y /\ n * y \in Int
    BY <1>2
  <2>3. n * y <= a \div m
    BY <2>1, <2>2, DivAdjoint
  <2>4. QED
    BY <1>2, <2>3, DivAdjoint
<1>5. QED
  BY <1>1, <1>2, <1>3, <1>4

-----------------------------------------------------------------------------
(***************************************************************************)
(* The user's part of the address space.                                   *)
(***************************************************************************)
LEMMA Sizes ==
  /\ NFRAME \in Nat \ {0} /\ PGSIZE \in Nat \ {0} /\ NPT \in Nat \ {0} /\ WORD_SIZE \in Nat \ {0}
  /\ USERBASE \in Nat \ {0} /\ USERTOP \in Nat \ {0} /\ USTACKSIZE \in Nat \ {0}
  /\ StackPages \in Nat \ {0} /\ MaxKmalloc \in Nat /\ MaxCalls \in Nat
  /\ USERTOP < WORD_SIZE
BY AddrSpaceAssumption

(* An area that mm_map can make.                                           *)
UserArea(v) ==
  /\ v \in Area
  /\ v.vm_start % PGSIZE = 0 /\ v.vm_end % PGSIZE = 0
  /\ USER_ACCESS(v.vm_start, v.vm_end)

(* The pages of an area.                                                   *)
InPages(v, la) == la \in PageOf(v.vm_start)..(PageOf(v.vm_end) - 1)

(* The pages below USERTOP have a page table.                              *)
LEMMA UserPage ==
  /\ PageOf(USERTOP) \in Nat /\ PGSIZE * PageOf(USERTOP) = USERTOP
  /\ \A la \in Nat : la < PageOf(USERTOP) => la \in Page /\ TableOf(la) \in Table
<1> DEFINE K == USERTOP \div (PGSIZE * NPT)
           W == WORD_SIZE \div (PGSIZE * NPT)
<1>1. PGSIZE * NPT \in Nat \ {0}
  BY Sizes
<1>2. K \in Int /\ USERTOP = (PGSIZE * NPT) * K
  <2>1. USERTOP % (PGSIZE * NPT) = 0
    BY AddrSpaceAssumption
  <2>2. USERTOP = (PGSIZE * NPT) * K + (USERTOP % (PGSIZE * NPT)) /\ K \in Int
    <3> DEFINE n == PGSIZE * NPT
    <3>1. n \in Nat \ {0} /\ USERTOP \in Int
      BY <1>1, Sizes
    <3> HIDE DEF n
    <3>2. USERTOP = n * (USERTOP \div n) + (USERTOP % n) /\ USERTOP \div n \in Int
      BY <3>1, DivModFacts
    <3>3. QED
      BY <3>2 DEF n
  <2>3. (PGSIZE * NPT) * K \in Int
    BY <1>1, <2>2
  <2> HIDE DEF K
  <2>4. QED
    BY <2>1, <2>2, <2>3
<1>3. K <= W /\ W \in Int
  BY <1>1, Sizes, DivMonotone, DivModFacts
<1> HIDE DEF K
<1>4. USERTOP = PGSIZE * (NPT * K) /\ NPT * K \in Int
  BY <1>2, Sizes
<1>5. PageOf(USERTOP) = NPT * K
  BY <1>4, Sizes, DivExact DEF PageOf
<1>6. PageOf(USERTOP) \in Nat /\ PGSIZE * PageOf(USERTOP) = USERTOP
  <2>1. PGSIZE * 0 <= USERTOP
    BY Sizes
  <2>2. 0 <= PageOf(USERTOP)
    BY <2>1, Sizes, DivAdjoint DEF PageOf
  <2>3. QED
    BY <1>4, <1>5, <2>2
<1>7. ASSUME NEW la \in Nat, la < PageOf(USERTOP) PROVE la \in Page
  <2>1. PageOf(USERTOP) <= WORD_SIZE \div PGSIZE /\ WORD_SIZE \div PGSIZE \in Int
    BY Sizes, DivMonotone, DivModFacts DEF PageOf
  <2>2. QED
    BY <1>6, <1>7, <2>1 DEF Page
<1>8. ASSUME NEW la \in Nat, la < PageOf(USERTOP) PROVE TableOf(la) \in Table
  <2>1. ~(NPT * K <= la)
    BY <1>4, <1>5, <1>8
  <2>2. ~(K <= la \div NPT)
    BY <1>2, <2>1, Sizes, DivAdjoint
  <2>3. la \div NPT \in Int /\ 0 <= la \div NPT
    <3>1. NPT * 0 <= la
      BY Sizes
    <3>2. QED
      BY <3>1, Sizes, DivAdjoint, DivModFacts
  <2>4. la \div NPT \in 0..(W - 1)
    BY <1>2, <1>3, <2>2, <2>3
  <2>5. QED
    BY <2>4 DEF Table, TableOf, W
<1>9. QED
  BY <1>6, <1>7, <1>8

(* The ends of an area are the ends of its pages.                          *)
LEMMA AreaPages ==
  ASSUME NEW v, UserArea(v)
  PROVE  /\ v.vm_start \in Nat /\ v.vm_end \in Nat
         /\ PageOf(v.vm_start) \in Nat /\ PageOf(v.vm_end) \in Nat
         /\ PGSIZE * PageOf(v.vm_start) = v.vm_start /\ PGSIZE * PageOf(v.vm_end) = v.vm_end
         /\ PageOf(v.vm_start) < PageOf(v.vm_end) /\ PageOf(v.vm_end) <= PageOf(USERTOP)
<1>1. v.vm_start \in Nat /\ v.vm_end \in Nat /\ v.vm_start < v.vm_end /\ v.vm_end <= USERTOP
  BY Sizes DEF UserArea, USER_ACCESS, Area
<1>2. ASSUME NEW a \in Nat, a % PGSIZE = 0
      PROVE  PageOf(a) \in Nat /\ PGSIZE * PageOf(a) = a
  <2>1. PageOf(a) \in Int /\ a = PGSIZE * PageOf(a) + 0
    BY <1>2, Sizes, DivModFacts DEF PageOf
  <2>2. PGSIZE * 0 <= a
    BY Sizes
  <2>3. 0 <= PageOf(a)
    BY <2>2, Sizes, DivAdjoint DEF PageOf
  <2>4. QED
    BY <2>1, <2>3, Sizes
<1>3. /\ PageOf(v.vm_start) \in Nat /\ PageOf(v.vm_end) \in Nat
      /\ PGSIZE * PageOf(v.vm_start) = v.vm_start /\ PGSIZE * PageOf(v.vm_end) = v.vm_end
  BY <1>1, <1>2 DEF UserArea
<1>4. ~(PageOf(v.vm_end) <= PageOf(v.vm_start))
  <2>1. ~(PGSIZE * PageOf(v.vm_end) <= v.vm_start)
    BY <1>1, <1>3
  <2>2. QED
    BY <1>1, <1>3, <2>1, Sizes, DivAdjoint DEF PageOf
<1>5. PageOf(v.vm_end) <= PageOf(USERTOP)
  BY <1>1, Sizes, DivMonotone DEF PageOf
<1>6. QED
  BY <1>1, <1>3, <1>4, <1>5

(* An address lies in an area just if its page does.                       *)
LEMMA AddrInArea ==
  ASSUME NEW v, UserArea(v), NEW addr \in Nat
  PROVE  /\ PageOf(addr) \in Nat
         /\ InArea(v, addr) <=> InPages(v, PageOf(addr))
<1>1. PageOf(addr) \in Int /\ 0 <= PageOf(addr)
  <2>1. PGSIZE * 0 <= addr
    BY Sizes
  <2>2. QED
    BY <2>1, Sizes, DivAdjoint, DivModFacts DEF PageOf
<1>2. v.vm_start <= addr <=> PageOf(v.vm_start) <= PageOf(addr)
  <2>1. PageOf(v.vm_start) \in Int /\ PGSIZE * PageOf(v.vm_start) = v.vm_start
    BY AreaPages
  <2>2. PGSIZE * PageOf(v.vm_start) <= addr <=> PageOf(v.vm_start) <= addr \div PGSIZE
    BY <2>1, Sizes, DivAdjoint
  <2>3. QED
    BY <2>1, <2>2 DEF PageOf
<1>3. v.vm_end <= addr <=> PageOf(v.vm_end) <= PageOf(addr)
  <2>1. PageOf(v.vm_end) \in Int /\ PGSIZE * PageOf(v.vm_end) = v.vm_end
    BY AreaPages
  <2>2. PGSIZE * PageOf(v.vm_end) <= addr <=> PageOf(v.vm_end) <= addr \div PGSIZE
    BY <2>1, Sizes, DivAdjoint
  <2>3. QED
    BY <2>1, <2>2 DEF PageOf
<1>4. PageOf(v.vm_start) \in Nat /\ PageOf(v.vm_end) \in Nat /\ v.vm_end \in Nat
  BY AreaPages
<1>5. QED
  BY <1>1, <1>2, <1>3, <1>4 DEF InArea, InPages

(* The pages of an area are pages of the user, with a table of the area.   *)
LEMMA PagesOfArea ==
  ASSUME NEW v, UserArea(v), NEW la, InPages(v, la)
  PROVE  /\ la \in Nat /\ la < PageOf(USERTOP)
         /\ la \in Page /\ TableOf(la) \in Table /\ TableOf(la) \in TablesOf(v)
<1>1. /\ PageOf(v.vm_start) \in Nat /\ PageOf(v.vm_end) \in Nat
      /\ PageOf(v.vm_start) < PageOf(v.vm_end) /\ PageOf(v.vm_end) <= PageOf(USERTOP)
  BY AreaPages
<1>2. la \in Nat /\ PageOf(v.vm_start) <= la /\ la <= PageOf(v.vm_end) - 1 /\ la < PageOf(USERTOP)
  BY <1>1, UserPage DEF InPages
<1>3. la \in Page /\ TableOf(la) \in Table
  BY <1>2, UserPage
<1>4. TableOf(PageOf(v.vm_start)) <= TableOf(la) /\ TableOf(la) <= TableOf(PageOf(v.vm_end) - 1)
  BY <1>1, <1>2, Sizes, DivMonotone DEF TableOf
<1>5. TableOf(PageOf(v.vm_start)) \in Int /\ TableOf(PageOf(v.vm_end) - 1) \in Int
  <2>1. PageOf(v.vm_start) \in Int /\ PageOf(v.vm_end) - 1 \in Int
    BY <1>1
  <2>2. QED
    BY <2>1, Sizes, DivModFacts DEF TableOf
<1>6. TableOf(la) \in Int
  BY <1>2, Sizes, DivModFacts DEF TableOf
<1>7. QED
  BY <1>2, <1>3, <1>4, <1>5, <1>6 DEF TablesOf

-----------------------------------------------------------------------------
(***************************************************************************)
(* The places where frames are kept: the page directory, the page tables   *)
(* and the pages of each process.                                          *)
(***************************************************************************)
MmPlace == (Proc \X {"pgdir"} \X {0}) \cup (Proc \X {"table"} \X Table) \cup (Proc \X {"page"} \X Page)

(* What a place may hold, and the types of an entry and of an address      *)
(* space.                                                                  *)
FrameOrNone == Frame \cup {None}
Pte == [frame : FrameOrNone, w : BOOLEAN]

Space == [mmap_list : Seq(Area), mmap_cache : Area, pgdir : FrameOrNone,
          table : [Table -> FrameOrNone], pte : [Page -> Pte]]
Spaces == [Proc -> Space]

(* What is kept in each place.                                             *)
Holding(m) ==
  [x \in MmPlace |->
     IF x[2] = "pgdir" THEN m[x[1]].pgdir
     ELSE IF x[2] = "table" THEN m[x[1]].table[x[3]]
     ELSE m[x[1]].pte[x[3]].frame]

(* Every frame is in F or kept in exactly one place.                       *)
ExactFrames(H, F) ==
  /\ H \in [MmPlace -> FrameOrNone] /\ F \subseteq Frame
  /\ \A x \in MmPlace : H[x] \notin F
  /\ \A x, y \in MmPlace : H[x] = H[y] /\ H[x] # None => x = y
  /\ \A f \in Frame : f \in F \/ \E x \in MmPlace : H[x] = f

(* Something else is kept in one place.                                    *)
Places(H, x, f) == [H EXCEPT ![x] = f]

(* Nothing is kept in the places P any more.                               *)
Emptied(H, P) == [x \in MmPlace |-> IF x \in P THEN None ELSE H[x]]

(* None is no frame.                                                       *)
LEMMA NoneIsNoFrame == None \notin Frame /\ Frame \subseteq Nat /\ IsFiniteSet(Frame)
<1>1. NFRAME \in Int /\ 1 \in Int
  BY Sizes
<1>2. QED
  BY <1>1, FS_Interval DEF Frame, None

(* There are three kinds of places.                                        *)
LEMMA MmPlaceForms ==
  /\ \A p \in Proc : /\ <<p, "pgdir", 0>> \in MmPlace
                     /\ \A t \in Table : <<p, "table", t>> \in MmPlace
                     /\ \A la \in Page : <<p, "page", la>> \in MmPlace
  /\ \A x \in MmPlace : \E p \in Proc :
       \/ x = <<p, "pgdir", 0>>
       \/ \E t \in Table : x = <<p, "table", t>>
       \/ \E la \in Page : x = <<p, "page", la>>
<1>1. ASSUME NEW p \in Proc
      PROVE  /\ <<p, "pgdir", 0>> \in MmPlace
             /\ \A t \in Table : <<p, "table", t>> \in MmPlace
             /\ \A la \in Page : <<p, "page", la>> \in MmPlace
  BY DEF MmPlace
<1>2. ASSUME NEW x \in MmPlace
      PROVE  \E p \in Proc : \/ x = <<p, "pgdir", 0>>
                             \/ \E t \in Table : x = <<p, "table", t>>
                             \/ \E la \in Page : x = <<p, "page", la>>
  <2>1. CASE x \in Proc \X {"pgdir"} \X {0}
    BY <2>1
  <2>2. CASE x \in Proc \X {"table"} \X Table
    BY <2>2
  <2>3. CASE x \in Proc \X {"page"} \X Page
    BY <2>3
  <2>4. QED
    BY <2>1, <2>2, <2>3 DEF MmPlace
<1>3. QED
  BY <1>1, <1>2

(* What is in the places of each kind.                                     *)
LEMMA HoldingForms ==
  ASSUME NEW m, NEW p \in Proc
  PROVE  /\ Holding(m)[<<p, "pgdir", 0>>] = m[p].pgdir
         /\ \A t \in Table : Holding(m)[<<p, "table", t>>] = m[p].table[t]
         /\ \A la \in Page : Holding(m)[<<p, "page", la>>] = m[p].pte[la].frame
BY MmPlaceForms DEF Holding

(* Two functions on the places are the same if they are so for each kind.  *)
OnPlaces(H) == H = [x \in MmPlace |-> H[x]]

(* H and K agree on the places of each kind.                               *)
SamePlaces(H, K) ==
  /\ OnPlaces(H) /\ OnPlaces(K)
  /\ \A p \in Proc : /\ H[<<p, "pgdir", 0>>] = K[<<p, "pgdir", 0>>]
                     /\ \A t \in Table : H[<<p, "table", t>>] = K[<<p, "table", t>>]
                     /\ \A la \in Page : H[<<p, "page", la>>] = K[<<p, "page", la>>]

(* Functions that agree on each kind of place are equal.                   *)
LEMMA SameHolding == ASSUME NEW H, NEW K, SamePlaces(H, K) PROVE H = K
<1>1. ASSUME NEW x \in MmPlace PROVE H[x] = K[x]
  <2>1. PICK p \in Proc : \/ x = <<p, "pgdir", 0>>
                          \/ \E t \in Table : x = <<p, "table", t>>
                          \/ \E la \in Page : x = <<p, "page", la>>
    BY MmPlaceForms
  <2>2. QED
    BY <2>1 DEF SamePlaces
<1>2. OnPlaces(H) /\ OnPlaces(K)
  BY DEF SamePlaces
<1>3. QED
  BY <1>1, <1>2 DEF OnPlaces

(* A free frame is put into an empty place.                                *)
LEMMA ExactPut ==
  ASSUME NEW H, NEW F, ExactFrames(H, F), NEW x \in MmPlace, H[x] = None, NEW f \in F
  PROVE  ExactFrames(Places(H, x, f), F \ {f})
<1> DEFINE K == Places(H, x, f)
<1>1. f \in Frame /\ f # None /\ f \in FrameOrNone
  BY NoneIsNoFrame DEF ExactFrames, FrameOrNone
<1>2. K \in [MmPlace -> FrameOrNone] /\ \A y \in MmPlace : K[y] = IF y = x THEN f ELSE H[y]
  BY <1>1 DEF ExactFrames, Places
<1> HIDE DEF K
<1>3. \A y \in MmPlace : K[y] \notin F \ {f}
  BY <1>2 DEF ExactFrames
<1>4. ASSUME NEW y \in MmPlace, NEW z \in MmPlace, K[y] = K[z], K[y] # None PROVE y = z
  BY <1>1, <1>2, <1>4 DEF ExactFrames
<1>5. ASSUME NEW g \in Frame PROVE g \in F \ {f} \/ \E y \in MmPlace : K[y] = g
  <2>1. CASE g = f
    BY <1>2, <2>1
  <2>2. CASE g \in F \ {f}
    BY <2>2
  <2>3. CASE g \notin F
    <3>1. PICK y \in MmPlace : H[y] = g
      BY <2>3 DEF ExactFrames
    <3>2. y # x
      BY NoneIsNoFrame, <3>1
    <3>3. QED
      BY <1>2, <3>1, <3>2
  <2>4. QED
    BY <2>1, <2>2, <2>3
<1>6. QED
  BY <1>2, <1>3, <1>4, <1>5 DEF ExactFrames, K

(* Some places are emptied, and what was in them is free.                  *)
LEMMA ExactEmptied ==
  ASSUME NEW H, NEW F, ExactFrames(H, F), NEW P \in SUBSET MmPlace
  PROVE  ExactFrames(Emptied(H, P), F \cup ({H[x] : x \in P} \ {None}))
<1> DEFINE K == Emptied(H, P)
           G == F \cup ({H[x] : x \in P} \ {None})
<1>1. K \in [MmPlace -> FrameOrNone] /\ \A y \in MmPlace : K[y] = IF y \in P THEN None ELSE H[y]
  BY DEF ExactFrames, Emptied, FrameOrNone
<1> HIDE DEF K
<1>2. G \subseteq Frame
  BY DEF ExactFrames, FrameOrNone
<1>3. ASSUME NEW y \in MmPlace PROVE K[y] \notin G
  <2>1. CASE y \in P
    BY <1>1, <1>2, <2>1, NoneIsNoFrame
  <2>2. CASE y \notin P
    <3>1. K[y] = H[y] /\ H[y] \notin F
      BY <1>1, <2>2 DEF ExactFrames
    <3>2. ASSUME NEW x \in P, H[y] = H[x], H[x] # None PROVE FALSE
      BY <2>2, <3>2 DEF ExactFrames
    <3>3. QED
      BY <3>1, <3>2
  <2>3. QED
    BY <2>1, <2>2
<1>4. ASSUME NEW y \in MmPlace, NEW z \in MmPlace, K[y] = K[z], K[y] # None PROVE y = z
  BY <1>1, <1>4 DEF ExactFrames
<1>5. ASSUME NEW f \in Frame PROVE f \in G \/ \E y \in MmPlace : K[y] = f
  <2>1. CASE f \in F
    BY <2>1
  <2>2. CASE f \notin F
    <3>1. PICK y \in MmPlace : H[y] = f
      BY <2>2 DEF ExactFrames
    <3>2. f # None
      BY NoneIsNoFrame
    <3>3. QED
      BY <1>1, <3>1, <3>2
  <2>3. QED
    BY <2>1, <2>2
<1> HIDE DEF G
<1>6. QED
  BY <1>1, <1>2, <1>3, <1>4, <1>5 DEF ExactFrames, K, G

-----------------------------------------------------------------------------
(***************************************************************************)
(* Changes of one address space.                                           *)
(***************************************************************************)
WithTable(as, t, f) == [as EXCEPT !.table[t] = f]
WithPage(as, la, e) == [as EXCEPT !.pte[la] = e]
WithPgdir(as, f) == [as EXCEPT !.pgdir = f]
WithoutPages(as, G) ==
  [as EXCEPT !.pte = [la \in Page |-> IF la \in G THEN Unmapped ELSE as.pte[la]]]
WithoutTables(as, G) ==
  [as EXCEPT !.table = [t \in Table |-> IF t \in G THEN None ELSE as.table[t]]]

(* p gets another address space.                                           *)
Changed(m, p, as) == [m EXCEPT ![p] = as]

(* An entry without a frame.                                               *)
LEMMA UnmappedPte == Unmapped \in Pte /\ Unmapped.frame = None /\ None \in FrameOrNone
BY DEF Unmapped, Pte, FrameOrNone

(* WithTable, field by field.                                              *)
IsWithTable(bs, as, t, f) ==
  /\ bs \in Space
  /\ bs.mmap_list = as.mmap_list
  /\ bs.mmap_cache = as.mmap_cache
  /\ bs.pgdir = as.pgdir
  /\ bs.pte = as.pte
  /\ \A u \in Table : bs.table[u] = IF u = t THEN f ELSE as.table[u]

(* It is what its name says.                                               *)
LEMMA WithTableSpace ==
  ASSUME NEW as \in Space, NEW t \in Table, NEW f \in FrameOrNone
  PROVE  IsWithTable(WithTable(as, t, f), as, t, f)
BY DEF WithTable, Space, IsWithTable

(* WithPage, field by field.                                               *)
IsWithPage(bs, as, la, e) ==
  /\ bs \in Space
  /\ bs.mmap_list = as.mmap_list
  /\ bs.mmap_cache = as.mmap_cache
  /\ bs.pgdir = as.pgdir
  /\ bs.table = as.table
  /\ \A lb \in Page : bs.pte[lb] = IF lb = la THEN e ELSE as.pte[lb]

(* It is what its name says.                                               *)
LEMMA WithPageSpace ==
  ASSUME NEW as \in Space, NEW la \in Page, NEW e \in Pte
  PROVE  IsWithPage(WithPage(as, la, e), as, la, e)
BY DEF WithPage, Space, IsWithPage

(* WithPgdir, field by field.                                              *)
LEMMA WithPgdirSpace ==
  ASSUME NEW as \in Space, NEW f \in FrameOrNone
  PROVE  /\ WithPgdir(as, f) \in Space
         /\ WithPgdir(as, f).mmap_list = as.mmap_list
         /\ WithPgdir(as, f).mmap_cache = as.mmap_cache
         /\ WithPgdir(as, f).pgdir = f
         /\ WithPgdir(as, f).table = as.table
         /\ WithPgdir(as, f).pte = as.pte
BY DEF WithPgdir, Space

(* WithoutPages, field by field.                                           *)
IsWithoutPages(bs, as, G) ==
  /\ bs \in Space
  /\ bs.mmap_list = as.mmap_list
  /\ bs.mmap_cache = as.mmap_cache
  /\ bs.pgdir = as.pgdir
  /\ bs.table = as.table
  /\ \A la \in Page : bs.pte[la] = IF la \in G THEN Unmapped ELSE as.pte[la]

(* It is what its name says.                                               *)
LEMMA WithoutPagesSpace ==
  ASSUME NEW as \in Space, NEW G
  PROVE  IsWithoutPages(WithoutPages(as, G), as, G)
BY UnmappedPte DEF WithoutPages, Space, IsWithoutPages

(* WithoutTables, field by field.                                          *)
IsWithoutTables(bs, as, G) ==
  /\ bs \in Space
  /\ bs.mmap_list = as.mmap_list
  /\ bs.mmap_cache = as.mmap_cache
  /\ bs.pgdir = as.pgdir
  /\ bs.pte = as.pte
  /\ \A t \in Table : bs.table[t] = IF t \in G THEN None ELSE as.table[t]

(* It is what its name says.                                               *)
LEMMA WithoutTablesSpace ==
  ASSUME NEW as \in Space, NEW G
  PROVE  IsWithoutTables(WithoutTables(as, G), as, G)
BY UnmappedPte DEF WithoutTables, Space, IsWithoutTables

(* Changed gives p the address space and leaves the others alone.          *)
LEMMA ChangedSpaces ==
  ASSUME NEW m \in Spaces, NEW p \in Proc, NEW as \in Space
  PROVE  /\ Changed(m, p, as) \in Spaces
         /\ Changed(m, p, as)[p] = as
         /\ \A q \in Proc : q # p => Changed(m, p, as)[q] = m[q]
BY DEF Changed, Spaces

(* What the changes do to the places.                                      *)
HoldsInstead(K, m, p, as) ==
  /\ OnPlaces(K)
  /\ K[<<p, "pgdir", 0>>] = as.pgdir
  /\ \A t \in Table : K[<<p, "table", t>>] = as.table[t]
  /\ \A la \in Page : K[<<p, "page", la>>] = as.pte[la].frame
  /\ \A x \in MmPlace : x[1] # p => K[x] = Holding(m)[x]

(* What the places of p hold comes from its new address space.             *)
LEMMA HoldingChanged ==
  ASSUME NEW m \in Spaces, NEW p \in Proc, NEW as \in Space, NEW K, HoldsInstead(K, m, p, as)
  PROVE  Holding(Changed(m, p, as)) = K
<1> DEFINE n == Changed(m, p, as)
<1>1. n[p] = as /\ \A q \in Proc : q # p => n[q] = m[q]
  BY ChangedSpaces
<1>2. OnPlaces(Holding(n))
  BY DEF Holding, OnPlaces
<1> HIDE DEF n
<1>3. ASSUME NEW q \in Proc
      PROVE  /\ Holding(n)[<<q, "pgdir", 0>>] = K[<<q, "pgdir", 0>>]
             /\ \A u \in Table : Holding(n)[<<q, "table", u>>] = K[<<q, "table", u>>]
             /\ \A la \in Page : Holding(n)[<<q, "page", la>>] = K[<<q, "page", la>>]
  <2>1. /\ Holding(n)[<<q, "pgdir", 0>>] = n[q].pgdir
        /\ \A u \in Table : Holding(n)[<<q, "table", u>>] = n[q].table[u]
        /\ \A la \in Page : Holding(n)[<<q, "page", la>>] = n[q].pte[la].frame
    BY HoldingForms
  <2>2. CASE q = p
    BY <1>1, <2>1, <2>2 DEF HoldsInstead
  <2>3. CASE q # p
    <3>1. /\ Holding(m)[<<q, "pgdir", 0>>] = m[q].pgdir
          /\ \A u \in Table : Holding(m)[<<q, "table", u>>] = m[q].table[u]
          /\ \A la \in Page : Holding(m)[<<q, "page", la>>] = m[q].pte[la].frame
      BY HoldingForms
    <3>2. n[q] = m[q]
      BY <1>1, <2>3
    <3>3. /\ K[<<q, "pgdir", 0>>] = Holding(m)[<<q, "pgdir", 0>>]
          /\ \A u \in Table : K[<<q, "table", u>>] = Holding(m)[<<q, "table", u>>]
          /\ \A la \in Page : K[<<q, "page", la>>] = Holding(m)[<<q, "page", la>>]
      BY <2>3, MmPlaceForms DEF HoldsInstead
    <3>4. QED
      BY <2>1, <3>1, <3>2, <3>3
  <2>4. QED
    BY <2>2, <2>3
<1>4. SamePlaces(Holding(n), K)
  BY <1>2, <1>3 DEF SamePlaces, HoldsInstead
<1>5. QED
  BY <1>4, SameHolding DEF n

(* A page table is one place.                                              *)
LEMMA HoldingTable ==
  ASSUME NEW m \in Spaces, NEW p \in Proc, NEW t \in Table, NEW f \in FrameOrNone
  PROVE  Holding(Changed(m, p, WithTable(m[p], t, f))) = Places(Holding(m), <<p, "table", t>>, f)
<1> DEFINE as == WithTable(m[p], t, f)
           K == Places(Holding(m), <<p, "table", t>>, f)
<1>1. m[p] \in Space
  BY DEF Spaces
<1>2. /\ as \in Space /\ as.pgdir = m[p].pgdir /\ as.pte = m[p].pte
      /\ \A u \in Table : as.table[u] = IF u = t THEN f ELSE m[p].table[u]
  <2>1. IsWithTable(as, m[p], t, f)
    BY <1>1, WithTableSpace
  <2> HIDE DEF as
  <2>2. QED
    BY <2>1 DEF IsWithTable
<1>3. /\ OnPlaces(K)
      /\ \A x \in MmPlace : K[x] = IF x = <<p, "table", t>> THEN f ELSE Holding(m)[x]
  BY DEF Places, Holding, OnPlaces
<1> HIDE DEF as, K
<1>4. /\ K[<<p, "pgdir", 0>>] = as.pgdir
      /\ \A u \in Table : K[<<p, "table", u>>] = as.table[u]
      /\ \A la \in Page : K[<<p, "page", la>>] = as.pte[la].frame
  <2>1. K[<<p, "pgdir", 0>>] = as.pgdir
    BY <1>2, <1>3, MmPlaceForms, HoldingForms
  <2>2. ASSUME NEW u \in Table PROVE K[<<p, "table", u>>] = as.table[u]
    <3>1. K[<<p, "table", u>>] = IF u = t THEN f ELSE Holding(m)[<<p, "table", u>>]
      BY <1>3, MmPlaceForms
    <3>2. Holding(m)[<<p, "table", u>>] = m[p].table[u]
      BY HoldingForms
    <3>3. as.table[u] = IF u = t THEN f ELSE m[p].table[u]
      BY <1>2
    <3>4. QED
      BY <3>1, <3>2, <3>3
  <2>3. ASSUME NEW la \in Page PROVE K[<<p, "page", la>>] = as.pte[la].frame
    <3>1. K[<<p, "page", la>>] = Holding(m)[<<p, "page", la>>]
      BY <1>3, MmPlaceForms
    <3>2. Holding(m)[<<p, "page", la>>] = m[p].pte[la].frame
      BY HoldingForms
    <3>3. QED
      BY <1>2, <3>1, <3>2
  <2>4. QED
    BY <2>1, <2>2, <2>3
<1>5. \A x \in MmPlace : x[1] # p => K[x] = Holding(m)[x]
  BY <1>3
<1>6. Holding(Changed(m, p, as)) = K
  <2>1. HoldsInstead(K, m, p, as)
    BY <1>2, <1>3, <1>4, <1>5 DEF HoldsInstead
  <2>2. QED
    BY <1>2, <2>1, HoldingChanged
<1>7. QED
  BY <1>6 DEF as, K

(* A page is one place.                                                    *)
LEMMA HoldingPage ==
  ASSUME NEW m \in Spaces, NEW p \in Proc, NEW la \in Page, NEW e \in Pte
  PROVE  Holding(Changed(m, p, WithPage(m[p], la, e))) = Places(Holding(m), <<p, "page", la>>, e.frame)
<1> DEFINE as == WithPage(m[p], la, e)
           K == Places(Holding(m), <<p, "page", la>>, e.frame)
<1>1. m[p] \in Space
  BY DEF Spaces
<1>2. /\ as \in Space /\ as.pgdir = m[p].pgdir /\ as.table = m[p].table
      /\ \A lb \in Page : as.pte[lb] = IF lb = la THEN e ELSE m[p].pte[lb]
  <2>1. IsWithPage(as, m[p], la, e)
    BY <1>1, WithPageSpace
  <2> HIDE DEF as
  <2>2. QED
    BY <2>1 DEF IsWithPage
<1>3. /\ OnPlaces(K)
      /\ \A x \in MmPlace : K[x] = IF x = <<p, "page", la>> THEN e.frame ELSE Holding(m)[x]
  BY DEF Places, Holding, OnPlaces
<1> HIDE DEF as, K
<1>4. /\ K[<<p, "pgdir", 0>>] = as.pgdir
      /\ \A u \in Table : K[<<p, "table", u>>] = as.table[u]
  BY <1>2, <1>3, MmPlaceForms, HoldingForms
<1>5. ASSUME NEW lb \in Page PROVE K[<<p, "page", lb>>] = as.pte[lb].frame
  <2>1. K[<<p, "page", lb>>] = IF lb = la THEN e.frame ELSE Holding(m)[<<p, "page", lb>>]
    BY <1>3, MmPlaceForms
  <2>2. Holding(m)[<<p, "page", lb>>] = m[p].pte[lb].frame
    BY HoldingForms
  <2>3. as.pte[lb] = IF lb = la THEN e ELSE m[p].pte[lb]
    BY <1>2
  <2>4. QED
    BY <2>1, <2>2, <2>3
<1>6. \A x \in MmPlace : x[1] # p => K[x] = Holding(m)[x]
  BY <1>3
<1>7. Holding(Changed(m, p, as)) = K
  <2>1. HoldsInstead(K, m, p, as)
    BY <1>2, <1>3, <1>4, <1>5, <1>6 DEF HoldsInstead
  <2>2. QED
    BY <1>2, <2>1, HoldingChanged
<1>8. QED
  BY <1>7 DEF as, K

(* The page directory is one place.                                        *)
LEMMA HoldingPgdir ==
  ASSUME NEW m \in Spaces, NEW p \in Proc, NEW f \in FrameOrNone
  PROVE  Holding(Changed(m, p, WithPgdir(m[p], f))) = Places(Holding(m), <<p, "pgdir", 0>>, f)
<1> DEFINE as == WithPgdir(m[p], f)
           K == Places(Holding(m), <<p, "pgdir", 0>>, f)
<1>1. m[p] \in Space
  BY DEF Spaces
<1>2. /\ as \in Space /\ as.pgdir = f /\ as.pte = m[p].pte /\ as.table = m[p].table
  BY <1>1, WithPgdirSpace
<1>3. /\ OnPlaces(K)
      /\ \A x \in MmPlace : K[x] = IF x = <<p, "pgdir", 0>> THEN f ELSE Holding(m)[x]
  BY DEF Places, Holding, OnPlaces
<1> HIDE DEF as, K
<1>4. /\ K[<<p, "pgdir", 0>>] = as.pgdir
      /\ \A u \in Table : K[<<p, "table", u>>] = as.table[u]
      /\ \A la \in Page : K[<<p, "page", la>>] = as.pte[la].frame
  BY <1>2, <1>3, MmPlaceForms, HoldingForms
<1>5. \A x \in MmPlace : x[1] # p => K[x] = Holding(m)[x]
  BY <1>3
<1>6. Holding(Changed(m, p, as)) = K
  <2>1. HoldsInstead(K, m, p, as)
    BY <1>2, <1>3, <1>4, <1>5 DEF HoldsInstead
  <2>2. QED
    BY <1>2, <2>1, HoldingChanged
<1>7. QED
  BY <1>6 DEF as, K

(* Areas are kept in no place.                                             *)
LEMMA HoldingAreas ==
  ASSUME NEW m \in Spaces, NEW p \in Proc, NEW as \in Space,
         as.pgdir = m[p].pgdir, as.table = m[p].table, as.pte = m[p].pte
  PROVE  Holding(Changed(m, p, as)) = Holding(m)
<1> DEFINE K == Holding(m)
<1>1. OnPlaces(K)
  BY DEF Holding, OnPlaces
<1>2. /\ K[<<p, "pgdir", 0>>] = as.pgdir
      /\ \A u \in Table : K[<<p, "table", u>>] = as.table[u]
      /\ \A la \in Page : K[<<p, "page", la>>] = as.pte[la].frame
  BY MmPlaceForms, HoldingForms
<1> HIDE DEF K
<1>3. \A x \in MmPlace : x[1] # p => K[x] = Holding(m)[x]
  BY DEF K
<1>4. QED
  <2>1. HoldsInstead(K, m, p, as)
    BY <1>1, <1>2, <1>3 DEF HoldsInstead, K
  <2>2. QED
    BY <2>1, HoldingChanged DEF K

(* The places of the pages that are unmapped are emptied.                  *)
LEMMA HoldingWithoutPages ==
  ASSUME NEW m \in Spaces, NEW p \in Proc, NEW G \in SUBSET Page
  PROVE  /\ {p} \X {"page"} \X G \subseteq MmPlace
         /\ Holding(Changed(m, p, WithoutPages(m[p], G))) = Emptied(Holding(m), {p} \X {"page"} \X G)
         /\ {Holding(m)[x] : x \in {p} \X {"page"} \X G} = {m[p].pte[la].frame : la \in G}
<1> DEFINE as == WithoutPages(m[p], G)
           P == {p} \X {"page"} \X G
           K == Emptied(Holding(m), P)
<1>1. m[p] \in Space
  BY DEF Spaces
<1>2. /\ as \in Space /\ as.pgdir = m[p].pgdir /\ as.table = m[p].table
      /\ \A lb \in Page : as.pte[lb] = IF lb \in G THEN Unmapped ELSE m[p].pte[lb]
  <2>1. IsWithoutPages(as, m[p], G)
    BY <1>1, WithoutPagesSpace
  <2> HIDE DEF as
  <2>2. QED
    BY <2>1 DEF IsWithoutPages
<1>3. /\ OnPlaces(K)
      /\ \A x \in MmPlace : K[x] = IF x \in P THEN None ELSE Holding(m)[x]
  BY DEF Emptied, OnPlaces
<1>4. /\ <<p, "pgdir", 0>> \notin P
      /\ \A u \in Table : <<p, "table", u>> \notin P
      /\ \A lb \in Page : <<p, "page", lb>> \in P <=> lb \in G
      /\ \A x \in P : x[1] = p
  OBVIOUS
<1>5. \A x \in P : \E la \in G : x = <<p, "page", la>>
  OBVIOUS
<1> HIDE DEF as, K, P
<1>6. /\ K[<<p, "pgdir", 0>>] = as.pgdir
      /\ \A u \in Table : K[<<p, "table", u>>] = as.table[u]
  BY <1>2, <1>3, <1>4, MmPlaceForms, HoldingForms
<1>7. ASSUME NEW lb \in Page PROVE K[<<p, "page", lb>>] = as.pte[lb].frame
  <2>1. K[<<p, "page", lb>>] = IF lb \in G THEN None ELSE Holding(m)[<<p, "page", lb>>]
    BY <1>3, <1>4, MmPlaceForms
  <2>2. Holding(m)[<<p, "page", lb>>] = m[p].pte[lb].frame
    BY HoldingForms
  <2>3. as.pte[lb] = IF lb \in G THEN Unmapped ELSE m[p].pte[lb]
    BY <1>2
  <2>4. QED
    BY <2>1, <2>2, <2>3, UnmappedPte
<1>8. \A x \in MmPlace : x[1] # p => K[x] = Holding(m)[x]
  BY <1>3, <1>4
<1>9. Holding(Changed(m, p, as)) = K
  <2>1. HoldsInstead(K, m, p, as)
    BY <1>2, <1>3, <1>6, <1>7, <1>8 DEF HoldsInstead
  <2>2. QED
    BY <1>2, <2>1, HoldingChanged
<1>10. P \subseteq MmPlace
  BY <1>5, MmPlaceForms
<1>11. \A la \in G : <<p, "page", la>> \in P /\ Holding(m)[<<p, "page", la>>] = m[p].pte[la].frame
  BY <1>4, HoldingForms
<1>12. {Holding(m)[x] : x \in P} = {m[p].pte[la].frame : la \in G}
  <2>1. ASSUME NEW x \in P PROVE Holding(m)[x] \in {m[p].pte[la].frame : la \in G}
    <3>1. PICK la \in G : x = <<p, "page", la>>
      BY <1>5
    <3>2. QED
      BY <1>11, <3>1
  <2>2. ASSUME NEW la \in G PROVE m[p].pte[la].frame \in {Holding(m)[x] : x \in P}
    BY <1>11
  <2>3. QED
    BY <2>1, <2>2
<1>13. QED
  BY <1>9, <1>10, <1>12 DEF as, K, P

(* The places of the page tables that are freed are emptied.               *)
LEMMA HoldingWithoutTables ==
  ASSUME NEW m \in Spaces, NEW p \in Proc, NEW G \in SUBSET Table
  PROVE  /\ {p} \X {"table"} \X G \subseteq MmPlace
         /\ Holding(Changed(m, p, WithoutTables(m[p], G))) = Emptied(Holding(m), {p} \X {"table"} \X G)
         /\ {Holding(m)[x] : x \in {p} \X {"table"} \X G} = {m[p].table[t] : t \in G}
<1> DEFINE as == WithoutTables(m[p], G)
           P == {p} \X {"table"} \X G
           K == Emptied(Holding(m), P)
<1>1. m[p] \in Space
  BY DEF Spaces
<1>2. /\ as \in Space /\ as.pgdir = m[p].pgdir /\ as.pte = m[p].pte
      /\ \A u \in Table : as.table[u] = IF u \in G THEN None ELSE m[p].table[u]
  <2>1. IsWithoutTables(as, m[p], G)
    BY <1>1, WithoutTablesSpace
  <2> HIDE DEF as
  <2>2. QED
    BY <2>1 DEF IsWithoutTables
<1>3. /\ OnPlaces(K)
      /\ \A x \in MmPlace : K[x] = IF x \in P THEN None ELSE Holding(m)[x]
  BY DEF Emptied, OnPlaces
<1>4. /\ <<p, "pgdir", 0>> \notin P
      /\ \A la \in Page : <<p, "page", la>> \notin P
      /\ \A u \in Table : <<p, "table", u>> \in P <=> u \in G
      /\ \A x \in P : x[1] = p
  OBVIOUS
<1>5. \A x \in P : \E t \in G : x = <<p, "table", t>>
  OBVIOUS
<1> HIDE DEF as, K, P
<1>6. /\ K[<<p, "pgdir", 0>>] = as.pgdir
      /\ \A la \in Page : K[<<p, "page", la>>] = as.pte[la].frame
  BY <1>2, <1>3, <1>4, MmPlaceForms, HoldingForms
<1>7. ASSUME NEW u \in Table PROVE K[<<p, "table", u>>] = as.table[u]
  <2>1. K[<<p, "table", u>>] = IF u \in G THEN None ELSE Holding(m)[<<p, "table", u>>]
    BY <1>3, <1>4, MmPlaceForms
  <2>2. Holding(m)[<<p, "table", u>>] = m[p].table[u]
    BY HoldingForms
  <2>3. as.table[u] = IF u \in G THEN None ELSE m[p].table[u]
    BY <1>2
  <2>4. QED
    BY <2>1, <2>2, <2>3
<1>8. \A x \in MmPlace : x[1] # p => K[x] = Holding(m)[x]
  BY <1>3, <1>4
<1>9. Holding(Changed(m, p, as)) = K
  <2>1. HoldsInstead(K, m, p, as)
    BY <1>2, <1>3, <1>6, <1>7, <1>8 DEF HoldsInstead
  <2>2. QED
    BY <1>2, <2>1, HoldingChanged
<1>10. P \subseteq MmPlace
  BY <1>5, MmPlaceForms
<1>11. \A t \in G : <<p, "table", t>> \in P /\ Holding(m)[<<p, "table", t>>] = m[p].table[t]
  BY <1>4, HoldingForms
<1>12. {Holding(m)[x] : x \in P} = {m[p].table[t] : t \in G}
  <2>1. ASSUME NEW x \in P PROVE Holding(m)[x] \in {m[p].table[t] : t \in G}
    <3>1. PICK t \in G : x = <<p, "table", t>>
      BY <1>5
    <3>2. QED
      BY <1>11, <3>1
  <2>2. ASSUME NEW t \in G PROVE m[p].table[t] \in {Holding(m)[x] : x \in P}
    BY <1>11
  <2>3. QED
    BY <2>1, <2>2
<1>13. QED
  BY <1>9, <1>10, <1>12 DEF as, K, P

-----------------------------------------------------------------------------
(***************************************************************************)
(* What is right of one address space.  Each part is kept by the changes   *)
(* above under the conditions that the code meets.                         *)
(***************************************************************************)
Apart(list) == \A i, j \in 1..Len(list) : i < j => list[i].vm_end <= list[j].vm_start

(* Who owns a page, or a page table, has an area for it.                   *)
PageAllowed(as, la, write) ==
  \E v \in ToSet(as.mmap_list) : InPages(v, la) /\ (write => "WRITE" \in v.vm_flags)

(* The page table t serves a page of an area.                              *)
TableAllowed(as, t) == \E v \in ToSet(as.mmap_list) : t \in TablesOf(v)

(* The areas are in order and apart, each in the user's part, and the      *)
(* cache is one of them or empty.                                          *)
AreasOk(as) ==
  /\ \A i \in 1..Len(as.mmap_list) : UserArea(as.mmap_list[i])
  /\ Apart(as.mmap_list)
  /\ as.mmap_cache \in ToSet(as.mmap_list) \cup {NoArea}

(* A page that is there has a frame, a page table and an area that allows  *)
(* it.                                                                     *)
PagesOk(as) ==
  \A la \in Page : Present(as, la) =>
    /\ as.pte[la].frame # None
    /\ as.table[TableOf(la)] # None
    /\ PageAllowed(as, la, as.pte[la].w)

(* A page table is there for an area only.                                 *)
TablesOk(as) == \A t \in Table : as.table[t] # None => TableAllowed(as, t)

(* All of this.                                                            *)
SpaceOk(as) == as \in Space /\ AreasOk(as) /\ PagesOk(as) /\ TablesOk(as)

(* The set of the elements of a list.                                      *)
LEMMA ListSet ==
  ASSUME NEW S, NEW list \in Seq(S)
  PROVE  /\ ToSet(list) \subseteq S
         /\ \A v : v \in ToSet(list) <=> \E i \in 1..Len(list) : list[i] = v
<1>1. DOMAIN list = 1..Len(list) /\ \A i \in 1..Len(list) : list[i] \in S
  BY LenProperties, ElementOfSeq
<1>2. QED
  BY <1>1 DEF ToSet

(* Every area of a right address space is one that mm_map can make.        *)
LEMMA AreaFacts ==
  ASSUME NEW as, SpaceOk(as), NEW v \in ToSet(as.mmap_list)
  PROVE  UserArea(v) /\ v \in Area /\ v # NoArea
<1>1. as.mmap_list \in Seq(Area)
  BY DEF SpaceOk, Space
<1>2. UserArea(v)
  <2>1. PICK i \in 1..Len(as.mmap_list) : as.mmap_list[i] = v
    BY <1>1, ListSet
  <2>2. UserArea(as.mmap_list[i])
    BY DEF SpaceOk, AreasOk
  <2>3. QED
    BY <2>1, <2>2
<1>3. QED
  BY <1>2, Sizes DEF UserArea, USER_ACCESS, NoArea

(* A page in two areas is in one.                                          *)
LEMMA OneArea ==
  ASSUME NEW as, SpaceOk(as), NEW v \in ToSet(as.mmap_list), NEW u \in ToSet(as.mmap_list),
         NEW la, InPages(v, la), InPages(u, la)
  PROVE  u = v
<1>1. as.mmap_list \in Seq(Area)
  BY DEF SpaceOk, Space
<1>2. PICK i \in 1..Len(as.mmap_list) : as.mmap_list[i] = v
  BY <1>1, ListSet
<1>3. PICK j \in 1..Len(as.mmap_list) : as.mmap_list[j] = u
  BY <1>1, ListSet
<1>4. UserArea(v) /\ UserArea(u)
  BY AreaFacts
<1>5. /\ PageOf(v.vm_start) <= la /\ la < PageOf(v.vm_end)
      /\ PageOf(u.vm_start) <= la /\ la < PageOf(u.vm_end) /\ la \in Int
  BY <1>4, AreaPages DEF InPages
<1>6. /\ v.vm_start \in Int /\ v.vm_end \in Int /\ u.vm_start \in Int /\ u.vm_end \in Int
      /\ PageOf(v.vm_start) \in Int /\ PageOf(v.vm_end) \in Int
      /\ PageOf(u.vm_start) \in Int /\ PageOf(u.vm_end) \in Int
  BY <1>4, AreaPages
<1>7. ~(v.vm_end <= u.vm_start)
  <2>1. v.vm_end <= u.vm_start => PageOf(v.vm_end) <= PageOf(u.vm_start)
    BY <1>6, Sizes, DivMonotone DEF PageOf
  <2>2. QED
    BY <1>5, <1>6, <2>1
<1>8. ~(u.vm_end <= v.vm_start)
  <2>1. u.vm_end <= v.vm_start => PageOf(u.vm_end) <= PageOf(v.vm_start)
    BY <1>6, Sizes, DivMonotone DEF PageOf
  <2>2. QED
    BY <1>5, <1>6, <2>1
<1>9. i = j
  <2>1. i < j => as.mmap_list[i].vm_end <= as.mmap_list[j].vm_start
    BY DEF SpaceOk, AreasOk, Apart
  <2>2. j < i => as.mmap_list[j].vm_end <= as.mmap_list[i].vm_start
    BY DEF SpaceOk, AreasOk, Apart
  <2>3. QED
    BY <1>2, <1>3, <1>7, <1>8, <2>1, <2>2
<1>10. QED
  BY <1>2, <1>3, <1>9

(* A new address space.                                                    *)
LEMMA NoMmOk ==
  /\ NoMm \in Space /\ SpaceOk(NoMm) /\ NoMm.mmap_list = <<>> /\ NoMm.pgdir = None
  /\ \A t \in Table : NoMm.table[t] = None
  /\ \A la \in Page : NoMm.pte[la] = Unmapped
<1>1. NoArea \in Area
  BY Sizes DEF NoArea, Area
<1>2. NoMm \in Space
  BY <1>1, UnmappedPte DEF NoMm, Space
<1>3. /\ NoMm.mmap_list = <<>> /\ NoMm.pgdir = None /\ NoMm.mmap_cache = NoArea
      /\ \A t \in Table : NoMm.table[t] = None
      /\ \A la \in Page : NoMm.pte[la] = Unmapped
  BY DEF NoMm
<1>4. AreasOk(NoMm)
  BY <1>3 DEF AreasOk, Apart
<1>5. PagesOk(NoMm) /\ TablesOk(NoMm)
  BY <1>3 DEF PagesOk, TablesOk, Present
<1>6. QED
  BY <1>2, <1>3, <1>4, <1>5 DEF SpaceOk

(* Only the list of areas matters for what is allowed.                     *)
LEMMA PageAllowedSame ==
  ASSUME NEW as, NEW bs, ToSet(as.mmap_list) \subseteq ToSet(bs.mmap_list),
         NEW la, NEW write, PageAllowed(as, la, write)
  PROVE  PageAllowed(bs, la, write)
BY DEF PageAllowed

(* The same for page tables.                                               *)
LEMMA TableAllowedSame ==
  ASSUME NEW as, NEW bs, ToSet(as.mmap_list) \subseteq ToSet(bs.mmap_list),
         NEW t, TableAllowed(as, t)
  PROVE  TableAllowed(bs, t)
BY DEF TableAllowed

(* A page table is added.                                                  *)
LEMMA WithTableOk ==
  ASSUME NEW as, SpaceOk(as), NEW t \in Table, TableAllowed(as, t), NEW f \in Frame
  PROVE  SpaceOk(WithTable(as, t, f))
<1> DEFINE bs == WithTable(as, t, f)
<1>1. f \in FrameOrNone /\ f # None /\ as \in Space
  BY NoneIsNoFrame DEF FrameOrNone, SpaceOk
<1>2. /\ bs \in Space /\ bs.mmap_list = as.mmap_list /\ bs.mmap_cache = as.mmap_cache
      /\ bs.pte = as.pte /\ \A u \in Table : bs.table[u] = IF u = t THEN f ELSE as.table[u]
  <2>1. IsWithTable(bs, as, t, f)
    BY <1>1, WithTableSpace
  <2> HIDE DEF bs
  <2>2. QED
    BY <2>1 DEF IsWithTable
<1> HIDE DEF bs
<1>3. AreasOk(bs)
  BY <1>2 DEF SpaceOk, AreasOk
<1>4. PagesOk(bs)
  <2> SUFFICES ASSUME NEW la \in Page, Present(bs, la)
               PROVE  /\ bs.pte[la].frame # None /\ bs.table[TableOf(la)] # None
                      /\ PageAllowed(bs, la, bs.pte[la].w)
    BY DEF PagesOk
  <2>1. bs.pte[la] = as.pte[la] /\ Present(as, la)
    BY <1>2 DEF Present
  <2>2. as.pte[la].frame # None /\ as.table[TableOf(la)] # None /\ PageAllowed(as, la, as.pte[la].w)
    BY <2>1 DEF SpaceOk, PagesOk
  <2>3. TableOf(la) \in Table
    <3>1. PICK v \in ToSet(as.mmap_list) : InPages(v, la)
      BY <2>2 DEF PageAllowed
    <3>2. QED
      BY <3>1, AreaFacts, PagesOfArea
  <2>4. bs.table[TableOf(la)] # None
    BY <1>1, <1>2, <2>2, <2>3
  <2>5. PageAllowed(bs, la, as.pte[la].w)
    BY <1>2, <2>2, PageAllowedSame
  <2>6. QED
    BY <2>1, <2>2, <2>4, <2>5
<1>5. TablesOk(bs)
  <2> SUFFICES ASSUME NEW u \in Table, bs.table[u] # None PROVE TableAllowed(bs, u)
    BY DEF TablesOk
  <2>1. TableAllowed(as, u)
    BY <1>2 DEF SpaceOk, TablesOk
  <2>2. QED
    BY <1>2, <2>1, TableAllowedSame
<1>6. QED
  BY <1>2, <1>3, <1>4, <1>5 DEF SpaceOk, bs

(* A page is mapped.                                                       *)
LEMMA WithPageOk ==
  ASSUME NEW as, SpaceOk(as), NEW la \in Page, NEW f \in Frame, NEW write \in BOOLEAN,
         as.table[TableOf(la)] # None, PageAllowed(as, la, write)
  PROVE  /\ [frame |-> f, w |-> write] \in Pte
         /\ SpaceOk(WithPage(as, la, [frame |-> f, w |-> write]))
<1> DEFINE e == [frame |-> f, w |-> write]
           bs == WithPage(as, la, e)
<1>1. e \in Pte /\ e.frame = f /\ e.w = write /\ f # None /\ as \in Space
  BY NoneIsNoFrame DEF FrameOrNone, SpaceOk, Pte
<1> HIDE DEF e
<1>2. /\ bs \in Space /\ bs.mmap_list = as.mmap_list /\ bs.mmap_cache = as.mmap_cache
      /\ bs.table = as.table /\ \A lb \in Page : bs.pte[lb] = IF lb = la THEN e ELSE as.pte[lb]
  <2>1. IsWithPage(bs, as, la, e)
    BY <1>1, WithPageSpace
  <2> HIDE DEF bs
  <2>2. QED
    BY <2>1 DEF IsWithPage
<1> HIDE DEF bs
<1>3. AreasOk(bs)
  BY <1>2 DEF SpaceOk, AreasOk
<1>4. PagesOk(bs)
  <2> SUFFICES ASSUME NEW lb \in Page, Present(bs, lb)
               PROVE  /\ bs.pte[lb].frame # None /\ bs.table[TableOf(lb)] # None
                      /\ PageAllowed(bs, lb, bs.pte[lb].w)
    BY DEF PagesOk
  <2>1. CASE lb = la
    <3>1. bs.pte[lb] = e
      BY <1>2, <2>1
    <3>2. PageAllowed(bs, la, write)
      BY <1>2, PageAllowedSame
    <3>3. QED
      BY <1>1, <1>2, <2>1, <3>1, <3>2
  <2>2. CASE lb # la
    <3>1. bs.pte[lb] = as.pte[lb] /\ Present(as, lb)
      BY <1>2, <2>2 DEF Present
    <3>2. as.pte[lb].frame # None /\ as.table[TableOf(lb)] # None /\ PageAllowed(as, lb, as.pte[lb].w)
      BY <3>1 DEF SpaceOk, PagesOk
    <3>3. PageAllowed(bs, lb, as.pte[lb].w)
      BY <1>2, <3>2, PageAllowedSame
    <3>4. QED
      BY <1>2, <3>1, <3>2, <3>3
  <2>3. QED
    BY <2>1, <2>2
<1>5. TablesOk(bs)
  <2> SUFFICES ASSUME NEW u \in Table, bs.table[u] # None PROVE TableAllowed(bs, u)
    BY DEF TablesOk
  <2>1. TableAllowed(as, u)
    BY <1>2 DEF SpaceOk, TablesOk
  <2>2. QED
    BY <1>2, <2>1, TableAllowedSame
<1>6. QED
  BY <1>1, <1>2, <1>3, <1>4, <1>5 DEF SpaceOk, bs, e

(* The page directory is no part of it.                                    *)
LEMMA WithPgdirOk ==
  ASSUME NEW as, SpaceOk(as), NEW f \in FrameOrNone
  PROVE  SpaceOk(WithPgdir(as, f))
<1> DEFINE bs == WithPgdir(as, f)
<1>1. as \in Space
  BY DEF SpaceOk
<1>2. /\ bs \in Space /\ bs.mmap_list = as.mmap_list /\ bs.mmap_cache = as.mmap_cache
      /\ bs.table = as.table /\ bs.pte = as.pte
  BY <1>1, WithPgdirSpace
<1> HIDE DEF bs
<1>3. AreasOk(bs)
  BY <1>2 DEF SpaceOk, AreasOk
<1>4. PagesOk(bs) /\ TablesOk(bs)
  BY <1>2 DEF SpaceOk, PagesOk, TablesOk, PageAllowed, TableAllowed, Present
<1>5. QED
  BY <1>2, <1>3, <1>4 DEF SpaceOk, bs

(* Pages are unmapped.                                                     *)
LEMMA WithoutPagesOk ==
  ASSUME NEW as, SpaceOk(as), NEW G
  PROVE  SpaceOk(WithoutPages(as, G))
<1> DEFINE bs == WithoutPages(as, G)
<1>1. as \in Space
  BY DEF SpaceOk
<1>2. /\ bs \in Space /\ bs.mmap_list = as.mmap_list /\ bs.mmap_cache = as.mmap_cache
      /\ bs.table = as.table
      /\ \A la \in Page : bs.pte[la] = IF la \in G THEN Unmapped ELSE as.pte[la]
  <2>1. IsWithoutPages(bs, as, G)
    BY <1>1, WithoutPagesSpace
  <2> HIDE DEF bs
  <2>2. QED
    BY <2>1 DEF IsWithoutPages
<1> HIDE DEF bs
<1>3. AreasOk(bs)
  BY <1>2 DEF SpaceOk, AreasOk
<1>4. PagesOk(bs)
  <2> SUFFICES ASSUME NEW la \in Page, Present(bs, la)
               PROVE  /\ bs.pte[la].frame # None /\ bs.table[TableOf(la)] # None
                      /\ PageAllowed(bs, la, bs.pte[la].w)
    BY DEF PagesOk
  <2>1. bs.pte[la] = as.pte[la] /\ Present(as, la)
    BY <1>2 DEF Present
  <2>2. as.pte[la].frame # None /\ as.table[TableOf(la)] # None /\ PageAllowed(as, la, as.pte[la].w)
    BY <2>1 DEF SpaceOk, PagesOk
  <2>3. PageAllowed(bs, la, as.pte[la].w)
    BY <1>2, <2>2, PageAllowedSame
  <2>4. QED
    BY <1>2, <2>1, <2>2, <2>3
<1>5. TablesOk(bs)
  <2> SUFFICES ASSUME NEW u \in Table, bs.table[u] # None PROVE TableAllowed(bs, u)
    BY DEF TablesOk
  <2>1. TableAllowed(as, u)
    BY <1>2 DEF SpaceOk, TablesOk
  <2>2. QED
    BY <1>2, <2>1, TableAllowedSame
<1>6. QED
  BY <1>2, <1>3, <1>4, <1>5 DEF SpaceOk, bs

(* Page tables are freed when no page is mapped.                           *)
LEMMA WithoutTablesOk ==
  ASSUME NEW as, SpaceOk(as), \A la \in Page : ~Present(as, la), NEW G
  PROVE  /\ SpaceOk(WithoutTables(as, G))
         /\ \A la \in Page : ~Present(WithoutTables(as, G), la)
<1> DEFINE bs == WithoutTables(as, G)
<1>1. as \in Space
  BY DEF SpaceOk
<1>2. /\ bs \in Space /\ bs.mmap_list = as.mmap_list /\ bs.mmap_cache = as.mmap_cache
      /\ bs.pte = as.pte /\ \A t \in Table : bs.table[t] = IF t \in G THEN None ELSE as.table[t]
  <2>1. IsWithoutTables(bs, as, G)
    BY <1>1, WithoutTablesSpace
  <2> HIDE DEF bs
  <2>2. QED
    BY <2>1 DEF IsWithoutTables
<1> HIDE DEF bs
<1>3. AreasOk(bs)
  BY <1>2 DEF SpaceOk, AreasOk
<1>4. \A la \in Page : ~Present(bs, la)
  BY <1>2 DEF Present
<1>5. PagesOk(bs)
  BY <1>4 DEF PagesOk
<1>6. TablesOk(bs)
  <2> SUFFICES ASSUME NEW u \in Table, bs.table[u] # None PROVE TableAllowed(bs, u)
    BY DEF TablesOk
  <2>1. TableAllowed(as, u)
    BY <1>2 DEF SpaceOk, TablesOk
  <2>2. QED
    BY <1>2, <2>1, TableAllowedSame
<1>7. QED
  BY <1>2, <1>3, <1>4, <1>5, <1>6 DEF SpaceOk, bs

(* The least of some numbers.                                              *)
LEMMA LowestFacts ==
  ASSUME NEW S \in SUBSET Int, IsFiniteSet(S), S # {}
  PROVE  Lowest(S) \in S /\ \A x \in S : Lowest(S) <= x
<1>1. \E x \in S : \A y \in S : x <= y
  BY Extremes
<1>2. QED
  BY <1>1 DEF Lowest

(* PlaceOf is a place in the list.                                         *)
LEMMA PlaceOfFacts ==
  ASSUME NEW list \in Seq(Area), NEW vma PROVE PlaceOf(list, vma) \in 0..Len(list)
<1> DEFINE above == {i \in 1..Len(list) : list[i].vm_start > vma.vm_start}
<1>1. Len(list) \in Nat
  OBVIOUS
<1>2. CASE above = {}
  BY <1>1, <1>2 DEF PlaceOf
<1>3. CASE above # {}
  <2>1. IsFiniteSet(1..Len(list))
    <3>1. 1 \in Int
      OBVIOUS
    <3>2. QED
      BY <1>1, <3>1, FS_Interval
  <2>2. IsFiniteSet(above) /\ above \in SUBSET Int /\ above \subseteq 1..Len(list)
    BY <1>1, <2>1, FS_Subset
  <2>3. Lowest(above) \in above
    BY <1>3, <2>2, LowestFacts
  <2>4. PlaceOf(list, vma) = Lowest(above) - 1
    BY <1>3 DEF PlaceOf
  <2> DEFINE i == Lowest(above)
  <2>5. i \in 1..Len(list) /\ PlaceOf(list, vma) = i - 1
    BY <2>2, <2>3, <2>4
  <2> HIDE DEF i
  <2>6. QED
    BY <1>1, <2>5
<1>4. QED
  BY <1>2, <1>3

(* What InsertAt is made of.                                               *)
LEMMA InsertAtIs ==
  ASSUME NEW list, NEW k, NEW x
  PROVE  InsertAt(list, k, x) = SubSeq(list, 1, k - 1) \o <<x>> \o SubSeq(list, k, Len(list))
BY DEF InsertAt

(* A list with one more element.                                           *)
IsInserted(new, list, i, x) ==
  /\ new \in Seq(Area) /\ Len(new) = Len(list) + 1
  /\ \A k \in 1..i : new[k] = list[k]
  /\ new[i + 1] = x
  /\ \A k \in (i + 2)..(Len(list) + 1) : new[k] = list[k - 1]

(* InsertAt makes it.                                                      *)
LEMMA InsertAtFacts ==
  ASSUME NEW list \in Seq(Area), NEW x \in Area, NEW i \in 0..Len(list)
  PROVE  IsInserted(InsertAt(list, i + 1, x), list, i, x)
<1> DEFINE a == SubSeq(list, 1, i)
           b == SubSeq(list, i + 1, Len(list))
<1>1. Len(list) \in Nat /\ i \in Nat /\ i + 1 - 1 = i
  OBVIOUS
<1>2. a \in Seq(Area) /\ Len(a) = i /\ \A k \in 1..i : a[k] = list[k]
  BY <1>1, SubSeqProperties
<1>3. /\ b \in Seq(Area) /\ Len(b) = Len(list) - i
      /\ \A k \in 1..(Len(list) - i) : b[k] = list[i + k]
  BY <1>1, SubSeqProperties
<1>4. InsertAt(list, i + 1, x) = a \o <<x>> \o b
  <2> DEFINE k == i + 1
             l == k - 1
             d == SubSeq(list, k, Len(list))
             e == SubSeq(list, 1, l)
  <2> HIDE DEF k
  <2>1. InsertAt(list, k, x) = SubSeq(list, 1, k - 1) \o <<x>> \o SubSeq(list, k, Len(list))
    BY InsertAtIs
  <2> HIDE DEF d, e, l
  <2>2. InsertAt(list, k, x) = e \o <<x>> \o d
    BY <2>1 DEF d, e, l
  <2>3. l = i
    BY <1>1 DEF k, l
  <2>4. d = b
    BY DEF d, k
  <2>5. e = a
    BY <2>3 DEF e
  <2> HIDE DEF a, b
  <2>6. QED
    BY <2>2, <2>4, <2>5 DEF k
<1> HIDE DEF a, b
<1>5. /\ a \o <<x>> \in Seq(Area) /\ Len(a \o <<x>>) = i + 1
      /\ \A k \in 1..i : (a \o <<x>>)[k] = list[k]
      /\ (a \o <<x>>)[i + 1] = x
  BY <1>1, <1>2
<1> DEFINE c == a \o <<x>>
           new == c \o b
<1> HIDE DEF c
<1>6. c \in Seq(Area) /\ Len(c) = i + 1 /\ (\A k \in 1..i : c[k] = list[k]) /\ c[i + 1] = x
  BY <1>5 DEF c
<1>7. /\ new \in Seq(Area) /\ Len(new) = Len(list) + 1
      /\ \A k \in 1..(i + 1) : new[k] = c[k]
      /\ \A k \in (i + 2)..(Len(list) + 1) : new[k] = b[k - (i + 1)]
  BY <1>1, <1>3, <1>6
<1>8. \A k \in (i + 2)..(Len(list) + 1) : b[k - (i + 1)] = list[k - 1]
  <2> SUFFICES ASSUME NEW k \in (i + 2)..(Len(list) + 1) PROVE b[k - (i + 1)] = list[k - 1]
    OBVIOUS
  <2>1. k - (i + 1) \in 1..(Len(list) - i) /\ i + (k - (i + 1)) = k - 1
    BY <1>1
  <2>2. QED
    BY <1>3, <2>1
<1>9. InsertAt(list, i + 1, x) = new
  BY <1>4 DEF c
<1> HIDE DEF new
<1>10. QED
  BY <1>1, <1>6, <1>7, <1>8, <1>9 DEF IsInserted

(* What the list of areas is otherwise made no part of.                    *)
WithList(as, list) == [as EXCEPT !.mmap_list = list]

(* WithList, field by field.                                               *)
LEMMA WithListSpace ==
  ASSUME NEW as \in Space, NEW list \in Seq(Area)
  PROVE  /\ WithList(as, list) \in Space
         /\ WithList(as, list).mmap_list = list
         /\ WithList(as, list).mmap_cache = as.mmap_cache
         /\ WithList(as, list).pgdir = as.pgdir
         /\ WithList(as, list).table = as.table
         /\ WithList(as, list).pte = as.pte
BY DEF WithList, Space

(* The elements of a list with one more element.                           *)
LEMMA InsertedSet ==
  ASSUME NEW list \in Seq(Area), NEW x \in Area, NEW i \in 0..Len(list), NEW new,
         IsInserted(new, list, i, x)
  PROVE  /\ x \in ToSet(new) /\ ToSet(list) \subseteq ToSet(new)
         /\ \A v \in ToSet(new) : v = x \/ v \in ToSet(list)
<1>1. Len(list) \in Nat /\ i \in Nat /\ new \in Seq(Area) /\ Len(new) = Len(list) + 1
  BY DEF IsInserted
<1>2. x \in ToSet(new)
  <2>1. i + 1 \in 1..Len(new) /\ new[i + 1] = x
    BY <1>1 DEF IsInserted
  <2>2. QED
    BY <1>1, <2>1, ListSet
<1>3. ASSUME NEW v \in ToSet(list) PROVE v \in ToSet(new)
  <2>1. PICK k \in 1..Len(list) : list[k] = v
    BY ListSet
  <2>2. CASE k <= i
    <3>1. k \in 1..i /\ k \in 1..Len(new)
      BY <1>1, <2>2
    <3>2. new[k] = v
      BY <2>1, <3>1 DEF IsInserted
    <3>3. QED
      BY <1>1, <3>1, <3>2, ListSet
  <2>3. CASE ~(k <= i)
    <3>1. k + 1 \in (i + 2)..(Len(list) + 1) /\ k + 1 \in 1..Len(new) /\ (k + 1) - 1 = k
      BY <1>1, <2>3
    <3>2. new[k + 1] = v
      BY <2>1, <3>1 DEF IsInserted
    <3>3. QED
      BY <1>1, <3>1, <3>2, ListSet
  <2>4. QED
    BY <2>2, <2>3
<1>4. ASSUME NEW v \in ToSet(new) PROVE v = x \/ v \in ToSet(list)
  <2>1. PICK k \in 1..Len(new) : new[k] = v
    BY <1>1, ListSet
  <2>2. CASE k <= i
    <3>1. k \in 1..i /\ k \in 1..Len(list)
      BY <1>1, <2>2
    <3>2. list[k] = v
      BY <2>1, <3>1 DEF IsInserted
    <3>3. QED
      BY <1>1, <3>1, <3>2, ListSet
  <2>3. CASE k = i + 1
    BY <2>1, <2>3 DEF IsInserted
  <2>4. CASE ~(k <= i) /\ k # i + 1
    <3>1. k \in (i + 2)..(Len(list) + 1) /\ k - 1 \in 1..Len(list)
      BY <1>1, <2>4
    <3>2. list[k - 1] = v
      BY <2>1, <3>1 DEF IsInserted
    <3>3. QED
      BY <1>1, <3>1, <3>2, ListSet
  <2>5. QED
    BY <2>2, <2>3, <2>4
<1>5. QED
  BY <1>2, <1>3, <1>4

(* It is still apart if the new element fits between its neighbours.       *)
LEMMA InsertedApart ==
  ASSUME NEW list \in Seq(Area), NEW x, UserArea(x), NEW i \in 0..Len(list), NEW new,
         \A k \in 1..Len(list) : UserArea(list[k]), Apart(list),
         i > 0 => list[i].vm_end <= x.vm_start,
         i < Len(list) => x.vm_end <= list[i + 1].vm_start,
         IsInserted(new, list, i, x)
  PROVE  Apart(new) /\ \A k \in 1..Len(new) : UserArea(new[k])
<1> DEFINE n == Len(list)
<1>1. n \in Nat /\ i \in Nat /\ i <= n /\ Len(new) = n + 1
  BY DEF IsInserted
<1>2. \A k \in 1..i : new[k] = list[k] /\ k \in 1..n
  BY <1>1 DEF IsInserted
<1>3. new[i + 1] = x
  BY DEF IsInserted
<1>4. \A k \in (i + 2)..(n + 1) : new[k] = list[k - 1] /\ k - 1 \in (i + 1)..n /\ k - 1 \in 1..n
  BY <1>1 DEF IsInserted
<1>5. \A k \in 1..n : /\ list[k].vm_start \in Int /\ list[k].vm_end \in Int
                      /\ list[k].vm_start < list[k].vm_end
  <2> SUFFICES ASSUME NEW k \in 1..n
               PROVE  /\ list[k].vm_start \in Int /\ list[k].vm_end \in Int
                      /\ list[k].vm_start < list[k].vm_end
    OBVIOUS
  <2>1. UserArea(list[k])
    OBVIOUS
  <2>2. QED
    BY <2>1, AreaPages DEF UserArea, USER_ACCESS
<1>6. x.vm_start \in Int /\ x.vm_end \in Int /\ x.vm_start < x.vm_end
  BY AreaPages DEF UserArea, USER_ACCESS
<1>7. \A k \in 1..i : list[k].vm_end <= x.vm_start
  <2> SUFFICES ASSUME NEW k \in 1..i PROVE list[k].vm_end <= x.vm_start
    OBVIOUS
  <2>1. i \in 1..n /\ k \in 1..n /\ list[i].vm_end <= x.vm_start
    BY <1>1
  <2>2. k < i => list[k].vm_end <= list[i].vm_start
    BY <2>1 DEF Apart
  <2>3. list[i].vm_start < list[i].vm_end /\ list[i].vm_start \in Int /\ list[i].vm_end \in Int
        /\ list[k].vm_end \in Int
    BY <1>5, <2>1
  <2>4. QED
    BY <1>1, <1>6, <2>1, <2>2, <2>3
<1>8. \A k \in (i + 1)..n : x.vm_end <= list[k].vm_start
  <2> SUFFICES ASSUME NEW k \in (i + 1)..n PROVE x.vm_end <= list[k].vm_start
    OBVIOUS
  <2>1. i + 1 \in 1..n /\ k \in 1..n /\ x.vm_end <= list[i + 1].vm_start
    BY <1>1
  <2>2. i + 1 < k => list[i + 1].vm_end <= list[k].vm_start
    BY <2>1 DEF Apart
  <2>3. list[i + 1].vm_start < list[i + 1].vm_end /\ list[i + 1].vm_start \in Int
        /\ list[i + 1].vm_end \in Int /\ list[k].vm_start \in Int
    BY <1>5, <2>1
  <2>4. QED
    BY <1>1, <1>6, <2>1, <2>2, <2>3
<1> HIDE DEF n
<1>9. \A k \in 1..(n + 1) : k \in 1..i \/ k = i + 1 \/ k \in (i + 2)..(n + 1)
  BY <1>1
<1>10. \A k \in 1..(n + 1) : UserArea(new[k])
  <2> SUFFICES ASSUME NEW k \in 1..(n + 1) PROVE UserArea(new[k])
    OBVIOUS
  <2>1. CASE k \in 1..i
    BY <1>2, <2>1 DEF n
  <2>2. CASE k = i + 1
    BY <1>3, <2>2
  <2>3. CASE k \in (i + 2)..(n + 1)
    <3>1. new[k] = list[k - 1] /\ k - 1 \in 1..n
      BY <1>4, <2>3
    <3>2. UserArea(list[k - 1])
      BY <3>1 DEF n
    <3>3. QED
      BY <3>1, <3>2
  <2>4. QED
    BY <1>9, <2>1, <2>2, <2>3
<1>11. ASSUME NEW k \in 1..(n + 1), NEW l \in 1..(n + 1), k < l
       PROVE  new[k].vm_end <= new[l].vm_start
  <2>1. CASE k \in 1..i /\ l \in 1..i
    <3>1. new[k] = list[k] /\ new[l] = list[l] /\ k \in 1..n /\ l \in 1..n
      BY <1>2, <2>1
    <3>2. QED
      BY <1>11, <3>1 DEF Apart, n
  <2>2. CASE k \in 1..i /\ l = i + 1
    BY <1>2, <1>3, <1>7, <2>2
  <2>3. CASE k \in 1..i /\ l \in (i + 2)..(n + 1)
    <3>1. new[k] = list[k] /\ new[l] = list[l - 1] /\ k \in 1..n /\ l - 1 \in 1..n
      BY <1>2, <1>4, <2>3
    <3>2. k < l - 1
      BY <1>1, <2>3
    <3>3. QED
      BY <3>1, <3>2 DEF Apart, n
  <2>4. CASE k = i + 1 /\ l \in (i + 2)..(n + 1)
    <3>1. new[k] = x /\ new[l] = list[l - 1] /\ l - 1 \in (i + 1)..n
      BY <1>3, <1>4, <2>4
    <3>2. QED
      BY <1>8, <3>1
  <2>5. CASE k \in (i + 2)..(n + 1) /\ l \in (i + 2)..(n + 1)
    <3>1. new[k] = list[k - 1] /\ new[l] = list[l - 1] /\ k - 1 \in 1..n /\ l - 1 \in 1..n
      BY <1>4, <2>5
    <3>2. k - 1 < l - 1
      BY <1>1, <1>11
    <3>3. QED
      BY <3>1, <3>2 DEF Apart, n
  <2>6. QED
    BY <1>1, <1>9, <1>11, <2>1, <2>2, <2>3, <2>4, <2>5
<1>12. QED
  BY <1>1, <1>10, <1>11 DEF Apart

(* An address space with one more area.                                    *)
LEMMA InsertOk ==
  ASSUME NEW as, SpaceOk(as), NEW x, UserArea(x), NEW i \in 0..Len(as.mmap_list),
         i > 0 => as.mmap_list[i].vm_end <= x.vm_start,
         i < Len(as.mmap_list) => x.vm_end <= as.mmap_list[i + 1].vm_start,
         NEW bs, bs = WithList(as, InsertAt(as.mmap_list, i + 1, x))
  PROVE  /\ SpaceOk(bs) /\ x \in ToSet(bs.mmap_list)
         /\ bs.pgdir = as.pgdir /\ bs.table = as.table /\ bs.pte = as.pte
         /\ \A v \in ToSet(bs.mmap_list) : v = x \/ v \in ToSet(as.mmap_list)
<1> DEFINE list == as.mmap_list
           new == InsertAt(list, i + 1, x)
<1>1. as \in Space /\ list \in Seq(Area) /\ x \in Area
  BY DEF SpaceOk, Space, UserArea
<1>2. IsInserted(new, list, i, x)
  BY <1>1, InsertAtFacts
<1>3. x \in ToSet(new) /\ ToSet(list) \subseteq ToSet(new) /\ \A v \in ToSet(new) : v = x \/ v \in ToSet(list)
  <2> HIDE DEF new, list
  <2>1. i \in 0..Len(list)
    BY DEF list
  <2>2. QED
    BY <1>1, <1>2, <2>1, InsertedSet
<1>4. Apart(new) /\ \A k \in 1..Len(new) : UserArea(new[k])
  <2>1. Apart(list) /\ \A k \in 1..Len(list) : UserArea(list[k])
    BY DEF SpaceOk, AreasOk
  <2> HIDE DEF new
  <2>2. QED
    BY <1>1, <1>2, <2>1, InsertedApart
<1> HIDE DEF new
<1>5. /\ bs \in Space /\ bs.mmap_list = new /\ bs.mmap_cache = as.mmap_cache
      /\ bs.pgdir = as.pgdir /\ bs.table = as.table /\ bs.pte = as.pte
  <2>1. new \in Seq(Area)
    BY <1>2 DEF IsInserted
  <2>2. bs = WithList(as, new)
    BY DEF new
  <2> DEFINE cs == WithList(as, new)
  <2>3. /\ cs \in Space /\ cs.mmap_list = new /\ cs.mmap_cache = as.mmap_cache
        /\ cs.pgdir = as.pgdir /\ cs.table = as.table /\ cs.pte = as.pte
    BY <1>1, <2>1, WithListSpace
  <2> HIDE DEF cs
  <2>4. bs = cs
    BY <2>2 DEF cs
  <2>5. QED
    BY <2>3, <2>4
<1>6. AreasOk(bs)
  BY <1>3, <1>4, <1>5 DEF SpaceOk, AreasOk
<1>7. PagesOk(bs)
  <2> SUFFICES ASSUME NEW la \in Page, Present(bs, la)
               PROVE  /\ bs.pte[la].frame # None /\ bs.table[TableOf(la)] # None
                      /\ PageAllowed(bs, la, bs.pte[la].w)
    BY DEF PagesOk
  <2>1. /\ as.pte[la].frame # None /\ as.table[TableOf(la)] # None
        /\ PageAllowed(as, la, as.pte[la].w)
    BY <1>5 DEF SpaceOk, PagesOk, Present
  <2>2. QED
    BY <1>3, <1>5, <2>1, PageAllowedSame
<1>8. TablesOk(bs)
  <2> SUFFICES ASSUME NEW t \in Table, bs.table[t] # None PROVE TableAllowed(bs, t)
    BY DEF TablesOk
  <2>1. TableAllowed(as, t)
    BY <1>5 DEF SpaceOk, TablesOk
  <2>2. QED
    BY <1>3, <1>5, <2>1, TableAllowedSame
<1>9. QED
  BY <1>3, <1>5, <1>6, <1>7, <1>8 DEF SpaceOk

-----------------------------------------------------------------------------
(* Another area in the cache.                                              *)
LEMMA WithCacheSpace ==
  ASSUME NEW as \in Space, NEW v \in Area
  PROVE  /\ WithCache(as, v) \in Space
         /\ WithCache(as, v).mmap_list = as.mmap_list
         /\ WithCache(as, v).mmap_cache = v
         /\ WithCache(as, v).pgdir = as.pgdir
         /\ WithCache(as, v).table = as.table
         /\ WithCache(as, v).pte = as.pte
BY DEF WithCache, Space

(* The cache may hold any area of the list.                                *)
LEMMA WithCacheOk ==
  ASSUME NEW as, SpaceOk(as), NEW v \in ToSet(as.mmap_list) \cup {NoArea}
  PROVE  /\ SpaceOk(WithCache(as, v))
         /\ WithCache(as, v).mmap_list = as.mmap_list /\ WithCache(as, v).mmap_cache = v
         /\ WithCache(as, v).pgdir = as.pgdir /\ WithCache(as, v).table = as.table
         /\ WithCache(as, v).pte = as.pte
<1> DEFINE bs == WithCache(as, v)
<1>1. as \in Space /\ v \in Area
  <2>1. NoArea \in Area
    BY Sizes DEF NoArea, Area
  <2>2. as \in Space
    BY DEF SpaceOk
  <2>3. v # NoArea => v \in Area
    BY AreaFacts
  <2>4. QED
    BY <2>1, <2>2, <2>3
<1>2. /\ bs \in Space /\ bs.mmap_list = as.mmap_list /\ bs.mmap_cache = v
      /\ bs.pgdir = as.pgdir /\ bs.table = as.table /\ bs.pte = as.pte
  BY <1>1, WithCacheSpace
<1> HIDE DEF bs
<1>3. AreasOk(bs)
  BY <1>2 DEF SpaceOk, AreasOk
<1>4. PagesOk(bs) /\ TablesOk(bs)
  BY <1>2 DEF SpaceOk, PagesOk, TablesOk, PageAllowed, TableAllowed, Present
<1>5. QED
  BY <1>2, <1>3, <1>4 DEF SpaceOk, bs

(* find_vma finds the area that holds the address, if there is one.        *)
LEMMA FindFacts ==
  ASSUME NEW as, SpaceOk(as), NEW addr \in Nat
  PROVE  /\ find_vma(as, addr) \in ToSet(as.mmap_list) \cup {NoArea}
         /\ find_vma(as, addr) # NoArea => InArea(find_vma(as, addr), addr)
         /\ find_vma(as, addr) = NoArea => \A v \in ToSet(as.mmap_list) : ~InArea(v, addr)
<1> DEFINE hits == {i \in 1..Len(as.mmap_list) : InArea(as.mmap_list[i], addr)}
<1>1. as.mmap_list \in Seq(Area) /\ as.mmap_cache \in ToSet(as.mmap_list) \cup {NoArea}
  BY DEF SpaceOk, Space, AreasOk
<1>2. ~InArea(NoArea, addr)
  BY DEF InArea, NoArea
<1>3. CASE InArea(as.mmap_cache, addr)
  <2>1. find_vma(as, addr) = as.mmap_cache /\ as.mmap_cache # NoArea
    BY <1>2, <1>3 DEF find_vma
  <2>2. QED
    BY <1>1, <1>3, <2>1
<1>4. CASE ~InArea(as.mmap_cache, addr) /\ hits = {}
  <2>1. find_vma(as, addr) = NoArea
    BY <1>4 DEF find_vma
  <2>2. ASSUME NEW v \in ToSet(as.mmap_list) PROVE ~InArea(v, addr)
    <3>1. PICK i \in 1..Len(as.mmap_list) : as.mmap_list[i] = v
      BY <1>1, ListSet
    <3>2. QED
      BY <1>4, <3>1
  <2>3. QED
    BY <2>1, <2>2
<1>5. CASE ~InArea(as.mmap_cache, addr) /\ hits # {}
  <2>1. IsFiniteSet(1..Len(as.mmap_list)) /\ 1..Len(as.mmap_list) \subseteq Int
    <3> DEFINE list == as.mmap_list
               n == Len(list)
    <3>1. list \in Seq(Area)
      BY <1>1
    <3> HIDE DEF list
    <3>2. n \in Nat
      BY <3>1
    <3> HIDE DEF n
    <3>3. 1 \in Int
      OBVIOUS
    <3>4. IsFiniteSet(1..n) /\ 1..n \subseteq Int
      BY <3>2, <3>3, FS_Interval
    <3>5. QED
      BY <3>4 DEF n, list
  <2>2. IsFiniteSet(hits) /\ hits \in SUBSET Int /\ hits \subseteq 1..Len(as.mmap_list)
    BY <2>1, FS_Subset
  <2>3. Lowest(hits) \in hits
    BY <1>5, <2>2, LowestFacts
  <2>4. find_vma(as, addr) = as.mmap_list[Lowest(hits)]
    BY <1>5 DEF find_vma
  <2> DEFINE i == Lowest(hits)
  <2>5. i \in 1..Len(as.mmap_list) /\ InArea(as.mmap_list[i], addr)
    BY <2>3
  <2>6. find_vma(as, addr) = as.mmap_list[i]
    BY <2>4
  <2> HIDE DEF i
  <2>7. as.mmap_list[i] \in ToSet(as.mmap_list)
    BY <1>1, <2>5, ListSet
  <2>8. QED
    BY <1>2, <2>5, <2>6, <2>7
<1>6. QED
  BY <1>3, <1>4, <1>5

(* The area is put into the cache.                                         *)
LEMMA CachedOk ==
  ASSUME NEW as, SpaceOk(as), NEW v \in ToSet(as.mmap_list) \cup {NoArea}, NEW bs, bs = Cached(as, v)
  PROVE  /\ SpaceOk(bs) /\ bs.mmap_list = as.mmap_list
         /\ bs.pgdir = as.pgdir /\ bs.table = as.table /\ bs.pte = as.pte
<1>1. CASE v = NoArea
  BY <1>1 DEF Cached
<1>2. CASE v # NoArea
  <2>1. bs = WithCache(as, v)
    BY <1>2 DEF Cached
  <2> DEFINE cs == WithCache(as, v)
  <2>2. /\ SpaceOk(cs) /\ cs.mmap_list = as.mmap_list
        /\ cs.pgdir = as.pgdir /\ cs.table = as.table /\ cs.pte = as.pte
    BY WithCacheOk
  <2> HIDE DEF cs
  <2>3. bs = cs
    BY <2>1 DEF cs
  <2>4. QED
    BY <2>2, <2>3
<1>3. QED
  BY <1>1, <1>2

-----------------------------------------------------------------------------
(***************************************************************************)
(* Worlds.  A world is sane if every frame that is not in flight, in E, is *)
(* free or kept in one place, and every address space is right.            *)
(***************************************************************************)
Code == {"0", "-E_NO_MEM", "-E_INVAL", "-E_INVAL_ELF"}

(* The type of a world.                                                    *)
MmWorld ==
  [free : SUBSET Frame, mm : Spaces, panicked : BOOLEAN, ret : Code, kmallocs : Nat]

(* A sane world: E are the frames in flight.                               *)
Sane(w, E) ==
  /\ w \in MmWorld
  /\ E \cap w.free = {}
  /\ ExactFrames(Holding(w.mm), w.free \cup E)
  /\ \A p \in Proc : SpaceOk(w.mm[p])

(* What Changed changes.                                                   *)
IsChanged(n, m, p, as) ==
  /\ n \in Spaces /\ n[p] = as
  /\ \A q \in Proc : q # p => n[q] = m[q]

(* And that it does.                                                       *)
LEMMA ChangedIs ==
  ASSUME NEW m \in Spaces, NEW p \in Proc, NEW as \in Space
  PROVE  IsChanged(Changed(m, p, as), m, p, as)
BY ChangedSpaces DEF IsChanged

(* u is w but for the address space of p, the free frames and how it goes. *)
Replaced(u, w, p, as, F) ==
  /\ u \in MmWorld
  /\ u.mm = Changed(w.mm, p, as)
  /\ u.free = F

(* Every address space is right.                                           *)
AllOk(w) == w \in MmWorld /\ \A q \in Proc : SpaceOk(w.mm[q])

(* The new address space and the free frames go with the other spaces.     *)
Fits(w, p, as, F, E) ==
  /\ AllOk(w) /\ SpaceOk(as) /\ F \in SUBSET Frame /\ E \cap F = {}
  /\ ExactFrames(Holding(Changed(w.mm, p, as)), F \cup E)

(* The other processes keep their address spaces.                          *)
Others(u, w, p) == \A q \in Proc : q # p => u.mm[q] = w.mm[q]

(* If it fits, the world with it is sane.                                  *)
LEMMA SaneReplaced ==
  ASSUME NEW w, NEW p \in Proc, NEW as, NEW F, NEW E, Fits(w, p, as, F, E),
         NEW u, Replaced(u, w, p, as, F)
  PROVE  Sane(u, E) /\ u.mm[p] = as /\ Others(u, w, p)
<1>1. as \in Space /\ w.mm \in Spaces
  BY DEF SpaceOk, MmWorld, Fits, AllOk
<1>2. u \in MmWorld /\ u.mm = Changed(w.mm, p, as) /\ u.free = F
  BY DEF Replaced
<1>3. u.mm[p] = as /\ \A q \in Proc : q # p => u.mm[q] = w.mm[q]
  <2>1. IsChanged(Changed(w.mm, p, as), w.mm, p, as)
    BY <1>1, ChangedIs
  <2>2. IsChanged(u.mm, w.mm, p, as)
    BY <1>2, <2>1
  <2>3. QED
    BY <2>2 DEF IsChanged
<1>4. \A q \in Proc : SpaceOk(u.mm[q])
  BY <1>3 DEF Fits, AllOk
<1>5. ExactFrames(Holding(u.mm), u.free \cup E) /\ E \cap u.free = {}
  BY <1>2 DEF Fits
<1>6. QED
  BY <1>2, <1>3, <1>4, <1>5 DEF Sane, Others

(* Only the outcome is another one.                                        *)
SameFrames(u, w) == u \in MmWorld /\ u.mm = w.mm /\ u.free = w.free

(* A sane world with another outcome is sane.                              *)
LEMMA SaneSame ==
  ASSUME NEW w, NEW E, Sane(w, E), NEW u, SameFrames(u, w)
  PROVE  Sane(u, E)
BY DEF Sane, SameFrames

(* The outcomes.                                                           *)
LEMMA Outcomes ==
  ASSUME NEW w \in MmWorld, NEW err \in Code
  PROVE  /\ SameFrames(Fails(w, err), w) /\ Fails(w, err).ret = err
         /\ Fails(w, err).panicked = w.panicked
         /\ SameFrames(Panics(w), w) /\ Panics(w).panicked /\ Panics(w).ret = w.ret
BY DEF MmWorld, SameFrames, Fails, Panics

(* Running out of memory changes the outcome only.                         *)
LEMMA NoMemoryFacts ==
  ASSUME NEW w \in MmWorld
  PROVE  SameFrames(NoMemory(w), w) /\ Stopped(NoMemory(w))
<1>1. "-E_NO_MEM" \in Code /\ "-E_NO_MEM" # "0"
  BY DEF Code
<1>2. QED
  BY <1>1, Outcomes DEF NoMemory, Stopped

(* So it leaves a sane world.                                              *)
LEMMA SaneNoMemory ==
  ASSUME NEW w, NEW E, Sane(w, E)
  PROVE  Sane(NoMemory(w), E) /\ NoMemory(w).mm = w.mm /\ Stopped(NoMemory(w))
<1>1. w \in MmWorld
  BY DEF Sane
<1>2. SameFrames(NoMemory(w), w) /\ Stopped(NoMemory(w))
  BY <1>1, NoMemoryFacts
<1>3. QED
  BY <1>2, SaneSame DEF SameFrames

(* So does a failure.                                                      *)
LEMMA SaneFails ==
  ASSUME NEW w, NEW E, Sane(w, E), NEW err \in Code
  PROVE  /\ Sane(Fails(w, err), E) /\ Fails(w, err).mm = w.mm /\ Fails(w, err).ret = err
         /\ Fails(w, err).panicked = w.panicked
<1>1. w \in MmWorld
  BY DEF Sane
<1>2. SameFrames(Fails(w, err), w) /\ Fails(w, err).ret = err /\ Fails(w, err).panicked = w.panicked
  BY <1>1, Outcomes
<1>3. QED
  BY <1>2, SaneSame DEF SameFrames

(* So does a panic.                                                        *)
LEMMA SanePanics ==
  ASSUME NEW w, NEW E, Sane(w, E)
  PROVE  /\ Sane(Panics(w), E) /\ Panics(w).mm = w.mm /\ Panics(w).panicked
         /\ Panics(w).ret = w.ret
<1>1. w \in MmWorld /\ "0" \in Code
  BY DEF Sane, Code
<1>2. SameFrames(Panics(w), w) /\ Panics(w).panicked /\ Panics(w).ret = w.ret
  BY <1>1, Outcomes
<1>3. QED
  BY <1>2, SaneSame DEF SameFrames

(* A free frame.                                                           *)
LEMMA FreeFrameFacts ==
  ASSUME NEW w, NEW E, Sane(w, E), w.free # {}
  PROVE  /\ FreeFrame(w) \in w.free /\ FreeFrame(w) \in Frame
         /\ FreeFrame(w) # None /\ FreeFrame(w) \notin E
<1>1. w.free \in SUBSET Frame
  BY DEF Sane, MmWorld
<1>2. IsFiniteSet(w.free) /\ w.free \in SUBSET Int
  <2>1. IsFiniteSet(Frame) /\ Frame \subseteq Int
    BY NoneIsNoFrame
  <2>2. QED
    BY <1>1, <2>1, FS_Subset
<1>3. Lowest(w.free) \in w.free
  BY <1>2, LowestFacts
<1>4. FreeFrame(w) = Lowest(w.free)
  BY DEF FreeFrame
<1>5. QED
  BY <1>1, <1>3, <1>4, NoneIsNoFrame DEF Sane

(* Without a free frame there is none.                                     *)
LEMMA NoFreeFrame == ASSUME NEW w, w.free = {} PROVE FreeFrame(w) = None
BY DEF FreeFrame

-----------------------------------------------------------------------------
(* The world with another address space of p and other free frames.        *)
Updated(w, p, as, F) == [w EXCEPT !.mm = Changed(w.mm, p, as), !.free = F]

(* Updated, field by field.                                                *)
IsUpdated(u, w, p, as, F) ==
  /\ Replaced(u, w, p, as, F)
  /\ u.panicked = w.panicked /\ u.ret = w.ret /\ u.kmallocs = w.kmallocs

(* It is what its name says.                                               *)
LEMMA UpdatedIs ==
  ASSUME NEW w \in MmWorld, NEW p \in Proc, NEW as \in Space, NEW F \in SUBSET Frame
  PROVE  IsUpdated(Updated(w, p, as, F), w, p, as, F)
<1> DEFINE n == Changed(w.mm, p, as)
<1>1. n \in Spaces
  <2>1. w.mm \in Spaces
    BY DEF MmWorld
  <2>2. QED
    BY <2>1, ChangedIs DEF IsChanged
<1> HIDE DEF n
<1> DEFINE u == [w EXCEPT !.mm = n, !.free = F]
<1>2. /\ u \in MmWorld /\ u.mm = n /\ u.free = F
      /\ u.panicked = w.panicked /\ u.ret = w.ret /\ u.kmallocs = w.kmallocs
  BY <1>1 DEF MmWorld
<1>3. u = Updated(w, p, as, F)
  BY DEF Updated, n
<1> HIDE DEF u
<1>4. QED
  BY <1>2, <1>3 DEF IsUpdated, Replaced, n

(* Sane worlds with one address space changed.                             *)
SaneChange(u, w, p, as, F, E) ==
  /\ Sane(u, E) /\ u.mm[p] = as /\ Others(u, w, p)
  /\ u.panicked = w.panicked /\ u.ret = w.ret /\ u.free = F

(* The updated world is sane if the new address space fits.                *)
LEMMA SaneUpdated ==
  ASSUME NEW w, NEW p \in Proc, NEW as, NEW F, NEW E, Fits(w, p, as, F, E)
  PROVE  SaneChange(Updated(w, p, as, F), w, p, as, F, E)
<1>1. as \in Space /\ w \in MmWorld /\ F \in SUBSET Frame
  BY DEF SpaceOk, Fits, AllOk
<1> DEFINE u == Updated(w, p, as, F)
<1>2. IsUpdated(u, w, p, as, F)
  BY <1>1, UpdatedIs
<1> HIDE DEF u
<1>3. Replaced(u, w, p, as, F)
  BY <1>2 DEF IsUpdated
<1>4. Sane(u, E) /\ u.mm[p] = as /\ Others(u, w, p)
  BY <1>3, SaneReplaced
<1>5. u.panicked = w.panicked /\ u.ret = w.ret /\ u.free = F
  BY <1>2 DEF IsUpdated, Replaced
<1>6. QED
  BY <1>4, <1>5 DEF SaneChange, u

(* get_pte: a page table, if there is a frame for it.                      *)
GotPte(u, w, p, la, E) ==
  /\ Sane(u, E) /\ Others(u, w, p)
  /\ u.mm[p].mmap_list = w.mm[p].mmap_list
  /\ u.mm[p].pte = w.mm[p].pte
  /\ ~Stopped(u) => u.mm[p].table[TableOf(la)] # None
  /\ w.mm[p].table[TableOf(la)] # None => u = w

(* get_pte leaves a sane world, and a page table unless it stops.          *)
LEMMA GetPteFacts ==
  ASSUME NEW w, NEW E, Sane(w, E), NEW p \in Proc, NEW la,
         TableOf(la) \in Table, TableAllowed(w.mm[p], TableOf(la))
  PROVE  GotPte(get_pte(w, p, la), w, p, la, E)
<1> DEFINE t == TableOf(la)
           u == get_pte(w, p, la)
<1>1. w \in MmWorld /\ SpaceOk(w.mm[p]) /\ w.mm[p] \in Space /\ w.mm \in Spaces
  BY DEF Sane, SpaceOk, MmWorld
<1>2. CASE w.mm[p].table[t] # None
  <2>1. u = w
    BY <1>2 DEF get_pte
  <2> HIDE DEF u
  <2>2. QED
    BY <1>2, <2>1 DEF GotPte, Others, u
<1>3. CASE w.mm[p].table[t] = None /\ w.free = {}
  <2>1. u = NoMemory(w)
    BY <1>3 DEF get_pte
  <2>2. Sane(NoMemory(w), E) /\ NoMemory(w).mm = w.mm /\ Stopped(NoMemory(w))
    BY SaneNoMemory
  <2> HIDE DEF u
  <2>3. Sane(u, E) /\ u.mm = w.mm /\ Stopped(u)
    BY <2>1, <2>2
  <2>4. QED
    BY <1>3, <2>3 DEF GotPte, Others, u
<1>4. CASE w.mm[p].table[t] = None /\ w.free # {}
  <2> DEFINE g == FreeFrame(w)
             as == WithTable(w.mm[p], t, g)
             F == w.free \ {g}
  <2>1. g \in w.free /\ g \in Frame /\ g # None /\ g \notin E
    BY <1>4, FreeFrameFacts
  <2>2. u = Updated(w, p, as, F)
    <3>1. u = [w EXCEPT !.mm[p].table[t] = g, !.free = w.free \ {g}]
      BY <1>4 DEF get_pte
    <3>2. QED
      BY <3>1 DEF Updated, Changed, WithTable
  <2> HIDE DEF u, g
  <2>3. SpaceOk(as)
    BY <1>1, <2>1, WithTableOk
  <2>4. /\ as.mmap_list = w.mm[p].mmap_list /\ as.pte = w.mm[p].pte /\ as.table[t] = g
    <3>1. g \in FrameOrNone
      BY <2>1 DEF FrameOrNone
    <3>2. IsWithTable(as, w.mm[p], t, g)
      BY <1>1, <3>1, WithTableSpace
    <3> HIDE DEF as
    <3>3. QED
      BY <3>2 DEF IsWithTable
  <2>5. ExactFrames(Holding(Changed(w.mm, p, as)), F \cup E)
    <3> DEFINE x == <<p, "table", t>>
               H == Holding(w.mm)
    <3>1. x \in MmPlace
      BY MmPlaceForms
    <3>2. H[x] = None
      <4>1. Holding(w.mm)[<<p, "table", t>>] = w.mm[p].table[t]
        BY HoldingForms
      <4>2. QED
        BY <1>4, <4>1
    <3>3. ExactFrames(H, w.free \cup E) /\ g \in w.free \cup E
      BY <2>1 DEF Sane
    <3>4. Holding(Changed(w.mm, p, as)) = Places(H, x, g)
      <4>1. g \in FrameOrNone
        BY <2>1 DEF FrameOrNone
      <4>2. QED
        BY <1>1, <4>1, HoldingTable
    <3> HIDE DEF x, H, as
    <3>5. ExactFrames(Places(H, x, g), (w.free \cup E) \ {g})
      BY <3>1, <3>2, <3>3, ExactPut
    <3>6. (w.free \cup E) \ {g} = F \cup E
      BY <2>1
    <3>7. QED
      BY <3>4, <3>5, <3>6
  <2>6. F \in SUBSET Frame /\ E \cap F = {}
    BY <1>1 DEF MmWorld, Sane
  <2> HIDE DEF as, F
  <2> DEFINE v == Updated(w, p, as, F)
  <2>7. Sane(v, E) /\ v.mm[p] = as /\ Others(v, w, p)
    <3>1. AllOk(w)
      BY DEF Sane, AllOk
    <3>2. Fits(w, p, as, F, E)
      BY <2>3, <2>5, <2>6, <3>1 DEF Fits
    <3>3. SaneChange(v, w, p, as, F, E)
      BY <3>2, SaneUpdated
    <3> HIDE DEF v
    <3>4. QED
      BY <3>3 DEF SaneChange
  <2> HIDE DEF v
  <2>8. u = v
    BY <2>2 DEF v
  <2>9. QED
    BY <1>4, <2>1, <2>4, <2>7, <2>8 DEF GotPte, u
<1>5. QED
  BY <1>2, <1>3, <1>4

-----------------------------------------------------------------------------
(* Something in flight takes the place of what was there, which is freed.  *)
LEMMA ExactSwap ==
  ASSUME NEW H, NEW F, NEW f, f \notin F, ExactFrames(H, F \cup {f}), NEW x \in MmPlace
  PROVE  ExactFrames(Places(H, x, f), F \cup ({H[x]} \ {None}))
<1> DEFINE K == Emptied(H, {x})
           G == (F \cup {f}) \cup ({H[y] : y \in {x}} \ {None})
<1>1. H \in [MmPlace -> FrameOrNone] /\ F \cup {f} \subseteq Frame /\ H[x] \notin F \cup {f}
  BY DEF ExactFrames
<1>2. ExactFrames(K, G)
  BY ExactEmptied
<1>3. K \in [MmPlace -> FrameOrNone] /\ K[x] = None /\ \A y \in MmPlace : y # x => K[y] = H[y]
  BY <1>1 DEF Emptied, FrameOrNone
<1>4. Places(K, x, f) = Places(H, x, f)
  <2> HIDE DEF K
  <2> DEFINE K1 == [K EXCEPT ![x] = f]
             H1 == [H EXCEPT ![x] = f]
  <2>1. K1 = [y \in MmPlace |-> IF y = x THEN f ELSE K[y]]
    BY <1>3
  <2>2. H1 = [y \in MmPlace |-> IF y = x THEN f ELSE H[y]]
    BY <1>1
  <2>3. K1 = H1
    BY <1>3, <2>1, <2>2
  <2>4. QED
    BY <2>3 DEF Places
<1>5. G \ {f} = F \cup ({H[x]} \ {None}) /\ f \in G
  BY <1>1
<1> HIDE DEF K, G
<1>6. ExactFrames(Places(K, x, f), G \ {f})
  BY <1>2, <1>3, <1>5, ExactPut
<1>7. QED
  BY <1>4, <1>5, <1>6

(* A page that an area of the process covers.                              *)
LEMMA AllowedPage ==
  ASSUME NEW as, SpaceOk(as), NEW la, NEW write, PageAllowed(as, la, write)
  PROVE  la \in Page /\ TableOf(la) \in Table /\ TableAllowed(as, TableOf(la))
<1>1. PICK v \in ToSet(as.mmap_list) : InPages(v, la)
  BY DEF PageAllowed
<1>2. UserArea(v)
  BY AreaFacts
<1>3. QED
  BY <1>1, <1>2, PagesOfArea DEF TableAllowed

(* page_insert of a frame in flight.                                       *)
Placed(u, w, p, la, f) ==
  /\ Others(u, w, p)
  /\ u.mm[p].mmap_list = w.mm[p].mmap_list
  /\ IF Stopped(u) THEN Sane(u, {f}) ELSE Sane(u, {})
  /\ ~Stopped(w) /\ w.mm[p].table[TableOf(la)] # None => ~Stopped(u)

(* page_insert puts the frame into its place, or leaves it in flight if    *)
(* there is no page table.                                                 *)
LEMMA PageInsertFacts ==
  ASSUME NEW w, NEW f \in Frame, Sane(w, {f}), NEW p \in Proc, NEW la, NEW write \in BOOLEAN,
         PageAllowed(w.mm[p], la, write)
  PROVE  Placed(page_insert(w, p, f, la, write), w, p, la, f)
<1> DEFINE w1 == get_pte(w, p, la)
           old == w1.mm[p].pte[la].frame
           F == IF old = None THEN w1.free ELSE w1.free \cup {old}
           e == [frame |-> f, w |-> write]
           as == WithPage(w1.mm[p], la, e)
           u == page_insert(w, p, f, la, write)
<1>1. la \in Page /\ TableOf(la) \in Table /\ TableAllowed(w.mm[p], TableOf(la))
  BY AllowedPage DEF Sane
<1>2. GotPte(w1, w, p, la, {f})
  BY <1>1, GetPteFacts
<1>3. CASE Stopped(w1)
  <2>1. u = w1
    BY <1>3 DEF page_insert
  <2> HIDE DEF w1, u
  <2>2. ~Stopped(w) /\ w.mm[p].table[TableOf(la)] # None => ~Stopped(w1)
    BY <1>2 DEF GotPte
  <2>3. QED
    BY <1>2, <1>3, <2>1, <2>2 DEF Placed, GotPte, u
<1>4. CASE ~Stopped(w1)
  <2>1. u = Updated(w1, p, as, F)
    <3>1. u = [w1 EXCEPT !.mm[p].pte[la] = e, !.free = F]
      BY <1>4 DEF page_insert
    <3> HIDE DEF w1, F, e
    <3>2. QED
      BY <3>1 DEF Updated, Changed, WithPage
  <2> HIDE DEF w1, u
  <2>2. /\ Sane(w1, {f}) /\ Others(w1, w, p) /\ w1.mm[p].mmap_list = w.mm[p].mmap_list
        /\ w1.mm[p].table[TableOf(la)] # None
    BY <1>2, <1>4 DEF GotPte
  <2>3. /\ w1 \in MmWorld /\ w1.mm \in Spaces /\ SpaceOk(w1.mm[p]) /\ w1.mm[p] \in Space
        /\ AllOk(w1) /\ w1.free \in SUBSET Frame
    BY <2>2 DEF Sane, SpaceOk, MmWorld, AllOk
  <2>4. PageAllowed(w1.mm[p], la, write)
    BY <2>2, PageAllowedSame
  <2>5. e \in Pte /\ SpaceOk(as) /\ e.frame = f
    BY <1>1, <2>2, <2>3, <2>4, WithPageOk
  <2>6. as.mmap_list = w.mm[p].mmap_list
    <3>1. IsWithPage(as, w1.mm[p], la, e)
      BY <1>1, <2>3, <2>5, WithPageSpace
    <3> HIDE DEF as
    <3>2. QED
      BY <2>2, <3>1 DEF IsWithPage
  <2>7. ExactFrames(Holding(Changed(w1.mm, p, as)), F)
    <3> DEFINE x == <<p, "page", la>>
               H == Holding(w1.mm)
    <3>1. x \in MmPlace
      BY <1>1, MmPlaceForms
    <3>2. H[x] = old
      BY <1>1, HoldingForms
    <3>3. ExactFrames(H, w1.free \cup {f}) /\ f \notin w1.free
      BY <2>2 DEF Sane
    <3>4. Holding(Changed(w1.mm, p, as)) = Places(H, x, f)
      <4>1. Holding(Changed(w1.mm, p, as)) = Places(H, x, e.frame)
        BY <1>1, <2>3, <2>5, HoldingPage
      <4>2. QED
        BY <2>5, <4>1
    <3> HIDE DEF x, H, as, e, old
    <3>5. ExactFrames(Places(H, x, f), w1.free \cup ({H[x]} \ {None}))
      BY <3>1, <3>3, ExactSwap
    <3>6. w1.free \cup ({H[x]} \ {None}) = F
      BY <3>2
    <3>7. QED
      BY <3>4, <3>5, <3>6
  <2>8. F \in SUBSET Frame
    BY <2>7 DEF ExactFrames
  <2> HIDE DEF as, F, e
  <2>9. Fits(w1, p, as, F, {})
    <3>1. F \cup {} = F
      OBVIOUS
    <3>2. QED
      BY <2>3, <2>5, <2>7, <2>8, <3>1 DEF Fits
  <2>10. SaneChange(u, w1, p, as, F, {})
    BY <2>1, <2>9, SaneUpdated
  <2>11. Sane(u, {}) /\ u.mm[p] = as /\ Others(u, w1, p) /\ ~Stopped(u)
    BY <1>4, <2>10 DEF SaneChange, Stopped
  <2>12. Others(u, w, p)
    BY <2>2, <2>11 DEF Others
  <2>13. QED
    BY <2>6, <2>11, <2>12 DEF Placed, u
<1>5. QED
  BY <1>3, <1>4

-----------------------------------------------------------------------------
(* What the operations on the pages of p keep.                             *)
Kept(u, w, p) ==
  /\ Sane(u, {}) /\ Others(u, w, p)
  /\ u.mm[p].mmap_list = w.mm[p].mmap_list

(* Doing nothing keeps it.                                                 *)
LEMMA KeptSelf == ASSUME NEW w, Sane(w, {}), NEW p PROVE Kept(w, w, p)
BY DEF Kept, Others

(* One operation after another keeps it.                                   *)
LEMMA KeptTwice ==
  ASSUME NEW u, NEW v, NEW w, NEW p, Kept(u, v, p), Kept(v, w, p)
  PROVE  Kept(u, w, p)
BY DEF Kept, Others

(* Running out of memory keeps it.                                         *)
LEMMA KeptNoMemory ==
  ASSUME NEW w, Sane(w, {}), NEW p PROVE Kept(NoMemory(w), w, p) /\ Stopped(NoMemory(w))
<1>1. Sane(NoMemory(w), {}) /\ NoMemory(w).mm = w.mm /\ Stopped(NoMemory(w))
  BY SaneNoMemory
<1>2. QED
  BY <1>1 DEF Kept, Others

(* A panic keeps it.                                                       *)
LEMMA KeptPanics ==
  ASSUME NEW w, Sane(w, {}), NEW p
  PROVE  Kept(Panics(w), w, p) /\ Panics(w).panicked /\ Panics(w).ret = w.ret
<1>1. Sane(Panics(w), {}) /\ Panics(w).mm = w.mm /\ Panics(w).panicked /\ Panics(w).ret = w.ret
  BY SanePanics
<1>2. QED
  BY <1>1 DEF Kept, Others

(* A failure keeps it.                                                     *)
LEMMA KeptFails ==
  ASSUME NEW w, Sane(w, {}), NEW p, NEW err \in Code
  PROVE  Kept(Fails(w, err), w, p) /\ Fails(w, err).ret = err /\ Fails(w, err).panicked = w.panicked
<1>1. /\ Sane(Fails(w, err), {}) /\ Fails(w, err).mm = w.mm
      /\ Fails(w, err).ret = err /\ Fails(w, err).panicked = w.panicked
  BY SaneFails
<1>2. QED
  BY <1>1 DEF Kept, Others

(* A frame is taken from the free ones, or given back.                     *)
WithFree(w, F) == [w EXCEPT !.free = F]

(* WithFree, field by field.                                               *)
LEMMA WithFreeWorld ==
  ASSUME NEW w \in MmWorld, NEW F \in SUBSET Frame
  PROVE  /\ WithFree(w, F) \in MmWorld /\ WithFree(w, F).mm = w.mm /\ WithFree(w, F).free = F
         /\ WithFree(w, F).panicked = w.panicked /\ WithFree(w, F).ret = w.ret
BY DEF WithFree, MmWorld

(* u is w but for the free frames.                                         *)
SameBut(u, w) == u.mm = w.mm /\ (Stopped(u) <=> Stopped(w))

(* A free frame is taken: it is in flight.                                 *)
LEMMA LiftedFrame ==
  ASSUME NEW w, Sane(w, {}), NEW f \in w.free
  PROVE  /\ Sane(WithFree(w, w.free \ {f}), {f}) /\ f \in Frame
         /\ SameBut(WithFree(w, w.free \ {f}), w)
<1> DEFINE F == w.free \ {f}
           u == WithFree(w, F)
<1>1. w \in MmWorld /\ F \in SUBSET Frame /\ f \in Frame
  BY DEF Sane, MmWorld
<1>2. /\ u \in MmWorld /\ u.mm = w.mm /\ u.free = F
      /\ u.panicked = w.panicked /\ u.ret = w.ret
  BY <1>1, WithFreeWorld
<1> HIDE DEF u
<1>3. F \cup {f} = w.free \cup {} /\ {f} \cap F = {}
  OBVIOUS
<1> HIDE DEF F
<1>4. Sane(u, {f})
  <2>1. ExactFrames(Holding(w.mm), w.free \cup {})
    BY DEF Sane
  <2>2. ExactFrames(Holding(u.mm), u.free \cup {f})
    BY <1>2, <1>3, <2>1
  <2>3. QED
    BY <1>2, <1>3, <2>2 DEF Sane
<1>5. SameBut(u, w)
  BY <1>2 DEF SameBut, Stopped
<1>6. QED
  BY <1>1, <1>4, <1>5 DEF u, F

(* A frame in flight is given back: it is free.                            *)
LEMMA LoweredFrame ==
  ASSUME NEW w, NEW f \in Frame, Sane(w, {f})
  PROVE  Sane(WithFree(w, w.free \cup {f}), {}) /\ SameBut(WithFree(w, w.free \cup {f}), w)
<1> DEFINE F == w.free \cup {f}
           u == WithFree(w, F)
<1>1. w \in MmWorld /\ F \in SUBSET Frame
  BY DEF Sane, MmWorld
<1>2. /\ u \in MmWorld /\ u.mm = w.mm /\ u.free = F
      /\ u.panicked = w.panicked /\ u.ret = w.ret
  BY <1>1, WithFreeWorld
<1> HIDE DEF u
<1>3. F \cup {} = w.free \cup {f}
  OBVIOUS
<1> HIDE DEF F
<1>4. Sane(u, {})
  <2>1. ExactFrames(Holding(w.mm), w.free \cup {f})
    BY DEF Sane
  <2>2. ExactFrames(Holding(u.mm), u.free \cup {})
    BY <1>2, <1>3, <2>1
  <2>3. QED
    BY <1>2, <2>2 DEF Sane
<1>5. SameBut(u, w)
  BY <1>2 DEF SameBut, Stopped
<1>6. QED
  BY <1>4, <1>5 DEF u, F

(* pgdir_alloc_page for a page of an area.                                 *)
LEMMA AllocPageFacts ==
  ASSUME NEW w, Sane(w, {}), NEW p \in Proc, NEW la, NEW write \in BOOLEAN,
         PageAllowed(w.mm[p], la, write)
  PROVE  Kept(pgdir_alloc_page(w, p, la, write), w, p)
<1> DEFINE u == pgdir_alloc_page(w, p, la, write)
           f == FreeFrame(w)
           v == WithFree(w, w.free \ {f})
           w1 == page_insert(v, p, f, la, write)
<1>1. CASE w.free = {}
  <2>1. f = None
    BY <1>1, NoFreeFrame
  <2>2. u = NoMemory(w)
    BY <2>1 DEF pgdir_alloc_page
  <2>3. QED
    BY <2>2, KeptNoMemory
<1>2. CASE w.free # {}
  <2>1. f \in w.free /\ f # None
    BY <1>2, FreeFrameFacts
  <2>2. u = IF Stopped(w1) THEN WithFree(w1, w1.free \cup {f}) ELSE w1
    BY <2>1 DEF pgdir_alloc_page, WithFree
  <2> HIDE DEF f, u
  <2>3. Sane(v, {f}) /\ f \in Frame /\ SameBut(v, w)
    BY <2>1, LiftedFrame
  <2>4. v.mm = w.mm
    BY <2>3 DEF SameBut
  <2> HIDE DEF v
  <2>5. PageAllowed(v.mm[p], la, write)
    BY <2>4
  <2>6. Placed(w1, v, p, la, f)
    BY <2>3, <2>5, PageInsertFacts
  <2> HIDE DEF w1
  <2>7. Others(w1, w, p) /\ w1.mm[p].mmap_list = w.mm[p].mmap_list
    BY <2>4, <2>6 DEF Placed, Others
  <2>8. CASE Stopped(w1)
    <3> DEFINE x == WithFree(w1, w1.free \cup {f})
    <3>1. Sane(w1, {f})
      BY <2>6, <2>8 DEF Placed
    <3>2. Sane(x, {}) /\ SameBut(x, w1)
      BY <2>3, <3>1, LoweredFrame
    <3>3. u = x
      BY <2>2, <2>8
    <3> HIDE DEF x
    <3>4. x.mm = w1.mm
      BY <3>2 DEF SameBut
    <3>5. Kept(u, w, p)
      BY <2>7, <3>2, <3>3, <3>4 DEF Kept, Others
    <3>6. QED
      BY <3>5 DEF u
  <2>9. CASE ~Stopped(w1)
    <3>1. Sane(w1, {}) /\ u = w1
      BY <2>2, <2>6, <2>9 DEF Placed
    <3>2. Kept(u, w, p)
      BY <2>7, <3>1 DEF Kept
    <3>3. QED
      BY <3>2 DEF u
  <2>10. QED
    BY <2>8, <2>9
<1>3. QED
  BY <1>1, <1>2

(* CopyPage of a page that the child has an area for.                      *)
LEMMA CopyPageFacts ==
  ASSUME NEW w, Sane(w, {}), NEW from \in Proc, NEW to \in Proc, from # to, NEW la,
         PageAllowed(w.mm[to], la, w.mm[from].pte[la].w)
  PROVE  Kept(CopyPage(w, from, to, la), w, to)
<1> DEFINE u == CopyPage(w, from, to, la)
           w1 == get_pte(w, to, la)
           f == FreeFrame(w1)
           write == w.mm[from].pte[la].w
           v == WithFree(w1, w1.free \ {f})
<1>1. la \in Page /\ TableOf(la) \in Table /\ TableAllowed(w.mm[to], TableOf(la))
  BY AllowedPage DEF Sane
<1>2. write \in BOOLEAN
  BY <1>1 DEF Sane, MmWorld, Spaces, Space, Pte
<1>3. GotPte(w1, w, to, la, {})
  BY <1>1, GetPteFacts
<1>4. u = IF Stopped(w1) THEN w1 ELSE IF f = None THEN Panics(w1)
          ELSE page_insert([w1 EXCEPT !.free = @ \ {f}], to, f, la, w1.mm[from].pte[la].w)
  BY DEF CopyPage
<1> HIDE DEF w1, u
<1>5. Sane(w1, {}) /\ Kept(w1, w, to) /\ w1.mm[from] = w.mm[from]
  BY <1>3 DEF GotPte, Kept, Others
<1>6. CASE Stopped(w1)
  BY <1>4, <1>5, <1>6 DEF u
<1>7. CASE ~Stopped(w1) /\ w1.free = {}
  <2>1. u = Panics(w1)
    BY <1>4, <1>7, NoFreeFrame
  <2>2. Kept(Panics(w1), w1, to)
    BY <1>5, KeptPanics
  <2>3. QED
    BY <1>5, <2>1, <2>2, KeptTwice DEF u
<1>8. CASE ~Stopped(w1) /\ w1.free # {}
  <2>1. f \in w1.free /\ f # None
    BY <1>5, <1>8, FreeFrameFacts
  <2>2. u = page_insert(v, to, f, la, write)
    BY <1>4, <1>5, <1>8, <2>1 DEF WithFree
  <2> HIDE DEF f
  <2>3. Sane(v, {f}) /\ f \in Frame /\ SameBut(v, w1)
    BY <1>5, <2>1, LiftedFrame
  <2> HIDE DEF v, write
  <2>4. v.mm = w1.mm /\ ~Stopped(v)
    BY <1>8, <2>3 DEF SameBut
  <2>5. PageAllowed(v.mm[to], la, write)
    <3>1. v.mm[to].mmap_list = w.mm[to].mmap_list
      BY <1>5, <2>4 DEF Kept
    <3>2. PageAllowed(w.mm[to], la, write)
      BY DEF write
    <3>3. QED
      BY <3>1, <3>2, PageAllowedSame
  <2>6. Placed(u, v, to, la, f)
    BY <1>2, <2>2, <2>3, <2>5, PageInsertFacts
  <2>7. v.mm[to].table[TableOf(la)] # None
    BY <1>3, <1>8, <2>4 DEF GotPte
  <2>8. Sane(u, {})
    BY <2>4, <2>6, <2>7 DEF Placed
  <2>9. Kept(u, w1, to)
    BY <2>4, <2>6, <2>8 DEF Placed, Kept, Others
  <2>10. QED
    BY <1>5, <2>9, KeptTwice DEF u
<1>9. QED
  BY <1>6, <1>7, <1>8

-----------------------------------------------------------------------------
(***************************************************************************)
(* Recursion.  A function that calls itself once, with an argument of a    *)
(* smaller measure, exists: a[x] where it stops, and elsewhere what comb   *)
(* makes of x and the value for next[x].                                   *)
(***************************************************************************)
Smaller(D, stop, next, m) ==
  \A x \in D : x \notin stop => next[x] \in D /\ m[next[x]] < m[x]

(* a and comb lead from W to W.                                            *)
Closed(D, W, a, comb) ==
  /\ a \in [D -> W]
  /\ \A x \in D, v \in W : comb[<<x, v>>] \in W

(* f does what the recursion says.                                         *)
Solves(f, D, stop, next, a, comb) ==
  \A x \in D : f[x] = IF x \in stop THEN a[x] ELSE comb[<<x, f[next[x]]>>]

(* Such an f exists.                                                       *)
LEMMA MeasuredRecursion ==
  ASSUME NEW D, NEW W, NEW n \in Nat, NEW m \in [D -> 0..n], NEW stop, NEW next, NEW a, NEW comb,
         Smaller(D, stop, next, m), Closed(D, W, a, comb)
  PROVE  \E f \in [D -> W] : Solves(f, D, stop, next, a, comb)
<1> DEFINE Rec(f, x) == IF x \in stop THEN a[x] ELSE comb[<<x, f[next[x]]>>]
           Good(f, k) == \A x \in D : m[x] < k => f[x] = Rec(f, x)
           P == {k \in Nat : \E f \in [D -> W] : Good(f, k)}
<1>1. \A x \in D : m[x] \in Nat /\ m[x] <= n
  OBVIOUS
<1>2. 0 \in P
  <2>1. a \in [D -> W] /\ Good(a, 0)
    BY <1>1 DEF Closed
  <2>2. QED
    BY <2>1
<1>3. ASSUME NEW k \in Nat, k \in P PROVE k + 1 \in P
  <2>1. PICK f \in [D -> W] : Good(f, k)
    BY <1>3
  <2> DEFINE g == [x \in D |-> Rec(f, x)]
  <2>2. g \in [D -> W]
    <3>1. ASSUME NEW x \in D PROVE Rec(f, x) \in W
      <4>1. CASE x \in stop
        BY <4>1 DEF Closed
      <4>2. CASE x \notin stop
        <5>1. next[x] \in D
          BY <4>2 DEF Smaller
        <5>2. f[next[x]] \in W
          BY <5>1
        <5>3. comb[<<x, f[next[x]]>>] \in W
          BY <5>2 DEF Closed
        <5>4. QED
          BY <4>2, <5>3
      <4>3. QED
        BY <4>1, <4>2
    <3> HIDE DEF Rec
    <3>2. QED
      BY <3>1
  <2>3. ASSUME NEW x \in D, m[x] < k + 1 PROVE g[x] = Rec(g, x)
    <3>1. g[x] = Rec(f, x)
      OBVIOUS
    <3>2. CASE x \in stop
      BY <3>2
    <3>3. CASE x \notin stop
      <4>1. next[x] \in D /\ m[next[x]] < k
        <5>1. next[x] \in D /\ m[next[x]] < m[x]
          BY <3>3 DEF Smaller
        <5>2. m[x] \in Nat /\ m[next[x]] \in Nat
          BY <1>1, <5>1
        <5>3. QED
          BY <2>3, <5>1, <5>2
      <4>2. f[next[x]] = Rec(f, next[x])
        BY <2>1, <4>1
      <4>3. g[next[x]] = Rec(f, next[x])
        BY <4>1
      <4> HIDE DEF g
      <4>4. QED
        BY <3>1, <3>3, <4>2, <4>3
    <3>4. QED
      BY <3>2, <3>3
  <2>4. Good(g, k + 1)
    <3> HIDE DEF g, Rec
    <3>1. QED
      BY <2>3
  <2> HIDE DEF g, Good
  <2>5. QED
    BY <2>2, <2>4
<1>4. n + 1 \in P
  <2> HIDE DEF P
  <2>1. \A k \in Nat : k \in P => k + 1 \in P
    BY <1>3
  <2>2. Nat \subseteq P
    BY <1>2, <2>1, InductionOnNat
  <2>3. QED
    BY <2>2
<1>5. PICK f \in [D -> W] : Good(f, n + 1)
  BY <1>4
<1>6. \A x \in D : f[x] = Rec(f, x)
  BY <1>1, <1>5
<1>7. QED
  BY <1>6 DEF Solves

(* What holds of x if it holds of all with a smaller measure holds of all. *)
Progressive(D, m, P) == \A x \in D : (\A y \in D : m[y] < m[x] => y \in P) => x \in P

(* Proved by the least counterexample.                                     *)
LEMMA MeasuredInduction ==
  ASSUME NEW D, NEW n \in Nat, NEW m \in [D -> 0..n], NEW P, Progressive(D, m, P)
  PROVE  D \subseteq P
<1> DEFINE Q == {k \in Nat : \A x \in D : m[x] < k => x \in P}
<1>1. \A x \in D : m[x] \in Nat /\ m[x] <= n
  OBVIOUS
<1>2. 0 \in Q
  BY <1>1
<1>3. ASSUME NEW k \in Nat, k \in Q PROVE k + 1 \in Q
  <2> SUFFICES ASSUME NEW x \in D, m[x] < k + 1 PROVE x \in P
    OBVIOUS
  <2>1. \A y \in D : m[y] < m[x] => y \in P
    BY <1>1, <1>3
  <2>2. QED
    BY <2>1 DEF Progressive
<1>4. n + 1 \in Q
  <2> HIDE DEF Q
  <2>1. \A k \in Nat : k \in Q => k + 1 \in Q
    BY <1>3
  <2>2. Nat \subseteq Q
    BY <1>2, <2>1, InductionOnNat
  <2>3. QED
    BY <2>2
<1>5. QED
  BY <1>1, <1>4

(* What is kept at each step of a trace holds at its end.                  *)
LEMMA Staged ==
  ASSUME NEW n \in Nat, NEW tr, NEW Q, tr[0] \in Q[0],
         \A k \in 1..n : tr[k - 1] \in Q[k - 1] => tr[k] \in Q[k]
  PROVE  tr[n] \in Q[n]
<1> DEFINE P == {k \in Nat : k <= n => tr[k] \in Q[k]}
<1>1. 0 \in P
  OBVIOUS
<1>2. ASSUME NEW k \in Nat, k \in P PROVE k + 1 \in P
  <2> SUFFICES ASSUME k + 1 <= n PROVE tr[k + 1] \in Q[k + 1]
    OBVIOUS
  <2>1. k + 1 \in 1..n /\ (k + 1) - 1 = k /\ k <= n
    OBVIOUS
  <2>2. tr[k] \in Q[k]
    BY <1>2, <2>1
  <2>3. tr[(k + 1) - 1] \in Q[(k + 1) - 1]
    BY <2>1, <2>2
  <2>4. QED
    BY <2>1, <2>3
<1>3. n \in P
  <2> HIDE DEF P
  <2>1. \A k \in Nat : k \in P => k + 1 \in P
    BY <1>2
  <2>2. Nat \subseteq P
    BY <1>1, <2>1, InductionOnNat
  <2>3. QED
    BY <2>2
<1>4. QED
  BY <1>3

(* The greatest of the first numbers, and the others.                      *)
LEMMA TopOfFew ==
  ASSUME NEW n \in Nat, NEW k \in 1..n
  PROVE  Max(1..k) = k /\ (1..k) \ {k} = 1..(k - 1) /\ 1..k # {} /\ 1..k \in SUBSET (1..n)
<1> DEFINE T   == 1..k
           top == Max(T)
<1>1. k \in T /\ T \in SUBSET (1..k) /\ k \in Nat /\ T # {}
  OBVIOUS
<1>2. (1..k) \ {k} = 1..(k - 1) /\ 1..k \in SUBSET (1..n)
  OBVIOUS
<1> HIDE DEF T
<1>3. top \in T /\ top >= k
  BY <1>1, MaxOfFew
<1> HIDE DEF top
<1>4. top = k
  BY <1>3 DEF T
<1>5. QED
  BY <1>1, <1>2, <1>4 DEF top, T

-----------------------------------------------------------------------------
(***************************************************************************)
(* The pages that unmap_range and copy_range look at are the pages of the  *)
(* area that have a page table.                                            *)
(***************************************************************************)
LEMMA NextTableFacts ==
  ASSUME NEW la \in Nat
  PROVE  /\ NextTable(la) \in Nat /\ la < NextTable(la) /\ NextTable(la) <= la + NPT
         /\ \A lb \in la..(NextTable(la) - 1) : TableOf(lb) = TableOf(la)
<1> DEFINE t == TableOf(la)
<1>1. NPT \in Nat \ {0} /\ NPT \in Int
  BY Sizes
<1>2. t \in Int /\ la = NPT * t + (la % NPT) /\ la % NPT \in 0..(NPT - 1) /\ NPT * t \in Int
  BY <1>1, DivModFacts DEF TableOf
<1>3. (la + NPT) \div NPT = t + 1
  <2> DEFINE s == (la + NPT) \div NPT
  <2>1. s \in Int
    BY <1>1, DivModFacts
  <2>2. NPT * (t + 1) = NPT * t + NPT /\ NPT * (t + 2) = NPT * t + NPT + NPT
    BY <1>1, <1>2
  <2>3. t + 1 <= s
    <3>1. NPT * (t + 1) <= la + NPT
      BY <1>1, <1>2, <2>2
    <3>2. la + NPT \in Int /\ t + 1 \in Int
      BY <1>1, <1>2
    <3>3. QED
      BY <1>1, <3>1, <3>2, DivAdjoint
  <2>4. ~(t + 2 <= s)
    <3>1. ~(NPT * (t + 2) <= la + NPT)
      BY <1>1, <1>2, <2>2
    <3>2. la + NPT \in Int /\ t + 2 \in Int
      BY <1>1, <1>2
    <3>3. QED
      BY <1>1, <3>1, <3>2, DivAdjoint
  <2> HIDE DEF s, t
  <2>5. QED
    BY <1>2, <2>1, <2>3, <2>4 DEF s
<1>4. NextTable(la) = (t + 1) * NPT
  BY <1>3 DEF NextTable, ROUNDDOWN
<1>5. (t + 1) * NPT = NPT * t + NPT
  BY <1>1, <1>2
<1> HIDE DEF t
<1>6. NextTable(la) \in Nat /\ la < NextTable(la) /\ NextTable(la) <= la + NPT
  BY <1>1, <1>2, <1>4, <1>5
<1>7. ASSUME NEW lb \in la..(NextTable(la) - 1) PROVE TableOf(lb) = t
  <2>1. lb \in Int /\ la <= lb /\ lb < NextTable(la)
    BY <1>6
  <2>2. t <= lb \div NPT
    <3>1. NPT * t <= lb
      BY <1>1, <1>2, <2>1
    <3>2. QED
      BY <1>1, <1>2, <2>1, <3>1, DivAdjoint
  <2>3. ~(t + 1 <= lb \div NPT)
    <3>1. NPT * (t + 1) = NPT * t + NPT
      BY <1>1, <1>2
    <3>2. ~(NPT * (t + 1) <= lb)
      BY <1>1, <1>2, <1>4, <1>5, <2>1, <3>1
    <3>3. t + 1 \in Int
      BY <1>2
    <3>4. QED
      BY <1>1, <2>1, <3>2, <3>3, DivAdjoint
  <2>4. lb \div NPT \in Int
    BY <1>1, <2>1, DivModFacts
  <2>5. QED
    BY <1>2, <2>2, <2>3, <2>4 DEF TableOf
<1>8. QED
  BY <1>6, <1>7 DEF t

(* There are not more pages in a page table than addresses.                *)
LEMMA TableFits == NPT <= WORD_SIZE /\ PageOf(USERTOP) <= WORD_SIZE
<1>1. PGSIZE \in Nat \ {0} /\ NPT \in Nat \ {0} /\ USERTOP \in Nat \ {0} /\ WORD_SIZE \in Nat
      /\ USERTOP < WORD_SIZE /\ USERTOP % (PGSIZE * NPT) = 0
  BY Sizes, AddrSpaceAssumption
<1>2. PGSIZE * NPT \in Nat \ {0} /\ NPT <= PGSIZE * NPT
  <2> DEFINE k == PGSIZE - 1
  <2>1. k \in Nat /\ k * NPT \in Nat
    BY <1>1
  <2>2. PGSIZE * NPT = NPT + k * NPT
    BY <1>1
  <2> HIDE DEF k
  <2>3. QED
    BY <1>1, <2>1, <2>2
<1> DEFINE n == PGSIZE * NPT
           q == USERTOP \div n
<1>3. n \in Nat \ {0} /\ NPT <= n
  BY <1>2
<1>4. USERTOP = n * q + 0 /\ q \in Int
  <2>1. USERTOP % n = 0
    BY <1>1
  <2> HIDE DEF n
  <2>2. USERTOP = n * q + (USERTOP % n) /\ q \in Int
    BY <1>1, <1>3, DivModFacts
  <2>3. QED
    BY <2>1, <2>2
<1> HIDE DEF n, q
<1>5. 1 <= q
  <2>1. CASE q <= 0
    <3> DEFINE j == 0 - q
    <3>1. j \in Nat /\ n * j \in Nat
      BY <1>3, <1>4, <2>1
    <3>2. n * q = 0 - n * j
      BY <1>3, <1>4
    <3> HIDE DEF j
    <3>3. QED
      BY <1>1, <1>4, <3>1, <3>2
  <2>2. QED
    BY <1>4, <2>1
<1>6. n <= USERTOP
  <2> DEFINE j == q - 1
  <2>1. j \in Nat /\ n * j \in Nat
    BY <1>3, <1>4, <1>5
  <2>2. n * q = n + n * j
    BY <1>3, <1>4
  <2> HIDE DEF j
  <2>3. QED
    BY <1>1, <1>3, <1>4, <2>1, <2>2
<1>7. PageOf(USERTOP) <= USERTOP
  <2>1. PageOf(USERTOP) \in Nat /\ PGSIZE * PageOf(USERTOP) = USERTOP
    BY UserPage
  <2> DEFINE j == PGSIZE - 1
             c == PageOf(USERTOP)
  <2>2. c \in Nat /\ PGSIZE * c = USERTOP
    BY <2>1
  <2> HIDE DEF c
  <2>3. j \in Nat /\ j * c \in Nat
    BY <1>1, <2>2
  <2>4. PGSIZE * c = c + j * c
    BY <1>1, <2>2
  <2> HIDE DEF j
  <2>5. c <= USERTOP
    BY <2>2, <2>3, <2>4
  <2>6. QED
    BY <2>5 DEF c
<1>8. PageOf(USERTOP) \in Nat
  BY UserPage
<1>9. QED
  BY <1>1, <1>3, <1>6, <1>7, <1>8

(* A page in front of a list of pages.                                     *)
LEMMA ConsSet ==
  ASSUME NEW la \in Nat, NEW s \in Seq(Nat)
  PROVE  <<la>> \o s \in Seq(Nat) /\ ToSet(<<la>> \o s) = {la} \cup ToSet(s)
<1> DEFINE l == <<la>> \o s
<1>1. /\ <<la>> \in Seq(Nat) /\ Len(<<la>>) = 1 /\ <<la>>[1] = la
  OBVIOUS
<1>2. Len(s) \in Nat
  OBVIOUS
<1>3. /\ l \in Seq(Nat) /\ Len(l) = 1 + Len(s) /\ l[1] = la
      /\ \A i \in 2..(1 + Len(s)) : l[i] = s[i - 1]
  BY <1>1, <1>2
<1> HIDE DEF l
<1>4. ASSUME NEW x \in ToSet(l) PROVE x \in {la} \cup ToSet(s)
  <2>1. PICK i \in 1..Len(l) : l[i] = x
    BY <1>3, ListSet
  <2>2. CASE i = 1
    BY <1>3, <2>1, <2>2
  <2>3. CASE i # 1
    <3>1. i - 1 \in 1..Len(s) /\ s[i - 1] = x
      BY <1>2, <1>3, <2>1, <2>3
    <3>2. QED
      BY <3>1, ListSet
  <2>4. QED
    BY <2>2, <2>3
<1>5. la \in ToSet(l)
  <2>1. 1 \in 1..Len(l)
    BY <1>2, <1>3
  <2>2. QED
    BY <1>3, <2>1, ListSet
<1>6. ASSUME NEW x \in ToSet(s) PROVE x \in ToSet(l)
  <2>1. PICK i \in 1..Len(s) : s[i] = x
    BY ListSet
  <2>2. i + 1 \in 1..Len(l) /\ i + 1 \in 2..(1 + Len(s)) /\ (i + 1) - 1 = i
    BY <1>2, <1>3, <2>1
  <2>3. l[i + 1] = x
    BY <1>3, <2>1, <2>2
  <2>4. QED
    BY <1>3, <2>2, <2>3, ListSet
<1>7. QED
  BY <1>3, <1>4, <1>5, <1>6 DEF l

(* The empty list of pages.                                                *)
LEMMA NothingListed == <<>> \in Seq(Nat) /\ ToSet(<<>>) = {}
<1>1. <<>> \in Seq(Nat) /\ Len(<<>>) = 0
  OBVIOUS
<1>2. QED
  BY <1>1 DEF ToSet

(* The pages from la on that have a page table.                            *)
WithTableFrom(as, end, la) == {lb \in la..(end - 1) : as.table[TableOf(lb)] # None}

(* Walked lists just the pages of the area that have a page table.         *)
LEMMA WalkedFacts ==
  ASSUME NEW as, NEW v, UserArea(v)
  PROVE  /\ Walked(as, v) \in Seq(Nat)
         /\ ToSet(Walked(as, v)) = {la \in Page : InPages(v, la) /\ as.table[TableOf(la)] # None}
<1> DEFINE end == PageOf(v.vm_end)
           N == 2 * WORD_SIZE
           D == 0..N
           W == Seq(Nat)
           skip(la) == as.table[TableOf(la)] = None
           stop == {la \in D : la >= end}
           next == [la \in D |-> IF skip(la) THEN NextTable(la) ELSE la + 1]
           m == [la \in D |-> N - la]
           a == [la \in D |-> <<>>]
           comb == [x \in D \X W |-> IF skip(x[1]) THEN x[2] ELSE <<x[1]>> \o x[2]]
           Rec(g) == g = [la \in 0..(2 * WORD_SIZE) |->
                        IF la >= PageOf(v.vm_end) THEN <<>>
                        ELSE IF as.table[TableOf(la)] = None THEN g[NextTable(la)]
                        ELSE <<la>> \o g[la + 1]]
           from == CHOOSE g : Rec(g)
<1>1. /\ end \in Nat /\ end <= WORD_SIZE /\ N \in Nat /\ WORD_SIZE \in Nat
      /\ PageOf(v.vm_start) \in Nat /\ PageOf(v.vm_start) < end
  BY AreaPages, TableFits, Sizes, UserPage
<1>2. \A la \in D : la < end => next[la] \in D /\ la < next[la]
  <2> SUFFICES ASSUME NEW la \in D, la < end PROVE next[la] \in D /\ la < next[la]
    OBVIOUS
  <2>1. la \in Nat /\ NextTable(la) \in Nat /\ la < NextTable(la) /\ NextTable(la) <= la + NPT
    BY <1>1, NextTableFacts
  <2>2. NPT <= WORD_SIZE /\ NPT \in Nat
    BY TableFits, Sizes
  <2>3. NextTable(la) \in D /\ la + 1 \in D
    BY <1>1, <2>1, <2>2
  <2>4. next[la] = IF skip(la) THEN NextTable(la) ELSE la + 1
    OBVIOUS
  <2> HIDE DEF next, D, skip
  <2>5. CASE skip(la)
    BY <2>1, <2>3, <2>4, <2>5
  <2>6. CASE ~skip(la)
    BY <2>1, <2>3, <2>4, <2>6
  <2>7. QED
    BY <2>5, <2>6
<1>3. m \in [D -> 0..N] /\ \A la \in D : m[la] = N - la
  BY <1>1
<1>4. Smaller(D, stop, next, m)
  <2> HIDE DEF next, m
  <2> SUFFICES ASSUME NEW la \in D, la \notin stop PROVE next[la] \in D /\ m[next[la]] < m[la]
    BY DEF Smaller
  <2>1. la < end /\ la \in Int
    BY <1>1
  <2>2. next[la] \in D /\ la < next[la]
    BY <1>2, <2>1
  <2>3. QED
    BY <1>1, <1>3, <2>1, <2>2
<1>5. Closed(D, W, a, comb)
  <2>1. a \in [D -> W]
    BY NothingListed
  <2>2. ASSUME NEW la \in D, NEW s \in W PROVE comb[<<la, s>>] \in W
    <3>1. la \in Nat
      BY <1>1
    <3>2. <<la>> \o s \in W
      BY <3>1, ConsSet
    <3>3. QED
      BY <3>2
  <2> HIDE DEF a, comb, D, W
  <2>3. QED
    BY <2>1, <2>2 DEF Closed
<1>6. PICK f \in [D -> W] : Solves(f, D, stop, next, a, comb)
  <2> HIDE DEF D, W, stop, next, m, a, comb, N
  <2>1. N \in Nat /\ m \in [D -> 0..N]
    BY <1>1, <1>3
  <2>2. QED
    BY <1>4, <1>5, <2>1, MeasuredRecursion
<1>7. Rec(f)
  <2>1. ASSUME NEW la \in D
        PROVE  f[la] = IF la >= PageOf(v.vm_end) THEN <<>>
                       ELSE IF as.table[TableOf(la)] = None THEN f[NextTable(la)]
                       ELSE <<la>> \o f[la + 1]
    <3>1. f[la] = IF la \in stop THEN a[la] ELSE comb[<<la, f[next[la]]>>]
      BY <1>6 DEF Solves
    <3>2. CASE la >= end
      BY <3>1, <3>2
    <3>3. CASE ~(la >= end)
      <4>1. la \notin stop /\ la < end
        BY <1>1, <3>3
      <4>2. next[la] \in D
        BY <1>2, <4>1
      <4> DEFINE s == f[next[la]]
      <4>3. s \in W
        BY <4>2
      <4>4. next[la] = IF skip(la) THEN NextTable(la) ELSE la + 1
        OBVIOUS
      <4> HIDE DEF s, W
      <4>5. comb[<<la, s>>] = IF skip(la) THEN s ELSE <<la>> \o s
        BY <4>3
      <4> HIDE DEF comb, next, stop
      <4>6. f[la] = IF skip(la) THEN s ELSE <<la>> \o s
        BY <3>1, <4>1, <4>5 DEF s
      <4>7. QED
        BY <3>3, <4>4, <4>6 DEF s
    <3>4. QED
      BY <3>2, <3>3
  <2> HIDE DEF a, comb, next, stop, m, W
  <2>2. QED
    BY <2>1
<1>8. Walked(as, v) = from[PageOf(v.vm_start)]
  BY DEF Walked
<1>9. Rec(from)
  <2> HIDE DEF Rec
  <2>1. QED
    BY <1>7
<1> HIDE DEF from
<1>10. \A la \in D : from[la] = IF la >= end THEN <<>>
                                ELSE IF skip(la) THEN from[NextTable(la)] ELSE <<la>> \o from[la + 1]
  BY <1>9
<1> HIDE DEF Rec, end
<1>20. D = 0..N /\ \A la \in D : la \in Nat
  BY <1>1
<1> DEFINE P == {la \in D : from[la] \in Seq(Nat) /\ ToSet(from[la]) = WithTableFrom(as, end, la)}
<1>11. ASSUME NEW la \in D, \A lb \in D : m[lb] < m[la] => lb \in P PROVE la \in P
  <2>1. la \in Nat /\ m[la] = N - la
    BY <1>1
  <2>2. CASE la >= end
    <3>1. from[la] = <<>>
      BY <1>10, <2>2
    <3>2. WithTableFrom(as, end, la) = {}
      <4>1. la..(end - 1) = {}
        BY <1>1, <2>1, <2>2
      <4>2. QED
        BY <4>1 DEF WithTableFrom
    <3>3. QED
      BY <3>1, <3>2, NothingListed
  <2>3. CASE la < end
    <3>1. next[la] \in D /\ la < next[la] /\ next[la] = IF skip(la) THEN NextTable(la) ELSE la + 1
      BY <1>2, <2>3
    <3>2. m[next[la]] < m[la]
      <4> HIDE DEF m, next, D, N
      <4>1. next[la] \in Nat /\ N \in Nat /\ m[next[la]] = N - next[la]
        BY <1>1, <1>3, <1>20, <3>1
      <4>2. la < next[la]
        BY <3>1
      <4>3. QED
        BY <2>1, <4>1, <4>2
    <3> HIDE DEF next, m
    <3>3. next[la] \in P
      BY <1>11, <3>1, <3>2
    <3>4. CASE skip(la)
      <4>1. next[la] = NextTable(la)
        BY <3>1, <3>4
      <4>2. from[la] = from[NextTable(la)]
        <5>1. ~(la >= end)
          BY <1>1, <2>1, <2>3
        <5> HIDE DEF D, skip
        <5>2. QED
          BY <1>10, <3>4, <5>1
      <4>3. from[la] \in Seq(Nat) /\ ToSet(from[la]) = WithTableFrom(as, end, NextTable(la))
        BY <3>3, <4>1, <4>2
      <4>4. \A lb \in la..(NextTable(la) - 1) : as.table[TableOf(lb)] = None
        BY <2>1, <3>4, NextTableFacts
      <4>5. NextTable(la) \in Nat /\ la < NextTable(la)
        BY <2>1, NextTableFacts
      <4>6. WithTableFrom(as, end, NextTable(la)) = WithTableFrom(as, end, la)
        <5>1. ASSUME NEW lb \in WithTableFrom(as, end, la) PROVE lb \in WithTableFrom(as, end, NextTable(la))
          <6>1. lb \in la..(end - 1) /\ as.table[TableOf(lb)] # None
            BY DEF WithTableFrom
          <6>2. lb \notin la..(NextTable(la) - 1)
            BY <4>4, <6>1
          <6>3. lb \in NextTable(la)..(end - 1)
            BY <1>1, <2>1, <4>5, <6>1, <6>2
          <6>4. QED
            BY <6>1, <6>3 DEF WithTableFrom
        <5>2. ASSUME NEW lb \in WithTableFrom(as, end, NextTable(la)) PROVE lb \in WithTableFrom(as, end, la)
          <6>1. lb \in NextTable(la)..(end - 1) /\ as.table[TableOf(lb)] # None
            BY DEF WithTableFrom
          <6>2. lb \in la..(end - 1)
            BY <1>1, <2>1, <4>5, <6>1
          <6>3. QED
            BY <6>1, <6>2 DEF WithTableFrom
        <5>3. QED
          BY <5>1, <5>2
      <4>7. QED
        BY <4>3, <4>6
    <3>5. CASE ~skip(la)
      <4>1. next[la] = la + 1
        BY <3>1, <3>5
      <4>2. from[la] = <<la>> \o from[la + 1]
        <5>1. ~(la >= end)
          BY <1>1, <2>1, <2>3
        <5> HIDE DEF D, skip
        <5>2. QED
          BY <1>10, <3>5, <5>1
      <4> DEFINE s == from[la + 1]
      <4>3. s \in Seq(Nat) /\ ToSet(s) = WithTableFrom(as, end, la + 1)
        BY <3>3, <4>1
      <4> HIDE DEF s
      <4>4. from[la] \in Seq(Nat) /\ ToSet(from[la]) = {la} \cup ToSet(s)
        BY <2>1, <4>2, <4>3, ConsSet DEF s
      <4>5. WithTableFrom(as, end, la) = {la} \cup WithTableFrom(as, end, la + 1)
        <5>1. la \in WithTableFrom(as, end, la)
          <6>1. la \in la..(end - 1)
            BY <1>1, <2>1, <2>3
          <6>2. QED
            BY <3>5, <6>1 DEF WithTableFrom
        <5>2. ASSUME NEW lb \in WithTableFrom(as, end, la), lb # la PROVE lb \in WithTableFrom(as, end, la + 1)
          <6>1. lb \in la..(end - 1) /\ as.table[TableOf(lb)] # None
            BY DEF WithTableFrom
          <6>2. lb \in (la + 1)..(end - 1)
            BY <1>1, <2>1, <5>2, <6>1
          <6>3. QED
            BY <6>1, <6>2 DEF WithTableFrom
        <5>3. ASSUME NEW lb \in WithTableFrom(as, end, la + 1) PROVE lb \in WithTableFrom(as, end, la)
          <6>1. lb \in (la + 1)..(end - 1) /\ as.table[TableOf(lb)] # None
            BY DEF WithTableFrom
          <6>2. lb \in la..(end - 1)
            BY <1>1, <2>1, <6>1
          <6>3. QED
            BY <6>1, <6>2 DEF WithTableFrom
        <5>4. QED
          BY <5>1, <5>2, <5>3
      <4>6. QED
        BY <4>3, <4>4, <4>5
    <3>6. QED
      BY <3>4, <3>5
  <2> HIDE DEF P
  <2>4. QED
    BY <1>1, <2>1, <2>2, <2>3
<1>12. D \subseteq P
  <2> HIDE DEF D, m, P, N
  <2>1. N \in Nat /\ m \in [D -> 0..N]
    BY <1>1, <1>3
  <2>2. Progressive(D, m, P)
    BY <1>11 DEF Progressive
  <2>3. QED
    BY <2>1, <2>2, MeasuredInduction
<1>13. PageOf(v.vm_start) \in D
  BY <1>1
<1>14. Walked(as, v) \in Seq(Nat) /\ ToSet(Walked(as, v)) = WithTableFrom(as, end, PageOf(v.vm_start))
  BY <1>8, <1>12, <1>13
<1>15. WithTableFrom(as, end, PageOf(v.vm_start))
         = {la \in Page : InPages(v, la) /\ as.table[TableOf(la)] # None}
  <2>1. \A la : InPages(v, la) => la \in Page
    BY PagesOfArea
  <2>2. QED
    BY <2>1 DEF WithTableFrom, InPages, end
<1>16. QED
  BY <1>14, <1>15

-----------------------------------------------------------------------------
(***************************************************************************)
(* user_mem_check.  Where its loop stands is a pair of an address and what *)
(* is in the cache; each round brings it to the end of an area.            *)
(***************************************************************************)
CacheEntries(as) == ToSet(as.mmap_list) \cup {NoArea}

(* What find_vma finds where the loop stands.                              *)
FoundAt(as, x) == find_vma(WithCache(as, x[2]), x[1])

(* It is an area around the address, or there is none.                     *)
LEMMA FoundAtFacts ==
  ASSUME NEW as, SpaceOk(as), NEW start \in Nat, NEW cache \in CacheEntries(as), NEW v,
         v = find_vma(WithCache(as, cache), start)
  PROVE  /\ v \in CacheEntries(as)
         /\ v # NoArea => /\ UserArea(v) /\ InArea(v, start) /\ v \in ToSet(as.mmap_list)
                          /\ v.vm_end \in 0..(WORD_SIZE - 1) /\ start < v.vm_end
         /\ v = NoArea => \A u \in ToSet(as.mmap_list) : ~InArea(u, start)
<1> DEFINE bs == WithCache(as, cache)
<1>1. SpaceOk(bs) /\ bs.mmap_list = as.mmap_list
  BY WithCacheOk DEF CacheEntries
<1> HIDE DEF bs
<1>2. v = find_vma(bs, start)
  BY DEF bs
<1>3. /\ v \in CacheEntries(as)
      /\ v # NoArea => InArea(v, start)
      /\ v = NoArea => \A u \in ToSet(as.mmap_list) : ~InArea(u, start)
  BY <1>1, <1>2, FindFacts DEF CacheEntries
<1>4. ASSUME v # NoArea
      PROVE  /\ UserArea(v) /\ v \in ToSet(as.mmap_list)
             /\ v.vm_end \in 0..(WORD_SIZE - 1) /\ start < v.vm_end
  <2>1. v \in ToSet(as.mmap_list)
    BY <1>3, <1>4 DEF CacheEntries
  <2>2. UserArea(v)
    BY <2>1, AreaFacts
  <2>3. v.vm_end \in 0..(WORD_SIZE - 1)
    BY <2>2 DEF UserArea, Area
  <2>4. start < v.vm_end
    BY <1>3, <1>4 DEF InArea
  <2>5. QED
    BY <2>1, <2>2, <2>3, <2>4
<1>5. QED
  BY <1>3, <1>4

(* What a byte of an area may be used for does not depend on the others.   *)
LEMMA AccessInArea ==
  ASSUME NEW as, SpaceOk(as), NEW start \in Nat, NEW v \in ToSet(as.mmap_list), InArea(v, start),
         NEW write \in BOOLEAN
  PROVE  /\ Refused(v, start, write) => ~MayAccess(as, start, write)
         /\ ~Refused(v, start, write) =>
              \A b \in start..(v.vm_end - 1) : MayAccess(as, b, write)
<1>1. UserArea(v) /\ v # NoArea
  BY AreaFacts
<1>2. v.vm_start \in Nat /\ v.vm_end \in Nat /\ PGSIZE \in Nat
  BY <1>1, AreaPages, Sizes
<1>3. ASSUME Refused(v, start, write), MayAccess(as, start, write) PROVE FALSE
  <2>1. PICK u \in ToSet(as.mmap_list) :
          /\ u.vm_start <= start /\ start < u.vm_end
          /\ (IF write THEN "WRITE" ELSE "READ") \in u.vm_flags
          /\ write /\ "STACK" \in u.vm_flags => start >= u.vm_start + PGSIZE
    BY <1>3 DEF MayAccess
  <2>2. UserArea(u)
    BY AreaFacts
  <2>3. InPages(v, PageOf(start)) /\ InPages(u, PageOf(start))
    <3>1. InArea(u, start)
      BY <2>1 DEF InArea
    <3>2. QED
      BY <1>1, <2>2, <3>1, AddrInArea
  <2>4. u = v
    BY <2>3, OneArea
  <2>5. QED
    BY <1>1, <1>2, <1>3, <2>1, <2>4 DEF Refused
<1>4. ASSUME ~Refused(v, start, write), NEW b \in start..(v.vm_end - 1)
      PROVE  MayAccess(as, b, write)
  <2>1. /\ (IF write THEN "WRITE" ELSE "READ") \in v.vm_flags
        /\ ~(write /\ "STACK" \in v.vm_flags /\ start < v.vm_start + PGSIZE)
    BY <1>4 DEF Refused
  <2>2. v.vm_start <= start
    BY DEF InArea
  <2>3. v.vm_start <= b /\ b < v.vm_end /\ b >= start
    BY <1>2, <2>2
  <2>4. write /\ "STACK" \in v.vm_flags => b >= v.vm_start + PGSIZE
    BY <1>2, <2>1, <2>3
  <2>5. QED
    BY <2>1, <2>3, <2>4 DEF MayAccess
<1>5. QED
  BY <1>3, <1>4

(* What one area says about the bytes from start to its end.               *)
AccessKnown(as, v, start, write) ==
  /\ Refused(v, start, write) => ~MayAccess(as, start, write)
  /\ ~Refused(v, start, write) =>
       \A b \in start..(v.vm_end - 1) : MayAccess(as, b, write)

(* It is right about them.                                                 *)
LEMMA IsAccessKnown ==
  ASSUME NEW as, SpaceOk(as), NEW start, start \in Nat, NEW v, v \in ToSet(as.mmap_list), InArea(v, start),
         NEW write \in BOOLEAN
  PROVE  AccessKnown(as, v, start, write)
BY AccessInArea DEF AccessKnown

(* user_mem_check says yes just if every byte may be used, and leaves one  *)
(* of the areas in the cache.                                              *)
Usable(as, start, end, write) == \A b \in start..(end - 1) : MayAccess(as, b, write)

(* A pair is made of its two parts.                                        *)
LEMMA PairFacts ==
  ASSUME NEW A, NEW B, NEW x \in A \X B
  PROVE  x = <<x[1], x[2]>> /\ x[1] \in A /\ x[2] \in B
OBVIOUS

(* Each round is nearer to the end.                                        *)
LEMMA SmallerThan ==
  ASSUME NEW D, NEW stop, NEW next, NEW m, NEW n \in Nat, NEW key,
         \A x \in D : m[x] = n - key[x] /\ key[x] \in Nat,
         \A x \in D : x \notin stop => next[x] \in D /\ key[x] < key[next[x]]
  PROVE  Smaller(D, stop, next, m)
<1> SUFFICES ASSUME NEW x \in D, x \notin stop PROVE next[x] \in D /\ m[next[x]] < m[x]
  BY DEF Smaller
<1>1. next[x] \in D /\ key[x] < key[next[x]]
  OBVIOUS
<1>2. m[next[x]] = n - key[next[x]] /\ m[x] = n - key[x] /\ key[x] \in Nat /\ key[next[x]] \in Nat
  BY <1>1
<1>3. QED
  BY <1>1, <1>2

(* user_mem_check, for a range that does not wrap around.                  *)
LEMMA CheckFacts ==
  ASSUME NEW as, SpaceOk(as), NEW addr \in 0..(WORD_SIZE - 1), NEW len \in 0..(WORD_SIZE - 1),
         NEW write \in BOOLEAN
  PROVE  /\ user_mem_check(as, addr, len, write).cache \in CacheEntries(as)
         /\ user_mem_check(as, addr, len, write).ok \in BOOLEAN
         /\ user_mem_check(as, addr, len, write).ok
              <=> /\ USER_ACCESS(addr, (addr + len) % WORD_SIZE)
                  /\ Usable(as, addr, (addr + len) % WORD_SIZE, write)
<1> DEFINE end == (addr + len) % WORD_SIZE
           B == ToSet(as.mmap_list) \cup {NoArea}
           A == 0..(WORD_SIZE - 1)
           D == A \X B
           W == [ok : BOOLEAN, cache : B]
           found(x) == find_vma(WithCache(as, x[2]), x[1])
           stop == {x \in D : x[1] >= end \/ Refused(found(x), x[1], write)}
           next == [x \in D |-> <<found(x).vm_end, found(x)>>]
           key == [x \in D |-> x[1]]
           m == [x \in D |-> WORD_SIZE - x[1]]
           a == [x \in D |-> IF x[1] >= end THEN [ok |-> TRUE, cache |-> x[2]]
                             ELSE [ok |-> FALSE, cache |-> IF found(x) = NoArea THEN x[2] ELSE found(x)]]
           comb == [y \in D \X W |-> y[2]]
           Rec(g) == g = [at \in (0..(WORD_SIZE - 1)) \X (ToSet(as.mmap_list) \cup {NoArea}) |->
                        LET v == find_vma(WithCache(as, at[2]), at[1])
                        IN  IF at[1] >= end THEN [ok |-> TRUE, cache |-> at[2]]
                            ELSE IF Refused(v, at[1], write)
                                 THEN [ok |-> FALSE, cache |-> IF v = NoArea THEN at[2] ELSE v]
                                 ELSE g[<<v.vm_end, v>>]]
           go == CHOOSE g : Rec(g)
<1>1. user_mem_check(as, addr, len, write)
        = IF USER_ACCESS(addr, end) THEN go[<<addr, as.mmap_cache>>]
          ELSE [ok |-> FALSE, cache |-> as.mmap_cache]
  BY DEF user_mem_check
<1>2. end \in Nat /\ B = CacheEntries(as) /\ as.mmap_cache \in B /\ addr \in A
  <2>1. end \in Nat
    <3>1. addr + len \in Int /\ WORD_SIZE \in Nat \ {0}
      BY Sizes
    <3> HIDE DEF end
    <3>2. (addr + len) % WORD_SIZE \in 0..(WORD_SIZE - 1)
      BY <3>1, DivModFacts
    <3>3. QED
      BY <3>1, <3>2 DEF end
  <2>2. as.mmap_cache \in B
    BY DEF SpaceOk, AreasOk
  <2> HIDE DEF end
  <2>3. QED
    BY <2>1, <2>2 DEF CacheEntries
<1> HIDE DEF end
<1>30. WORD_SIZE \in Nat /\ \A start \in A : start \in Nat /\ start < WORD_SIZE
  BY Sizes
<1>3. ASSUME NEW start \in A, NEW cache \in B
      PROVE  /\ found(<<start, cache>>) \in B
             /\ found(<<start, cache>>) # NoArea =>
                   /\ UserArea(found(<<start, cache>>)) /\ InArea(found(<<start, cache>>), start)
                   /\ found(<<start, cache>>) \in ToSet(as.mmap_list)
                   /\ found(<<start, cache>>).vm_end \in A /\ start < found(<<start, cache>>).vm_end
             /\ found(<<start, cache>>) = NoArea => \A u \in ToSet(as.mmap_list) : ~InArea(u, start)
  <2> DEFINE v == found(<<start, cache>>)
  <2>1. v = find_vma(WithCache(as, cache), start)
    OBVIOUS
  <2>2. start \in Nat /\ cache \in CacheEntries(as)
    BY <1>2, <1>30
  <2> HIDE DEF v, A, B
  <2>3. /\ v \in CacheEntries(as)
        /\ v # NoArea => /\ UserArea(v) /\ InArea(v, start) /\ v \in ToSet(as.mmap_list)
                         /\ v.vm_end \in 0..(WORD_SIZE - 1) /\ start < v.vm_end
        /\ v = NoArea => \A u \in ToSet(as.mmap_list) : ~InArea(u, start)
    BY <2>1, <2>2, FoundAtFacts
  <2>4. QED
    BY <1>2, <2>3 DEF v, A
<1> HIDE DEF found, A, B
<1>4. \A x \in D : x = <<x[1], x[2]>> /\ x[1] \in A /\ x[2] \in B
  BY PairFacts
<1>40. \A y \in A, c \in B : <<y, c>> \in D
  OBVIOUS
<1> HIDE DEF D
<1>50. ASSUME NEW x \in D
       PROVE  /\ found(x) \in B
              /\ found(x) # NoArea => /\ UserArea(found(x)) /\ InArea(found(x), x[1])
                                      /\ found(x) \in ToSet(as.mmap_list)
                                      /\ found(x).vm_end \in A /\ x[1] < found(x).vm_end
              /\ found(x) = NoArea => \A u \in ToSet(as.mmap_list) : ~InArea(u, x[1])
  <2> DEFINE y == x[1]
             c == x[2]
  <2>1. y \in A /\ c \in B /\ x = <<y, c>>
    BY <1>4
  <2>2. x[1] = y
    OBVIOUS
  <2> HIDE DEF y, c
  <2>3. QED
    BY <1>3, <2>1, <2>2
<1>5. ASSUME NEW x \in D, x \notin stop
      PROVE  /\ next[x] \in D /\ next[x] = <<found(x).vm_end, found(x)>>
             /\ x[1] < found(x).vm_end /\ found(x).vm_end \in Nat
             /\ ~Refused(found(x), x[1], write) /\ found(x) # NoArea /\ x[1] < end
             /\ InArea(found(x), x[1]) /\ found(x) \in ToSet(as.mmap_list)
  <2>1. ~(x[1] >= end) /\ ~Refused(found(x), x[1], write) /\ x[1] \in Nat
    BY <1>30, <1>4, <1>5
  <2>2. found(x) # NoArea
    BY <2>1 DEF Refused
  <2>3. /\ found(x) \in B /\ InArea(found(x), x[1]) /\ found(x) \in ToSet(as.mmap_list)
        /\ found(x).vm_end \in A /\ x[1] < found(x).vm_end
    BY <1>50, <2>2
  <2>4. next[x] = <<found(x).vm_end, found(x)>>
    OBVIOUS
  <2> HIDE DEF next, stop
  <2>5. next[x] \in D
    BY <1>40, <2>3, <2>4
  <2>6. x[1] < end /\ found(x).vm_end \in Nat
    <3>1. found(x).vm_end \in Nat
      BY <1>30, <2>3
    <3>2. QED
      BY <1>2, <2>1, <3>1
  <2>7. QED
    BY <2>1, <2>2, <2>3, <2>4, <2>5, <2>6
<1>6. m \in [D -> 0..WORD_SIZE] /\ \A x \in D : m[x] = WORD_SIZE - key[x] /\ key[x] \in Nat /\ key[x] = x[1]
  BY <1>30, <1>4
<1>7. Smaller(D, stop, next, m)
  <2> HIDE DEF next, m, stop, key
  <2>1. ASSUME NEW x \in D, x \notin stop PROVE next[x] \in D /\ key[x] < key[next[x]]
    <3>1. next[x] \in D /\ next[x] = <<found(x).vm_end, found(x)>> /\ x[1] < found(x).vm_end
      BY <1>5, <2>1
    <3>2. key[next[x]] = next[x][1] /\ key[x] = x[1]
      BY <1>6, <3>1
    <3>3. QED
      BY <3>1, <3>2
  <2>2. \A x \in D : m[x] = WORD_SIZE - key[x] /\ key[x] \in Nat
    BY <1>6
  <2>3. QED
    BY <1>30, <2>1, <2>2, SmallerThan
<1>8. Closed(D, W, a, comb)
  <2>1. a \in [D -> W]
    <3>1. ASSUME NEW x \in D
          PROVE  (IF x[1] >= end THEN [ok |-> TRUE, cache |-> x[2]]
                  ELSE [ok |-> FALSE, cache |-> IF found(x) = NoArea THEN x[2] ELSE found(x)]) \in W
      <4>1. x[2] \in B /\ found(x) \in B
        BY <1>50, <1>4
      <4>2. QED
        BY <4>1
    <3> HIDE DEF W
    <3>2. QED
      BY <3>1
  <2>2. ASSUME NEW x \in D, NEW s \in W PROVE comb[<<x, s>>] \in W
    <3> HIDE DEF W
    <3>1. comb[<<x, s>>] = s
      OBVIOUS
    <3>2. QED
      BY <3>1
  <2> HIDE DEF a, comb, W
  <2>3. QED
    BY <2>1, <2>2 DEF Closed
<1>9. PICK f \in [D -> W] : Solves(f, D, stop, next, a, comb)
  <2> HIDE DEF W, stop, next, m, a, comb
  <2>1. WORD_SIZE \in Nat /\ m \in [D -> 0..WORD_SIZE]
    BY <1>30, <1>6
  <2>2. QED
    BY <1>7, <1>8, <2>1, MeasuredRecursion
<1>10. ASSUME NEW x \in D
       PROVE  f[x] = IF x[1] >= end THEN [ok |-> TRUE, cache |-> x[2]]
                     ELSE IF Refused(found(x), x[1], write)
                          THEN [ok |-> FALSE, cache |-> IF found(x) = NoArea THEN x[2] ELSE found(x)]
                          ELSE f[<<found(x).vm_end, found(x)>>]
  <2>1. f[x] = IF x \in stop THEN a[x] ELSE comb[<<x, f[next[x]]>>]
    BY <1>9 DEF Solves
  <2>2. CASE x \in stop
    <3>1. f[x] = a[x]
      BY <2>1, <2>2
    <3>2. a[x] = IF x[1] >= end THEN [ok |-> TRUE, cache |-> x[2]]
                 ELSE [ok |-> FALSE, cache |-> IF found(x) = NoArea THEN x[2] ELSE found(x)]
      OBVIOUS
    <3>3. x[1] >= end \/ Refused(found(x), x[1], write)
      BY <2>2
    <3> HIDE DEF a, stop
    <3>4. QED
      BY <3>1, <3>2, <3>3
  <2>3. CASE x \notin stop
    <3>1. f[x] = comb[<<x, f[next[x]]>>]
      BY <2>1, <2>3
    <3>2. next[x] \in D /\ next[x] = <<found(x).vm_end, found(x)>>
      BY <1>5, <2>3
    <3>3. ~(x[1] >= end) /\ ~Refused(found(x), x[1], write)
      BY <2>3
    <3> HIDE DEF next, stop, a, W
    <3>4. f[next[x]] \in W
      BY <3>2
    <3>5. comb[<<x, f[next[x]]>>] = f[next[x]]
      BY <3>4
    <3> HIDE DEF comb
    <3>6. QED
      BY <3>1, <3>2, <3>3, <3>5
  <2>4. QED
    BY <2>2, <2>3
<1>11. Rec(f)
  <2>1. f \in [(0..(WORD_SIZE - 1)) \X (ToSet(as.mmap_list) \cup {NoArea}) -> W]
    BY <1>9 DEF D, A, B
  <2>2. ASSUME NEW at \in (0..(WORD_SIZE - 1)) \X (ToSet(as.mmap_list) \cup {NoArea})
        PROVE  f[at] = LET v == find_vma(WithCache(as, at[2]), at[1])
                        IN  IF at[1] >= end THEN [ok |-> TRUE, cache |-> at[2]]
                            ELSE IF Refused(v, at[1], write)
                                 THEN [ok |-> FALSE, cache |-> IF v = NoArea THEN at[2] ELSE v]
                                 ELSE f[<<v.vm_end, v>>]
    <3>1. at \in D
      BY DEF D, A, B
    <3>2. QED
      BY <1>10, <3>1 DEF found
  <2> HIDE DEF W
  <2>3. QED
    BY <2>1, <2>2
<1>12. Rec(go)
  <2> HIDE DEF Rec
  <2>1. QED
    BY <1>11
<1> HIDE DEF go
<1>13. ASSUME NEW x \in D
       PROVE  go[x] = IF x[1] >= end THEN [ok |-> TRUE, cache |-> x[2]]
                     ELSE IF Refused(found(x), x[1], write)
                          THEN [ok |-> FALSE, cache |-> IF found(x) = NoArea THEN x[2] ELSE found(x)]
                          ELSE go[<<found(x).vm_end, found(x)>>]
  <2>1. x \in (0..(WORD_SIZE - 1)) \X (ToSet(as.mmap_list) \cup {NoArea})
    BY DEF D, A, B
  <2>2. QED
    BY <1>12, <2>1 DEF found
<1> HIDE DEF Rec
<1> DEFINE Right(x) == /\ go[x].cache \in B /\ go[x].ok \in BOOLEAN
                       /\ go[x].ok <=> Usable(as, x[1], end, write)
           P == {x \in D : Right(x)}
<1>14. Progressive(D, m, P)
  <2> HIDE DEF m, stop, next
  <2> SUFFICES ASSUME NEW x \in D, \A y \in D : m[y] < m[x] => Right(y) PROVE Right(x)
    BY DEF Progressive
  <2> DEFINE k == x[1]
             c == x[2]
             v == found(x)
             y == <<v.vm_end, v>>
  <2>1. k \in Nat /\ c \in B
    BY <1>30, <1>4
  <2>2. go[x] = IF k >= end THEN [ok |-> TRUE, cache |-> c]
                ELSE IF Refused(v, k, write)
                     THEN [ok |-> FALSE, cache |-> IF v = NoArea THEN c ELSE v]
                     ELSE go[y]
    BY <1>13
  <2>3. /\ v \in B
        /\ v # NoArea => InArea(v, k) /\ v \in ToSet(as.mmap_list)
        /\ v = NoArea => \A u \in ToSet(as.mmap_list) : ~InArea(u, k)
    BY <1>50
  <2>4. ASSUME ~(k >= end), ~Refused(v, k, write)
        PROVE  y \in D /\ y[1] = v.vm_end /\ v.vm_end \in Nat /\ k < v.vm_end /\ m[y] < m[x]
    <3>1. x \notin stop
      BY <2>4 DEF stop
    <3>2. next[x] \in D /\ next[x] = y /\ k < v.vm_end /\ v.vm_end \in Nat
      BY <1>5, <3>1
    <3> HIDE DEF k, v
    <3>3. y[1] = v.vm_end
      OBVIOUS
    <3>4. m[y] = WORD_SIZE - y[1] /\ m[x] = WORD_SIZE - k
      BY <1>6, <3>2 DEF k
    <3> HIDE DEF y
    <3>5. QED
      BY <1>30, <2>1, <3>2, <3>3, <3>4
  <2>5. Right(x) <=> /\ go[x].cache \in B /\ go[x].ok \in BOOLEAN
                     /\ go[x].ok <=> Usable(as, k, end, write)
    OBVIOUS
  <2> HIDE DEF k, c, v
  <2>6. CASE k >= end
    <3>1. go[x] = [ok |-> TRUE, cache |-> c]
      BY <2>2, <2>6
    <3>2. k..(end - 1) = {}
      BY <1>2, <2>1, <2>6
    <3>3. Usable(as, k, end, write)
      BY <3>2 DEF Usable
    <3>4. go[x].cache = c /\ go[x].ok = TRUE
      BY <3>1
    <3> HIDE DEF Right
    <3>5. QED
      BY <2>1, <2>5, <3>3, <3>4
  <2>7. CASE ~(k >= end) /\ Refused(v, k, write)
    <3>1. go[x] = [ok |-> FALSE, cache |-> IF v = NoArea THEN c ELSE v]
      BY <2>2, <2>7
    <3>2. go[x].cache \in B /\ go[x].ok = FALSE
      BY <2>1, <2>3, <3>1
    <3>3. ~MayAccess(as, k, write)
      <4>1. CASE v = NoArea
        <5>1. \A u \in ToSet(as.mmap_list) : ~InArea(u, k)
          BY <2>3, <4>1
        <5>2. QED
          BY <5>1 DEF MayAccess, InArea
      <4>2. CASE v # NoArea
        <5>1. InArea(v, k) /\ v \in ToSet(as.mmap_list)
          BY <2>3, <4>2
        <5> HIDE DEF y, Right, P, A, B, W
        <5>2. AccessKnown(as, v, k, write)
          BY <2>1, <5>1, IsAccessKnown
        <5>3. QED
          BY <2>7, <5>2 DEF AccessKnown
      <4>3. QED
        BY <4>1, <4>2
    <3>4. k \in k..(end - 1)
      BY <1>2, <2>1, <2>7
    <3>5. ~Usable(as, k, end, write)
      BY <3>3, <3>4 DEF Usable
    <3> HIDE DEF Right
    <3>6. QED
      BY <2>5, <3>2, <3>5
  <2>8. CASE ~(k >= end) /\ ~Refused(v, k, write)
    <3>1. y \in D /\ y[1] = v.vm_end /\ v.vm_end \in Nat /\ k < v.vm_end /\ m[y] < m[x]
      BY <2>4, <2>8
    <3>2. Right(y)
      BY <3>1
    <3> HIDE DEF y
    <3>3. /\ go[y].cache \in B /\ go[y].ok \in BOOLEAN
          /\ go[y].ok <=> Usable(as, v.vm_end, end, write)
      BY <3>1, <3>2
    <3> HIDE DEF Right
    <3>4. go[x] = go[y]
      BY <2>2, <2>8
    <3>5. v # NoArea
      BY <2>8 DEF Refused
    <3>6. v \in ToSet(as.mmap_list) /\ InArea(v, k)
      BY <2>3, <3>5
    <3>7. \A b \in k..(v.vm_end - 1) : MayAccess(as, b, write)
      <4> HIDE DEF P, A, B, W
      <4>1. AccessKnown(as, v, k, write)
        BY <2>1, <3>6, IsAccessKnown
      <4>2. QED
        BY <2>8, <4>1 DEF AccessKnown
    <3>8. Usable(as, k, end, write) <=> Usable(as, v.vm_end, end, write)
      <4> DEFINE l == v.vm_end
      <4>1. l \in Nat /\ k < l
        BY <3>1
      <4> HIDE DEF l
      <4>2. ASSUME Usable(as, k, end, write) PROVE Usable(as, l, end, write)
        <5>1. \A b \in l..(end - 1) : b \in k..(end - 1)
          BY <1>2, <2>1, <4>1
        <5>2. QED
          BY <4>2, <5>1 DEF Usable
      <4>3. ASSUME Usable(as, l, end, write) PROVE Usable(as, k, end, write)
        <5>1. \A b \in k..(end - 1) : b \in k..(l - 1) \/ b \in l..(end - 1)
          BY <1>2, <2>1, <4>1
        <5>2. \A b \in k..(l - 1) : MayAccess(as, b, write)
          BY <3>7 DEF l
        <5>3. QED
          BY <4>3, <5>1, <5>2 DEF Usable
      <4>4. QED
        BY <4>2, <4>3 DEF l
    <3>9. QED
      BY <2>5, <3>3, <3>4, <3>8
  <2>9. QED
    BY <2>6, <2>7, <2>8
<1>15. D \subseteq P
  <2> HIDE DEF P, m
  <2>1. m \in [D -> 0..WORD_SIZE] /\ WORD_SIZE \in Nat
    BY <1>6, <1>30
  <2>2. QED
    BY <1>14, <2>1, MeasuredInduction
<1>16. CASE USER_ACCESS(addr, end)
  <2> DEFINE x == <<addr, as.mmap_cache>>
  <2>1. x \in D /\ x[1] = addr
    BY <1>2, <1>40
  <2> HIDE DEF x, m, stop, next
  <2>2. /\ go[x].cache \in B /\ go[x].ok \in BOOLEAN
        /\ go[x].ok <=> Usable(as, addr, end, write)
    BY <1>15, <2>1
  <2>3. user_mem_check(as, addr, len, write) = go[x]
    BY <1>1, <1>16 DEF x
  <2> DEFINE r == user_mem_check(as, addr, len, write)
  <2> HIDE DEF r
  <2>4. r.cache \in B /\ r.ok \in BOOLEAN /\ (r.ok <=> Usable(as, addr, end, write))
    BY <2>2, <2>3 DEF r
  <2>5. /\ r.cache \in CacheEntries(as) /\ r.ok \in BOOLEAN
        /\ r.ok <=> USER_ACCESS(addr, end) /\ Usable(as, addr, end, write)
    BY <1>2, <1>16, <2>4
  <2>6. QED
    BY <2>5 DEF r, end
<1>17. CASE ~USER_ACCESS(addr, end)
  <2>1. user_mem_check(as, addr, len, write) = [ok |-> FALSE, cache |-> as.mmap_cache]
    BY <1>1, <1>17
  <2> DEFINE r == user_mem_check(as, addr, len, write)
  <2>2. r.cache = as.mmap_cache /\ r.ok = FALSE
    BY <2>1
  <2> HIDE DEF r
  <2>3. /\ r.cache \in CacheEntries(as) /\ r.ok \in BOOLEAN
        /\ r.ok <=> USER_ACCESS(addr, end) /\ Usable(as, addr, end, write)
    BY <1>2, <1>17, <2>2
  <2>4. QED
    BY <2>3 DEF r, end
<1>18. QED
  BY <1>16, <1>17

-----------------------------------------------------------------------------
(***************************************************************************)
(* The operations on areas.                                                *)
(***************************************************************************)
(* What every operation on the address space of p keeps.                   *)
Live(u, w, p) == Sane(u, {}) /\ Others(u, w, p)

(* Who keeps the areas too keeps this.                                     *)
LEMMA LiveKept ==
  ASSUME NEW u, NEW w, NEW p, Kept(u, w, p) PROVE Live(u, w, p)
BY DEF Kept, Live

(* Doing nothing keeps it.                                                 *)
LEMMA LiveSelf == ASSUME NEW w, Sane(w, {}), NEW p PROVE Live(w, w, p)
BY DEF Live, Others

(* One operation after another keeps it.                                   *)
LEMMA LiveTwice ==
  ASSUME NEW u, NEW v, NEW w, NEW p, Live(u, v, p), Live(v, w, p)
  PROVE  Live(u, w, p)
BY DEF Live, Others, Sane, MmWorld, Spaces

(* Areas, or the cache, are changed and nothing else.                      *)
SamePages(as, bs) == as.pgdir = bs.pgdir /\ as.table = bs.table /\ as.pte = bs.pte

(* Other areas hold no other frames.                                       *)
LEMMA SaneAreas ==
  ASSUME NEW w, Sane(w, {}), NEW p \in Proc, NEW as, SpaceOk(as), SamePages(as, w.mm[p])
  PROVE  SaneChange(Updated(w, p, as, w.free), w, p, as, w.free, {})
<1> DEFINE F == w.free
<1>1. AllOk(w) /\ F \in SUBSET Frame /\ w.mm \in Spaces
  BY DEF Sane, AllOk, MmWorld
<1>2. Holding(Changed(w.mm, p, as)) = Holding(w.mm)
  <2>1. as \in Space /\ as.pgdir = w.mm[p].pgdir /\ as.table = w.mm[p].table /\ as.pte = w.mm[p].pte
    BY DEF SpaceOk, SamePages
  <2>2. QED
    BY <1>1, <2>1, HoldingAreas
<1>3. ExactFrames(Holding(Changed(w.mm, p, as)), F \cup {})
  BY <1>2 DEF Sane
<1> HIDE DEF F
<1>4. {} \cap F = {}
  OBVIOUS
<1>5. Fits(w, p, as, F, {})
  BY <1>1, <1>3, <1>4 DEF Fits
<1>6. SaneChange(Updated(w, p, as, F), w, p, as, F, {})
  BY <1>5, SaneUpdated
<1>7. QED
  BY <1>6 DEF F

(* One call of kmalloc.                                                    *)
Kmallocs(w) == [w EXCEPT !.kmallocs = @ - 1]

(* It takes no frame of the ones that are counted here.                    *)
LEMMA KmallocsFacts ==
  ASSUME NEW w, Sane(w, {}), w.kmallocs # 0
  PROVE  /\ Sane(Kmallocs(w), {}) /\ Kmallocs(w).mm = w.mm
         /\ (Stopped(Kmallocs(w)) <=> Stopped(w))
<1> DEFINE u == Kmallocs(w)
<1>1. w \in MmWorld /\ w.kmallocs \in Nat
  BY DEF Sane, MmWorld
<1>2. /\ u \in MmWorld /\ u.mm = w.mm /\ u.free = w.free
      /\ u.panicked = w.panicked /\ u.ret = w.ret
  <2>1. w.kmallocs - 1 \in Nat
    BY <1>1
  <2>2. QED
    BY <1>1, <2>1 DEF Kmallocs, MmWorld
<1> HIDE DEF u
<1>3. SameFrames(u, w)
  BY <1>2 DEF SameFrames
<1>4. Sane(u, {})
  BY <1>3, SaneSame
<1>5. QED
  BY <1>2, <1>4 DEF u, Stopped

(* insert_vma_struct of an area that mm_map made, or that was copied.      *)
Grown(u, w, p, x) ==
  /\ Live(u, w, p)
  /\ ~Stopped(u) => x \in ToSet(u.mm[p].mmap_list)

(* The area is put between its neighbours, or the assertions on them fail. *)
LEMMA InsertVmaFacts ==
  ASSUME NEW w, Sane(w, {}), NEW p \in Proc, NEW x, UserArea(x)
  PROVE  Grown(insert_vma_struct(w, p, x), w, p, x)
<1> DEFINE list == w.mm[p].mmap_list
           i == PlaceOf(list, x)
           u == insert_vma_struct(w, p, x)
           bad == \/ i > 0 /\ list[i].vm_end > x.vm_start
                  \/ i < Len(list) /\ x.vm_end > list[i + 1].vm_start
           new == InsertAt(list, i + 1, x)
           as == WithList(w.mm[p], new)
<1>1. u = IF bad THEN Panics(w) ELSE [w EXCEPT !.mm[p].mmap_list = new]
  BY DEF insert_vma_struct
<1>2. SpaceOk(w.mm[p]) /\ w.mm[p] \in Space /\ list \in Seq(Area) /\ w \in MmWorld
  BY DEF Sane, SpaceOk, Space
<1>3. i \in 0..Len(list)
  BY <1>2, PlaceOfFacts
<1> HIDE DEF u
<1>4. CASE bad
  <2>1. u = Panics(w)
    BY <1>1, <1>4
  <2>2. Sane(Panics(w), {}) /\ Panics(w).mm = w.mm /\ Panics(w).panicked
    BY SanePanics
  <2>3. Sane(u, {}) /\ u.mm = w.mm /\ Stopped(u)
    BY <2>1, <2>2 DEF Stopped
  <2>4. QED
    BY <2>3 DEF Grown, Live, Others, u
<1>5. CASE ~bad
  <2>1. u = Updated(w, p, as, w.free)
    <3>1. u = [w EXCEPT !.mm[p].mmap_list = new]
      BY <1>1, <1>5
    <3> HIDE DEF new
    <3>2. w.free = w.free
      OBVIOUS
    <3>3. QED
      BY <1>2, <3>1 DEF Updated, Changed, WithList, MmWorld
  <2>2. i > 0 => list[i].vm_end <= x.vm_start
    <3>1. ASSUME i > 0 PROVE list[i].vm_end <= x.vm_start
      <4>1. list[i] \in Area /\ x \in Area
        BY <1>2, <1>3, <3>1, ElementOfSeq DEF UserArea
      <4>2. list[i].vm_end \in Int /\ x.vm_start \in Int
        BY <4>1, Sizes DEF Area
      <4>3. QED
        BY <1>5, <3>1, <4>2
    <3>2. QED
      BY <3>1
  <2>3. i < Len(list) => x.vm_end <= list[i + 1].vm_start
    <3>1. ASSUME i < Len(list) PROVE x.vm_end <= list[i + 1].vm_start
      <4>0. i + 1 \in 1..Len(list)
        BY <1>2, <1>3, <3>1, LenProperties
      <4>1. list[i + 1] \in Area /\ x \in Area
        BY <1>2, <4>0, ElementOfSeq DEF UserArea
      <4>2. list[i + 1].vm_start \in Int /\ x.vm_end \in Int
        BY <4>1, Sizes DEF Area
      <4>3. QED
        BY <1>5, <3>1, <4>2
    <3>2. QED
      BY <3>1
  <2>4. /\ SpaceOk(as) /\ x \in ToSet(as.mmap_list)
        /\ as.pgdir = w.mm[p].pgdir /\ as.table = w.mm[p].table /\ as.pte = w.mm[p].pte
    <3> DEFINE bs == w.mm[p]
    <3>1. SpaceOk(bs) /\ i \in 0..Len(bs.mmap_list)
      BY <1>2, <1>3
    <3>2. /\ i > 0 => bs.mmap_list[i].vm_end <= x.vm_start
          /\ i < Len(bs.mmap_list) => x.vm_end <= bs.mmap_list[i + 1].vm_start
          /\ as = WithList(bs, InsertAt(bs.mmap_list, i + 1, x))
      BY <2>2, <2>3
    <3> HIDE DEF i, as, list, bs
    <3>3. /\ SpaceOk(as) /\ x \in ToSet(as.mmap_list)
          /\ as.pgdir = bs.pgdir /\ as.table = bs.table /\ as.pte = bs.pte
      BY <3>1, <3>2, InsertOk
    <3>4. QED
      BY <3>3 DEF bs
  <2> HIDE DEF as
  <2>5. SaneChange(u, w, p, as, w.free, {})
    <3>1. SamePages(as, w.mm[p])
      BY <2>4 DEF SamePages
    <3>2. QED
      BY <2>1, <2>4, <3>1, SaneAreas
  <2>6. QED
    BY <2>4, <2>5 DEF SaneChange, Grown, Live, u
<1>6. QED
  BY <1>4, <1>5

(* vma_create and insert_vma_struct.                                       *)
LEMMA AddsAreaFacts ==
  ASSUME NEW w, Sane(w, {}), NEW p \in Proc, NEW x, UserArea(x)
  PROVE  Grown(AddsArea(w, p, x), w, p, x)
<1> DEFINE u == AddsArea(w, p, x)
           w1 == Kmallocs(w)
<1>1. CASE w.kmallocs = 0
  <2>1. u = NoMemory(w)
    BY <1>1 DEF AddsArea
  <2> HIDE DEF u
  <2>2. Kept(NoMemory(w), w, p) /\ Stopped(NoMemory(w))
    BY KeptNoMemory
  <2>3. QED
    BY <2>1, <2>2, LiveKept DEF Grown, u
<1>2. CASE w.kmallocs # 0
  <2>1. u = insert_vma_struct(w1, p, x)
    BY <1>2 DEF AddsArea, Kmallocs
  <2>2. Sane(w1, {}) /\ w1.mm = w.mm
    BY <1>2, KmallocsFacts
  <2> HIDE DEF u, w1
  <2>3. Grown(u, w1, p, x)
    BY <2>1, <2>2, InsertVmaFacts
  <2>4. QED
    BY <2>2, <2>3 DEF Grown, Live, Others, u
<1>3. QED
  BY <1>1, <1>2

-----------------------------------------------------------------------------
(* Rounding.                                                               *)
LEMMA RoundDownFacts ==
  ASSUME NEW a \in Nat
  PROVE  /\ ROUNDDOWN(a, PGSIZE) \in Nat /\ ROUNDDOWN(a, PGSIZE) % PGSIZE = 0
         /\ PageOf(ROUNDDOWN(a, PGSIZE)) = PageOf(a) /\ PageOf(a) \in Nat
         /\ a = ROUNDDOWN(a, PGSIZE) + (a % PGSIZE) /\ a % PGSIZE \in 0..(PGSIZE - 1)
<1> DEFINE q == a \div PGSIZE
<1>1. PGSIZE \in Nat \ {0} /\ a \in Int
  BY Sizes
<1>2. q \in Int /\ a % PGSIZE \in 0..(PGSIZE - 1) /\ a = PGSIZE * q + (a % PGSIZE)
  BY <1>1, DivModFacts
<1>3. q \in Nat
  BY <1>1
<1> HIDE DEF q
<1>4. q * PGSIZE = PGSIZE * q /\ PGSIZE * q \in Nat
  BY <1>1, <1>3
<1>5. (PGSIZE * q) \div PGSIZE = q /\ (PGSIZE * q) % PGSIZE = 0
  BY <1>1, <1>2, DivExact
<1>6. ROUNDDOWN(a, PGSIZE) = PGSIZE * q
  BY <1>4 DEF ROUNDDOWN, q
<1> DEFINE z == PGSIZE * q
<1>7. z \in Nat /\ z % PGSIZE = 0 /\ z \div PGSIZE = q /\ a = z + (a % PGSIZE)
  BY <1>2, <1>4, <1>5
<1> HIDE DEF z
<1>8. ROUNDDOWN(a, PGSIZE) = z /\ PageOf(a) = q
  BY <1>6 DEF z, q, PageOf
<1>9. QED
  BY <1>2, <1>3, <1>7, <1>8 DEF PageOf

(* A multiple of PGSIZE remains one when it wraps around.                  *)
LEMMA RoundUpFacts ==
  ASSUME NEW a \in Nat
  PROVE  \E e \in Nat : /\ ROUNDUP(a, PGSIZE) = e % WORD_SIZE /\ e % PGSIZE = 0
                        /\ a <= e /\ e < a + PGSIZE
                        /\ e % WORD_SIZE \in 0..(WORD_SIZE - 1)
                        /\ (e % WORD_SIZE) % PGSIZE = 0
<1> DEFINE b == a + PGSIZE - 1
           e == ROUNDDOWN(b, PGSIZE)
<1>1. PGSIZE \in Nat \ {0} /\ WORD_SIZE \in Nat \ {0} /\ b \in Nat
  BY Sizes
<1>2. e \in Nat /\ e % PGSIZE = 0 /\ b = e + (b % PGSIZE) /\ b % PGSIZE \in 0..(PGSIZE - 1)
  BY <1>1, RoundDownFacts
<1>3. ROUNDUP(a, PGSIZE) = e % WORD_SIZE
  BY DEF ROUNDUP
<1> HIDE DEF e
<1>4. a <= e /\ e < a + PGSIZE
  BY <1>1, <1>2
<1>5. e % WORD_SIZE \in 0..(WORD_SIZE - 1)
  <2>1. e \in Int
    BY <1>2
  <2>2. QED
    BY <1>1, <2>1, DivModFacts
<1>6. (e % WORD_SIZE) % PGSIZE = 0
  <2> DEFINE r == e % WORD_SIZE
             k == e \div WORD_SIZE
             c == WORD_SIZE \div PGSIZE
             d == e \div PGSIZE
  <2>1. k \in Int /\ r \in Int /\ e = WORD_SIZE * k + r
    <3>1. e \in Int
      BY <1>2
    <3>2. QED
      BY <1>1, <3>1, DivModFacts
  <2>2. c \in Int /\ WORD_SIZE = PGSIZE * c
    <3>1. WORD_SIZE % PGSIZE = 0
      BY AddrSpaceAssumption
    <3>2. c \in Int /\ WORD_SIZE = PGSIZE * c + (WORD_SIZE % PGSIZE)
      BY <1>1, DivModFacts
    <3> HIDE DEF c
    <3>3. PGSIZE * c \in Int
      BY <1>1, <3>2
    <3>4. QED
      BY <3>1, <3>2, <3>3
  <2>3. d \in Int /\ e = PGSIZE * d
    <3>1. e \in Int
      BY <1>2
    <3>2. d \in Int /\ e = PGSIZE * d + (e % PGSIZE)
      BY <1>1, <3>1, DivModFacts
    <3> HIDE DEF d
    <3>3. PGSIZE * d \in Int
      BY <1>1, <3>2
    <3>4. QED
      BY <1>2, <3>2, <3>3
  <2> HIDE DEF r, k, c, d
  <2>4. r = PGSIZE * (d - c * k)
    BY <1>1, <2>1, <2>2, <2>3
  <2>5. (PGSIZE * (d - c * k)) % PGSIZE = 0
    <3>1. d - c * k \in Int
      BY <2>1, <2>2, <2>3
    <3>2. QED
      BY <1>1, <3>1, DivExact
  <2>6. QED
    BY <2>4, <2>5 DEF r
<1>7. QED
  BY <1>2, <1>3, <1>4, <1>5, <1>6

(* mm_map: the area that it makes, if it can.                              *)
NewArea(addr, len, flags) ==
  [vm_start |-> ROUNDDOWN(addr, PGSIZE), vm_end |-> ROUNDUP(addr + len, PGSIZE), vm_flags |-> flags]

(* It is a right area if USER_ACCESS allows it.                            *)
LEMMA NewAreaFacts ==
  ASSUME NEW addr \in 0..(WORD_SIZE - 1), NEW len \in Nat,
         NEW flags \in SUBSET {"READ", "WRITE", "EXEC", "STACK"},
         USER_ACCESS(ROUNDDOWN(addr, PGSIZE), ROUNDUP(addr + len, PGSIZE))
  PROVE  UserArea(NewArea(addr, len, flags))
<1> DEFINE start == ROUNDDOWN(addr, PGSIZE)
           end == ROUNDUP(addr + len, PGSIZE)
           x == NewArea(addr, len, flags)
<1>1. addr \in Nat /\ addr + len \in Nat /\ WORD_SIZE \in Nat \ {0} /\ USERTOP \in Nat /\ USERTOP < WORD_SIZE
  BY Sizes
<1>2. start \in Nat /\ start % PGSIZE = 0
  BY <1>1, RoundDownFacts
<1>3. end \in 0..(WORD_SIZE - 1) /\ end % PGSIZE = 0
  BY <1>1, RoundUpFacts
<1>4. USER_ACCESS(start, end)
  OBVIOUS
<1>5. x.vm_start = start /\ x.vm_end = end /\ x = [vm_start |-> start, vm_end |-> end, vm_flags |-> flags]
  BY DEF NewArea
<1> HIDE DEF start, end, x
<1>6. start \in 0..(WORD_SIZE - 1)
  BY <1>1, <1>2, <1>3, <1>4 DEF USER_ACCESS
<1>7. x \in Area
  BY <1>3, <1>5, <1>6 DEF Area
<1>8. UserArea(x)
  BY <1>2, <1>3, <1>4, <1>5, <1>7 DEF UserArea
<1>9. QED
  BY <1>8 DEF x

(* What mm_map leaves.                                                     *)
Mapped(u, w, p, x) ==
  /\ Live(u, w, p)
  /\ ~Stopped(u) => UserArea(x) /\ x \in ToSet(u.mm[p].mmap_list)

(* mm_map leaves a sane world with the area in the list, or stops.         *)
LEMMA MmMapFacts ==
  ASSUME NEW w, Sane(w, {}), NEW p \in Proc, NEW addr \in 0..(WORD_SIZE - 1), NEW len \in Nat,
         NEW flags \in SUBSET {"READ", "WRITE", "EXEC", "STACK"}
  PROVE  Mapped(mm_map(w, p, addr, len, flags), w, p, NewArea(addr, len, flags))
<1> DEFINE start == ROUNDDOWN(addr, PGSIZE)
           end == ROUNDUP(addr + len, PGSIZE)
           v == find_vma(w.mm[p], start)
           x == NewArea(addr, len, flags)
           u == mm_map(w, p, addr, len, flags)
<1>1. u = IF ~USER_ACCESS(start, end) THEN Fails(w, "-E_INVAL")
          ELSE IF v # NoArea THEN Fails([w EXCEPT !.mm[p] = Cached(@, v)], "-E_INVAL")
          ELSE AddsArea(w, p, x)
  BY DEF mm_map, NewArea
<1>2. start \in Nat
  <2>1. addr \in Nat
    BY Sizes
  <2>2. QED
    BY <2>1, RoundDownFacts
<1>3. USER_ACCESS(start, end) => UserArea(x)
  BY NewAreaFacts
<1>4. SpaceOk(w.mm[p]) /\ w \in MmWorld
  BY DEF Sane
<1> HIDE DEF u, start, end, x
<1>5. CASE ~USER_ACCESS(start, end)
  <2>1. u = Fails(w, "-E_INVAL") /\ "-E_INVAL" \in Code
    BY <1>1, <1>5 DEF Code
  <2>2. Kept(u, w, p) /\ u.ret = "-E_INVAL"
    BY <2>1, KeptFails
  <2>3. Stopped(u)
    BY <2>2 DEF Stopped
  <2>4. QED
    BY <2>2, <2>3, LiveKept DEF Mapped, u, x
<1>6. CASE USER_ACCESS(start, end) /\ v # NoArea
  <2> DEFINE as == Cached(w.mm[p], v)
             w1 == Updated(w, p, as, w.free)
  <2>1. u = Fails(w1, "-E_INVAL") /\ "-E_INVAL" \in Code
    <3>1. u = Fails([w EXCEPT !.mm[p] = as], "-E_INVAL")
      BY <1>1, <1>6
    <3> HIDE DEF as
    <3>2. [w EXCEPT !.mm[p] = as] = w1
      BY <1>4 DEF Updated, Changed, MmWorld
    <3>3. QED
      BY <3>1, <3>2 DEF Code
  <2>2. SpaceOk(as) /\ SamePages(as, w.mm[p])
    <3> DEFINE bs == w.mm[p]
    <3>1. v \in ToSet(bs.mmap_list) \cup {NoArea}
      BY <1>2, <1>4, FindFacts
    <3> HIDE DEF v, bs
    <3>2. \A cs : cs = Cached(bs, v) => /\ SpaceOk(cs) /\ cs.mmap_list = bs.mmap_list
                                        /\ cs.pgdir = bs.pgdir /\ cs.table = bs.table /\ cs.pte = bs.pte
      BY <1>4, <3>1, CachedOk DEF bs
    <3>3. as = Cached(bs, v)
      BY DEF bs
    <3> HIDE DEF as
    <3>4. QED
      BY <3>2, <3>3 DEF SamePages, bs
  <2> HIDE DEF as
  <2>3. SaneChange(w1, w, p, as, w.free, {})
    BY <2>2, SaneAreas
  <2> HIDE DEF w1
  <2>4. Sane(w1, {}) /\ Live(w1, w, p)
    BY <2>3 DEF SaneChange, Live
  <2>5. Kept(u, w1, p) /\ u.ret = "-E_INVAL"
    BY <2>1, <2>4, KeptFails
  <2>6. Live(u, w, p)
    BY <2>4, <2>5, LiveKept, LiveTwice
  <2>7. Stopped(u)
    BY <2>5 DEF Stopped
  <2>8. QED
    BY <2>6, <2>7 DEF Mapped, u, x
<1>7. CASE USER_ACCESS(start, end) /\ v = NoArea
  <2>1. u = AddsArea(w, p, x) /\ UserArea(x)
    BY <1>1, <1>3, <1>7
  <2>2. Grown(u, w, p, x)
    BY <2>1, AddsAreaFacts
  <2>3. QED
    BY <2>1, <2>2 DEF Mapped, Grown, u, x
<1>8. QED
  BY <1>5, <1>6, <1>7

(* The area covers what was asked for.                                     *)
LEMMA MultMonotone ==
  ASSUME NEW n \in Nat \ {0}, NEW a \in Int, NEW b \in Int
  PROVE  n * a <= n * b <=> a <= b
<1>1. ASSUME a <= b PROVE n * a <= n * b
  BY <1>1
<1>2. ASSUME n * a <= n * b PROVE a <= b
  <2>1. (n * a) \div n = a /\ (n * b) \div n = b
    BY DivExact
  <2>2. n * a \in Int /\ n * b \in Int
    OBVIOUS
  <2> DEFINE c == n * a
             d == n * b
  <2>3. c \in Int /\ d \in Int /\ c <= d /\ c \div n = a /\ d \div n = b
    BY <1>2, <2>1, <2>2
  <2> HIDE DEF c, d
  <2>4. c \div n <= d \div n
    BY <2>3, DivMonotone
  <2>5. QED
    BY <2>3, <2>4
<1>3. QED
  BY <1>1, <1>2

(* The area that mm_map makes covers the range that was asked for.         *)
LEMMA AreaCovers ==
  ASSUME NEW addr \in 0..(WORD_SIZE - 1), NEW len \in Nat, len + (addr % PGSIZE) <= WORD_SIZE,
         NEW flags, UserArea(NewArea(addr, len, flags))
  PROVE  /\ NewArea(addr, len, flags).vm_start <= addr
         /\ addr + len <= NewArea(addr, len, flags).vm_end
<1> DEFINE x == NewArea(addr, len, flags)
           z == ROUNDDOWN(addr, PGSIZE)
           a == addr + len
           end == ROUNDUP(a, PGSIZE)
           W == WORD_SIZE
           r == addr % PGSIZE
<1>1. addr \in Nat /\ a \in Nat /\ W \in Nat \ {0} /\ PGSIZE \in Nat \ {0}
  BY Sizes
<1>2. /\ z \in Nat /\ z % PGSIZE = 0 /\ addr = z + r /\ r \in 0..(PGSIZE - 1)
  BY <1>1, RoundDownFacts
<1>3. PICK e \in Nat : /\ end = e % W /\ e % PGSIZE = 0 /\ a <= e /\ e < a + PGSIZE
                       /\ e % W \in 0..(W - 1)
  <2> HIDE DEF a
  <2>1. QED
    BY <1>1, RoundUpFacts DEF W
<1>4. x.vm_start = z /\ x.vm_end = end
  BY DEF NewArea
<1>5. z < end
  BY <1>4 DEF UserArea, USER_ACCESS
<1> HIDE DEF x, z, end, r
<1>6. e <= z + W
  <2> DEFINE d == e \div PGSIZE
             c == (z + W) \div PGSIZE
  <2>1. d \in Int /\ e = PGSIZE * d
    <3>1. e \in Int
      BY <1>3
    <3>2. d \in Int /\ e = PGSIZE * d + (e % PGSIZE)
      BY <1>1, <3>1, DivModFacts
    <3> HIDE DEF d
    <3>3. PGSIZE * d \in Int
      BY <1>1, <3>2
    <3>4. QED
      BY <1>3, <3>2, <3>3
  <2>2. PICK y \in Int : z = PGSIZE * y
    <3>1. z \div PGSIZE \in Int /\ z = PGSIZE * (z \div PGSIZE) + (z % PGSIZE)
      BY <1>1, <1>2, DivModFacts
    <3> DEFINE q == z \div PGSIZE
    <3>2. q \in Int /\ z = PGSIZE * q + (z % PGSIZE)
      BY <3>1
    <3> HIDE DEF q
    <3>3. PGSIZE * q \in Int
      BY <1>1, <3>2
    <3>4. z = PGSIZE * q
      BY <1>2, <3>2, <3>3
    <3>5. QED
      BY <3>2, <3>4
  <2>3. PICK u \in Int : W = PGSIZE * u
    <3>0. W % PGSIZE = 0
      BY AddrSpaceAssumption
    <3>1. W \div PGSIZE \in Int /\ W = PGSIZE * (W \div PGSIZE) + (W % PGSIZE)
      BY <1>1, DivModFacts
    <3> DEFINE q == W \div PGSIZE
    <3>2. q \in Int /\ W = PGSIZE * q + (W % PGSIZE)
      BY <3>1
    <3> HIDE DEF q, W
    <3>3. PGSIZE * q \in Int
      BY <1>1, <3>2
    <3>4. W = PGSIZE * q
      BY <3>0, <3>2, <3>3
    <3>5. QED
      BY <3>2, <3>4
  <2> HIDE DEF d, c, W
  <2>4. e < z + W + PGSIZE
    BY <1>1, <1>2, <1>3 DEF W, r, a
  <2>5. PGSIZE * d < PGSIZE * y + PGSIZE * u + PGSIZE
    BY <2>1, <2>2, <2>3, <2>4
  <2>6. PGSIZE * (y + u + 1) = PGSIZE * y + PGSIZE * u + PGSIZE
    BY <1>1, <2>2, <2>3
  <2>7. ~(PGSIZE * (y + u + 1) <= PGSIZE * d)
    <3>1. PGSIZE * d \in Int /\ PGSIZE * y \in Int /\ PGSIZE * u \in Int
      BY <1>1, <2>1, <2>2, <2>3
    <3>2. QED
      BY <1>1, <2>5, <2>6, <3>1
  <2>8. ~(y + u + 1 <= d)
    <3>1. y + u + 1 \in Int
      BY <2>2, <2>3
    <3>2. QED
      BY <1>1, <2>1, <2>7, <3>1, MultMonotone
  <2>9. d <= y + u
    BY <2>1, <2>2, <2>3, <2>8
  <2>10. PGSIZE * d <= PGSIZE * (y + u)
    <3>1. y + u \in Int
      BY <2>2, <2>3
    <3>2. QED
      BY <1>1, <2>1, <2>9, <3>1, MultMonotone
  <2>11. PGSIZE * (y + u) = z + W
    BY <1>1, <2>2, <2>3
  <2>12. QED
    BY <2>1, <2>10, <2>11
<1>7. e \div W = 0 /\ e = end
  <2> DEFINE k == e \div W
  <2>1. k \in Int /\ e = W * k + end
    <3>1. e \in Int
      BY <1>3
    <3>2. k \in Int /\ e = W * k + (e % W)
      BY <1>1, <3>1, DivModFacts
    <3> HIDE DEF k
    <3>3. QED
      BY <1>3, <3>2
  <2> HIDE DEF k, W, a
  <2>2. W * k \in Int /\ end \in Int
    BY <1>1, <1>3, <2>1
  <2>3. k < 1
    <3>1. ASSUME 1 <= k PROVE FALSE
      <4>1. W * 1 <= W * k
        BY <1>1, <2>1, <3>1, MultMonotone
      <4>2. W <= W * k
        BY <1>1, <4>1
      <4>3. QED
        BY <1>1, <1>2, <1>5, <1>6, <2>1, <2>2, <4>2
    <3>2. QED
      BY <2>1, <3>1
  <2>4. k > -1
    <3>1. ASSUME k <= -1 PROVE FALSE
      <4>1. W * k <= W * (-1)
        BY <1>1, <2>1, <3>1, MultMonotone
      <4>2. W * k <= -W
        BY <1>1, <4>1
      <4>3. end < W /\ e >= 0
        BY <1>1, <1>3
      <4> DEFINE wk == W * k
      <4>4. wk \in Int /\ e = wk + end /\ wk <= -W
        BY <2>1, <2>2, <4>2
      <4> HIDE DEF wk
      <4>5. QED
        BY <1>1, <2>2, <4>3, <4>4
    <3>2. QED
      BY <2>1, <3>1
  <2>5. k = 0
    BY <2>1, <2>3, <2>4
  <2>6. QED
    BY <1>1, <2>1, <2>2, <2>5 DEF k
<1>8. x.vm_start <= addr /\ a <= x.vm_end
  BY <1>1, <1>2, <1>3, <1>4, <1>7
<1>9. QED
  BY <1>8 DEF x

(* The pages that are mapped lie in the area.                              *)
LEMMA BetweenPages ==
  ASSUME NEW x, UserArea(x), NEW a \in Nat, NEW b \in Nat, x.vm_start <= a, a <= b, b < x.vm_end,
         NEW la \in PageOf(a)..PageOf(b)
  PROVE  InPages(x, la)
<1>1. x.vm_start \in Nat /\ x.vm_end \in Nat
  BY AreaPages
<1>2. InArea(x, a) /\ InArea(x, b)
  BY <1>1 DEF InArea
<1>3. InPages(x, PageOf(a)) /\ InPages(x, PageOf(b)) /\ PageOf(a) \in Nat /\ PageOf(b) \in Nat
  BY <1>2, AddrInArea
<1>4. PageOf(x.vm_start) \in Nat /\ PageOf(x.vm_end) \in Nat
  BY AreaPages
<1> DEFINE s == PageOf(x.vm_start)
           t == PageOf(x.vm_end)
           i == PageOf(a)
           j == PageOf(b)
<1>5. s \in Nat /\ t \in Nat /\ i \in s..(t - 1) /\ j \in s..(t - 1) /\ la \in i..j
  BY <1>3, <1>4 DEF InPages
<1> HIDE DEF s, t, i, j
<1>6. la \in s..(t - 1)
  BY <1>5
<1>7. QED
  BY <1>6 DEF InPages, s, t

(* The pages of a segment lie in its area.                                 *)
LEMMA SegmentCovered ==
  ASSUME NEW va \in 0..(WORD_SIZE - 1), NEW memsz \in Nat \ {0}, memsz + (va % PGSIZE) <= WORD_SIZE,
         NEW ph, ph.va = va, ph.memsz = memsz,
         NEW flags, NEW x, x = NewArea(va, memsz, flags), UserArea(x)
  PROVE  /\ SegmentPages(ph) \in Seq(Nat)
         /\ \A la \in ToSet(SegmentPages(ph)) : InPages(x, la)
<1> DEFINE a == va
           b == va + memsz - 1
           i == PageOf(a)
           n == PageOf(b) - PageOf(a) + 1
           s == SegmentPages(ph)
<1>1. a \in Nat /\ b \in Nat /\ a <= b /\ memsz \in Nat
  BY Sizes
<1>2. x.vm_start <= a /\ b < x.vm_end
  <2>1. x.vm_start <= va /\ va + memsz <= x.vm_end
    BY AreaCovers
  <2>2. x.vm_start \in Nat /\ x.vm_end \in Nat
    BY AreaPages
  <2>3. QED
    BY <1>1, <2>1, <2>2
<1>3. s = [k \in 1..n |-> i + k - 1]
  BY DEF SegmentPages
<1> HIDE DEF a, b, s
<1>4. PageOf(a) \in Nat /\ PageOf(b) \in Nat /\ PageOf(a) <= PageOf(b)
  <2>1. PageOf(a) \in Nat /\ PageOf(b) \in Nat
    BY <1>1, AddrInArea
  <2>2. a \div PGSIZE <= b \div PGSIZE
    BY <1>1, Sizes, DivMonotone
  <2>3. QED
    BY <2>1, <2>2 DEF PageOf
<1> DEFINE j == PageOf(b)
<1>5. i \in Nat /\ j \in Nat /\ i <= j /\ n = j - i + 1
  BY <1>4
<1> HIDE DEF i, j, n
<1>6. n \in Nat /\ \A k \in 1..n : i + k - 1 \in Nat /\ i + k - 1 \in i..j
  BY <1>5
<1>7. s \in Seq(Nat) /\ Len(s) = n /\ \A k \in 1..n : s[k] = i + k - 1
  BY <1>3, <1>6
<1>8. ASSUME NEW la \in ToSet(s) PROVE InPages(x, la)
  <2>1. PICK k \in 1..n : s[k] = la
    BY <1>7, ListSet
  <2>2. la \in PageOf(a)..PageOf(b)
    BY <1>6, <1>7, <2>1 DEF i, j
  <2>3. QED
    BY <1>1, <1>2, <2>2, BetweenPages
<1>9. QED
  BY <1>7, <1>8 DEF s

(* The stack is as large as it is meant to be.                             *)
LEMMA StackCovered ==
  ASSUME NEW flags, NEW x, x = NewArea(USERTOP - USTACKSIZE, USTACKSIZE, flags), UserArea(x)
  PROVE  /\ StackTop \in Seq(Nat)
         /\ \A la \in ToSet(StackTop) : InPages(x, la)
<1> DEFINE va == USERTOP - USTACKSIZE
           top == PageOf(USERTOP)
           s == StackTop
<1>1. /\ USERTOP \in Nat /\ USTACKSIZE \in Nat \ {0} /\ USERTOP < WORD_SIZE /\ PGSIZE \in Nat \ {0}
      /\ WORD_SIZE \in Nat /\ StackPages \in Nat
  BY Sizes
<1>2. va \in Nat /\ va \in 0..(WORD_SIZE - 1) /\ va + USTACKSIZE = USERTOP
  <2>1. USERBASE + USTACKSIZE <= USERTOP /\ USERBASE \in Nat
    BY Sizes, AddrSpaceAssumption
  <2>2. QED
    BY <1>1, <2>1
<1>3. top \in Nat /\ PGSIZE * top = USERTOP
  BY UserPage
<1>4. x.vm_start <= va /\ USERTOP <= x.vm_end
  <2>1. va % PGSIZE <= va
    <3>1. va % PGSIZE \in 0..(PGSIZE - 1) /\ va = ROUNDDOWN(va, PGSIZE) + (va % PGSIZE) /\ ROUNDDOWN(va, PGSIZE) \in Nat
      BY <1>2, RoundDownFacts
    <3>2. QED
      BY <1>1, <3>1
  <2>2. USTACKSIZE + (va % PGSIZE) <= WORD_SIZE
    <3>1. va % PGSIZE \in 0..(PGSIZE - 1)
      BY <1>2, RoundDownFacts
    <3> DEFINE r == va % PGSIZE
    <3>2. r \in Nat /\ r <= va
      BY <1>1, <2>1, <3>1
    <3> HIDE DEF r, va
    <3>3. USTACKSIZE + r <= WORD_SIZE
      BY <1>1, <1>2, <3>2
    <3>4. QED
      BY <3>3 DEF r
  <2>3. USTACKSIZE \in Nat /\ x = NewArea(va, USTACKSIZE, flags)
    BY <1>1
  <2> HIDE DEF va
  <2>4. x.vm_start <= va /\ va + USTACKSIZE <= x.vm_end
    BY <1>2, <2>2, <2>3, AreaCovers
  <2>5. QED
    BY <1>2, <2>4
<1> DEFINE i == PageOf(x.vm_start)
           j == PageOf(x.vm_end)
<1>5. /\ i \in Nat /\ j \in Nat /\ PGSIZE * i = x.vm_start /\ PGSIZE * j = x.vm_end
      /\ x.vm_start \in Nat /\ x.vm_end \in Nat
  BY AreaPages
<1>6. s = [k \in 1..StackPages |-> top - k]
  BY DEF StackTop
<1> HIDE DEF va, top, s, i, j
<1>7. top <= j
  <2>1. PGSIZE * top <= PGSIZE * j
    BY <1>3, <1>4, <1>5
  <2>2. QED
    BY <1>1, <1>3, <1>5, <2>1, MultMonotone
<1>8. i <= top - StackPages
  <2>1. StackPages * PGSIZE <= USTACKSIZE
    BY AddrSpaceAssumption
  <2>2. PGSIZE * (top - StackPages) = USERTOP - StackPages * PGSIZE
    BY <1>1, <1>3
  <2> DEFINE sp == StackPages * PGSIZE
  <2>3. sp \in Nat /\ sp <= USTACKSIZE /\ PGSIZE * (top - StackPages) = USERTOP - sp
    BY <1>1, <2>1, <2>2
  <2> HIDE DEF sp
  <2>4. PGSIZE * i <= PGSIZE * (top - StackPages)
    BY <1>1, <1>2, <1>4, <1>5, <2>3
  <2>5. top - StackPages \in Int
    BY <1>1, <1>3
  <2>6. QED
    BY <1>1, <1>5, <2>4, <2>5, MultMonotone
<1>9. \A k \in 1..StackPages : top - k \in Nat /\ top - k \in i..(j - 1)
  BY <1>1, <1>3, <1>5, <1>7, <1>8
<1>10. s \in Seq(Nat) /\ Len(s) = StackPages /\ \A k \in 1..StackPages : s[k] = top - k
  BY <1>1, <1>6, <1>9
<1>11. ASSUME NEW la \in ToSet(s) PROVE InPages(x, la)
  <2>1. PICK k \in 1..StackPages : s[k] = la
    BY <1>10, ListSet
  <2>2. la \in i..(j - 1)
    BY <1>9, <1>10, <2>1
  <2>3. QED
    BY <2>2 DEF InPages, i, j
<1>12. QED
  BY <1>10, <1>11 DEF s

(* MapsPages goes from page to page.                                       *)
MapsPage(u, p, la, write) == IF Stopped(u) THEN u ELSE pgdir_alloc_page(u, p, la, write)

(* Its result is what each page leads to from what the one before led to.  *)
LEMMA MapsPagesFold ==
  ASSUME NEW V, NEW list \in Seq(V), NEW W, NEW base \in W, NEW p, NEW write,
         \A u \in W, k \in 1..Len(list) : MapsPage(u, p, list[k], write) \in W,
         NEW Q, base \in Q[0],
         \A k \in 1..Len(list) : \A u \in Q[k - 1] : MapsPage(u, p, list[k], write) \in Q[k]
  PROVE  MapsPages(base, p, list, write) \in Q[Len(list)]
<1> DEFINE n    == Len(list)
           S    == 1..n
           pick == [T \in SUBSET S |-> Max(T)]
           step == [x \in S \X W |-> MapsPage(x[2], p, list[x[1]], write)]
           Rec(iter) == iter = [s \in SUBSET DOMAIN list |->
                          IF s = {} THEN base
                          ELSE LET x == Max(s) IN MapsPage(iter[s \ {x}], p, list[x], write)]
           it == CHOOSE iter : Rec(iter)
<1>1. n \in Nat /\ DOMAIN list = S /\ IsFiniteSet(S)
  BY LenProperties, FS_Interval
<1>2. \A T \in SUBSET S : T # {} => pick[T] \in T
  BY <1>1, MaxOfFew
<1>3. \A x \in S, v \in W : step[<<x, v>>] = MapsPage(v, p, list[x], write) /\ step[<<x, v>>] \in W
  OBVIOUS
<1>4. PICK f \in [SUBSET S -> W] :
        \A T \in SUBSET S :
          f[T] = IF T = {} THEN base ELSE step[<<pick[T], f[T \ {pick[T]}]>>]
  <2> HIDE DEF pick, step, S
  <2>1. FoldSolutions(S, W, base, pick, step) # {}
    BY <1>1, <1>2, <1>3, FoldExists
  <2>2. QED
    BY <2>1 DEF FoldSolutions
<1>5. Rec(f)
  <2>1. ASSUME NEW s \in SUBSET S, s # {}
        PROVE  f[s] = MapsPage(f[s \ {Max(s)}], p, list[Max(s)], write)
    <3>1. pick[s] = Max(s) /\ pick[s] \in S /\ f[s \ {pick[s]}] \in W
      BY <1>2, <1>4, <2>1
    <3> HIDE DEF pick, step
    <3>2. f[s] = step[<<pick[s], f[s \ {pick[s]}]>>]
      BY <1>4, <2>1
    <3>3. QED
      BY <1>3, <3>1, <3>2
  <2>2. QED
    BY <1>1, <1>4, <2>1
<1>6. Rec(it)
  <2> HIDE DEF Rec
  <2>1. QED
    BY <1>5
<1>7. it[DOMAIN list] = MapsPages(base, p, list, write)
  BY DEF MapsPages, MapsPage, FoldLeft, MapThenFoldSet
<1> HIDE DEF it
<1>8. /\ it[{}] = base
      /\ \A s \in SUBSET S : s # {} => it[s] = MapsPage(it[s \ {Max(s)}], p, list[Max(s)], write)
  BY <1>1, <1>6
<1> HIDE DEF Rec
<1> DEFINE tr == [k \in 0..n |-> it[1..k]]
<1>9. tr[0] \in Q[0]
  <2>1. 1..0 = {} /\ 0 \in 0..n
    BY <1>1
  <2>2. tr[0] = it[1..0]
    BY <2>1
  <2> HIDE DEF tr
  <2>3. QED
    BY <1>8, <2>1, <2>2
<1>10. ASSUME NEW k \in 1..n, tr[k - 1] \in Q[k - 1] PROVE tr[k] \in Q[k]
  <2>1. Max(1..k) = k /\ (1..k) \ {k} = 1..(k - 1) /\ 1..k # {} /\ 1..k \in SUBSET S
    BY <1>1, TopOfFew
  <2>2. tr[k] = it[1..k] /\ tr[k - 1] = it[1..(k - 1)]
    BY <1>1
  <2> HIDE DEF tr
  <2>3. it[1..k] = MapsPage(it[1..(k - 1)], p, list[k], write)
    BY <1>8, <2>1
  <2>4. QED
    BY <1>10, <2>2, <2>3
<1>11. tr[n] \in Q[n]
  <2> HIDE DEF tr, n
  <2>1. QED
    BY <1>1, <1>9, <1>10, Staged
<1>12. tr[n] = MapsPages(base, p, list, write)
  BY <1>1, <1>7
<1>13. QED
  BY <1>11, <1>12

(* unmap_range of one area after the other.                                *)
PagesGone(w, p, list) ==
  LET unmap(u, v) == unmap_range(u, p, v) IN FoldLeft(unmap, w, list)

(* The same for unmap_range.                                               *)
LEMMA PagesGoneFold ==
  ASSUME NEW V, NEW list \in Seq(V), NEW W, NEW base \in W, NEW p,
         \A u \in W, k \in 1..Len(list) : unmap_range(u, p, list[k]) \in W,
         NEW Q, base \in Q[0],
         \A k \in 1..Len(list) : \A u \in Q[k - 1] : unmap_range(u, p, list[k]) \in Q[k]
  PROVE  PagesGone(base, p, list) \in Q[Len(list)]
<1> DEFINE n    == Len(list)
           S    == 1..n
           pick == [T \in SUBSET S |-> Max(T)]
           step == [x \in S \X W |-> unmap_range(x[2], p, list[x[1]])]
           Rec(iter) == iter = [s \in SUBSET DOMAIN list |->
                          IF s = {} THEN base
                          ELSE LET x == Max(s) IN unmap_range(iter[s \ {x}], p, list[x])]
           it == CHOOSE iter : Rec(iter)
<1>1. n \in Nat /\ DOMAIN list = S /\ IsFiniteSet(S)
  BY LenProperties, FS_Interval
<1>2. \A T \in SUBSET S : T # {} => pick[T] \in T
  BY <1>1, MaxOfFew
<1>3. \A x \in S, v \in W : step[<<x, v>>] = unmap_range(v, p, list[x]) /\ step[<<x, v>>] \in W
  OBVIOUS
<1>4. PICK f \in [SUBSET S -> W] :
        \A T \in SUBSET S :
          f[T] = IF T = {} THEN base ELSE step[<<pick[T], f[T \ {pick[T]}]>>]
  <2> HIDE DEF pick, step, S
  <2>1. FoldSolutions(S, W, base, pick, step) # {}
    BY <1>1, <1>2, <1>3, FoldExists
  <2>2. QED
    BY <2>1 DEF FoldSolutions
<1>5. Rec(f)
  <2>1. ASSUME NEW s \in SUBSET S, s # {}
        PROVE  f[s] = unmap_range(f[s \ {Max(s)}], p, list[Max(s)])
    <3>1. pick[s] = Max(s) /\ pick[s] \in S /\ f[s \ {pick[s]}] \in W
      BY <1>2, <1>4, <2>1
    <3> HIDE DEF pick, step
    <3>2. f[s] = step[<<pick[s], f[s \ {pick[s]}]>>]
      BY <1>4, <2>1
    <3>3. QED
      BY <1>3, <3>1, <3>2
  <2>2. QED
    BY <1>1, <1>4, <2>1
<1>6. Rec(it)
  <2> HIDE DEF Rec
  <2>1. QED
    BY <1>5
<1>7. it[DOMAIN list] = PagesGone(base, p, list)
  BY DEF PagesGone, FoldLeft, MapThenFoldSet
<1> HIDE DEF it
<1>8. /\ it[{}] = base
      /\ \A s \in SUBSET S : s # {} => it[s] = unmap_range(it[s \ {Max(s)}], p, list[Max(s)])
  BY <1>1, <1>6
<1> HIDE DEF Rec
<1> DEFINE tr == [k \in 0..n |-> it[1..k]]
<1>9. tr[0] \in Q[0]
  <2>1. 1..0 = {} /\ 0 \in 0..n
    BY <1>1
  <2>2. tr[0] = it[1..0]
    BY <2>1
  <2> HIDE DEF tr
  <2>3. QED
    BY <1>8, <2>1, <2>2
<1>10. ASSUME NEW k \in 1..n, tr[k - 1] \in Q[k - 1] PROVE tr[k] \in Q[k]
  <2>1. Max(1..k) = k /\ (1..k) \ {k} = 1..(k - 1) /\ 1..k # {} /\ 1..k \in SUBSET S
    BY <1>1, TopOfFew
  <2>2. tr[k] = it[1..k] /\ tr[k - 1] = it[1..(k - 1)]
    BY <1>1
  <2> HIDE DEF tr
  <2>3. it[1..k] = unmap_range(it[1..(k - 1)], p, list[k])
    BY <1>8, <2>1
  <2>4. QED
    BY <1>10, <2>2, <2>3
<1>11. tr[n] \in Q[n]
  <2> HIDE DEF tr, n
  <2>1. QED
    BY <1>1, <1>9, <1>10, Staged
<1>12. tr[n] = PagesGone(base, p, list)
  BY <1>1, <1>7
<1>13. QED
  BY <1>11, <1>12

(* exit_range of one area after the other.                                 *)
TablesGone(w, p, list) ==
  LET exit(u, v) == exit_range(u, p, v) IN FoldLeft(exit, w, list)

(* The same for exit_range.                                                *)
LEMMA TablesGoneFold ==
  ASSUME NEW V, NEW list \in Seq(V), NEW W, NEW base \in W, NEW p,
         \A u \in W, k \in 1..Len(list) : exit_range(u, p, list[k]) \in W,
         NEW Q, base \in Q[0],
         \A k \in 1..Len(list) : \A u \in Q[k - 1] : exit_range(u, p, list[k]) \in Q[k]
  PROVE  TablesGone(base, p, list) \in Q[Len(list)]
<1> DEFINE n    == Len(list)
           S    == 1..n
           pick == [T \in SUBSET S |-> Max(T)]
           step == [x \in S \X W |-> exit_range(x[2], p, list[x[1]])]
           Rec(iter) == iter = [s \in SUBSET DOMAIN list |->
                          IF s = {} THEN base
                          ELSE LET x == Max(s) IN exit_range(iter[s \ {x}], p, list[x])]
           it == CHOOSE iter : Rec(iter)
<1>1. n \in Nat /\ DOMAIN list = S /\ IsFiniteSet(S)
  BY LenProperties, FS_Interval
<1>2. \A T \in SUBSET S : T # {} => pick[T] \in T
  BY <1>1, MaxOfFew
<1>3. \A x \in S, v \in W : step[<<x, v>>] = exit_range(v, p, list[x]) /\ step[<<x, v>>] \in W
  OBVIOUS
<1>4. PICK f \in [SUBSET S -> W] :
        \A T \in SUBSET S :
          f[T] = IF T = {} THEN base ELSE step[<<pick[T], f[T \ {pick[T]}]>>]
  <2> HIDE DEF pick, step, S
  <2>1. FoldSolutions(S, W, base, pick, step) # {}
    BY <1>1, <1>2, <1>3, FoldExists
  <2>2. QED
    BY <2>1 DEF FoldSolutions
<1>5. Rec(f)
  <2>1. ASSUME NEW s \in SUBSET S, s # {}
        PROVE  f[s] = exit_range(f[s \ {Max(s)}], p, list[Max(s)])
    <3>1. pick[s] = Max(s) /\ pick[s] \in S /\ f[s \ {pick[s]}] \in W
      BY <1>2, <1>4, <2>1
    <3> HIDE DEF pick, step
    <3>2. f[s] = step[<<pick[s], f[s \ {pick[s]}]>>]
      BY <1>4, <2>1
    <3>3. QED
      BY <1>3, <3>1, <3>2
  <2>2. QED
    BY <1>1, <1>4, <2>1
<1>6. Rec(it)
  <2> HIDE DEF Rec
  <2>1. QED
    BY <1>5
<1>7. it[DOMAIN list] = TablesGone(base, p, list)
  BY DEF TablesGone, FoldLeft, MapThenFoldSet
<1> HIDE DEF it
<1>8. /\ it[{}] = base
      /\ \A s \in SUBSET S : s # {} => it[s] = exit_range(it[s \ {Max(s)}], p, list[Max(s)])
  BY <1>1, <1>6
<1> HIDE DEF Rec
<1> DEFINE tr == [k \in 0..n |-> it[1..k]]
<1>9. tr[0] \in Q[0]
  <2>1. 1..0 = {} /\ 0 \in 0..n
    BY <1>1
  <2>2. tr[0] = it[1..0]
    BY <2>1
  <2> HIDE DEF tr
  <2>3. QED
    BY <1>8, <2>1, <2>2
<1>10. ASSUME NEW k \in 1..n, tr[k - 1] \in Q[k - 1] PROVE tr[k] \in Q[k]
  <2>1. Max(1..k) = k /\ (1..k) \ {k} = 1..(k - 1) /\ 1..k # {} /\ 1..k \in SUBSET S
    BY <1>1, TopOfFew
  <2>2. tr[k] = it[1..k] /\ tr[k - 1] = it[1..(k - 1)]
    BY <1>1
  <2> HIDE DEF tr
  <2>3. it[1..k] = exit_range(it[1..(k - 1)], p, list[k])
    BY <1>8, <2>1
  <2>4. QED
    BY <1>10, <2>2, <2>3
<1>11. tr[n] \in Q[n]
  <2> HIDE DEF tr, n
  <2>1. QED
    BY <1>1, <1>9, <1>10, Staged
<1>12. tr[n] = TablesGone(base, p, list)
  BY <1>1, <1>7
<1>13. QED
  BY <1>11, <1>12

(* copy_range goes from page to page.                                      *)
CopiesOne(u, from, to, la) ==
  IF Stopped(u) \/ ~Present(u.mm[from], la) THEN u ELSE CopyPage(u, from, to, la)

(* copy_range on a list of pages.                                          *)
CopiesPages(w, from, to, list) ==
  LET step(u, la) ==
        IF Stopped(u) \/ ~Present(u.mm[from], la) THEN u ELSE CopyPage(u, from, to, la)
  IN  FoldLeft(step, w, list)

(* The same for copy_range.                                                *)
LEMMA CopiesPagesFold ==
  ASSUME NEW V, NEW list \in Seq(V), NEW W, NEW base \in W, NEW from, NEW to,
         \A u \in W, k \in 1..Len(list) : CopiesOne(u, from, to, list[k]) \in W,
         NEW Q, base \in Q[0],
         \A k \in 1..Len(list) : \A u \in Q[k - 1] : CopiesOne(u, from, to, list[k]) \in Q[k]
  PROVE  CopiesPages(base, from, to, list) \in Q[Len(list)]
<1> DEFINE n    == Len(list)
           S    == 1..n
           pick == [T \in SUBSET S |-> Max(T)]
           step == [x \in S \X W |-> CopiesOne(x[2], from, to, list[x[1]])]
           Rec(iter) == iter = [s \in SUBSET DOMAIN list |->
                          IF s = {} THEN base
                          ELSE LET x == Max(s) IN CopiesOne(iter[s \ {x}], from, to, list[x])]
           it == CHOOSE iter : Rec(iter)
<1>1. n \in Nat /\ DOMAIN list = S /\ IsFiniteSet(S)
  BY LenProperties, FS_Interval
<1>2. \A T \in SUBSET S : T # {} => pick[T] \in T
  BY <1>1, MaxOfFew
<1>3. \A x \in S, v \in W : step[<<x, v>>] = CopiesOne(v, from, to, list[x]) /\ step[<<x, v>>] \in W
  OBVIOUS
<1>4. PICK f \in [SUBSET S -> W] :
        \A T \in SUBSET S :
          f[T] = IF T = {} THEN base ELSE step[<<pick[T], f[T \ {pick[T]}]>>]
  <2> HIDE DEF pick, step, S
  <2>1. FoldSolutions(S, W, base, pick, step) # {}
    BY <1>1, <1>2, <1>3, FoldExists
  <2>2. QED
    BY <2>1 DEF FoldSolutions
<1>5. Rec(f)
  <2>1. ASSUME NEW s \in SUBSET S, s # {}
        PROVE  f[s] = CopiesOne(f[s \ {Max(s)}], from, to, list[Max(s)])
    <3>1. pick[s] = Max(s) /\ pick[s] \in S /\ f[s \ {pick[s]}] \in W
      BY <1>2, <1>4, <2>1
    <3> HIDE DEF pick, step
    <3>2. f[s] = step[<<pick[s], f[s \ {pick[s]}]>>]
      BY <1>4, <2>1
    <3>3. QED
      BY <1>3, <3>1, <3>2
  <2>2. QED
    BY <1>1, <1>4, <2>1
<1>6. Rec(it)
  <2> HIDE DEF Rec
  <2>1. QED
    BY <1>5
<1>7. it[DOMAIN list] = CopiesPages(base, from, to, list)
  BY DEF CopiesPages, CopiesOne, FoldLeft, MapThenFoldSet
<1> HIDE DEF it
<1>8. /\ it[{}] = base
      /\ \A s \in SUBSET S : s # {} => it[s] = CopiesOne(it[s \ {Max(s)}], from, to, list[Max(s)])
  BY <1>1, <1>6
<1> HIDE DEF Rec
<1> DEFINE tr == [k \in 0..n |-> it[1..k]]
<1>9. tr[0] \in Q[0]
  <2>1. 1..0 = {} /\ 0 \in 0..n
    BY <1>1
  <2>2. tr[0] = it[1..0]
    BY <2>1
  <2> HIDE DEF tr
  <2>3. QED
    BY <1>8, <2>1, <2>2
<1>10. ASSUME NEW k \in 1..n, tr[k - 1] \in Q[k - 1] PROVE tr[k] \in Q[k]
  <2>1. Max(1..k) = k /\ (1..k) \ {k} = 1..(k - 1) /\ 1..k # {} /\ 1..k \in SUBSET S
    BY <1>1, TopOfFew
  <2>2. tr[k] = it[1..k] /\ tr[k - 1] = it[1..(k - 1)]
    BY <1>1
  <2> HIDE DEF tr
  <2>3. it[1..k] = CopiesOne(it[1..(k - 1)], from, to, list[k])
    BY <1>8, <2>1
  <2>4. QED
    BY <1>10, <2>2, <2>3
<1>11. tr[n] \in Q[n]
  <2> HIDE DEF tr, n
  <2>1. QED
    BY <1>1, <1>9, <1>10, Staged
<1>12. tr[n] = CopiesPages(base, from, to, list)
  BY <1>1, <1>7
<1>13. QED
  BY <1>11, <1>12

(* dup_mmap goes from area to area.                                        *)
CopiesArea(u, to, from, v) ==
  IF Stopped(u) THEN u
  ELSE LET u1 == AddsArea(u, to, v)
       IN  IF Stopped(u1) THEN u1 ELSE copy_range(u1, from, to, v)

(* dup_mmap on a list of areas.                                            *)
CopiesAreas(w, to, from, list) ==
  LET step(u, v) ==
        IF Stopped(u) THEN u
        ELSE LET u1 == AddsArea(u, to, v)
             IN  IF Stopped(u1) THEN u1 ELSE copy_range(u1, from, to, v)
  IN  FoldLeft(step, w, list)

(* The same for dup_mmap.                                                  *)
LEMMA CopiesAreasFold ==
  ASSUME NEW V, NEW list \in Seq(V), NEW W, NEW base \in W, NEW to, NEW from,
         \A u \in W, k \in 1..Len(list) : CopiesArea(u, to, from, list[k]) \in W,
         NEW Q, base \in Q[0],
         \A k \in 1..Len(list) : \A u \in Q[k - 1] : CopiesArea(u, to, from, list[k]) \in Q[k]
  PROVE  CopiesAreas(base, to, from, list) \in Q[Len(list)]
<1> DEFINE n    == Len(list)
           S    == 1..n
           pick == [T \in SUBSET S |-> Max(T)]
           step == [x \in S \X W |-> CopiesArea(x[2], to, from, list[x[1]])]
           Rec(iter) == iter = [s \in SUBSET DOMAIN list |->
                          IF s = {} THEN base
                          ELSE LET x == Max(s) IN CopiesArea(iter[s \ {x}], to, from, list[x])]
           it == CHOOSE iter : Rec(iter)
<1>1. n \in Nat /\ DOMAIN list = S /\ IsFiniteSet(S)
  BY LenProperties, FS_Interval
<1>2. \A T \in SUBSET S : T # {} => pick[T] \in T
  BY <1>1, MaxOfFew
<1>3. \A x \in S, v \in W : step[<<x, v>>] = CopiesArea(v, to, from, list[x]) /\ step[<<x, v>>] \in W
  OBVIOUS
<1>4. PICK f \in [SUBSET S -> W] :
        \A T \in SUBSET S :
          f[T] = IF T = {} THEN base ELSE step[<<pick[T], f[T \ {pick[T]}]>>]
  <2> HIDE DEF pick, step, S
  <2>1. FoldSolutions(S, W, base, pick, step) # {}
    BY <1>1, <1>2, <1>3, FoldExists
  <2>2. QED
    BY <2>1 DEF FoldSolutions
<1>5. Rec(f)
  <2>1. ASSUME NEW s \in SUBSET S, s # {}
        PROVE  f[s] = CopiesArea(f[s \ {Max(s)}], to, from, list[Max(s)])
    <3>1. pick[s] = Max(s) /\ pick[s] \in S /\ f[s \ {pick[s]}] \in W
      BY <1>2, <1>4, <2>1
    <3> HIDE DEF pick, step
    <3>2. f[s] = step[<<pick[s], f[s \ {pick[s]}]>>]
      BY <1>4, <2>1
    <3>3. QED
      BY <1>3, <3>1, <3>2
  <2>2. QED
    BY <1>1, <1>4, <2>1
<1>6. Rec(it)
  <2> HIDE DEF Rec
  <2>1. QED
    BY <1>5
<1>7. it[DOMAIN list] = CopiesAreas(base, to, from, list)
  BY DEF CopiesAreas, CopiesArea, FoldLeft, MapThenFoldSet
<1> HIDE DEF it
<1>8. /\ it[{}] = base
      /\ \A s \in SUBSET S : s # {} => it[s] = CopiesArea(it[s \ {Max(s)}], to, from, list[Max(s)])
  BY <1>1, <1>6
<1> HIDE DEF Rec
<1> DEFINE tr == [k \in 0..n |-> it[1..k]]
<1>9. tr[0] \in Q[0]
  <2>1. 1..0 = {} /\ 0 \in 0..n
    BY <1>1
  <2>2. tr[0] = it[1..0]
    BY <2>1
  <2> HIDE DEF tr
  <2>3. QED
    BY <1>8, <2>1, <2>2
<1>10. ASSUME NEW k \in 1..n, tr[k - 1] \in Q[k - 1] PROVE tr[k] \in Q[k]
  <2>1. Max(1..k) = k /\ (1..k) \ {k} = 1..(k - 1) /\ 1..k # {} /\ 1..k \in SUBSET S
    BY <1>1, TopOfFew
  <2>2. tr[k] = it[1..k] /\ tr[k - 1] = it[1..(k - 1)]
    BY <1>1
  <2> HIDE DEF tr
  <2>3. it[1..k] = CopiesArea(it[1..(k - 1)], to, from, list[k])
    BY <1>8, <2>1
  <2>4. QED
    BY <1>10, <2>2, <2>3
<1>11. tr[n] \in Q[n]
  <2> HIDE DEF tr, n
  <2>1. QED
    BY <1>1, <1>9, <1>10, Staged
<1>12. tr[n] = CopiesAreas(base, to, from, list)
  BY <1>1, <1>7
<1>13. QED
  BY <1>11, <1>12

(* load_icode goes from program header to program header.                  *)
LoadsSegments(w, p, list) ==
  LET segment(u, ph) == LoadsSegment(u, p, ph) IN FoldLeft(segment, w, list)

(* The same for load_icode.                                                *)
LEMMA LoadsSegmentsFold ==
  ASSUME NEW V, NEW list \in Seq(V), NEW W, NEW base \in W, NEW p,
         \A u \in W, k \in 1..Len(list) : LoadsSegment(u, p, list[k]) \in W,
         NEW Q, base \in Q[0],
         \A k \in 1..Len(list) : \A u \in Q[k - 1] : LoadsSegment(u, p, list[k]) \in Q[k]
  PROVE  LoadsSegments(base, p, list) \in Q[Len(list)]
<1> DEFINE n    == Len(list)
           S    == 1..n
           pick == [T \in SUBSET S |-> Max(T)]
           step == [x \in S \X W |-> LoadsSegment(x[2], p, list[x[1]])]
           Rec(iter) == iter = [s \in SUBSET DOMAIN list |->
                          IF s = {} THEN base
                          ELSE LET x == Max(s) IN LoadsSegment(iter[s \ {x}], p, list[x])]
           it == CHOOSE iter : Rec(iter)
<1>1. n \in Nat /\ DOMAIN list = S /\ IsFiniteSet(S)
  BY LenProperties, FS_Interval
<1>2. \A T \in SUBSET S : T # {} => pick[T] \in T
  BY <1>1, MaxOfFew
<1>3. \A x \in S, v \in W : step[<<x, v>>] = LoadsSegment(v, p, list[x]) /\ step[<<x, v>>] \in W
  OBVIOUS
<1>4. PICK f \in [SUBSET S -> W] :
        \A T \in SUBSET S :
          f[T] = IF T = {} THEN base ELSE step[<<pick[T], f[T \ {pick[T]}]>>]
  <2> HIDE DEF pick, step, S
  <2>1. FoldSolutions(S, W, base, pick, step) # {}
    BY <1>1, <1>2, <1>3, FoldExists
  <2>2. QED
    BY <2>1 DEF FoldSolutions
<1>5. Rec(f)
  <2>1. ASSUME NEW s \in SUBSET S, s # {}
        PROVE  f[s] = LoadsSegment(f[s \ {Max(s)}], p, list[Max(s)])
    <3>1. pick[s] = Max(s) /\ pick[s] \in S /\ f[s \ {pick[s]}] \in W
      BY <1>2, <1>4, <2>1
    <3> HIDE DEF pick, step
    <3>2. f[s] = step[<<pick[s], f[s \ {pick[s]}]>>]
      BY <1>4, <2>1
    <3>3. QED
      BY <1>3, <3>1, <3>2
  <2>2. QED
    BY <1>1, <1>4, <2>1
<1>6. Rec(it)
  <2> HIDE DEF Rec
  <2>1. QED
    BY <1>5
<1>7. it[DOMAIN list] = LoadsSegments(base, p, list)
  BY DEF LoadsSegments, FoldLeft, MapThenFoldSet
<1> HIDE DEF it
<1>8. /\ it[{}] = base
      /\ \A s \in SUBSET S : s # {} => it[s] = LoadsSegment(it[s \ {Max(s)}], p, list[Max(s)])
  BY <1>1, <1>6
<1> HIDE DEF Rec
<1> DEFINE tr == [k \in 0..n |-> it[1..k]]
<1>9. tr[0] \in Q[0]
  <2>1. 1..0 = {} /\ 0 \in 0..n
    BY <1>1
  <2>2. tr[0] = it[1..0]
    BY <2>1
  <2> HIDE DEF tr
  <2>3. QED
    BY <1>8, <2>1, <2>2
<1>10. ASSUME NEW k \in 1..n, tr[k - 1] \in Q[k - 1] PROVE tr[k] \in Q[k]
  <2>1. Max(1..k) = k /\ (1..k) \ {k} = 1..(k - 1) /\ 1..k # {} /\ 1..k \in SUBSET S
    BY <1>1, TopOfFew
  <2>2. tr[k] = it[1..k] /\ tr[k - 1] = it[1..(k - 1)]
    BY <1>1
  <2> HIDE DEF tr
  <2>3. it[1..k] = LoadsSegment(it[1..(k - 1)], p, list[k])
    BY <1>8, <2>1
  <2>4. QED
    BY <1>10, <2>2, <2>3
<1>11. tr[n] \in Q[n]
  <2> HIDE DEF tr, n
  <2>1. QED
    BY <1>1, <1>9, <1>10, Staged
<1>12. tr[n] = LoadsSegments(base, p, list)
  BY <1>1, <1>7
<1>13. QED
  BY <1>11, <1>12

-----------------------------------------------------------------------------
(* The worlds that an operation on the pages, or on the areas, of p may    *)
(* lead to.                                                                *)
KeptWorlds(w, p) == {u \in MmWorld : Kept(u, w, p)}
LiveWorlds(w, p) == {u \in MmWorld : Live(u, w, p)}

(* What is in the first of these sets.                                     *)
LEMMA InKeptWorlds ==
  ASSUME NEW w, NEW p, NEW u PROVE u \in KeptWorlds(w, p) <=> Kept(u, w, p)
BY DEF KeptWorlds, Kept, Sane

(* What is in the second.                                                  *)
LEMMA InLiveWorlds ==
  ASSUME NEW w, NEW p, NEW u PROVE u \in LiveWorlds(w, p) <=> Live(u, w, p)
BY DEF LiveWorlds, Live, Sane

(* One world at each step.                                                 *)
Always(n, W) == [k \in 0..n |-> W]

(* It is the same set everywhere.                                          *)
LEMMA AlwaysIs ==
  ASSUME NEW n \in Nat, NEW W
  PROVE  /\ Always(n, W)[0] = W /\ Always(n, W)[n] = W
         /\ \A k \in 1..n : Always(n, W)[k - 1] = W /\ Always(n, W)[k] = W
BY DEF Always

(* MapsPages, for pages of one area.                                       *)
LEMMA MapsPagesFacts ==
  ASSUME NEW w, Sane(w, {}), NEW p \in Proc, NEW pages \in Seq(Nat), NEW write \in BOOLEAN,
         \A la \in ToSet(pages) : PageAllowed(w.mm[p], la, write)
  PROVE  Kept(MapsPages(w, p, pages, write), w, p)
<1> DEFINE W == KeptWorlds(w, p)
           n == Len(pages)
           Q == Always(n, W)
<1>1. w \in W
  BY InKeptWorlds, KeptSelf
<1>2. ASSUME NEW u \in W, NEW k \in 1..n PROVE MapsPage(u, p, pages[k], write) \in W
  <2> DEFINE la == pages[k]
  <2>1. Kept(u, w, p)
    BY InKeptWorlds
  <2>2. PageAllowed(w.mm[p], la, write)
    <3>1. la \in ToSet(pages)
      BY ListSet
    <3>2. QED
      BY <3>1
  <2> HIDE DEF la, W
  <2>3. CASE Stopped(u)
    BY <2>3 DEF MapsPage, la
  <2>4. CASE ~Stopped(u)
    <3>1. Sane(u, {}) /\ u.mm[p].mmap_list = w.mm[p].mmap_list
      BY <2>1 DEF Kept
    <3>2. PageAllowed(u.mm[p], la, write)
      BY <2>2, <3>1, PageAllowedSame
    <3>3. Kept(pgdir_alloc_page(u, p, la, write), u, p)
      BY <3>1, <3>2, AllocPageFacts
    <3>4. Kept(pgdir_alloc_page(u, p, la, write), w, p)
      BY <2>1, <3>3, KeptTwice
    <3>5. MapsPage(u, p, la, write) = pgdir_alloc_page(u, p, la, write)
      BY <2>4 DEF MapsPage
    <3>6. QED
      BY <3>4, <3>5, InKeptWorlds DEF W, la
  <2>5. QED
    BY <2>3, <2>4
<1>3. n \in Nat
  BY LenProperties
<1>4. Q[0] = W /\ Q[n] = W /\ \A k \in 1..n : Q[k - 1] = W /\ Q[k] = W
  BY <1>3, AlwaysIs
<1> HIDE DEF W, Q
<1>5. w \in Q[0] /\ \A k \in 1..n : \A u \in Q[k - 1] : MapsPage(u, p, pages[k], write) \in Q[k]
  BY <1>1, <1>2, <1>4
<1>6. MapsPages(w, p, pages, write) \in Q[n]
  BY <1>1, <1>2, <1>5, MapsPagesFold
<1>7. QED
  BY <1>4, <1>6, InKeptWorlds DEF W

(* One program header.                                                     *)
Header == [va : 0..(WORD_SIZE - 1), filesz : Nat, memsz : Nat, flags : SUBSET {"READ", "WRITE", "EXEC"}]

(* The pages of an area are allowed as the area allows them.               *)
LEMMA PagesAllowed ==
  ASSUME NEW as, NEW x, x \in ToSet(as.mmap_list), NEW pages,
         \A la \in ToSet(pages) : InPages(x, la), NEW write, write => "WRITE" \in x.vm_flags
  PROVE  \A la \in ToSet(pages) : PageAllowed(as, la, write)
BY DEF PageAllowed

(* A program header leaves a sane world.                                   *)
LEMMA LoadsSegmentFacts ==
  ASSUME NEW w, Sane(w, {}), NEW p \in Proc, NEW ph \in Header,
         ph.memsz + (ph.va % PGSIZE) <= WORD_SIZE
  PROVE  Live(LoadsSegment(w, p, ph), w, p)
<1> DEFINE u == LoadsSegment(w, p, ph)
           va == ph.va
           memsz == ph.memsz
           flags == ph.flags
           x == NewArea(va, memsz, flags)
           w1 == mm_map(w, p, va, memsz, flags)
           pages == SegmentPages(ph)
           write == Writable(ph)
<1>1. /\ va \in 0..(WORD_SIZE - 1) /\ memsz \in Nat /\ ph.filesz \in Nat
      /\ flags \in SUBSET {"READ", "WRITE", "EXEC", "STACK"}
  BY DEF Header
<1>2. Mapped(w1, w, p, x)
  BY <1>1, MmMapFacts
<1>3. u = IF Stopped(w) THEN w
          ELSE IF ph.filesz > ph.memsz THEN Fails(w, "-E_INVAL_ELF")
          ELSE IF ph.filesz = 0 THEN w
          ELSE IF Stopped(w1) THEN w1
          ELSE MapsPages(w1, p, pages, write)
  BY DEF LoadsSegment
<1>4. x.vm_flags = flags /\ write = ("WRITE" \in flags)
  BY DEF NewArea, Writable
<1> HIDE DEF u, w1, x, pages, write
<1>5. CASE u = w
  BY <1>5, LiveSelf DEF u
<1>6. CASE u = Fails(w, "-E_INVAL_ELF")
  <2>1. "-E_INVAL_ELF" \in Code
    BY DEF Code
  <2>2. Kept(Fails(w, "-E_INVAL_ELF"), w, p)
    BY <2>1, KeptFails
  <2>3. QED
    BY <1>6, <2>2, LiveKept DEF u
<1>7. CASE u = w1
  BY <1>2, <1>7 DEF Mapped, u
<1>8. CASE ~(ph.filesz > memsz) /\ ph.filesz # 0 /\ ~Stopped(w1) /\ u = MapsPages(w1, p, pages, write)
  <2>1. memsz \in Nat \ {0}
    BY <1>1, <1>8
  <2>2. Live(w1, w, p) /\ UserArea(x) /\ x \in ToSet(w1.mm[p].mmap_list)
    BY <1>2, <1>8 DEF Mapped
  <2>3. pages \in Seq(Nat) /\ \A la \in ToSet(pages) : InPages(x, la)
    <3>1. memsz + (va % PGSIZE) <= WORD_SIZE /\ x = NewArea(va, memsz, flags)
      BY DEF x
    <3>2. ph.va = va /\ ph.memsz = memsz
      OBVIOUS
    <3> HIDE DEF va, memsz, flags
    <3>3. QED
      BY <1>1, <2>1, <2>2, <3>1, <3>2, SegmentCovered DEF pages
  <2>4. write \in BOOLEAN /\ (write => "WRITE" \in x.vm_flags)
    BY <1>4 DEF write, Writable
  <2> DEFINE as == w1.mm[p]
  <2>5. x \in ToSet(as.mmap_list)
    BY <2>2
  <2> HIDE DEF as
  <2>6. \A la \in ToSet(pages) : PageAllowed(as, la, write)
    BY <2>3, <2>4, <2>5, PagesAllowed
  <2>7. Sane(w1, {})
    BY <2>2 DEF Live
  <2>8. Kept(u, w1, p)
    BY <1>8, <2>3, <2>4, <2>6, <2>7, MapsPagesFacts DEF as
  <2>9. QED
    BY <2>2, <2>8, LiveKept, LiveTwice DEF u
<1>9. QED
  BY <1>1, <1>3, <1>5, <1>6, <1>7, <1>8

(* The stack.                                                              *)
LEMMA LoadsStackFacts ==
  ASSUME NEW w, Sane(w, {}), NEW p \in Proc
  PROVE  Live(LoadsStack(w, p), w, p)
<1> DEFINE u == LoadsStack(w, p)
           va == USERTOP - USTACKSIZE
           flags == {"READ", "WRITE", "STACK"}
           x == NewArea(va, USTACKSIZE, flags)
           w1 == mm_map(w, p, va, USTACKSIZE, flags)
           w2 == MapsPages(w1, p, StackTop, TRUE)
<1>1. va \in 0..(WORD_SIZE - 1) /\ USTACKSIZE \in Nat
  <2>1. USERBASE + USTACKSIZE <= USERTOP
    BY AddrSpaceAssumption
  <2>2. QED
    BY <2>1, Sizes
<1>2. flags \in SUBSET {"READ", "WRITE", "EXEC", "STACK"}
  OBVIOUS
<1>3. u = IF Stopped(w) THEN w ELSE IF Stopped(w1) THEN w1
          ELSE IF w2.ret # "0" THEN Panics(w2) ELSE w2
  BY DEF LoadsStack
<1>4. "WRITE" \in x.vm_flags
  BY DEF NewArea
<1>5. Mapped(w1, w, p, x)
  <2> HIDE DEF va, flags
  <2>1. QED
    BY <1>1, <1>2, MmMapFacts
<1>6. x = NewArea(USERTOP - USTACKSIZE, USTACKSIZE, flags)
  OBVIOUS
<1> HIDE DEF u, w1, x, w2, va, flags
<1>7. CASE u = w
  BY <1>7, LiveSelf DEF u
<1>8. CASE u = w1
  BY <1>5, <1>8 DEF Mapped, u
<1>9. CASE ~Stopped(w1) /\ (u = Panics(w2) \/ u = w2)
  <2>1. Live(w1, w, p) /\ UserArea(x) /\ x \in ToSet(w1.mm[p].mmap_list)
    BY <1>5, <1>9 DEF Mapped
  <2>2. StackTop \in Seq(Nat) /\ \A la \in ToSet(StackTop) : InPages(x, la)
    BY <1>6, <2>1, StackCovered
  <2> DEFINE as == w1.mm[p]
  <2>3. x \in ToSet(as.mmap_list)
    BY <2>1
  <2> HIDE DEF as
  <2>4. TRUE \in BOOLEAN /\ (TRUE => "WRITE" \in x.vm_flags)
    BY <1>4
  <2>5. \A la \in ToSet(StackTop) : PageAllowed(as, la, TRUE)
    BY <2>2, <2>3, <2>4, PagesAllowed
  <2>6. Sane(w1, {})
    BY <2>1 DEF Live
  <2>7. Kept(w2, w1, p)
    BY <2>2, <2>4, <2>5, <2>6, MapsPagesFacts DEF as, w2
  <2>8. Live(w2, w, p)
    BY <2>1, <2>7, LiveKept, LiveTwice
  <2>9. Kept(Panics(w2), w2, p)
    <3>1. Sane(w2, {})
      BY <2>7 DEF Kept
    <3>2. QED
      BY <3>1, KeptPanics
  <2>10. Live(Panics(w2), w, p)
    BY <2>8, <2>9, LiveKept, LiveTwice
  <2>11. QED
    BY <1>9, <2>8, <2>10 DEF u
<1>10. QED
  BY <1>3, <1>7, <1>8, <1>9

-----------------------------------------------------------------------------
(***************************************************************************)
(* An address space is taken apart.                                        *)
(***************************************************************************)
(* unmap_range: no page of the area is there any more.                     *)
PagesLeft(bs, as, v) ==
  \A la \in Page : Present(bs, la) => Present(as, la) /\ ~InPages(v, la)

(* It gives back the pages of the area and touches no other.               *)
LEMMA UnmapFacts ==
  ASSUME NEW w, Sane(w, {}), NEW p \in Proc, NEW v, UserArea(v)
  PROVE  Kept(unmap_range(w, p, v), w, p) /\ PagesLeft(unmap_range(w, p, v).mm[p], w.mm[p], v)
<1> DEFINE as == w.mm[p]
           G == {la \in ToSet(Walked(as, v)) : Present(as, la)}
           bs == WithoutPages(as, G)
           F == w.free \cup {as.pte[la].frame : la \in G}
           u == unmap_range(w, p, v)
<1>1. SpaceOk(as) /\ as \in Space /\ w \in MmWorld /\ AllOk(w) /\ w.mm \in Spaces
  BY DEF Sane, SpaceOk, AllOk, MmWorld
<1>2. u = Updated(w, p, bs, F)
  <2>1. u = [w EXCEPT !.free = F,
               !.mm[p].pte = [la \in Page |-> IF la \in G THEN Unmapped ELSE as.pte[la]]]
    BY DEF unmap_range
  <2> DEFINE new == [la \in Page |-> IF la \in G THEN Unmapped ELSE as.pte[la]]
  <2>2. u = [w EXCEPT !.free = F, !.mm[p].pte = new] /\ bs = [as EXCEPT !.pte = new]
    BY <2>1 DEF WithoutPages
  <2> HIDE DEF new, u, F, bs, G
  <2>3. QED
    BY <1>1, <2>2 DEF Updated, Changed, MmWorld
<1>3. ToSet(Walked(as, v)) = {la \in Page : InPages(v, la) /\ as.table[TableOf(la)] # None}
  BY WalkedFacts
<1>4. G \in SUBSET Page
  BY <1>3
<1>5. \A la \in G : as.pte[la].frame \in Frame
  <2>1. ASSUME NEW la \in G PROVE as.pte[la].frame \in Frame
    <3>1. la \in Page /\ Present(as, la)
      BY <1>4
    <3>2. as.pte[la].frame # None
      BY <1>1, <3>1 DEF SpaceOk, PagesOk
    <3>3. as.pte[la].frame \in FrameOrNone
      BY <1>1, <3>1 DEF Space, Pte
    <3>4. QED
      BY <3>2, <3>3 DEF FrameOrNone
  <2>2. QED
    BY <2>1
<1>6. SpaceOk(bs) /\ IsWithoutPages(bs, as, G)
  BY <1>1, WithoutPagesOk, WithoutPagesSpace
<1>7. ExactFrames(Holding(Changed(w.mm, p, bs)), F \cup {})
  <2> DEFINE P == {p} \X {"page"} \X G
             H == Holding(w.mm)
  <2>1. /\ P \subseteq MmPlace
        /\ Holding(Changed(w.mm, p, bs)) = Emptied(H, P)
        /\ {H[x] : x \in P} = {as.pte[la].frame : la \in G}
    <3> HIDE DEF G
    <3>1. QED
      BY <1>1, <1>4, HoldingWithoutPages
  <2>2. ExactFrames(H, w.free \cup {}) /\ w.free \cup {} = w.free
    BY DEF Sane
  <2> HIDE DEF P, H
  <2>3. ExactFrames(Emptied(H, P), w.free \cup ({H[x] : x \in P} \ {None}))
    BY <2>1, <2>2, ExactEmptied
  <2>4. w.free \cup ({H[x] : x \in P} \ {None}) = F \cup {}
    BY <1>5, <2>1, NoneIsNoFrame
  <2>5. QED
    BY <2>1, <2>3, <2>4
<1>8. F \in SUBSET Frame
  BY <1>1, <1>5 DEF MmWorld
<1>9. \A la \in Page : Present(bs, la) => Present(as, la) /\ ~InPages(v, la)
  <2>1. ASSUME NEW la \in Page, Present(bs, la) PROVE Present(as, la) /\ ~InPages(v, la)
    <3>1. bs.pte[la] = IF la \in G THEN Unmapped ELSE as.pte[la]
      BY <1>6 DEF IsWithoutPages
    <3>2. la \notin G /\ Present(as, la)
      BY <2>1, <3>1 DEF Present
    <3>3. la \notin ToSet(Walked(as, v))
      BY <3>2
    <3>4. as.table[TableOf(la)] # None
      BY <1>1, <3>2 DEF SpaceOk, PagesOk
    <3>5. QED
      BY <1>3, <3>2, <3>3, <3>4
  <2>2. QED
    BY <2>1
<1> HIDE DEF u, bs, F, G
<1>10. {} \cap F = {}
  OBVIOUS
<1>11. Fits(w, p, bs, F, {})
  BY <1>1, <1>6, <1>7, <1>8, <1>10 DEF Fits
<1>12. SaneChange(u, w, p, bs, F, {})
  BY <1>2, <1>11, SaneUpdated
<1>13. Kept(u, w, p) /\ u.mm[p] = bs
  BY <1>6, <1>12 DEF SaneChange, Kept, IsWithoutPages
<1>14. QED
  BY <1>9, <1>13 DEF PagesLeft, u

(* exit_range, once no page is mapped: no table of the area is left.       *)
NoPages(as) == \A la \in Page : ~Present(as, la)

(* No page table of the area is left.                                      *)
TablesLeft(bs, as, v) ==
  \A t \in Table : bs.table[t] # None => as.table[t] # None /\ t \notin TablesOf(v)

(* exit_range gives them back.                                             *)
LEMMA ExitFacts ==
  ASSUME NEW w, Sane(w, {}), NEW p \in Proc, NoPages(w.mm[p]), NEW v, UserArea(v)
  PROVE  /\ Kept(exit_range(w, p, v), w, p) /\ NoPages(exit_range(w, p, v).mm[p])
         /\ TablesLeft(exit_range(w, p, v).mm[p], w.mm[p], v)
<1> DEFINE as == w.mm[p]
           G0 == {t \in TablesOf(v) : as.table[t] # None}
           G == {t \in Table : t \in TablesOf(v) /\ as.table[t] # None}
           bs == WithoutTables(as, G)
           F == w.free \cup {as.table[t] : t \in G}
           u == exit_range(w, p, v)
<1>1. SpaceOk(as) /\ as \in Space /\ w \in MmWorld /\ AllOk(w) /\ w.mm \in Spaces
  BY DEF Sane, SpaceOk, AllOk, MmWorld
<1>0. G0 = G
  <2>1. TablesOf(v) \subseteq Table
    <3> DEFINE i == PageOf(v.vm_start)
               j == PageOf(v.vm_end) - 1
    <3>1. InPages(v, i) /\ InPages(v, j)
      <4>1. i \in Nat /\ j \in Nat /\ i <= j
        BY AreaPages
      <4>2. QED
        BY <4>1 DEF InPages
    <3>2. TableOf(i) \in Table /\ TableOf(j) \in Table
      BY <3>1, PagesOfArea
    <3> HIDE DEF i, j
    <3>3. TableOf(i)..TableOf(j) \subseteq Table
      <4> DEFINE a == TableOf(i)
                 b == TableOf(j)
                 c == WORD_SIZE \div (PGSIZE * NPT)
      <4>1. a \in 0..(c - 1) /\ b \in 0..(c - 1) /\ Table = 0..(c - 1)
        BY <3>2 DEF Table
      <4>2. c \in Int
        <5>1. PGSIZE * NPT \in Nat \ {0} /\ WORD_SIZE \in Int
          BY Sizes, DivTwice
        <5>2. QED
          BY <5>1, DivModFacts
      <4> HIDE DEF a, b, c
      <4>3. a..b \subseteq 0..(c - 1)
        BY <4>1, <4>2
      <4>4. QED
        BY <4>1, <4>3 DEF a, b
    <3>4. QED
      BY <3>3 DEF TablesOf, i, j
  <2>2. QED
    BY <2>1
<1>2. u = Updated(w, p, bs, F)
  <2>1. u = [w EXCEPT !.free = w.free \cup {as.table[t] : t \in G0},
               !.mm[p].table = [t \in Table |-> IF t \in G0 THEN None ELSE as.table[t]]]
    BY DEF exit_range
  <2> DEFINE new == [t \in Table |-> IF t \in G THEN None ELSE as.table[t]]
  <2> HIDE DEF G0, G
  <2>2. u = [w EXCEPT !.free = F, !.mm[p].table = new] /\ bs = [as EXCEPT !.table = new]
    BY <1>0, <2>1 DEF WithoutTables
  <2> HIDE DEF new, u, F, bs
  <2>3. QED
    BY <1>1, <2>2 DEF Updated, Changed, MmWorld
<1>4. G \in SUBSET Table
  OBVIOUS
<1>5. \A t \in G : as.table[t] \in Frame
  <2>1. ASSUME NEW t \in G PROVE as.table[t] \in Frame
    <3>1. as.table[t] \in FrameOrNone
      BY <1>1 DEF Space
    <3>2. QED
      BY <3>1 DEF FrameOrNone
  <2>2. QED
    BY <2>1
<1>6. SpaceOk(bs) /\ IsWithoutTables(bs, as, G) /\ NoPages(bs)
  <2>1. \A la \in Page : ~Present(as, la)
    BY DEF NoPages
  <2> HIDE DEF as, G
  <2>2. SpaceOk(WithoutTables(as, G)) /\ \A la \in Page : ~Present(WithoutTables(as, G), la)
    BY <1>1, <2>1, WithoutTablesOk
  <2>3. QED
    BY <1>1, <2>2, WithoutTablesSpace DEF NoPages
<1>7. ExactFrames(Holding(Changed(w.mm, p, bs)), F \cup {})
  <2> DEFINE P == {p} \X {"table"} \X G
             H == Holding(w.mm)
  <2>1. /\ P \subseteq MmPlace
        /\ Holding(Changed(w.mm, p, bs)) = Emptied(H, P)
        /\ {H[x] : x \in P} = {as.table[t] : t \in G}
    <3> HIDE DEF G
    <3>1. QED
      BY <1>1, <1>4, HoldingWithoutTables
  <2>2. ExactFrames(H, w.free \cup {}) /\ w.free \cup {} = w.free
    BY DEF Sane
  <2> HIDE DEF P, H
  <2>3. ExactFrames(Emptied(H, P), w.free \cup ({H[x] : x \in P} \ {None}))
    BY <2>1, <2>2, ExactEmptied
  <2>4. w.free \cup ({H[x] : x \in P} \ {None}) = F \cup {}
    BY <1>5, <2>1, NoneIsNoFrame
  <2>5. QED
    BY <2>1, <2>3, <2>4
<1>8. F \in SUBSET Frame
  BY <1>1, <1>5 DEF MmWorld
<1>9. TablesLeft(bs, as, v)
  <2>1. ASSUME NEW t \in Table, bs.table[t] # None PROVE as.table[t] # None /\ t \notin TablesOf(v)
    <3>1. bs.table[t] = IF t \in G THEN None ELSE as.table[t]
      BY <1>6 DEF IsWithoutTables
    <3>2. QED
      BY <2>1, <3>1
  <2>2. QED
    BY <2>1 DEF TablesLeft
<1> HIDE DEF u, bs, F, G
<1>10. {} \cap F = {}
  OBVIOUS
<1>11. Fits(w, p, bs, F, {})
  BY <1>1, <1>6, <1>7, <1>8, <1>10 DEF Fits
<1>12. SaneChange(u, w, p, bs, F, {})
  BY <1>2, <1>11, SaneUpdated
<1>13. Kept(u, w, p) /\ u.mm[p] = bs
  BY <1>6, <1>12 DEF SaneChange, Kept, IsWithoutTables
<1>14. QED
  BY <1>6, <1>9, <1>13 DEF u

(* unmap_range for one area after the other.                               *)
PagesClear(as, list, k) ==
  \A i \in 1..k : \A la \in Page : Present(as, la) => ~InPages(list[i], la)

(* One more area is clear.                                                 *)
LEMMA PagesClearStep ==
  ASSUME NEW as, NEW bs, NEW list, NEW k \in Nat \ {0}, PagesClear(as, list, k - 1),
         PagesLeft(bs, as, list[k])
  PROVE  PagesClear(bs, list, k)
<1> SUFFICES ASSUME NEW i \in 1..k, NEW la \in Page, Present(bs, la) PROVE ~InPages(list[i], la)
  BY DEF PagesClear
<1>1. Present(as, la) /\ ~InPages(list[k], la)
  BY DEF PagesLeft
<1>2. CASE i = k
  BY <1>1, <1>2
<1>3. CASE i # k
  <2>1. i \in 1..(k - 1)
    BY <1>3
  <2>2. QED
    BY <1>1, <2>1 DEF PagesClear
<1>4. QED
  BY <1>2, <1>3

(* The worlds on the way.                                                  *)
Clearing(w, p, list, n) ==
  [k \in 0..n |-> {u \in KeptWorlds(w, p) : PagesClear(u.mm[p], list, k)}]

(* What is in them.                                                        *)
LEMMA ClearingIs ==
  ASSUME NEW w, NEW p, NEW list, NEW n \in Nat, NEW k \in 0..n, NEW u
  PROVE  u \in Clearing(w, p, list, n)[k] <=> Kept(u, w, p) /\ PagesClear(u.mm[p], list, k)
<1>1. Clearing(w, p, list, n)[k] = {x \in KeptWorlds(w, p) : PagesClear(x.mm[p], list, k)}
  BY DEF Clearing
<1>2. QED
  BY <1>1, InKeptWorlds

(* After all areas no page is left, because each page has an area.         *)
LEMMA PagesGoneFacts ==
  ASSUME NEW w, Sane(w, {}), NEW p \in Proc, NEW list, list = w.mm[p].mmap_list
  PROVE  Kept(PagesGone(w, p, list), w, p) /\ NoPages(PagesGone(w, p, list).mm[p])
<1> DEFINE W == KeptWorlds(w, p)
           n == Len(list)
           Q == Clearing(w, p, list, n)
           r == PagesGone(w, p, list)
<1>1. SpaceOk(w.mm[p]) /\ list \in Seq(Area) /\ n \in Nat
  <2>1. SpaceOk(w.mm[p]) /\ list \in Seq(Area)
    BY DEF Sane, SpaceOk, Space
  <2>2. QED
    BY <2>1, LenProperties
<1>2. \A k \in 1..n : UserArea(list[k])
  BY <1>1 DEF SpaceOk, AreasOk
<1>3. w \in W
  BY InKeptWorlds, KeptSelf
<1> HIDE DEF Q, r
<1>4. ASSUME NEW k \in 1..n, NEW u, Kept(u, w, p)
      PROVE  /\ Kept(unmap_range(u, p, list[k]), w, p)
             /\ PagesLeft(unmap_range(u, p, list[k]).mm[p], u.mm[p], list[k])
  <2>1. Sane(u, {}) /\ UserArea(list[k])
    BY <1>2, <1>4 DEF Kept
  <2>2. Kept(unmap_range(u, p, list[k]), u, p)
    BY <2>1, UnmapFacts
  <2>3. QED
    BY <1>4, <2>1, <2>2, UnmapFacts, KeptTwice
<1>5. ASSUME NEW u \in W, NEW k \in 1..n PROVE unmap_range(u, p, list[k]) \in W
  BY <1>4, <1>5, InKeptWorlds
<1>6. w \in Q[0]
  <2>1. PagesClear(w.mm[p], list, 0)
    BY DEF PagesClear
  <2>2. 0 \in 0..n
    BY <1>1
  <2>3. QED
    BY <1>1, <2>1, <2>2, ClearingIs, KeptSelf DEF Q
<1>7. ASSUME NEW k \in 1..n, NEW u \in Q[k - 1] PROVE unmap_range(u, p, list[k]) \in Q[k]
  <2>1. k - 1 \in 0..n /\ k \in 0..n /\ k \in Nat \ {0}
    BY <1>1
  <2>2. Kept(u, w, p) /\ PagesClear(u.mm[p], list, k - 1)
    BY <1>1, <2>1, ClearingIs DEF Q
  <2> DEFINE x == unmap_range(u, p, list[k])
  <2>3. Kept(x, w, p) /\ PagesLeft(x.mm[p], u.mm[p], list[k])
    BY <1>4, <2>2
  <2> HIDE DEF x
  <2>4. PagesClear(x.mm[p], list, k)
    BY <2>1, <2>2, <2>3, PagesClearStep
  <2>5. x \in Q[k]
    BY <1>1, <2>1, <2>3, <2>4, ClearingIs DEF Q
  <2>6. QED
    BY <2>5 DEF x
<1> HIDE DEF W
<1>8. r \in Q[n]
  BY <1>1, <1>3, <1>5, <1>6, <1>7, PagesGoneFold DEF r
<1>9. Kept(r, w, p) /\ PagesClear(r.mm[p], list, n)
  <2>1. n \in 0..n
    BY <1>1
  <2>2. QED
    BY <1>1, <1>8, <2>1, ClearingIs DEF Q
<1>10. ASSUME NEW la \in Page, Present(r.mm[p], la) PROVE FALSE
  <2> DEFINE as == r.mm[p]
  <2>1. SpaceOk(as) /\ as.mmap_list = list
    BY <1>9 DEF Kept, Sane
  <2>2. PageAllowed(as, la, as.pte[la].w)
    BY <1>10, <2>1 DEF SpaceOk, PagesOk
  <2>3. PICK v \in ToSet(as.mmap_list) : InPages(v, la)
    BY <2>2 DEF PageAllowed
  <2>4. PICK i \in 1..n : list[i] = v
    BY <1>1, <2>1, <2>3, ListSet
  <2>5. QED
    BY <1>9, <1>10, <2>3, <2>4 DEF PagesClear
<1>11. QED
  BY <1>9, <1>10 DEF NoPages, r

(* exit_range for one area after the other.                                *)
TablesClear(as, list, k) ==
  \A i \in 1..k : \A t \in Table : as.table[t] # None => t \notin TablesOf(list[i])

(* One more area is without page tables.                                   *)
LEMMA TablesClearStep ==
  ASSUME NEW as, NEW bs, NEW list, NEW k \in Nat \ {0}, TablesClear(as, list, k - 1),
         TablesLeft(bs, as, list[k])
  PROVE  TablesClear(bs, list, k)
<1> SUFFICES ASSUME NEW i \in 1..k, NEW t \in Table, bs.table[t] # None PROVE t \notin TablesOf(list[i])
  BY DEF TablesClear
<1>1. as.table[t] # None /\ t \notin TablesOf(list[k])
  BY DEF TablesLeft
<1>2. CASE i = k
  BY <1>1, <1>2
<1>3. CASE i # k
  <2>1. i \in 1..(k - 1)
    BY <1>3
  <2>2. QED
    BY <1>1, <2>1 DEF TablesClear
<1>4. QED
  BY <1>2, <1>3

(* The worlds where p has no page.                                         *)
EmptyWorlds(w, p) == {u \in KeptWorlds(w, p) : NoPages(u.mm[p])}

(* What is in this set.                                                    *)
LEMMA InEmptyWorlds ==
  ASSUME NEW w, NEW p, NEW u PROVE u \in EmptyWorlds(w, p) <=> Kept(u, w, p) /\ NoPages(u.mm[p])
BY InKeptWorlds DEF EmptyWorlds

(* The worlds on the way.                                                  *)
Exiting(w, p, list, n) ==
  [k \in 0..n |-> {u \in EmptyWorlds(w, p) : TablesClear(u.mm[p], list, k)}]

(* What is in them.                                                        *)
LEMMA ExitingIs ==
  ASSUME NEW w, NEW p, NEW list, NEW n \in Nat, NEW k \in 0..n, NEW u
  PROVE  u \in Exiting(w, p, list, n)[k]
           <=> Kept(u, w, p) /\ NoPages(u.mm[p]) /\ TablesClear(u.mm[p], list, k)
<1>1. Exiting(w, p, list, n)[k] = {x \in EmptyWorlds(w, p) : TablesClear(x.mm[p], list, k)}
  BY DEF Exiting
<1>2. QED
  BY <1>1, InEmptyWorlds

(* No page table is left.                                                  *)
NoTables(as) == \A t \in Table : as.table[t] = None

(* After all areas none is left, because each page table has an area.      *)
LEMMA TablesGoneFacts ==
  ASSUME NEW w, Sane(w, {}), NEW p \in Proc, NoPages(w.mm[p]), NEW list, list = w.mm[p].mmap_list
  PROVE  /\ Kept(TablesGone(w, p, list), w, p) /\ NoPages(TablesGone(w, p, list).mm[p])
         /\ NoTables(TablesGone(w, p, list).mm[p])
<1> DEFINE W == EmptyWorlds(w, p)
           n == Len(list)
           Q == Exiting(w, p, list, n)
           r == TablesGone(w, p, list)
<1>1. SpaceOk(w.mm[p]) /\ list \in Seq(Area) /\ n \in Nat
  <2>1. SpaceOk(w.mm[p]) /\ list \in Seq(Area)
    BY DEF Sane, SpaceOk, Space
  <2>2. QED
    BY <2>1, LenProperties
<1>2. \A k \in 1..n : UserArea(list[k])
  BY <1>1 DEF SpaceOk, AreasOk
<1>3. w \in W
  BY InEmptyWorlds, KeptSelf
<1> HIDE DEF Q, r
<1>4. ASSUME NEW k \in 1..n, NEW u, Kept(u, w, p), NoPages(u.mm[p])
      PROVE  /\ Kept(exit_range(u, p, list[k]), w, p)
             /\ NoPages(exit_range(u, p, list[k]).mm[p])
             /\ TablesLeft(exit_range(u, p, list[k]).mm[p], u.mm[p], list[k])
  <2>1. Sane(u, {}) /\ UserArea(list[k])
    BY <1>2, <1>4 DEF Kept
  <2>2. Kept(exit_range(u, p, list[k]), u, p)
    BY <1>4, <2>1, ExitFacts
  <2>3. QED
    BY <1>4, <2>1, <2>2, ExitFacts, KeptTwice
<1>5. ASSUME NEW u \in W, NEW k \in 1..n PROVE exit_range(u, p, list[k]) \in W
  BY <1>4, <1>5, InEmptyWorlds
<1>6. w \in Q[0]
  <2>1. TablesClear(w.mm[p], list, 0)
    BY DEF TablesClear
  <2>2. 0 \in 0..n
    BY <1>1
  <2>3. QED
    BY <1>1, <2>1, <2>2, ExitingIs, KeptSelf DEF Q
<1>7. ASSUME NEW k \in 1..n, NEW u \in Q[k - 1] PROVE exit_range(u, p, list[k]) \in Q[k]
  <2>1. k - 1 \in 0..n /\ k \in 0..n /\ k \in Nat \ {0}
    BY <1>1
  <2>2. Kept(u, w, p) /\ NoPages(u.mm[p]) /\ TablesClear(u.mm[p], list, k - 1)
    BY <1>1, <2>1, ExitingIs DEF Q
  <2> DEFINE x == exit_range(u, p, list[k])
  <2>3. Kept(x, w, p) /\ NoPages(x.mm[p]) /\ TablesLeft(x.mm[p], u.mm[p], list[k])
    BY <1>4, <2>2
  <2> HIDE DEF x
  <2>4. TablesClear(x.mm[p], list, k)
    BY <2>1, <2>2, <2>3, TablesClearStep
  <2>5. x \in Q[k]
    BY <1>1, <2>1, <2>3, <2>4, ExitingIs DEF Q
  <2>6. QED
    BY <2>5 DEF x
<1> HIDE DEF W
<1>8. r \in Q[n]
  BY <1>1, <1>3, <1>5, <1>6, <1>7, TablesGoneFold DEF r
<1>9. Kept(r, w, p) /\ NoPages(r.mm[p]) /\ TablesClear(r.mm[p], list, n)
  <2>1. n \in 0..n
    BY <1>1
  <2>2. QED
    BY <1>1, <1>8, <2>1, ExitingIs DEF Q
<1>10. ASSUME NEW t \in Table, r.mm[p].table[t] # None PROVE FALSE
  <2> DEFINE as == r.mm[p]
  <2>1. SpaceOk(as) /\ as.mmap_list = list
    BY <1>9 DEF Kept, Sane
  <2>2. TableAllowed(as, t)
    BY <1>10, <2>1 DEF SpaceOk, TablesOk
  <2>3. PICK v \in ToSet(as.mmap_list) : t \in TablesOf(v)
    BY <2>2 DEF TableAllowed
  <2>4. PICK i \in 1..n : list[i] = v
    BY <1>1, <2>1, <2>3, ListSet
  <2>5. QED
    BY <1>9, <1>10, <2>3, <2>4 DEF TablesClear
<1>11. QED
  BY <1>9, <1>10 DEF NoTables, r

(* An address space without pages and page tables holds a page directory.  *)
LEMMA HoldingNoMm ==
  ASSUME NEW m \in Spaces, NEW p \in Proc, NoPages(m[p]), NoTables(m[p])
  PROVE  Holding(Changed(m, p, NoMm)) = Emptied(Holding(m), {<<p, "pgdir", 0>>})
<1> DEFINE H == Holding(m)
           P == {<<p, "pgdir", 0>>}
           K == Emptied(H, P)
<1>1. OnPlaces(K)
  BY DEF OnPlaces, Emptied
<1>2. <<p, "pgdir", 0>> \in MmPlace /\ K[<<p, "pgdir", 0>>] = None
  BY MmPlaceForms DEF Emptied
<1>3. ASSUME NEW t \in Table PROVE K[<<p, "table", t>>] = None
  <2>1. <<p, "table", t>> \in MmPlace /\ H[<<p, "table", t>>] = m[p].table[t]
    <3>1. <<p, "table", t>> \in MmPlace
      BY MmPlaceForms
    <3>2. Holding(m)[<<p, "table", t>>] = m[p].table[t]
      BY HoldingForms
    <3>3. QED
      BY <3>1, <3>2
  <2>2. m[p].table[t] = None
    BY DEF NoTables
  <2> HIDE DEF H
  <2>3. QED
    BY <2>1, <2>2 DEF Emptied
<1>4. ASSUME NEW la \in Page PROVE K[<<p, "page", la>>] = None
  <2>1. <<p, "page", la>> \in MmPlace /\ H[<<p, "page", la>>] = m[p].pte[la].frame
    <3>1. <<p, "page", la>> \in MmPlace
      BY MmPlaceForms
    <3>2. Holding(m)[<<p, "page", la>>] = m[p].pte[la].frame
      BY HoldingForms
    <3>3. QED
      BY <3>1, <3>2
  <2>2. m[p].pte[la].frame = None
    BY UnmappedPte DEF NoPages, Present
  <2> HIDE DEF H
  <2>3. QED
    BY <2>1, <2>2 DEF Emptied
<1>5. ASSUME NEW x \in MmPlace, x[1] # p PROVE K[x] = H[x]
  <2>1. x \notin P
    BY <1>5
  <2> HIDE DEF H, P
  <2>2. QED
    BY <2>1 DEF Emptied
<1> HIDE DEF K
<1>6. HoldsInstead(K, m, p, NoMm)
  <2>1. \A t \in Table : K[<<p, "table", t>>] = NoMm.table[t]
    BY <1>3, NoMmOk
  <2>2. \A la \in Page : K[<<p, "page", la>>] = NoMm.pte[la].frame
    BY <1>4, NoMmOk, UnmappedPte
  <2>3. K[<<p, "pgdir", 0>>] = NoMm.pgdir
    BY <1>2, NoMmOk
  <2>4. QED
    BY <1>1, <1>5, <2>1, <2>2, <2>3 DEF HoldsInstead
<1>7. Holding(Changed(m, p, NoMm)) = K
  BY <1>6, NoMmOk, HoldingChanged
<1>8. QED
  BY <1>7 DEF K

(* TakesApart gives back everything.                                       *)
LEMMA TakesApartFacts ==
  ASSUME NEW w, Sane(w, {}), NEW p \in Proc
  PROVE  Live(TakesApart(w, p), w, p) /\ TakesApart(w, p).mm[p] = NoMm
<1> DEFINE list == w.mm[p].mmap_list
           w0 == PagesGone(w, p, list)
           w1 == TablesGone(w0, p, list)
           f == w1.mm[p].pgdir
           F == w1.free \cup ({f} \ {None})
           u == TakesApart(w, p)
<1>1. exit_mmap(w, p) = w1
  BY DEF exit_mmap, PagesGone, TablesGone
<1>2. u = [w1 EXCEPT !.mm[p] = NoMm, !.free = F]
  <2>1. u = [exit_mmap(w, p) EXCEPT !.mm[p] = NoMm,
               !.free = @ \cup ({exit_mmap(w, p).mm[p].pgdir} \ {None})]
    BY DEF TakesApart
  <2> HIDE DEF w1, u
  <2>2. QED
    BY <1>1, <2>1
<1>3. Kept(w0, w, p) /\ NoPages(w0.mm[p])
  <2>1. list = w.mm[p].mmap_list
    OBVIOUS
  <2> HIDE DEF list
  <2>2. QED
    BY <2>1, PagesGoneFacts
<1> HIDE DEF w0
<1>4. Kept(w1, w0, p) /\ NoPages(w1.mm[p]) /\ NoTables(w1.mm[p])
  <2>1. list = w0.mm[p].mmap_list /\ Sane(w0, {})
    BY <1>3 DEF Kept
  <2> HIDE DEF list
  <2>2. QED
    BY <1>3, <2>1, TablesGoneFacts
<1> HIDE DEF list, w1, u
<1>5. Kept(w1, w, p) /\ Live(w1, w, p) /\ Sane(w1, {})
  BY <1>3, <1>4, KeptTwice, LiveKept DEF Kept
<1>6. w1 \in MmWorld /\ w1.mm \in Spaces /\ AllOk(w1) /\ f \in FrameOrNone
  <2>1. w1 \in MmWorld /\ w1.mm \in Spaces /\ AllOk(w1)
    BY <1>5 DEF Sane, AllOk, MmWorld
  <2>2. f \in FrameOrNone
    BY <2>1 DEF Spaces, Space
  <2>3. QED
    BY <2>1, <2>2
<1>7. F \in SUBSET Frame
  BY <1>6 DEF MmWorld, FrameOrNone
<1>8. ExactFrames(Holding(Changed(w1.mm, p, NoMm)), F \cup {})
  <2> DEFINE x == <<p, "pgdir", 0>>
             H == Holding(w1.mm)
  <2>1. x \in MmPlace /\ H[x] = f
    BY MmPlaceForms, HoldingForms
  <2>2. Holding(Changed(w1.mm, p, NoMm)) = Emptied(H, {x})
    BY <1>4, <1>6, HoldingNoMm
  <2>3. ExactFrames(H, w1.free \cup {}) /\ w1.free \cup {} = w1.free
    BY <1>5 DEF Sane
  <2> HIDE DEF x, H, f
  <2>4. {x} \in SUBSET MmPlace
    BY <2>1
  <2>5. ExactFrames(Emptied(H, {x}), w1.free \cup ({H[y] : y \in {x}} \ {None}))
    BY <2>3, <2>4, ExactEmptied
  <2>6. w1.free \cup ({H[y] : y \in {x}} \ {None}) = F \cup {}
    BY <2>1
  <2>7. QED
    BY <2>2, <2>5, <2>6
<1>9. u = Updated(w1, p, NoMm, F)
  <2> HIDE DEF F
  <2>1. QED
    BY <1>2, <1>6 DEF Updated, Changed, MmWorld
<1> HIDE DEF F, f
<1>10. {} \cap F = {}
  OBVIOUS
<1>11. Fits(w1, p, NoMm, F, {})
  BY <1>6, <1>7, <1>8, <1>10, NoMmOk DEF Fits
<1>12. SaneChange(u, w1, p, NoMm, F, {})
  BY <1>9, <1>11, SaneUpdated
<1>13. Live(u, w1, p) /\ u.mm[p] = NoMm
  BY <1>12 DEF SaneChange, Live
<1>14. QED
  BY <1>5, <1>13, LiveTwice DEF u

-----------------------------------------------------------------------------
(***************************************************************************)
(* An address space is made.                                               *)
(***************************************************************************)
(* mm_create, for a process without an address space.                      *)
LEMMA MmCreateFacts ==
  ASSUME NEW w, Sane(w, {}), NEW p \in Proc, w.mm[p] = NoMm
  PROVE  Sane(mm_create(w, p), {}) /\ mm_create(w, p).mm = w.mm
<1> DEFINE u == mm_create(w, p)
<1>1. CASE w.kmallocs = 0
  <2>1. u = NoMemory(w)
    BY <1>1 DEF mm_create
  <2>2. Sane(NoMemory(w), {}) /\ NoMemory(w).mm = w.mm
    BY SaneNoMemory
  <2> HIDE DEF u
  <2>3. QED
    BY <2>1, <2>2 DEF u
<1>2. CASE w.kmallocs # 0
  <2>1. w \in MmWorld /\ w.mm \in Spaces
    BY DEF Sane, MmWorld
  <2>2. u = [w EXCEPT !.kmallocs = @ - 1, !.mm[p] = NoMm]
    BY <1>2 DEF mm_create
  <2>3. [w.mm EXCEPT ![p] = NoMm] = w.mm
    BY <2>1 DEF Spaces
  <2>4. u = Kmallocs(w)
    <3> DEFINE m == w.mm
    <3>1. u = [w EXCEPT !.kmallocs = @ - 1, !.mm = [m EXCEPT ![p] = NoMm]]
      BY <2>1, <2>2 DEF MmWorld
    <3>2. [m EXCEPT ![p] = NoMm] = m
      BY <2>3
    <3>3. u = [w EXCEPT !.kmallocs = @ - 1, !.mm = m]
      BY <3>1, <3>2
    <3> HIDE DEF u
    <3>4. QED
      BY <2>1, <3>3 DEF Kmallocs, MmWorld
  <2> HIDE DEF u
  <2>5. QED
    BY <1>2, <2>4, KmallocsFacts DEF u
<1>3. QED
  BY <1>1, <1>2

(* setup_pgdir, for an address space without a page directory.             *)
LEMMA SetupPgdirFacts ==
  ASSUME NEW w, Sane(w, {}), NEW p \in Proc, w.mm[p].pgdir = None
  PROVE  Kept(setup_pgdir(w, p), w, p)
<1> DEFINE u == setup_pgdir(w, p)
           g == FreeFrame(w)
           as == WithPgdir(w.mm[p], g)
           F == w.free \ {g}
<1>1. u = IF Stopped(w) THEN w ELSE IF w.free = {} THEN NoMemory(w)
          ELSE [w EXCEPT !.mm[p].pgdir = g, !.free = @ \ {g}]
  BY DEF setup_pgdir
<1>2. SpaceOk(w.mm[p]) /\ w.mm[p] \in Space /\ w \in MmWorld /\ w.mm \in Spaces /\ AllOk(w)
  BY DEF Sane, SpaceOk, MmWorld, AllOk
<1>3. CASE Stopped(w)
  BY <1>1, <1>3, KeptSelf
<1>4. CASE ~Stopped(w) /\ w.free = {}
  <2>1. u = NoMemory(w)
    BY <1>1, <1>4
  <2> HIDE DEF u
  <2>2. QED
    BY <2>1, KeptNoMemory DEF u
<1>5. CASE ~Stopped(w) /\ w.free # {}
  <2>1. g \in w.free /\ g \in Frame /\ g # None /\ g \in FrameOrNone
    BY <1>5, FreeFrameFacts DEF FrameOrNone
  <2>2. u = Updated(w, p, as, F)
    <3>1. u = [w EXCEPT !.mm[p].pgdir = g, !.free = w.free \ {g}]
      BY <1>1, <1>5
    <3> HIDE DEF u, g
    <3>2. QED
      BY <1>2, <3>1 DEF Updated, Changed, WithPgdir, MmWorld
  <2> HIDE DEF u, g
  <2>3. SpaceOk(as)
    BY <1>2, <2>1, WithPgdirOk
  <2>4. as.mmap_list = w.mm[p].mmap_list
    BY <1>2, <2>1, WithPgdirSpace
  <2>5. ExactFrames(Holding(Changed(w.mm, p, as)), F \cup {})
    <3> DEFINE x == <<p, "pgdir", 0>>
               H == Holding(w.mm)
    <3>1. x \in MmPlace /\ H[x] = None
      BY MmPlaceForms, HoldingForms
    <3>2. ExactFrames(H, w.free \cup {}) /\ w.free \cup {} = w.free
      BY DEF Sane
    <3>3. Holding(Changed(w.mm, p, as)) = Places(H, x, g)
      BY <1>2, <2>1, HoldingPgdir
    <3> HIDE DEF x, H, as
    <3>4. ExactFrames(Places(H, x, g), w.free \ {g})
      BY <2>1, <3>1, <3>2, ExactPut
    <3>5. F \cup {} = w.free \ {g}
      OBVIOUS
    <3>6. QED
      BY <3>3, <3>4, <3>5
  <2>6. F \in SUBSET Frame /\ {} \cap F = {}
    BY <1>2 DEF MmWorld
  <2> HIDE DEF as, F
  <2>7. Fits(w, p, as, F, {})
    BY <1>2, <2>3, <2>5, <2>6 DEF Fits
  <2>8. SaneChange(u, w, p, as, F, {})
    BY <2>2, <2>7, SaneUpdated
  <2>9. QED
    BY <2>4, <2>8 DEF SaneChange, Kept, u
<1>6. QED
  BY <1>3, <1>4, <1>5

(* Whoever fails half way gives back everything.                           *)
Done(r, w, p) == Live(r, w, p) /\ (~r.panicked /\ r.ret # "0" => r.mm[p] = NoMm)

(* CleansUp does that.                                                     *)
LEMMA CleansUpFacts ==
  ASSUME NEW w, Sane(w, {}), NEW p \in Proc
  PROVE  Done(CleansUp(w, p), w, p)
<1> DEFINE r == CleansUp(w, p)
<1>1. CASE w.ret = "0" \/ w.panicked
  <2>1. r = w
    BY <1>1 DEF CleansUp
  <2> HIDE DEF r
  <2>2. QED
    BY <1>1, <2>1, LiveSelf DEF Done, r
<1>2. CASE ~(w.ret = "0" \/ w.panicked)
  <2>1. r = TakesApart(w, p)
    BY <1>2 DEF CleansUp
  <2>2. Live(TakesApart(w, p), w, p) /\ TakesApart(w, p).mm[p] = NoMm
    BY TakesApartFacts
  <2> HIDE DEF r
  <2>3. QED
    BY <2>1, <2>2 DEF Done, r
<1>3. QED
  BY <1>1, <1>2

(* It may be done after something else.                                    *)
LEMMA DoneAfter ==
  ASSUME NEW r, NEW v, NEW w, NEW p, Done(r, v, p), Live(v, w, p) PROVE Done(r, w, p)
BY LiveTwice DEF Done

(* mm_create and setup_pgdir, as load_icode and copy_mm call them.         *)
LEMMA CreatedFacts ==
  ASSUME NEW w, Sane(w, {}), NEW p \in Proc, w.mm[p] = NoMm
  PROVE  Live(setup_pgdir(mm_create(w, p), p), w, p)
<1> DEFINE w1 == mm_create(w, p)
<1>1. Sane(w1, {}) /\ w1.mm = w.mm
  BY MmCreateFacts
<1> HIDE DEF w1
<1>2. w1.mm[p].pgdir = None
  BY <1>1, NoMmOk
<1>3. Kept(setup_pgdir(w1, p), w1, p)
  BY <1>1, <1>2, SetupPgdirFacts
<1>4. Live(w1, w, p)
  BY <1>1 DEF Live, Others
<1>5. QED
  BY <1>3, <1>4, LiveKept, LiveTwice DEF w1

(* load_icode, for a file whose segments fit in the addresses there are.   *)
LEMMA LoadsSegmentsFacts ==
  ASSUME NEW w, Sane(w, {}), NEW p \in Proc, NEW prog \in Program
  PROVE  Live(LoadsSegments(w, p, prog), w, p)
<1> DEFINE W == LiveWorlds(w, p)
           n == Len(prog)
           Q == Always(n, W)
<1>1. w \in W
  BY InLiveWorlds, LiveSelf
<1>2. prog \in Seq(Header) /\ n \in Nat
  <2>1. prog \in Seq(Header)
    BY ProgramAssumption DEF Header
  <2>2. QED
    BY <2>1, LenProperties
<1>3. ASSUME NEW u \in W, NEW k \in 1..n PROVE LoadsSegment(u, p, prog[k]) \in W
  <2> DEFINE ph == prog[k]
  <2>1. Live(u, w, p)
    BY InLiveWorlds
  <2>2. ph \in Header /\ ph.memsz + (ph.va % PGSIZE) <= WORD_SIZE
    <3>1. ph \in Header
      BY <1>2, ElementOfSeq
    <3>2. prog[k].memsz + (prog[k].va % PGSIZE) <= WORD_SIZE
      BY ProgramAssumption
    <3>3. QED
      BY <3>1, <3>2
  <2> HIDE DEF ph
  <2>3. Sane(u, {})
    BY <2>1 DEF Live
  <2>4. Live(LoadsSegment(u, p, ph), u, p)
    BY <2>2, <2>3, LoadsSegmentFacts
  <2>5. Live(LoadsSegment(u, p, ph), w, p)
    BY <2>1, <2>4, LiveTwice
  <2>6. QED
    BY <2>5, InLiveWorlds DEF ph
<1>4. Q[0] = W /\ Q[n] = W /\ \A k \in 1..n : Q[k - 1] = W /\ Q[k] = W
  BY <1>2, AlwaysIs
<1> HIDE DEF W, Q
<1>5. w \in Q[0] /\ \A k \in 1..n : \A u \in Q[k - 1] : LoadsSegment(u, p, prog[k]) \in Q[k]
  BY <1>1, <1>3, <1>4
<1>6. LoadsSegments(w, p, prog) \in Q[n]
  BY <1>1, <1>2, <1>3, <1>5, LoadsSegmentsFold
<1>7. QED
  BY <1>4, <1>6, InLiveWorlds DEF W

(* load_icode loads the program, or gives back everything.                 *)
LEMMA LoadIcodeFacts ==
  ASSUME NEW w, Sane(w, {}), NEW p \in Proc, w.mm[p] = NoMm, NEW prog \in Program
  PROVE  Done(load_icode(w, p, prog), w, p)
<1> DEFINE w1 == setup_pgdir(mm_create(w, p), p)
           w2 == LoadsSegments(w1, p, prog)
           w3 == LoadsStack(w2, p)
<1>1. load_icode(w, p, prog) = CleansUp(w3, p)
  BY DEF load_icode, LoadsSegments
<1>2. Live(w1, w, p)
  BY CreatedFacts
<1> HIDE DEF w1
<1>3. Live(w2, w1, p)
  BY <1>2, LoadsSegmentsFacts DEF Live
<1> HIDE DEF w2
<1>4. Live(w3, w2, p)
  BY <1>3, LoadsStackFacts DEF Live
<1> HIDE DEF w3
<1>5. Live(w3, w, p) /\ Sane(w3, {})
  BY <1>2, <1>3, <1>4, LiveTwice DEF Live
<1>6. Done(CleansUp(w3, p), w3, p)
  BY <1>5, CleansUpFacts
<1>7. QED
  BY <1>1, <1>5, <1>6, DoneAfter

(* copy_range of an area that both processes have.                         *)
LEMMA CopyRangeFacts ==
  ASSUME NEW w, Sane(w, {}), NEW from \in Proc, NEW to \in Proc, from # to,
         NEW v \in ToSet(w.mm[from].mmap_list), v \in ToSet(w.mm[to].mmap_list)
  PROVE  Kept(copy_range(w, from, to, v), w, to)
<1> DEFINE as == w.mm[from]
           pages == Walked(as, v)
           W == KeptWorlds(w, to)
           n == Len(pages)
           Q == Always(n, W)
<1>1. SpaceOk(as) /\ UserArea(v) /\ as \in Space
  <2>1. SpaceOk(as)
    BY DEF Sane
  <2>2. v \in ToSet(as.mmap_list)
    OBVIOUS
  <2> HIDE DEF as
  <2>3. QED
    BY <2>1, <2>2, AreaFacts DEF SpaceOk
<1>2. pages \in Seq(Nat) /\ ToSet(pages) = {la \in Page : InPages(v, la) /\ as.table[TableOf(la)] # None}
  BY <1>1, WalkedFacts
<1>3. w \in W
  BY InKeptWorlds, KeptSelf
<1>4. copy_range(w, from, to, v) = CopiesPages(w, from, to, pages)
  BY DEF copy_range, CopiesPages
<1> HIDE DEF pages
<1>5. ASSUME NEW u \in W, NEW k \in 1..n PROVE CopiesOne(u, from, to, pages[k]) \in W
  <2> DEFINE la == pages[k]
             write == as.pte[la].w
  <2>1. Kept(u, w, to)
    BY InKeptWorlds
  <2>2. la \in Page /\ InPages(v, la)
    <3>1. la \in ToSet(pages)
      BY <1>2, ListSet
    <3>2. QED
      BY <1>2, <3>1
  <2> HIDE DEF la
  <2>3. u.mm[from] = as /\ Sane(u, {}) /\ u.mm[to].mmap_list = w.mm[to].mmap_list
    BY <2>1 DEF Kept, Others
  <2> HIDE DEF as, W
  <2>4. CASE Stopped(u) \/ ~Present(u.mm[from], la)
    <3>1. CopiesOne(u, from, to, la) = u
      BY <2>4 DEF CopiesOne
    <3>2. QED
      BY <2>1, <3>1, InKeptWorlds DEF la, W
  <2>5. CASE ~(Stopped(u) \/ ~Present(u.mm[from], la))
    <3>1. CopiesOne(u, from, to, la) = CopyPage(u, from, to, la)
      BY <2>5 DEF CopiesOne
    <3>2. PageAllowed(as, la, write)
      BY <1>1, <2>2, <2>3, <2>5 DEF SpaceOk, PagesOk
    <3>3. PICK x \in ToSet(as.mmap_list) : InPages(x, la) /\ (write => "WRITE" \in x.vm_flags)
      BY <3>2 DEF PageAllowed
    <3>4. x = v
      BY <1>1, <2>2, <3>3, OneArea DEF as
    <3>5. PageAllowed(u.mm[to], la, write)
      BY <2>2, <2>3, <3>3, <3>4 DEF PageAllowed
    <3>6. PageAllowed(u.mm[to], la, u.mm[from].pte[la].w)
      BY <2>3, <3>5
    <3>7. Kept(CopyPage(u, from, to, la), u, to)
      BY <2>3, <3>6, CopyPageFacts
    <3>8. Kept(CopyPage(u, from, to, la), w, to)
      BY <2>1, <3>7, KeptTwice
    <3>9. QED
      BY <3>1, <3>8, InKeptWorlds DEF la, W
  <2>6. QED
    BY <2>4, <2>5
<1>6. n \in Nat
  BY <1>2, LenProperties
<1>7. Q[0] = W /\ Q[n] = W /\ \A k \in 1..n : Q[k - 1] = W /\ Q[k] = W
  BY <1>6, AlwaysIs
<1> HIDE DEF W, Q, as
<1>8. w \in Q[0] /\ \A k \in 1..n : \A u \in Q[k - 1] : CopiesOne(u, from, to, pages[k]) \in Q[k]
  BY <1>3, <1>5, <1>7
<1>9. CopiesPages(w, from, to, pages) \in Q[n]
  BY <1>2, <1>3, <1>5, <1>8, CopiesPagesFold
<1>10. QED
  BY <1>4, <1>7, <1>9, InKeptWorlds DEF W

(* The order in which dup_mmap goes through the list.                      *)
LEMMA CopyOrder ==
  ASSUME NEW list \in Seq(Area)
  PROVE  /\ ListToCopy(list) \in Seq(Area) /\ Len(ListToCopy(list)) = Len(list)
         /\ \A i \in 1..Len(list) : ListToCopy(list)[i] = list[(Len(list) - i) + 1]
<1> DEFINE n == Len(list)
           r == ListToCopy(list)
<1>1. n \in Nat /\ \A i \in 1..n : list[i] \in Area
  BY LenProperties, ElementOfSeq
<1>2. r = [i \in 1..n |-> list[(n - i) + 1]]
  BY DEF ListToCopy, Reverse
<1> HIDE DEF n, r
<1>3. \A i \in 1..n : (n - i) + 1 \in 1..n
  BY <1>1
<1>4. r \in Seq(Area) /\ Len(r) = n /\ \A i \in 1..n : r[i] = list[(n - i) + 1]
  BY <1>1, <1>2, <1>3
<1>5. QED
  BY <1>4 DEF r, n

(* It goes through the areas of the parent only.                           *)
LEMMA ListToCopyFacts ==
  ASSUME NEW list \in Seq(Area)
  PROVE  ListToCopy(list) \in Seq(Area) /\ ToSet(ListToCopy(list)) \subseteq ToSet(list)
<1> DEFINE n == Len(list)
           r == ListToCopy(list)
<1>1. n \in Nat
  BY LenProperties
<1>2. r \in Seq(Area) /\ Len(r) = n /\ \A i \in 1..n : r[i] = list[(n - i) + 1]
  BY CopyOrder
<1> HIDE DEF n, r
<1>3. \A i \in 1..n : (n - i) + 1 \in 1..n
  BY <1>1
<1>4. ASSUME NEW v \in ToSet(r) PROVE v \in ToSet(list)
  <2>1. PICK i \in 1..n : r[i] = v
    BY <1>2, ListSet
  <2>2. v = list[(n - i) + 1] /\ (n - i) + 1 \in 1..Len(list)
    BY <1>2, <1>3, <2>1 DEF n
  <2>3. QED
    BY <2>2, ListSet
<1>5. QED
  BY <1>2, <1>4 DEF r

(* dup_mmap leaves a sane world.                                           *)
LEMMA DupMmapFacts ==
  ASSUME NEW w, Sane(w, {}), NEW to \in Proc, NEW from \in Proc, from # to
  PROVE  Live(dup_mmap(w, to, from), w, to)
<1> DEFINE as == w.mm[from]
           list == ListToCopy(as.mmap_list)
           W == LiveWorlds(w, to)
           n == Len(list)
           Q == Always(n, W)
           r == dup_mmap(w, to, from)
<1>1. SpaceOk(as) /\ as.mmap_list \in Seq(Area)
  BY DEF Sane, SpaceOk, Space
<1>2. list \in Seq(Area) /\ ToSet(list) \subseteq ToSet(as.mmap_list)
  BY <1>1, ListToCopyFacts
<1>3. w \in W
  BY InLiveWorlds, LiveSelf
<1>4. r = IF Stopped(w) THEN w ELSE CopiesAreas(w, to, from, list)
  BY DEF dup_mmap, CopiesAreas
<1> HIDE DEF list, r
<1>5. ASSUME NEW u \in W, NEW k \in 1..n PROVE CopiesArea(u, to, from, list[k]) \in W
  <2> DEFINE v == list[k]
             u1 == AddsArea(u, to, v)
             u2 == copy_range(u1, from, to, v)
             c == CopiesArea(u, to, from, v)
  <2>1. Live(u, w, to)
    BY InLiveWorlds
  <2>2. v \in ToSet(as.mmap_list) /\ UserArea(v)
    <3>1. v \in ToSet(as.mmap_list)
      BY <1>2, ListSet
    <3> HIDE DEF v, as
    <3>2. QED
      BY <1>1, <3>1, AreaFacts
  <2>3. c = IF Stopped(u) THEN u ELSE IF Stopped(u1) THEN u1 ELSE u2
    BY DEF CopiesArea
  <2> HIDE DEF v, u1, u2, c
  <2>4. Sane(u, {})
    BY <2>1 DEF Live
  <2>5. Grown(u1, u, to, v)
    BY <2>2, <2>4, AddsAreaFacts DEF u1
  <2>6. Live(u1, w, to) /\ Sane(u1, {})
    BY <2>1, <2>5, LiveTwice DEF Grown, Live
  <2>7. CASE ~Stopped(u1)
    <3>1. v \in ToSet(u1.mm[to].mmap_list)
      BY <2>5, <2>7 DEF Grown
    <3>2. u1.mm[from] = as
      BY <2>6 DEF Live, Others
    <3>3. v \in ToSet(u1.mm[from].mmap_list)
      BY <2>2, <3>2
    <3>4. Kept(u2, u1, to)
      BY <2>6, <3>1, <3>3, CopyRangeFacts DEF u2
    <3>5. Live(u2, w, to)
      BY <2>6, <3>4, LiveKept, LiveTwice
    <3>6. Live(c, w, to)
      BY <2>1, <2>3, <2>7, <3>5
    <3>7. QED
      BY <3>6, InLiveWorlds DEF c, v
  <2>8. CASE Stopped(u1)
    <3>1. Live(c, w, to)
      BY <2>1, <2>3, <2>6, <2>8
    <3>2. QED
      BY <3>1, InLiveWorlds DEF c, v
  <2>9. QED
    BY <2>7, <2>8
<1>6. n \in Nat
  BY <1>2, LenProperties
<1>7. Q[0] = W /\ Q[n] = W /\ \A k \in 1..n : Q[k - 1] = W /\ Q[k] = W
  BY <1>6, AlwaysIs
<1> HIDE DEF W, Q
<1>8. w \in Q[0] /\ \A k \in 1..n : \A u \in Q[k - 1] : CopiesArea(u, to, from, list[k]) \in Q[k]
  BY <1>3, <1>5, <1>7
<1>9. CopiesAreas(w, to, from, list) \in Q[n]
  BY <1>2, <1>3, <1>5, <1>8, CopiesAreasFold
<1>10. Live(CopiesAreas(w, to, from, list), w, to)
  BY <1>7, <1>9, InLiveWorlds DEF W
<1>11. QED
  BY <1>4, <1>10, LiveSelf DEF r

(* copy_mm, for a process without an address space.                        *)
LEMMA CopyMmFacts ==
  ASSUME NEW w, Sane(w, {}), NEW to \in Proc, w.mm[to] = NoMm, NEW from \in Proc, from # to
  PROVE  Done(copy_mm(w, to, from), w, to)
<1> DEFINE w1 == setup_pgdir(mm_create(w, to), to)
           w2 == dup_mmap(w1, to, from)
<1>1. copy_mm(w, to, from) = CleansUp(w2, to)
  BY DEF copy_mm
<1>2. Live(w1, w, to)
  BY CreatedFacts
<1> HIDE DEF w1
<1>3. Live(w2, w1, to)
  BY <1>2, DupMmapFacts DEF Live
<1> HIDE DEF w2
<1>4. Live(w2, w, to) /\ Sane(w2, {})
  BY <1>2, <1>3, LiveTwice DEF Live
<1>5. Done(CleansUp(w2, to), w2, to)
  BY <1>4, CleansUpFacts
<1>6. QED
  BY <1>1, <1>4, <1>5, DoneAfter

-----------------------------------------------------------------------------
(***************************************************************************)
(* The invariant: the world is sane also after a panic, and without one a  *)
(* process that is no user process holds nothing.                          *)
(***************************************************************************)

(* The world that the variables make.                                      *)
Snapshot(F, m, b) == [free |-> F, mm |-> m, panicked |-> b, ret |-> "0", kmallocs |-> 0]

(* The inductive invariant.                                                *)
MmInv ==
  /\ swap_init_ok \in BOOLEAN /\ calls \in 0..MaxCalls
  /\ state \in [Proc -> {"none", "kthread", "user"}]
  /\ Sane(Snapshot(free, mm, panicked), {})
  /\ ~panicked => \A p \in Proc : state[p] # "user" => mm[p] = NoMm

(* What a world has to do with the variables.                              *)
LEMMA SnapshotFacts ==
  ASSUME NEW F, NEW m, NEW b, Sane(Snapshot(F, m, b), {})
  PROVE  F \in SUBSET Frame /\ m \in Spaces /\ b \in BOOLEAN
<1>1. Snapshot(F, m, b) \in MmWorld
  BY DEF Sane
<1>2. QED
  BY <1>1 DEF Snapshot, MmWorld

(* A sane world with any outcome is sane as the variables keep it.         *)
LEMMA SnapshotOf ==
  ASSUME NEW w, Sane(w, {})
  PROVE  Sane(Snapshot(w.free, w.mm, w.panicked), {})
<1> DEFINE u == Snapshot(w.free, w.mm, w.panicked)
<1>1. w \in MmWorld /\ "0" \in Code
  BY DEF Sane, Code
<1>2. u \in MmWorld /\ u.mm = w.mm /\ u.free = w.free
  BY <1>1 DEF Snapshot, MmWorld
<1> HIDE DEF u
<1>3. SameFrames(u, w)
  BY <1>2 DEF SameFrames
<1>4. Sane(u, {})
  BY <1>3, SaneSame
<1>5. QED
  BY <1>4 DEF u

(* The number of calls of kmalloc that will succeed is free to choose.     *)
LEMMA AnyWorld ==
  ASSUME Sane(Snapshot(free, mm, panicked), {}), NEW n \in Nat
  PROVE  /\ Sane(World(n), {}) /\ World(n).mm = mm /\ World(n).free = free
         /\ World(n).panicked = panicked /\ World(n).ret = "0"
<1> DEFINE s == Snapshot(free, mm, panicked)
           u == World(n)
<1>1. free \in SUBSET Frame /\ mm \in Spaces /\ panicked \in BOOLEAN /\ "0" \in Code
  BY SnapshotFacts DEF Code
<1>2. /\ u \in MmWorld /\ u.mm = mm /\ u.free = free
      /\ u.panicked = panicked /\ u.ret = "0"
  BY <1>1 DEF World, MmWorld
<1>3. s.mm = mm /\ s.free = free
  BY DEF Snapshot
<1> HIDE DEF s, u
<1>4. SameFrames(u, s)
  BY <1>2, <1>3 DEF SameFrames
<1>5. Sane(u, {})
  BY <1>4, SaneSame DEF s
<1>6. QED
  BY <1>2, <1>5 DEF u

(* No address space holds anything at first.                               *)
LEMMA MmInvInit == MmInit => MmInv
<1> SUFFICES ASSUME MmInit PROVE MmInv
  OBVIOUS
<1>1. /\ free = Frame /\ mm = [p \in Proc |-> NoMm] /\ swap_init_ok \in BOOLEAN
      /\ panicked = FALSE /\ calls = 0
      /\ state = [p \in Proc |-> IF p = InitProc THEN "kthread" ELSE "none"]
  BY DEF MmInit
<1>2. MaxCalls \in Nat
  BY Sizes
<1> DEFINE s == Snapshot(free, mm, panicked)
<1>3. s \in MmWorld /\ s.free = Frame /\ s.mm = mm /\ \A p \in Proc : mm[p] = NoMm
  BY <1>1, NoMmOk DEF Snapshot, MmWorld, Spaces, Code
<1> HIDE DEF s
<1>4. ASSUME NEW x \in MmPlace PROVE Holding(mm)[x] = None
  <2>1. PICK p \in Proc : \/ x = <<p, "pgdir", 0>>
                          \/ \E t \in Table : x = <<p, "table", t>>
                          \/ \E la \in Page : x = <<p, "page", la>>
    BY MmPlaceForms
  <2>2. mm[p] = NoMm
    BY <1>3
  <2>3. CASE x = <<p, "pgdir", 0>>
    <3>1. Holding(mm)[<<p, "pgdir", 0>>] = mm[p].pgdir
      BY HoldingForms
    <3>2. QED
      BY <2>2, <2>3, <3>1, NoMmOk
  <2>4. CASE \E t \in Table : x = <<p, "table", t>>
    <3>1. PICK t \in Table : x = <<p, "table", t>>
      BY <2>4
    <3>2. Holding(mm)[<<p, "table", t>>] = mm[p].table[t]
      BY HoldingForms
    <3>3. NoMm.table[t] = None
      BY NoMmOk
    <3>4. QED
      BY <2>2, <3>1, <3>2, <3>3
  <2>5. CASE \E la \in Page : x = <<p, "page", la>>
    <3>1. PICK la \in Page : x = <<p, "page", la>>
      BY <2>5
    <3>2. Holding(mm)[<<p, "page", la>>] = mm[p].pte[la].frame
      BY HoldingForms
    <3>3. NoMm.pte[la].frame = None
      BY NoMmOk, UnmappedPte
    <3>4. QED
      BY <2>2, <3>1, <3>2, <3>3
  <2>6. QED
    BY <2>1, <2>3, <2>4, <2>5
<1>5. ExactFrames(Holding(mm), Frame)
  <2> DEFINE H == Holding(mm)
  <2>1. OnPlaces(H)
    BY DEF Holding, OnPlaces
  <2>2. \A x \in MmPlace : H[x] = None
    BY <1>4
  <2> HIDE DEF H
  <2>3. H \in [MmPlace -> FrameOrNone]
    BY <2>1, <2>2 DEF OnPlaces, FrameOrNone
  <2>4. QED
    BY <2>2, <2>3, NoneIsNoFrame DEF ExactFrames, H
<1>6. Sane(s, {})
  <2>1. ExactFrames(Holding(s.mm), s.free \cup {}) /\ {} \cap s.free = {}
    <3>1. Frame \cup {} = Frame
      OBVIOUS
    <3>2. QED
      BY <1>3, <1>5, <3>1
  <2>2. \A p \in Proc : SpaceOk(s.mm[p])
    BY <1>3, NoMmOk
  <2>3. QED
    BY <1>3, <2>1, <2>2 DEF Sane
<1>7. \A p \in Proc : state[p] # "user" => mm[p] = NoMm
  BY <1>3
<1>8. state \in [Proc -> {"none", "kthread", "user"}]
  BY <1>1
<1>9. calls \in 0..MaxCalls
  BY <1>1, <1>2
<1>10. QED
  BY <1>1, <1>6, <1>7, <1>8, <1>9 DEF MmInv, s

(* do_fork.                                                                *)
LEMMA ForkInv ==
  ASSUME MmInv, NEW p \in Proc, NEW q \in Proc \ {p}, NEW n \in 0..MaxKmalloc, do_fork(p, q, n)
  PROVE  MmInv'
<1> DEFINE w0 == World(n)
           w == copy_mm(w0, q, p)
<1>1. /\ ~panicked /\ state[p] = "user" /\ state[q] = "none"
      /\ calls < MaxCalls /\ calls' = calls + 1
      /\ free' = w.free /\ mm' = w.mm /\ panicked' = w.panicked /\ swap_init_ok' = swap_init_ok
      /\ state' = IF w.ret = "0" THEN [state EXCEPT ![q] = "user"] ELSE state
  BY DEF do_fork, Becomes
<1>2. n \in Nat /\ MaxCalls \in Nat
  BY Sizes
<1>3. Sane(w0, {}) /\ w0.mm = mm
  BY <1>2, AnyWorld DEF MmInv
<1> HIDE DEF w0
<1>4. w0.mm[q] = NoMm
  BY <1>1, <1>3 DEF MmInv
<1>5. Done(w, w0, q)
  BY <1>3, <1>4, CopyMmFacts
<1> HIDE DEF w
<1>6. Sane(w, {}) /\ (\A r \in Proc : r # q => w.mm[r] = mm[r])
      /\ (~w.panicked /\ w.ret # "0" => w.mm[q] = NoMm)
  BY <1>3, <1>5 DEF Done, Live, Others
<1>7. Sane(Snapshot(free', mm', panicked'), {})
  BY <1>1, <1>6, SnapshotOf
<1>8. state' \in [Proc -> {"none", "kthread", "user"}] /\ calls' \in 0..MaxCalls
      /\ swap_init_ok' \in BOOLEAN
  BY <1>1, <1>2 DEF MmInv
<1>9. ASSUME ~panicked', NEW r \in Proc, state'[r] # "user" PROVE mm'[r] = NoMm
  <2>1. state[r] # "user" /\ (r = q => w.ret # "0")
    BY <1>1, <1>9 DEF MmInv
  <2>2. mm[r] = NoMm
    BY <1>1, <2>1 DEF MmInv
  <2>3. QED
    BY <1>1, <1>6, <1>9, <2>1, <2>2
<1>10. QED
  BY <1>7, <1>8, <1>9 DEF MmInv

(* do_execve.                                                              *)
LEMMA ExecveInv ==
  ASSUME MmInv, NEW p \in Proc, NEW prog \in Program, NEW n \in 0..MaxKmalloc, do_execve(p, prog, n)
  PROVE  MmInv'
<1> DEFINE w0 == World(n)
           w1 == TakesApart(w0, p)
           w == load_icode(w1, p, prog)
<1>1. /\ ~panicked
      /\ calls < MaxCalls /\ calls' = calls + 1
      /\ free' = w.free /\ mm' = w.mm /\ panicked' = w.panicked /\ swap_init_ok' = swap_init_ok
      /\ state' = [state EXCEPT ![p] = IF w.ret = "0" THEN "user" ELSE "none"]
  BY DEF do_execve, Becomes
<1>2. n \in Nat /\ MaxCalls \in Nat
  BY Sizes
<1>3. Sane(w0, {}) /\ w0.mm = mm
  BY <1>2, AnyWorld DEF MmInv
<1> HIDE DEF w0
<1>4. Live(w1, w0, p) /\ w1.mm[p] = NoMm
  BY <1>3, TakesApartFacts
<1> HIDE DEF w1
<1>5. Done(w, w1, p)
  BY <1>4, LoadIcodeFacts DEF Live
<1>6. Done(w, w0, p)
  BY <1>4, <1>5, DoneAfter
<1> HIDE DEF w
<1>7. Sane(w, {}) /\ (\A r \in Proc : r # p => w.mm[r] = mm[r])
      /\ (~w.panicked /\ w.ret # "0" => w.mm[p] = NoMm)
  BY <1>3, <1>6 DEF Done, Live, Others
<1>8. Sane(Snapshot(free', mm', panicked'), {})
  BY <1>1, <1>7, SnapshotOf
<1>9. state' \in [Proc -> {"none", "kthread", "user"}] /\ calls' \in 0..MaxCalls
      /\ swap_init_ok' \in BOOLEAN
  BY <1>1, <1>2 DEF MmInv
<1>10. ASSUME ~panicked', NEW r \in Proc, state'[r] # "user" PROVE mm'[r] = NoMm
  <2>1. CASE r = p
    <3>1. w.ret # "0"
      BY <1>1, <1>10, <2>1 DEF MmInv
    <3>2. QED
      BY <1>1, <1>7, <1>10, <2>1, <3>1
  <2>2. CASE r # p
    <3>1. state[r] # "user"
      BY <1>1, <1>10, <2>2 DEF MmInv
    <3>2. QED
      BY <1>1, <1>7, <2>2, <3>1 DEF MmInv
  <2>3. QED
    BY <2>1, <2>2
<1>11. QED
  BY <1>8, <1>9, <1>10 DEF MmInv

(* do_exit.                                                                *)
LEMMA ExitInv ==
  ASSUME MmInv, NEW p \in Proc, do_exit(p)
  PROVE  MmInv'
<1> DEFINE w0 == World(0)
           w == TakesApart(w0, p)
<1>1. /\ ~panicked /\ calls' = calls
      /\ free' = w.free /\ mm' = w.mm /\ panicked' = w.panicked /\ swap_init_ok' = swap_init_ok
      /\ state' = [state EXCEPT ![p] = "none"]
  BY DEF do_exit, Becomes
<1>2. Sane(w0, {}) /\ w0.mm = mm
  BY AnyWorld DEF MmInv
<1> HIDE DEF w0
<1>3. Live(w, w0, p) /\ w.mm[p] = NoMm
  BY <1>2, TakesApartFacts
<1> HIDE DEF w
<1>4. Sane(w, {}) /\ \A r \in Proc : r # p => w.mm[r] = mm[r]
  BY <1>2, <1>3 DEF Live, Others
<1>5. Sane(Snapshot(free', mm', panicked'), {})
  BY <1>1, <1>4, SnapshotOf
<1>6. state' \in [Proc -> {"none", "kthread", "user"}] /\ calls' \in 0..MaxCalls
      /\ swap_init_ok' \in BOOLEAN
  BY <1>1 DEF MmInv
<1>7. ASSUME NEW r \in Proc, state'[r] # "user" PROVE mm'[r] = NoMm
  <2>1. CASE r = p
    BY <1>1, <1>3, <2>1
  <2>2. CASE r # p
    <3>1. state[r] # "user"
      BY <1>1, <1>7, <2>2 DEF MmInv
    <3>2. QED
      BY <1>1, <1>4, <2>2, <3>1 DEF MmInv
  <2>3. QED
    BY <2>1, <2>2
<1>8. QED
  BY <1>5, <1>6, <1>7 DEF MmInv

(* do_pgfault: an area is put into the cache, and a page of it is made.    *)
LEMMA CachedWorld ==
  ASSUME NEW w, Sane(w, {}), NEW p \in Proc, NEW v \in CacheEntries(w.mm[p]), NEW u,
         u = [w EXCEPT !.mm[p] = Cached(@, v)]
  PROVE  Live(u, w, p) /\ u.mm[p].mmap_list = w.mm[p].mmap_list
<1> DEFINE bs == w.mm[p]
           as == Cached(bs, v)
<1>1. SpaceOk(bs) /\ w \in MmWorld /\ w.mm \in Spaces
  BY DEF Sane, MmWorld
<1>2. u = Updated(w, p, as, w.free)
  <2>1. u = [w EXCEPT !.mm[p] = as]
    OBVIOUS
  <2> HIDE DEF as
  <2>2. QED
    BY <1>1, <2>1 DEF Updated, Changed, MmWorld
<1>3. SpaceOk(as) /\ SamePages(as, bs) /\ as.mmap_list = bs.mmap_list
  <2>1. v \in ToSet(bs.mmap_list) \cup {NoArea}
    BY DEF CacheEntries
  <2>2. as = Cached(bs, v)
    OBVIOUS
  <2> HIDE DEF bs, as
  <2>3. QED
    BY <1>1, <2>1, <2>2, CachedOk DEF SamePages
<1> HIDE DEF as
<1>4. SaneChange(u, w, p, as, w.free, {})
  BY <1>2, <1>3, SaneAreas
<1>5. QED
  BY <1>3, <1>4 DEF SaneChange, Live

(* do_pgfault makes a page of the area that find_vma found.                *)
LEMMA GivesPageFacts ==
  ASSUME NEW w, Sane(w, {}), NEW p \in Proc, NEW addr \in Nat, NEW v \in ToSet(w.mm[p].mmap_list),
         InArea(v, addr), NEW write \in BOOLEAN, write => "WRITE" \in v.vm_flags
  PROVE  Kept(GivesPage(w, p, PageOf(addr), write), w, p)
<1> DEFINE la == PageOf(addr)
           as == w.mm[p]
<1>1. SpaceOk(as) /\ v \in ToSet(as.mmap_list)
  BY DEF Sane
<1> HIDE DEF as
<1>2. UserArea(v)
  BY <1>1, AreaFacts
<1>3. InPages(v, la)
  BY <1>2, AddrInArea
<1> HIDE DEF la
<1>4. PageAllowed(as, la, write)
  BY <1>1, <1>3 DEF PageAllowed
<1>5. Kept(pgdir_alloc_page(w, p, la, write), w, p)
  BY <1>4, AllocPageFacts DEF as
<1>6. CASE Present(w.mm[p], la)
  <2>1. GivesPage(w, p, la, write) = w
    BY <1>6 DEF GivesPage
  <2>2. QED
    BY <2>1, KeptSelf DEF la
<1>7. CASE ~Present(w.mm[p], la)
  <2>1. GivesPage(w, p, la, write) = pgdir_alloc_page(w, p, la, write)
    BY <1>7 DEF GivesPage
  <2>2. QED
    BY <1>5, <2>1 DEF la
<1>8. QED
  BY <1>6, <1>7

(* do_pgfault.                                                             *)
LEMMA PgfaultInv ==
  ASSUME MmInv, NEW p \in Proc, NEW addr \in Addr, NEW write \in BOOLEAN, do_pgfault(p, addr, write)
  PROVE  MmInv'
<1> DEFINE w0 == World(0)
           v == find_vma(mm[p], addr)
           w == [w0 EXCEPT !.mm[p] = Cached(@, v)]
           w1 == GivesPage(w, p, PageOf(addr), "WRITE" \in v.vm_flags)
           r == IF FaultRefused(v, write) THEN Panics(w)
                ELSE IF w1.ret # "0" THEN Panics(w1) ELSE w1
<1>1. /\ ~panicked /\ state[p] = "user" /\ calls' = calls /\ state' = state
      /\ free' = r.free /\ mm' = r.mm /\ panicked' = r.panicked /\ swap_init_ok' = swap_init_ok
  BY DEF do_pgfault, Becomes
<1>2. Sane(w0, {}) /\ w0.mm = mm
  BY AnyWorld DEF MmInv
<1>3. addr \in Nat
  BY Sizes DEF Addr
<1>4. SpaceOk(mm[p])
  BY <1>2 DEF Sane
<1>5. /\ v \in CacheEntries(mm[p])
      /\ v # NoArea => InArea(v, addr)
  BY <1>3, <1>4, FindFacts DEF CacheEntries
<1> HIDE DEF w0, v
<1>6. Live(w, w0, p) /\ w.mm[p].mmap_list = mm[p].mmap_list
  <2>1. v \in CacheEntries(w0.mm[p])
    BY <1>2, <1>5
  <2>2. QED
    BY <1>2, <2>1, CachedWorld
<1> HIDE DEF w, w1, r
<1>7. Live(r, w0, p)
  <2>1. Sane(w, {})
    BY <1>6 DEF Live
  <2>2. CASE FaultRefused(v, write)
    <3>1. r = Panics(w) /\ Kept(Panics(w), w, p)
      BY <2>1, <2>2, KeptPanics DEF r
    <3>2. QED
      BY <1>6, <3>1, LiveKept, LiveTwice
  <2>3. CASE ~FaultRefused(v, write)
    <3>1. v # NoArea
      BY <2>3 DEF FaultRefused
    <3>2. v \in ToSet(w.mm[p].mmap_list) /\ InArea(v, addr)
      BY <1>5, <1>6, <3>1 DEF CacheEntries
    <3> DEFINE may == "WRITE" \in v.vm_flags
    <3>3. may \in BOOLEAN /\ (may => "WRITE" \in v.vm_flags) /\ w1 = GivesPage(w, p, PageOf(addr), may)
      BY DEF w1
    <3> HIDE DEF may
    <3>4. Kept(w1, w, p)
      BY <1>3, <2>1, <3>2, <3>3, GivesPageFacts
    <3>5. Live(w1, w0, p) /\ Sane(w1, {})
      BY <1>6, <3>4, LiveKept, LiveTwice DEF Kept
    <3>6. Live(Panics(w1), w0, p)
      BY <3>5, KeptPanics, LiveKept, LiveTwice
    <3>7. r = Panics(w1) \/ r = w1
      BY <2>3 DEF r
    <3>8. QED
      BY <3>5, <3>6, <3>7
  <2>4. QED
    BY <2>2, <2>3
<1>8. Sane(r, {}) /\ \A q \in Proc : q # p => r.mm[q] = mm[q]
  BY <1>2, <1>7 DEF Live, Others
<1>9. Sane(Snapshot(free', mm', panicked'), {})
  BY <1>1, <1>8, SnapshotOf
<1>10. ASSUME NEW q \in Proc, state'[q] # "user" PROVE mm'[q] = NoMm
  BY <1>1, <1>8, <1>10 DEF MmInv
<1>11. QED
  BY <1>1, <1>9, <1>10 DEF MmInv

(* A system call looks at memory of the process.                           *)
LEMMA UserMemoryInv ==
  ASSUME MmInv, NEW p \in Proc, NEW addr \in Addr, NEW len \in Addr, NEW write \in BOOLEAN,
         UserMemory(p, addr, len, write)
  PROVE  MmInv'
<1> DEFINE w0 == World(0)
           v == user_mem_check(mm[p], addr, len, write).cache
           as == WithCache(mm[p], v)
           r == Updated(w0, p, as, w0.free)
<1>1. /\ ~panicked /\ state[p] = "user" /\ calls' = calls /\ state' = state
      /\ free' = free /\ panicked' = panicked /\ swap_init_ok' = swap_init_ok
      /\ mm' = [mm EXCEPT ![p].mmap_cache = v]
  BY DEF UserMemory
<1>2. Sane(w0, {}) /\ w0.mm = mm /\ w0.free = free /\ w0.panicked = panicked
  BY AnyWorld DEF MmInv
<1>3. SpaceOk(mm[p]) /\ mm \in Spaces
  BY <1>2 DEF Sane, MmWorld
<1>4. v \in CacheEntries(mm[p])
  BY <1>3, CheckFacts DEF Addr
<1> HIDE DEF w0, v
<1>5. /\ SpaceOk(as) /\ SamePages(as, mm[p])
  <2>1. v \in ToSet(mm[p].mmap_list) \cup {NoArea}
    BY <1>4 DEF CacheEntries
  <2> DEFINE bs == mm[p]
  <2>2. SpaceOk(bs) /\ v \in ToSet(bs.mmap_list) \cup {NoArea} /\ as = WithCache(bs, v)
    BY <1>3, <2>1
  <2> HIDE DEF bs, as
  <2>3. QED
    BY <2>2, WithCacheOk DEF SamePages, bs
<1>6. mm' = Changed(mm, p, as)
  BY <1>1, <1>3 DEF Changed, WithCache, Spaces
<1> HIDE DEF as
<1>7. SaneChange(r, w0, p, as, w0.free, {})
  BY <1>2, <1>5, SaneAreas
<1>8. r.mm = Changed(mm, p, as) /\ r.free = free /\ r.panicked = panicked
  <2>1. IsUpdated(r, w0, p, as, w0.free)
    <3>1. w0 \in MmWorld /\ as \in Space /\ w0.free \in SUBSET Frame
      BY <1>2, <1>5 DEF Sane, SpaceOk, MmWorld
    <3>2. QED
      BY <3>1, UpdatedIs
  <2> HIDE DEF r
  <2>2. QED
    BY <1>2, <2>1 DEF IsUpdated, Replaced
<1> HIDE DEF r
<1>9. Sane(Snapshot(free', mm', panicked'), {})
  BY <1>1, <1>6, <1>7, <1>8, SnapshotOf DEF SaneChange
<1>10. ASSUME NEW q \in Proc, state'[q] # "user" PROVE mm'[q] = NoMm
  <2>1. q # p /\ mm[q] = NoMm
    BY <1>1, <1>10 DEF MmInv
  <2>2. mm'[q] = mm[q]
    BY <1>1, <1>3, <2>1 DEF Spaces
  <2>3. QED
    BY <2>1, <2>2
<1>11. QED
  BY <1>1, <1>9, <1>10 DEF MmInv

(***************************************************************************)
(* Whatever the processes and the amount of memory, each step keeps the    *)
(* world sane.                                                             *)
(***************************************************************************)
THEOREM MmInvariant == MmSpec => []MmInv
<1>1. MmInit => MmInv
  BY MmInvInit
<1>2. MmInv /\ [MmNext]_mmVars => MmInv'
  <2> SUFFICES ASSUME MmInv, [MmNext]_mmVars PROVE MmInv'
    OBVIOUS
  <2>1. CASE UNCHANGED mmVars
    BY <2>1 DEF mmVars, MmInv
  <2>2. CASE MmNext
    <3>1. PICK p \in Proc :
            \/ \E q \in Proc \ {p}, n \in 0..MaxKmalloc : do_fork(p, q, n)
            \/ \E prog \in Program, n \in 0..MaxKmalloc : do_execve(p, prog, n)
            \/ do_exit(p)
            \/ \E addr \in Addr, write \in BOOLEAN : do_pgfault(p, addr, write)
            \/ \E addr \in Addr, write \in BOOLEAN : UserMemory(p, addr, 1, write)
      BY <2>2 DEF MmNext
    <3>2. CASE \E q \in Proc \ {p}, n \in 0..MaxKmalloc : do_fork(p, q, n)
      BY <3>2, ForkInv
    <3>3. CASE \E prog \in Program, n \in 0..MaxKmalloc : do_execve(p, prog, n)
      BY <3>3, ExecveInv
    <3>4. CASE do_exit(p)
      BY <3>4, ExitInv
    <3>5. CASE \E addr \in Addr, write \in BOOLEAN : do_pgfault(p, addr, write)
      BY <3>5, PgfaultInv
    <3>6. CASE \E addr \in Addr, write \in BOOLEAN : UserMemory(p, addr, 1, write)
      <4>1. 1 \in Addr
        BY Sizes DEF Addr
      <4>2. QED
        BY <3>6, <4>1, UserMemoryInv
    <3>7. QED
      BY <3>1, <3>2, <3>3, <3>4, <3>5, <3>6
  <2>3. QED
    BY <2>1, <2>2
<1>3. QED
  BY <1>1, <1>2, PTL DEF MmSpec

-----------------------------------------------------------------------------
(***************************************************************************)
(* What it says of the frames.                                             *)
(***************************************************************************)
(* What a process holds is in its places.                                  *)
LEMMA HeldByPlaces ==
  ASSUME NEW m \in Spaces, NEW p \in Proc, NEW f
  PROVE  f \in HeldBy(m[p]) <=> f # None /\ \E x \in MmPlace : x[1] = p /\ Holding(m)[x] = f
<1> DEFINE as == m[p]
           H == Holding(m)
<1>1. f \in HeldBy(as) <=> /\ f # None
                           /\ \/ f = as.pgdir
                              \/ \E t \in Table : f = as.table[t]
                              \/ \E la \in Page : f = as.pte[la].frame
  BY DEF HeldBy
<1>2. H[<<p, "pgdir", 0>>] = as.pgdir
  BY HoldingForms
<1>3. \A t \in Table : H[<<p, "table", t>>] = as.table[t]
  BY HoldingForms
<1>4. \A la \in Page : H[<<p, "page", la>>] = as.pte[la].frame
  BY HoldingForms
<1> HIDE DEF as, H
<1>5. /\ <<p, "pgdir", 0>> \in MmPlace
      /\ \A t \in Table : <<p, "table", t>> \in MmPlace
      /\ \A la \in Page : <<p, "page", la>> \in MmPlace
  BY MmPlaceForms
<1>6. ASSUME f \in HeldBy(as) PROVE f # None /\ \E x \in MmPlace : x[1] = p /\ H[x] = f
  <2>1. CASE f = as.pgdir
    <3>1. <<p, "pgdir", 0>>[1] = p
      OBVIOUS
    <3>2. QED
      BY <1>1, <1>2, <1>5, <1>6, <2>1, <3>1
  <2>2. CASE \E t \in Table : f = as.table[t]
    <3>1. PICK t \in Table : f = as.table[t]
      BY <2>2
    <3>2. <<p, "table", t>>[1] = p /\ <<p, "table", t>> \in MmPlace /\ H[<<p, "table", t>>] = f
      BY <1>3, <1>5, <3>1
    <3>3. QED
      BY <1>1, <1>6, <3>2
  <2>3. CASE \E la \in Page : f = as.pte[la].frame
    <3>1. PICK la \in Page : f = as.pte[la].frame
      BY <2>3
    <3>2. <<p, "page", la>>[1] = p /\ <<p, "page", la>> \in MmPlace /\ H[<<p, "page", la>>] = f
      BY <1>4, <1>5, <3>1
    <3>3. QED
      BY <1>1, <1>6, <3>2
  <2>4. QED
    BY <1>1, <1>6, <2>1, <2>2, <2>3
<1>7. ASSUME f # None, NEW x \in MmPlace, x[1] = p, H[x] = f PROVE f \in HeldBy(as)
  <2>1. PICK q \in Proc : \/ x = <<q, "pgdir", 0>>
                          \/ \E t \in Table : x = <<q, "table", t>>
                          \/ \E la \in Page : x = <<q, "page", la>>
    BY MmPlaceForms
  <2>2. q = p
    BY <1>7, <2>1
  <2>3. CASE x = <<q, "pgdir", 0>>
    BY <1>1, <1>2, <1>7, <2>2, <2>3
  <2>4. CASE \E t \in Table : x = <<q, "table", t>>
    <3>1. PICK t \in Table : x = <<p, "table", t>>
      BY <2>2, <2>4
    <3>2. f = as.table[t]
      BY <1>3, <1>7, <3>1
    <3>3. QED
      BY <1>1, <1>7, <3>2
  <2>5. CASE \E la \in Page : x = <<q, "page", la>>
    <3>1. PICK la \in Page : x = <<p, "page", la>>
      BY <2>2, <2>5
    <3>2. f = as.pte[la].frame
      BY <1>4, <1>7, <3>1
    <3>3. QED
      BY <1>1, <1>7, <3>2
  <2>6. QED
    BY <2>1, <2>3, <2>4, <2>5
<1>8. QED
  BY <1>6, <1>7 DEF as, H

(* What is in one place only is held once.                                 *)
OnceIn(m, p, f) ==
  /\ f # None
  /\ \E x \in MmPlace : x[1] = p /\ Holding(m)[x] = f
  /\ \A x, y \in MmPlace : Holding(m)[x] = f /\ Holding(m)[y] = f => x = y

(* A set whose elements are all the same has one at most.                  *)
LEMMA AtMostOneElement ==
  ASSUME NEW S, \A x, y \in S : x = y
  PROVE  /\ S = {} => Cardinality(S) = 0
         /\ S # {} => Cardinality(S) = 1
<1>1. ASSUME S = {} PROVE Cardinality(S) = 0
  BY <1>1, FS_EmptySet
<1>2. ASSUME S # {} PROVE Cardinality(S) = 1
  <2>1. PICK x \in S : TRUE
    BY <1>2
  <2>2. S = {x}
    BY <2>1
  <2>3. Cardinality({x}) = 1
    BY FS_Singleton
  <2>4. QED
    BY <2>2, <2>3
<1>3. QED
  BY <1>1, <1>2

(* A frame that is in one place is held once.                              *)
LEMMA HeldOnce ==
  ASSUME NEW m \in Spaces, NEW p \in Proc, NEW f, OnceIn(m, p, f)
  PROVE  TimesHeld(m[p], f) = 1
<1> DEFINE as == m[p]
           H == Holding(m)
           S == {t \in Table : as.table[t] = f}
           T == {la \in Page : as.pte[la].frame = f}
           one == IF as.pgdir = f THEN 1 ELSE 0
<1>1. TimesHeld(as, f) = Cardinality(S) + Cardinality(T) + one
  BY DEF TimesHeld
<1>2. H[<<p, "pgdir", 0>>] = as.pgdir
  BY HoldingForms
<1>3. \A t \in Table : H[<<p, "table", t>>] = as.table[t]
  BY HoldingForms
<1>4. \A la \in Page : H[<<p, "page", la>>] = as.pte[la].frame
  BY HoldingForms
<1>5. /\ <<p, "pgdir", 0>> \in MmPlace
      /\ \A t \in Table : <<p, "table", t>> \in MmPlace
      /\ \A la \in Page : <<p, "page", la>> \in MmPlace
  BY MmPlaceForms
<1>6. /\ f # None
      /\ \E x \in MmPlace : x[1] = p /\ H[x] = f
      /\ \A x, y \in MmPlace : H[x] = f /\ H[y] = f => x = y
  BY DEF OnceIn
<1> HIDE DEF as, H
<1>7. \A t \in S : <<p, "table", t>> \in MmPlace /\ H[<<p, "table", t>>] = f
  BY <1>3, <1>5
<1>8. \A la \in T : <<p, "page", la>> \in MmPlace /\ H[<<p, "page", la>>] = f
  BY <1>4, <1>5
<1>9. one = 1 => <<p, "pgdir", 0>> \in MmPlace /\ H[<<p, "pgdir", 0>>] = f
  <2>1. CASE as.pgdir = f
    BY <1>2, <1>5, <2>1
  <2>2. CASE as.pgdir # f
    <3>1. one = 0
      BY <2>2
    <3> HIDE DEF one
    <3>2. one # 1
      BY <3>1
    <3>3. QED
      BY <3>2
  <2>3. QED
    BY <2>1, <2>2
<1>10. S # {} \/ T # {} \/ one = 1
  <2>1. PICK x \in MmPlace : x[1] = p /\ H[x] = f
    BY <1>6
  <2>2. PICK q \in Proc : \/ x = <<q, "pgdir", 0>>
                          \/ \E t \in Table : x = <<q, "table", t>>
                          \/ \E la \in Page : x = <<q, "page", la>>
    BY MmPlaceForms
  <2>3. q = p
    BY <2>1, <2>2
  <2>4. CASE x = <<q, "pgdir", 0>>
    <3>1. as.pgdir = f
      BY <1>2, <2>1, <2>3, <2>4
    <3>2. QED
      BY <3>1
  <2>5. CASE \E t \in Table : x = <<q, "table", t>>
    <3>1. PICK t \in Table : x = <<p, "table", t>>
      BY <2>3, <2>5
    <3>2. as.table[t] = f
      BY <1>3, <2>1, <3>1
    <3>3. t \in S
      BY <3>2
    <3>4. QED
      BY <3>3
  <2>6. CASE \E la \in Page : x = <<q, "page", la>>
    <3>1. PICK la \in Page : x = <<p, "page", la>>
      BY <2>3, <2>6
    <3>2. as.pte[la].frame = f
      BY <1>4, <2>1, <3>1
    <3>3. la \in T
      BY <3>2
    <3>4. QED
      BY <3>3
  <2>7. QED
    BY <2>2, <2>4, <2>5, <2>6
<1>11. one \in {0, 1}
  OBVIOUS
<1> HIDE DEF S, T, one
<1>12. \A s, t \in S : s = t
  <2>1. ASSUME NEW s \in S, NEW t \in S PROVE s = t
    <3>1. <<p, "table", s>> = <<p, "table", t>>
      BY <1>6, <1>7
    <3>2. QED
      BY <3>1
  <2>2. QED
    BY <2>1
<1>13. \A s, t \in T : s = t
  <2>1. ASSUME NEW s \in T, NEW t \in T PROVE s = t
    <3>1. <<p, "page", s>> = <<p, "page", t>>
      BY <1>6, <1>8
    <3>2. QED
      BY <3>1
  <2>2. QED
    BY <2>1
<1>14. ASSUME S # {} PROVE T = {} /\ one = 0
  <2>1. PICK s \in S : <<p, "table", s>> \in MmPlace /\ H[<<p, "table", s>>] = f
    BY <1>7, <1>14
  <2>2. ASSUME NEW t \in T PROVE FALSE
    <3>1. <<p, "table", s>> = <<p, "page", t>>
      BY <1>6, <1>8, <2>1
    <3>2. QED
      BY <3>1
  <2>3. ASSUME one = 1 PROVE FALSE
    <3>1. <<p, "table", s>> = <<p, "pgdir", 0>>
      BY <1>6, <1>9, <2>1, <2>3
    <3>2. QED
      BY <3>1
  <2>4. QED
    BY <1>11, <2>2, <2>3
<1>15. ASSUME T # {} PROVE one = 0
  <2>1. PICK s \in T : <<p, "page", s>> \in MmPlace /\ H[<<p, "page", s>>] = f
    BY <1>8, <1>15
  <2>2. ASSUME one = 1 PROVE FALSE
    <3>1. <<p, "page", s>> = <<p, "pgdir", 0>>
      BY <1>6, <1>9, <2>1, <2>2
    <3>2. QED
      BY <3>1
  <2>3. QED
    BY <1>11, <2>2
<1>16. /\ S = {} => Cardinality(S) = 0
       /\ S # {} => Cardinality(S) = 1
       /\ T = {} => Cardinality(T) = 0
       /\ T # {} => Cardinality(T) = 1
  BY <1>12, <1>13, AtMostOneElement
<1>17. Cardinality(S) + Cardinality(T) + one = 1
  <2>1. CASE S # {}
    BY <1>14, <1>16, <2>1
  <2>2. CASE S = {} /\ T # {}
    BY <1>15, <1>16, <2>2
  <2>3. CASE S = {} /\ T = {}
    BY <1>10, <1>16, <2>3
  <2>4. QED
    BY <2>1, <2>2, <2>3
<1>18. QED
  BY <1>1, <1>17 DEF as

(* The allocator and the address spaces account for all memory, and a      *)
(* process that runs nothing holds none.                                   *)
LEMMA MmInvMemory == MmInv => MemoryExact
<1> SUFFICES ASSUME MmInv, ~panicked
             PROVE  /\ free \cup UNION {HeldBy(mm[p]) : p \in Proc} = Frame
                    /\ \A p \in Proc :
                         /\ \A f \in HeldBy(mm[p]) : f \notin free /\ TimesHeld(mm[p], f) = 1
                         /\ \A q \in Proc \ {p} : HeldBy(mm[p]) \cap HeldBy(mm[q]) = {}
                         /\ state[p] # "user" => mm[p] = NoMm
  BY DEF MemoryExact
<1> DEFINE H == Holding(mm)
<1>1. mm \in Spaces /\ free \in SUBSET Frame
  BY SnapshotFacts DEF MmInv
<1>2. /\ \A x \in MmPlace : H[x] \notin free
      /\ \A x, y \in MmPlace : H[x] = H[y] /\ H[x] # None => x = y
      /\ \A f \in Frame : f \in free \/ \E x \in MmPlace : H[x] = f
      /\ H \in [MmPlace -> FrameOrNone]
  <2>1. ExactFrames(H, free \cup {}) /\ free \cup {} = free
    <3>1. Snapshot(free, mm, panicked).mm = mm /\ Snapshot(free, mm, panicked).free = free
      BY DEF Snapshot
    <3>2. Sane(Snapshot(free, mm, panicked), {})
      BY DEF MmInv
    <3> HIDE DEF H
    <3>3. QED
      BY <3>1, <3>2 DEF Sane, H
  <2> HIDE DEF H
  <2>2. ExactFrames(H, free)
    BY <2>1
  <2>3. QED
    BY <2>2 DEF ExactFrames
<1>3. \A p \in Proc : \A f : f \in HeldBy(mm[p]) <=> f # None /\ \E x \in MmPlace : x[1] = p /\ H[x] = f
  BY <1>1, HeldByPlaces
<1> HIDE DEF H
<1>4. free \cup UNION {HeldBy(mm[p]) : p \in Proc} = Frame
  <2>1. ASSUME NEW f \in Frame, f \notin free PROVE \E p \in Proc : f \in HeldBy(mm[p])
    <3>1. PICK x \in MmPlace : H[x] = f
      BY <1>2, <2>1
    <3>2. f # None
      BY NoneIsNoFrame
    <3>3. x[1] \in Proc
      <4>1. PICK q \in Proc : \/ x = <<q, "pgdir", 0>>
                              \/ \E t \in Table : x = <<q, "table", t>>
                              \/ \E la \in Page : x = <<q, "page", la>>
        BY MmPlaceForms
      <4>2. QED
        BY <4>1
    <3>4. QED
      BY <1>3, <3>1, <3>2, <3>3
  <2>2. ASSUME NEW p \in Proc, NEW f \in HeldBy(mm[p]) PROVE f \in Frame
    <3>1. PICK x \in MmPlace : H[x] = f /\ f # None
      BY <1>3
    <3>2. f \in FrameOrNone
      BY <1>2, <3>1
    <3>3. QED
      BY <3>1, <3>2 DEF FrameOrNone
  <2>3. QED
    BY <1>1, <2>1, <2>2
<1>5. ASSUME NEW p \in Proc, NEW f \in HeldBy(mm[p]) PROVE f \notin free /\ TimesHeld(mm[p], f) = 1
  <2>1. PICK x \in MmPlace : x[1] = p /\ H[x] = f /\ f # None
    BY <1>3
  <2>2. \A y, z \in MmPlace : H[y] = f /\ H[z] = f => y = z
    BY <1>2, <2>1
  <2>3. OnceIn(mm, p, f)
    BY <2>1, <2>2 DEF OnceIn, H
  <2>4. QED
    BY <1>1, <1>2, <2>1, <2>3, HeldOnce
<1>6. ASSUME NEW p \in Proc, NEW q \in Proc \ {p}, NEW f, f \in HeldBy(mm[p]), f \in HeldBy(mm[q])
      PROVE  FALSE
  <2>1. PICK x \in MmPlace : x[1] = p /\ H[x] = f /\ f # None
    BY <1>3, <1>6
  <2>2. PICK y \in MmPlace : y[1] = q /\ H[y] = f
    BY <1>3, <1>6
  <2>3. x = y
    BY <1>2, <2>1, <2>2
  <2>4. QED
    BY <2>1, <2>2, <2>3
<1>7. \A p \in Proc : state[p] # "user" => mm[p] = NoMm
  BY DEF MmInv
<1>8. QED
  BY <1>4, <1>5, <1>6, <1>7

(* Every frame is free or held by one process, once, and what a process    *)
(* has given back it no longer holds: fork, execve and exit lose no frame, *)
(* also when they fail half way.                                           *)
THEOREM MemoryIsExact == MmSpec => []MemoryExact
BY MmInvariant, MmInvMemory, PTL

(* The areas and what is mapped agree.                                     *)
LEMMA MmInvAreas == MmInv => AreasCoverPages
<1> SUFFICES ASSUME MmInv PROVE AreasCoverPages
  OBVIOUS
<1>1. mm \in Spaces /\ free \in SUBSET Frame /\ panicked \in BOOLEAN
  BY SnapshotFacts DEF MmInv
<1>2. \A p \in Proc : SpaceOk(mm[p])
  <2>1. Snapshot(free, mm, panicked).mm = mm /\ Sane(Snapshot(free, mm, panicked), {})
    BY DEF Snapshot, MmInv
  <2>2. QED
    BY <2>1 DEF Sane
<1>3. MmTypeOK
  <2>1. ASSUME NEW p \in Proc
        PROVE  /\ mm[p].mmap_list \in Seq(Area) /\ mm[p].mmap_cache \in Area \cup {NoArea}
               /\ mm[p].pgdir \in Frame \cup {None} /\ mm[p].table \in [Table -> Frame \cup {None}]
               /\ mm[p].pte \in [Page -> [frame : Frame \cup {None}, w : BOOLEAN]]
    <3>1. mm[p] \in Space
      BY <1>1 DEF Spaces
    <3>2. QED
      BY <3>1 DEF Space, FrameOrNone, Pte
  <2>2. QED
    BY <1>1, <2>1 DEF MmTypeOK, MmInv
<1>4. ASSUME NEW p \in Proc
      PROVE  LET as == mm[p]
             IN  /\ \A i \in 1..(Len(as.mmap_list) - 1) :
                      as.mmap_list[i].vm_end <= as.mmap_list[i + 1].vm_start
                 /\ as.mmap_cache \in ToSet(as.mmap_list) \cup {NoArea}
                 /\ \A la \in Page : Present(as, la) =>
                      \E v \in ToSet(as.mmap_list) :
                        la \in PageOf(v.vm_start)..(PageOf(v.vm_end) - 1) /\ (as.pte[la].w => "WRITE" \in v.vm_flags)
  <2> DEFINE as == mm[p]
             list == as.mmap_list
  <2>1. SpaceOk(as)
    BY <1>2
  <2> HIDE DEF as
  <2>2. list \in Seq(Area) /\ Len(list) \in Nat
    <3>1. list \in Seq(Area)
      BY <2>1 DEF SpaceOk, Space
    <3>2. QED
      BY <3>1, LenProperties
  <2>3. ASSUME NEW i \in 1..(Len(list) - 1) PROVE list[i].vm_end <= list[i + 1].vm_start
    <3> DEFINE n == Len(list)
    <3>0. n \in Nat /\ i \in 1..(n - 1)
      BY <2>2
    <3> HIDE DEF n
    <3>1. i \in 1..n /\ i + 1 \in 1..n /\ i < i + 1
      BY <3>0
    <3>2. Apart(list)
      BY <2>1 DEF SpaceOk, AreasOk
    <3> HIDE DEF list
    <3>3. QED
      BY <3>1, <3>2 DEF Apart, n
  <2>4. as.mmap_cache \in ToSet(as.mmap_list) \cup {NoArea}
    BY <2>1 DEF SpaceOk, AreasOk
  <2>5. ASSUME NEW la \in Page, Present(as, la)
        PROVE  \E v \in ToSet(as.mmap_list) :
                 la \in PageOf(v.vm_start)..(PageOf(v.vm_end) - 1) /\ (as.pte[la].w => "WRITE" \in v.vm_flags)
    <3>1. PageAllowed(as, la, as.pte[la].w)
      BY <2>1, <2>5 DEF SpaceOk, PagesOk
    <3>2. QED
      BY <3>1 DEF PageAllowed, InPages
  <2>6. QED
    BY <2>3, <2>4, <2>5 DEF as
<1>5. QED
  BY <1>3, <1>4 DEF AreasCoverPages

(* No page and no page table is left outside the areas, none can be        *)
(* written that its area does not allow, and find_vma, insert_vma_struct   *)
(* and do_pgfault keep the areas in order and the cache among them.        *)
THEOREM AreasAlwaysCoverPages == MmSpec => []AreasCoverPages
BY MmInvariant, MmInvAreas, PTL

(* Adding wraps around at most once.                                       *)
LEMMA WrapsOnce ==
  ASSUME NEW W \in Nat \ {0}, NEW x \in Int, x >= 0, x < W + W
  PROVE  x % W = IF x < W THEN x ELSE x - W
<1> DEFINE k == x \div W
           r == x % W
<1>1. W \in Nat \ {0} /\ x \in Int /\ x >= 0 /\ x < W + W
  OBVIOUS
<1>2. r \in 0..(W - 1) /\ k \in Int /\ x = W * k + r
  BY <1>1, DivModFacts
<1> HIDE DEF k, r
<1>3. k < 2
  <2>1. ASSUME 2 <= k PROVE FALSE
    <3>1. W * 2 <= W * k
      BY <1>1, <1>2, <2>1, MultMonotone
    <3> DEFINE y == W * k
    <3>2. y \in Int /\ W + W <= y /\ x = y + r
      BY <1>1, <1>2, <3>1
    <3> HIDE DEF y
    <3>3. QED
      BY <1>1, <1>2, <3>2
  <2>2. QED
    BY <1>2, <2>1
<1>4. k > -1
  <2>1. ASSUME k <= -1 PROVE FALSE
    <3>1. W * k <= W * (-1)
      BY <1>1, <1>2, <2>1, MultMonotone
    <3> DEFINE y == W * k
    <3>2. y \in Int /\ y <= -W /\ x = y + r
      BY <1>1, <1>2, <3>1
    <3> HIDE DEF y
    <3>3. QED
      BY <1>1, <1>2, <3>2
  <2>2. QED
    BY <1>2, <2>1
<1>5. k = 0 \/ k = 1
  BY <1>2, <1>3, <1>4
<1>6. x = r \/ x = W + r
  BY <1>1, <1>2, <1>5
<1>7. r = IF x < W THEN x ELSE x - W
  BY <1>1, <1>2, <1>6
<1>8. QED
  BY <1>7 DEF r

(* user_mem_check is right about every range, also one that wraps around.  *)
LEMMA MmInvUserMem == MmInv => UserMemExact
<1> SUFFICES ASSUME MmInv, NEW p \in Proc, NEW addr \in Addr, NEW len \in Addr, NEW write \in BOOLEAN
             PROVE  user_mem_check(mm[p], addr, len, write).ok
                      <=> /\ InUserSpace(addr, len)
                          /\ \A a \in addr..(addr + len - 1) : MayAccess(mm[p], a, write)
  BY DEF UserMemExact
<1> DEFINE as == mm[p]
           end == (addr + len) % WORD_SIZE
           ok == user_mem_check(as, addr, len, write).ok
<1>1. SpaceOk(as)
  <2>1. Snapshot(free, mm, panicked).mm = mm /\ Sane(Snapshot(free, mm, panicked), {})
    BY DEF Snapshot, MmInv
  <2>2. QED
    BY <2>1 DEF Sane
<1>2. addr \in 0..(WORD_SIZE - 1) /\ len \in 0..(WORD_SIZE - 1)
  BY DEF Addr
<1> HIDE DEF as
<1>3. ok \in BOOLEAN /\ (ok <=> USER_ACCESS(addr, end) /\ Usable(as, addr, end, write))
  BY <1>1, <1>2, CheckFacts
<1>4. end = IF addr + len < WORD_SIZE THEN addr + len ELSE (addr + len) - WORD_SIZE
  <2> DEFINE sum == addr + len
  <2>1. WORD_SIZE \in Nat \ {0} /\ sum \in Int /\ sum >= 0 /\ sum < WORD_SIZE + WORD_SIZE
    BY <1>2, Sizes
  <2>2. end = sum % WORD_SIZE
    BY Zenon
  <2> HIDE DEF sum, end
  <2>3. end = IF sum < WORD_SIZE THEN sum ELSE sum - WORD_SIZE
    BY <2>1, <2>2, WrapsOnce
  <2>4. QED
    BY <2>3, Zenon DEF sum
<1> HIDE DEF end, ok
<1>5. /\ WORD_SIZE \in Nat /\ USERTOP \in Nat /\ USERBASE \in Nat /\ USERTOP < WORD_SIZE
      /\ addr \in Nat /\ len \in Nat /\ addr < WORD_SIZE /\ len < WORD_SIZE
  BY <1>2, Sizes
<1>6. USER_ACCESS(addr, end) <=> InUserSpace(addr, len)
  <2>1. CASE addr + len < WORD_SIZE
    <3>1. end = addr + len
      BY <1>4, <2>1
    <3>2. QED
      BY <1>5, <3>1 DEF USER_ACCESS, InUserSpace
  <2>2. CASE ~(addr + len < WORD_SIZE)
    <3>1. end = (addr + len) - WORD_SIZE
      BY <1>4, <2>2
    <3>2. ~(addr < end) /\ ~(addr + len <= USERTOP)
      BY <1>5, <2>2, <3>1
    <3>3. QED
      BY <3>2 DEF USER_ACCESS, InUserSpace
  <2>3. QED
    BY <2>1, <2>2
<1>7. USER_ACCESS(addr, end) => end = addr + len
  BY <1>4, <1>5, <1>6 DEF InUserSpace
<1> DEFINE all == \A a \in addr..(addr + len - 1) : MayAccess(as, a, write)
<1>8. Usable(as, addr, addr + len, write) <=> all
  <2> DEFINE I == addr..(addr + len - 1)
             J == addr..((addr + len) - 1)
  <2>1. I = J
    BY <1>5
  <2>2. Usable(as, addr, addr + len, write) <=> \A a \in J : MayAccess(as, a, write)
    BY Zenon DEF Usable
  <2>3. all <=> \A a \in I : MayAccess(as, a, write)
    BY Zenon
  <2> HIDE DEF I, J, all
  <2>4. QED
    BY <2>1, <2>2, <2>3, Zenon
<1> HIDE DEF all
<1>9. ok <=> InUserSpace(addr, len) /\ all
  <2>1. CASE InUserSpace(addr, len)
    <3>1. end = addr + len /\ USER_ACCESS(addr, end)
      BY <1>6, <1>7, <2>1
    <3>2. Usable(as, addr, end, write) <=> all
      BY <1>8, <3>1
    <3>3. ok <=> Usable(as, addr, end, write)
      BY <1>3, <3>1
    <3>4. QED
      BY <2>1, <3>2, <3>3
  <2>2. CASE ~InUserSpace(addr, len)
    BY <1>3, <1>6, <2>2
  <2>3. QED
    BY <2>1, <2>2
<1>10. QED
  BY <1>9 DEF ok, as, all

(* user_mem_check says yes to just the ranges that the process may access  *)
(* byte by byte.                                                           *)
THEOREM UserMemIsExact == MmSpec => []UserMemExact
BY MmInvariant, MmInvUserMem, PTL

-----------------------------------------------------------------------------
(***************************************************************************)
(* A fork copies.  An entry that is a copy of another one has a frame of   *)
(* its own and the same permission.                                        *)
(***************************************************************************)
CopyOf(e, g) == e.frame # None /\ e.w = g.w

(* One entry is set and the others are what they were.                     *)
SetOnly(bs, as, la, f, write) ==
  /\ bs.pte[la] = [frame |-> f, w |-> write]
  /\ \A lb \in Page : lb # la => bs.pte[lb] = as.pte[lb]

(* page_insert sets the entry, unless it stops.                            *)
LEMMA PageInsertEntry ==
  ASSUME NEW w, NEW f \in Frame, Sane(w, {f}), NEW p \in Proc, NEW la, NEW write \in BOOLEAN,
         PageAllowed(w.mm[p], la, write), ~Stopped(page_insert(w, p, f, la, write))
  PROVE  SetOnly(page_insert(w, p, f, la, write).mm[p], w.mm[p], la, f, write)
<1> DEFINE w1 == get_pte(w, p, la)
           old == w1.mm[p].pte[la].frame
           F == IF old = None THEN w1.free ELSE w1.free \cup {old}
           e == [frame |-> f, w |-> write]
           as == WithPage(w1.mm[p], la, e)
           u == page_insert(w, p, f, la, write)
<1>1. la \in Page /\ TableOf(la) \in Table /\ TableAllowed(w.mm[p], TableOf(la))
  BY AllowedPage DEF Sane
<1>2. GotPte(w1, w, p, la, {f})
  BY <1>1, GetPteFacts
<1>3. ~Stopped(w1)
  <2>1. Stopped(w1) => u = w1
    BY DEF page_insert
  <2> HIDE DEF w1, u
  <2>2. QED
    BY <2>1 DEF u
<1>4. u = Updated(w1, p, as, F)
  <2>1. u = [w1 EXCEPT !.mm[p].pte[la] = e, !.free = F]
    BY <1>3 DEF page_insert
  <2> HIDE DEF w1, F, e
  <2>2. QED
    BY <2>1 DEF Updated, Changed, WithPage
<1> HIDE DEF w1, u
<1>5. Sane(w1, {f}) /\ w1.mm[p].pte = w.mm[p].pte
  BY <1>2 DEF GotPte
<1>6. w1 \in MmWorld /\ w1.mm \in Spaces /\ w1.mm[p] \in Space /\ w1.free \in SUBSET Frame
  BY <1>5 DEF Sane, MmWorld, Spaces
<1>7. F \in SUBSET Frame
  <2>1. old \in FrameOrNone
    BY <1>1, <1>6 DEF Space, Pte
  <2> HIDE DEF old
  <2>2. QED
    BY <1>6, <2>1 DEF FrameOrNone
<1>8. e \in Pte
  BY DEF Pte, FrameOrNone
<1> HIDE DEF F, e
<1>9. IsWithPage(as, w1.mm[p], la, e)
  BY <1>1, <1>6, <1>8, WithPageSpace
<1> HIDE DEF as
<1>10. as \in Space
  BY <1>9 DEF IsWithPage
<1>11. IsUpdated(u, w1, p, as, F)
  BY <1>4, <1>6, <1>7, <1>10, UpdatedIs
<1>12. u.mm[p] = as
  <2>1. u.mm = Changed(w1.mm, p, as)
    BY <1>11 DEF IsUpdated, Replaced
  <2>2. IsChanged(Changed(w1.mm, p, as), w1.mm, p, as)
    BY <1>6, <1>10, ChangedIs
  <2>3. QED
    BY <2>1, <2>2 DEF IsChanged
<1>13. QED
  BY <1>1, <1>5, <1>9, <1>12 DEF IsWithPage, SetOnly, e, u

(* One entry is a copy of g and the others are what they were.             *)
CopiedOne(bs, cs, la, g) ==
  /\ CopyOf(bs.pte[la], g)
  /\ \A lb \in Page : lb # la => bs.pte[lb] = cs.pte[lb]

(* CopyPage copies one entry, unless it stops.                             *)
LEMMA CopyPageEntry ==
  ASSUME NEW w, Sane(w, {}), NEW from \in Proc, NEW to \in Proc, from # to, NEW la,
         PageAllowed(w.mm[to], la, w.mm[from].pte[la].w), ~Stopped(CopyPage(w, from, to, la))
  PROVE  CopiedOne(CopyPage(w, from, to, la).mm[to], w.mm[to], la, w.mm[from].pte[la])
<1> DEFINE u == CopyPage(w, from, to, la)
           w1 == get_pte(w, to, la)
           f == FreeFrame(w1)
           write == w.mm[from].pte[la].w
           v == WithFree(w1, w1.free \ {f})
<1>1. la \in Page /\ TableOf(la) \in Table /\ TableAllowed(w.mm[to], TableOf(la))
  BY AllowedPage DEF Sane
<1>2. write \in BOOLEAN
  BY <1>1 DEF Sane, MmWorld, Spaces, Space, Pte
<1>3. GotPte(w1, w, to, la, {})
  BY <1>1, GetPteFacts
<1>4. u = IF Stopped(w1) THEN w1 ELSE IF f = None THEN Panics(w1)
          ELSE page_insert([w1 EXCEPT !.free = @ \ {f}], to, f, la, w1.mm[from].pte[la].w)
  BY DEF CopyPage
<1> HIDE DEF w1, u
<1>5. Sane(w1, {}) /\ Kept(w1, w, to) /\ w1.mm[from] = w.mm[from]
  BY <1>3 DEF GotPte, Kept, Others
<1>6. ~Stopped(w1) /\ f # None
  <2>1. ~Stopped(u)
    BY DEF u
  <2>2. Panics(w1).panicked
    BY <1>5, SanePanics
  <2>3. Stopped(Panics(w1))
    BY <2>2 DEF Stopped
  <2> HIDE DEF f
  <2>4. QED
    BY <1>4, <2>1, <2>3
<1>7. w1.free # {}
  BY <1>6, NoFreeFrame
<1>8. f \in w1.free
  BY <1>5, <1>7, FreeFrameFacts
<1>9. u = page_insert(v, to, f, la, write)
  BY <1>4, <1>5, <1>6 DEF WithFree
<1> HIDE DEF f
<1>10. Sane(v, {f}) /\ f \in Frame /\ SameBut(v, w1)
  BY <1>5, <1>8, LiftedFrame
<1> HIDE DEF v, write
<1>11. v.mm = w1.mm
  BY <1>10 DEF SameBut
<1>12. PageAllowed(v.mm[to], la, write)
  <2>1. v.mm[to].mmap_list = w.mm[to].mmap_list
    BY <1>5, <1>11 DEF Kept
  <2>2. PageAllowed(w.mm[to], la, write)
    BY DEF write
  <2>3. QED
    BY <2>1, <2>2, PageAllowedSame
<1>13. ~Stopped(page_insert(v, to, f, la, write))
  BY <1>9 DEF u
<1>14. SetOnly(u.mm[to], v.mm[to], la, f, write)
  BY <1>2, <1>9, <1>10, <1>12, <1>13, PageInsertEntry
<1>15. v.mm[to].pte = w.mm[to].pte
  BY <1>3, <1>11 DEF GotPte
<1>16. f # None
  BY <1>6
<1>17. u.mm[to].pte[la].frame = f /\ u.mm[to].pte[la].w = write
  BY <1>14 DEF SetOnly
<1>18. QED
  BY <1>14, <1>15, <1>16, <1>17 DEF SetOnly, CopiedOne, CopyOf, write, u

(* What copy_range has done after the first k pages of its list.           *)
CopiedSoFar(bs, cs, as, list, k) ==
  \A lb \in Page :
    /\ Present(as, lb) /\ (\E i \in 1..k : list[i] = lb) => CopyOf(bs.pte[lb], as.pte[lb])
    /\ ~(Present(as, lb) /\ \E i \in 1..k : list[i] = lb) => bs.pte[lb] = cs.pte[lb]

(* At first it has done nothing.                                           *)
LEMMA CopiedNothing ==
  ASSUME NEW as, NEW cs, NEW list PROVE CopiedSoFar(cs, cs, as, list, 0)
BY DEF CopiedSoFar

(* One page more: it is copied, or is not there.                           *)
LEMMA CopiedStep ==
  ASSUME NEW as, NEW bs, NEW cs, NEW ds, NEW list, NEW k \in Nat \ {0},
         CopiedSoFar(bs, cs, as, list, k - 1),
         \/ Present(as, list[k]) /\ CopiedOne(ds, bs, list[k], as.pte[list[k]])
         \/ ~Present(as, list[k]) /\ ds = bs
  PROVE  CopiedSoFar(ds, cs, as, list, k)
<1>1. ASSUME NEW lb \in Page
      PROVE  /\ Present(as, lb) /\ (\E i \in 1..k : list[i] = lb) => CopyOf(ds.pte[lb], as.pte[lb])
             /\ ~(Present(as, lb) /\ \E i \in 1..k : list[i] = lb) => ds.pte[lb] = cs.pte[lb]
  <2> DEFINE before == \E i \in 1..(k - 1) : list[i] = lb
             now == \E i \in 1..k : list[i] = lb
  <2>1. now <=> before \/ list[k] = lb
    <3>1. \A i : i \in 1..k <=> i \in 1..(k - 1) \/ i = k
      OBVIOUS
    <3>2. QED
      BY <3>1
  <2> HIDE DEF before, now
  <2>2. /\ Present(as, lb) /\ before => CopyOf(bs.pte[lb], as.pte[lb])
        /\ ~(Present(as, lb) /\ before) => bs.pte[lb] = cs.pte[lb]
    BY DEF CopiedSoFar, before
  <2>3. CASE Present(as, list[k]) /\ CopiedOne(ds, bs, list[k], as.pte[list[k]])
    <3>1. CASE list[k] = lb
      <4>1. now /\ CopyOf(ds.pte[lb], as.pte[lb]) /\ Present(as, lb)
        BY <2>1, <2>3, <3>1 DEF CopiedOne
      <4>2. QED
        BY <4>1 DEF now
    <3>2. CASE list[k] # lb
      <4>1. ds.pte[lb] = bs.pte[lb] /\ (now <=> before)
        BY <2>1, <2>3, <3>2 DEF CopiedOne
      <4>2. QED
        BY <2>2, <4>1 DEF now
    <3>3. QED
      BY <3>1, <3>2
  <2>4. CASE ~Present(as, list[k]) /\ ds = bs
    <3>1. Present(as, lb) => (now <=> before)
      BY <2>1, <2>4
    <3>2. QED
      BY <2>2, <2>4, <3>1 DEF now
  <2>5. QED
    BY <2>3, <2>4
<1>2. QED
  BY <1>1 DEF CopiedSoFar

(* copy_range gives the child copies of the pages of the area.             *)
CopiedArea(bs, cs, as, v) ==
  \A lb \in Page :
    /\ Present(as, lb) /\ InPages(v, lb) => CopyOf(bs.pte[lb], as.pte[lb])
    /\ ~(Present(as, lb) /\ InPages(v, lb)) => bs.pte[lb] = cs.pte[lb]

(* The worlds on the way.                                                  *)
CopyingPages(w, from, to, list, n) ==
  [k \in 0..n |-> {u \in KeptWorlds(w, to) :
                     ~Stopped(u) => CopiedSoFar(u.mm[to], w.mm[to], w.mm[from], list, k)}]

(* What is in them.                                                        *)
LEMMA CopyingPagesIs ==
  ASSUME NEW w, NEW from, NEW to, NEW list, NEW n \in Nat, NEW k \in 0..n, NEW u
  PROVE  u \in CopyingPages(w, from, to, list, n)[k]
           <=> Kept(u, w, to) /\ (~Stopped(u) => CopiedSoFar(u.mm[to], w.mm[to], w.mm[from], list, k))
BY InKeptWorlds DEF CopyingPages

(* copy_range copies the entries of the pages of the area.                 *)
LEMMA CopyRangeEntries ==
  ASSUME NEW w, Sane(w, {}), NEW from \in Proc, NEW to \in Proc, from # to,
         NEW v \in ToSet(w.mm[from].mmap_list), v \in ToSet(w.mm[to].mmap_list),
         ~Stopped(copy_range(w, from, to, v)), ~Stopped(w)
  PROVE  CopiedArea(copy_range(w, from, to, v).mm[to], w.mm[to], w.mm[from], v)
<1> DEFINE as == w.mm[from]
           cs == w.mm[to]
           pages == Walked(as, v)
           W == KeptWorlds(w, to)
           n == Len(pages)
           Q == CopyingPages(w, from, to, pages, n)
           r == copy_range(w, from, to, v)
<1>1. SpaceOk(as) /\ UserArea(v) /\ as \in Space
  <2>1. SpaceOk(as)
    BY DEF Sane
  <2>2. v \in ToSet(as.mmap_list)
    OBVIOUS
  <2> HIDE DEF as
  <2>3. QED
    BY <2>1, <2>2, AreaFacts DEF SpaceOk
<1>2. pages \in Seq(Nat) /\ ToSet(pages) = {la \in Page : InPages(v, la) /\ as.table[TableOf(la)] # None}
  BY <1>1, WalkedFacts
<1>3. r = CopiesPages(w, from, to, pages)
  BY DEF copy_range, CopiesPages
<1>4. ~Stopped(r)
  OBVIOUS
<1> HIDE DEF pages, r
<1>5. n \in Nat /\ w \in W /\ Kept(w, w, to)
  BY <1>2, LenProperties, InKeptWorlds, KeptSelf
<1>6. ASSUME NEW u, NEW k \in 1..n, Kept(u, w, to)
      PROVE  /\ Kept(CopiesOne(u, from, to, pages[k]), w, to)
             /\ (~Stopped(u) => CopiedSoFar(u.mm[to], cs, as, pages, k - 1)) =>
                  (~Stopped(CopiesOne(u, from, to, pages[k])) =>
                     CopiedSoFar(CopiesOne(u, from, to, pages[k]).mm[to], cs, as, pages, k))
  <2> DEFINE la == pages[k]
             write == as.pte[la].w
             c == CopiesOne(u, from, to, la)
  <2>1. la \in Page /\ InPages(v, la)
    <3>1. la \in ToSet(pages)
      BY <1>2, ListSet
    <3>2. QED
      BY <1>2, <3>1
  <2> HIDE DEF la
  <2>2. u.mm[from] = as /\ Sane(u, {}) /\ u.mm[to].mmap_list = w.mm[to].mmap_list
    BY <1>6 DEF Kept, Others
  <2> HIDE DEF as, W, cs, c
  <2>3. CASE Stopped(u)
    <3>1. c = u
      BY <2>3 DEF CopiesOne, c
    <3>2. QED
      BY <1>6, <2>3, <3>1 DEF la, c
  <2>4. CASE ~Stopped(u) /\ ~Present(as, la)
    <3>1. c = u
      BY <2>2, <2>4 DEF CopiesOne, c
    <3>2. k \in Nat \ {0} /\ ~Present(as, pages[k])
      <4>1. k \in Nat \ {0}
        BY <1>5
      <4>2. QED
        BY <2>4, <4>1, Zenon DEF la
    <3>3. CopiedSoFar(u.mm[to], cs, as, pages, k - 1) => CopiedSoFar(u.mm[to], cs, as, pages, k)
      BY <3>2, CopiedStep
    <3>4. QED
      BY <1>6, <2>4, <3>1, <3>3 DEF la, c
  <2>5. CASE ~Stopped(u) /\ Present(as, la)
    <3>1. c = CopyPage(u, from, to, la)
      BY <2>2, <2>5 DEF CopiesOne, c
    <3>2. PageAllowed(as, la, write)
      BY <1>1, <2>1, <2>2, <2>5 DEF SpaceOk, PagesOk
    <3>3. PICK x \in ToSet(as.mmap_list) : InPages(x, la) /\ (write => "WRITE" \in x.vm_flags)
      BY <3>2 DEF PageAllowed
    <3>4. x = v
      BY <1>1, <2>1, <3>3, OneArea DEF as
    <3>5. PageAllowed(u.mm[to], la, u.mm[from].pte[la].w)
      <4>1. PageAllowed(u.mm[to], la, write)
        BY <2>1, <2>2, <3>3, <3>4 DEF PageAllowed
      <4>2. QED
        BY <2>2, <4>1
    <3>6. Kept(c, u, to)
      BY <2>2, <3>1, <3>5, CopyPageFacts
    <3>7. Kept(c, w, to)
      BY <1>6, <3>6, KeptTwice
    <3>8. ASSUME ~Stopped(c), CopiedSoFar(u.mm[to], cs, as, pages, k - 1)
          PROVE  CopiedSoFar(c.mm[to], cs, as, pages, k)
      <4>1. CopiedOne(c.mm[to], u.mm[to], la, u.mm[from].pte[la])
        BY <2>2, <3>1, <3>5, <3>8, CopyPageEntry
      <4>2. CopiedOne(c.mm[to], u.mm[to], pages[k], as.pte[pages[k]]) /\ Present(as, pages[k])
        BY <2>2, <2>5, <4>1 DEF la
      <4>3. k \in Nat \ {0}
        BY <1>5
      <4>4. QED
        BY <3>8, <4>2, <4>3, CopiedStep
    <3>9. QED
      BY <2>5, <3>7, <3>8 DEF la, c
  <2>6. QED
    BY <2>3, <2>4, <2>5
<1>7. \A u \in W, k \in 1..n : CopiesOne(u, from, to, pages[k]) \in W
  BY <1>6, InKeptWorlds
<1>8. w \in Q[0]
  <2>1. 0 \in 0..n /\ CopiedSoFar(w.mm[to], w.mm[to], w.mm[from], pages, 0)
    BY <1>5, CopiedNothing
  <2> HIDE DEF Q, n
  <2>2. QED
    BY <1>5, <2>1, CopyingPagesIs DEF Q
<1>9. ASSUME NEW k \in 1..n, NEW u \in Q[k - 1] PROVE CopiesOne(u, from, to, pages[k]) \in Q[k]
  <2>1. k \in 0..n /\ k - 1 \in 0..n
    BY <1>5
  <2> HIDE DEF n
  <2>2. Kept(u, w, to) /\ (~Stopped(u) => CopiedSoFar(u.mm[to], w.mm[to], w.mm[from], pages, k - 1))
    BY <1>5, <2>1, CopyingPagesIs
  <2> DEFINE c == CopiesOne(u, from, to, pages[k])
  <2>3. Kept(c, w, to) /\ (~Stopped(c) => CopiedSoFar(c.mm[to], w.mm[to], w.mm[from], pages, k))
    BY <1>6, <2>2
  <2> HIDE DEF c
  <2>4. c \in CopyingPages(w, from, to, pages, n)[k]
    BY <1>5, <2>1, <2>3, CopyingPagesIs
  <2>5. QED
    BY <2>4 DEF c
<1> HIDE DEF W, Q
<1>10. CopiesPages(w, from, to, pages) \in Q[n]
  BY <1>2, <1>5, <1>7, <1>8, <1>9, CopiesPagesFold
<1>11. CopiedSoFar(r.mm[to], cs, as, pages, n)
  <2>1. n \in 0..n /\ r \in CopyingPages(w, from, to, pages, n)[n]
    BY <1>3, <1>5, <1>10 DEF Q
  <2> HIDE DEF n
  <2>2. QED
    BY <1>4, <1>5, <2>1, CopyingPagesIs
<1>12. ASSUME NEW lb \in Page
       PROVE  Present(as, lb) => ((\E i \in 1..n : pages[i] = lb) <=> InPages(v, lb))
  <2>1. Present(as, lb) => as.table[TableOf(lb)] # None
    BY <1>1 DEF SpaceOk, PagesOk
  <2>2. (\E i \in 1..n : pages[i] = lb) <=> lb \in ToSet(pages)
    BY <1>2, ListSet
  <2>3. QED
    BY <1>2, <2>1, <2>2
<1> HIDE DEF as, cs, n
<1>13. CopiedArea(r.mm[to], cs, as, v)
  BY <1>11, <1>12 DEF CopiedSoFar, CopiedArea
<1>14. QED
  BY <1>13 DEF r, as, cs

-----------------------------------------------------------------------------
(* An area below all others goes to the front of the list.                 *)
LEMMA PlaceOfFirst ==
  ASSUME NEW list \in Seq(Area), NEW x \in Area,
         \A j \in 1..Len(list) : x.vm_start < list[j].vm_start
  PROVE  PlaceOf(list, x) = 0
<1> DEFINE n == Len(list)
           above == {i \in 1..n : list[i].vm_start > x.vm_start}
<1>1. n \in Nat
  BY LenProperties
<1>2. above = 1..n
  <2>1. ASSUME NEW j \in 1..n PROVE list[j].vm_start > x.vm_start
    <3>1. list[j] \in Area
      BY <1>1, ElementOfSeq
    <3>2. list[j].vm_start \in Int /\ x.vm_start \in Int
      BY <3>1, Sizes DEF Area
    <3>3. QED
      BY <3>2
  <2>2. QED
    BY <2>1
<1>3. PlaceOf(list, x) = IF above = {} THEN n ELSE Lowest(above) - 1
  BY DEF PlaceOf
<1> HIDE DEF above, n
<1>4. CASE n = 0
  BY <1>1, <1>2, <1>3, <1>4
<1>5. CASE n # 0
  <2>0. IsFiniteSet(1..n)
    BY <1>1, FS_Interval
  <2>1a. 1 \in 1..n
    BY <1>1, <1>5
  <2>1b. 1..n \in SUBSET Int
    BY <1>1
  <2>1. 1 \in 1..n /\ 1..n \in SUBSET Int /\ IsFiniteSet(1..n) /\ 1..n # {}
    BY <2>0, <2>1a, <2>1b, Zenon
  <2>2. Lowest(1..n) \in 1..n /\ Lowest(1..n) <= 1
    BY <2>1, LowestFacts
  <2>3. Lowest(1..n) = 1
    BY <1>1, <2>2
  <2>4. QED
    BY <1>2, <1>3, <2>1, <2>3
<1>6. QED
  BY <1>4, <1>5

(* What is put in front of the areas leaves the pages alone.               *)
AddedFirst(bs, as, x) ==
  /\ bs.pte = as.pte
  /\ IsInserted(bs.mmap_list, as.mmap_list, 0, x)

(* AddsArea puts an area there that lies below all others.                 *)
LEMMA AddsAreaFirst ==
  ASSUME NEW w, Sane(w, {}), NEW p \in Proc, NEW x, UserArea(x),
         \A j \in 1..Len(w.mm[p].mmap_list) : x.vm_start < w.mm[p].mmap_list[j].vm_start,
         ~Stopped(AddsArea(w, p, x))
  PROVE  AddedFirst(AddsArea(w, p, x).mm[p], w.mm[p], x)
<1> DEFINE u == AddsArea(w, p, x)
           w1 == Kmallocs(w)
           bs == w.mm[p]
           list == bs.mmap_list
           new == InsertAt(list, 1, x)
           as == WithList(bs, new)
<1>1. w.kmallocs # 0
  <2>1. Stopped(NoMemory(w))
    BY KeptNoMemory
  <2>2. QED
    BY <2>1 DEF AddsArea
<1>2. u = insert_vma_struct(w1, p, x)
  BY <1>1 DEF AddsArea, Kmallocs
<1>3. Sane(w1, {}) /\ w1.mm = w.mm
  BY <1>1, KmallocsFacts
<1>4. ~Stopped(u)
  OBVIOUS
<1>5. /\ w1 \in MmWorld /\ w1.mm \in Spaces /\ bs \in Space /\ list \in Seq(Area)
      /\ w1.free \in SUBSET Frame /\ x \in Area
  BY <1>3 DEF Sane, MmWorld, Spaces, Space, UserArea
<1> HIDE DEF u, w1
<1>6. PlaceOf(list, x) = 0
  <2>1. \A j \in 1..Len(list) : x.vm_start < list[j].vm_start
    OBVIOUS
  <2> HIDE DEF list
  <2>2. QED
    BY <1>5, <2>1, PlaceOfFirst
<1>7. u = Panics(w1) \/ u = [w1 EXCEPT !.mm[p].mmap_list = new]
  <2>1. list = w1.mm[p].mmap_list
    BY <1>3
  <2> HIDE DEF list
  <2>2. QED
    BY <1>2, <1>6, <2>1 DEF insert_vma_struct
<1>8. u = [w1 EXCEPT !.mm[p].mmap_list = new]
  <2>1. Panics(w1).panicked
    BY <1>3, SanePanics
  <2>2. Stopped(Panics(w1))
    BY <2>1 DEF Stopped
  <2>3. QED
    BY <1>4, <1>7, <2>2
<1>9. u = Updated(w1, p, as, w1.free)
  <2>1. bs = w1.mm[p]
    BY <1>3
  <2>2. w1.free = w1.free
    OBVIOUS
  <2> HIDE DEF new, bs
  <2>3. QED
    BY <1>5, <1>8, <2>1 DEF Updated, Changed, WithList, MmWorld
<1>10. IsInserted(new, list, 0, x)
  <2>1. 0 \in 0..Len(list) /\ 0 + 1 = 1
    BY <1>5, LenProperties
  <2> HIDE DEF list
  <2>2. IsInserted(InsertAt(list, 0 + 1, x), list, 0, x)
    BY <1>5, <2>1, InsertAtFacts
  <2>3. QED
    BY <2>1, <2>2
<1> HIDE DEF new
<1>11. new \in Seq(Area)
  BY <1>10 DEF IsInserted
<1>12. as \in Space /\ as.mmap_list = new /\ as.pte = bs.pte
  <2> HIDE DEF bs
  <2>1. QED
    BY <1>5, <1>11, WithListSpace
<1> HIDE DEF as
<1>13. IsUpdated(u, w1, p, as, w1.free)
  BY <1>5, <1>9, <1>12, UpdatedIs
<1>14. u.mm[p] = as
  <2>1. u.mm = Changed(w1.mm, p, as)
    BY <1>13 DEF IsUpdated, Replaced
  <2>2. IsChanged(Changed(w1.mm, p, as), w1.mm, p, as)
    BY <1>5, <1>12, ChangedIs
  <2>3. QED
    BY <2>1, <2>2 DEF IsChanged
<1>15. QED
  BY <1>10, <1>12, <1>14 DEF AddedFirst, u

-----------------------------------------------------------------------------
(* What dup_mmap has done with the last k areas of the parent.             *)
Duplicated(as, k, lb) ==
  /\ Present(as, lb)
  /\ \E i \in ((Len(as.mmap_list) - k) + 1)..Len(as.mmap_list) : InPages(as.mmap_list[i], lb)

DupSoFar(bs, as, k) ==
  /\ Len(bs.mmap_list) = k
  /\ \A j \in 1..k : bs.mmap_list[j] = as.mmap_list[(Len(as.mmap_list) - k) + j]
  /\ \A lb \in Page :
       /\ Duplicated(as, k, lb) => CopyOf(bs.pte[lb], as.pte[lb])
       /\ ~Duplicated(as, k, lb) => bs.pte[lb] = Unmapped

(* It is about to add an area below all that are there.                    *)
LEMMA NextIsFirst ==
  ASSUME NEW as, SpaceOk(as), NEW bs, NEW k \in 1..Len(as.mmap_list), DupSoFar(bs, as, k - 1),
         NEW v, v = as.mmap_list[(Len(as.mmap_list) - k) + 1]
  PROVE  \A j \in 1..Len(bs.mmap_list) : v.vm_start < bs.mmap_list[j].vm_start
<1> DEFINE L == as.mmap_list
           n == Len(L)
           m == (n - k) + 1
<1>1. L \in Seq(Area) /\ n \in Nat /\ k \in 1..n
  BY LenProperties DEF SpaceOk, Space
<1>2. /\ Apart(L) /\ \A i \in 1..n : UserArea(L[i])
  BY DEF SpaceOk, AreasOk
<1>3. Len(bs.mmap_list) = k - 1 /\ \A j \in 1..(k - 1) : bs.mmap_list[j] = L[(n - (k - 1)) + j]
  BY DEF DupSoFar
<1>4. v = L[m]
  OBVIOUS
<1> HIDE DEF L, n
<1>5. ASSUME NEW j \in 1..(k - 1) PROVE v.vm_start < bs.mmap_list[j].vm_start
  <2> DEFINE i == (n - (k - 1)) + j
  <2>1. m \in 1..n /\ i \in 1..n /\ m < i
    BY <1>1
  <2>2. bs.mmap_list[j] = L[i]
    BY <1>3
  <2> HIDE DEF m, i
  <2>3. L[m].vm_end <= L[i].vm_start
    BY <1>2, <2>1 DEF Apart, n
  <2>4. UserArea(L[m]) /\ UserArea(L[i])
    BY <1>2, <2>1
  <2>5. L[m].vm_start \in Int /\ L[m].vm_end \in Int /\ L[i].vm_start \in Int
    BY <2>4, AreaPages
  <2>6. L[m].vm_start < L[m].vm_end
    BY <2>4 DEF UserArea, USER_ACCESS
  <2>7. QED
    BY <1>4, <2>2, <2>3, <2>5, <2>6
<1>6. QED
  BY <1>3, <1>5

(* One area more.                                                          *)
LEMMA DupStep ==
  ASSUME NEW as, SpaceOk(as), NEW bs, NEW k \in 1..Len(as.mmap_list), DupSoFar(bs, as, k - 1),
         NEW v, v = as.mmap_list[(Len(as.mmap_list) - k) + 1],
         NEW cs, AddedFirst(cs, bs, v),
         NEW ds, CopiedArea(ds, cs, as, v), ds.mmap_list = cs.mmap_list
  PROVE  DupSoFar(ds, as, k)
<1> DEFINE L == as.mmap_list
           n == Len(L)
           M == bs.mmap_list
           N == ds.mmap_list
<1>1. L \in Seq(Area) /\ n \in Nat /\ k \in 1..n
  BY LenProperties DEF SpaceOk, Space
<1>2. Len(M) = k - 1 /\ \A j \in 1..(k - 1) : M[j] = L[(n - (k - 1)) + j]
  BY DEF DupSoFar
<1>3. /\ Len(N) = Len(M) + 1 /\ N[0 + 1] = v
      /\ \A j \in (0 + 2)..(Len(M) + 1) : N[j] = M[j - 1]
  BY DEF AddedFirst, IsInserted
<1>4. v = L[(n - k) + 1]
  OBVIOUS
<1>5. ASSUME NEW lb \in Page
      PROVE  /\ Duplicated(as, k, lb) => CopyOf(ds.pte[lb], as.pte[lb])
             /\ ~Duplicated(as, k, lb) => ds.pte[lb] = Unmapped
  <2>1. Duplicated(as, k, lb) <=> Duplicated(as, k - 1, lb) \/ (Present(as, lb) /\ InPages(v, lb))
    <3> DEFINE In(i) == InPages(L[i], lb)
               some == \E i \in ((n - k) + 1)..n : In(i)
               few == \E i \in ((n - (k - 1)) + 1)..n : In(i)
    <3>1. In((n - k) + 1) <=> InPages(v, lb)
      BY <1>4
    <3>2. \A i : i \in ((n - k) + 1)..n <=> i = (n - k) + 1 \/ i \in ((n - (k - 1)) + 1)..n
      <4> HIDE DEF n
      <4>1. QED
        BY <1>1
    <3>3. some <=> few \/ In((n - k) + 1)
      <4> HIDE DEF In
      <4>1. QED
        BY <3>2
    <3>4. /\ Duplicated(as, k, lb) <=> Present(as, lb) /\ some
          /\ Duplicated(as, k - 1, lb) <=> Present(as, lb) /\ few
      BY DEF Duplicated
    <3> HIDE DEF In, some, few
    <3>5. QED
      BY <3>1, <3>3, <3>4, Zenon
  <2>2. /\ Duplicated(as, k - 1, lb) => CopyOf(bs.pte[lb], as.pte[lb])
        /\ ~Duplicated(as, k - 1, lb) => bs.pte[lb] = Unmapped
    BY DEF DupSoFar
  <2>3. /\ Present(as, lb) /\ InPages(v, lb) => CopyOf(ds.pte[lb], as.pte[lb])
        /\ ~(Present(as, lb) /\ InPages(v, lb)) => ds.pte[lb] = bs.pte[lb]
    BY DEF CopiedArea, AddedFirst
  <2>4. ASSUME Duplicated(as, k, lb) PROVE CopyOf(ds.pte[lb], as.pte[lb])
    <3>1. CASE Present(as, lb) /\ InPages(v, lb)
      BY <2>3, <3>1, Zenon
    <3>2. CASE ~(Present(as, lb) /\ InPages(v, lb))
      <4>1. Duplicated(as, k - 1, lb)
        BY <2>1, <2>4, <3>2, Zenon
      <4>2. ds.pte[lb] = bs.pte[lb] /\ CopyOf(bs.pte[lb], as.pte[lb])
        BY <2>2, <2>3, <3>2, <4>1, Zenon
      <4>3. QED
        BY <4>2, Zenon
    <3>3. QED
      BY <3>1, <3>2, Zenon
  <2>5. ASSUME ~Duplicated(as, k, lb) PROVE ds.pte[lb] = Unmapped
    <3>1. ~Duplicated(as, k - 1, lb) /\ ~(Present(as, lb) /\ InPages(v, lb))
      BY <2>1, <2>5, Zenon
    <3>2. ds.pte[lb] = bs.pte[lb] /\ bs.pte[lb] = Unmapped
      BY <2>2, <2>3, <3>1, Zenon
    <3>3. QED
      BY <3>2, Zenon
  <2>6. QED
    BY <2>4, <2>5, Zenon
<1> HIDE DEF L, M, N, n
<1>6. Len(N) = k /\ N[1] = L[(n - k) + 1]
  BY <1>1, <1>2, <1>3, <1>4
<1>7. ASSUME NEW j \in 1..k PROVE N[j] = L[(n - k) + j]
  <2>1. CASE j = 1
    BY <1>6, <2>1
  <2>2. CASE j # 1
    <3>1. j \in (0 + 2)..(Len(M) + 1) /\ j - 1 \in 1..(k - 1)
      BY <1>1, <1>2, <2>2
    <3>2. N[j] = M[j - 1] /\ M[j - 1] = L[(n - (k - 1)) + (j - 1)]
      BY <1>2, <1>3, <3>1
    <3>3. (n - (k - 1)) + (j - 1) = (n - k) + j
      BY <1>1
    <3>4. QED
      BY <3>2, <3>3
  <2>3. QED
    BY <2>1, <2>2
<1>8. QED
  BY <1>5, <1>6, <1>7 DEF DupSoFar, L, N, n

-----------------------------------------------------------------------------
(* It starts with nothing.                                                 *)
LEMMA DupNothing ==
  ASSUME NEW as, SpaceOk(as), NEW bs, SpaceOk(bs), bs.mmap_list = <<>>
  PROVE  DupSoFar(bs, as, 0)
<1> DEFINE n == Len(as.mmap_list)
<1>1. n \in Nat
  BY LenProperties DEF SpaceOk, Space
<1>2. Len(bs.mmap_list) = 0
  OBVIOUS
<1>3. ASSUME NEW lb \in Page PROVE bs.pte[lb] = Unmapped /\ ~Duplicated(as, 0, lb)
  <2>1. ~Present(bs, lb)
    <3>1. ASSUME Present(bs, lb) PROVE FALSE
      <4>1. PICK v \in ToSet(bs.mmap_list) : InPages(v, lb)
        BY <3>1 DEF SpaceOk, PagesOk, PageAllowed
      <4>2. PICK i \in 1..Len(bs.mmap_list) : bs.mmap_list[i] = v
        BY <4>1, ListSet DEF SpaceOk, Space
      <4>3. QED
        BY <1>2, <4>2
    <3>2. QED
      BY <3>1
  <2> HIDE DEF n
  <2>2. ((n - 0) + 1)..n = {}
    BY <1>1
  <2>3. ~Duplicated(as, 0, lb)
    BY <2>2 DEF Duplicated, n
  <2>4. QED
    BY <2>1, <2>3 DEF Present
<1>4. \A j \in 1..0 : bs.mmap_list[j] = as.mmap_list[(Len(as.mmap_list) - 0) + j]
  BY <1>1
<1>5. \A lb \in Page :
        /\ Duplicated(as, 0, lb) => CopyOf(bs.pte[lb], as.pte[lb])
        /\ ~Duplicated(as, 0, lb) => bs.pte[lb] = Unmapped
  BY <1>3
<1>6. QED
  BY <1>2, <1>4, <1>5, Zenon DEF DupSoFar

(* At the end the areas and the pages are those of the parent.             *)
LEMMA DupAll ==
  ASSUME NEW as, SpaceOk(as), NEW bs, SpaceOk(bs), DupSoFar(bs, as, Len(as.mmap_list))
  PROVE  SameSpace(as, bs)
<1> DEFINE L == as.mmap_list
           M == bs.mmap_list
           n == Len(L)
<1>1. L \in Seq(Area) /\ M \in Seq(Area) /\ n \in Nat
  BY LenProperties DEF SpaceOk, Space
<1>2. Len(M) = n /\ \A j \in 1..n : M[j] = L[(n - n) + j]
  BY DEF DupSoFar
<1>3. L = M
  <2> HIDE DEF L, M, n
  <2>1. \A j \in 1..n : (n - n) + j = j
    BY <1>1
  <2>2. \A j \in 1..n : M[j] = L[j]
    BY <1>2, <2>1
  <2>3. Len(L) = n
    BY DEF n
  <2>4. QED
    BY <1>1, <1>2, <2>2, <2>3
<1>4. ASSUME NEW lb \in Page
      PROVE  (Present(as, lb) <=> Present(bs, lb)) /\ as.pte[lb].w = bs.pte[lb].w
  <2>1. CASE Present(as, lb)
    <3>1. PICK v \in ToSet(L) : InPages(v, lb)
      BY <2>1 DEF SpaceOk, PagesOk, PageAllowed
    <3>2. PICK i \in 1..n : L[i] = v
      BY <1>1, <3>1, ListSet
    <3>3. i \in ((n - n) + 1)..n
      <4> HIDE DEF n
      <4>1. QED
        BY <1>1, <3>2
    <3>4. Duplicated(as, n, lb)
      BY <2>1, <3>1, <3>2, <3>3 DEF Duplicated
    <3>5. CopyOf(bs.pte[lb], as.pte[lb])
      BY <3>4 DEF DupSoFar
    <3>6. bs.pte[lb].frame # None /\ bs.pte[lb].w = as.pte[lb].w
      BY <3>5 DEF CopyOf
    <3>7. Present(bs, lb)
      BY <3>6 DEF Present, Unmapped
    <3>8. QED
      BY <2>1, <3>6, <3>7, Zenon
  <2>2. CASE ~Present(as, lb)
    <3>1. ~Duplicated(as, n, lb)
      BY <2>2 DEF Duplicated
    <3>2. bs.pte[lb] = Unmapped /\ as.pte[lb] = Unmapped
      BY <2>2, <3>1 DEF DupSoFar, Present
    <3>3. ~Present(bs, lb) /\ bs.pte[lb].w = as.pte[lb].w
      BY <3>2, Zenon DEF Present
    <3>4. QED
      BY <2>2, <3>3, Zenon
  <2>3. QED
    BY <2>1, <2>2, Zenon
<1>5. QED
  BY <1>3, <1>4 DEF SameSpace

(* The worlds on the way.                                                  *)
Duplicating(w, to, from, n) ==
  [k \in 0..n |-> {u \in LiveWorlds(w, to) : ~Stopped(u) => DupSoFar(u.mm[to], w.mm[from], k)}]

(* What is in them.                                                        *)
LEMMA DuplicatingIs ==
  ASSUME NEW w, NEW to, NEW from, NEW n \in Nat, NEW k \in 0..n, NEW u
  PROVE  u \in Duplicating(w, to, from, n)[k]
           <=> Live(u, w, to) /\ (~Stopped(u) => DupSoFar(u.mm[to], w.mm[from], k))
BY InLiveWorlds DEF Duplicating

(* One area of the parent is copied.                                       *)
LEMMA CopiesAreaEntries ==
  ASSUME NEW u, Sane(u, {}), NEW from \in Proc, NEW to \in Proc, from # to,
         NEW v \in ToSet(u.mm[from].mmap_list),
         NEW k \in 1..Len(u.mm[from].mmap_list), v = u.mm[from].mmap_list[(Len(u.mm[from].mmap_list) - k) + 1],
         DupSoFar(u.mm[to], u.mm[from], k - 1), ~Stopped(u),
         ~Stopped(CopiesArea(u, to, from, v))
  PROVE  DupSoFar(CopiesArea(u, to, from, v).mm[to], u.mm[from], k)
<1> DEFINE as == u.mm[from]
           bs == u.mm[to]
           u1 == AddsArea(u, to, v)
           u2 == copy_range(u1, from, to, v)
           c == CopiesArea(u, to, from, v)
<1>1. SpaceOk(as) /\ UserArea(v)
  <2>1. SpaceOk(as)
    BY DEF Sane
  <2>2. v \in ToSet(as.mmap_list)
    OBVIOUS
  <2> HIDE DEF as
  <2>3. QED
    BY <2>1, <2>2, AreaFacts
<1>2. c = IF Stopped(u1) THEN u1 ELSE u2
  BY DEF CopiesArea
<1>3. ~Stopped(c)
  OBVIOUS
<1> HIDE DEF u2, c
<1>4. ~Stopped(u1) /\ c = u2
  BY <1>2, <1>3
<1>5. \A j \in 1..Len(bs.mmap_list) : v.vm_start < bs.mmap_list[j].vm_start
  <2>1. v = as.mmap_list[(Len(as.mmap_list) - k) + 1] /\ DupSoFar(bs, as, k - 1)
        /\ k \in 1..Len(as.mmap_list)
    OBVIOUS
  <2> HIDE DEF as, bs
  <2>2. QED
    BY <1>1, <2>1, NextIsFirst
<1>6. AddedFirst(u1.mm[to], bs, v)
  BY <1>1, <1>4, <1>5, AddsAreaFirst
<1>7. Grown(u1, u, to, v)
  BY <1>1, AddsAreaFacts
<1> HIDE DEF u1
<1>8. Sane(u1, {}) /\ u1.mm[from] = as /\ v \in ToSet(u1.mm[to].mmap_list)
  BY <1>4, <1>7 DEF Grown, Live, Others
<1>9. v \in ToSet(u1.mm[from].mmap_list)
  BY <1>8
<1>10. ~Stopped(u2)
  BY <1>3, <1>4
<1>11. CopiedArea(u2.mm[to], u1.mm[to], u1.mm[from], v)
  BY <1>4, <1>8, <1>9, <1>10, CopyRangeEntries DEF u2
<1>12. Kept(u2, u1, to)
  BY <1>8, <1>9, CopyRangeFacts DEF u2
<1>13. u2.mm[to].mmap_list = u1.mm[to].mmap_list /\ CopiedArea(u2.mm[to], u1.mm[to], as, v)
  BY <1>8, <1>11, <1>12 DEF Kept
<1>14. v = as.mmap_list[(Len(as.mmap_list) - k) + 1] /\ DupSoFar(bs, as, k - 1)
       /\ k \in 1..Len(as.mmap_list)
  OBVIOUS
<1> HIDE DEF as, bs
<1>15. DupSoFar(u2.mm[to], as, k)
  BY <1>1, <1>6, <1>13, <1>14, DupStep
<1>16. QED
  BY <1>4, <1>15 DEF c, as

(* dup_mmap gives the child what the parent has.                           *)
LEMMA DupMmapCopies ==
  ASSUME NEW w, Sane(w, {}), NEW to \in Proc, NEW from \in Proc, from # to,
         w.mm[to].mmap_list = <<>>, ~Stopped(dup_mmap(w, to, from))
  PROVE  SameSpace(w.mm[from], dup_mmap(w, to, from).mm[to])
<1> DEFINE as == w.mm[from]
           list == ListToCopy(as.mmap_list)
           W == LiveWorlds(w, to)
           n == Len(as.mmap_list)
           Q == Duplicating(w, to, from, n)
           r == dup_mmap(w, to, from)
<1>1. SpaceOk(as) /\ as.mmap_list \in Seq(Area) /\ n \in Nat
  <2>1. SpaceOk(as) /\ as.mmap_list \in Seq(Area)
    BY DEF Sane, SpaceOk, Space
  <2>2. QED
    BY <2>1, LenProperties
<1>2. list \in Seq(Area) /\ Len(list) = n /\ \A i \in 1..n : list[i] = as.mmap_list[(n - i) + 1]
  BY <1>1, CopyOrder
<1>3. w \in W
  BY InLiveWorlds, LiveSelf
<1>4. r = IF Stopped(w) THEN w ELSE CopiesAreas(w, to, from, list)
  BY DEF dup_mmap, CopiesAreas
<1>5. ~Stopped(r)
  OBVIOUS
<1> HIDE DEF list, r, Q
<1>6. r = CopiesAreas(w, to, from, list)
  BY <1>4, <1>5
<1>7. ASSUME NEW u, Live(u, w, to), NEW k \in 1..n
      PROVE  /\ Live(CopiesArea(u, to, from, list[k]), w, to)
             /\ (~Stopped(u) => DupSoFar(u.mm[to], as, k - 1)) =>
                  (~Stopped(CopiesArea(u, to, from, list[k])) =>
                     DupSoFar(CopiesArea(u, to, from, list[k]).mm[to], as, k))
  <2> DEFINE v == list[k]
             u1 == AddsArea(u, to, v)
             u2 == copy_range(u1, from, to, v)
             c == CopiesArea(u, to, from, v)
  <2>1. v \in ToSet(as.mmap_list) /\ v = as.mmap_list[(n - k) + 1]
    <3>1. v = as.mmap_list[(n - k) + 1]
      BY <1>2
    <3>2. (n - k) + 1 \in 1..n
      <4> HIDE DEF n
      <4>1. QED
        BY <1>1
    <3>3. QED
      BY <1>1, <3>1, <3>2, ListSet
  <2>2. UserArea(v)
    <3> HIDE DEF v, as
    <3>1. QED
      BY <1>1, <2>1, AreaFacts
  <2>3. c = IF Stopped(u) THEN u ELSE IF Stopped(u1) THEN u1 ELSE u2
    BY DEF CopiesArea
  <2> HIDE DEF v, u1, u2, c
  <2>4. Sane(u, {}) /\ u.mm[from] = as
    BY <1>7 DEF Live, Others
  <2>5. Grown(u1, u, to, v)
    BY <2>2, <2>4, AddsAreaFacts DEF u1
  <2>6. Live(u1, w, to) /\ Sane(u1, {}) /\ u1.mm[from] = as
    <3>1. Live(u1, w, to)
      BY <1>7, <2>5, LiveTwice DEF Grown
    <3>2. QED
      BY <3>1 DEF Live, Others
  <2>7. Live(c, w, to)
    <3>1. CASE Stopped(u)
      BY <1>7, <2>3, <3>1
    <3>2. CASE ~Stopped(u) /\ Stopped(u1)
      BY <2>3, <2>6, <3>2
    <3>3. CASE ~Stopped(u) /\ ~Stopped(u1)
      <4>1. v \in ToSet(u1.mm[to].mmap_list) /\ v \in ToSet(u1.mm[from].mmap_list)
        BY <2>1, <2>5, <2>6, <3>3 DEF Grown
      <4>2. Kept(u2, u1, to)
        BY <2>6, <4>1, CopyRangeFacts DEF u2
      <4>3. Live(u2, w, to)
        BY <2>6, <4>2, LiveKept, LiveTwice
      <4>4. QED
        BY <2>3, <3>3, <4>3
    <3>4. QED
      BY <3>1, <3>2, <3>3
  <2>8. ASSUME ~Stopped(u) => DupSoFar(u.mm[to], as, k - 1), ~Stopped(c)
        PROVE  DupSoFar(c.mm[to], as, k)
    <3>1. ~Stopped(u)
      BY <2>3, <2>8
    <3>2. DupSoFar(u.mm[to], as, k - 1)
      BY <2>8, <3>1
    <3>3. /\ DupSoFar(u.mm[to], u.mm[from], k - 1) /\ v \in ToSet(u.mm[from].mmap_list)
          /\ k \in 1..Len(u.mm[from].mmap_list)
          /\ v = u.mm[from].mmap_list[(Len(u.mm[from].mmap_list) - k) + 1]
      BY <2>1, <2>4, <3>2
    <3>4. ~Stopped(CopiesArea(u, to, from, v))
      BY <2>8 DEF c
    <3> HIDE DEF as, n, W
    <3>5. DupSoFar(CopiesArea(u, to, from, v).mm[to], u.mm[from], k)
      BY <2>4, <3>1, <3>3, <3>4, CopiesAreaEntries
    <3>6. QED
      BY <2>4, <3>5 DEF c
  <2>9. QED
    BY <2>7, <2>8 DEF c, v
<1> HIDE DEF as, n
<1>8. ASSUME NEW u \in W, NEW k \in 1..n PROVE CopiesArea(u, to, from, list[k]) \in W
  BY <1>7, InLiveWorlds
<1>9. w \in Q[0]
  <2>1. SpaceOk(w.mm[to])
    BY DEF Sane
  <2>2. DupSoFar(w.mm[to], as, 0)
    BY <1>1, <2>1, DupNothing
  <2>3. 0 \in 0..n /\ Live(w, w, to)
    BY <1>1, LiveSelf
  <2>4. QED
    BY <1>1, <2>2, <2>3, DuplicatingIs DEF Q, as
<1>10. ASSUME NEW k \in 1..n, NEW u \in Q[k - 1] PROVE CopiesArea(u, to, from, list[k]) \in Q[k]
  <2> DEFINE c == CopiesArea(u, to, from, list[k])
  <2>1. k - 1 \in 0..n /\ k \in 0..n
    BY <1>1
  <2>2. Live(u, w, to) /\ (~Stopped(u) => DupSoFar(u.mm[to], w.mm[from], k - 1))
    BY <1>1, <2>1, DuplicatingIs DEF Q
  <2>3. ~Stopped(u) => DupSoFar(u.mm[to], as, k - 1)
    BY <2>2 DEF as
  <2>4. Live(c, w, to) /\ (~Stopped(c) => DupSoFar(c.mm[to], as, k))
    BY <1>7, <2>2, <2>3
  <2> HIDE DEF c
  <2>5. Live(c, w, to) /\ (~Stopped(c) => DupSoFar(c.mm[to], w.mm[from], k))
    BY <2>4 DEF as
  <2>6. c \in Q[k]
    BY <1>1, <2>1, <2>5, DuplicatingIs DEF Q
  <2>7. QED
    BY <2>6 DEF c
<1> HIDE DEF W
<1>11. CopiesAreas(w, to, from, list) \in Q[n]
  BY <1>2, <1>3, <1>8, <1>9, <1>10, CopiesAreasFold
<1>12. Live(r, w, to) /\ DupSoFar(r.mm[to], w.mm[from], n)
  <2>1. n \in 0..n /\ r \in Q[n]
    BY <1>1, <1>6, <1>11
  <2>2. QED
    BY <1>1, <1>5, <2>1, DuplicatingIs DEF Q
<1>13. SpaceOk(r.mm[to]) /\ DupSoFar(r.mm[to], as, n)
  BY <1>12 DEF Live, Sane, as
<1>14. SameSpace(as, r.mm[to])
  BY <1>1, <1>13, DupAll DEF n
<1>15. QED
  BY <1>14 DEF as, r

-----------------------------------------------------------------------------
(* copy_mm that succeeds has copied: one that fails returns its error.     *)
LEMMA PagesGoneRet ==
  ASSUME NEW w, Sane(w, {}), NEW p \in Proc, NEW list, list = w.mm[p].mmap_list
  PROVE  PagesGone(w, p, list).ret = w.ret
<1> DEFINE W == KeptWorlds(w, p)
           R == {u \in W : u.ret = w.ret}
           n == Len(list)
           Q == Always(n, R)
           r == PagesGone(w, p, list)
<1>1. SpaceOk(w.mm[p]) /\ list \in Seq(Area) /\ n \in Nat
  <2>1. SpaceOk(w.mm[p]) /\ list \in Seq(Area)
    BY DEF Sane, SpaceOk, Space
  <2>2. QED
    BY <2>1, LenProperties
<1>2. \A k \in 1..n : UserArea(list[k])
  BY <1>1 DEF SpaceOk, AreasOk
<1>3. w \in R
  BY InKeptWorlds, KeptSelf
<1>4. ASSUME NEW u \in R, NEW k \in 1..n PROVE unmap_range(u, p, list[k]) \in R
  <2> DEFINE x == unmap_range(u, p, list[k])
  <2>1. Kept(u, w, p) /\ u \in MmWorld /\ Sane(u, {}) /\ UserArea(list[k])
    BY <1>2, InKeptWorlds DEF Kept, Sane
  <2>2. Kept(x, u, p)
    BY <2>1, UnmapFacts
  <2>3. x.ret = u.ret
    BY <2>1 DEF unmap_range, MmWorld
  <2> HIDE DEF x, W
  <2>4. Kept(x, w, p)
    BY <2>1, <2>2, KeptTwice
  <2>5. x \in W
    BY <2>4, InKeptWorlds DEF W
  <2>6. QED
    BY <2>3, <2>5 DEF x
<1>5. Q[0] = R /\ Q[n] = R /\ \A k \in 1..n : Q[k - 1] = R /\ Q[k] = R
  BY <1>1, AlwaysIs
<1> HIDE DEF Q, r
<1>6. w \in Q[0] /\ \A k \in 1..n : \A u \in Q[k - 1] : unmap_range(u, p, list[k]) \in Q[k]
  <2> HIDE DEF R
  <2>1. QED
    BY <1>3, <1>4, <1>5
<1>7. r \in Q[n]
  <2> HIDE DEF R
  <2>1. QED
    BY <1>1, <1>3, <1>4, <1>6, PagesGoneFold DEF r
<1>8. r \in R
  BY <1>5, <1>7
<1>9. QED
  BY <1>8 DEF r

(* Nor does giving back the page tables change what is returned.           *)
LEMMA TablesGoneRet ==
  ASSUME NEW w, Sane(w, {}), NEW p \in Proc, NoPages(w.mm[p]), NEW list, list = w.mm[p].mmap_list
  PROVE  TablesGone(w, p, list).ret = w.ret
<1> DEFINE W == EmptyWorlds(w, p)
           R == {u \in W : u.ret = w.ret}
           n == Len(list)
           Q == Always(n, R)
           r == TablesGone(w, p, list)
<1>1. SpaceOk(w.mm[p]) /\ list \in Seq(Area) /\ n \in Nat
  <2>1. SpaceOk(w.mm[p]) /\ list \in Seq(Area)
    BY DEF Sane, SpaceOk, Space
  <2>2. QED
    BY <2>1, LenProperties
<1>2. \A k \in 1..n : UserArea(list[k])
  BY <1>1 DEF SpaceOk, AreasOk
<1>3. w \in R
  BY InEmptyWorlds, KeptSelf
<1>4. ASSUME NEW u \in R, NEW k \in 1..n PROVE exit_range(u, p, list[k]) \in R
  <2> DEFINE x == exit_range(u, p, list[k])
  <2>1. Kept(u, w, p) /\ u \in MmWorld /\ Sane(u, {}) /\ UserArea(list[k]) /\ NoPages(u.mm[p])
    BY <1>2, InEmptyWorlds DEF Kept, Sane
  <2>2. Kept(x, u, p) /\ NoPages(x.mm[p])
    BY <2>1, ExitFacts
  <2>3. x.ret = u.ret
    BY <2>1 DEF exit_range, MmWorld
  <2> HIDE DEF x, W
  <2>4. Kept(x, w, p)
    BY <2>1, <2>2, KeptTwice
  <2>5. x \in W
    BY <2>2, <2>4, InEmptyWorlds DEF W
  <2>6. QED
    BY <2>3, <2>5 DEF x
<1>5. Q[0] = R /\ Q[n] = R /\ \A k \in 1..n : Q[k - 1] = R /\ Q[k] = R
  BY <1>1, AlwaysIs
<1> HIDE DEF Q, r
<1>6. w \in Q[0] /\ \A k \in 1..n : \A u \in Q[k - 1] : exit_range(u, p, list[k]) \in Q[k]
  <2> HIDE DEF R
  <2>1. QED
    BY <1>3, <1>4, <1>5
<1>7. r \in Q[n]
  <2> HIDE DEF R
  <2>1. QED
    BY <1>1, <1>3, <1>4, <1>6, TablesGoneFold DEF r
<1>8. r \in R
  BY <1>5, <1>7
<1>9. QED
  BY <1>8 DEF r

(* TakesApart returns what the operation that failed returns.              *)
LEMMA TakesApartRet ==
  ASSUME NEW w, Sane(w, {}), NEW p \in Proc
  PROVE  TakesApart(w, p).ret = w.ret
<1> DEFINE list == w.mm[p].mmap_list
           w0 == PagesGone(w, p, list)
           w1 == TablesGone(w0, p, list)
           u == TakesApart(w, p)
<1>1. exit_mmap(w, p) = w1
  BY DEF exit_mmap, PagesGone, TablesGone
<1>2. u = [w1 EXCEPT !.mm[p] = NoMm, !.free = w1.free \cup ({w1.mm[p].pgdir} \ {None})]
  <2>1. u = [exit_mmap(w, p) EXCEPT !.mm[p] = NoMm,
               !.free = @ \cup ({exit_mmap(w, p).mm[p].pgdir} \ {None})]
    BY DEF TakesApart
  <2> HIDE DEF w1, u
  <2>2. QED
    BY <1>1, <2>1
<1>3. Kept(w0, w, p) /\ NoPages(w0.mm[p]) /\ w0.ret = w.ret
  <2>1. list = w.mm[p].mmap_list
    OBVIOUS
  <2> HIDE DEF list
  <2>2. QED
    BY <2>1, PagesGoneFacts, PagesGoneRet
<1> HIDE DEF w0
<1>4. Kept(w1, w0, p) /\ w1.ret = w0.ret
  <2>1. list = w0.mm[p].mmap_list /\ Sane(w0, {})
    BY <1>3 DEF Kept
  <2> HIDE DEF list
  <2>2. QED
    BY <1>3, <2>1, TablesGoneFacts, TablesGoneRet
<1> HIDE DEF w1, u
<1>5. w1 \in MmWorld
  BY <1>4 DEF Kept, Sane
<1>6. u.ret = w1.ret
  BY <1>2, <1>5 DEF MmWorld
<1>7. QED
  BY <1>3, <1>4, <1>6 DEF u

(* A new address space has no areas.                                       *)
LEMMA CreatedEmpty ==
  ASSUME NEW w, Sane(w, {}), NEW p \in Proc, w.mm[p] = NoMm
  PROVE  setup_pgdir(mm_create(w, p), p).mm[p].mmap_list = <<>>
<1> DEFINE w1 == mm_create(w, p)
<1>1. Sane(w1, {}) /\ w1.mm = w.mm
  BY MmCreateFacts
<1> HIDE DEF w1
<1>2. w1.mm[p].pgdir = None /\ w1.mm[p].mmap_list = <<>>
  BY <1>1, NoMmOk DEF NoMm
<1>3. Kept(setup_pgdir(w1, p), w1, p)
  BY <1>1, <1>2, SetupPgdirFacts
<1>4. QED
  BY <1>2, <1>3 DEF Kept, w1

(* copy_mm that succeeds gives the child what the parent has.              *)
LEMMA CopyMmCopies ==
  ASSUME NEW w, Sane(w, {}), NEW to \in Proc, w.mm[to] = NoMm, NEW from \in Proc, from # to,
         copy_mm(w, to, from).ret = "0", ~copy_mm(w, to, from).panicked
  PROVE  SameSpace(w.mm[from], copy_mm(w, to, from).mm[to])
<1> DEFINE w1 == setup_pgdir(mm_create(w, to), to)
           w2 == dup_mmap(w1, to, from)
           r == copy_mm(w, to, from)
<1>1. r = CleansUp(w2, to)
  BY DEF copy_mm
<1>2. Live(w1, w, to) /\ w1.mm[to].mmap_list = <<>>
  BY CreatedFacts, CreatedEmpty
<1>3. r.ret = "0" /\ ~r.panicked
  OBVIOUS
<1> HIDE DEF w1, r
<1>4. Sane(w1, {}) /\ w1.mm[from] = w.mm[from]
  BY <1>2 DEF Live, Others
<1>5. Sane(w2, {})
  BY <1>4, DupMmapFacts DEF Live
<1> HIDE DEF w2
<1>6. r = w2
  <2>1. CASE w2.ret = "0" \/ w2.panicked
    BY <1>1, <2>1 DEF CleansUp
  <2>2. CASE ~(w2.ret = "0" \/ w2.panicked)
    <3>1. r = TakesApart(w2, to)
      BY <1>1, <2>2 DEF CleansUp
    <3>2. r.ret = w2.ret
      BY <1>5, <3>1, TakesApartRet
    <3>3. QED
      BY <1>3, <2>2, <3>2
  <2>3. QED
    BY <2>1, <2>2
<1>7. ~Stopped(w2)
  BY <1>3, <1>6 DEF Stopped
<1>8. SameSpace(w1.mm[from], w2.mm[to])
  BY <1>2, <1>4, <1>7, DupMmapCopies DEF w2
<1>9. QED
  BY <1>4, <1>6, <1>8 DEF r

(* Only a fork makes a user process of one that was none.                  *)
ForkCopied ==
  \A q \in Proc : ~panicked' /\ state[q] = "none" /\ state'[q] = "user" =>
    \E p \in Proc : state[p] = "user" /\ mm'[p] = mm[p] /\ SameSpace(mm[p], mm'[q])

(* A fork.                                                                 *)
LEMMA ForkStep ==
  ASSUME MmInv, NEW p \in Proc, NEW q \in Proc \ {p}, NEW n \in 0..MaxKmalloc, do_fork(p, q, n)
  PROVE  ForkCopied
<1> DEFINE w0 == World(n)
           w == copy_mm(w0, q, p)
<1>1. /\ ~panicked /\ state[p] = "user" /\ state[q] = "none"
      /\ mm' = w.mm /\ panicked' = w.panicked
      /\ state' = IF w.ret = "0" THEN [state EXCEPT ![q] = "user"] ELSE state
  BY DEF do_fork, Becomes
<1>2. n \in Nat /\ MaxCalls \in Nat
  BY Sizes
<1>3. Sane(w0, {}) /\ w0.mm = mm
  BY <1>2, AnyWorld DEF MmInv
<1> HIDE DEF w0
<1>4. w0.mm[q] = NoMm
  BY <1>1, <1>3 DEF MmInv
<1>5. Done(w, w0, q)
  BY <1>3, <1>4, CopyMmFacts
<1>6. ~w.panicked /\ w.ret = "0" => SameSpace(w0.mm[p], w.mm[q])
  BY <1>3, <1>4, CopyMmCopies
<1> HIDE DEF w
<1>7. mm'[p] = mm[p]
  BY <1>1, <1>3, <1>5 DEF Done, Live, Others
<1>8. ASSUME NEW r \in Proc, ~panicked', state[r] = "none", state'[r] = "user"
      PROVE  SameSpace(mm[p], mm'[r])
  <2>1. w.ret = "0" /\ r = q
    BY <1>1, <1>8 DEF MmInv
  <2>2. QED
    BY <1>1, <1>3, <1>6, <1>8, <2>1
<1>9. QED
  BY <1>1, <1>7, <1>8 DEF ForkCopied

(* The others leave a process that is none alone.                          *)
LEMMA NoFork ==
  ASSUME MmInv, NEW p \in Proc, state[p] # "none", NEW s,
         state' = [state EXCEPT ![p] = s]
  PROVE  ForkCopied
<1>1. ASSUME NEW r \in Proc, state[r] = "none", state'[r] = "user" PROVE FALSE
  BY <1>1 DEF MmInv
<1>2. QED
  BY <1>1 DEF ForkCopied

(***************************************************************************)
(* A fork that succeeds copies areas, pages and permissions.               *)
(***************************************************************************)
THEOREM ForksCopy == MmSpec => ForkCopies
<1>1. MmInv /\ [MmNext]_mmVars => [ForkCopied]_mmVars
  <2> SUFFICES ASSUME MmInv, MmNext PROVE ForkCopied
    OBVIOUS
  <2>1. PICK p \in Proc :
          \/ \E q \in Proc \ {p}, n \in 0..MaxKmalloc : do_fork(p, q, n)
          \/ \E prog \in Program, n \in 0..MaxKmalloc : do_execve(p, prog, n)
          \/ do_exit(p)
          \/ \E addr \in Addr, write \in BOOLEAN : do_pgfault(p, addr, write)
          \/ \E addr \in Addr, write \in BOOLEAN : UserMemory(p, addr, 1, write)
    BY DEF MmNext
  <2>2. CASE \E q \in Proc \ {p}, n \in 0..MaxKmalloc : do_fork(p, q, n)
    BY <2>2, ForkStep
  <2>3. CASE \E prog \in Program, n \in 0..MaxKmalloc : do_execve(p, prog, n)
    <3>1. PICK prog \in Program, n \in 0..MaxKmalloc : do_execve(p, prog, n)
      BY <2>3
    <3>2. state[p] # "none" /\ \E s : state' = [state EXCEPT ![p] = s]
      BY <3>1 DEF do_execve
    <3>3. QED
      BY <3>2, NoFork
  <2>4. CASE do_exit(p)
    <3>1. state[p] # "none" /\ state' = [state EXCEPT ![p] = "none"]
      BY <2>4 DEF do_exit
    <3>2. QED
      BY <3>1, NoFork
  <2>5. CASE state' = state
    BY <2>5 DEF ForkCopied
  <2>6. QED
    <3>1. \/ \E addr \in Addr, write \in BOOLEAN : do_pgfault(p, addr, write)
          \/ \E addr \in Addr, write \in BOOLEAN : UserMemory(p, addr, 1, write)
          => state' = state
      BY DEF do_pgfault, UserMemory
    <3>2. QED
      BY <2>1, <2>2, <2>3, <2>4, <2>5, <3>1
<1>2. QED
  BY <1>1, MmInvariant, PTL DEF MmSpec, ForkCopies, ForkCopied

=============================================================================

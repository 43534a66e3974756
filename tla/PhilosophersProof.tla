-------------------------- MODULE PhilosophersProof --------------------------
(***************************************************************************)
(* Proofs about Philosophers, for any number of philosophers and meals and *)
(* any times of thinking and eating: no two neighbours have their forks at *)
(* once, and nobody sleeps hungry without a neighbour that eats and that   *)
(* will look for him.                                                      *)
(***************************************************************************)
EXTENDS Philosophers, ListLemmas

(***************************************************************************)
(* Where a thread stands: as a thinker, at the semaphore of its own, or    *)
(* with the forks.  The semaphore of its own is given to it before it      *)
(* runs, so at "fork" and "fork_sched" it may have the forks already.      *)
(***************************************************************************)
IdleLabel == {"boot", "idle"}
InitLabel == {"none", "init_fork", "init_sched", "wait", "wait_sched", "init_done"}
ThinkLabel == {"none", "think", "think_sched", "think_woken", "take", "take_sched", "hungry",
               "exit_links", "exit_sched"}
EatLabel == {"eat", "eat_sched", "eat_woken", "put", "put_sched", "full"}
PhilLabel == ThinkLabel \cup {"fork", "fork_sched"} \cup EatLabel

(* A thread whose state is set but that has not yet called schedule().     *)
Leaving == {"wait_sched", "think_sched", "take_sched", "fork_sched", "eat_sched", "put_sched",
            "exit_links", "exit_sched"}

TimerLabel == {"think_sched", "think_woken", "eat_sched", "eat_woken"}
MutexLabel == {"take_sched", "hungry", "put_sched", "full"}
OwnLabel == {"fork_sched", "eat"}

Places ==
  /\ pc[idleproc] \in IdleLabel
  /\ pc[initproc] \in InitLabel
  /\ \A i \in Phil : pc[i] \in PhilLabel
  /\ pc[idleproc] = "boot" => current = idleproc /\ state[initproc] = "UNUSED"
  /\ pc[current] # "none"

Stands ==
  \A p \in Proc :
    /\ pc[p] \in Leaving => p = current
    /\ pc[p] = "none" <=> state[p] = "UNUSED" \/ (state[p] = "ZOMBIE" /\ p # current)
    /\ state[p] = "ZOMBIE" /\ p = current => pc[p] \in {"exit_links", "exit_sched"}
    /\ pc[p] \in {"exit_links", "exit_sched"} => state[p] = "ZOMBIE"
    /\ state[p] = "SLEEPING" /\ p = current => pc[p] \in Leaving
    /\ wait_state[p] # "0" <=> state[p] = "SLEEPING"
    /\ wait_state[p] = "WT_CHILD" => p = initproc
    /\ wait_state[p] = "WT_TIMER" => pc[p] \in TimerLabel
    /\ wait_state[p] = "WT_KSEM" => pc[p] \in MutexLabel \cup OwnLabel

(* What is in the run queue can run.                                       *)
Queued ==
  /\ NoRepeat(run_list)
  /\ \A p \in Proc :
       InList(p, run_list) => state[p] = "RUNNABLE" /\ p # current /\ p # idleproc
  /\ state[idleproc] = "RUNNABLE"

(* Every timer is that of a sleeper, which it wakes.                       *)
Timers ==
  /\ Ticking(timer_list)
  /\ \A p : LeftOf(timer_list, p) <= SLEEP_TIME
  /\ Armed(timer_list) = {p \in Phil : wait_state[p] = "WT_TIMER"}

AtMutex(p) == wait_state[p] = "WT_KSEM" /\ pc[p] \in MutexLabel
AtOwn(i) == wait_state[i] = "WT_KSEM" /\ pc[i] \in OwnLabel

Queues ==
  /\ NoRepeat(sems[mutex].queue)
  /\ \A p \in Phil : InList(p, sems[mutex].queue) <=> AtMutex(p)
  /\ \A i \in Phil : sems[i].queue = IF AtOwn(i) THEN <<i>> ELSE <<>>

(* What a philosopher has announced, and the permit that goes with it.     *)
Announced ==
  \A i \in Phil :
    /\ pc[i] \in ThinkLabel => state_sema[i] = "THINKING"
    /\ pc[i] = "fork" => state_sema[i] \in {"HUNGRY", "EATING"}
    /\ pc[i] \in {"fork_sched"} \cup EatLabel =>
         state_sema[i] = IF AtOwn(i) THEN "HUNGRY" ELSE "EATING"
    /\ sems[i].value = IF pc[i] = "fork" /\ state_sema[i] = "EATING" THEN 1 ELSE 0

Table ==
  \A i \in Phil :
    /\ state_sema[i] = "EATING" => state_sema[Left(i)] # "EATING" /\ state_sema[Right(i)] # "EATING"
    /\ state_sema[i] = "HUNGRY" => state_sema[Left(i)] = "EATING" \/ state_sema[Right(i)] = "EATING"

Meals == \A i \in Phil : pc[i] \notin {"none", "think", "exit_links", "exit_sched"} => iter[i] < TIMES

IInv ==
  /\ TypeOK /\ Places /\ Stands /\ Queued /\ Timers /\ Queues /\ Announced /\ Table /\ Meals

-----------------------------------------------------------------------------
(***************************************************************************)
(* The table is round.                                                     *)
(***************************************************************************)
LEMMA Seats ==
  /\ N \in Nat /\ N > 2
  /\ \A i \in Phil : i \in Int /\ 0 <= i /\ i < N
  /\ \A i \in Phil : Left(i) = IF i = 0 THEN N - 1 ELSE i - 1
  /\ \A i \in Phil : Right(i) = IF i = N - 1 THEN 0 ELSE i + 1
<1>1. N \in Nat /\ N > 2
  BY PhilAssumption
<1>2. \A i \in Phil : i \in Int /\ 0 <= i /\ i < N
  BY <1>1 DEF Phil
<1>3. ASSUME NEW a \in Int, 0 <= a, a < 2 * N
      PROVE  a % N = IF a < N THEN a ELSE a - N
  <2>1. CASE a < N
    BY <1>1, <1>3, <2>1
  <2>2. CASE a >= N
    BY <1>1, <1>3, <2>2
  <2>3. QED
    BY <1>1, <1>3, <2>1, <2>2
<1>4. ASSUME NEW i \in Phil
      PROVE  Left(i) = IF i = 0 THEN N - 1 ELSE i - 1
  <2>1. i - 1 + N \in Int /\ 0 <= i - 1 + N /\ i - 1 + N < 2 * N
    BY <1>1, <1>2
  <2>2. (i - 1 + N) % N = IF i - 1 + N < N THEN i - 1 + N ELSE (i - 1 + N) - N
    BY <1>3, <2>1
  <2>3. QED
    BY <1>1, <1>2, <2>2 DEF Left
<1>5. ASSUME NEW i \in Phil
      PROVE  Right(i) = IF i = N - 1 THEN 0 ELSE i + 1
  <2>1. i + 1 \in Int /\ 0 <= i + 1 /\ i + 1 < 2 * N
    BY <1>1, <1>2
  <2>2. (i + 1) % N = IF i + 1 < N THEN i + 1 ELSE (i + 1) - N
    BY <1>3, <2>1
  <2>3. QED
    BY <1>1, <1>2, <2>2 DEF Right
<1>6. QED
  BY <1>1, <1>2, <1>4, <1>5

(* Everyone has two neighbours, who are his neighbours from the other      *)
(* side.                                                                   *)
LEMMA Neighbourhood ==
  ASSUME NEW i \in Phil
  PROVE  /\ Left(i) \in Phil /\ Right(i) \in Phil
         /\ Left(i) # i /\ Right(i) # i /\ Left(i) # Right(i)
         /\ Left(Right(i)) = i /\ Right(Left(i)) = i
<1>1. Left(i) \in Phil /\ Right(i) \in Phil
  BY Seats DEF Phil
<1>2. Left(i) # i /\ Right(i) # i /\ Left(i) # Right(i)
  BY Seats
<1>3. Left(Right(i)) = i
  <2>1. Left(Right(i)) = IF Right(i) = 0 THEN N - 1 ELSE Right(i) - 1
    BY <1>1, Seats
  <2>2. QED
    BY <2>1, Seats
<1>4. Right(Left(i)) = i
  <2>1. Right(Left(i)) = IF Left(i) = N - 1 THEN 0 ELSE Left(i) + 1
    BY <1>1, Seats
  <2>2. QED
    BY <2>1, Seats
<1>5. QED
  BY <1>1, <1>2, <1>3, <1>4

-----------------------------------------------------------------------------
(***************************************************************************)
(* phi_test_sema on one philosopher, and on one after the other.           *)
(***************************************************************************)
Tested(w, list) == FoldLeft(phi_test_sema, w, list)

(* phi_test_sema for one seat.                                             *)
LEMMA TestOne ==
  ASSUME NEW w, NEW a
  PROVE  Tested(w, <<a>>) = phi_test_sema(w, a)
<1> DEFINE one == <<a>>
           Rec(g) == g = [s \in SUBSET DOMAIN one |->
             IF s = {} THEN w
             ELSE LET x == Max(s)
                  IN  phi_test_sema(g[s \ {x}], one[x])]
           f == [s \in SUBSET DOMAIN one |-> IF s = {} THEN w ELSE phi_test_sema(w, a)]
           it == CHOOSE g : Rec(g)
<1>1. DOMAIN one = {1} /\ one[1] = a
  OBVIOUS
<1>2. Max({1}) = 1
  <2>1. {1} \in SUBSET (1..1) /\ {1} # {} /\ 1 \in Nat
    OBVIOUS
  <2>2. Max({1}) \in {1}
    BY <2>1, MaxOfFew
  <2>3. QED
    BY <2>2
<1>3. Rec(f)
  <2>1. ASSUME NEW s \in SUBSET DOMAIN one, s # {}
        PROVE  f[s] = phi_test_sema(f[s \ {Max(s)}], one[Max(s)])
    <3>1. s = {1} /\ s \ {1} = {}
      BY <1>1, <2>1
    <3>2. f[{}] = w /\ f[s] = phi_test_sema(w, a)
      BY <2>1
    <3>3. QED
      BY <1>1, <1>2, <3>1, <3>2
  <2>2. QED
    BY <2>1
<1>4. it[DOMAIN one] = Tested(w, one)
  BY DEF Tested, FoldLeft, MapThenFoldSet
<1> HIDE DEF Rec, it
<1>5. Rec(it)
  BY <1>3 DEF it
<1>6. it[{}] = w
  BY <1>5 DEF Rec
<1>7. it[{1}] = phi_test_sema(it[{1} \ {1}], one[1])
  <2>1. {1} \in SUBSET DOMAIN one /\ {1} # {}
    BY <1>1
  <2>2. QED
    BY <1>2, <1>5, <2>1 DEF Rec
<1>8. {1} \ {1} = {}
  OBVIOUS
<1>9. QED
  BY <1>1, <1>4, <1>6, <1>7, <1>8

(* phi_test_sema for one seat and then for another.                        *)
LEMMA TestTwo ==
  ASSUME NEW w, NEW a, NEW b
  PROVE  Tested(w, <<a, b>>) = phi_test_sema(phi_test_sema(w, a), b)
<1> DEFINE two == <<a, b>>
           Rec(g) == g = [s \in SUBSET DOMAIN two |->
             IF s = {} THEN w
             ELSE LET x == Max(s)
                  IN  phi_test_sema(g[s \ {x}], two[x])]
           f == [s \in SUBSET DOMAIN two |->
                  IF s = {} THEN w
                  ELSE IF s = {1} THEN phi_test_sema(w, a)
                  ELSE IF s = {2} THEN phi_test_sema(w, b)
                  ELSE phi_test_sema(phi_test_sema(w, a), b)]
           it == CHOOSE g : Rec(g)
<1>1. DOMAIN two = {1, 2} /\ two[1] = a /\ two[2] = b
  OBVIOUS
<1>2. \A s \in SUBSET {1, 2} : s # {} => Max(s) \in s /\ \A y \in s : Max(s) >= y
  <2>1. \A s \in SUBSET {1, 2} : s \in SUBSET (1..2)
    OBVIOUS
  <2>2. QED
    BY <2>1, MaxOfFew
<1>3. \A s \in SUBSET {1, 2} : s # {} => Max(s) = IF 2 \in s THEN 2 ELSE 1
  <2>1. ASSUME NEW s \in SUBSET {1, 2}, s # {}
        PROVE  Max(s) = IF 2 \in s THEN 2 ELSE 1
    <3>1. Max(s) \in s /\ \A y \in s : Max(s) >= y
      BY <1>2, <2>1
    <3> DEFINE top == Max(s)
    <3>2. top \in s /\ \A y \in s : top >= y
      BY <3>1
    <3> HIDE DEF top
    <3>3. top = IF 2 \in s THEN 2 ELSE 1
      BY <3>2
    <3>4. QED
      BY <3>3 DEF top
  <2>2. QED
    BY <2>1
<1>4. Rec(f)
  <2>1. ASSUME NEW s \in SUBSET DOMAIN two, s # {}
        PROVE  f[s] = phi_test_sema(f[s \ {Max(s)}], two[Max(s)])
    <3>1. /\ {} \in SUBSET DOMAIN two /\ {1} \in SUBSET DOMAIN two
          /\ {2} \in SUBSET DOMAIN two /\ {1, 2} \in SUBSET DOMAIN two
      BY <1>1
    <3>2. {1} # {} /\ {2} # {} /\ {1} # {2} /\ {1, 2} # {} /\ {1, 2} # {1} /\ {1, 2} # {2}
      OBVIOUS
    <3>3. /\ f[{}] = w /\ f[{1}] = phi_test_sema(w, a) /\ f[{2}] = phi_test_sema(w, b)
          /\ f[{1, 2}] = phi_test_sema(phi_test_sema(w, a), b)
      BY <3>1, <3>2
    <3>4. s = {1} \/ s = {2} \/ s = {1, 2}
      BY <1>1, <2>1
    <3> HIDE DEF f, two
    <3>5. CASE s = {1}
      <4>1. Max(s) = 1 /\ s \ {1} = {}
        BY <1>3, <3>5
      <4>2. QED
        BY <1>1, <3>3, <3>5, <4>1
    <3>6. CASE s = {2}
      <4>1. Max(s) = 2 /\ s \ {2} = {}
        BY <1>3, <3>6
      <4>2. QED
        BY <1>1, <3>3, <3>6, <4>1
    <3>7. CASE s = {1, 2}
      <4>1. Max(s) = 2 /\ s \ {2} = {1}
        BY <1>3, <3>7
      <4>2. QED
        BY <1>1, <3>3, <3>7, <4>1
    <3>8. QED
      BY <3>4, <3>5, <3>6, <3>7
  <2>2. QED
    BY <2>1
<1>5. it[DOMAIN two] = Tested(w, two)
  BY DEF Tested, FoldLeft, MapThenFoldSet
<1> HIDE DEF Rec, it
<1>6. Rec(it)
  BY <1>4 DEF it
<1>7. it[{}] = w
  BY <1>6 DEF Rec
<1>8. \A s \in SUBSET {1, 2} : s # {} => it[s] = phi_test_sema(it[s \ {Max(s)}], two[Max(s)])
  BY <1>1, <1>6 DEF Rec
<1> HIDE DEF two
<1>9. it[{1}] = phi_test_sema(w, a)
  <2>1. {1} \in SUBSET {1, 2} /\ {1} # {} /\ {1} \ {1} = {}
    OBVIOUS
  <2>2. Max({1}) = 1
    BY <1>3, <2>1
  <2>3. it[{1}] = phi_test_sema(it[{1} \ {1}], two[1])
    BY <1>8, <2>1, <2>2
  <2>4. QED
    BY <1>1, <1>7, <2>1, <2>3
<1>10. it[{1, 2}] = phi_test_sema(it[{1}], b)
  <2>1. {1, 2} \in SUBSET {1, 2} /\ {1, 2} # {} /\ {1, 2} \ {2} = {1}
    OBVIOUS
  <2>2. Max({1, 2}) = 2
    BY <1>3, <2>1
  <2>3. it[{1, 2}] = phi_test_sema(it[{1, 2} \ {2}], two[2])
    BY <1>8, <2>1, <2>2
  <2>4. QED
    BY <1>1, <2>1, <2>3
<1>11. QED
  BY <1>1, <1>5, <1>9, <1>10 DEF two
-----------------------------------------------------------------------------
(***************************************************************************)
(* The record that phi_test_sema and up work on.  Good(at, w): once the    *)
(* threads stand where at says and those of w.woken are awake, w is what   *)
(* Queues and Announced ask for.  Seated(w, S): it is what Table asks for, *)
(* but that the philosophers of S may be hungry without a reason, as long  *)
(* as nobody has tested them.                                              *)
(***************************************************************************)
Sems == [Phil \cup {mutex} -> [value : Nat, queue : Seq(Phil)]]
Announcements == [Phil -> {"THINKING", "HUNGRY", "EATING"}]
Work == [st : Announcements, sems : Sems, woken : Seq(Phil)]

Waits(at, w, i, label) == wait_state[i] = "WT_KSEM" /\ at[i] \in label /\ ~InList(i, w.woken)

GoodWoken(w) ==
  /\ NoRepeat(w.woken)
  /\ \A p : InList(p, w.woken) => p \in Phil /\ wait_state[p] = "WT_KSEM"

GoodQueues(at, w) ==
  /\ NoRepeat(w.sems[mutex].queue)
  /\ \A p \in Phil : InList(p, w.sems[mutex].queue) <=> Waits(at, w, p, MutexLabel)
  /\ \A i \in Phil : w.sems[i].queue = IF Waits(at, w, i, OwnLabel) THEN <<i>> ELSE <<>>

GoodStates(at, w) ==
  \A i \in Phil :
    /\ at[i] \in ThinkLabel => w.st[i] = "THINKING"
    /\ at[i] = "fork" => w.st[i] \in {"HUNGRY", "EATING"}
    /\ at[i] \in {"fork_sched"} \cup EatLabel =>
         w.st[i] = IF Waits(at, w, i, OwnLabel) THEN "HUNGRY" ELSE "EATING"
    /\ w.sems[i].value = IF at[i] = "fork" /\ w.st[i] = "EATING" THEN 1 ELSE 0

Good(at, w) == w \in Work /\ GoodWoken(w) /\ GoodQueues(at, w) /\ GoodStates(at, w)

Seated(w, S) ==
  \A i \in Phil :
    /\ w.st[i] = "EATING" => w.st[Left(i)] # "EATING" /\ w.st[Right(i)] # "EATING"
    /\ w.st[i] = "HUNGRY" /\ i \notin S =>
         w.st[Left(i)] = "EATING" \/ w.st[Right(i)] = "EATING"

(* What up changes in the record.                                          *)
LEMMA UpFields ==
  ASSUME NEW w \in Work, NEW x \in Phil \cup {mutex}
  PROVE  /\ up(w, x) \in Work
         /\ up(w, x).st = w.st
         /\ \A y \in Phil \cup {mutex} : y # x => up(w, x).sems[y] = w.sems[y]
         /\ w.sems[x].queue = <<>> =>
              /\ up(w, x).sems[x].value = w.sems[x].value + 1
              /\ up(w, x).sems[x].queue = <<>>
              /\ up(w, x).woken = w.woken
         /\ w.sems[x].queue # <<>> =>
              /\ up(w, x).sems[x].value = w.sems[x].value
              /\ up(w, x).sems[x].queue = Tail(w.sems[x].queue)
              /\ up(w, x).woken = Append(w.woken, Head(w.sems[x].queue))
              /\ Head(w.sems[x].queue) \in Phil
<1> DEFINE sem == w.sems[x]
           new == up(w, x)
<1>1. /\ w.st \in Announcements /\ w.sems \in Sems /\ w.woken \in Seq(Phil)
      /\ sem \in [value : Nat, queue : Seq(Phil)]
  BY DEF Work, Sems
<1>2. sem.value \in Nat /\ sem.queue \in Seq(Phil)
  BY <1>1
<1> DEFINE later == [w.sems EXCEPT ![x] = AfterUp(sem)]
<1>3. new.st = w.st /\ new.sems = later /\ new.woken = w.woken \o Woken(sem)
      /\ new = [st |-> w.st, sems |-> later, woken |-> w.woken \o Woken(sem)]
  <2>1. w = [st |-> w.st, sems |-> w.sems, woken |-> w.woken]
    BY DEF Work
  <2>2. new = [[w EXCEPT !.sems = later] EXCEPT !.woken = w.woken \o Woken(sem)]
    BY <2>1 DEF up
  <2>3. QED
    BY <2>1, <2>2
<1>4. /\ new.sems[x] = AfterUp(sem)
      /\ \A y \in Phil \cup {mutex} : y # x => new.sems[y] = w.sems[y]
  BY <1>1, <1>3 DEF Sems
<1>5. CASE sem.queue = <<>>
  <2>1. AfterUp(sem) = [value |-> sem.value + 1, queue |-> <<>>]
    BY <1>1, <1>5 DEF AfterUp
  <2>2. Woken(sem) = <<>> /\ w.woken \o <<>> = w.woken
    BY <1>1, <1>5, ConcatEmptySeq DEF Woken
  <2>3. AfterUp(sem) \in [value : Nat, queue : Seq(Phil)]
    BY <1>2, <2>1
  <2>4. new \in Work
    BY <1>1, <1>3, <2>2, <2>3 DEF Work, Sems
  <2>5. QED
    BY <1>3, <1>4, <1>5, <2>1, <2>2, <2>4
<1>6. CASE sem.queue # <<>>
  <2>1. AfterUp(sem) = [value |-> sem.value, queue |-> Tail(sem.queue)]
    BY <1>1, <1>6 DEF AfterUp
  <2>2. Head(sem.queue) \in Phil /\ Tail(sem.queue) \in Seq(Phil)
    BY <1>2, <1>6, HeadTailProperties
  <2>3. Woken(sem) = <<Head(sem.queue)>>
    BY <1>6 DEF Woken
  <2>4. w.woken \o <<Head(sem.queue)>> = Append(w.woken, Head(sem.queue))
    BY <1>1, <2>2, AppendIsConcat
  <2>5. Append(w.woken, Head(sem.queue)) \in Seq(Phil)
    BY <1>1, <2>2, AppendProperties
  <2>6. AfterUp(sem) \in [value : Nat, queue : Seq(Phil)]
    BY <1>2, <2>1, <2>2
  <2>7. new \in Work
    BY <1>1, <1>3, <2>3, <2>4, <2>5, <2>6 DEF Work, Sems
  <2>8. QED
    BY <1>3, <1>4, <1>6, <2>1, <2>2, <2>3, <2>4, <2>7
<1>7. QED
  BY <1>5, <1>6

(* The philosopher a, who is hungry, gets the semaphore of his own.        *)
LEMMA UpOwn ==
  ASSUME NEW at, \A i \in Phil : at[i] \in PhilLabel,
         NEW w, Good(at, w), NEW a \in Phil, w.st[a] = "HUNGRY",
         NEW v, v = [w EXCEPT !.st[a] = "EATING"]
  PROVE  /\ Good(at, up(v, a))
         /\ up(v, a).st[a] = "EATING"
         /\ \A i \in Phil : i # a => up(v, a).st[i] = w.st[i]
<1>1. w \in Work /\ w.st \in Announcements /\ w.sems \in Sems /\ w.woken \in Seq(Phil)
  BY DEF Good, Work
<1>2. /\ v.sems = w.sems /\ v.woken = w.woken
      /\ v.st = [w.st EXCEPT ![a] = "EATING"]
      /\ v = [st |-> v.st, sems |-> v.sems, woken |-> v.woken]
  BY <1>1 DEF Work
<1>3. /\ v.st[a] = "EATING" /\ \A i \in Phil : i # a => v.st[i] = w.st[i]
      /\ v.st \in Announcements
  BY <1>1, <1>2 DEF Announcements
<1>4. v \in Work
  BY <1>1, <1>2, <1>3 DEF Work
<1> DEFINE new == up(v, a)
<1>5. /\ new \in Work
      /\ new.st = v.st
      /\ \A y \in Phil \cup {mutex} : y # a => new.sems[y] = w.sems[y]
      /\ w.sems[a].queue = <<>> =>
           /\ new.sems[a].value = w.sems[a].value + 1
           /\ new.sems[a].queue = <<>>
           /\ new.woken = w.woken
      /\ w.sems[a].queue # <<>> =>
           /\ new.sems[a].value = w.sems[a].value
           /\ new.sems[a].queue = Tail(w.sems[a].queue)
           /\ new.woken = Append(w.woken, Head(w.sems[a].queue))
  <2>1. /\ new \in Work
        /\ new.st = v.st
        /\ \A y \in Phil \cup {mutex} : y # a => new.sems[y] = v.sems[y]
        /\ v.sems[a].queue = <<>> =>
             /\ new.sems[a].value = v.sems[a].value + 1
             /\ new.sems[a].queue = <<>>
             /\ new.woken = v.woken
        /\ v.sems[a].queue # <<>> =>
             /\ new.sems[a].value = v.sems[a].value
             /\ new.sems[a].queue = Tail(v.sems[a].queue)
             /\ new.woken = Append(v.woken, Head(v.sems[a].queue))
    <3>1. a \in Phil \cup {mutex}
      OBVIOUS
    <3>2. QED
      BY <1>4, <3>1, UpFields
  <2>2. QED
    BY <1>2, <2>1
<1> HIDE DEF new
<1>6. a # mutex
  BY PhilAssumption
<1>7. at[a] \in {"fork", "fork_sched"} \cup EatLabel
  BY DEF Good, GoodStates, PhilLabel
<1>8. /\ at[a] = "fork" => w.sems[a].value = 0 /\ ~Waits(at, w, a, OwnLabel)
      /\ at[a] # "fork" => w.sems[a].value = 0 /\ Waits(at, w, a, OwnLabel)
  BY <1>7 DEF Good, GoodStates, Waits, OwnLabel, EatLabel
<1>9. CASE at[a] = "fork"
  <2>1. w.sems[a].queue = <<>>
    BY <1>8, <1>9 DEF Good, GoodQueues
  <2>2. new.woken = w.woken /\ new.sems[a].queue = <<>> /\ new.sems[a].value = 1
    BY <1>5, <1>8, <1>9, <2>1
  <2>3. \A i, L : Waits(at, new, i, L) <=> Waits(at, w, i, L)
    BY <2>2 DEF Waits
  <2>4. GoodQueues(at, new)
    BY <1>5, <1>6, <1>8, <1>9, <2>2, <2>3 DEF Good, GoodQueues
  <2>5. GoodStates(at, new)
    BY <1>3, <1>5, <1>9, <2>2, <2>3 DEF Good, GoodStates, ThinkLabel, EatLabel
  <2>6. GoodWoken(new)
    BY <2>2 DEF Good, GoodWoken
  <2>7. QED
    BY <1>3, <1>5, <2>4, <2>5, <2>6 DEF Good, new
<1>10. CASE at[a] # "fork"
  <2>1. w.sems[a].queue = <<a>>
    BY <1>8, <1>10 DEF Good, GoodQueues
  <2>2. Tail(<<a>>) = <<>> /\ Head(<<a>>) = a /\ <<a>> # <<>>
    OBVIOUS
  <2>3. new.woken = Append(w.woken, a) /\ new.sems[a].queue = <<>> /\ new.sems[a].value = 0
    BY <1>5, <1>8, <1>10, <2>1, <2>2
  <2>4. wait_state[a] = "WT_KSEM" /\ at[a] \in OwnLabel /\ ~InList(a, w.woken)
    BY <1>8, <1>10 DEF Waits
  <2>5. NoRepeat(w.woken)
    BY DEF Good, GoodWoken
  <2>6. NoRepeat(new.woken) /\ \A q : InList(q, new.woken) <=> InList(q, w.woken) \/ q = a
    BY <1>1, <2>3, <2>4, <2>5, AppendList
  <2>7. \A i, L : Waits(at, new, i, L) <=> Waits(at, w, i, L) /\ i # a
    BY <2>6 DEF Waits
  <2>8. ~Waits(at, w, a, MutexLabel)
    BY <2>4 DEF Waits, MutexLabel, OwnLabel
  <2>9. GoodQueues(at, new)
    BY <1>5, <1>6, <2>3, <2>7, <2>8 DEF Good, GoodQueues
  <2>10. at[a] \in {"fork_sched"} \cup EatLabel /\ at[a] \notin ThinkLabel
    BY <1>7, <1>10 DEF ThinkLabel, EatLabel
  <2>11. GoodStates(at, new)
    BY <1>3, <1>5, <1>10, <2>3, <2>7, <2>10 DEF Good, GoodStates
  <2>12. GoodWoken(new)
    BY <2>4, <2>6 DEF Good, GoodWoken
  <2>13. QED
    BY <1>3, <1>5, <2>9, <2>11, <2>12 DEF Good, new
<1>11. QED
  BY <1>9, <1>10

(* A test leaves nobody it tests hungry without a reason.                  *)
LEMMA TestGood ==
  ASSUME NEW at, \A i \in Phil : at[i] \in PhilLabel,
         NEW w, Good(at, w), NEW S, Seated(w, S), NEW a \in Phil
  PROVE  /\ Good(at, phi_test_sema(w, a))
         /\ Seated(phi_test_sema(w, a), S \ {a})
<1>1. w.st \in Announcements
  BY DEF Good, Work
<1>2. CASE ~MayEat(w.st, a)
  <2>1. phi_test_sema(w, a) = w
    BY <1>2 DEF phi_test_sema
  <2>2. w.st[a] = "HUNGRY" => w.st[Left(a)] = "EATING" \/ w.st[Right(a)] = "EATING"
    BY <1>2 DEF MayEat
  <2>3. Seated(w, S \ {a})
    BY <2>2 DEF Seated
  <2>4. QED
    BY <2>1, <2>3
<1>3. CASE MayEat(w.st, a)
  <2> DEFINE v == [w EXCEPT !.st[a] = "EATING"]
             new == up(v, a)
  <2>1. phi_test_sema(w, a) = new
    BY <1>3 DEF phi_test_sema
  <2>2. w.st[a] = "HUNGRY" /\ w.st[Left(a)] # "EATING" /\ w.st[Right(a)] # "EATING"
    BY <1>3 DEF MayEat
  <2>3. /\ Good(at, new) /\ new.st[a] = "EATING"
        /\ \A i \in Phil : i # a => new.st[i] = w.st[i]
    BY <2>2, UpOwn
  <2> HIDE DEF new
  <2>4. \A i \in Phil : /\ Left(i) \in Phil /\ Right(i) \in Phil
                        /\ Left(i) # i /\ Right(i) # i
                        /\ Left(i) = a => i = Right(a)
                        /\ Right(i) = a => i = Left(a)
    BY Neighbourhood
  <2>5. Seated(new, S \ {a})
    <3>1. ASSUME NEW i \in Phil, new.st[i] = "EATING"
          PROVE  new.st[Left(i)] # "EATING" /\ new.st[Right(i)] # "EATING"
      <4>1. CASE i = a
        BY <2>2, <2>3, <2>4, <4>1
      <4>2. CASE i # a
        <5>1. w.st[i] = "EATING" /\ i # Left(a) /\ i # Right(a)
          BY <2>2, <2>3, <3>1, <4>2
        <5>2. w.st[Left(i)] # "EATING" /\ w.st[Right(i)] # "EATING"
          BY <5>1 DEF Seated
        <5>3. QED
          BY <2>3, <2>4, <5>1, <5>2
      <4>3. QED
        BY <4>1, <4>2
    <3>2. ASSUME NEW i \in Phil, new.st[i] = "HUNGRY", i \notin S \ {a}
          PROVE  new.st[Left(i)] = "EATING" \/ new.st[Right(i)] = "EATING"
      <4>1. i # a /\ w.st[i] = "HUNGRY" /\ i \notin S
        BY <2>3, <3>2
      <4>2. w.st[Left(i)] = "EATING" \/ w.st[Right(i)] = "EATING"
        BY <4>1 DEF Seated
      <4>3. QED
        BY <2>3, <2>4, <4>2
    <3>3. QED
      BY <3>1, <3>2 DEF Seated
  <2>6. QED
    BY <2>1, <2>3, <2>5
<1>4. QED
  BY <1>2, <1>3

(* The mutex goes to the first that waits for it.                          *)
LEMMA UpMutex ==
  ASSUME NEW at, NEW w, Good(at, w), NEW S, Seated(w, S)
  PROVE  Good(at, up(w, mutex)) /\ Seated(up(w, mutex), S)
<1>1. w \in Work /\ w.sems \in Sems /\ w.woken \in Seq(Phil)
  BY DEF Good, Work
<1> DEFINE new == up(w, mutex)
           queue == w.sems[mutex].queue
<1>2. /\ new \in Work /\ new.st = w.st
      /\ \A y \in Phil \cup {mutex} : y # mutex => new.sems[y] = w.sems[y]
      /\ queue = <<>> => new.sems[mutex].queue = <<>> /\ new.woken = w.woken
      /\ queue # <<>> =>
           new.sems[mutex].queue = Tail(queue) /\ new.woken = Append(w.woken, Head(queue))
  BY <1>1, UpFields
<1> HIDE DEF new
<1>3. \A i \in Phil : i # mutex
  BY PhilAssumption
<1>4. Seated(new, S)
  BY <1>2 DEF Seated
<1>5. CASE queue = <<>>
  <2>1. new.woken = w.woken
    BY <1>2, <1>5
  <2>2. \A i, L : Waits(at, new, i, L) <=> Waits(at, w, i, L)
    BY <2>1 DEF Waits
  <2>3. \A y \in Phil \cup {mutex} : new.sems[y].queue = w.sems[y].queue
    BY <1>2, <1>5
  <2>4. GoodQueues(at, new)
    BY <2>2, <2>3 DEF Good, GoodQueues
  <2>5. GoodStates(at, new) /\ GoodWoken(new)
    BY <1>2, <1>3, <2>1, <2>2 DEF Good, GoodStates, GoodWoken
  <2>6. QED
    BY <1>2, <1>4, <2>4, <2>5 DEF Good, new
<1>6. CASE queue # <<>>
  <2>1. queue \in Seq(Phil)
    BY <1>1 DEF Sems
  <2>2. NoRepeat(queue) /\ NoRepeat(w.woken)
    BY DEF Good, GoodQueues, GoodWoken
  <2> DEFINE h == Head(queue)
  <2> HIDE DEF queue
  <2>3. /\ h \in Phil /\ InList(h, queue) /\ Tail(queue) \in Seq(Phil) /\ NoRepeat(Tail(queue))
        /\ \A q : InList(q, Tail(queue)) <=> InList(q, queue) /\ q # h
    BY <1>6, <2>1, <2>2, TailList
  <2> HIDE DEF h
  <2>4. Waits(at, w, h, MutexLabel)
    BY <2>3 DEF Good, GoodQueues, queue
  <2>5. wait_state[h] = "WT_KSEM" /\ at[h] \in MutexLabel /\ ~InList(h, w.woken)
    BY <2>4 DEF Waits
  <2>6. new.woken = Append(w.woken, h) /\ new.sems[mutex].queue = Tail(queue)
    BY <1>2, <1>6 DEF h
  <2>7. NoRepeat(new.woken) /\ \A q : InList(q, new.woken) <=> InList(q, w.woken) \/ q = h
    BY <1>1, <2>2, <2>3, <2>5, <2>6, AppendList
  <2>8. \A i, L : Waits(at, new, i, L) <=> Waits(at, w, i, L) /\ i # h
    BY <2>7 DEF Waits
  <2>9. ~Waits(at, w, h, OwnLabel)
    BY <2>5 DEF Waits, MutexLabel, OwnLabel
  <2>10. GoodQueues(at, new)
    <3>1. \A p \in Phil : InList(p, new.sems[mutex].queue) <=> Waits(at, new, p, MutexLabel)
      BY <2>3, <2>6, <2>8 DEF Good, GoodQueues, queue
    <3>2. \A i \in Phil : new.sems[i].queue = IF Waits(at, new, i, OwnLabel) THEN <<i>> ELSE <<>>
      BY <1>2, <1>3, <2>8, <2>9 DEF Good, GoodQueues
    <3>3. QED
      BY <2>3, <2>6, <3>1, <3>2 DEF GoodQueues
  <2>11. GoodStates(at, new)
    BY <1>2, <1>3, <2>8, <2>9 DEF Good, GoodStates
  <2>12. GoodWoken(new)
    BY <2>3, <2>5, <2>7 DEF Good, GoodWoken
  <2>13. QED
    BY <1>2, <1>4, <2>10, <2>11, <2>12 DEF Good, new
<1>7. QED
  BY <1>5, <1>6

-----------------------------------------------------------------------------
(***************************************************************************)
(* What the invariant says of the thread on the CPU.                       *)
(***************************************************************************)
LEMMA Names ==
  /\ idleproc \in Proc /\ initproc \in Proc /\ initproc # idleproc
  /\ \A i \in Phil : i \in Proc /\ i # idleproc /\ i # initproc /\ i # mutex
  /\ \A p \in Proc : p \in Phil \/ p = idleproc \/ p = initproc
BY PhilAssumption

(* The places are labels of the model.                                     *)
LEMMA Labels ==
  /\ DOMAIN AfterSchedule = {"idle", "init_sched", "wait_sched", "think_sched", "eat_sched",
                             "take_sched", "fork_sched", "put_sched", "exit_sched"}
  /\ \A l \in IdleLabel \cup InitLabel \cup PhilLabel : l \in Label
<1>1. DOMAIN AfterSchedule = {"idle", "init_sched", "wait_sched", "think_sched", "eat_sched",
                              "take_sched", "fork_sched", "put_sched", "exit_sched"}
  BY DEF AfterSchedule
<1>2. QED
  BY <1>1 DEF Label, IdleLabel, InitLabel, PhilLabel, ThinkLabel, EatLabel

(* Who runs is awake between two calls of schedule(), and its label says   *)
(* who it is.                                                              *)
LEMMA Basics ==
  ASSUME IInv
  PROVE  /\ current \in Proc
         /\ pc[current] \notin Leaving => state[current] = "RUNNABLE" /\ wait_state[current] = "0"
         /\ pc[current] \in IdleLabel <=> current = idleproc
         /\ pc[current] \in InitLabel <=> current = initproc
         /\ pc[current] \in PhilLabel <=> current \in Phil
<1>1. current \in Proc /\ state[current] \in ProcState /\ pc[current] # "none"
  BY DEF IInv, TypeOK, RunqTypeOK, Places
<1>2. /\ current = idleproc => pc[current] \in IdleLabel
      /\ current = initproc => pc[current] \in InitLabel
      /\ current \in Phil => pc[current] \in PhilLabel
  BY DEF IInv, Places
<1>3. /\ pc[current] \in IdleLabel <=> current = idleproc
      /\ pc[current] \in InitLabel <=> current = initproc
      /\ pc[current] \in PhilLabel <=> current \in Phil
  BY <1>1, <1>2, Names DEF IdleLabel, InitLabel, PhilLabel, ThinkLabel, EatLabel
<1>4. ASSUME pc[current] \notin Leaving
      PROVE  state[current] = "RUNNABLE" /\ wait_state[current] = "0"
  BY <1>1, <1>4 DEF IInv, Stands, Leaving, ProcState
<1>5. QED
  BY <1>1, <1>3, <1>4

(* The fields that a step of the thread on the CPU leaves to the others.   *)
LEMMA GotoFacts ==
  ASSUME IInv, NEW label \in Label, Goto(label)
  PROVE  /\ pc' \in [Proc -> Label] /\ pc'[current] = label
         /\ \A p \in Proc : p # current => pc'[p] = pc[p]
BY Basics DEF IInv, TypeOK, Goto

(* Nothing but the timers says what is in the list of timers.              *)
LEMMA TimersType ==
  ASSUME NEW list, Ticking(list), Armed(list) \subseteq Phil,
         \A p : LeftOf(list, p) <= SLEEP_TIME
  PROVE  list \in Seq([proc : Phil, expires : 0..SLEEP_TIME])
<1>1. SLEEP_TIME \in Nat
  BY PhilAssumption
<1>2. QED
  BY <1>1, EntriesBound

(* What the scheduler's fields say after a thread has moved on.            *)
MovesTo(label) ==
  \/ label \notin Leaving /\ state'[current] = "RUNNABLE" /\ wait_state'[current] = "0"
  \/ label = "exit_links" /\ state'[current] = "ZOMBIE" /\ wait_state'[current] = "0"
  \/ /\ state'[current] = "SLEEPING"
     /\ \/ label = "wait_sched" /\ wait_state'[current] = "WT_CHILD" /\ current = initproc
        \/ label \in {"think_sched", "eat_sched"} /\ wait_state'[current] = "WT_TIMER"
        \/ label \in {"take_sched", "put_sched", "fork_sched"} /\ wait_state'[current] = "WT_KSEM"

(* The thread that runs goes on; others change only by being reaped.       *)
LEMMA MoveRunq ==
  ASSUME IInv, NEW label \in Label \ {"none"}, Goto(label), MovesTo(label),
         pc[current] \notin {"boot", "idle"} /\ pc[current] \notin Leaving,
         current' = current /\ run_list' = run_list,
         \A p \in Proc : p # current =>
           /\ wait_state'[p] = wait_state[p]
           /\ state'[p] = state[p] \/ (state[p] = "ZOMBIE" /\ state'[p] = "UNUSED")
  PROVE  Stands' /\ Queued'
<1>1. /\ pc'[current] = label /\ \A p \in Proc : p # current => pc'[p] = pc[p]
  BY GotoFacts
<1>2. /\ current \in Proc /\ current # idleproc
      /\ state[current] = "RUNNABLE" /\ wait_state[current] = "0"
  BY Basics DEF IdleLabel
<1>3. Stands'
  <2>1. ASSUME NEW p \in Proc, p # current
        PROVE  /\ pc'[p] \notin Leaving
               /\ pc'[p] = "none" <=> state'[p] = "UNUSED" \/ state'[p] = "ZOMBIE"
               /\ pc'[p] \notin {"exit_links", "exit_sched"}
               /\ wait_state'[p] # "0" <=> state'[p] = "SLEEPING"
               /\ wait_state'[p] = "WT_CHILD" => p = initproc
               /\ wait_state'[p] = "WT_TIMER" => pc'[p] \in TimerLabel
               /\ wait_state'[p] = "WT_KSEM" => pc'[p] \in MutexLabel \cup OwnLabel
    BY <1>1, <2>1 DEF IInv, Stands, Leaving
  <2>2. /\ pc'[current] \in Leaving \/ state'[current] = "RUNNABLE"
        /\ pc'[current] # "none"
        /\ state'[current] # "UNUSED"
        /\ state'[current] = "ZOMBIE" => pc'[current] = "exit_links"
        /\ pc'[current] \in {"exit_links", "exit_sched"} => state'[current] = "ZOMBIE"
        /\ wait_state'[current] # "0" <=> state'[current] = "SLEEPING"
        /\ wait_state'[current] = "WT_CHILD" => current = initproc
        /\ wait_state'[current] = "WT_TIMER" => pc'[current] \in TimerLabel
        /\ wait_state'[current] = "WT_KSEM" => pc'[current] \in MutexLabel \cup OwnLabel
    BY <1>1 DEF MovesTo, Leaving, TimerLabel, MutexLabel, OwnLabel
  <2>3. QED
    BY <2>1, <2>2 DEF Stands
<1>4. Queued'
  BY <1>2, Names DEF IInv, Queued
<1>5. QED
  BY <1>3, <1>4

(***************************************************************************)
(* Steps that the dinner does not notice.                                  *)
(***************************************************************************)
LEMMA DinnerSame ==
  ASSUME IInv, sems' = sems, state_sema' = state_sema, iter' = iter,
         \A i \in Phil :
           /\ AtMutex(i)' <=> AtMutex(i)
           /\ AtOwn(i)' <=> AtOwn(i)
           /\ pc'[i] \in ThinkLabel => pc[i] \in ThinkLabel
           /\ pc'[i] = "fork" <=> pc[i] = "fork"
           /\ pc'[i] \in {"fork_sched"} \cup EatLabel => pc[i] \in {"fork_sched"} \cup EatLabel
           /\ pc[i] \in {"none", "think", "exit_links", "exit_sched"} =>
                iter[i] < TIMES \/ pc'[i] \in {"none", "think", "exit_links", "exit_sched"}
  PROVE  Queues' /\ Announced' /\ Table' /\ Meals'
<1>1. Queues'
  BY DEF IInv, Queues
<1>2. Announced'
  BY DEF IInv, Announced
<1>3. Table' /\ Meals'
  BY DEF IInv, Table, Meals
<1>4. QED
  BY <1>1, <1>2, <1>3

(* No timer is set and no sleeper of a timer is woken.                     *)
LEMMA TimersSame ==
  ASSUME IInv, timer_list' = timer_list,
         \A i \in Phil : wait_state'[i] = "WT_TIMER" <=> wait_state[i] = "WT_TIMER"
  PROVE  Timers'
BY DEF IInv, Timers

-----------------------------------------------------------------------------
(* At the start idle runs and nothing else exists.                         *)
LEMMA PhilInit == Init => IInv
<1> SUFFICES ASSUME Init PROVE IInv
  OBVIOUS
<1>1. /\ \A x : ~InList(x, <<>>) /\ NoRepeat(<<>>)
      /\ Armed(<<>>) = {} /\ Ticking(<<>>)
      /\ \A p : LeftOf(<<>>, p) = 0
  <2>1. \A x : ~InList(x, <<>>) /\ NoRepeat(<<>>)
    BY EmptyList
  <2>2. Armed(<<>>) = {} /\ <<>> \in Seq(Entries({})) /\ OneEach(<<>>)
    BY DEF Armed, OneEach
  <2>3. Ticking(<<>>)
    BY <2>2 DEF Ticking
  <2>4. \A p : LeftOf(<<>>, p) = 0
    BY DEF LeftOf, HasTimer, TimerIndex
  <2>5. QED
    BY <2>1, <2>2, <2>3, <2>4
<1>2. /\ \A p \in Proc : pc[p] = IF p = idleproc THEN "boot" ELSE "none"
      /\ \A p \in Proc : state[p] = IF p = idleproc THEN "RUNNABLE" ELSE "UNUSED"
      /\ \A p \in Proc : wait_state[p] = "0"
      /\ current = idleproc
  BY DEF Init
<1>3. /\ \A i \in Phil : sems[i] = [value |-> 0, queue |-> <<>>]
      /\ sems[mutex] = [value |-> 1, queue |-> <<>>]
      /\ sems \in Sems
  BY Names DEF Init, sem_init, Sems
<1>4. Places
  BY <1>2, Names DEF Places, IdleLabel, InitLabel, PhilLabel, ThinkLabel
<1>5. Stands
  BY <1>2, Names DEF Stands, Leaving
<1>6. Queued
  BY <1>1, <1>2, Names DEF Init, Queued
<1>7. Timers
  <2>1. {p \in Phil : wait_state[p] = "WT_TIMER"} = {}
    BY <1>2, Names
  <2>2. 0 <= SLEEP_TIME
    BY PhilAssumption
  <2>3. QED
    BY <1>1, <2>1, <2>2 DEF Init, Timers
<1>8. \A i \in Phil : ~AtMutex(i) /\ ~AtOwn(i)
  BY <1>2, Names DEF AtMutex, AtOwn
<1>9. Queues
  BY <1>1, <1>3, <1>8 DEF Queues
<1>10. Announced
  BY <1>2, <1>3, Names DEF Init, Announced, EatLabel
<1>11. Table /\ Meals
  <2>1. \A i \in Phil : Left(i) \in Phil /\ Right(i) \in Phil
    BY Neighbourhood
  <2>2. QED
    BY <1>2, <2>1, Names DEF Init, Table, Meals
<1>12. TypeOK
  <2>1. RunqTypeOK
    BY <1>2, Names, SchedAssumption, PhilAssumption DEF Init, RunqTypeOK, ProcState
  <2>2. pc \in [Proc -> Label]
    <3>1. "boot" \in Label /\ "none" \in Label
      BY DEF Label
    <3>2. QED
      BY <3>1 DEF Init
  <2>3. state_sema \in [Phil -> {"THINKING", "HUNGRY", "EATING"}] /\ iter \in [Phil -> 0..TIMES]
    BY PhilAssumption DEF Init
  <2>4. QED
    BY <1>3, <2>1, <2>2, <2>3 DEF Init, TypeOK, Sems
<1>13. QED
  BY <1>4, <1>5, <1>6, <1>7, <1>9, <1>10, <1>11, <1>12 DEF IInv

-----------------------------------------------------------------------------
(***************************************************************************)
(* The steps of the threads one by one.  First those that make them.       *)
(***************************************************************************)
ForkAllowed(child, start, next) ==
  /\ state[child] = "UNUSED"
  /\ \/ pc[current] = "boot" /\ child = initproc /\ start = "init_fork" /\ next = "idle"
     \/ /\ pc[current] = "init_fork" /\ child \in Phil /\ start = "think"
        /\ next \in {"init_fork", "wait"}

(* The new thread is queued and starts at its function.                    *)
LEMMA ForkInv ==
  ASSUME IInv, NEW child, NEW start, NEW next, ForkAllowed(child, start, next),
         kernel_thread(child, start, next)
  PROVE  IInv'
<1>1. /\ child \in Proc /\ child # current /\ child # idleproc /\ current \in Proc
      /\ state[current] = "RUNNABLE" /\ wait_state[current] = "0"
      /\ current = idleproc \/ current = initproc
      /\ pc[child] = "none" /\ wait_state[child] = "0" /\ ~InList(child, run_list)
  <2>1. pc[current] \notin Leaving /\ pc[current] \in IdleLabel \cup InitLabel
    BY DEF ForkAllowed, Leaving, IdleLabel, InitLabel
  <2>2. child \in Proc /\ child # idleproc
    BY Names DEF ForkAllowed
  <2>3. state[current] = "RUNNABLE" /\ current \in Proc /\ wait_state[current] = "0"
        /\ current \in {idleproc, initproc}
    BY <2>1, Basics
  <2>4. pc[child] = "none" /\ wait_state[child] = "0" /\ ~InList(child, run_list)
    BY <2>2 DEF IInv, Stands, Queued, ForkAllowed
  <2>5. QED
    BY <2>2, <2>3, <2>4 DEF ForkAllowed
<1>2. /\ pc \in [Proc -> Label] /\ state \in [Proc -> ProcState] /\ run_list \in Seq(Proc)
      /\ time_slice \in [Proc -> 0..MAX_TIME_SLICE]
  BY DEF IInv, TypeOK, RunqTypeOK
<1>3. start \in Label /\ next \in Label /\ start \notin Leaving /\ next \notin Leaving
      /\ start # "none" /\ next # "none"
  <2>1. start \in Label /\ next \in Label
    BY Labels DEF ForkAllowed, IdleLabel, InitLabel, PhilLabel, ThinkLabel
  <2>2. QED
    BY <2>1 DEF ForkAllowed, Leaving
<1>4. /\ pc' \in [Proc -> Label] /\ pc'[current] = next /\ pc'[child] = start
      /\ \A p \in Proc : p # current /\ p # child => pc'[p] = pc[p]
  BY <1>1, <1>2, <1>3 DEF kernel_thread
<1>5. /\ state' \in [Proc -> ProcState] /\ state'[child] = "RUNNABLE"
      /\ \A p \in Proc : p # child => state'[p] = state[p]
      /\ UNCHANGED <<current, wait_state, need_resched, timer_list, sems, state_sema, iter>>
  BY <1>1, <1>2 DEF kernel_thread, ProcState
<1>6. /\ run_list' \in Seq(Proc) /\ NoRepeat(run_list')
      /\ \A q : InList(q, run_list') <=> InList(q, run_list) \/ q = child
  <2>1. NoRepeat(run_list) /\ run_list' = Append(run_list, child)
    BY DEF IInv, Queued, kernel_thread, RR_enqueue
  <2>2. QED
    BY <1>1, <1>2, <2>1, AppendList
<1>7. time_slice' \in [Proc -> 0..MAX_TIME_SLICE]
  <2>1. RefilledSlice(child) \in 0..MAX_TIME_SLICE
    BY SchedAssumption DEF RefilledSlice
  <2>2. QED
    BY <1>2, <2>1 DEF kernel_thread
<1>8. TypeOK'
  BY <1>4, <1>5, <1>6, <1>7 DEF IInv, TypeOK, RunqTypeOK
<1>9. Places'
  BY <1>1, <1>3, <1>4, <1>5, Names
  DEF IInv, Places, ForkAllowed, IdleLabel, InitLabel, PhilLabel, ThinkLabel
<1>10. Stands'
  <2>1. start \notin {"none", "exit_links", "exit_sched"}
        /\ next \notin {"none", "exit_links", "exit_sched"}
    BY <1>3 DEF Leaving
  <2>2. QED
    BY <1>1, <1>3, <1>4, <1>5, <2>1 DEF IInv, Stands
<1>11. Queued'
  BY <1>1, <1>5, <1>6, Names DEF IInv, Queued
<1>12. Timers'
  BY <1>5, TimersSame
<1>13. \A i \in Phil : \/ pc'[i] = pc[i]
                       \/ pc[i] = "none" /\ pc'[i] = "think" /\ wait_state[i] = "0"
  BY <1>1, <1>4, Names DEF ForkAllowed
<1>14. Queues' /\ Announced' /\ Table' /\ Meals'
  <2>1. \A i \in Phil : /\ AtMutex(i)' <=> AtMutex(i)
                        /\ AtOwn(i)' <=> AtOwn(i)
    BY <1>5, <1>13 DEF AtMutex, AtOwn
  <2>2. \A i \in Phil :
           /\ pc'[i] \in ThinkLabel => pc[i] \in ThinkLabel
           /\ pc'[i] = "fork" <=> pc[i] = "fork"
           /\ pc'[i] \in {"fork_sched"} \cup EatLabel => pc[i] \in {"fork_sched"} \cup EatLabel
           /\ pc[i] \in {"none", "think", "exit_links", "exit_sched"} =>
                iter[i] < TIMES \/ pc'[i] \in {"none", "think", "exit_links", "exit_sched"}
    BY <1>13 DEF ThinkLabel, EatLabel
  <2>3. QED
    BY <1>5, <2>1, <2>2, DinnerSame
<1>15. QED
  BY <1>8, <1>9, <1>10, <1>11, <1>12, <1>14 DEF IInv

(* proc_init and check_sync fork.                                          *)
LEMMA ForksInv ==
  ASSUME IInv, proc_init \/ \E i \in Phil : check_sync(i) PROVE IInv'
<1>1. CASE proc_init
  <2>1. pc[current] = "boot" /\ current = idleproc
    BY <1>1, Basics DEF proc_init, At, IdleLabel
  <2>2. state[initproc] = "UNUSED"
    BY <2>1 DEF IInv, Places
  <2>3. ForkAllowed(initproc, "init_fork", "idle") /\ kernel_thread(initproc, "init_fork", "idle")
    BY <1>1, <2>1, <2>2 DEF ForkAllowed, proc_init
  <2>4. QED
    BY <2>3, ForkInv
<1>2. CASE \E i \in Phil : check_sync(i)
  <2>1. PICK i \in Phil : check_sync(i)
    BY <1>2
  <2>2. state[i] = "UNUSED" /\ pc[current] = "init_fork"
    BY <2>1, Seats DEF check_sync, At
  <2>3. PICK next \in {"init_fork", "wait"} : kernel_thread(i, "think", next)
    BY <2>1 DEF check_sync
  <2>4. ForkAllowed(i, "think", next)
    BY <2>2 DEF ForkAllowed
  <2>5. QED
    BY <2>3, <2>4, ForkInv
<1>3. QED
  BY <1>1, <1>2

(***************************************************************************)
(* A step that takes init or a philosopher to its next place.              *)
(***************************************************************************)
MoveAllowed(label) ==
  /\ pc[current] \notin {"none", "boot", "idle"} /\ pc[current] \notin Leaving
  /\ label # "none"
  /\ \/ pc[current] \in InitLabel /\ label \in InitLabel
     \/ pc[current] \in PhilLabel /\ label \in PhilLabel

(* What a step of the running thread keeps when timers stay right.         *)
LEMMA MoveFrame ==
  ASSUME IInv, NEW label, MoveAllowed(label), Goto(label), MovesTo(label),
         current' = current, run_list' = run_list, RunqTypeOK', Timers',
         \A p \in Proc : p # current =>
           /\ wait_state'[p] = wait_state[p]
           /\ state'[p] = state[p] \/ (state[p] = "ZOMBIE" /\ state'[p] = "UNUSED"),
         sems' \in Sems /\ state_sema' \in Announcements /\ iter' \in [Phil -> 0..TIMES]
  PROVE  /\ TypeOK' /\ Places' /\ Stands' /\ Queued'
         /\ pc'[current] = label /\ current \in Proc
         /\ \A i \in Phil : i # current => pc'[i] = pc[i] /\ wait_state'[i] = wait_state[i]
<1>1. label \in Label \ {"none"}
  BY Labels DEF MoveAllowed
<1>2. /\ pc' \in [Proc -> Label] /\ pc'[current] = label
      /\ \A p \in Proc : p # current => pc'[p] = pc[p]
  BY <1>1, GotoFacts
<1>3. TypeOK'
  <2>1. timer_list' \in Seq([proc : Phil, expires : 0..SLEEP_TIME])
    <3>1. /\ Ticking(timer_list') /\ Armed(timer_list') \subseteq Phil
          /\ \A p : LeftOf(timer_list', p) <= SLEEP_TIME
      BY DEF Timers
    <3>2. QED
      BY <3>1, TimersType
  <2>2. QED
    BY <1>2, <2>1 DEF TypeOK, Sems, Announcements
<1>4. Places'
  <2>1. /\ current \in Proc /\ current # idleproc
        /\ current = initproc => label \in InitLabel
        /\ current \in Phil => label \in PhilLabel
    BY Basics, Names DEF MoveAllowed, InitLabel, PhilLabel, IdleLabel, ThinkLabel, EatLabel
  <2>2. pc'[idleproc] = pc[idleproc]
    BY <1>2, <2>1, Names
  <2>3. pc[idleproc] # "boot"
    BY <2>1 DEF IInv, Places
  <2>4. QED
    BY <1>2, <2>1, <2>2, <2>3, Names DEF IInv, Places, MoveAllowed
<1>5. Stands' /\ Queued'
  BY <1>1, MoveRunq DEF MoveAllowed
<1>6. QED
  BY <1>2, <1>3, <1>4, <1>5, Basics, Names
(* One that leaves the semaphores and what is announced alone.             *)
LEMMA QuietMove ==
  ASSUME IInv, NEW label, MoveAllowed(label), Goto(label), MovesTo(label),
         current' = current, run_list' = run_list, RunqTypeOK', Timers',
         \A p \in Proc : p # current =>
           /\ wait_state'[p] = wait_state[p]
           /\ state'[p] = state[p] \/ (state[p] = "ZOMBIE" /\ state'[p] = "UNUSED"),
         sems' = sems /\ state_sema' = state_sema /\ iter' = iter,
         current \in Phil =>
           /\ wait_state'[current] # "WT_KSEM"
           /\ \/ pc[current] \in ThinkLabel /\ label \in ThinkLabel
              \/ pc[current] \in EatLabel /\ label \in EatLabel
           /\ pc[current] = "think" => iter[current] < TIMES \/ label = "exit_links"
  PROVE  IInv'
<1>1. sems \in Sems /\ state_sema \in Announcements /\ iter \in [Phil -> 0..TIMES]
  BY DEF IInv, TypeOK, Sems, Announcements
<1>2. /\ TypeOK' /\ Places' /\ Stands' /\ Queued'
      /\ pc'[current] = label /\ current \in Proc
      /\ \A i \in Phil : i # current => pc'[i] = pc[i] /\ wait_state'[i] = wait_state[i]
  <2>1. sems' \in Sems /\ state_sema' \in Announcements /\ iter' \in [Phil -> 0..TIMES]
    BY <1>1
  <2>2. QED
    BY <2>1, MoveFrame
<1>3. pc[current] \notin Leaving /\ wait_state[current] = "0" /\ pc[current] # "none"
  BY Basics DEF MoveAllowed
<1>4. \A i \in Phil : /\ AtMutex(i)' <=> AtMutex(i)
                      /\ AtOwn(i)' <=> AtOwn(i)
  BY <1>2, <1>3 DEF AtMutex, AtOwn
<1>5. \A i \in Phil :
         /\ pc'[i] \in ThinkLabel => pc[i] \in ThinkLabel
         /\ pc'[i] = "fork" <=> pc[i] = "fork"
         /\ pc'[i] \in {"fork_sched"} \cup EatLabel => pc[i] \in {"fork_sched"} \cup EatLabel
         /\ pc[i] \in {"none", "think", "exit_links", "exit_sched"} =>
              iter[i] < TIMES \/ pc'[i] \in {"none", "think", "exit_links", "exit_sched"}
  <2>1. ASSUME current \in Phil
        PROVE /\ label \in ThinkLabel => pc[current] \in ThinkLabel
              /\ label # "fork" /\ pc[current] # "fork"
              /\ label \in EatLabel => pc[current] \in EatLabel /\ label # "fork_sched"
              /\ label # "fork_sched"
              /\ pc[current] \in {"none", "think", "exit_links", "exit_sched"} =>
                   iter[current] < TIMES \/ label = "exit_links"
    BY <1>3, <2>1 DEF ThinkLabel, EatLabel, Leaving
  <2>2. QED
    BY <1>2, <2>1
<1>6. Queues' /\ Announced' /\ Table' /\ Meals'
  BY <1>4, <1>5, DinnerSame
<1>7. QED
  BY <1>2, <1>6 DEF IInv

(* The loop of init around do_wait.                                        *)
LEMMA InitStepsInv ==
  ASSUME IInv, init_sleep \/ init_end \/ \E c \in Phil : init_reap(c) PROVE IInv'
<1>1. /\ pc[current] = "wait" /\ current = initproc /\ current \notin Phil
      /\ state[current] = "RUNNABLE" /\ wait_state[current] = "0"
      /\ current \in Proc
  <2>1. pc[current] = "wait"
    BY DEF init_sleep, init_end, init_reap, At
  <2>2. pc[current] \in InitLabel /\ pc[current] \notin Leaving
    BY <2>1 DEF InitLabel, Leaving
  <2>3. QED
    BY <2>1, <2>2, Basics, Names
<1>2. \A label \in {"init_sched", "wait_sched", "init_done"} : MoveAllowed(label)
  BY <1>1 DEF MoveAllowed, InitLabel, Leaving
<1>3. /\ RunqTypeOK
      /\ state \in [Proc -> ProcState] /\ wait_state \in [Proc -> WaitReason \cup {"0"}]
      /\ time_slice \in [Proc -> 0..MAX_TIME_SLICE] /\ need_resched \in [Proc -> BOOLEAN]
  BY DEF IInv, TypeOK, RunqTypeOK
<1>4. CASE init_sleep
  <2>1. /\ state' = [state EXCEPT ![current] = "SLEEPING"]
        /\ wait_state' = [wait_state EXCEPT ![current] = "WT_CHILD"]
        /\ Goto("wait_sched")
        /\ UNCHANGED <<current, run_list, time_slice, need_resched, timer_list, sems,
                       state_sema, iter>>
    BY <1>4 DEF init_sleep, SleepAt
  <2>2. /\ state' \in [Proc -> ProcState] /\ wait_state' \in [Proc -> WaitReason \cup {"0"}]
        /\ state'[current] = "SLEEPING" /\ wait_state'[current] = "WT_CHILD"
        /\ \A p \in Proc : p # current => wait_state'[p] = wait_state[p] /\ state'[p] = state[p]
    BY <1>1, <1>3, <2>1, PhilAssumption DEF ProcState
  <2>3. RunqTypeOK'
    BY <1>3, <2>1, <2>2 DEF RunqTypeOK
  <2>4. Timers'
    BY <1>1, <2>1, <2>2, Names, TimersSame
  <2>5. MovesTo("wait_sched")
    BY <1>1, <2>2 DEF MovesTo
  <2>6. QED
    BY <1>1, <1>2, <2>1, <2>2, <2>3, <2>4, <2>5, QuietMove
<1>5. CASE init_end
  <2>1. Goto("init_done") /\ UNCHANGED <<runqVars, timer_list, sems, state_sema, iter>>
    BY <1>5 DEF init_end
  <2>2. UNCHANGED <<current, state, wait_state, run_list, time_slice, need_resched>>
    BY <2>1 DEF runqVars
  <2>3. RunqTypeOK'
    BY <1>3, <2>2 DEF RunqTypeOK
  <2>4. Timers'
    BY <2>1, <2>2, TimersSame
  <2>5. MovesTo("init_done")
    BY <1>1, <2>2 DEF MovesTo, Leaving
  <2>6. QED
    BY <1>1, <1>2, <2>1, <2>2, <2>3, <2>4, <2>5, QuietMove
<1>6. CASE \E c \in Phil : init_reap(c)
  <2>1. PICK c \in Phil : init_reap(c)
    BY <1>6
  <2>2. /\ state[c] = "ZOMBIE" /\ Goto("init_sched")
        /\ state' = [state EXCEPT ![c] = "UNUSED"]
        /\ time_slice' = [time_slice EXCEPT ![c] = 0]
        /\ need_resched' = [need_resched EXCEPT ![c] = FALSE]
        /\ UNCHANGED <<current, wait_state, run_list, timer_list, sems, state_sema, iter>>
    BY <2>1 DEF init_reap
  <2>3. /\ state' \in [Proc -> ProcState] /\ time_slice' \in [Proc -> 0..MAX_TIME_SLICE]
        /\ need_resched' \in [Proc -> BOOLEAN]
        /\ state'[current] = "RUNNABLE"
        /\ \A p \in Proc : state'[p] = state[p] \/ (state[p] = "ZOMBIE" /\ state'[p] = "UNUSED")
    BY <1>1, <1>3, <2>2, SchedAssumption, Names DEF ProcState
  <2>4. RunqTypeOK'
    BY <1>3, <2>2, <2>3 DEF RunqTypeOK
  <2>5. Timers'
    BY <2>2, TimersSame
  <2>6. MovesTo("init_sched")
    BY <1>1, <2>2, <2>3 DEF MovesTo, Leaving
  <2>7. QED
    BY <1>1, <1>2, <2>2, <2>3, <2>4, <2>5, <2>6, QuietMove
<1>7. QED
  BY <1>4, <1>5, <1>6

(* do_sleep arms a timer for a thread that has none.                       *)
LEMMA SleepInv ==
  ASSUME IInv, NEW from, NEW label, do_sleep(from, label),
         \/ from = "think" /\ label = "think_sched" /\ iter[current] < TIMES
         \/ from = "eat" /\ label = "eat_sched"
  PROVE  IInv'
<1>1. /\ pc[current] = from /\ current \in Phil /\ current \in Proc
      /\ state[current] = "RUNNABLE" /\ wait_state[current] = "0"
  <2>1. pc[current] = from
    BY DEF do_sleep, At
  <2>2. pc[current] \in PhilLabel /\ pc[current] \notin Leaving
    BY <2>1 DEF PhilLabel, ThinkLabel, EatLabel, Leaving
  <2>3. QED
    BY <2>1, <2>2, Basics
<1>2. MoveAllowed(label)
  BY <1>1 DEF MoveAllowed, PhilLabel, ThinkLabel, EatLabel, Leaving
<1>3. /\ RunqTypeOK
      /\ state \in [Proc -> ProcState] /\ wait_state \in [Proc -> WaitReason \cup {"0"}]
  BY DEF IInv, TypeOK, RunqTypeOK
<1>4. /\ state' = [state EXCEPT ![current] = "SLEEPING"]
      /\ wait_state' = [wait_state EXCEPT ![current] = "WT_TIMER"]
      /\ Goto(label)
      /\ UNCHANGED <<current, run_list, time_slice, need_resched, sems, state_sema, iter>>
  BY DEF do_sleep, SleepAt
<1>5. /\ state' \in [Proc -> ProcState] /\ wait_state' \in [Proc -> WaitReason \cup {"0"}]
      /\ state'[current] = "SLEEPING" /\ wait_state'[current] = "WT_TIMER"
      /\ \A p \in Proc : p # current => wait_state'[p] = wait_state[p] /\ state'[p] = state[p]
  BY <1>1, <1>3, <1>4, PhilAssumption DEF ProcState
<1>6. RunqTypeOK'
  BY <1>3, <1>4, <1>5 DEF RunqTypeOK
<1>7. Timers'
  <2>1. PICK ticks \in 1..SLEEP_TIME : timer_list' = add_timer(timer_list, current, ticks)
    BY DEF do_sleep
  <2>2. /\ Ticking(timer_list) /\ current \notin Armed(timer_list)
        /\ Armed(timer_list) = {p \in Phil : wait_state[p] = "WT_TIMER"}
        /\ \A p : LeftOf(timer_list, p) <= SLEEP_TIME
    BY <1>1 DEF IInv, Timers
  <2>3. ticks \in Nat \ {0} /\ ticks <= SLEEP_TIME
    BY <2>1, PhilAssumption
  <2>4. /\ Ticking(timer_list') /\ Armed(timer_list') = Armed(timer_list) \cup {current}
        /\ \A q : LeftOf(timer_list', q) = IF q = current THEN ticks ELSE LeftOf(timer_list, q)
    BY <2>1, <2>2, <2>3, AddTimer
  <2>5. \A p : LeftOf(timer_list', p) <= SLEEP_TIME
    BY <2>2, <2>3, <2>4
  <2>6. {p \in Phil : wait_state'[p] = "WT_TIMER"}
          = {p \in Phil : wait_state[p] = "WT_TIMER"} \cup {current}
    BY <1>1, <1>5, Names
  <2>7. QED
    BY <2>2, <2>4, <2>5, <2>6 DEF Timers
<1>8. MovesTo(label)
  BY <1>1, <1>5 DEF MovesTo
<1>9. /\ wait_state'[current] # "WT_KSEM"
      /\ \/ pc[current] \in ThinkLabel /\ label \in ThinkLabel
         \/ pc[current] \in EatLabel /\ label \in EatLabel
      /\ pc[current] = "think" => iter[current] < TIMES \/ label = "exit_links"
  BY <1>1, <1>5 DEF ThinkLabel, EatLabel
<1>10. QED
  BY <1>1, <1>2, <1>4, <1>5, <1>6, <1>7, <1>8, <1>9, QuietMove

(* The timer has gone by the time do_sleep returns.                        *)
LEMMA SleepWokenInv ==
  ASSUME IInv, NEW from, NEW next, sleep_woken(from, next),
         \/ from = "think_woken" /\ next = "take"
         \/ from = "eat_woken" /\ next = "put"
  PROVE  IInv'
<1>1. /\ pc[current] = from /\ current \in Phil /\ current \in Proc
      /\ state[current] = "RUNNABLE" /\ wait_state[current] = "0"
  <2>1. pc[current] = from
    BY DEF sleep_woken, At
  <2>2. pc[current] \in PhilLabel /\ pc[current] \notin Leaving
    BY <2>1 DEF PhilLabel, ThinkLabel, EatLabel, Leaving
  <2>3. QED
    BY <2>1, <2>2, Basics
<1>2. MoveAllowed(next)
  BY <1>1 DEF MoveAllowed, PhilLabel, ThinkLabel, EatLabel, Leaving
<1>3. /\ Goto(next) /\ timer_list' = del_timer(timer_list, current)
      /\ UNCHANGED <<current, state, wait_state, run_list, time_slice, need_resched,
                     sems, state_sema, iter>>
  BY DEF sleep_woken, TimersAfterSleep, runqVars
<1>4. RunqTypeOK'
  BY <1>3 DEF IInv, TypeOK, RunqTypeOK
<1>5. Timers'
  <2>1. /\ Ticking(timer_list) /\ current \notin Armed(timer_list)
        /\ Armed(timer_list) = {p \in Phil : wait_state[p] = "WT_TIMER"}
        /\ \A p : LeftOf(timer_list, p) <= SLEEP_TIME
    BY <1>1 DEF IInv, Timers
  <2>2. timer_list' = timer_list
    BY <1>3, <2>1, ArmedHasTimer DEF del_timer
  <2>3. QED
    BY <1>3, <2>2, TimersSame
<1>6. MovesTo(next)
  BY <1>1, <1>3 DEF MovesTo, Leaving
<1>7. /\ wait_state'[current] # "WT_KSEM"
      /\ \/ pc[current] \in ThinkLabel /\ next \in ThinkLabel
         \/ pc[current] \in EatLabel /\ next \in EatLabel
      /\ pc[current] # "think"
  BY <1>1, <1>3 DEF ThinkLabel, EatLabel
<1>8. QED
  BY <1>1, <1>2, <1>3, <1>4, <1>5, <1>6, <1>7, QuietMove

(* A philosopher that has had its meals returns.                           *)
LEMMA QuitInv == ASSUME IInv, Quit PROVE IInv'
<1>1. /\ pc[current] = "think" /\ current \in Phil /\ current \in Proc
      /\ state[current] = "RUNNABLE" /\ wait_state[current] = "0"
  <2>1. pc[current] = "think"
    BY DEF Quit, At
  <2>2. pc[current] \in PhilLabel /\ pc[current] \notin Leaving
    BY <2>1 DEF PhilLabel, ThinkLabel, Leaving
  <2>3. QED
    BY <2>1, <2>2, Basics
<1>2. MoveAllowed("exit_links")
  BY <1>1 DEF MoveAllowed, PhilLabel, ThinkLabel, Leaving
<1>3. /\ Goto("exit_links") /\ state' = [state EXCEPT ![current] = "ZOMBIE"]
      /\ UNCHANGED <<current, wait_state, run_list, time_slice, need_resched,
                     timer_list, sems, state_sema, iter>>
  BY DEF Quit
<1>4. /\ state' \in [Proc -> ProcState] /\ state'[current] = "ZOMBIE"
      /\ \A p \in Proc : p # current => state'[p] = state[p]
  BY <1>1, <1>3 DEF IInv, TypeOK, RunqTypeOK, ProcState
<1>5. RunqTypeOK'
  BY <1>3, <1>4 DEF IInv, TypeOK, RunqTypeOK
<1>6. Timers'
  BY <1>3, TimersSame
<1>7. MovesTo("exit_links")
  BY <1>1, <1>3, <1>4 DEF MovesTo
<1>8. /\ wait_state'[current] # "WT_KSEM"
      /\ pc[current] \in ThinkLabel /\ "exit_links" \in ThinkLabel
  BY <1>1, <1>3 DEF ThinkLabel
<1>9. QED
  BY <1>1, <1>2, <1>3, <1>4, <1>5, <1>6, <1>7, <1>8, QuietMove

-----------------------------------------------------------------------------
(***************************************************************************)
(* down, on the mutex and on the semaphore of one's own.                   *)
(***************************************************************************)
DownAllowed(x, from, label, next) ==
  \/ x = mutex /\ from = "take" /\ label = "take_sched" /\ next = "hungry"
  \/ x = mutex /\ from = "put" /\ label = "put_sched" /\ next = "full"
  \/ x = current /\ from = "fork" /\ label = "fork_sched" /\ next = "eat"

(* What both have in common; queue and value are those of x.               *)
LEMMA DownFrame ==
  ASSUME IInv, NEW x, NEW from, NEW label, NEW next, DownAllowed(x, from, label, next),
         down(x, from, label, next)
  PROVE  /\ current \in Phil /\ pc[current] = from /\ wait_state[current] = "0"
         /\ TypeOK' /\ Places' /\ Stands' /\ Queued' /\ Timers'
         /\ UNCHANGED <<current, state_sema, iter>>
         /\ \A i \in Phil : i # current => pc'[i] = pc[i] /\ wait_state'[i] = wait_state[i]
         /\ \A y \in Phil \cup {mutex} : y # x => sems'[y] = sems[y]
         /\ \/ /\ pc'[current] = next /\ wait_state'[current] = "0"
               /\ sems[x].value > 0 /\ sems'[x].value = sems[x].value - 1
               /\ sems'[x].queue = sems[x].queue
            \/ /\ pc'[current] = label /\ wait_state'[current] = "WT_KSEM"
               /\ sems[x].value = 0 /\ sems'[x].value = 0
               /\ sems'[x].queue = Append(sems[x].queue, current)
<1>1. /\ pc[current] = from /\ current \in Phil /\ current \in Proc
      /\ state[current] = "RUNNABLE" /\ wait_state[current] = "0"
  <2>1. pc[current] = from
    BY DEF down, At
  <2>2. pc[current] \in PhilLabel /\ pc[current] \notin Leaving
    BY <2>1 DEF DownAllowed, PhilLabel, ThinkLabel, EatLabel, Leaving
  <2>3. QED
    BY <2>1, <2>2, Basics
<1>2. MoveAllowed(next) /\ MoveAllowed(label)
  BY <1>1 DEF DownAllowed, MoveAllowed, PhilLabel, ThinkLabel, EatLabel, Leaving
<1>3. x \in Phil \cup {mutex}
  BY <1>1 DEF DownAllowed
<1>4. /\ RunqTypeOK
      /\ state \in [Proc -> ProcState] /\ wait_state \in [Proc -> WaitReason \cup {"0"}]
      /\ sems \in Sems /\ state_sema \in Announcements /\ iter \in [Phil -> 0..TIMES]
  BY DEF IInv, TypeOK, RunqTypeOK, Sems, Announcements
<1>5. /\ sems[x] \in [value : Nat, queue : Seq(Phil)]
      /\ sems[x].value \in Nat /\ sems[x].queue \in Seq(Phil)
  <2>1. sems[x] \in [value : Nat, queue : Seq(Phil)]
    BY <1>3, <1>4 DEF Sems
  <2>2. QED
    BY <2>1
<1>6. UNCHANGED <<timer_list, state_sema, iter>>
  BY DEF down
<1>7. CASE CanTake(sems[x])
  <2>1. /\ sems' = [sems EXCEPT ![x] = Take(@)] /\ Goto(next)
        /\ UNCHANGED <<current, state, wait_state, run_list, time_slice, need_resched>>
    BY <1>7 DEF down, runqVars
  <2>2. sems[x].value > 0
    BY <1>7 DEF CanTake
  <2>3. Take(sems[x]) = [value |-> sems[x].value - 1, queue |-> sems[x].queue]
    BY <1>5 DEF Take
  <2>4. sems'[x] = Take(sems[x]) /\ \A y \in Phil \cup {mutex} : y # x => sems'[y] = sems[y]
    BY <1>3, <1>4, <2>1 DEF Sems
  <2>5. sems' \in Sems
    <3>1. Take(sems[x]) \in [value : Nat, queue : Seq(Phil)]
      BY <1>5, <2>2, <2>3
    <3>2. QED
      BY <1>4, <2>1, <3>1 DEF Sems
  <2>6. RunqTypeOK'
    BY <1>4, <2>1 DEF RunqTypeOK
  <2>7. Timers'
    BY <1>6, <2>1, TimersSame
  <2>8. MovesTo(next)
    BY <1>1, <2>1 DEF DownAllowed, MovesTo, Leaving
  <2>9. /\ TypeOK' /\ Places' /\ Stands' /\ Queued' /\ pc'[current] = next
        /\ \A i \in Phil : i # current => pc'[i] = pc[i] /\ wait_state'[i] = wait_state[i]
    <3>1. state_sema' \in Announcements /\ iter' \in [Phil -> 0..TIMES]
      BY <1>4, <1>6
    <3>2. QED
      BY <1>2, <2>1, <2>5, <2>6, <2>7, <2>8, <3>1, MoveFrame
  <2>10. QED
    BY <1>1, <1>6, <2>1, <2>2, <2>3, <2>4, <2>7, <2>9
<1>8. CASE ~CanTake(sems[x])
  <2>1. /\ sems' = [sems EXCEPT ![x] = wait_queue_add(@, current)] /\ Goto(label)
        /\ state' = [state EXCEPT ![current] = "SLEEPING"]
        /\ wait_state' = [wait_state EXCEPT ![current] = "WT_KSEM"]
        /\ UNCHANGED <<current, run_list, time_slice, need_resched>>
    BY <1>8 DEF down, SleepAt
  <2>2. sems[x].value = 0
    BY <1>5, <1>8 DEF CanTake
  <2>3. wait_queue_add(sems[x], current)
          = [value |-> sems[x].value, queue |-> Append(sems[x].queue, current)]
    <3>1. sems[x] = [value |-> sems[x].value, queue |-> sems[x].queue]
      BY <1>5
    <3>2. QED
      BY <3>1 DEF wait_queue_add
  <2>4. /\ sems'[x] = wait_queue_add(sems[x], current)
        /\ \A y \in Phil \cup {mutex} : y # x => sems'[y] = sems[y]
    BY <1>3, <1>4, <2>1 DEF Sems
  <2>5. sems' \in Sems
    <3>1. Append(sems[x].queue, current) \in Seq(Phil)
      BY <1>1, <1>5, AppendProperties
    <3>2. wait_queue_add(sems[x], current) \in [value : Nat, queue : Seq(Phil)]
      BY <1>5, <2>3, <3>1
    <3>3. QED
      BY <1>4, <2>1, <3>2 DEF Sems
  <2>6. /\ state' \in [Proc -> ProcState] /\ wait_state' \in [Proc -> WaitReason \cup {"0"}]
        /\ state'[current] = "SLEEPING" /\ wait_state'[current] = "WT_KSEM"
        /\ \A p \in Proc : p # current => wait_state'[p] = wait_state[p] /\ state'[p] = state[p]
    BY <1>1, <1>4, <2>1, PhilAssumption DEF ProcState
  <2>7. RunqTypeOK'
    BY <1>4, <2>1, <2>6 DEF RunqTypeOK
  <2>8. Timers'
    <3>1. \A i \in Phil : wait_state'[i] = "WT_TIMER" <=> wait_state[i] = "WT_TIMER"
      BY <1>1, <2>6, Names
    <3>2. QED
      BY <1>6, <3>1, TimersSame
  <2>9. MovesTo(label)
    BY <1>1, <2>6 DEF DownAllowed, MovesTo
  <2>10. /\ TypeOK' /\ Places' /\ Stands' /\ Queued' /\ pc'[current] = label
         /\ \A i \in Phil : i # current => pc'[i] = pc[i] /\ wait_state'[i] = wait_state[i]
    <3>1. state_sema' \in Announcements /\ iter' \in [Phil -> 0..TIMES]
      BY <1>4, <1>6
    <3>2. QED
      BY <1>2, <2>1, <2>5, <2>6, <2>7, <2>8, <2>9, <3>1, MoveFrame
  <2>11. sems'[x].value = 0 /\ sems'[x].queue = Append(sems[x].queue, current)
    BY <2>2, <2>3, <2>4
  <2>12. current' = current
    BY <2>1
  <2>13. QED
    BY <1>1, <1>6, <2>2, <2>4, <2>6, <2>8, <2>10, <2>11, <2>12
<1>9. QED
  BY <1>7, <1>8

(* down(&mutex) takes the permit or queues the thread.                     *)
LEMMA DownMutexInv ==
  ASSUME IInv, NEW from, NEW label, NEW next, DownAllowed(mutex, from, label, next),
         down(mutex, from, label, next), from \in {"take", "put"}
  PROVE  IInv'
<1>1. /\ current \in Phil /\ pc[current] = from /\ wait_state[current] = "0"
      /\ TypeOK' /\ Places' /\ Stands' /\ Queued' /\ Timers'
      /\ UNCHANGED <<current, state_sema, iter>>
      /\ \A i \in Phil : i # current => pc'[i] = pc[i] /\ wait_state'[i] = wait_state[i]
      /\ \A y \in Phil \cup {mutex} : y # mutex => sems'[y] = sems[y]
      /\ \/ /\ pc'[current] = next /\ wait_state'[current] = "0"
            /\ sems'[mutex].queue = sems[mutex].queue
         \/ /\ pc'[current] = label /\ wait_state'[current] = "WT_KSEM"
            /\ sems'[mutex].queue = Append(sems[mutex].queue, current)
  BY DownFrame
<1>2. current # mutex /\ \A i \in Phil : sems'[i] = sems[i]
  BY <1>1, Names
<1>3. /\ from = "take" => label = "take_sched" /\ next = "hungry"
      /\ from = "put" => label = "put_sched" /\ next = "full"
  BY <1>2 DEF DownAllowed
<1>4. \A i \in Phil : AtOwn(i)' <=> AtOwn(i)
  BY <1>1, <1>3 DEF AtOwn, OwnLabel
<1>5. \A i \in Phil : i # current => (AtMutex(i)' <=> AtMutex(i))
  BY <1>1 DEF AtMutex
<1>6. Queues'
  <2>1. ~AtMutex(current)
    BY <1>1 DEF AtMutex
  <2>2. /\ NoRepeat(sems'[mutex].queue)
        /\ \A p \in Phil : InList(p, sems'[mutex].queue) <=> AtMutex(p)'
    <3>1. CASE /\ pc'[current] = next /\ wait_state'[current] = "0"
               /\ sems'[mutex].queue = sems[mutex].queue
      <4>1. ~AtMutex(current)'
        BY <1>1, <3>1 DEF AtMutex
      <4>2. QED
        BY <1>1, <1>5, <2>1, <3>1, <4>1 DEF IInv, Queues
    <3>2. CASE /\ pc'[current] = label /\ wait_state'[current] = "WT_KSEM"
               /\ sems'[mutex].queue = Append(sems[mutex].queue, current)
      <4>1. AtMutex(current)'
        BY <1>1, <1>3, <3>2 DEF AtMutex, MutexLabel
      <4>2. sems[mutex].queue \in Seq(Phil) /\ NoRepeat(sems[mutex].queue)
            /\ ~InList(current, sems[mutex].queue)
        BY <1>1, <2>1 DEF IInv, TypeOK, Queues
      <4>3. /\ NoRepeat(sems'[mutex].queue)
            /\ \A q : InList(q, sems'[mutex].queue) <=> InList(q, sems[mutex].queue) \/ q = current
        BY <1>1, <3>2, <4>2, AppendList
      <4>4. QED
        BY <1>1, <1>5, <4>1, <4>3 DEF IInv, Queues
    <3>3. QED
      BY <1>1, <3>1, <3>2
  <2>3. QED
    BY <1>2, <1>4, <2>2 DEF IInv, Queues
<1>7. \A i \in Phil :
        /\ pc'[i] \in ThinkLabel => pc[i] \in ThinkLabel
        /\ pc'[i] = "fork" <=> pc[i] = "fork"
        /\ pc'[i] \in {"fork_sched"} \cup EatLabel => pc[i] \in {"fork_sched"} \cup EatLabel
        /\ pc'[i] \in {"none", "think", "exit_links", "exit_sched"}
             \/ pc[i] \notin {"none", "think", "exit_links", "exit_sched"}
  BY <1>1, <1>3 DEF ThinkLabel, EatLabel
<1>8. Announced'
  BY <1>1, <1>2, <1>4, <1>7 DEF IInv, Announced
<1>9. Table' /\ Meals'
  BY <1>1, <1>7 DEF IInv, Table, Meals
<1>10. QED
  BY <1>1, <1>6, <1>8, <1>9 DEF IInv

(* down(&s[i]) takes the permit that goes with EATING, or queues i.        *)
LEMMA DownOwnInv ==
  ASSUME IInv, down(current, "fork", "fork_sched", "eat") PROVE IInv'
<1>1. /\ current \in Phil /\ pc[current] = "fork" /\ wait_state[current] = "0"
      /\ TypeOK' /\ Places' /\ Stands' /\ Queued' /\ Timers'
      /\ UNCHANGED <<current, state_sema, iter>>
      /\ \A i \in Phil : i # current => pc'[i] = pc[i] /\ wait_state'[i] = wait_state[i]
      /\ \A y \in Phil \cup {mutex} : y # current => sems'[y] = sems[y]
      /\ \/ /\ pc'[current] = "eat" /\ wait_state'[current] = "0"
            /\ sems[current].value > 0 /\ sems'[current].value = sems[current].value - 1
            /\ sems'[current].queue = sems[current].queue
         \/ /\ pc'[current] = "fork_sched" /\ wait_state'[current] = "WT_KSEM"
            /\ sems[current].value = 0 /\ sems'[current].value = 0
            /\ sems'[current].queue = Append(sems[current].queue, current)
  <2>1. DownAllowed(current, "fork", "fork_sched", "eat")
    BY DEF DownAllowed
  <2>2. QED
    BY <2>1, DownFrame
<1>2. current # mutex
  BY <1>1, Names
<1>3. ~AtOwn(current) /\ ~AtMutex(current) /\ sems[current].queue = <<>>
  BY <1>1 DEF AtOwn, AtMutex, IInv, Queues
<1>4. /\ state_sema[current] \in {"HUNGRY", "EATING"}
      /\ sems[current].value = IF state_sema[current] = "EATING" THEN 1 ELSE 0
  BY <1>1 DEF IInv, Announced
<1>5. \A i \in Phil : /\ AtMutex(i)' <=> AtMutex(i)
                      /\ i # current => (AtOwn(i)' <=> AtOwn(i))
  BY <1>1 DEF AtMutex, AtOwn, MutexLabel
<1>6. \/ /\ pc'[current] = "eat" /\ ~AtOwn(current)' /\ state_sema[current] = "EATING"
         /\ sems'[current].value = 0 /\ sems'[current].queue = <<>>
      \/ /\ pc'[current] = "fork_sched" /\ AtOwn(current)' /\ state_sema[current] = "HUNGRY"
         /\ sems'[current].value = 0 /\ sems'[current].queue = <<current>>
  <2>1. Append(<<>>, current) = <<current>>
    OBVIOUS
  <2>2. QED
    BY <1>1, <1>3, <1>4, <2>1 DEF AtOwn, OwnLabel
<1>7. Queues'
  BY <1>1, <1>2, <1>5, <1>6 DEF IInv, Queues
<1>8. Announced'
  BY <1>1, <1>5, <1>6 DEF IInv, Announced, ThinkLabel, EatLabel
<1>9. Table' /\ Meals'
  BY <1>1 DEF IInv, Table, Meals
<1>10. QED
  BY <1>1, <1>7, <1>8, <1>9 DEF IInv

-----------------------------------------------------------------------------
(***************************************************************************)
(* Steps that wake sleepers.                                               *)
(***************************************************************************)
LEMMA JoinSlices ==
  ASSUME IInv, NEW joining
  PROVE  SlicesAfterJoin(joining) \in [Proc -> 0..MAX_TIME_SLICE]
<1>1. time_slice \in [Proc -> 0..MAX_TIME_SLICE]
  BY DEF IInv, TypeOK, RunqTypeOK
<1>2. \A p \in Proc : RefilledSlice(p) \in 0..MAX_TIME_SLICE
  BY <1>1, SchedAssumption DEF RefilledSlice
<1>3. QED
  BY <1>1, <1>2 DEF SlicesAfterJoin

(* What a batch of wakeup_proc calls does to states and the run queue.     *)
LEMMA WakeRunq ==
  ASSUME IInv, NEW woken \in SUBSET Proc, \A p \in woken : state[p] = "SLEEPING",
         NEW joining \in Seq(Proc), NoRepeat(joining),
         \A q : InList(q, joining) <=> q \in woken /\ q # current,
         WakeupProcs(woken, joining), current' = current,
         time_slice' \in [Proc -> 0..MAX_TIME_SLICE], need_resched' \in [Proc -> BOOLEAN],
         \A p \in Proc : p # current => pc'[p] = pc[p],
         \/ pc'[current] = pc[current]
         \/ pc[current] \in {"hungry", "full"} /\ pc'[current] \in {"fork", "think"}
         \/ pc[current] = "exit_links" /\ pc'[current] = "exit_sched"
  PROVE  /\ RunqTypeOK' /\ Stands' /\ Queued'
         /\ \A p \in Proc : wait_state'[p] = IF p \in woken THEN "0" ELSE wait_state[p]
<1>1. /\ current \in Proc /\ run_list \in Seq(Proc) /\ state \in [Proc -> ProcState]
      /\ wait_state \in [Proc -> WaitReason \cup {"0"}]
  BY DEF IInv, TypeOK, RunqTypeOK
<1>2. /\ state' \in [Proc -> ProcState] /\ wait_state' \in [Proc -> WaitReason \cup {"0"}]
      /\ \A p \in Proc : state'[p] = IF p \in woken THEN "RUNNABLE" ELSE state[p]
      /\ \A p \in Proc : wait_state'[p] = IF p \in woken THEN "0" ELSE wait_state[p]
      /\ run_list' = run_list \o joining
  BY <1>1 DEF WakeupProcs, ProcState
<1>3. /\ run_list' \in Seq(Proc) /\ NoRepeat(run_list')
      /\ \A q : InList(q, run_list') <=> InList(q, run_list) \/ InList(q, joining)
  <2>1. NoRepeat(run_list)
    BY DEF IInv, Queued
  <2>2. \A q : ~(InList(q, run_list) /\ InList(q, joining))
    BY DEF IInv, Queued
  <2>3. QED
    BY <1>1, <1>2, <2>1, <2>2, ConcatLists
<1>4. RunqTypeOK'
  BY <1>1, <1>2, <1>3 DEF RunqTypeOK
<1>5. Queued'
  <2>1. state[idleproc] = "RUNNABLE" /\ idleproc \notin woken /\ idleproc \in Proc
    BY Names DEF IInv, Queued
  <2>2. \A p \in Proc : InList(p, run_list') =>
          state'[p] = "RUNNABLE" /\ p # current /\ p # idleproc
    BY <1>2, <1>3, <2>1 DEF IInv, Queued
  <2>3. QED
    BY <1>2, <1>3, <2>1, <2>2 DEF Queued
<1>6. Stands'
  <2>1. ASSUME NEW p \in Proc, p # current \/ pc'[p] = pc[p]
        PROVE  /\ pc'[p] \in Leaving => p = current
               /\ pc'[p] = "none" <=> state'[p] = "UNUSED" \/ (state'[p] = "ZOMBIE" /\ p # current)
               /\ state'[p] = "ZOMBIE" /\ p = current => pc'[p] \in {"exit_links", "exit_sched"}
               /\ pc'[p] \in {"exit_links", "exit_sched"} => state'[p] = "ZOMBIE"
               /\ state'[p] = "SLEEPING" /\ p = current => pc'[p] \in Leaving
               /\ wait_state'[p] # "0" <=> state'[p] = "SLEEPING"
               /\ wait_state'[p] = "WT_CHILD" => p = initproc
               /\ wait_state'[p] = "WT_TIMER" => pc'[p] \in TimerLabel
               /\ wait_state'[p] = "WT_KSEM" => pc'[p] \in MutexLabel \cup OwnLabel
    BY <1>2, <2>1 DEF IInv, Stands
  <2>2. ASSUME pc'[current] # pc[current]
        PROVE  /\ pc'[current] = "exit_sched" <=> state'[current] = "ZOMBIE"
               /\ pc'[current] \notin {"none", "exit_links"}
               /\ state'[current] \in {"RUNNABLE", "ZOMBIE"} /\ wait_state'[current] = "0"
    <3>1. CASE pc[current] = "exit_links" /\ pc'[current] = "exit_sched"
      <4>1. state[current] = "ZOMBIE" /\ wait_state[current] = "0" /\ current \notin woken
        BY <1>1, <3>1 DEF IInv, Stands
      <4>2. QED
        BY <1>1, <1>2, <3>1, <4>1
    <3>2. CASE pc[current] \in {"hungry", "full"} /\ pc'[current] \in {"fork", "think"}
      <4>1. state[current] = "RUNNABLE" /\ wait_state[current] = "0"
        BY <3>2, Basics DEF Leaving
      <4>2. current \notin woken
        BY <4>1
      <4>3. QED
        BY <1>1, <1>2, <3>2, <4>1, <4>2
    <3>3. QED
      BY <2>2, <3>1, <3>2
  <2>3. QED
    BY <1>1, <2>1, <2>2 DEF Stands
<1>7. QED
  BY <1>2, <1>4, <1>5, <1>6

(* do_exit wakes init if that waits for a child.                           *)
LEMMA ExitLinksInv == ASSUME IInv, do_exit_links PROVE IInv'
<1>1. /\ pc[current] = "exit_links" /\ current \in Phil /\ current \in Proc
      /\ state[current] = "ZOMBIE" /\ wait_state[current] = "0"
  <2>1. pc[current] = "exit_links"
    BY DEF do_exit_links, At
  <2>2. pc[current] \in PhilLabel
    BY <2>1 DEF PhilLabel, ThinkLabel
  <2>3. QED
    BY <2>1, <2>2, Basics DEF IInv, Stands
<1> DEFINE list == IF wait_state[initproc] = "WT_CHILD" THEN <<initproc>> ELSE <<>>
           woken == IF wait_state[initproc] = "WT_CHILD" THEN {initproc} ELSE {}
<1>2. /\ WakeupProcs(Range(list), list) /\ time_slice' = SlicesAfterJoin(list)
      /\ Goto("exit_sched")
      /\ UNCHANGED <<current, need_resched, timer_list, sems, state_sema, iter>>
  BY DEF do_exit_links
<1>3. /\ list \in Seq(Proc) /\ NoRepeat(list) /\ \A q : InList(q, list) <=> q \in woken
      /\ Range(list) = woken
  <2>1. <<initproc>> \in Seq(Proc) /\ NoRepeat(<<initproc>>)
        /\ \A q : InList(q, <<initproc>>) <=> q = initproc
    BY SingletonList, Names
  <2>2. <<>> \in Seq(Proc) /\ NoRepeat(<<>>) /\ \A q : ~InList(q, <<>>)
    BY EmptyList
  <2>3. list \in Seq(Proc) /\ NoRepeat(list) /\ \A q : InList(q, list) <=> q \in woken
    BY <2>1, <2>2
  <2>4. \A q : q \in Range(list) <=> InList(q, list)
    BY <2>3, RangeList
  <2>5. Range(list) = woken
    BY <2>3, <2>4
  <2>6. QED
    BY <2>3, <2>5
<1> HIDE DEF list
<1>4. woken \in SUBSET Proc /\ current \notin woken /\ \A p \in woken : state[p] = "SLEEPING"
  <2>1. wait_state[initproc] = "WT_CHILD" => state[initproc] = "SLEEPING"
    BY Names DEF IInv, Stands
  <2>2. QED
    BY <1>1, <2>1, Names
<1>5. pc' \in [Proc -> Label] /\ pc'[current] = "exit_sched"
      /\ \A p \in Proc : p # current => pc'[p] = pc[p]
  <2>1. "exit_sched" \in Label
    BY Labels DEF PhilLabel, ThinkLabel
  <2>2. QED
    BY <1>2, <2>1, GotoFacts
<1>6. /\ RunqTypeOK' /\ Stands' /\ Queued'
      /\ \A p \in Proc : wait_state'[p] = IF p \in woken THEN "0" ELSE wait_state[p]
  <2>1. time_slice' \in [Proc -> 0..MAX_TIME_SLICE]
    BY <1>2, JoinSlices
  <2>2. need_resched' \in [Proc -> BOOLEAN]
    BY <1>2 DEF IInv, TypeOK, RunqTypeOK
  <2>3. \A q : InList(q, list) <=> q \in woken /\ q # current
    BY <1>3, <1>4
  <2>4. WakeupProcs(woken, list)
    BY <1>2, <1>3
  <2> HIDE DEF woken
  <2>5. QED
    BY <1>1, <1>2, <1>3, <1>4, <1>5, <2>1, <2>2, <2>3, <2>4, WakeRunq
<1>7. \A i \in Phil : wait_state'[i] = wait_state[i]
  BY <1>6, Names
<1>8. Timers'
  BY <1>2, <1>7, TimersSame
<1>9. TypeOK'
  BY <1>2, <1>5, <1>6 DEF IInv, TypeOK
<1>10. Places'
  <2>1. pc[idleproc] # "boot"
    BY <1>1, Names DEF IInv, Places
  <2>2. QED
    BY <1>1, <1>2, <1>5, <2>1, Names DEF IInv, Places, PhilLabel, ThinkLabel
<1>11. Queues' /\ Announced' /\ Table' /\ Meals'
  <2>1. \A i \in Phil : pc'[i] = pc[i] \/ (pc[i] = "exit_links" /\ pc'[i] = "exit_sched")
    BY <1>1, <1>5, Names
  <2>2. \A i \in Phil : /\ AtMutex(i)' <=> AtMutex(i)
                        /\ AtOwn(i)' <=> AtOwn(i)
    BY <1>7, <2>1 DEF AtMutex, AtOwn, MutexLabel, OwnLabel
  <2>3. \A i \in Phil :
           /\ pc'[i] \in ThinkLabel => pc[i] \in ThinkLabel
           /\ pc'[i] = "fork" <=> pc[i] = "fork"
           /\ pc'[i] \in {"fork_sched"} \cup EatLabel => pc[i] \in {"fork_sched"} \cup EatLabel
           /\ pc[i] \in {"none", "think", "exit_links", "exit_sched"} =>
                iter[i] < TIMES \/ pc'[i] \in {"none", "think", "exit_links", "exit_sched"}
    BY <2>1 DEF ThinkLabel, EatLabel
  <2>4. QED
    BY <1>2, <2>2, <2>3, DinnerSame
<1>12. QED
  BY <1>6, <1>8, <1>9, <1>10, <1>11 DEF IInv

-----------------------------------------------------------------------------
(***************************************************************************)
(* phi_take_forks_sema and phi_put_forks_sema.  Once the record says what  *)
(* the dinner asks for, so does the state it is written to.                *)
(***************************************************************************)
LEMMA AnnounceInv ==
  ASSUME IInv, pc[current] \in {"hungry", "full"},
         NEW label \in {"fork", "think"}, Goto(label),
         NEW w, Good(pc', w), Seated(w, {}),
         state_sema' = w.st, sems' = w.sems,
         WakeupProcs(Range(w.woken), w.woken), time_slice' = SlicesAfterJoin(w.woken),
         UNCHANGED <<current, need_resched, timer_list>>,
         iter' \in [Phil -> 0..TIMES], \A i \in Phil : i # current => iter'[i] = iter[i],
         label = "fork" => iter'[current] = iter[current]
  PROVE  IInv'
<1>1. /\ current \in Phil /\ current \in Proc
      /\ state[current] = "RUNNABLE" /\ wait_state[current] = "0"
  <2>1. pc[current] \in PhilLabel /\ pc[current] \notin Leaving
    BY DEF PhilLabel, ThinkLabel, EatLabel, Leaving
  <2>2. QED
    BY <2>1, Basics
<1>2. /\ pc' \in [Proc -> Label] /\ pc'[current] = label
      /\ \A p \in Proc : p # current => pc'[p] = pc[p]
  <2>1. label \in Label
    BY Labels DEF PhilLabel, ThinkLabel
  <2>2. QED
    BY <2>1, GotoFacts
<1>3. /\ w.st \in Announcements /\ w.sems \in Sems /\ w.woken \in Seq(Phil)
      /\ NoRepeat(w.woken)
      /\ \A p : InList(p, w.woken) => p \in Phil /\ wait_state[p] = "WT_KSEM"
  BY DEF Good, Work, GoodWoken
<1> DEFINE woken == Range(w.woken)
<1>4. \A q : q \in woken <=> InList(q, w.woken)
  BY <1>3, RangeList
<1>5. WakeupProcs(woken, w.woken)
  OBVIOUS
<1> HIDE DEF woken
<1>6. w.woken \in Seq(Proc)
  <2>1. Phil \subseteq Proc
    BY Names
  <2>2. QED
    BY <1>3, <2>1, SeqMonotonic
<1>7. woken \in SUBSET Proc /\ current \notin woken /\ \A p \in woken : state[p] = "SLEEPING"
  <2>1. \A p \in woken : p \in Proc /\ wait_state[p] = "WT_KSEM"
    BY <1>3, <1>4, Names
  <2>2. \A p \in woken : state[p] = "SLEEPING"
    BY <2>1 DEF IInv, Stands
  <2>3. QED
    BY <1>1, <2>1, <2>2
<1>8. /\ RunqTypeOK' /\ Stands' /\ Queued'
      /\ \A p \in Proc : wait_state'[p] = IF p \in woken THEN "0" ELSE wait_state[p]
  <2>1. time_slice' \in [Proc -> 0..MAX_TIME_SLICE]
    BY JoinSlices
  <2>2. need_resched' \in [Proc -> BOOLEAN]
    BY DEF IInv, TypeOK, RunqTypeOK
  <2>3. \A q : InList(q, w.woken) <=> q \in woken /\ q # current
    BY <1>4, <1>7
  <2>4. pc[current] \in {"hungry", "full"} /\ pc'[current] \in {"fork", "think"}
    BY <1>2
  <2>5. QED
    BY <1>2, <1>3, <1>5, <1>6, <1>7, <2>1, <2>2, <2>3, <2>4, WakeRunq
<1>9. \A i \in Phil : wait_state'[i] = IF InList(i, w.woken) THEN "0" ELSE wait_state[i]
  BY <1>4, <1>8, Names
<1>10. Timers'
  <2>1. \A i \in Phil : wait_state'[i] = "WT_TIMER" <=> wait_state[i] = "WT_TIMER"
    BY <1>3, <1>9
  <2>2. QED
    BY <2>1, TimersSame
<1>11. TypeOK'
  <2>1. timer_list' \in Seq([proc : Phil, expires : 0..SLEEP_TIME])
    BY DEF IInv, TypeOK
  <2>2. QED
    BY <1>2, <1>3, <1>8, <2>1 DEF TypeOK, Sems, Announcements
<1>12. Places'
  <2>1. pc[idleproc] # "boot" /\ label \in PhilLabel /\ label # "none"
    BY <1>1, Names DEF IInv, Places, PhilLabel, ThinkLabel
  <2>2. QED
    BY <1>1, <1>2, <2>1, Names DEF IInv, Places
<1>13. \A i \in Phil : /\ AtMutex(i)' <=> Waits(pc', w, i, MutexLabel)
                       /\ AtOwn(i)' <=> Waits(pc', w, i, OwnLabel)
  BY <1>9 DEF AtMutex, AtOwn, Waits
<1>14. Queues'
  BY <1>13 DEF Good, GoodQueues, Queues
<1>15. Announced'
  BY <1>13 DEF Good, GoodStates, Announced
<1>16. Table'
  BY DEF Seated, Table
<1>17. Meals'
  BY <1>1, <1>2, Names DEF IInv, Meals
<1>18. QED
  BY <1>8, <1>10, <1>11, <1>12, <1>14, <1>15, <1>16, <1>17 DEF IInv

(* The record they start from.                                             *)
LEMMA StartGood ==
  ASSUME IInv, current \in Phil, wait_state[current] = "0",
         NEW at, \A p \in Phil : p # current => at[p] = pc[p],
         NEW mine, NEW w,
         w = [st |-> [state_sema EXCEPT ![current] = mine], sems |-> sems, woken |-> <<>>],
         \/ pc[current] = "hungry" /\ mine = "HUNGRY" /\ at[current] = "fork"
         \/ pc[current] = "full" /\ mine = "THINKING" /\ at[current] = "think"
  PROVE  /\ Good(at, w)
         /\ mine = "HUNGRY" => Seated(w, {current})
         /\ mine = "THINKING" => Seated(w, {Left(current), Right(current)})
<1>1. /\ w.sems = sems /\ w.woken = <<>> /\ w.st = [state_sema EXCEPT ![current] = mine]
      /\ state_sema \in Announcements /\ sems \in Sems
  BY DEF IInv, TypeOK, Sems, Announcements
<1>2. w.st \in Announcements /\ w.st[current] = mine
      /\ \A i \in Phil : i # current => w.st[i] = state_sema[i]
  BY <1>1 DEF Announcements
<1>3. w.woken \in Seq(Phil) /\ NoRepeat(w.woken) /\ \A q : ~InList(q, w.woken)
  BY <1>1, EmptyList
<1>4. w \in Work
  BY <1>1, <1>2, <1>3 DEF Work
<1>5. GoodWoken(w)
  BY <1>3 DEF GoodWoken
<1>6. \A i \in Phil : /\ AtMutex(i) <=> Waits(at, w, i, MutexLabel)
                      /\ AtOwn(i) <=> Waits(at, w, i, OwnLabel)
  BY <1>3 DEF AtMutex, AtOwn, Waits
<1>7. GoodQueues(at, w)
  BY <1>1, <1>6 DEF IInv, Queues, GoodQueues
<1>8. sems[current].value = 0
  BY DEF IInv, Announced
<1>9. GoodStates(at, w)
  <2>1. ASSUME NEW i \in Phil, i # current
        PROVE  /\ at[i] \in ThinkLabel => w.st[i] = "THINKING"
               /\ at[i] = "fork" => w.st[i] \in {"HUNGRY", "EATING"}
               /\ at[i] \in {"fork_sched"} \cup EatLabel =>
                    w.st[i] = IF Waits(at, w, i, OwnLabel) THEN "HUNGRY" ELSE "EATING"
               /\ w.sems[i].value = IF at[i] = "fork" /\ w.st[i] = "EATING" THEN 1 ELSE 0
    BY <1>1, <1>2, <1>6, <2>1 DEF IInv, Announced
  <2>2. /\ at[current] \in ThinkLabel => w.st[current] = "THINKING"
        /\ at[current] = "fork" => w.st[current] \in {"HUNGRY", "EATING"}
        /\ at[current] \notin {"fork_sched"} \cup EatLabel
        /\ w.st[current] # "EATING" /\ w.sems[current].value = 0
    BY <1>1, <1>2, <1>8 DEF ThinkLabel, EatLabel
  <2>3. QED
    BY <2>1, <2>2 DEF GoodStates
<1>10. \A i \in Phil : /\ Left(i) \in Phil /\ Right(i) \in Phil
                       /\ Left(i) = current => i = Right(current)
                       /\ Right(i) = current => i = Left(current)
  BY Neighbourhood
<1>11. state_sema[current] = IF mine = "HUNGRY" THEN "THINKING" ELSE "EATING"
  <2>1. ~AtOwn(current)
    BY DEF AtOwn
  <2>2. QED
    BY <2>1 DEF IInv, Announced, ThinkLabel, EatLabel
<1>12. \A i \in Phil : w.st[i] = "EATING" =>
         w.st[Left(i)] # "EATING" /\ w.st[Right(i)] # "EATING"
  BY <1>2, <1>10 DEF IInv, Table
<1>13. ASSUME mine = "HUNGRY"
       PROVE  Seated(w, {current})
  <2>1. \A i \in Phil : w.st[i] = "EATING" <=> state_sema[i] = "EATING"
    BY <1>2, <1>11, <1>13
  <2>2. \A i \in Phil : w.st[i] = "HUNGRY" /\ i # current => state_sema[i] = "HUNGRY"
    BY <1>2
  <2>3. QED
    BY <1>10, <1>12, <2>1, <2>2 DEF IInv, Table, Seated
<1>14. ASSUME mine = "THINKING"
       PROVE  Seated(w, {Left(current), Right(current)})
  <2>1. \A i \in Phil : i # current => w.st[i] = state_sema[i]
    BY <1>2
  <2>2. w.st[current] = "THINKING"
    BY <1>2, <1>14
  <2>3. QED
    BY <1>10, <1>12, <2>1, <2>2 DEF IInv, Table, Seated
<1>15. QED
  BY <1>4, <1>5, <1>7, <1>9, <1>13, <1>14 DEF Good

(* phi_take_forks_sema announces hunger, tests its seat and leaves the     *)
(* mutex.                                                                  *)
LEMMA ForksTakenInv == ASSUME IInv, phi_take_forks_sema PROVE IInv'
<1>1. /\ pc[current] = "hungry" /\ current \in Phil /\ current \in Proc /\ wait_state[current] = "0"
  <2>1. pc[current] = "hungry"
    BY DEF phi_take_forks_sema, At
  <2>2. pc[current] \in PhilLabel /\ pc[current] \notin Leaving
    BY <2>1 DEF PhilLabel, ThinkLabel, Leaving
  <2>3. QED
    BY <2>1, <2>2, Basics
<1>2. Announce("HUNGRY", <<current>>) /\ Goto("fork") /\ iter' = iter
  BY DEF phi_take_forks_sema
<1>3. /\ pc'[current] = "fork" /\ \A p \in Proc : p # current => pc'[p] = pc[p]
      /\ \A i \in Phil : pc'[i] \in PhilLabel
  <2>1. "fork" \in Label
    BY Labels DEF PhilLabel
  <2>2. pc'[current] = "fork" /\ \A p \in Proc : p # current => pc'[p] = pc[p]
    BY <1>2, <2>1, GotoFacts
  <2>3. QED
    BY <2>2, Names DEF IInv, Places, PhilLabel
<1> DEFINE w0 == [st |-> [state_sema EXCEPT ![current] = "HUNGRY"], sems |-> sems, woken |-> <<>>]
           w1 == FoldLeft(phi_test_sema, w0, <<current>>)
           w  == up(w1, mutex)
<1>4. /\ state_sema' = w.st /\ sems' = w.sems
      /\ WakeupProcs(Range(w.woken), w.woken) /\ time_slice' = SlicesAfterJoin(w.woken)
      /\ UNCHANGED <<current, need_resched, timer_list>>
  BY <1>2 DEF Announce
<1>5. Good(pc', w0) /\ Seated(w0, {current})
  <2> DEFINE at == pc'
  <2> HIDE DEF w0
  <2>1. w0 = [st |-> [state_sema EXCEPT ![current] = "HUNGRY"], sems |-> sems, woken |-> <<>>]
    BY DEF w0
  <2>2. at[current] = "fork" /\ \A p \in Phil : p # current => at[p] = pc[p]
    BY <1>3, Names
  <2> HIDE DEF at
  <2>3. Good(at, w0) /\ Seated(w0, {current})
    BY <1>1, <2>1, <2>2, StartGood
  <2>4. QED
    BY <2>3 DEF at
<1>6. w1 = phi_test_sema(w0, current)
  <2>1. w1 = Tested(w0, <<current>>)
    BY DEF Tested
  <2>2. QED
    BY <2>1, TestOne
<1> HIDE DEF w0, w1
<1>7. Good(pc', w1) /\ Seated(w1, {current} \ {current})
  BY <1>1, <1>3, <1>5, <1>6, TestGood
<1>8. {current} \ {current} = {}
  OBVIOUS
<1>9. Good(pc', w) /\ Seated(w, {})
  BY <1>7, <1>8, UpMutex
<1> HIDE DEF w
<1>10. iter' \in [Phil -> 0..TIMES]
  BY <1>2 DEF IInv, TypeOK
<1>11. QED
  BY <1>1, <1>2, <1>4, <1>9, <1>10, AnnounceInv

(* phi_put_forks_sema goes back to thinking, tests both neighbours and     *)
(* leaves the mutex.                                                       *)
LEMMA ForksPutInv == ASSUME IInv, phi_put_forks_sema PROVE IInv'
<1>1. /\ pc[current] = "full" /\ current \in Phil /\ current \in Proc /\ wait_state[current] = "0"
  <2>1. pc[current] = "full"
    BY DEF phi_put_forks_sema, At
  <2>2. pc[current] \in PhilLabel /\ pc[current] \notin Leaving
    BY <2>1 DEF PhilLabel, EatLabel, Leaving
  <2>3. QED
    BY <2>1, <2>2, Basics
<1>2. /\ Announce("THINKING", <<Left(current), Right(current)>>) /\ Goto("think")
      /\ iter' = [iter EXCEPT ![current] = @ + 1]
  BY DEF phi_put_forks_sema, Neighbours
<1>3. /\ pc'[current] = "think" /\ \A p \in Proc : p # current => pc'[p] = pc[p]
      /\ \A i \in Phil : pc'[i] \in PhilLabel
  <2>1. "think" \in Label /\ "think" \in PhilLabel
    BY Labels DEF PhilLabel, ThinkLabel
  <2>2. pc'[current] = "think" /\ \A p \in Proc : p # current => pc'[p] = pc[p]
    BY <1>2, <2>1, GotoFacts
  <2>3. QED
    BY <2>1, <2>2, Names DEF IInv, Places
<1> DEFINE l  == Left(current)
           r  == Right(current)
           w0 == [st |-> [state_sema EXCEPT ![current] = "THINKING"], sems |-> sems, woken |-> <<>>]
           w1 == FoldLeft(phi_test_sema, w0, <<l, r>>)
           w  == up(w1, mutex)
<1>4. /\ state_sema' = w.st /\ sems' = w.sems
      /\ WakeupProcs(Range(w.woken), w.woken) /\ time_slice' = SlicesAfterJoin(w.woken)
      /\ UNCHANGED <<current, need_resched, timer_list>>
  BY <1>2 DEF Announce
<1>5. Good(pc', w0) /\ Seated(w0, {l, r})
  <2> DEFINE at == pc'
  <2> HIDE DEF w0
  <2>1. w0 = [st |-> [state_sema EXCEPT ![current] = "THINKING"], sems |-> sems, woken |-> <<>>]
    BY DEF w0
  <2>2. at[current] = "think" /\ \A p \in Phil : p # current => at[p] = pc[p]
    BY <1>3, Names
  <2> HIDE DEF at
  <2>3. Good(at, w0) /\ Seated(w0, {l, r})
    BY <1>1, <2>1, <2>2, StartGood
  <2>4. QED
    BY <2>3 DEF at
<1>6. l \in Phil /\ r \in Phil
  BY <1>1, Neighbourhood
<1> HIDE DEF l, r, w0
<1> DEFINE t == phi_test_sema(w0, l)
<1>7. w1 = phi_test_sema(t, r)
  <2>1. w1 = Tested(w0, <<l, r>>)
    BY DEF Tested
  <2>2. QED
    BY <2>1, TestTwo
<1> HIDE DEF w1
<1>8. Good(pc', t) /\ Seated(t, {l, r} \ {l})
  BY <1>3, <1>5, <1>6, TestGood
<1> HIDE DEF t
<1>9. Good(pc', w1) /\ Seated(w1, ({l, r} \ {l}) \ {r})
  BY <1>3, <1>6, <1>7, <1>8, TestGood
<1>10. ({l, r} \ {l}) \ {r} = {}
  OBVIOUS
<1>11. Good(pc', w) /\ Seated(w, {})
  BY <1>9, <1>10, UpMutex
<1> HIDE DEF w
<1>12. iter' \in [Phil -> 0..TIMES] /\ \A i \in Phil : i # current => iter'[i] = iter[i]
  <2>1. iter \in [Phil -> 0..TIMES] /\ iter[current] < TIMES /\ TIMES \in Nat
    BY <1>1, PhilAssumption DEF IInv, TypeOK, Meals
  <2>2. QED
    BY <1>1, <1>2, <2>1
<1>13. QED
  BY <1>1, <1>2, <1>4, <1>11, <1>12, AnnounceInv

-----------------------------------------------------------------------------
(***************************************************************************)
(* schedule().                                                             *)
(***************************************************************************)
LEMMA ScheduleInv == ASSUME IInv, call_schedule PROVE IInv'
<1>1. /\ current \in Proc /\ run_list \in Seq(Proc) /\ NoRepeat(run_list)
      /\ pc \in [Proc -> Label] /\ idleproc \in Proc
      /\ time_slice \in [Proc -> 0..MAX_TIME_SLICE] /\ need_resched \in [Proc -> BOOLEAN]
      /\ pc[current] # "none"
  BY Names DEF IInv, TypeOK, RunqTypeOK, Queued, Places
<1>2. /\ schedule /\ Goto(AfterSchedule[pc[current]])
      /\ UNCHANGED <<state, wait_state, timer_list, sems, state_sema, iter>>
  BY DEF call_schedule, schedule
<1> DEFINE next == AfterSchedule[pc[current]]
<1>3. \/ pc[current] = "idle" /\ next = "idle"
      \/ pc[current] = "init_sched" /\ next = "wait"
      \/ pc[current] = "wait_sched" /\ next = "wait"
      \/ pc[current] = "think_sched" /\ next = "think_woken"
      \/ pc[current] = "eat_sched" /\ next = "eat_woken"
      \/ pc[current] = "take_sched" /\ next = "hungry"
      \/ pc[current] = "fork_sched" /\ next = "eat"
      \/ pc[current] = "put_sched" /\ next = "full"
      \/ pc[current] = "exit_sched" /\ next = "none"
  <2>1. pc[current] \in DOMAIN AfterSchedule
    BY DEF call_schedule
  <2>2. QED
    BY <2>1, Labels DEF AfterSchedule
<1>4. Goto(next)
  BY <1>2
<1> HIDE DEF next
<1>5. next \in Label /\ next \notin Leaving /\ next \notin {"boot", "exit_links", "exit_sched"}
  <2>1. next \in Label
    BY <1>3, Labels DEF IdleLabel, InitLabel, PhilLabel, ThinkLabel, EatLabel
  <2>2. QED
    BY <1>3, <2>1 DEF Leaving
<1>6. /\ pc' \in [Proc -> Label] /\ pc'[current] = next
      /\ \A p \in Proc : p # current => pc'[p] = pc[p]
  BY <1>4, <1>5, GotoFacts
<1> DEFINE queue == QueueWithCurrent
<1>7. /\ queue \in Seq(Proc) /\ NoRepeat(queue)
      /\ \A q : InList(q, queue) => q \in Proc /\ state[q] = "RUNNABLE" /\ q # idleproc
  <2>1. \A q : InList(q, run_list) =>
                q \in Proc /\ state[q] = "RUNNABLE" /\ q # idleproc /\ q # current
    <3>1. \A q : InList(q, run_list) => q \in Proc
      BY <1>1, ElementOfSeq DEF InList
    <3>2. QED
      BY <3>1 DEF IInv, Queued
  <2>2. CASE Requeues
    <3>1. queue = Append(run_list, current)
      BY <2>2 DEF QueueWithCurrent, RR_enqueue
    <3>2. ~InList(current, run_list)
      BY <2>1
    <3>3. queue \in Seq(Proc) /\ NoRepeat(queue)
          /\ \A q : InList(q, queue) <=> InList(q, run_list) \/ q = current
      BY <1>1, <3>1, <3>2, AppendList
    <3>4. QED
      BY <1>1, <2>1, <2>2, <3>3 DEF Requeues
  <2>3. CASE ~Requeues
    BY <1>1, <2>1, <2>3 DEF QueueWithCurrent
  <2>4. QED
    BY <2>2, <2>3
<1>8. \/ queue = <<>> /\ current' = idleproc /\ run_list' = <<>>
      \/ queue # <<>> /\ current' = Head(queue) /\ run_list' = Tail(queue)
  BY <1>2 DEF schedule
<1> HIDE DEF queue
<1>9. state[idleproc] = "RUNNABLE"
  BY DEF IInv, Queued
<1>10. /\ current' \in Proc /\ state[current'] = "RUNNABLE" /\ run_list' \in Seq(Proc)
       /\ NoRepeat(run_list')
       /\ \A q : InList(q, run_list') =>
            q \in Proc /\ state[q] = "RUNNABLE" /\ q # idleproc /\ q # current'
  <2>1. CASE queue = <<>>
    BY <1>1, <1>8, <1>9, <2>1, EmptyList
  <2>2. CASE queue # <<>>
    <3>1. /\ Head(queue) \in Proc /\ InList(Head(queue), queue)
          /\ Tail(queue) \in Seq(Proc) /\ NoRepeat(Tail(queue))
          /\ \A q : InList(q, Tail(queue)) <=> InList(q, queue) /\ q # Head(queue)
      BY <1>7, <2>2, TailList
    <3>2. QED
      BY <1>7, <1>8, <2>2, <3>1
  <2>3. QED
    BY <2>1, <2>2
<1>11. Queued'
  BY <1>2, <1>9, <1>10 DEF Queued
<1>12. time_slice' \in [Proc -> 0..MAX_TIME_SLICE] /\ need_resched' \in [Proc -> BOOLEAN]
  <2>1. RefilledSlice(current) \in 0..MAX_TIME_SLICE
    BY <1>1, SchedAssumption DEF RefilledSlice
  <2>2. QED
    BY <1>1, <1>2, <2>1 DEF schedule
<1>13. TypeOK'
  BY <1>2, <1>6, <1>10, <1>12 DEF IInv, TypeOK, RunqTypeOK
<1>14. pc[current] = "exit_sched" => state[current] = "ZOMBIE"
  BY <1>1 DEF IInv, Stands
<1>15. Stands'
  <2>1. ASSUME NEW p \in Proc
        PROVE  /\ pc'[p] \notin Leaving
               /\ pc'[p] = "none" <=> state[p] = "UNUSED" \/ (state[p] = "ZOMBIE" /\ p # current')
               /\ state[p] = "ZOMBIE" => p # current'
               /\ pc'[p] \notin {"exit_links", "exit_sched"}
               /\ state[p] = "SLEEPING" => p # current'
               /\ wait_state[p] # "0" <=> state[p] = "SLEEPING"
               /\ wait_state[p] = "WT_CHILD" => p = initproc
               /\ wait_state[p] = "WT_TIMER" => pc'[p] \in TimerLabel
               /\ wait_state[p] = "WT_KSEM" => pc'[p] \in MutexLabel \cup OwnLabel
    <3>1. /\ wait_state[p] # "0" <=> state[p] = "SLEEPING"
          /\ wait_state[p] = "WT_CHILD" => p = initproc
          /\ state[p] = "ZOMBIE" => p # current'
          /\ state[p] = "SLEEPING" => p # current'
      BY <1>10 DEF IInv, Stands
    <3>2. CASE p # current
      <4>1. pc'[p] = pc[p] /\ pc[p] \notin Leaving
        BY <1>6, <3>2 DEF IInv, Stands
      <4>2. QED
        BY <3>1, <3>2, <4>1 DEF IInv, Stands, Leaving
    <3>3. CASE p = current
      <4>1. pc'[p] = next
        BY <1>6, <3>3
      <4>2. next = "none" <=> state[p] = "UNUSED" \/ state[p] = "ZOMBIE"
        <5>1. state[p] # "UNUSED"
          BY <1>1, <3>3 DEF IInv, Stands
        <5>2. state[p] = "ZOMBIE" => pc[p] \in {"exit_links", "exit_sched"}
          BY <3>3 DEF IInv, Stands
        <5>3. QED
          BY <1>3, <1>14, <3>3, <5>1, <5>2
      <4>3. /\ wait_state[p] = "WT_TIMER" => next \in TimerLabel
            /\ wait_state[p] = "WT_KSEM" => next \in MutexLabel \cup OwnLabel
        <5>1. /\ wait_state[p] = "WT_TIMER" => pc[p] \in TimerLabel
              /\ wait_state[p] = "WT_KSEM" => pc[p] \in MutexLabel \cup OwnLabel
          BY DEF IInv, Stands
        <5>2. QED
          BY <1>3, <3>3, <5>1 DEF TimerLabel, MutexLabel, OwnLabel
      <4>4. QED
        BY <1>5, <3>1, <4>1, <4>2, <4>3
    <3>4. QED
      BY <3>2, <3>3
  <2>2. QED
    BY <1>2, <2>1 DEF Stands
<1>16. Places'
  <2>1. /\ pc[current] \in IdleLabel <=> current = idleproc
        /\ pc[current] \in InitLabel <=> current = initproc
        /\ pc[current] \in PhilLabel <=> current \in Phil
    BY Basics
  <2>2. /\ current = idleproc => next = "idle"
        /\ current = initproc => next \in InitLabel
        /\ current \in Phil => next \in PhilLabel
    BY <1>3, <2>1, Names
    DEF IdleLabel, InitLabel, PhilLabel, ThinkLabel, EatLabel
  <2>3. pc[idleproc] # "boot" \/ current = idleproc
    BY DEF IInv, Places
  <2>4. pc'[idleproc] \in IdleLabel /\ pc'[idleproc] # "boot"
    BY <1>1, <1>6, <2>2, <2>3 DEF IInv, Places, IdleLabel
  <2>5. pc'[initproc] \in InitLabel /\ \A i \in Phil : pc'[i] \in PhilLabel
    BY <1>6, <2>2, Names DEF IInv, Places
  <2>6. pc'[current'] # "none"
    BY <1>2, <1>10, <1>15 DEF Stands
  <2>7. QED
    BY <2>4, <2>5, <2>6 DEF Places
<1>17. Timers'
  BY <1>2, TimersSame
<1>18. Queues' /\ Announced' /\ Table' /\ Meals'
  <2>1. \A i \in Phil : pc'[i] = pc[i] \/ (i = current /\ pc'[i] = next)
    BY <1>6, Names
  <2>2. \A i \in Phil : /\ pc'[i] \in MutexLabel <=> pc[i] \in MutexLabel
                        /\ pc'[i] \in OwnLabel <=> pc[i] \in OwnLabel
    BY <1>3, <2>1 DEF MutexLabel, OwnLabel
  <2>3. \A i \in Phil : /\ AtMutex(i)' <=> AtMutex(i)
                        /\ AtOwn(i)' <=> AtOwn(i)
    BY <1>2, <2>2 DEF AtMutex, AtOwn
  <2>4. \A i \in Phil :
           /\ pc'[i] \in ThinkLabel => pc[i] \in ThinkLabel
           /\ pc'[i] = "fork" <=> pc[i] = "fork"
           /\ pc'[i] \in {"fork_sched"} \cup EatLabel => pc[i] \in {"fork_sched"} \cup EatLabel
           /\ pc[i] \in {"none", "think", "exit_links", "exit_sched"} =>
                iter[i] < TIMES \/ pc'[i] \in {"none", "think", "exit_links", "exit_sched"}
    <3>1. \A i \in Phil : i = current => pc[i] \in PhilLabel
      BY DEF IInv, Places
    <3>2. QED
      BY <1>3, <2>1, <3>1 DEF ThinkLabel, EatLabel, PhilLabel
  <2>5. QED
    BY <1>2, <2>3, <2>4, DinnerSame
<1>19. QED
  BY <1>11, <1>13, <1>15, <1>16, <1>17, <1>18 DEF IInv

(***************************************************************************)
(* The timer interrupt.                                                    *)
(***************************************************************************)
LEMMA TickInv == ASSUME IInv, run_timer_list PROVE IInv'
<1> DEFINE gone == Range(ExpiredProcs(timer_list))
<1>1. PICK joining \in Orderings({p \in Expired : Enqueues(p)}) :
        WakeupProcs(Expired, joining) /\ sched_class_proc_tick(joining)
  BY DEF run_timer_list
<1>2. /\ timer_list' = AfterTick(timer_list)
      /\ UNCHANGED <<current, sems, state_sema, iter, pc>>
      /\ pc[idleproc] # "boot"
  BY DEF run_timer_list
<1>3. /\ Ticking(timer_list)
      /\ Armed(timer_list) = {p \in Phil : wait_state[p] = "WT_TIMER"}
      /\ \A p : LeftOf(timer_list, p) <= SLEEP_TIME
  BY DEF IInv, Timers
<1>4. /\ Ticking(timer_list') /\ gone \subseteq Armed(timer_list)
      /\ Armed(timer_list') = Armed(timer_list) \ gone
      /\ \A q : LeftOf(timer_list', q) =
                  IF LeftOf(timer_list, q) > 0 THEN LeftOf(timer_list, q) - 1 ELSE 0
  BY <1>2, <1>3, TickTimers
<1>5. \A p : LeftOf(timer_list', p) <= SLEEP_TIME
  <2>1. \A p : LeftOf(timer_list, p) \in Nat
    BY <1>3, LeftIsNat
  <2>2. QED
    BY <1>3, <1>4, <2>1, PhilAssumption
<1>6. Expired = gone /\ gone \in SUBSET Proc /\ \A p \in gone : state[p] = "SLEEPING" /\ p \in Phil
  <2>1. \A p \in gone : p \in Phil /\ p \in Proc /\ state[p] = "SLEEPING"
    BY <1>3, <1>4, Names DEF IInv, Stands
  <2>2. QED
    BY <2>1 DEF Expired
<1> HIDE DEF gone
<1>7. /\ joining \in Seq(Proc) /\ NoRepeat(joining)
      /\ \A q : InList(q, joining) <=> q \in gone /\ q # current
  <2> DEFINE S == {p \in Expired : Enqueues(p)}
  <2>1. \A q : q \in S <=> q \in gone /\ q # current
    BY <1>6, Names DEF Enqueues
  <2>2. S \in SUBSET Proc
    BY <1>6, <2>1
  <2>3. IsFiniteSet(S)
    BY <2>2, SchedAssumption, FS_Subset
  <2>4. joining \in Orderings(S)
    BY <1>1
  <2> HIDE DEF S
  <2>5. joining \in Seq(Proc) /\ NoRepeat(joining) /\ \A x : InList(x, joining) <=> x \in S
    BY <2>2, <2>3, <2>4, OrderingsList
  <2>6. QED
    BY <2>1, <2>5
<1>8. /\ RunqTypeOK' /\ Stands' /\ Queued'
      /\ \A p \in Proc : wait_state'[p] = IF p \in gone THEN "0" ELSE wait_state[p]
  <2>1. /\ current \in Proc /\ time_slice \in [Proc -> 0..MAX_TIME_SLICE]
        /\ need_resched \in [Proc -> BOOLEAN]
    BY DEF IInv, TypeOK, RunqTypeOK
  <2>2. SlicesAfterJoin(joining) \in [Proc -> 0..MAX_TIME_SLICE]
    BY JoinSlices
  <2>3. SliceAfterTick(current) \in 0..MAX_TIME_SLICE
    BY <2>1, SchedAssumption DEF SliceAfterTick
  <2>4. time_slice' \in [Proc -> 0..MAX_TIME_SLICE]
    BY <1>1, <2>1, <2>2, <2>3 DEF sched_class_proc_tick
  <2>5. need_resched' \in [Proc -> BOOLEAN]
    BY <1>1, <2>1 DEF sched_class_proc_tick
  <2>6. WakeupProcs(gone, joining)
    BY <1>1, <1>6
  <2>7. gone \in SUBSET Proc /\ \A p \in gone : state[p] = "SLEEPING"
    BY <1>6
  <2>8. pc' = pc /\ current' = current
    BY <1>2
  <2>9. QED
    BY <1>7, <2>4, <2>5, <2>6, <2>7, <2>8, WakeRunq
<1>9. \A i \in Phil : wait_state'[i] = IF i \in gone THEN "0" ELSE wait_state[i]
  BY <1>8, Names
<1>10. Timers'
  <2>1. {p \in Phil : wait_state'[p] = "WT_TIMER"}
          = {p \in Phil : wait_state[p] = "WT_TIMER"} \ gone
    BY <1>9
  <2>2. QED
    BY <1>3, <1>4, <1>5, <2>1 DEF Timers
<1>11. TypeOK'
  <2>1. Armed(timer_list') \subseteq Phil
    BY <1>3, <1>4
  <2>2. timer_list' \in Seq([proc : Phil, expires : 0..SLEEP_TIME])
    BY <1>4, <1>5, <2>1, TimersType
  <2>3. QED
    BY <1>2, <1>8, <2>2 DEF IInv, TypeOK
<1>12. Places'
  BY <1>2 DEF IInv, Places
<1>13. Queues' /\ Announced' /\ Table' /\ Meals'
  <2>1. \A i \in Phil : i \in gone => wait_state[i] = "WT_TIMER"
    BY <1>3, <1>4
  <2>2. \A i \in Phil : /\ AtMutex(i)' <=> AtMutex(i)
                        /\ AtOwn(i)' <=> AtOwn(i)
    BY <1>2, <1>9, <2>1 DEF AtMutex, AtOwn
  <2>3. QED
    BY <1>2, <2>2, DinnerSame
<1>14. QED
  BY <1>8, <1>10, <1>11, <1>12, <1>13 DEF IInv

-----------------------------------------------------------------------------
(* The invariant speaks of the variables only.                             *)
LEMMA PhilStutter == ASSUME IInv, UNCHANGED vars PROVE IInv'
<1>1. UNCHANGED <<current, state, wait_state, run_list, time_slice, need_resched,
                  timer_list, sems, state_sema, iter, pc>>
  BY DEF vars, runqVars, philVars
<1>2. TypeOK' /\ Places' /\ Stands' /\ Queued' /\ Timers'
  BY <1>1 DEF IInv, TypeOK, RunqTypeOK, Places, Stands, Queued, Timers
<1>3. Queues' /\ Announced' /\ Table' /\ Meals'
  BY <1>1 DEF IInv, Queues, Announced, Table, Meals, AtMutex, AtOwn
<1>4. QED
  BY <1>2, <1>3 DEF IInv

(* A step of a philosopher.                                                *)
LEMMA DineInv == ASSUME IInv, Dine PROVE IInv'
<1>1. CASE current \in Phil /\ iter[current] < TIMES /\ do_sleep("think", "think_sched")
  BY <1>1, SleepInv
<1>2. CASE sleep_woken("think_woken", "take")
  BY <1>2, SleepWokenInv
<1>3. CASE down(mutex, "take", "take_sched", "hungry")
  BY <1>3, DownMutexInv DEF DownAllowed
<1>4. CASE phi_take_forks_sema
  BY <1>4, ForksTakenInv
<1>5. CASE down(current, "fork", "fork_sched", "eat")
  BY <1>5, DownOwnInv
<1>6. CASE do_sleep("eat", "eat_sched")
  BY <1>6, SleepInv
<1>7. CASE sleep_woken("eat_woken", "put")
  BY <1>7, SleepWokenInv
<1>8. CASE down(mutex, "put", "put_sched", "full")
  BY <1>8, DownMutexInv DEF DownAllowed
<1>9. CASE phi_put_forks_sema
  BY <1>9, ForksPutInv
<1>10. QED
  BY <1>1, <1>2, <1>3, <1>4, <1>5, <1>6, <1>7, <1>8, <1>9 DEF Dine

(* Every step keeps the invariant.                                         *)
LEMMA PhilNext == IInv /\ [Next]_vars => IInv'
<1> SUFFICES ASSUME IInv, [Next]_vars PROVE IInv'
  OBVIOUS
<1>1. CASE proc_init \/ \E i \in Phil : check_sync(i)
  BY <1>1, ForksInv
<1>2. CASE init_sleep \/ init_end \/ \E c \in Phil : init_reap(c)
  BY <1>2, InitStepsInv
<1>3. CASE Dine
  BY <1>3, DineInv
<1>4. CASE Quit
  BY <1>4, QuitInv
<1>5. CASE do_exit_links
  BY <1>5, ExitLinksInv
<1>6. CASE call_schedule
  BY <1>6, ScheduleInv
<1>7. CASE run_timer_list
  BY <1>7, TickInv
<1>8. CASE halted \/ UNCHANGED vars
  BY <1>8, PhilStutter DEF halted
<1>9. QED
  BY <1>1, <1>2, <1>3, <1>4, <1>5, <1>6, <1>7, <1>8 DEF Next, KernelStep

(* So it always holds.                                                     *)
LEMMA PhilAlways == Spec => []IInv
BY PhilInit, PhilNext, PTL DEF Spec

(***************************************************************************)
(* Nobody eats beside an eater, by the shared array and by where the       *)
(* threads are.                                                            *)
(***************************************************************************)
THEOREM PhilosophersForksExclusive == Spec => []ForksExclusive
<1>1. IInv => ForksExclusive
  <2> SUFFICES ASSUME IInv PROVE ForksExclusive
    OBVIOUS
  <2>1. ASSUME NEW i \in Phil, HasForks(i)
        PROVE  state_sema[i] = "EATING"
    <3>1. pc[i] \in EatLabel /\ ~InList(i, sems[i].queue)
      BY <2>1 DEF HasForks, EatLabel
    <3>2. InList(i, <<i>>)
      BY SingletonList
    <3>3. ~AtOwn(i)
      BY <3>1, <3>2 DEF IInv, Queues
    <3>4. QED
      BY <3>1, <3>3 DEF IInv, Announced
  <2>2. QED
    BY <2>1 DEF IInv, Table, ForksExclusive
<1>2. QED
  BY <1>1, PhilAlways, PTL

(***************************************************************************)
(* Whoever sleeps hungry has a neighbour that eats, and is where the up of *)
(* that neighbour looks for him: alone in the queue of his semaphore, and  *)
(* in no other.                                                            *)
(***************************************************************************)
THEOREM PhilosophersHungryForAReason == Spec => []HungryForAReason
<1>1. IInv => HungryForAReason
  <2> SUFFICES ASSUME IInv PROVE HungryForAReason
    OBVIOUS
  <2>1. \A i \in Phil : /\ AtOwn(i) => pc[i] \in {"fork_sched"} \cup EatLabel
                        /\ AtOwn(i) => pc[i] # "fork" /\ state_sema[i] = "HUNGRY"
    BY DEF AtOwn, OwnLabel, EatLabel, IInv, Announced
  <2>2. PrivatePermit
    <3>1. ASSUME NEW i \in Phil, sems[i].value = 1
          PROVE  state_sema[i] = "EATING" /\ ~HasForks(i)
      <4>1. pc[i] = "fork" /\ state_sema[i] = "EATING"
        BY <3>1 DEF IInv, Announced
      <4>2. QED
        BY <4>1 DEF HasForks
    <3>2. QED
      BY <3>1 DEF IInv, Announced, Queues, PrivatePermit
  <2>3. QueuedForKsem
    <3>1. DOMAIN sems = Phil \cup {mutex}
      BY DEF IInv, TypeOK
    <3>2. \A i \in Phil : \A p : InList(p, sems[i].queue) <=> AtOwn(i) /\ p = i
      <4>1. ASSUME NEW i \in Phil, NEW p
            PROVE  InList(p, sems[i].queue) <=> AtOwn(i) /\ p = i
        <5>1. InList(p, <<i>>) <=> p = i
          BY SingletonList
        <5>2. ~InList(p, <<>>)
          BY EmptyList
        <5>3. sems[i].queue = IF AtOwn(i) THEN <<i>> ELSE <<>>
          BY DEF IInv, Queues
        <5>4. QED
          BY <5>1, <5>2, <5>3
      <4>2. QED
        BY <4>1
    <3>3. \A p : InList(p, sems[mutex].queue) <=> p \in Phil /\ AtMutex(p)
      <4>1. sems[mutex].queue \in Seq(Phil)
        BY DEF IInv, TypeOK
      <4>2. \A p : InList(p, sems[mutex].queue) => p \in Phil
        BY <4>1, ElementOfSeq DEF InList
      <4>3. QED
        BY <4>2 DEF IInv, Queues
    <3>4. ASSUME NEW p \in Proc
          PROVE  wait_state[p] = "WT_KSEM"
                   <=> Cardinality({x \in DOMAIN sems : InList(p, sems[x].queue)}) = 1
      <4> DEFINE at == {x \in DOMAIN sems : InList(p, sems[x].queue)}
      <4>1. CASE wait_state[p] # "WT_KSEM"
        <5>1. ~AtMutex(p) /\ ~AtOwn(p)
          BY <4>1 DEF AtMutex, AtOwn
        <5>2. at = {}
          BY <3>1, <3>2, <3>3, <5>1
        <5>3. QED
          BY <4>1, <5>2, FS_EmptySet
      <4>2. CASE wait_state[p] = "WT_KSEM"
        <5>1. p \in Phil /\ pc[p] \in MutexLabel \cup OwnLabel
          BY <4>2, Names DEF IInv, Stands, Places, InitLabel, IdleLabel, MutexLabel, OwnLabel
        <5>2. AtMutex(p) \/ AtOwn(p)
          BY <4>2, <5>1 DEF AtMutex, AtOwn
        <5>3. ~(AtMutex(p) /\ AtOwn(p))
          BY DEF AtMutex, AtOwn, MutexLabel, OwnLabel
        <5>4. p # mutex
          BY <5>1, Names
        <5>5. at = {p} \/ at = {mutex}
          BY <3>1, <3>2, <3>3, <5>1, <5>2, <5>3, <5>4
        <5>6. Cardinality({p}) = 1 /\ Cardinality({mutex}) = 1
          BY FS_Singleton
        <5>7. QED
          BY <4>2, <5>5, <5>6
      <4>3. QED
        BY <4>1, <4>2
    <3>5. QED
      BY <3>4 DEF QueuedForKsem
  <2>4. ASSUME NEW i \in Phil, sems[i].queue # <<>>
        PROVE  /\ state_sema[i] = "HUNGRY"
               /\ "EATING" \in {state_sema[Left(i)], state_sema[Right(i)]}
    <3>1. AtOwn(i)
      BY <2>4 DEF IInv, Queues
    <3>2. state_sema[i] = "HUNGRY"
      BY <2>1, <3>1
    <3>3. QED
      BY <3>2 DEF IInv, Table
  <2>5. QED
    BY <2>2, <2>3, <2>4 DEF HungryForAReason
<1>2. QED
  BY <1>1, PhilAlways, PTL

=============================================================================

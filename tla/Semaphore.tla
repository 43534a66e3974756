------------------------------ MODULE Semaphore ------------------------------
(***************************************************************************)
(* struct semaphore of kern/sync/sem.c with its wait queue                 *)
(* (kern/sync/wait.c), as operators on a record [value, queue].  The queue *)
(* holds the wait_t of each sleeping thread, named by the thread.          *)
(***************************************************************************)
EXTENDS Integers, Lists

sem_init(value) == [value |-> value, queue |-> <<>>]

-----------------------------------------------------------------------------
(* Deviant forms of the definitions below.                                 *)
UpCountsToo(sem) ==
  [value |-> sem.value + 1, queue |-> IF sem.queue = <<>> THEN <<>> ELSE Tail(sem.queue)]

WaitAtHead(sem, t) == [sem EXCEPT !.queue = <<t>> \o @]

-----------------------------------------------------------------------------
(* __down, the part with interrupts off: take a permit, or queue up.       *)
CanTake(sem) == sem.value > 0

Take(sem) == [sem EXCEPT !.value = @ - 1]

(* wait_current_set: the wait_t goes to the end of the wait queue.         *)
wait_queue_add(sem, t) == [sem EXCEPT !.queue = Append(@, t)]

(***************************************************************************)
(* __up: the permit goes straight to the first waiter, and is counted only *)
(* when nobody waits.                                                      *)
(***************************************************************************)
FirstWaiter(sem) == IF sem.queue = <<>> THEN {} ELSE {Head(sem.queue)}

AfterUp(sem) ==
  IF sem.queue = <<>>
  THEN [sem EXCEPT !.value = @ + 1]
  ELSE [sem EXCEPT !.queue = Tail(@)]

=============================================================================

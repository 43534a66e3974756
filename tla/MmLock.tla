------------------------------- MODULE MmLock -------------------------------
(***************************************************************************)
(* lock_mm and unlock_mm of kern/mm/vmm.h: the semaphore mm_sem, made with *)
(* value 1, used as a lock.  The same discipline guards the file table     *)
(* (files_sem), the file system (fs_sem, mutex_sem), each SFS inode (sem)  *)
(* and the device list (vdev_list_sem).                                    *)
(***************************************************************************)
EXTENDS Sem

NoPid == "0"

ASSUME MmLockAssumption == InitValue = 1 /\ NoPid \notin Thread

VARIABLES
  held,        \* the threads that have the lock: down returned, up not yet called
  writing,     \* the threads between their call of down or up and their write to locked_by
  locked_by    \* mm->locked_by, the pid of the owner

lockVars == <<vars, held, writing, locked_by>>

LockTypeOK ==
  /\ TypeOK
  /\ held \subseteq Thread
  /\ writing \subseteq Thread
  /\ locked_by \in Thread \cup {NoPid}

LockInit ==
  /\ Init
  /\ held = {}
  /\ writing = {}
  /\ locked_by = NoPid

(* A deviant form of the definition below.                                 *)
GivesUpCpu(t) == TRUE

(***************************************************************************)
(* Neither up nor a down that need not wait calls schedule(), nor does a   *)
(* trap that interrupts the kernel: whoever is about to write locked_by    *)
(* writes it before another thread takes a step.                           *)
(***************************************************************************)
KeepsCpu(t) == writing \subseteq {t}

(* lock_mm and unlock_mm are called with no earlier call under way.        *)
Calls(t) == t \notin writing /\ KeepsCpu(t)

(* t has the lock, and locked_by is yet to be written.                     *)
Enters(t) ==
  /\ held' = held \cup {t}
  /\ writing' = writing \cup {t}
  /\ UNCHANGED locked_by

LockTakes(t) ==
  /\ Calls(t)
  /\ t \notin held
  /\ DownTakes(t)
  /\ Enters(t)

LockSleeps(t) ==
  /\ Calls(t)
  /\ t \notin held
  /\ DownSleeps(t)
  /\ UNCHANGED <<held, writing, locked_by>>

LockReturns(t) ==
  /\ Calls(t)
  /\ DownReturns(t)
  /\ Enters(t)

(* The end of lock_mm.                                                     *)
RecordsOwner(t) ==
  /\ KeepsCpu(t)
  /\ t \in writing \cap held
  /\ locked_by' = t
  /\ writing' = writing \ {t}
  /\ UNCHANGED <<vars, held>>

(***************************************************************************)
(* unlock_mm, called by the thread that locked: up comes first and may     *)
(* hand the lock to a waiter.                                              *)
(***************************************************************************)
unlock_mm(t) ==
  /\ Calls(t)
  /\ t \in held
  /\ Up(t)
  /\ held' = held \ {t}
  /\ writing' = writing \cup {t}
  /\ UNCHANGED locked_by

(* The end of unlock_mm.                                                   *)
ClearsOwner(t) ==
  /\ KeepsCpu(t)
  /\ t \in writing \ held
  /\ locked_by' = NoPid
  /\ writing' = writing \ {t}
  /\ UNCHANGED <<vars, held>>

LockNext ==
  \E t \in Thread :
    \/ LockTakes(t) \/ LockSleeps(t) \/ LockReturns(t) \/ RecordsOwner(t)
    \/ unlock_mm(t) \/ ClearsOwner(t)

(***************************************************************************)
(* A woken thread is RUNNABLE and the scheduler starves nobody; sections   *)
(* under the lock are finite.                                              *)
(***************************************************************************)
LockFairness ==
  \A t \in Thread :
    /\ WF_lockVars(LockReturns(t)) /\ WF_lockVars(RecordsOwner(t))
    /\ WF_lockVars(unlock_mm(t)) /\ WF_lockVars(ClearsOwner(t))

LockSpec == LockInit /\ [][LockNext]_lockVars /\ LockFairness

-----------------------------------------------------------------------------
(* At most one thread is inside, even while the lock is being handed over. *)
Exclusion ==
  /\ \A t, u \in held : t = u
  /\ held # {} => Granted = {} /\ sem.value = 0

(***************************************************************************)
(* To every thread but one that is about to write it, locked_by names the  *)
(* thread that has the lock.  A thread that unlocks clears it when the     *)
(* lock may have been handed over already, and must not wipe out what the  *)
(* new owner records.                                                      *)
(***************************************************************************)
OwnerIsHolder == \A t \in Thread \ writing : locked_by = t <=> t \in held

(***************************************************************************)
(* Both, through every hand-over: between up and the write after it, and   *)
(* between down's return and the write after that.                         *)
(***************************************************************************)
LockExact == Exclusion /\ OwnerIsHolder

(* Every thread that sleeps for the lock gets it.                          *)
NoLockout == \A t \in Thread : pc[t] = "asleep" ~> t \in held

=============================================================================

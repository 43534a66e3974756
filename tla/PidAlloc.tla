------------------------------- MODULE PidAlloc -------------------------------
(***************************************************************************)
(* get_pid of kern/process/proc.c.  It keeps, from call to call, an        *)
(* interval above last_pid in which no live process has its pid, and scans *)
(* the process list only when that interval is used up.  In between,       *)
(* processes come and go.                                                  *)
(*                                                                         *)
(* A pass over proc_list visits its entries in any order here: the result  *)
(* must not depend on the order of the list.                               *)
(***************************************************************************)
EXTENDS Integers, FiniteSets

CONSTANTS
  MAX_PROCESS,   \* most processes, idle included
  MAX_PID        \* pids are below it

(* get_pid's static_assert.                                                *)
ASSUME PidAssumption ==
  /\ MAX_PROCESS \in Nat /\ MAX_PID \in Nat
  /\ MAX_PID > MAX_PROCESS /\ MAX_PROCESS > 1

VARIABLES
  pids,         \* the pids on proc_list; idle, with pid 0, is not on it
  nr_process,   \* the number of processes
  last_pid,     \* get_pid's static variables
  next_safe,
  rest,         \* the entries this pass has still to visit
  scanning      \* get_pid is in its loop

vars == <<pids, nr_process, last_pid, next_safe, rest, scanning>>

Pid == 1..(MAX_PID - 1)

TypeOK ==
  /\ pids \subseteq Pid
  /\ nr_process \in 1..MAX_PROCESS
  /\ last_pid \in 1..MAX_PID
  /\ next_safe \in 1..MAX_PID
  /\ rest \subseteq pids
  /\ scanning \in BOOLEAN

-----------------------------------------------------------------------------
(* Deviant forms of the definitions below.                                 *)
WrapsAlways(pid) == 1
SafeInclusive(pid) == pid > next_safe

-----------------------------------------------------------------------------
Init ==
  /\ pids = {}
  /\ nr_process = 1
  /\ last_pid = MAX_PID
  /\ next_safe = MAX_PID
  /\ rest = {}
  /\ scanning = FALSE

Wrapped(pid) == IF pid >= MAX_PID THEN 1 ELSE pid

(* The interval does not reach to pid.                                     *)
Unsafe(pid) == pid >= next_safe

(* get_pid returns pid, and do_fork puts the new process on the list.      *)
Return(pid) ==
  /\ pids' = pids \cup {pid}
  /\ nr_process' = nr_process + 1
  /\ scanning' = FALSE
  /\ rest' = {}

(* The label inside or repeat: scan the list for pid.                      *)
StartPass(pid) ==
  /\ last_pid' = pid
  /\ next_safe' = MAX_PID
  /\ rest' = pids
  /\ scanning' = TRUE
  /\ UNCHANGED <<pids, nr_process>>

(* do_fork calls get_pid; the next pid is known to be free.                *)
GetPidSafe ==
  /\ ~scanning
  /\ nr_process < MAX_PROCESS
  /\ last_pid + 1 < MAX_PID /\ ~Unsafe(last_pid + 1)
  /\ last_pid' = last_pid + 1
  /\ Return(last_pid + 1)
  /\ UNCHANGED next_safe

(* It may be taken.                                                        *)
GetPidScan ==
  /\ ~scanning
  /\ nr_process < MAX_PROCESS
  /\ last_pid + 1 >= MAX_PID \/ Unsafe(last_pid + 1)
  /\ StartPass(Wrapped(last_pid + 1))

(* The loop meets an entry with the pid it wants: it tries the next one,   *)
(* from the start of the list when that one may have been passed already.  *)
VisitTaken(q) ==
  /\ scanning /\ q \in rest
  /\ q = last_pid
  /\ IF Unsafe(last_pid + 1)
     THEN StartPass(Wrapped(last_pid + 1))
     ELSE /\ last_pid' = last_pid + 1
          /\ rest' = rest \ {q}
          /\ UNCHANGED <<pids, nr_process, next_safe, scanning>>

(* It meets another entry: the interval ends below it at the latest.       *)
SafeBelow(q) == IF q > last_pid /\ next_safe > q THEN q ELSE next_safe

VisitOther(q) ==
  /\ scanning /\ q \in rest
  /\ q # last_pid
  /\ next_safe' = SafeBelow(q)
  /\ rest' = rest \ {q}
  /\ UNCHANGED <<pids, nr_process, last_pid, scanning>>

GetPidDone ==
  /\ scanning /\ rest = {}
  /\ Return(last_pid)
  /\ UNCHANGED <<last_pid, next_safe>>

(* do_wait takes a process off the list; not while get_pid runs, for       *)
(* kernel code is not preempted.                                           *)
remove_links(q) ==
  /\ ~scanning
  /\ pids' = pids \ {q}
  /\ nr_process' = nr_process - 1
  /\ UNCHANGED <<last_pid, next_safe, rest, scanning>>

Scan == \E q \in rest : VisitTaken(q) \/ VisitOther(q)

Next ==
  \/ GetPidSafe \/ GetPidScan \/ Scan \/ GetPidDone
  \/ \E q \in pids : remove_links(q)

(* get_pid's loop runs on.                                                 *)
Spec == Init /\ [][Next]_vars /\ WF_vars(Scan \/ GetPidDone)

-----------------------------------------------------------------------------
(***************************************************************************)
(* The cached interval stays free of live pids through forks and exits,    *)
(* and a pass extends this, entry by entry, to the pid it is about to give.*)
(***************************************************************************)
Visited == pids \ rest

IntervalFree ==
  \A q \in Visited :
    /\ q > last_pid => q >= next_safe
    /\ scanning => q # last_pid

(***************************************************************************)
(* A new process gets a pid no live process has (find_proc and do_wait     *)
(* know processes by nothing else), and never 0 or MAX_PID.                *)
(***************************************************************************)
FreshPid ==
  [][nr_process' > nr_process => last_pid' \in Pid \ pids /\ pids' = pids \cup {last_pid'}]_vars

(* get_pid returns: while there are fewer processes than pids it finds one.*)
GetPidReturns == scanning ~> ~scanning

=============================================================================

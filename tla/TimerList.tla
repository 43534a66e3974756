------------------------------ MODULE TimerList ------------------------------
(***************************************************************************)
(* The timer list of kern/schedule/sched.c as operators on a sequence.     *)
(* An entry [proc, expires] holds only the ticks it has left after the     *)
(* entry before it has expired, so a tick touches the head alone.          *)
(***************************************************************************)
EXTENDS Integers, FiniteSets, Lists

(* Ticks until the first k entries of list have all expired.               *)
TicksUntil(list) ==
  LET sum[k \in 0..Len(list)] == IF k = 0 THEN 0 ELSE sum[k-1] + list[k].expires
  IN  sum

TimerIndex(list, p) == {i \in 1..Len(list) : list[i].proc = p}

HasTimer(list, p) == TimerIndex(list, p) # {}

-----------------------------------------------------------------------------
(* Deviant forms of the definitions below.                                 *)
DropEntry(list, i) == SubSeq(list, 1, i-1) \o SubSeq(list, i+1, Len(list))

-----------------------------------------------------------------------------
(***************************************************************************)
(* add_timer walks past every entry that expires no later than the new one.*)
(***************************************************************************)
Passed(list, ticks) ==
  Cardinality({k \in 1..Len(list) : TicksUntil(list)[k] <= ticks})

(* It then takes its own share off the entry it is put in front of.        *)
add_timer(list, p, ticks) ==
  LET k    == Passed(list, ticks)
      rest == ticks - TicksUntil(list)[k]
      new  == [proc |-> p, expires |-> rest]
      next == IF k = Len(list) THEN list ELSE [list EXCEPT ![k+1].expires = @ - rest]
  IN  SubSeq(list, 1, k) \o <<new>> \o SubSeq(next, k+1, Len(list))

(* Unlink entry i: its ticks go to the entry behind it.                    *)
RemoveEntry(list, i) ==
  LET next == IF i = Len(list) THEN list
              ELSE [list EXCEPT ![i+1].expires = @ + list[i].expires]
  IN  SubSeq(next, 1, i-1) \o SubSeq(next, i+1, Len(list))

(* del_timer does nothing when the timer is no longer linked.              *)
del_timer(list, p) ==
  IF HasTimer(list, p)
  THEN RemoveEntry(list, CHOOSE i \in TimerIndex(list, p) : TRUE)
  ELSE list

(***************************************************************************)
(* run_timer_list: the head loses a tick, then every leading entry that    *)
(* has none left is unlinked and its process woken, in list order.         *)
(***************************************************************************)
HeadTicked(list) == IF list = <<>> THEN list ELSE [list EXCEPT ![1].expires = @ - 1]

(* How many leading entries have nothing left.                             *)
ExpiredCount(list) ==
  Cardinality({k \in 1..Len(list) : \A i \in 1..k : list[i].expires = 0})

ExpiredProcs(list) ==
  LET now == HeadTicked(list)
  IN  [i \in 1..ExpiredCount(now) |-> now[i].proc]

(* The order in which it comes to them.                                    *)
ExpiresBefore(list, p, q) ==
  \E i \in TimerIndex(list, p), j \in TimerIndex(list, q) : i < j

(* The processes of joining are woken, and so queued, in that order.       *)
InExpiryOrder(list, joining) ==
  \A i, j \in 1..Len(joining) : i < j => ExpiresBefore(list, joining[i], joining[j])

AfterTick(list) ==
  LET now == HeadTicked(list)
  IN  SubSeq(now, ExpiredCount(now) + 1, Len(now))

=============================================================================

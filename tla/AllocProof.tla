----------------------------- MODULE AllocProof -----------------------------
(***************************************************************************)
(* Three allocators.  get_pid gives every process a pid of its own, for    *)
(* any MAX_PROCESS and MAX_PID.  The page allocator knows just the pages   *)
(* that are free and finds every run of them that is long enough, for any  *)
(* amount of memory and any order of allocating and freeing.  The kernel   *)
(* heap loses and shares no unit of its pages, for any sizes of objects,   *)
(* and what kmalloc and alloc_pages hand out never overlaps.               *)
(***************************************************************************)
EXTENDS PidAlloc, Heap, ListLemmas

-----------------------------------------------------------------------------
(***************************************************************************)
(* Pids.  The inductive invariant adds to IntervalFree that during a scan  *)
(* the wanted pid lies below the interval's end and there is room for one  *)
(* more process, and that nr_process counts the pids in use.               *)
(***************************************************************************)
WantedIsBelow == scanning => last_pid < next_safe

PassEnded == ~scanning => rest = {}

RoomForOne == scanning => nr_process < MAX_PROCESS

Counted == nr_process = Cardinality(pids) + 1

IInv == TypeOK /\ IntervalFree /\ WantedIsBelow /\ PassEnded /\ RoomForOne /\ Counted

(* Sets of pids are finite.                                                *)
LEMMA PidsFinite ==
  ASSUME NEW S, S \subseteq Pid
  PROVE  IsFiniteSet(S)
<1>1. 1 \in Int /\ MAX_PID - 1 \in Int
  BY PidAssumption
<1>2. IsFiniteSet(Pid)
  BY <1>1, FS_Interval DEF Pid
<1> QED
  BY <1>2, FS_Subset

(* A new pid adds one to their number, and a freed one takes one away.     *)
LEMMA CountSteps ==
  ASSUME NEW S, S \subseteq Pid, NEW q
  PROVE  /\ Cardinality(S) \in Nat
         /\ q \notin S => Cardinality(S \cup {q}) = Cardinality(S) + 1
         /\ q \in S => Cardinality(S \ {q}) = Cardinality(S) - 1 /\ Cardinality(S) > 0
<1>1. IsFiniteSet(S)
  BY PidsFinite
<1>2. Cardinality(S) \in Nat
  BY <1>1, FS_CardinalityType
<1>3. q \notin S => Cardinality(S \cup {q}) = Cardinality(S) + 1
  BY <1>1, FS_AddElement
<1>4. ASSUME q \in S
      PROVE  Cardinality(S \ {q}) = Cardinality(S) - 1 /\ Cardinality(S) > 0
  <2>1. Cardinality(S \ {q}) = Cardinality(S) - 1
    BY <1>1, <1>4, FS_RemoveElement
  <2>2. S \ {q} \subseteq Pid
    OBVIOUS
  <2>3. Cardinality(S \ {q}) \in Nat
    BY <2>2, PidsFinite, FS_CardinalityType
  <2> QED
    BY <1>2, <2>1, <2>3
<1> QED
  BY <1>2, <1>3, <1>4

(* Nothing is scanned at the start.                                        *)
LEMMA InitHolds == Init => IInv
<1> SUFFICES ASSUME Init PROVE IInv
  OBVIOUS
<1>1. Cardinality({}) = 0
  BY FS_EmptySet
<1>2. TypeOK
  <2>1. scanning \in BOOLEAN
    BY Zenon DEF Init
  <2> QED
    BY <2>1, PidAssumption DEF Init, TypeOK
<1>3. IntervalFree
  BY DEF Init, IntervalFree, Visited
<1>4. WantedIsBelow /\ PassEnded /\ RoomForOne
  BY DEF Init, WantedIsBelow, PassEnded, RoomForOne
<1>5. Counted
  BY <1>1 DEF Init, Counted
<1> QED
  BY <1>2, <1>3, <1>4, <1>5 DEF IInv

(***************************************************************************)
(* A pass that starts for pid leaves the invariant true.                   *)
(***************************************************************************)
LEMMA PassStarts ==
  ASSUME IInv, NEW pid \in Pid, nr_process < MAX_PROCESS, StartPass(pid)
  PROVE  IInv'
<1>1. TypeOK'
  BY PidAssumption DEF IInv, TypeOK, StartPass, Pid
<1>2. Visited' = {}
  BY DEF StartPass, Visited
<1>3. IntervalFree'
  BY <1>2 DEF IntervalFree
<1>4. WantedIsBelow' /\ PassEnded' /\ RoomForOne'
  BY PidAssumption DEF StartPass, WantedIsBelow, PassEnded, RoomForOne, Pid
<1>5. Counted'
  BY DEF IInv, StartPass, Counted
<1> QED
  BY <1>1, <1>3, <1>4, <1>5 DEF IInv

(***************************************************************************)
(* So does the return of a pid that no process has.                        *)
(***************************************************************************)
LEMMA PidReturned ==
  ASSUME IInv, NEW pid \in Pid, pid \notin pids, nr_process < MAX_PROCESS,
         Return(pid), last_pid' = pid, next_safe' = next_safe,
         \A q \in pids : q > pid => q >= next_safe
  PROVE  IInv'
<1>1. Cardinality(pids \cup {pid}) = Cardinality(pids) + 1 /\ Cardinality(pids) \in Nat
  BY CountSteps DEF IInv, TypeOK
<1>2. Counted'
  BY <1>1, PidAssumption DEF IInv, TypeOK, Counted, Return
<1>3. TypeOK'
  <2>1. scanning' \in BOOLEAN
    BY Zenon DEF Return
  <2>2. nr_process' \in 1..MAX_PROCESS
    BY PidAssumption DEF IInv, TypeOK, Return
  <2>3. last_pid' \in 1..MAX_PID /\ next_safe' \in 1..MAX_PID
    BY PidAssumption DEF IInv, TypeOK, Pid
  <2> QED
    BY <2>1, <2>2, <2>3 DEF IInv, TypeOK, Return
<1>4. Visited' = pids \cup {pid}
  BY DEF Visited, Return
<1>5. IntervalFree'
  BY <1>4, PidAssumption DEF IntervalFree, Return, Pid
<1> QED
  BY <1>2, <1>3, <1>5 DEF IInv, WantedIsBelow, PassEnded, RoomForOne, Return

(* Wrapped brings the next candidate back into range.                      *)
LEMMA WrappedInRange ==
  ASSUME TypeOK
  PROVE  Wrapped(last_pid + 1) \in Pid
BY PidAssumption DEF TypeOK, Wrapped, Pid

(* Every step keeps the invariant.                                         *)
LEMMA StepKeeps == IInv /\ [Next]_vars => IInv'
<1> SUFFICES ASSUME IInv, [Next]_vars PROVE IInv'
  OBVIOUS
<1>1. CASE GetPidSafe
  <2>1. last_pid + 1 \in Pid
    BY <1>1, PidAssumption DEF GetPidSafe, IInv, TypeOK, Pid
  <2>2. Visited = pids
    BY <1>1 DEF GetPidSafe, IInv, PassEnded, Visited
  <2>3. \A q \in pids : q # last_pid + 1 /\ (q > last_pid + 1 => q >= next_safe)
    BY <1>1, <2>2, PidAssumption DEF GetPidSafe, IInv, TypeOK, IntervalFree, Unsafe, Pid
  <2> QED
    BY <1>1, <2>1, <2>3, PidReturned DEF GetPidSafe
<1>2. CASE GetPidScan
  BY <1>2, PassStarts, WrappedInRange DEF GetPidScan, IInv
<1>3. ASSUME NEW q \in rest, VisitTaken(q) PROVE IInv'
  <2>1. CASE Unsafe(last_pid + 1)
    BY <1>3, <2>1, PassStarts, WrappedInRange DEF VisitTaken, IInv, RoomForOne
  <2>2. CASE ~Unsafe(last_pid + 1)
    <3> DEFINE next == last_pid + 1
    <3>0. /\ last_pid' = next /\ rest' = rest \ {q} /\ q = last_pid /\ q \in rest
          /\ UNCHANGED <<pids, nr_process, next_safe, scanning>>
      BY <1>3, <2>2 DEF VisitTaken
    <3>1. last_pid \in Int /\ next < next_safe /\ next \in 1..MAX_PID
      BY <2>2, PidAssumption DEF IInv, TypeOK, Unsafe
    <3>2. TypeOK'
      BY <3>0, <3>1 DEF IInv, TypeOK
    <3>3. IntervalFree'
      <4> SUFFICES ASSUME NEW x \in Visited'
                   PROVE  (x > next => x >= next_safe) /\ x # next
        BY <3>0 DEF IntervalFree
      <4>1. x \in Int /\ (x = last_pid \/ x \in Visited)
        BY <3>0 DEF Visited, IInv, TypeOK, Pid
      <4>2. x \in Visited => (x > last_pid => x >= next_safe)
        BY DEF IInv, IntervalFree
      <4> QED
        BY <3>1, <4>1, <4>2 DEF IInv, TypeOK
    <3>4. WantedIsBelow'
      BY <3>0, <3>1 DEF WantedIsBelow
    <3>5. (PassEnded /\ RoomForOne /\ Counted)'
      BY <1>3, <3>0 DEF VisitTaken, IInv, PassEnded, RoomForOne, Counted
    <3> QED
      BY <3>2, <3>3, <3>4, <3>5 DEF IInv
  <2> QED
    BY <2>1, <2>2
<1>4. ASSUME NEW q \in rest, VisitOther(q) PROVE IInv'
  <2>1. q \in Pid /\ SafeBelow(q) \in 1..MAX_PID /\ SafeBelow(q) <= next_safe
    BY <1>4, PidAssumption DEF IInv, TypeOK, SafeBelow, Pid
  <2>2. TypeOK'
    BY <1>4, <2>1, PidAssumption DEF VisitOther, IInv, TypeOK
  <2>3. Visited' = Visited \cup {q}
    BY <1>4 DEF VisitOther, IInv, TypeOK, Visited
  <2>4. IntervalFree'
    BY <1>4, <2>1, <2>3, PidAssumption
       DEF VisitOther, IInv, TypeOK, IntervalFree, SafeBelow, Pid, Visited
  <2>5. WantedIsBelow'
    BY <1>4, <2>1, PidAssumption DEF VisitOther, IInv, TypeOK, WantedIsBelow, SafeBelow, Pid
  <2> QED
    BY <1>4, <2>2, <2>4, <2>5 DEF VisitOther, IInv, PassEnded, RoomForOne, Counted
<1>5. CASE GetPidDone
  <2>1. last_pid \in Pid /\ last_pid \notin pids
    BY <1>5, PidAssumption
       DEF GetPidDone, IInv, TypeOK, IntervalFree, Visited, WantedIsBelow, Pid
  <2>2. \A q \in pids : q > last_pid => q >= next_safe
    BY <1>5 DEF GetPidDone, IInv, IntervalFree, Visited
  <2> QED
    BY <1>5, <2>1, <2>2, PidReturned DEF GetPidDone, IInv, RoomForOne
<1>6. ASSUME NEW q \in pids, remove_links(q) PROVE IInv'
  <2>1. Cardinality(pids \ {q}) = Cardinality(pids) - 1 /\ Cardinality(pids) > 0
        /\ Cardinality(pids) \in Nat
    BY <1>6, CountSteps DEF IInv, TypeOK
  <2>2. Counted'
    BY <1>6, <2>1 DEF remove_links, IInv, Counted
  <2>3. rest = {} /\ Visited' \subseteq Visited
    BY <1>6 DEF remove_links, IInv, PassEnded, Visited
  <2>4. TypeOK'
    BY <1>6, <2>1, <2>3, PidAssumption DEF remove_links, IInv, TypeOK, Counted
  <2> QED
    BY <1>6, <2>2, <2>3, <2>4
       DEF remove_links, IInv, IntervalFree, WantedIsBelow, PassEnded, RoomForOne
<1>7. CASE UNCHANGED vars
  BY <1>7 DEF vars, IInv, TypeOK, IntervalFree, WantedIsBelow, PassEnded, RoomForOne, Counted, Visited
<1> QED
  BY <1>1, <1>2, <1>3, <1>4, <1>5, <1>6, <1>7 DEF Next, Scan

(***************************************************************************)
(* The invariant follows for every behaviour of get_pid and its callers.   *)
(***************************************************************************)
THEOREM PidInvariant == Spec => []IInv
<1> QED
  BY InitHolds, StepKeeps, PTL DEF Spec

(* The variables of get_pid keep within their ranges.                      *)
THEOREM PidType == Spec => []TypeOK
<1>1. IInv => TypeOK
  BY DEF IInv
<1> QED
  BY <1>1, PidInvariant, PTL

(***************************************************************************)
(* No live process has a pid inside the interval get_pid remembers,        *)
(* however many processes were made and ended since it was computed.       *)
(***************************************************************************)
THEOREM PidIntervalFree == Spec => []IntervalFree
<1>1. IInv => IntervalFree
  BY DEF IInv
<1> QED
  BY <1>1, PidInvariant, PTL

(***************************************************************************)
(* A step that makes a process gives it a pid that is free and in range.   *)
(***************************************************************************)
LEMMA StepIsFresh ==
  IInv /\ [Next]_vars =>
    (nr_process' > nr_process => last_pid' \in Pid \ pids /\ pids' = pids \cup {last_pid'})
<1> SUFFICES ASSUME IInv, [Next]_vars, nr_process' > nr_process
             PROVE  last_pid' \in Pid \ pids /\ pids' = pids \cup {last_pid'}
  OBVIOUS
<1>0. nr_process \in Int
  BY PidAssumption DEF IInv, TypeOK
<1>1. CASE GetPidSafe
  <2>1. last_pid + 1 \in Pid
    BY <1>1, PidAssumption DEF GetPidSafe, IInv, TypeOK, Pid
  <2>2. Visited = pids
    BY <1>1 DEF GetPidSafe, IInv, PassEnded, Visited
  <2>3. last_pid + 1 \notin pids
    BY <1>1, <2>2, PidAssumption DEF GetPidSafe, IInv, TypeOK, IntervalFree, Unsafe, Pid
  <2> QED
    BY <1>1, <2>1, <2>3 DEF GetPidSafe, Return
<1>2. CASE GetPidDone
  <2>1. last_pid \in Pid /\ last_pid \notin pids
    BY <1>2, PidAssumption
       DEF GetPidDone, IInv, TypeOK, IntervalFree, Visited, WantedIsBelow, Pid
  <2> QED
    BY <1>2, <2>1 DEF GetPidDone, Return
<1>3. ~GetPidScan /\ ~UNCHANGED vars
  BY <1>0 DEF GetPidScan, StartPass, vars
<1>4. ~Scan
  BY <1>0 DEF Scan, VisitTaken, VisitOther, StartPass
<1>5. \A q \in pids : ~remove_links(q)
  BY <1>0 DEF remove_links
<1> QED
  BY <1>1, <1>2, <1>3, <1>4, <1>5 DEF Next

(* Pids are unique: get_pid gives each new process one that is free.       *)
THEOREM PidFresh == Spec => FreshPid
<1> QED
  BY PidInvariant, StepIsFresh, PTL DEF Spec, FreshPid

-----------------------------------------------------------------------------
(***************************************************************************)
(* The free blocks as a set L of first pages with their sizes.             *)
(***************************************************************************)

(* Two blocks that neither overlap nor touch.                              *)
Apart(size, b, c) == b + size[b] < c \/ c + size[c] < b

(* The blocks L make up the pages F, and no two of them touch.             *)
Cover(L, size, F) ==
  /\ \A b \in L : size[b] >= 1 /\ Run(b, size[b]) \subseteq F
  /\ \A x \in F : \E b \in L : x \in Run(b, size[b])
  /\ \A b, c \in L : b # c => Apart(size, b, c)

(* Taking n pages from the front of block p: the blocks and sizes that stay.*)
BlocksLeft(L, size, p, n) == (L \ {p}) \cup (IF size[p] > n THEN {p + n} ELSE {})

(* The block that stays gets the pages that were not taken.                *)
SizesLeft(size, p, n) == IF size[p] > n THEN [size EXCEPT ![p + n] = size[p] - n] ELSE size

(* What is left after a run was taken from the front of a block covers the *)
(* rest.                                                                   *)
LEMMA CoverTake ==
  ASSUME NEW L \in SUBSET Page, NEW size \in [Page -> 0..NPAGE], NEW F \in SUBSET Page,
         Cover(L, size, F), NEW p \in L, NEW n \in 1..NPAGE, n <= size[p]
  PROVE  /\ Run(p, n) \subseteq F
         /\ BlocksLeft(L, size, p, n) \in SUBSET Page
         /\ SizesLeft(size, p, n) \in [Page -> 0..NPAGE]
         /\ Cover(BlocksLeft(L, size, p, n), SizesLeft(size, p, n), F \ Run(p, n))
<1> DEFINE M == BlocksLeft(L, size, p, n)
           size2 == SizesLeft(size, p, n)
<1> USE DEF BlocksLeft, SizesLeft
<1>0. NPAGE \in Nat \ {0} /\ \A q \in Page : q \in Int /\ 0 <= q /\ q < NPAGE
  BY PageAssumption DEF Page
<1>1. /\ p \in Int /\ n \in Nat /\ size[p] \in Nat /\ n >= 1
      /\ \A b \in L : b \in Int /\ size[b] \in Nat /\ size[b] >= 1
      /\ \A x \in F : x \in Int
  BY <1>0 DEF Cover
<1>2. Run(p, size[p]) \subseteq F
  BY DEF Cover
<1>3. Run(p, n) \subseteq Run(p, size[p])
  BY <1>1 DEF Run
<1>4. CASE size[p] > n
  <2>1. p + n \in Page
    <3>1. p + n \in Run(p, size[p])
      BY <1>1, <1>4 DEF Run
    <3>2. QED
      BY <1>2, <3>1
  <2>2. /\ size2 \in [Page -> 0..NPAGE] /\ size2[p + n] = size[p] - n
        /\ \A q \in Page : q # p + n => size2[q] = size[q]
    <3>1. size[p] - n \in 0..NPAGE
      BY <1>0, <1>1, <1>4
    <3>2. QED
      BY <1>4, <2>1, <3>1
  <2>3. M = (L \ {p}) \cup {p + n} /\ M \in SUBSET Page
    BY <1>4, <2>1
  <2>4. p + n \notin L
    <3>1. ASSUME p + n \in L PROVE FALSE
      <4>1. p # p + n
        BY <1>1
      <4>2. Apart(size, p, p + n)
        BY <3>1, <4>1 DEF Cover
      <4>3. size[p + n] \in Nat
        BY <1>1, <3>1
      <4>4. QED
        BY <1>1, <1>4, <4>2, <4>3 DEF Apart
    <3>2. QED
      BY <3>1
  <2>5. \A b \in L \ {p} : size2[b] = size[b] /\ b \in M
    BY <2>2, <2>3, <2>4
  <2>6. \A x \in Int : x \in Run(p, size[p]) <=> x \in Run(p, n) \/ x \in Run(p + n, size[p] - n)
    BY <1>1, <1>4 DEF Run
  <2>7. \A x \in Int : ~(x \in Run(p, n) /\ x \in Run(p + n, size[p] - n))
    BY <1>1, <1>4 DEF Run
  <2>8. ASSUME NEW b \in L \ {p}, NEW x \in Int, x \in Run(b, size[b])
        PROVE  x \notin Run(p, size[p])
    <3>1. Apart(size, p, b)
      BY <2>8 DEF Cover
    <3>2. QED
      BY <1>1, <2>8, <3>1 DEF Apart, Run
  <2>9. ASSUME NEW b \in M
        PROVE  size2[b] >= 1 /\ Run(b, size2[b]) \subseteq F \ Run(p, n)
    <3>1. CASE b = p + n
      <4>1. size2[b] >= 1
        BY <1>1, <1>4, <2>2, <3>1
      <4>2. \A x \in Run(b, size2[b]) : x \in Int
        BY <1>1 DEF Run
      <4>3. QED
        BY <1>2, <2>2, <2>6, <2>7, <3>1, <4>1, <4>2
    <3>2. CASE b # p + n
      <4>1. b \in L \ {p} /\ size2[b] = size[b] /\ size[b] >= 1 /\ Run(b, size[b]) \subseteq F
        BY <2>3, <2>5, <3>2 DEF Cover
      <4>2. \A x \in Run(b, size[b]) : x \in Int
        BY DEF Run
      <4>3. QED
        BY <1>3, <2>8, <4>1, <4>2
    <3>3. QED
      BY <3>1, <3>2
  <2>10. ASSUME NEW x \in F \ Run(p, n)
         PROVE  \E b \in M : x \in Run(b, size2[b])
    <3>1. PICK b \in L : x \in Run(b, size[b])
      BY DEF Cover
    <3>2. CASE b = p
      BY <1>1, <2>2, <2>3, <2>6, <3>1, <3>2
    <3>3. CASE b # p
      BY <2>5, <3>1, <3>3
    <3>4. QED
      BY <3>2, <3>3
  <2>11. ASSUME NEW b \in M, NEW c \in M, b # c
         PROVE  Apart(size2, b, c)
    <3>1. ASSUME NEW d \in L \ {p}
          PROVE  Apart(size2, d, p + n) /\ Apart(size2, p + n, d)
      <4>1. Apart(size, d, p) /\ size2[d] = size[d] /\ size[d] \in Nat /\ d \in Int
        BY <1>1, <2>5 DEF Cover
      <4>2. QED
        BY <1>1, <1>4, <2>2, <4>1 DEF Apart
    <3>2. CASE b = p + n \/ c = p + n
      BY <2>3, <2>11, <3>1, <3>2
    <3>3. CASE b # p + n /\ c # p + n
      <4>1. b \in L \ {p} /\ c \in L \ {p}
        BY <2>3, <3>3
      <4>2. Apart(size, b, c)
        BY <2>11, <4>1 DEF Cover
      <4>3. QED
        BY <2>5, <4>1, <4>2 DEF Apart
    <3>4. QED
      BY <3>2, <3>3
  <2>12. QED
    BY <1>2, <1>3, <2>2, <2>3, <2>9, <2>10, <2>11 DEF Cover
<1>5. CASE ~(size[p] > n)
  <2>1. n = size[p] /\ size2 = size /\ M = L \ {p}
    BY <1>1, <1>5
  <2>2. ASSUME NEW b \in L \ {p}, NEW x \in Int, x \in Run(b, size[b])
        PROVE  x \notin Run(p, n)
    <3>1. Apart(size, p, b)
      BY <2>2 DEF Cover
    <3>2. QED
      BY <1>1, <2>1, <2>2, <3>1 DEF Apart, Run
  <2>3. ASSUME NEW b \in M
        PROVE  size[b] >= 1 /\ Run(b, size[b]) \subseteq F \ Run(p, n)
    <3>1. b \in L \ {p} /\ size[b] >= 1 /\ Run(b, size[b]) \subseteq F
      BY <2>1 DEF Cover
    <3>2. \A x \in Run(b, size[b]) : x \in Int
      BY DEF Run
    <3>3. QED
      BY <2>2, <3>1, <3>2
  <2>4. ASSUME NEW x \in F \ Run(p, n)
        PROVE  \E b \in M : x \in Run(b, size[b])
    BY <2>1 DEF Cover
  <2>5. QED
    BY <1>2, <1>3, <2>1, <2>3, <2>4 DEF Cover
<1>6. QED
  BY <1>4, <1>5

(* A run of free pages lies in one block.                                  *)
LEMMA CoverRun ==
  ASSUME NEW L \in SUBSET Page, NEW size \in [Page -> 0..NPAGE], NEW F \in SUBSET Page,
         Cover(L, size, F), NEW base \in Page, NEW n \in 1..NPAGE, Run(base, n) \subseteq F
  PROVE  \E b \in L : size[b] >= n
<1>0. NPAGE \in Nat \ {0} /\ \A q \in Page : q \in Int /\ 0 <= q /\ q < NPAGE
  BY PageAssumption DEF Page
<1>1. base \in Int /\ n \in Nat /\ n >= 1 /\ \A b \in L : b \in Int /\ size[b] \in Nat
  BY <1>0
<1>2. base \in Run(base, n)
  BY <1>1 DEF Run
<1>3. PICK b \in L : base \in Run(b, size[b])
  BY <1>2 DEF Cover
<1> DEFINE e == b + size[b]
<1>4. b <= base /\ base < e /\ e \in Int
  BY <1>1, <1>3 DEF Run
<1>5. CASE e <= base + n - 1
  <2>1. e \in Run(base, n)
    BY <1>1, <1>4, <1>5 DEF Run
  <2>2. PICK c \in L : e \in Run(c, size[c])
    BY <2>1 DEF Cover
  <2>3. c # b /\ c <= e /\ e < c + size[c]
    BY <1>1, <2>2 DEF Run
  <2>4. Apart(size, b, c)
    BY <2>3 DEF Cover
  <2>5. QED
    BY <1>1, <1>4, <2>3, <2>4 DEF Apart
<1>6. CASE ~(e <= base + n - 1)
  <2>1. size[b] >= n
    BY <1>1, <1>4, <1>6
  <2>2. QED
    BY <2>1
<1>7. QED
  BY <1>5, <1>6

-----------------------------------------------------------------------------
(***************************************************************************)
(* The allocator with the free pages F: its list has no page twice, is in  *)
(* any order, and marks no page that is not on it.                         *)
(***************************************************************************)
Blocks(list) == {b \in Page : InList(b, list)}

FreeLists == {list \in Seq(Page) : NoRepeat(list)}

WellFormed(m, F) ==
  /\ F \subseteq Page
  /\ m.free_list \in FreeLists
  /\ m.property \in [Page -> 0..NPAGE]
  /\ m.head \subseteq Blocks(m.free_list)
  /\ m.nr_free = Cardinality(F)
  /\ Cover(Blocks(m.free_list), m.property, F)

(* list_del takes one block out of the list and leaves the others.         *)
LEMMA Unlinking ==
  ASSUME NEW list \in FreeLists, NEW p
  PROVE  /\ list_del(list, p) \in FreeLists
         /\ Blocks(list_del(list, p)) = Blocks(list) \ {p}
<1>1. CASE InList(p, list)
  <2> DEFINE i == PlaceOf(p, list)
  <2>1. i \in 1..Len(list) /\ list[i] = p
    BY <1>1 DEF InList, PlaceOf
  <2>2. list_del(list, p) = SubSeq(list, 1, i - 1) \o SubSeq(list, i + 1, Len(list))
    BY <1>1 DEF list_del, RemoveAt
  <2>3. list \in Seq(Page) /\ NoRepeat(list)
    BY DEF FreeLists
  <2> HIDE DEF i
  <2> DEFINE others == SubSeq(list, 1, i - 1) \o SubSeq(list, i + 1, Len(list))
  <2>4. /\ others \in Seq(Page) /\ NoRepeat(others)
        /\ \A q : InList(q, others) <=> InList(q, list) /\ q # list[i]
    BY <2>1, <2>3, CutList
  <2>5. others = list_del(list, p)
    BY <2>2
  <2> HIDE DEF others
  <2>6. QED
    BY <2>1, <2>4, <2>5 DEF FreeLists, Blocks
<1>2. CASE ~InList(p, list)
  BY <1>2 DEF list_del, Blocks
<1>3. QED
  BY <1>1, <1>2

(* A block put in front of the list.                                       *)
LEMMA Fronting ==
  ASSUME NEW list \in FreeLists, NEW p \in Page \ Blocks(list)
  PROVE  /\ <<p>> \o list \in FreeLists
         /\ Blocks(<<p>> \o list) = Blocks(list) \cup {p}
<1> DEFINE one == <<p>>
<1>1. list \in Seq(Page) /\ NoRepeat(list) /\ ~InList(p, list)
  BY DEF FreeLists, Blocks
<1>2. one \in Seq(Page) /\ NoRepeat(one) /\ \A q : InList(q, one) <=> q = p
  BY DEF NoRepeat, InList
<1> HIDE DEF one
<1>3. \A q : ~(InList(q, one) /\ InList(q, list))
  BY <1>1, <1>2
<1>4. /\ one \o list \in Seq(Page) /\ NoRepeat(one \o list)
      /\ \A q : InList(q, one \o list) <=> InList(q, one) \/ InList(q, list)
  BY <1>1, <1>2, <1>3, ConcatLists
<1>5. one \o list \in FreeLists /\ Blocks(one \o list) = Blocks(list) \cup {p}
  BY <1>2, <1>4 DEF FreeLists, Blocks
<1>6. QED
  BY <1>5 DEF one

(* A run of n pages has n pages.                                           *)
LEMMA RunSize ==
  ASSUME NEW p \in Page, NEW n \in Nat
  PROVE  IsFiniteSet(Run(p, n)) /\ Cardinality(Run(p, n)) = n
<1>1. p \in Int /\ p + n - 1 \in Int /\ (p + n - 1) - p + 1 = n
  BY PageAssumption DEF Page
<1> DEFINE q == p + n - 1
<1>2. IsFiniteSet(p..q) /\ Cardinality(p..q) = IF p > q THEN 0 ELSE q - p + 1
  BY <1>1, FS_Interval
<1>3. QED
  BY <1>1, <1>2 DEF Run

(* Sets of pages can be counted.                                           *)
LEMMA PagesFinite ==
  /\ IsFiniteSet(Page) /\ Cardinality(Page) = NPAGE
  /\ \A F \in SUBSET Page : IsFiniteSet(F) /\ Cardinality(F) \in 0..NPAGE
<1>1. NPAGE \in Nat \ {0} /\ 0 \in Int /\ NPAGE - 1 \in Int
  BY PageAssumption
<1> DEFINE q == NPAGE - 1
<1>2. IsFiniteSet(0..q) /\ Cardinality(0..q) = IF 0 > q THEN 0 ELSE q - 0 + 1
  BY <1>1, FS_Interval
<1>3. IsFiniteSet(Page) /\ Cardinality(Page) = NPAGE
  BY <1>1, <1>2 DEF Page
<1>4. ASSUME NEW F \in SUBSET Page
      PROVE  IsFiniteSet(F) /\ Cardinality(F) \in 0..NPAGE
  <2>1. IsFiniteSet(F) /\ Cardinality(F) \in Nat /\ Cardinality(F) <= NPAGE
    BY <1>3, FS_Subset, FS_CardinalityType
  <2>2. QED
    BY <1>1, <2>1
<1>5. QED
  BY <1>3, <1>4

(* first fit finds a block that is large enough.                           *)
LEMMA FirstFitFacts ==
  ASSUME NEW m, m.free_list \in FreeLists, NEW n, Available(m, n)
  PROVE  FirstFit(m, n) \in Blocks(m.free_list) /\ m.property[FirstFit(m, n)] >= n
<1> DEFINE len == Len(m.free_list)
           S   == Fits(m, n)
<1>1. len \in Nat /\ S \in SUBSET (1..len) /\ S # {}
  BY LenProperties DEF Fits, Available, FreeLists
<1>2. \E i \in S : \A j \in S : i <= j
  <2> HIDE DEF len, S
  <2>1. S \in SUBSET Int
    BY <1>1
  <2>2. IsFiniteSet(S)
    <3>1. IsFiniteSet(1..len)
      BY <1>1, FS_Interval
    <3>2. QED
      BY <1>1, <3>1, FS_Subset
  <2>3. QED
    BY <1>1, <2>1, <2>2, Extremes
<1> DEFINE i == CHOOSE i \in S : \A j \in S : i <= j
<1>3. i \in S
  BY <1>2
<1>4. FirstFit(m, n) = m.free_list[i]
  BY DEF FirstFit
<1> HIDE DEF i
<1>5. i \in 1..len /\ m.property[m.free_list[i]] >= n
  BY <1>3 DEF Fits
<1>6. m.free_list[i] \in Page
  BY <1>5, ElementOfSeq DEF FreeLists
<1>7. QED
  BY <1>4, <1>5, <1>6 DEF Blocks, InList

(* default_alloc_pages takes free pages and leaves a list that is right.   *)
LEMMA TakenWellFormed ==
  ASSUME NEW m, NEW F, WellFormed(m, F), NEW n \in 1..NPAGE, Available(m, n)
  PROVE  /\ Run(FirstFit(m, n), n) \subseteq F
         /\ WellFormed(PagesTaken(m, n), F \ Run(FirstFit(m, n), n))
<1> DEFINE p == FirstFit(m, n)
           L == Blocks(m.free_list)
           size == m.property
           taken == PagesTaken(m, n)
           R == Run(p, n)
<1>1. /\ p \in L /\ size[p] >= n /\ F \in SUBSET Page
      /\ m.free_list \in FreeLists /\ size \in [Page -> 0..NPAGE]
      /\ m.head \subseteq L /\ m.nr_free = Cardinality(F) /\ Cover(L, size, F) /\ L \in SUBSET Page
  BY FirstFitFacts DEF WellFormed, Blocks
<1> DEFINE more == size[p] > n
           M == (L \ {p}) \cup (IF more THEN {p + n} ELSE {})
           size2 == IF more THEN [size EXCEPT ![p + n] = size[p] - n] ELSE size
<1>2. /\ taken.free_list = (IF more THEN <<p + n>> ELSE <<>>) \o list_del(m.free_list, p)
      /\ taken.property = size2
      /\ taken.head = m.head \ {p}
      /\ taken.nr_free = m.nr_free - n
  BY DEF PagesTaken, ListAfterAlloc, HeadAfterAlloc
<1> HIDE DEF taken, p, L
<1>3. p \in Page /\ n <= size[p]
  <2>1. size[p] \in Int /\ n \in Int
    BY <1>1, PageAssumption
  <2>2. QED
    BY <1>1, <2>1
<1>4. /\ R \subseteq F
      /\ M \in SUBSET Page /\ size2 \in [Page -> 0..NPAGE]
      /\ Cover(M, size2, F \ R)
  <2> HIDE DEF size
  <2>1. /\ Run(p, n) \subseteq F
        /\ BlocksLeft(L, size, p, n) \in SUBSET Page
        /\ SizesLeft(size, p, n) \in [Page -> 0..NPAGE]
        /\ Cover(BlocksLeft(L, size, p, n), SizesLeft(size, p, n), F \ Run(p, n))
    BY <1>1, <1>3, CoverTake
  <2>2. QED
    BY <2>1 DEF BlocksLeft, SizesLeft
<1>5. list_del(m.free_list, p) \in FreeLists /\ Blocks(list_del(m.free_list, p)) = L \ {p}
  BY <1>1, Unlinking DEF L
<1>6. taken.free_list \in FreeLists /\ Blocks(taken.free_list) = M
  <2> DEFINE others == list_del(m.free_list, p)
  <2>1. CASE more
    <3>1. p + n \in Page
      BY <1>4, <2>1
    <3>2. p + n \notin L
      <4>1. p \in Int /\ n \in Int /\ n >= 1 /\ size[p] \in Nat /\ p + n # p
        BY <1>1, <1>3, PageAssumption DEF Page
      <4>2. ASSUME p + n \in L PROVE FALSE
        <5>1. Apart(size, p, p + n) /\ size[p + n] >= 1
          BY <1>1, <4>1, <4>2 DEF Cover
        <5>2. size[p + n] \in Int
          BY <1>1, <3>1
        <5>3. QED
          BY <2>1, <4>1, <5>1, <5>2 DEF Apart
      <4>3. QED
        BY <4>2
    <3> HIDE DEF others
    <3> DEFINE q == p + n
    <3>3. q \in Page \ Blocks(others)
      BY <1>5, <3>1, <3>2 DEF others
    <3> HIDE DEF q
    <3>4. <<q>> \o others \in FreeLists /\ Blocks(<<q>> \o others) = Blocks(others) \cup {q}
      BY <1>5, <3>3, Fronting DEF others
    <3>5. QED
      BY <1>2, <1>5, <2>1, <3>4 DEF others, q
  <2>2. CASE ~more
    <3>1. others \in Seq(Page)
      BY <1>5 DEF FreeLists
    <3>2. <<>> \o others = others
      BY <3>1, ConcatEmptySeq
    <3>3. QED
      BY <1>2, <1>5, <2>2, <3>2
  <2>3. QED
    BY <2>1, <2>2
<1>7. taken.nr_free = Cardinality(F \ R)
  <2>1. IsFiniteSet(F) /\ IsFiniteSet(R) /\ Cardinality(R) = n
    BY <1>1, <1>3, PagesFinite, RunSize
  <2>2. Cardinality(F \ R) = Cardinality(F) - Cardinality(F \cap R)
    BY <2>1, FS_Difference
  <2>3. F \cap R = R
    BY <1>4
  <2>4. QED
    BY <1>1, <1>2, <2>1, <2>2, <2>3
<1>8. taken.head \subseteq M
  BY <1>1, <1>2
<1> HIDE DEF M, size2, R
<1>9. WellFormed(taken, F \ R)
  BY <1>1, <1>2, <1>4, <1>6, <1>7, <1>8 DEF WellFormed
<1>10. QED
  BY <1>4, <1>9 DEF taken, R, p

-----------------------------------------------------------------------------
(***************************************************************************)
(* The walk of default_free_pages.  After the blocks in done it has a block*)
(* that grew out of the freed one, touches none of the blocks in done that *)
(* are still there, and with all that are still there makes up G.          *)
(***************************************************************************)
WalkState == [base : Page, property : [Page -> Int], head : SUBSET Page, free_list : FreeLists]

Walking(L0, size0, G, done, w) ==
  LET L == Blocks(w.free_list)
      b == w.base
      size == w.property
  IN  /\ w \in WalkState /\ size \in [Page -> 0..NPAGE]
      /\ L \subseteq L0 /\ L0 \ done \subseteq L /\ b \notin L
      /\ \A c \in L : size[c] = size0[c]
      /\ \A c \in L : b + size[b] <= c \/ c + size[c] <= b
      /\ \A c \in L \cap done : Apart(size, b, c)
      /\ size[b] >= 1 /\ Run(b, size[b]) \subseteq G
      /\ \A x \in G : x \in Run(b, size[b]) \/ \E c \in L : x \in Run(c, size[c])
      /\ w.head \subseteq L \cup {b}

(* One step of the walk keeps the types.                                   *)
LEMMA MergeState ==
  ASSUME NEW w \in WalkState, NEW p \in Page
  PROVE  Merge(w, p) \in WalkState
<1>1. /\ w.base \in Page /\ w.property \in [Page -> Int] /\ w.head \in SUBSET Page
      /\ w.free_list \in FreeLists
      /\ w = [base |-> w.base, property |-> w.property, head |-> w.head, free_list |-> w.free_list]
  BY DEF WalkState
<1>2. list_del(w.free_list, p) \in FreeLists
  BY <1>1, Unlinking
<1>3. w.property[w.base] + w.property[p] \in Int /\ w.property[p] + w.property[w.base] \in Int
  BY <1>1
<1>4. QED
  BY <1>1, <1>2, <1>3 DEF Merge, WalkState

(* The walk of default_free_pages passes a block p: if it touches the      *)
(* freed one they become one, and p leaves the list.                       *)
LEMMA MergeStep ==
  ASSUME NEW L0 \in SUBSET Page, NEW size0 \in [Page -> 0..NPAGE],
         NEW F, Cover(L0, size0, F), NEW G \in SUBSET Page, F \subseteq G,
         NEW done \in SUBSET L0, NEW w, Walking(L0, size0, G, done, w),
         NEW p \in L0 \ done
  PROVE  Walking(L0, size0, G, done \cup {p}, Merge(w, p))
<1> DEFINE L    == Blocks(w.free_list)
           b    == w.base
           size == w.property
           v    == Merge(w, p)
           M    == Blocks(v.free_list)
<1>0. /\ NPAGE \in Nat \ {0} /\ \A q \in Page : q \in Int /\ 0 <= q /\ q < NPAGE
  BY PageAssumption DEF Page
<1>1. /\ w \in WalkState /\ b \in Page /\ size \in [Page -> 0..NPAGE] /\ w.head \in SUBSET Page
      /\ w.free_list \in FreeLists
      /\ L \subseteq L0 /\ L0 \ done \subseteq L /\ b \notin L
      /\ \A c \in L : size[c] = size0[c]
      /\ \A c \in L : b + size[b] <= c \/ c + size[c] <= b
      /\ \A c \in L \cap done : Apart(size, b, c)
      /\ size[b] >= 1 /\ Run(b, size[b]) \subseteq G
      /\ \A x \in G : x \in Run(b, size[b]) \/ \E c \in L : x \in Run(c, size[c])
      /\ w.head \subseteq L \cup {b}
  BY DEF Walking, WalkState
<1>2. v \in WalkState
  BY <1>1, MergeState
<1>3. /\ p \in L /\ p \in Page /\ p # b
      /\ list_del(w.free_list, p) \in FreeLists
      /\ Blocks(list_del(w.free_list, p)) = L \ {p}
  BY <1>1, Unlinking
<1>4. \A c, d \in L : c # d => Apart(size, c, d)
  BY <1>1 DEF Cover, Apart
<1>5. size[p] >= 1 /\ Run(p, size[p]) \subseteq G
  BY <1>1, <1>3 DEF Cover
<1>6. /\ b \in Int /\ p \in Int /\ size[b] \in Nat /\ size[p] \in Nat
      /\ \A c \in L : c \in Int /\ size[c] \in Nat /\ c \in Page
      /\ \A x \in G : x \in Int
  BY <1>0, <1>1, <1>3 DEF Blocks
<1>7. w = [base |-> b, property |-> size, head |-> w.head, free_list |-> w.free_list]
  BY <1>1 DEF WalkState
<1>8. size[b] + size[p] \in 0..NPAGE
        \/ ~(b + size[b] = p \/ p + size[p] = b)
  <2>1. CASE b + size[b] = p
    <3>1. p + size[p] - 1 \in Run(p, size[p])
      BY <1>5, <1>6 DEF Run
    <3>2. p + size[p] - 1 \in Page /\ 0 <= b
      BY <1>0, <1>1, <1>5, <3>1
    <3>3. QED
      BY <1>0, <1>6, <2>1, <3>2
  <2>2. CASE p + size[p] = b
    <3>1. b + size[b] - 1 \in Run(b, size[b])
      BY <1>1, <1>6 DEF Run
    <3>2. b + size[b] - 1 \in Page /\ 0 <= p
      BY <1>0, <1>1, <1>3, <3>1
    <3>3. QED
      BY <1>0, <1>6, <2>2, <3>2
  <2>3. QED
    BY <2>1, <2>2
<1>9. CASE b + size[b] = p
  <2>1. v = [base |-> b, property |-> [size EXCEPT ![b] = size[b] + size[p]],
             head |-> w.head \ {p}, free_list |-> list_del(w.free_list, p)]
    BY <1>7, <1>9 DEF Merge
  <2> DEFINE size2 == [size EXCEPT ![b] = size[b] + size[p]]
  <2>2. v.base = b /\ v.property = size2 /\ v.head = w.head \ {p} /\ M = L \ {p}
    BY <1>3, <2>1
  <2>3. /\ size2 \in [Page -> 0..NPAGE] /\ size2[b] = size[b] + size[p]
        /\ \A c \in L \ {p} : size2[c] = size[c]
    <3>1. size[b] + size[p] \in 0..NPAGE
      BY <1>8, <1>9
    <3>2. QED
      BY <1>1, <1>6, <3>1
  <2> HIDE DEF v, L, size, b, size2, M
  <2>4. ASSUME NEW c \in L \ {p}
        PROVE  p + size[p] < c \/ c + size[c] <= b
    <3>1. Apart(size, p, c) /\ (b + size[b] <= c \/ c + size[c] <= b)
      BY <1>1, <1>3, <1>4
    <3>2. QED
      BY <1>6, <1>9, <3>1 DEF Apart
  <2>5. \A c \in M : b + size2[b] <= c \/ c + size2[c] <= b
    BY <1>6, <1>9, <2>2, <2>3, <2>4
  <2>6. ASSUME NEW c \in M \cap (done \cup {p}) PROVE Apart(size2, b, c)
    <3>1. c \in L \ {p} /\ c \in done /\ size2[c] = size[c] /\ Apart(size, b, c)
      BY <1>1, <2>2, <2>3
    <3>2. QED
      BY <1>6, <1>9, <2>3, <2>4, <3>1 DEF Apart
  <2>7. \A x \in Int : x \in Run(b, size2[b]) <=> x \in Run(b, size[b]) \/ x \in Run(p, size[p])
    BY <1>5, <1>6, <1>1, <1>9, <2>3 DEF Run
  <2>8. size2[b] >= 1 /\ Run(b, size2[b]) \subseteq G
    <3>1. \A x \in Run(b, size2[b]) : x \in Int
      BY <1>6 DEF Run
    <3>2. size2[b] >= 1
      BY <1>1, <1>6, <2>3
    <3>3. QED
      BY <1>1, <1>5, <2>7, <3>1, <3>2
  <2>9. ASSUME NEW x \in G
        PROVE  x \in Run(b, size2[b]) \/ \E c \in M : x \in Run(c, size2[c])
    <3>1. CASE x \in Run(b, size[b]) \/ x \in Run(p, size[p])
      BY <1>6, <2>7, <3>1
    <3>2. CASE ~(x \in Run(b, size[b]) \/ x \in Run(p, size[p]))
      <4>1. PICK c \in L : x \in Run(c, size[c])
        BY <1>1, <3>2
      <4>2. c \in M /\ size2[c] = size[c]
        BY <2>2, <2>3, <3>2, <4>1
      <4>3. QED
        BY <4>1, <4>2
    <3>3. QED
      BY <3>1, <3>2
  <2>10. /\ M \subseteq L0 /\ L0 \ (done \cup {p}) \subseteq M /\ b \notin M
         /\ \A c \in M : size2[c] = size0[c]
         /\ v.head \subseteq M \cup {b}
    BY <1>1, <2>2, <2>3
  <2>11. QED
    BY <1>2, <2>2, <2>3, <2>5, <2>6, <2>8, <2>9, <2>10 DEF Walking, M, v
<1>10. CASE b + size[b] # p /\ p + size[p] = b
  <2>1. v = [base |-> p, property |-> [size EXCEPT ![p] = size[p] + size[b]],
             head |-> w.head \ {b}, free_list |-> list_del(w.free_list, p)]
    BY <1>7, <1>10 DEF Merge
  <2> DEFINE size2 == [size EXCEPT ![p] = size[p] + size[b]]
  <2>2. v.base = p /\ v.property = size2 /\ v.head = w.head \ {b} /\ M = L \ {p}
    BY <1>3, <2>1
  <2>3. /\ size2 \in [Page -> 0..NPAGE] /\ size2[p] = size[b] + size[p]
        /\ \A c \in L \ {p} : size2[c] = size[c]
    <3>1. size[p] + size[b] \in 0..NPAGE /\ size[p] + size[b] = size[b] + size[p]
      BY <1>6, <1>8, <1>10
    <3>2. QED
      BY <1>1, <1>3, <1>6, <3>1
  <2> HIDE DEF v, L, size, b, size2, M
  <2>4. ASSUME NEW c \in L \ {p}
        PROVE  b + size[b] <= c \/ c + size[c] < p
    <3>1. Apart(size, p, c) /\ (b + size[b] <= c \/ c + size[c] <= b)
      BY <1>1, <1>3, <1>4
    <3>2. QED
      BY <1>1, <1>6, <1>10, <3>1 DEF Apart
  <2>5. \A c \in M : p + size2[p] <= c \/ c + size2[c] <= p
    BY <1>6, <1>10, <2>2, <2>3, <2>4
  <2>6. ASSUME NEW c \in M \cap (done \cup {p}) PROVE Apart(size2, p, c)
    <3>1. c \in L \ {p} /\ c \in done /\ size2[c] = size[c] /\ Apart(size, b, c)
      BY <1>1, <2>2, <2>3
    <3>2. QED
      BY <1>6, <1>10, <2>3, <2>4, <3>1 DEF Apart
  <2>7. \A x \in Int : x \in Run(p, size2[p]) <=> x \in Run(b, size[b]) \/ x \in Run(p, size[p])
    BY <1>5, <1>6, <1>1, <1>10, <2>3 DEF Run
  <2>8. size2[p] >= 1 /\ Run(p, size2[p]) \subseteq G
    <3>1. \A x \in Run(p, size2[p]) : x \in Int
      BY <1>6 DEF Run
    <3>2. size2[p] >= 1
      BY <1>1, <1>6, <2>3
    <3>3. QED
      BY <1>1, <1>5, <2>7, <3>1, <3>2
  <2>9. ASSUME NEW x \in G
        PROVE  x \in Run(p, size2[p]) \/ \E c \in M : x \in Run(c, size2[c])
    <3>1. CASE x \in Run(b, size[b]) \/ x \in Run(p, size[p])
      BY <1>6, <2>7, <3>1
    <3>2. CASE ~(x \in Run(b, size[b]) \/ x \in Run(p, size[p]))
      <4>1. PICK c \in L : x \in Run(c, size[c])
        BY <1>1, <3>2
      <4>2. c \in M /\ size2[c] = size[c]
        BY <2>2, <2>3, <3>2, <4>1
      <4>3. QED
        BY <4>1, <4>2
    <3>3. QED
      BY <3>1, <3>2
  <2>10. /\ M \subseteq L0 /\ L0 \ (done \cup {p}) \subseteq M /\ p \notin M
         /\ \A c \in M : size2[c] = size0[c]
         /\ v.head \subseteq M \cup {p}
    BY <1>1, <1>3, <2>2, <2>3
  <2>11. QED
    BY <1>2, <2>2, <2>3, <2>5, <2>6, <2>8, <2>9, <2>10 DEF Walking, M, v
<1>11. CASE b + size[b] # p /\ p + size[p] # b
  <2>1. v = w
    BY <1>11 DEF Merge
  <2> HIDE DEF v
  <2>2. ASSUME NEW c \in L \cap (done \cup {p}) PROVE Apart(size, b, c)
    <3>1. b + size[b] <= p \/ p + size[p] <= b
      BY <1>1, <1>3
    <3> HIDE DEF L, size, b
    <3>2. Apart(size, b, p)
      BY <1>6, <1>11, <3>1 DEF Apart
    <3>3. QED
      BY <1>1, <3>2
  <2>3. L0 \ (done \cup {p}) \subseteq L
    BY <1>1
  <2>4. Walking(L0, size0, G, done \cup {p}, w)
    BY <1>1, <2>2, <2>3 DEF Walking
  <2>5. QED
    BY <2>1, <2>4 DEF v
<1>12. QED
  BY <1>9, <1>10, <1>11

(***************************************************************************)
(* The walk as a sequence of states, one for each block that it has passed.*)
(***************************************************************************)
Walks(freed, list) ==
  {f \in [0..Len(list) -> WalkState] :
     /\ f[0] = freed
     /\ \A k \in 1..Len(list) : f[k] = Merge(f[k-1], list[k])
     /\ f[Len(list)] = FoldLeft(Merge, freed, list)}

(* The fold that models the walk has these states.                         *)
LEMMA WalkExists ==
  ASSUME NEW freed \in WalkState, NEW list \in Seq(Page)
  PROVE  Walks(freed, list) # {}
<1> DEFINE n    == Len(list)
           S    == 1..n
           pick == [T \in SUBSET S |-> Max(T)]
           step == [x \in S \X WalkState |-> Merge(x[2], list[x[1]])]
           it   == CHOOSE iter : iter = [s \in SUBSET DOMAIN list |->
                     IF s = {} THEN freed
                     ELSE LET x == Max(s)
                          IN  Merge(iter[s \ {x}], list[x])]
<1>1. n \in Nat /\ DOMAIN list = S /\ IsFiniteSet(S) /\ \A i \in S : list[i] \in Page
  BY LenProperties, ElementOfSeq, FS_Interval
<1>2. \A T \in SUBSET S : T # {} => pick[T] \in T
  BY <1>1, MaxOfFew
<1>3. \A x \in S, v \in WalkState : step[<<x, v>>] = Merge(v, list[x]) /\ step[<<x, v>>] \in WalkState
  BY <1>1, MergeState
<1>4. PICK f \in [SUBSET S -> WalkState] :
        \A T \in SUBSET S :
          f[T] = IF T = {} THEN freed ELSE step[<<pick[T], f[T \ {pick[T]}]>>]
  <2> HIDE DEF pick, step, S
  <2>1. FoldSolutions(S, WalkState, freed, pick, step) # {}
    BY <1>1, <1>2, <1>3, FoldExists
  <2>2. QED
    BY <2>1 DEF FoldSolutions
<1>5. f = [s \in SUBSET DOMAIN list |->
             IF s = {} THEN freed
             ELSE LET x == Max(s)
                  IN  Merge(f[s \ {x}], list[x])]
  <2>1. ASSUME NEW s \in SUBSET S, s # {}
        PROVE  f[s] = Merge(f[s \ {Max(s)}], list[Max(s)])
    <3>1. pick[s] = Max(s) /\ pick[s] \in S /\ f[s \ {pick[s]}] \in WalkState
      BY <1>2, <1>4, <2>1
    <3> HIDE DEF pick, step
    <3>2. f[s] = step[<<pick[s], f[s \ {pick[s]}]>>]
      BY <1>4, <2>1
    <3>3. QED
      BY <1>3, <3>1, <3>2
  <2>2. QED
    BY <1>1, <1>4, <2>1
<1>6. it = [s \in SUBSET DOMAIN list |->
             IF s = {} THEN freed
             ELSE LET x == Max(s)
                  IN  Merge(it[s \ {x}], list[x])]
  <2> DEFINE Rec(iter) == iter = [s \in SUBSET DOMAIN list |->
             IF s = {} THEN freed
             ELSE LET x == Max(s)
                  IN  Merge(iter[s \ {x}], list[x])]
  <2>1. Rec(f)
    BY <1>5
  <2>2. it = CHOOSE iter : Rec(iter)
    OBVIOUS
  <2> HIDE DEF Rec, it
  <2>3. Rec(it)
    BY <2>1, <2>2
  <2>4. QED
    BY <2>3 DEF Rec
<1>7. it[DOMAIN list] = FoldLeft(Merge, freed, list)
  BY DEF FoldLeft, MapThenFoldSet
<1> HIDE DEF it
<1>8. it[{}] = freed
  BY <1>6
<1>9. ASSUME NEW k \in Nat, k + 1 <= n
      PROVE  it[1..(k + 1)] = Merge(it[1..k], list[k + 1])
  <2>1. k + 1 \in 1..(k + 1) /\ 1..(k + 1) # {}
    <3>1. k + 1 \in 1..(k + 1)
      BY <1>9
    <3>2. QED
      BY <3>1
  <2>2. 1..(k + 1) \in SUBSET DOMAIN list
    BY <1>1, <1>9
  <2>3. Max(1..(k + 1)) = k + 1
    <3> DEFINE T   == 1..(k + 1)
               top == Max(T)
    <3>1. k + 1 \in T /\ T \in SUBSET (1..(k + 1)) /\ k + 1 \in Nat /\ T # {}
      BY <2>1
    <3> HIDE DEF T
    <3>2. top \in T /\ top >= k + 1
      BY <3>1, MaxOfFew
    <3> HIDE DEF top
    <3>3. top = k + 1
      BY <3>2 DEF T
    <3>4. QED
      BY <3>3 DEF top, T
  <2>4. (1..(k + 1)) \ {k + 1} = 1..k
    OBVIOUS
  <2>5. QED
    BY <1>6, <2>1, <2>2, <2>3, <2>4
<1> DEFINE P == {k \in Nat : k <= n => it[1..k] \in WalkState}
<1>10. n \in P /\ \A k \in 0..n : k \in P
  <2>1. 1..0 = {}
    OBVIOUS
  <2>2. 0 \in P
    BY <1>8, <2>1
  <2>3. ASSUME NEW k \in Nat, k \in P PROVE k + 1 \in P
    <3>1. ASSUME k + 1 <= n PROVE it[1..(k + 1)] \in WalkState
      <4>1. it[1..k] \in WalkState /\ list[k + 1] \in Page
        BY <1>1, <2>3, <3>1
      <4>2. QED
        BY <1>9, <3>1, <4>1, MergeState
    <3>2. QED
      BY <3>1
  <2> HIDE DEF P
  <2>4. Nat \subseteq P
    BY <2>2, <2>3, InductionOnNat
  <2>5. QED
    BY <1>1, <2>4
<1> DEFINE g == [k \in 0..n |-> it[1..k]]
<1>11. g \in [0..n -> WalkState]
  BY <1>1, <1>10
<1>12. g[0] = freed
  <2>1. 1..0 = {} /\ 0 \in 0..n
    BY <1>1
  <2>2. QED
    BY <1>8, <2>1
<1>13. \A k \in 1..n : g[k] = Merge(g[k-1], list[k])
  <2>1. ASSUME NEW k \in 1..n PROVE g[k] = Merge(g[k-1], list[k])
    <3>1. k - 1 \in Nat /\ (k - 1) + 1 = k /\ k <= n /\ k \in 0..n /\ k - 1 \in 0..n
      BY <1>1
    <3>2. it[1..k] = Merge(it[1..(k-1)], list[k])
      BY <1>9, <3>1
    <3>3. QED
      BY <3>1, <3>2
  <2>2. QED
    BY <2>1
<1>14. g[n] = FoldLeft(Merge, freed, list)
  BY <1>1, <1>7
<1> HIDE DEF g
<1>15. QED
  BY <1>11, <1>12, <1>13, <1>14 DEF Walks

(* After default_free_pages the list is right for the free pages and the   *)
(* freed ones.                                                             *)
LEMMA FreedWellFormed ==
  ASSUME NEW m, NEW F, WellFormed(m, F), NEW base \in Page, NEW n \in 1..NPAGE,
         Run(base, n) \subseteq Page \ F
  PROVE  WellFormed(PagesFreed(m, base, n), F \cup Run(base, n))
<1> DEFINE R     == Run(base, n)
           G     == F \cup R
           list  == m.free_list
           L0    == Blocks(list)
           size0 == m.property
           freed == [base      |-> base,
                     property  |-> [size0 EXCEPT ![base] = n],
                     head      |-> (m.head \ R) \cup {base},
                     free_list |-> list]
           w     == FoldLeft(Merge, freed, list)
<1>0. /\ NPAGE \in Nat \ {0} /\ \A q \in Page : q \in Int /\ 0 <= q /\ q < NPAGE
      /\ base \in Int /\ n \in Nat /\ n >= 1
  BY PageAssumption DEF Page
<1>1. /\ F \in SUBSET Page /\ list \in FreeLists /\ list \in Seq(Page) /\ NoRepeat(list)
      /\ size0 \in [Page -> 0..NPAGE]
      /\ m.head \subseteq L0 /\ m.nr_free = Cardinality(F) /\ Cover(L0, size0, F)
      /\ L0 \in SUBSET Page /\ G \in SUBSET Page /\ F \subseteq G
  BY DEF WellFormed, Blocks, FreeLists
<1>2. /\ PagesFreed(m, base, n)
           = [free_list |-> <<w.base>> \o w.free_list, property |-> w.property,
              head |-> w.head, nr_free |-> m.nr_free + n]
  BY DEF PagesFreed
<1>3. /\ freed \in WalkState /\ [size0 EXCEPT ![base] = n] \in [Page -> 0..NPAGE]
      /\ \A q \in Page : [size0 EXCEPT ![base] = n][q] = IF q = base THEN n ELSE size0[q]
  BY <1>0, <1>1 DEF WalkState
<1>4. base \in R /\ base \notin F
  BY <1>0 DEF Run
<1>5. \A c \in L0 : c \in F /\ size0[c] \in Nat /\ c \in Int /\ c # base
  <2>1. ASSUME NEW c \in L0
        PROVE  c \in F /\ size0[c] \in Nat /\ c \in Int
    <3> HIDE DEF L0, size0
    <3>1. c \in Page /\ size0[c] \in 0..NPAGE
      BY <1>1
    <3>2. size0[c] >= 1 /\ Run(c, size0[c]) \subseteq F
      BY <1>1 DEF Cover
    <3>3. c \in Int /\ size0[c] \in Nat
      BY <1>0, <3>1
    <3>4. c \in Run(c, size0[c])
      BY <3>2, <3>3 DEF Run
    <3>5. QED
      BY <3>2, <3>3, <3>4
  <2>2. QED
    BY <1>4, <2>1
<1>6. Walking(L0, size0, G, {}, freed)
  <2> DEFINE size == [size0 EXCEPT ![base] = n]
  <2>1. size[base] = n /\ \A c \in L0 : size[c] = size0[c]
    BY <1>1, <1>3, <1>5
  <2>2. freed.base = base /\ freed.property = size /\ freed.free_list = list
        /\ freed.head = (m.head \ R) \cup {base}
    OBVIOUS
  <2> HIDE DEF freed, size, list, L0, size0
  <2>3. ASSUME NEW c \in L0
        PROVE  base + size[base] <= c \/ c + size[c] <= base
    <3>1. Run(c, size0[c]) \subseteq F /\ c \in F
      BY <1>1, <1>5 DEF Cover
    <3>2. base \notin Run(c, size0[c]) /\ c \notin Run(base, n)
      BY <1>4, <3>1
    <3>3. QED
      BY <1>0, <1>5, <2>1, <3>2 DEF Run
  <2>4. ASSUME NEW x \in G
        PROVE  x \in Run(base, size[base]) \/ \E c \in L0 : x \in Run(c, size[c])
    <3>1. CASE x \in R
      BY <2>1, <3>1
    <3>2. CASE x \in F
      <4>1. PICK c \in L0 : x \in Run(c, size0[c])
        BY <1>1, <3>2 DEF Cover
      <4>2. QED
        BY <2>1, <4>1
    <3>3. QED
      BY <3>1, <3>2
  <2>5. size[base] >= 1 /\ Run(base, size[base]) \subseteq G
    BY <1>0, <2>1
  <2>6. Blocks(freed.free_list) = L0
    BY <2>2 DEF L0
  <2>7. freed \in WalkState /\ size \in [Page -> 0..NPAGE]
    BY <1>3 DEF freed, size, size0, list
  <2>8. freed.head \subseteq L0 \cup {base} /\ base \notin L0
    BY <1>1, <1>5, <2>2
  <2> HIDE DEF G, R
  <2>9. QED
    BY <2>1, <2>2, <2>3, <2>4, <2>5, <2>6, <2>7, <2>8 DEF Walking
<1> HIDE DEF freed, w, list, L0, size0, G, R
<1> DEFINE done(k) == {list[i] : i \in 1..k}
<1>7. Len(list) \in Nat /\ L0 = done(Len(list))
  <2>1. Len(list) \in Nat /\ \A i \in 1..Len(list) : list[i] \in Page
    BY <1>1, LenProperties, ElementOfSeq
  <2>2. QED
    BY <2>1 DEF L0, Blocks, InList
<1>8. PICK f \in Walks(freed, list) : TRUE
  BY <1>1, <1>3, WalkExists DEF freed, size0, list
<1>9. /\ f[0] = freed /\ f[Len(list)] = w
      /\ \A k \in 1..Len(list) : f[k] = Merge(f[k-1], list[k])
  BY <1>8 DEF Walks, w
<1> DEFINE P == {k \in Nat : k <= Len(list) => Walking(L0, size0, G, done(k), f[k])}
<1>10. 0 \in P
  <2>1. done(0) = {}
    OBVIOUS
  <2>2. QED
    BY <1>6, <1>9, <2>1
<1>11. ASSUME NEW k \in Nat, k \in P PROVE k + 1 \in P
  <2>1. ASSUME k + 1 <= Len(list)
        PROVE  Walking(L0, size0, G, done(k + 1), f[k + 1])
    <3> DEFINE p == list[k + 1]
               v == f[k]
    <3>1. Walking(L0, size0, G, done(k), v)
      BY <1>7, <1>11, <2>1
    <3>2. k + 1 \in 1..Len(list) /\ (k + 1) - 1 = k
      BY <1>7, <2>1
    <3>3. f[k + 1] = Merge(v, p)
      BY <1>9, <3>2
    <3>4. done(k) \in SUBSET L0 /\ p \in L0 /\ done(k + 1) = done(k) \cup {p}
      BY <1>7, <2>1
    <3>5. p \notin done(k)
      BY <1>1, <1>7, <2>1 DEF NoRepeat
    <3> DEFINE d == done(k)
    <3>6. d \in SUBSET L0 /\ p \in L0 \ d /\ Walking(L0, size0, G, d, v)
      BY <3>1, <3>4, <3>5
    <3> HIDE DEF done, v, p, d
    <3>7. Walking(L0, size0, G, d \cup {p}, Merge(v, p))
      BY <1>1, <3>6, MergeStep
    <3>8. QED
      BY <3>3, <3>4, <3>7 DEF d
  <2>2. QED
    BY <2>1
<1>12. Walking(L0, size0, G, L0, w)
  <2> HIDE DEF P
  <2>1. Nat \subseteq P
    BY <1>10, <1>11, InductionOnNat
  <2>2. Len(list) \in P /\ Len(list) <= Len(list)
    BY <1>7, <2>1
  <2> HIDE DEF done
  <2>3. Walking(L0, size0, G, done(Len(list)), f[Len(list)])
    BY <2>2 DEF P
  <2>4. QED
    BY <1>7, <1>9, <2>3
<1> HIDE DEF P, done
<1> DEFINE L    == Blocks(w.free_list)
           b    == w.base
           size == w.property
<1>13. /\ w \in WalkState /\ b \in Page /\ size \in [Page -> 0..NPAGE]
       /\ w.free_list \in FreeLists
       /\ L \subseteq L0 /\ b \notin L
       /\ \A c \in L : size[c] = size0[c]
       /\ \A c \in L : Apart(size, b, c)
       /\ size[b] >= 1 /\ Run(b, size[b]) \subseteq G
       /\ \A x \in G : x \in Run(b, size[b]) \/ \E c \in L : x \in Run(c, size[c])
       /\ w.head \subseteq L \cup {b}
  BY <1>12 DEF Walking, WalkState
<1>14. Cover(L \cup {b}, size, G)
  <2> HIDE DEF L, b, size
  <2>1. ASSUME NEW c \in L \cup {b}
        PROVE  size[c] >= 1 /\ Run(c, size[c]) \subseteq G
    BY <1>1, <1>13 DEF Cover
  <2>2. ASSUME NEW c \in L \cup {b}, NEW d \in L \cup {b}, c # d
        PROVE  Apart(size, c, d)
    <3>1. CASE c = b \/ d = b
      BY <1>13, <2>2, <3>1 DEF Apart
    <3>2. CASE c \in L /\ d \in L
      BY <1>1, <1>13, <2>2, <3>2 DEF Cover, Apart
    <3>3. QED
      BY <3>1, <3>2
  <2>3. \A x \in G : \E c \in L \cup {b} : x \in Run(c, size[c])
    BY <1>13
  <2>4. QED
    BY <2>1, <2>2, <2>3 DEF Cover
<1>15. <<b>> \o w.free_list \in FreeLists /\ Blocks(<<b>> \o w.free_list) = L \cup {b}
  BY <1>13, Fronting
<1>16. m.nr_free + n = Cardinality(G)
  <2>1. IsFiniteSet(F) /\ IsFiniteSet(R) /\ Cardinality(R) = n
    BY <1>0, <1>1, PagesFinite, RunSize DEF R
  <2>2. Cardinality(F \cup R) = Cardinality(F) + Cardinality(R) - Cardinality(F \cap R)
    BY <2>1, FS_Union
  <2>3. F \cap R = {}
    BY DEF R
  <2>4. Cardinality(F \cap R) = 0
    BY <2>3, FS_EmptySet
  <2>5. Cardinality(F) \in Nat
    BY <2>1, FS_CardinalityType
  <2>6. Cardinality(G) = Cardinality(F) + n
    BY <1>0, <2>1, <2>2, <2>4, <2>5 DEF G
  <2>7. QED
    BY <1>1, <2>6
<1>17. WellFormed(PagesFreed(m, base, n), G)
  <2> DEFINE r == PagesFreed(m, base, n)
  <2>1. /\ r.free_list = <<b>> \o w.free_list /\ r.property = size /\ r.head = w.head
        /\ r.nr_free = m.nr_free + n
    BY <1>2 DEF w, freed, list, size0, R
  <2> HIDE DEF r, L, b, size
  <2>2. QED
    BY <1>1, <1>13, <1>14, <1>15, <1>16, <2>1 DEF WellFormed, r
<1>18. QED
  BY <1>17 DEF G, R

-----------------------------------------------------------------------------
(***************************************************************************)
(* A block that default_init_memmap adds: the pages next to it are not     *)
(* free, so it touches no other block.                                     *)
(***************************************************************************)
BesideNone(base, n, F) == base - 1 \notin F /\ base + n \notin F

(* The sizes of the blocks L and of the added block; elsewhere anything.   *)
SizesAdded(L, size, base, n, size2) == size2[base] = n /\ \A c \in L : size2[c] = size[c]

(* A block that touches no other one covers its pages.                     *)
LEMMA CoverAdd ==
  ASSUME NEW L \in SUBSET Page, NEW size \in [Page -> 0..NPAGE], NEW F \in SUBSET Page,
         Cover(L, size, F), NEW base \in Page, NEW n \in 1..NPAGE,
         Run(base, n) \cap F = {}, BesideNone(base, n, F),
         NEW size2, SizesAdded(L, size, base, n, size2)
  PROVE  base \notin L /\ Cover(L \cup {base}, size2, F \cup Run(base, n))
<1>0. /\ NPAGE \in Nat \ {0} /\ \A q \in Page : q \in Int
      /\ base \in Int /\ n \in Nat /\ n >= 1
  BY PageAssumption DEF Page
<1> USE DEF SizesAdded
<1>1. base \in Run(base, n)
  BY <1>0 DEF Run
<1>2. ASSUME NEW c \in L
      PROVE  /\ c # base /\ c \in Int /\ size[c] \in Nat /\ size[c] >= 1
             /\ Run(c, size[c]) \subseteq F
             /\ Apart(size2, base, c) /\ Apart(size2, c, base)
  <2>1. c \in Int /\ size[c] \in Nat
    BY <1>0
  <2>2. size[c] >= 1 /\ Run(c, size[c]) \subseteq F
    BY DEF Cover
  <2>3. c \in Run(c, size[c])
    BY <2>1, <2>2 DEF Run
  <2>4. c \notin Run(base, n) /\ base \notin Run(c, size[c])
        /\ base - 1 \notin Run(c, size[c]) /\ base + n # c
    BY <1>1, <2>2, <2>3 DEF BesideNone
  <2>5. base + n < c \/ c + size[c] < base
    BY <1>0, <2>1, <2>2, <2>4 DEF Run
  <2>6. QED
    BY <1>1, <2>1, <2>2, <2>3, <2>4, <2>5 DEF Apart
<1>3. ASSUME NEW c \in L \cup {base}
      PROVE  size2[c] >= 1 /\ Run(c, size2[c]) \subseteq F \cup Run(base, n)
  BY <1>0, <1>2
<1>4. ASSUME NEW x \in F \cup Run(base, n)
      PROVE  \E c \in L \cup {base} : x \in Run(c, size2[c])
  <2>1. CASE x \in Run(base, n)
    BY <2>1
  <2>2. CASE x \in F
    <3>1. PICK c \in L : x \in Run(c, size[c])
      BY <2>2 DEF Cover
    <3>2. QED
      BY <3>1
  <2>3. QED
    BY <2>1, <2>2
<1>5. ASSUME NEW c \in L \cup {base}, NEW d \in L \cup {base}, c # d
      PROVE  Apart(size2, c, d)
  <2>1. CASE c = base \/ d = base
    BY <1>2, <1>5, <2>1
  <2>2. CASE c # base /\ d # base
    BY <1>5, <2>2 DEF Cover, Apart
  <2>3. QED
    BY <2>1, <2>2
<1>6. QED
  BY <1>2, <1>3, <1>4, <1>5 DEF Cover

(* The list is right after default_init_memmap has added an area that      *)
(* touches no free page.                                                   *)
LEMMA AddedWellFormed ==
  ASSUME NEW m, NEW F, WellFormed(m, F), NEW base \in Page, NEW n \in 1..NPAGE,
         Run(base, n) \subseteq Page \ F, BesideNone(base, n, F),
         NEW added,
         added = [free_list |-> <<base>> \o m.free_list,
                  property  |-> [p \in Page |-> IF p = base THEN n
                                                ELSE IF p \in Run(base, n) THEN 0
                                                ELSE m.property[p]],
                  head      |-> m.head \cup {base},
                  nr_free   |-> m.nr_free + n]
  PROVE  WellFormed(added, F \cup Run(base, n))
<1> DEFINE L     == Blocks(m.free_list)
           size  == m.property
           size2 == added.property
           G     == F \cup Run(base, n)
<1>1. /\ F \in SUBSET Page /\ m.free_list \in FreeLists /\ size \in [Page -> 0..NPAGE]
      /\ m.head \subseteq L /\ m.nr_free = Cardinality(F) /\ Cover(L, size, F)
      /\ L \in SUBSET Page /\ G \in SUBSET Page
  BY DEF WellFormed, Blocks
<1>2. n \in 0..NPAGE /\ 0 \in 0..NPAGE /\ n \in Nat
  BY PageAssumption
<1>3. size2 \in [Page -> 0..NPAGE] /\ size2[base] = n
  BY <1>1, <1>2
<1>4. \A c \in L : c \in F
  <2>1. ASSUME NEW c \in L PROVE c \in F
    <3> HIDE DEF L, size
    <3>1. c \in Int /\ size[c] \in Nat
      BY <1>1, PageAssumption DEF Page
    <3>2. size[c] >= 1 /\ Run(c, size[c]) \subseteq F
      BY <1>1 DEF Cover
    <3>3. c \in Run(c, size[c])
      BY <3>1, <3>2 DEF Run
    <3>4. QED
      BY <3>2, <3>3
  <2>2. QED
    BY <2>1
<1>5. base \in Run(base, n)
  BY <1>2, PageAssumption DEF Run, Page
<1>6. \A c \in L : size2[c] = size[c]
  BY <1>1, <1>4, <1>5
<1>7. base \notin L /\ Cover(L \cup {base}, size2, G)
  <2> HIDE DEF L, size, size2
  <2>1. Run(base, n) \cap F = {}
    OBVIOUS
  <2>2. SizesAdded(L, size, base, n, size2)
    BY <1>3, <1>6 DEF SizesAdded
  <2>3. QED
    BY <1>1, <2>1, <2>2, CoverAdd DEF G
<1>8. <<base>> \o m.free_list \in FreeLists /\ Blocks(<<base>> \o m.free_list) = L \cup {base}
  BY <1>1, <1>7, Fronting
<1>9. m.nr_free + n = Cardinality(G)
  <2> DEFINE R == Run(base, n)
  <2>1. IsFiniteSet(F) /\ IsFiniteSet(R) /\ Cardinality(R) = n
    BY <1>1, <1>2, PagesFinite, RunSize
  <2>2. F \cap R = {}
    OBVIOUS
  <2> HIDE DEF R
  <2>3. Cardinality(F \cup R) = Cardinality(F) + Cardinality(R) - Cardinality(F \cap R)
    BY <2>1, FS_Union
  <2>4. Cardinality(F \cap R) = 0
    BY <2>2, FS_EmptySet
  <2>5. Cardinality(F) \in Nat
    BY <2>1, FS_CardinalityType
  <2>6. Cardinality(G) = Cardinality(F) + n
    BY <1>2, <2>1, <2>3, <2>4, <2>5 DEF R
  <2>7. QED
    BY <1>1, <2>6
<1>10. added.free_list = <<base>> \o m.free_list /\ added.head = m.head \cup {base}
       /\ added.nr_free = m.nr_free + n
  OBVIOUS
<1> HIDE DEF L, size, size2, G
<1>11. WellFormed(added, G)
  BY <1>1, <1>3, <1>7, <1>8, <1>9, <1>10 DEF WellFormed, size2
<1>12. QED
  BY <1>11 DEF G

-----------------------------------------------------------------------------
(***************************************************************************)
(* The inductive invariant: the free pages are those that are neither      *)
(* reserved nor handed out.                                                *)
(***************************************************************************)
Free == Page \ (used \cup reserved)

PageInv ==
  /\ reserved \subseteq Page /\ used \subseteq Page /\ used \cap reserved = {}
  /\ booted \in BOOLEAN /\ swap_init_ok \in BOOLEAN
  /\ WellFormed(pmm, Free)

(* There is no memory before page_init.                                    *)
LEMMA PageInvInit == PageInit => PageInv
<1> SUFFICES ASSUME PageInit PROVE PageInv
  OBVIOUS
<1>1. /\ pmm.free_list = <<>> /\ pmm.property = [p \in Page |-> 0]
      /\ pmm.head = {} /\ pmm.nr_free = 0
      /\ reserved = Page /\ used = {} /\ booted = FALSE /\ swap_init_ok = FALSE
  BY DEF PageInit
<1>2. Free = {} /\ Cardinality({}) = 0
  BY <1>1, FS_EmptySet DEF Free
<1>3. <<>> \in FreeLists /\ Blocks(<<>>) = {}
  BY DEF FreeLists, Blocks, NoRepeat, InList
<1>4. Cover({}, pmm.property, {})
  BY DEF Cover
<1>5. pmm.property \in [Page -> 0..NPAGE]
  BY <1>1, PageAssumption
<1>6. QED
  BY <1>1, <1>2, <1>3, <1>4, <1>5 DEF PageInv, WellFormed

(* Each operation keeps the list right.                                    *)
LEMMA PageInvNext == PageInv /\ [PageNext]_pageVars => PageInv'
<1> SUFFICES ASSUME PageInv, [PageNext]_pageVars PROVE PageInv'
  OBVIOUS
<1>1. /\ reserved \subseteq Page /\ used \subseteq Page /\ used \cap reserved = {}
      /\ booted \in BOOLEAN /\ swap_init_ok \in BOOLEAN
      /\ WellFormed(pmm, Free) /\ Free \subseteq Page
  BY DEF PageInv, Free
<1>2. CASE Booted \/ swap_init \/ UNCHANGED pageVars
  <2>1. /\ pmm' = pmm /\ reserved' = reserved /\ used' = used
        /\ booted' \in BOOLEAN /\ swap_init_ok' \in BOOLEAN
    BY <1>1, <1>2 DEF Booted, swap_init, pageVars
  <2>2. Free' = Free
    BY <2>1 DEF Free
  <2>3. QED
    BY <1>1, <2>1, <2>2 DEF PageInv
<1>3. ASSUME NEW n \in 1..NPAGE, alloc_pages(n) PROVE PageInv'
  <2> DEFINE R == Run(FirstFit(pmm, n), n)
  <2>1. /\ Available(pmm, n) /\ pmm' = PagesTaken(pmm, n) /\ used' = used \cup R
        /\ reserved' = reserved /\ booted' = booted /\ swap_init_ok' = swap_init_ok
    BY <1>3 DEF alloc_pages
  <2>2. R \subseteq Free /\ WellFormed(pmm', Free \ R)
    BY <1>1, <2>1, TakenWellFormed
  <2> HIDE DEF R
  <2>3. Free' = Free \ R
    BY <2>1 DEF Free
  <2>4. QED
    BY <1>1, <2>1, <2>2, <2>3 DEF PageInv, Free
<1>4. ASSUME NEW n \in 1..NPAGE, NEW base \in 0..(NPAGE - n)
      PROVE  base \in Page /\ Run(base, n) \subseteq Page
  BY <1>4, PageAssumption DEF Page, Run
<1>5. ASSUME NEW n \in 1..NPAGE, NEW base \in 0..(NPAGE - n), free_pages(base, n)
      PROVE  PageInv'
  <2> DEFINE R == Run(base, n)
  <2>1. /\ R \subseteq used /\ pmm' = PagesFreed(pmm, base, n) /\ used' = used \ R
        /\ reserved' = reserved /\ booted' = booted /\ swap_init_ok' = swap_init_ok
    BY <1>5 DEF free_pages
  <2>2. R \subseteq Page \ Free
    BY <1>1, <2>1 DEF Free
  <2>3. WellFormed(pmm', Free \cup R)
    BY <1>1, <1>4, <2>1, <2>2, FreedWellFormed
  <2> HIDE DEF R
  <2>4. Free' = Free \cup R
    BY <1>1, <2>1 DEF Free
  <2>5. QED
    BY <1>1, <2>1, <2>3, <2>4 DEF PageInv
<1>6. ASSUME NEW n \in 1..NPAGE, NEW base \in 0..(NPAGE - n), default_init_memmap(base, n)
      PROVE  PageInv'
  <2> DEFINE R == Run(base, n)
  <2>1. /\ (base - 1)..(base + n) \cap Page \subseteq reserved
        /\ pmm' = [free_list |-> <<base>> \o pmm.free_list,
                   property  |-> [p \in Page |-> IF p = base THEN n
                                                 ELSE IF p \in Run(base, n) THEN 0
                                                 ELSE pmm.property[p]],
                   head      |-> pmm.head \cup {base},
                   nr_free   |-> pmm.nr_free + n]
        /\ reserved' = reserved \ R /\ used' = used
        /\ booted' = booted /\ swap_init_ok' = swap_init_ok
    BY <1>6 DEF default_init_memmap
  <2>2. base \in Int /\ n \in Nat /\ n >= 1
    BY PageAssumption
  <2>3. R \subseteq Page /\ R \subseteq (base - 1)..(base + n)
        /\ base - 1 \in (base - 1)..(base + n) /\ base + n \in (base - 1)..(base + n)
    BY <1>4, <2>2 DEF Run
  <2>4. R \subseteq reserved /\ R \subseteq Page \ Free /\ BesideNone(base, n, Free)
    BY <2>1, <2>3 DEF Free, BesideNone
  <2>5. WellFormed(pmm', Free \cup R)
    BY <1>1, <1>4, <2>1, <2>4, AddedWellFormed
  <2> HIDE DEF R
  <2>6. Free' = Free \cup R
    BY <1>1, <2>1, <2>4 DEF Free
  <2>7. QED
    BY <1>1, <2>1, <2>5, <2>6 DEF PageInv
<1>7. QED
  BY <1>2, <1>3, <1>5, <1>6 DEF PageNext

(* So the list is always right.                                            *)
LEMMA PageInvariance == PageSpec => []PageInv
BY PageInvInit, PageInvNext, PTL DEF PageSpec

-----------------------------------------------------------------------------
(* The list places of two blocks name two pages.                           *)
LEMMA PageInvExact == PageInv => FreeExact
<1> SUFFICES ASSUME PageInv PROVE FreeExact
  OBVIOUS
<1> DEFINE list == pmm.free_list
           size == pmm.property
           L    == Blocks(list)
<1>1. /\ Free \in SUBSET Page /\ list \in FreeLists /\ list \in Seq(Page) /\ NoRepeat(list)
      /\ size \in [Page -> 0..NPAGE]
      /\ pmm.head \subseteq L /\ pmm.nr_free = Cardinality(Free) /\ Cover(L, size, Free)
      /\ L \in SUBSET Page
      /\ used \subseteq Page /\ reserved \subseteq Page /\ used \cap reserved = {}
      /\ booted \in BOOLEAN /\ swap_init_ok \in BOOLEAN
  BY DEF PageInv, WellFormed, Blocks, FreeLists
<1>2. \A i \in 1..Len(list) : list[i] \in L
  BY <1>1, ElementOfSeq DEF Blocks, InList
<1>3. \A b \in L : \E i \in 1..Len(list) : list[i] = b
  BY DEF Blocks, InList
<1>4. \A i, j \in 1..Len(list) : i # j => list[i] # list[j]
  BY <1>1 DEF NoRepeat
<1>5. \A b \in L : /\ b \in Int /\ size[b] \in Nat
                    /\ size[b] >= 1 /\ Run(b, size[b]) \subseteq Free /\ b \in Free
  <2>1. ASSUME NEW b \in L
        PROVE  /\ b \in Int /\ size[b] \in Nat
               /\ size[b] >= 1 /\ Run(b, size[b]) \subseteq Free /\ b \in Free
    <3> HIDE DEF L, size, list
    <3>1. b \in Int /\ size[b] \in Nat
      BY <1>1, PageAssumption DEF Page
    <3>2. size[b] >= 1 /\ Run(b, size[b]) \subseteq Free
      BY <1>1 DEF Cover
    <3>3. b \in Run(b, size[b])
      BY <3>1, <3>2 DEF Run
    <3>4. QED
      BY <3>1, <3>2, <3>3
  <2>2. QED
    BY <2>1
<1>6. \A i \in 1..Len(list) : Block(i) = Run(list[i], size[list[i]])
  BY DEF Block
<1> HIDE DEF list, size, L
<1>7. ASSUME NEW b \in L, NEW c \in L, b # c
      PROVE  Run(b, size[b]) \cap Run(c, size[c]) = {}
  <2>1. Apart(size, b, c)
    BY <1>1, <1>7 DEF Cover
  <2>2. ASSUME NEW x, x \in Run(b, size[b]), x \in Run(c, size[c]) PROVE FALSE
    BY <1>5, <2>1, <2>2 DEF Apart, Run
  <2>3. QED
    BY <2>2
<1>8. \A i, j \in 1..Len(list) : i # j => Block(i) \cap Block(j) = {}
  BY <1>2, <1>4, <1>6, <1>7
<1>9. FreePages = Free
  <2>1. ASSUME NEW x \in FreePages PROVE x \in Free
    <3>1. PICK i \in 1..Len(list) : x \in Block(i)
      BY DEF FreePages, list
    <3>2. QED
      BY <1>2, <1>5, <1>6, <3>1
  <2>2. ASSUME NEW x \in Free PROVE x \in FreePages
    <3>1. PICK b \in L : x \in Run(b, size[b])
      BY <1>1 DEF Cover
    <3>2. PICK i \in 1..Len(list) : list[i] = b
      BY <1>3
    <3>3. x \in Block(i)
      BY <1>6, <3>1, <3>2
    <3>4. QED
      BY <3>3 DEF FreePages, list
  <2>3. QED
    BY <2>1, <2>2
<1>10. used \cap pmm.head = {}
  BY <1>1, <1>5 DEF Free
<1>11. PageTypeOK
  <2>1. pmm.nr_free \in 0..NPAGE
    BY <1>1, PagesFinite
  <2>2. pmm.head \subseteq Page
    BY <1>1
  <2>3. QED
    BY <1>1, <2>1, <2>2 DEF PageTypeOK, list, size
<1>12. QED
  BY <1>1, <1>8, <1>9, <1>10, <1>11 DEF FreeExact, list, Free

(* A run of free pages lies in one block, since no two blocks touch.       *)
LEMMA PageInvFound == PageInv => EveryRunIsFound
<1> SUFFICES ASSUME PageInv, NEW n \in 1..NPAGE, NEW base \in Page, Run(base, n) \subseteq Free
             PROVE  Available(pmm, n)
  BY DEF EveryRunIsFound, Free
<1> DEFINE list == pmm.free_list
           size == pmm.property
           L    == Blocks(list)
<1>1. /\ Free \in SUBSET Page /\ size \in [Page -> 0..NPAGE]
      /\ pmm.nr_free = Cardinality(Free) /\ Cover(L, size, Free) /\ L \in SUBSET Page
  BY DEF PageInv, WellFormed, Blocks
<1>2. n \in Nat
  BY PageAssumption
<1>3. n <= pmm.nr_free
  <2> DEFINE R == Run(base, n)
  <2>1. IsFiniteSet(Free) /\ Cardinality(R) = n
    BY <1>1, <1>2, PagesFinite, RunSize
  <2> HIDE DEF R
  <2>2. R \in SUBSET Free
    BY DEF R
  <2>3. Cardinality(R) <= Cardinality(Free)
    BY <2>1, <2>2, FS_Subset
  <2>4. QED
    BY <1>1, <2>1, <2>3
<1>4. PICK b \in L : size[b] >= n
  <2> HIDE DEF L, size
  <2>1. QED
    BY <1>1, CoverRun
<1>5. PICK i \in 1..Len(list) : list[i] = b
  BY DEF Blocks, InList
<1>6. i \in Fits(pmm, n)
  BY <1>4, <1>5 DEF Fits
<1>7. QED
  BY <1>3, <1>6 DEF Available

-----------------------------------------------------------------------------
(***************************************************************************)
(* The free blocks never overlap, are just the pages that are neither      *)
(* reserved nor handed out, and nr_free counts them.                       *)
(***************************************************************************)
THEOREM PagesFreeExact == PageSpec => []FreeExact
BY PageInvariance, PageInvExact, PTL

(***************************************************************************)
(* A run of free pages that is long enough is always found: the walk of    *)
(* default_free_pages leaves no two free blocks side by side.              *)
(***************************************************************************)
THEOREM PagesEveryRunIsFound == PageSpec => []EveryRunIsFound
BY PageInvariance, PageInvFound, PTL

-----------------------------------------------------------------------------
(***************************************************************************)
(* The kernel heap.  Its free list is a function from addresses to sizes   *)
(* and successors; the first lemmas are about the ring that the successors *)
(* make, the next about what slob_alloc and slob_free do to it, and the    *)
(* last about the objects and pages that share memory with it.             *)
(***************************************************************************)

(***************************************************************************)
(* The free list as a function f from the address of each block to its     *)
(* units and its successor: blocks are apart, and each block but the last  *)
(* one points to the next in the order of addresses, the last to arena.    *)
(***************************************************************************)
SlobEntry(D) == [units : Nat \ {0}, next : D]

Slob(f) ==
  LET D == DOMAIN f
  IN  /\ IsFiniteSet(D) /\ D \subseteq Int
      /\ f \in [D -> SlobEntry(D)]
      /\ arena \in D /\ f[arena].units = 1
      /\ \A b \in D : b # arena => b >= 0
      /\ \A b, c \in D : b < c => b + f[b].units < f[b].next /\ f[b].next <= c
      /\ \A b \in D : (\A c \in D : c <= b) => f[b].next = arena

(* What the definition says of a block and its successor.                  *)
LEMMA SlobFacts ==
  ASSUME NEW f, Slob(f)
  PROVE  /\ IsFiniteSet(DOMAIN f) /\ DOMAIN f \in SUBSET Int
         /\ arena = -3 /\ arena \in DOMAIN f /\ f[arena].units = 1
         /\ \A b \in DOMAIN f : /\ b \in Int /\ b >= arena
                                /\ b # arena => b >= 0
                                /\ f[b] = [units |-> f[b].units, next |-> f[b].next]
                                /\ f[b].units \in Nat \ {0}
                                /\ f[b].next \in DOMAIN f /\ f[b].next \in Int
         /\ \A b, c \in DOMAIN f : b < c => b + f[b].units < f[b].next /\ f[b].next <= c
         /\ \A b \in DOMAIN f : (\A c \in DOMAIN f : c <= b) => f[b].next = arena
<1> DEFINE D == DOMAIN f
<1>1. /\ IsFiniteSet(D) /\ D \subseteq Int /\ f \in [D -> SlobEntry(D)]
      /\ arena \in D /\ f[arena].units = 1
      /\ \A b \in D : b # arena => b >= 0
      /\ \A b, c \in D : b < c => b + f[b].units < f[b].next /\ f[b].next <= c
      /\ \A b \in D : (\A c \in D : c <= b) => f[b].next = arena
  BY DEF Slob
<1>2. \A b \in D : /\ f[b] = [units |-> f[b].units, next |-> f[b].next]
                   /\ f[b].units \in Nat \ {0} /\ f[b].next \in D
  <2>1. \A b \in D : f[b] \in SlobEntry(D)
    BY <1>1
  <2>2. QED
    BY <2>1 DEF SlobEntry
<1>3. arena = -3
  BY DEF arena
<1>4. QED
  BY <1>1, <1>2, <1>3

(* Two blocks have different successors.                                   *)
LEMMA NextInjective ==
  ASSUME NEW f, Slob(f), NEW b \in DOMAIN f, NEW c \in DOMAIN f, f[b].next = f[c].next
  PROVE  b = c
<1>1. ASSUME NEW x \in DOMAIN f, NEW y \in DOMAIN f, x < y PROVE f[x].next # f[y].next
  <2>1. x < f[x].next /\ f[x].next <= y /\ x >= arena
    BY <1>1, SlobFacts
  <2>2. CASE \A z \in DOMAIN f : z <= y
    <3>1. f[y].next = arena
      BY <2>2, SlobFacts
    <3>2. x \in Int /\ arena \in Int /\ f[x].next \in Int
      BY SlobFacts
    <3>3. QED
      BY <2>1, <3>1, <3>2
  <2>3. CASE \E z \in DOMAIN f : y < z
    <3>1. f[y].next > y
      BY <2>3, SlobFacts
    <3>2. QED
      BY <1>1, <2>1, <3>1, SlobFacts
  <2>4. QED
    BY <2>2, <2>3, SlobFacts
<1>2. b \in Int /\ c \in Int
  BY SlobFacts
<1>3. QED
  BY <1>1, <1>2

(* A set of blocks that has the successor of each of its blocks has all.   *)
LEMMA ClosedIsAll ==
  ASSUME NEW f, Slob(f), NEW C \in SUBSET DOMAIN f, C # {}, \A b \in C : f[b].next \in C
  PROVE  C = DOMAIN f
<1> DEFINE D == DOMAIN f
<1>1. IsFiniteSet(D) /\ D \in SUBSET Int
  BY SlobFacts
<1>2. arena \in C
  <2>1. IsFiniteSet(C) /\ C \in SUBSET Int
    BY <1>1, FS_Subset
  <2>2. PICK c \in C : \A b \in C : b <= c
    BY <2>1, Extremes
  <2>3. \A b \in D : b <= c
    <3> SUFFICES ASSUME NEW b \in D, c < b PROVE FALSE
      BY <1>1
    <3>1. c < f[c].next /\ f[c].next \in C
      BY SlobFacts
    <3>2. QED
      BY <1>1, <2>2, <3>1
  <2>4. f[c].next = arena
    BY <2>3, SlobFacts
  <2>5. QED
    BY <2>4
<1>3. SUFFICES ASSUME D \ C # {} PROVE FALSE
  OBVIOUS
<1>4. PICK b \in D \ C : \A c \in D \ C : b <= c
  <2>1. D \ C \in SUBSET Int /\ IsFiniteSet(D \ C)
    BY <1>1, FS_Subset
  <2>2. QED
    BY <1>3, <2>1, Extremes
<1> DEFINE Below == {c \in D : c < b}
<1>5. PICK p \in Below : \A c \in Below : c <= p
  <2>1. Below \in SUBSET Int /\ IsFiniteSet(Below)
    BY <1>1, FS_Subset
  <2>2. arena \in Below
    BY <1>2, <1>4, SlobFacts
  <2>3. QED
    BY <2>1, <2>2, Extremes
<1>6. p \in C
  BY <1>1, <1>4, <1>5
<1>7. p < f[p].next /\ f[p].next <= b /\ f[p].next \in D
  BY <1>4, <1>5, SlobFacts
<1>8. f[p].next = b
  BY <1>1, <1>4, <1>5, <1>7
<1>9. QED
  BY <1>4, <1>6, <1>8

(* The walk is a function on the first numbers that follows the list.      *)
LEMMA WalkFollows ==
  ASSUME NEW w, Slob(w.slob), w.slobfree \in DOMAIN w.slob,
         NEW n \in Nat, n = Cardinality(DOMAIN w.slob)
  PROVE  /\ Walk(w) \in [0..n -> DOMAIN w.slob]
         /\ Walk(w)[0] = w.slobfree
         /\ \A k \in 1..n : Walk(w)[k] = w.slob[Walk(w)[k-1]].next
<1> DEFINE f == w.slob
           s == w.slobfree
           at == Walk(w)
           Rec(g) == g = [k \in 0..n |-> IF k = 0 THEN s ELSE f[g[k-1]].next]
           step == [b \in DOMAIN f |-> f[b].next]
<1>1. /\ s \in DOMAIN f
      /\ \A b \in DOMAIN f : f[b].next \in DOMAIN f
      /\ \A b \in DOMAIN f : step[b] = f[b].next
  BY SlobFacts
<1>2. at = CHOOSE h : Rec(h)
  BY DEF Walk
<1> HIDE DEF f, s, at, step
<1>3. PICK g \in [0..n -> DOMAIN f] : g = [k \in 0..n |-> IF k = 0 THEN s ELSE step[g[k-1]]]
  <2>1. \A b \in DOMAIN f : step[b] \in DOMAIN f
    BY <1>1
  <2> DEFINE D == DOMAIN f
  <2>2. s \in D /\ \A v \in D : step[v] \in D
    BY <1>1, <2>1
  <2> HIDE DEF D
  <2>3. \E g \in [0..n -> D] : Recursion(n, s, step, g)
    BY <2>2, RecursionExists
  <2>4. QED
    BY <2>3 DEF D, Recursion
<1>4. \A k \in 0..n : g[k] = IF k = 0 THEN s ELSE step[g[k-1]]
  BY <1>3
<1>5. \A k \in 0..n : k # 0 => k - 1 \in 0..n
  OBVIOUS
<1>6. \A k \in 0..n : g[k] = IF k = 0 THEN s ELSE f[g[k-1]].next
  BY <1>1, <1>4, <1>5
<1>7. Rec(g)
  BY <1>3, <1>6
<1>8. Rec(at)
  <2> HIDE DEF Rec
  <2>1. QED
    BY <1>2, <1>7
<1>9. \A k \in 0..n : at[k] = IF k = 0 THEN s ELSE f[at[k-1]].next
  BY <1>8
<1> DEFINE Q == {k \in Nat : k <= n => at[k] \in DOMAIN f}
<1>10. 0 \in Q
  BY <1>1, <1>9
<1>11. ASSUME NEW k \in Nat, k \in Q PROVE k + 1 \in Q
  <2> SUFFICES ASSUME k + 1 <= n PROVE at[k + 1] \in DOMAIN f
    OBVIOUS
  <2>1. at[k] \in DOMAIN f /\ k + 1 \in 0..n /\ k + 1 # 0 /\ (k + 1) - 1 = k
    BY <1>11
  <2>2. at[k + 1] = f[at[k]].next
    BY <1>9, <2>1
  <2>3. QED
    BY <1>1, <2>1, <2>2
<1>12. Nat \subseteq Q
  <2> HIDE DEF Q
  <2>1. QED
    BY <1>10, <1>11, InductionOnNat
<1>13. \A k \in 0..n : at[k] \in DOMAIN f
  BY <1>12
<1>14. at \in [0..n -> DOMAIN f]
  BY <1>8, <1>13
<1>15. QED
  BY <1>9, <1>14 DEF at, f, s

(* Following the list from s through as many blocks as there are leads     *)
(* back to s and past every block.                                         *)
LEMMA AroundTheRing ==
  ASSUME NEW f, Slob(f), NEW D, D = DOMAIN f, NEW n \in Nat, n = Cardinality(D),
         NEW s \in D, NEW at \in [0..n -> D], at[0] = s,
         \A k \in 1..n : at[k] = f[at[k-1]].next
  PROVE  n >= 1 /\ at[n] = s /\ \A b \in D : \E k \in 1..n : at[k] = b
<1>1. IsFiniteSet(D) /\ n >= 1
  BY SlobFacts, FS_EmptySet
<1>3. PICK i \in 0..n, j \in 0..n : i < j /\ at[i] = at[j]
  <2>1. IsFiniteSet(0..n) /\ Cardinality(0..n) = n + 1
    BY <1>1, FS_Interval
  <2> DEFINE I == 0..n
  <2>2. IsFiniteSet(I) /\ Cardinality(D) < Cardinality(I) /\ at \in [I -> D]
    BY <1>1, <2>1
  <2> HIDE DEF I
  <2>3. PICK x \in I, y \in I : x # y /\ at[x] = at[y]
    BY <1>1, <2>2, FS_PigeonHole
  <2> USE DEF I
  <2>4. x < y \/ y < x
    BY <1>1, <2>3
  <2>5. QED
    BY <2>3, <2>4
<1>4. PICK m \in 1..n : at[m] = s
  <2> DEFINE Q == {k \in Nat : \A l \in 0..n : k < l /\ at[k] = at[l] => at[l - k] = at[0]}
  <2>1. 0 \in Q
    BY <1>1
  <2>2. ASSUME NEW k \in Nat, k \in Q PROVE k + 1 \in Q
    <3> SUFFICES ASSUME NEW l \in 0..n, k + 1 < l, at[k + 1] = at[l]
                 PROVE  at[l - (k + 1)] = at[0]
      OBVIOUS
    <3>1. /\ k + 1 \in 1..n /\ l \in 1..n /\ l - 1 \in 0..n /\ k \in 0..n
          /\ (k + 1) - 1 = k /\ (l - 1) - k = l - (k + 1) /\ k < l - 1
      BY <1>1
    <3>2. f[at[k]].next = f[at[l - 1]].next /\ at[k] \in D /\ at[l - 1] \in D
      BY <3>1
    <3>3. at[k] = at[l - 1]
      BY <3>2, NextInjective
    <3>4. QED
      BY <2>2, <3>1, <3>3
  <2>3. Nat \subseteq Q
    <3> HIDE DEF Q
    <3>1. QED
      BY <2>1, <2>2, InductionOnNat
  <2>4. at[j - i] = at[0] /\ j - i \in 1..n
    BY <1>1, <1>3, <2>3
  <2>5. QED
    BY <2>4
<1> DEFINE C == {at[k] : k \in 1..m}
<1>5. C = D
  <2>1. C \in SUBSET D /\ C # {}
    <3>1. ASSUME NEW k \in 1..m PROVE at[k] \in D
      <4>1. k \in 0..n
        BY <1>4
      <4>2. QED
        BY <4>1
    <3>2. 1 \in 1..m
      BY <1>4
    <3>3. at[1] \in C
      BY <3>2
    <3>4. C \in SUBSET D
      BY <3>1
    <3>5. QED
      BY <3>3, <3>4
  <2>2. ASSUME NEW b \in C PROVE f[b].next \in C
    <3>1. PICK k \in 1..m : b = at[k]
      OBVIOUS
    <3>2. CASE k < m
      <4>1. k + 1 \in 1..n /\ k + 1 \in 1..m /\ (k + 1) - 1 = k
        BY <1>1, <1>4, <3>2
      <4>2. QED
        BY <3>1, <4>1
    <3>3. CASE k = m
      <4>1. 1 \in 1..n /\ 1 \in 1..m /\ 1 - 1 = 0
        BY <1>1, <1>4
      <4>2. at[1] = f[at[0]].next
        BY <4>1
      <4>3. QED
        BY <1>4, <3>1, <3>3, <4>1, <4>2
    <3>4. QED
      BY <1>4, <3>2, <3>3
  <2> HIDE DEF C
  <2>3. QED
    BY <2>1, <2>2, ClosedIsAll
<1>6. m = n
  <2>1. IsFiniteSet(1..m) /\ Cardinality(1..m) = m
    BY <1>1, <1>4, FS_Interval
  <2> DEFINE g == [k \in 1..m |-> at[k]]
  <2>2. g \in Surjection(1..m, C)
    BY DEF Surjection
  <2>3. Cardinality(C) <= m
    <3> HIDE DEF g, C
    <3>1. QED
      BY <2>1, <2>2, FS_Surjection
  <2>4. QED
    BY <1>1, <1>4, <1>5, <2>3
<1>7. \A b \in D : \E k \in 1..n : at[k] = b
  BY <1>5, <1>6
<1>8. at[n] = s
  BY <1>4, <1>6
<1>9. QED
  BY <1>1, <1>7, <1>8

(* So does the walk.                                                       *)
LEMMA RingWalk ==
  ASSUME NEW w, Slob(w.slob), w.slobfree \in DOMAIN w.slob
  PROVE  LET n  == Cardinality(DOMAIN w.slob)
         IN  /\ n \in Nat \ {0}
             /\ Walk(w) \in [0..n -> DOMAIN w.slob]
             /\ Walk(w)[0] = w.slobfree /\ Walk(w)[n] = w.slobfree
             /\ \A k \in 1..n : Walk(w)[k] = w.slob[Walk(w)[k-1]].next
             /\ \A b \in DOMAIN w.slob : \E k \in 1..n : Walk(w)[k] = b
<1> DEFINE n == Cardinality(DOMAIN w.slob)
<1>1. n \in Nat
  BY SlobFacts, FS_CardinalityType
<1>2. /\ Walk(w) \in [0..n -> DOMAIN w.slob]
      /\ Walk(w)[0] = w.slobfree
      /\ \A k \in 1..n : Walk(w)[k] = w.slob[Walk(w)[k-1]].next
  BY <1>1, WalkFollows
<1>3. n >= 1 /\ Walk(w)[n] = w.slobfree /\ \A b \in DOMAIN w.slob : \E k \in 1..n : Walk(w)[k] = b
  <2> DEFINE D == DOMAIN w.slob
             f == w.slob
             at == Walk(w)
             s == w.slobfree
  <2>1. Slob(f) /\ n = Cardinality(D) /\ s \in D /\ D = DOMAIN f
    OBVIOUS
  <2>2. at \in [0..n -> D] /\ at[0] = s /\ \A k \in 1..n : at[k] = f[at[k-1]].next
    BY <1>2
  <2> HIDE DEF n, D, at, s, f
  <2>3. n >= 1 /\ at[n] = s /\ \A b \in D : \E k \in 1..n : at[k] = b
    BY <1>1, <2>1, <2>2, AroundTheRing
  <2>4. QED
    BY <2>3 DEF D, at, s
<1>4. QED
  BY <1>1, <1>2, <1>3

-----------------------------------------------------------------------------
(* A unit is in one free block at most.                                    *)
LEMMA FreeBlocksApart ==
  ASSUME NEW f, Slob(f), NEW b \in DOMAIN f, NEW c \in DOMAIN f,
         NEW u, u \in Units(b, f[b].units), u \in Units(c, f[c].units)
  PROVE  b = c
<1>1. /\ u \in Int /\ b <= u /\ u < b + f[b].units /\ c <= u /\ u < c + f[c].units
      /\ b \in Int /\ c \in Int /\ f[b].units \in Int /\ f[c].units \in Int
      /\ f[b].next \in Int /\ f[c].next \in Int
  BY SlobFacts DEF Units
<1>2. ~(b < c)
  BY <1>1, SlobFacts
<1>3. ~(c < b)
  BY <1>1, SlobFacts
<1>4. QED
  BY <1>1, <1>2, <1>3

(* The successors N of the addresses D go around in the order of addresses. *)
Ring(D, N) ==
  /\ IsFiniteSet(D) /\ D \in SUBSET Int /\ arena \in D
  /\ \A b \in D : b # arena => b >= 0
  /\ \A b \in D : N[b] \in D
  /\ \A b, c \in D : b < c => b < N[b] /\ N[b] <= c
  /\ \A b \in D : (\A c \in D : c <= b) => N[b] = arena

(* The blocks at the addresses D, with U units each, do not touch.         *)
NoneTouch(D, U) ==
  /\ \A b \in D : U[b] \in Nat \ {0}
  /\ U[arena] = 1
  /\ \A b, c \in D : b < c => b + U[b] < c

(* The sizes and the successors of the blocks.                             *)
UnitsOf(f) == [b \in DOMAIN f |-> f[b].units]
NextOf(f) == [b \in DOMAIN f |-> f[b].next]

(* Together they make a list of free blocks.                               *)
LEMMA SlobIsRing ==
  ASSUME NEW f
  PROVE  Slob(f) <=> /\ f \in [DOMAIN f -> [units : Nat \ {0}, next : DOMAIN f]]
                     /\ Ring(DOMAIN f, NextOf(f)) /\ NoneTouch(DOMAIN f, UnitsOf(f))
<1> DEFINE D == DOMAIN f
           U == UnitsOf(f)
           N == NextOf(f)
<1>1. \A b \in D : U[b] = f[b].units /\ N[b] = f[b].next
  BY DEF UnitsOf, NextOf
<1>2. ASSUME Slob(f) PROVE f \in [D -> SlobEntry(D)] /\ Ring(D, N) /\ NoneTouch(D, U)
  <2>1. f \in [D -> SlobEntry(D)]
    BY <1>2 DEF Slob
  <2>2. Ring(D, N)
    <3> HIDE DEF U, N, D
    <3>1. /\ IsFiniteSet(D) /\ D \in SUBSET Int /\ arena = -3 /\ arena \in D
          /\ \A b \in D : b \in Int /\ (b # arena => b >= 0) /\ f[b].next \in D
                          /\ f[b].next \in Int /\ f[b].units \in Nat \ {0}
          /\ \A b, c \in D : b < c => b + f[b].units < f[b].next /\ f[b].next <= c
          /\ \A b \in D : (\A c \in D : c <= b) => f[b].next = arena
      BY <1>2, SlobFacts DEF D
    <3>2. \A b, c \in D : b < c => b < f[b].next /\ f[b].next <= c
      BY <3>1
    <3>3. QED
      BY <1>1, <3>1, <3>2 DEF Ring
  <2>3. NoneTouch(D, U)
    <3> HIDE DEF U, N, D
    <3>1. /\ arena \in D /\ f[arena].units = 1
          /\ \A b \in D : b \in Int /\ f[b].next \in Int /\ f[b].units \in Nat \ {0}
          /\ \A b, c \in D : b < c => b + f[b].units < f[b].next /\ f[b].next <= c
      BY <1>2, SlobFacts DEF D
    <3>2. \A b, c \in D : b < c => b + f[b].units < c
      BY <3>1
    <3>3. QED
      BY <1>1, <3>1, <3>2 DEF NoneTouch
  <2>4. QED
    BY <2>1, <2>2, <2>3
<1>3. ASSUME f \in [D -> SlobEntry(D)], Ring(D, N), NoneTouch(D, U) PROVE Slob(f)
  <2> HIDE DEF U, N
  <2>1. /\ IsFiniteSet(D) /\ D \in SUBSET Int /\ arena \in D /\ U[arena] = 1
        /\ \A b \in D : (b # arena => b >= 0) /\ N[b] \in D /\ U[b] \in Nat \ {0}
        /\ \A b, c \in D : b < c => b < N[b] /\ N[b] <= c /\ b + U[b] < c
        /\ \A b \in D : (\A c \in D : c <= b) => N[b] = arena
    BY <1>3 DEF Ring, NoneTouch
  <2>2. \A b, c \in D : b < c => b + U[b] < N[b] /\ N[b] <= c
    BY <2>1
  <2>3. QED
    BY <1>1, <1>3, <2>1, <2>2 DEF Slob
<1>4. QED
  BY <1>2, <1>3 DEF SlobEntry

(* Two addresses have different successors.                                *)
LEMMA RingInjective ==
  ASSUME NEW D, NEW N, Ring(D, N), NEW b \in D, NEW c \in D, N[b] = N[c]
  PROVE  b = c
<1>0. /\ D \in SUBSET Int /\ arena \in D /\ arena = -3
      /\ \A x \in D : (x # arena => x >= 0) /\ N[x] \in D /\ x \in Int /\ N[x] \in Int
      /\ \A x, y \in D : x < y => x < N[x] /\ N[x] <= y
      /\ \A x \in D : (\A y \in D : y <= x) => N[x] = arena
  BY DEF Ring, arena
<1>1. ASSUME NEW x \in D, NEW y \in D, x < y PROVE N[x] # N[y]
  <2>1. x < N[x] /\ N[x] <= y /\ x >= -3
    BY <1>0, <1>1
  <2>2. CASE \A z \in D : z <= y
    BY <1>0, <2>1, <2>2
  <2>3. CASE \E z \in D : y < z
    <3>1. N[y] > y
      BY <1>0, <2>3
    <3>2. QED
      BY <1>0, <1>1, <2>1, <3>1
  <2>4. QED
    BY <1>0, <2>2, <2>3
<1>2. b \in Int /\ c \in Int
  BY <1>0
<1>3. QED
  BY <1>1, <1>2

(* An address is put behind the one below it.                              *)
LEMMA RingInsert ==
  ASSUME NEW D, NEW N, Ring(D, N), NEW b \in Nat, NEW cur \in D, cur < b,
         \A c \in D : c <= cur \/ b < c,
         NEW M, M[cur] = b, M[b] = N[cur], \A c \in D \ {cur} : M[c] = N[c]
  PROVE  Ring(D \cup {b}, M)
<1> DEFINE E == D \cup {b}
<1>0. /\ IsFiniteSet(D) /\ D \in SUBSET Int /\ arena \in D /\ arena = -3
      /\ \A x \in D : (x # arena => x >= 0) /\ N[x] \in D /\ x \in Int /\ N[x] \in Int
      /\ \A x, y \in D : x < y => x < N[x] /\ N[x] <= y
      /\ \A x \in D : (\A y \in D : y <= x) => N[x] = arena
  BY DEF Ring, arena
<1>1. IsFiniteSet(E) /\ E \in SUBSET Int /\ arena \in E
  BY <1>0, FS_AddElement
<1>2. \A x \in E : x # arena => x >= 0
  BY <1>0
<1>3. \A x \in E : x = b \/ x = cur \/ x \in D \ {cur}
  OBVIOUS
<1>4. \A x \in E : M[x] \in E
  BY <1>0, <1>3
<1>5. ASSUME NEW x \in E, NEW y \in E, x < y PROVE x < M[x] /\ M[x] <= y
  <2>1. CASE x = b
    <3>1. y \in D /\ cur < y
      BY <1>0, <1>1, <1>5, <2>1
    <3>2. cur < N[cur] /\ N[cur] <= y /\ N[cur] \in D
      BY <1>0, <3>1
    <3>3. b < N[cur]
      BY <1>0, <3>2
    <3>4. QED
      BY <2>1, <3>2, <3>3
  <2>2. CASE x = cur
    BY <1>0, <1>3, <1>5, <2>2
  <2>3. CASE x \in D \ {cur}
    <3>1. CASE y = b
      <4>1. x < cur
        BY <1>0, <1>5, <2>3, <3>1
      <4>2. x < N[x] /\ N[x] <= cur /\ N[x] \in Int
        BY <1>0, <2>3, <4>1
      <4>3. QED
        BY <1>0, <2>3, <3>1, <4>2
    <3>2. CASE y \in D
      BY <1>0, <1>5, <2>3, <3>2
    <3>3. QED
      BY <3>1, <3>2
  <2>4. QED
    BY <1>3, <2>1, <2>2, <2>3
<1>6. ASSUME NEW x \in E, \A y \in E : y <= x PROVE M[x] = arena
  <2>1. CASE x = b
    <3>1. \A y \in D : y <= cur
      BY <1>0, <1>6, <2>1
    <3>2. QED
      BY <1>0, <2>1, <3>1
  <2>2. CASE x = cur
    BY <1>0, <1>6, <2>2
  <2>3. CASE x \in D \ {cur}
    BY <1>0, <1>6, <2>3
  <2>4. QED
    BY <1>3, <2>1, <2>2, <2>3
<1>7. QED
  <2> HIDE DEF E
  <2>1. Ring(E, M)
    BY <1>1, <1>2, <1>4, <1>5, <1>6 DEF Ring
  <2>2. QED
    BY <2>1 DEF E

(* The one behind an address is taken out.                                 *)
LEMMA RingRemove ==
  ASSUME NEW D, NEW N, Ring(D, N), NEW cur \in D, N[cur] # arena,
         NEW M, M[cur] = N[N[cur]], \A c \in D \ {cur} : M[c] = N[c]
  PROVE  Ring(D \ {N[cur]}, M) /\ cur < N[cur]
<1> DEFINE nx == N[cur]
           E == D \ {nx}
<1>0. /\ IsFiniteSet(D) /\ D \in SUBSET Int /\ arena \in D /\ arena = -3
      /\ \A x \in D : (x # arena => x >= 0) /\ N[x] \in D /\ x \in Int /\ N[x] \in Int
      /\ \A x, y \in D : x < y => x < N[x] /\ N[x] <= y
      /\ \A x \in D : (\A y \in D : y <= x) => N[x] = arena
  BY DEF Ring, arena
<1>a. \A x, y \in D : N[x] = N[y] => x = y
  BY RingInjective
<1>1. /\ IsFiniteSet(E) /\ E \in SUBSET Int /\ arena \in E
      /\ \A x \in E : x # arena => x >= 0
  BY <1>0, FS_RemoveElement
<1>2. nx \in D /\ cur < nx
  <2>1. \E y \in D : cur < y
    BY <1>0
  <2>2. QED
    BY <1>0, <2>1
<1>3. \A x \in D : x <= cur \/ nx <= x
  BY <1>0
<1>4. \A x \in E : x = cur \/ x \in D \ {cur}
  OBVIOUS
<1> HIDE DEF nx
<1>b. M[cur] = N[nx] /\ N[cur] = nx
  BY DEF nx
<1>5. ASSUME NEW x \in E PROVE M[x] \in E
  <2>1. CASE x = cur
    <3>1. N[nx] # nx
      BY <1>0, <1>a, <1>b, <1>2
    <3>2. QED
      BY <1>0, <1>b, <1>2, <2>1, <3>1
  <2>2. CASE x \in D \ {cur}
    <3>1. N[x] # nx
      BY <1>a, <1>b, <2>2
    <3>2. QED
      BY <1>0, <2>2, <3>1
  <2>3. QED
    BY <1>4, <2>1, <2>2
<1>6. ASSUME NEW x \in E, NEW y \in E, x < y PROVE x < M[x] /\ M[x] <= y
  <2>1. CASE x = cur
    <3>1. nx < y
      BY <1>0, <1>2, <1>3, <1>6, <2>1
    <3>2. nx < N[nx] /\ N[nx] <= y
      BY <1>0, <1>2, <3>1
    <3>3. QED
      BY <1>0, <1>b, <1>2, <2>1, <3>2
  <2>2. CASE x \in D \ {cur}
    BY <1>0, <1>6, <2>2
  <2>3. QED
    BY <1>4, <2>1, <2>2
<1>7. ASSUME NEW x \in E, \A y \in E : y <= x PROVE M[x] = arena
  <2>1. CASE x = cur
    <3>1. \A y \in D : y <= nx
      BY <1>0, <1>2, <1>3, <1>7, <2>1
    <3>2. QED
      BY <1>0, <1>b, <1>2, <2>1, <3>1
  <2>2. CASE x \in D \ {cur}
    <3>1. cur < x
      BY <1>0, <1>2, <1>7, <2>2
    <3>2. nx <= x
      BY <1>0, <1>3, <2>2, <3>1
    <3>3. \A y \in D : y <= x
      BY <1>0, <1>2, <1>7, <3>2
    <3>4. QED
      BY <1>0, <2>2, <3>3
  <2>3. QED
    BY <1>4, <2>1, <2>2
<1>8. QED
  <2> HIDE DEF E
  <2>1. Ring(E, M)
    BY <1>1, <1>5, <1>6, <1>7 DEF Ring
  <2>2. QED
    BY <1>2, <2>1 DEF E, nx

-----------------------------------------------------------------------------
(* The units of the blocks D, all but arena's.                             *)
UnitsIn(D, U) == {u \in Int : \E b \in D : b # arena /\ b <= u /\ u < b + U[b]}

(* The free units of a list.                                               *)
FreeUnits(f) == UnitsIn(DOMAIN f, UnitsOf(f))

(* The blocks R, with what lies between them, become one block.            *)
LEMMA BlocksJoin ==
  ASSUME NEW D \in SUBSET Int, NEW U, NoneTouch(D, U), arena \in D,
         NEW R \in SUBSET D, arena \notin R,
         NEW start \in Nat, NEW stop \in Nat, start < stop,
         \A c \in D \ R : c + U[c] < start \/ stop < c,
         \A c \in R : start <= c /\ c + U[c] <= stop,
         NEW V, V[start] = stop - start, \A c \in D \ R : V[c] = U[c]
  PROVE  LET E == (D \ R) \cup {start}
         IN  /\ NoneTouch(E, V)
             /\ UnitsIn(E, V) = UnitsIn(D, U) \cup (start..(stop - 1))
<1> DEFINE E == (D \ R) \cup {start}
<1>1. /\ arena = -3 /\ U[arena] = 1
      /\ \A x \in D : x \in Int /\ U[x] \in Nat /\ U[x] > 0
      /\ \A x, y \in D : x < y => x + U[x] < y
  BY DEF NoneTouch, arena
<1>2. /\ \A x \in E : x \in Int /\ V[x] \in Nat \ {0}
      /\ \A x \in E : x = start \/ x \in D \ R
      /\ start + V[start] = stop /\ start # arena
  BY <1>1
<1>3. V[arena] = 1
  BY <1>1
<1>4. ASSUME NEW x \in E, NEW y \in E, x < y PROVE x + V[x] < y
  <2>1. CASE x = start
    BY <1>1, <1>2, <1>4, <2>1
  <2>2. CASE x \in D \ R /\ y = start
    BY <1>1, <1>2, <1>4, <2>2
  <2>3. CASE x \in D \ R /\ y \in D \ R
    BY <1>1, <1>4, <2>3
  <2>4. QED
    BY <1>2, <2>1, <2>2, <2>3
<1>5. NoneTouch(E, V)
  <2> HIDE DEF E
  <2>1. QED
    BY <1>2, <1>3, <1>4 DEF NoneTouch
<1>6. ASSUME NEW u \in UnitsIn(E, V) PROVE u \in UnitsIn(D, U) \cup (start..(stop - 1))
  <2>1. PICK x \in E : u \in Int /\ x # arena /\ x <= u /\ u < x + V[x]
    BY DEF UnitsIn
  <2>2. CASE x = start
    BY <1>2, <2>1, <2>2
  <2>3. CASE x \in D \ R
    BY <2>1, <2>3 DEF UnitsIn
  <2>4. QED
    BY <1>2, <2>2, <2>3
<1>7. ASSUME NEW u \in start..(stop - 1) PROVE u \in UnitsIn(E, V)
  <2>1. start \in E /\ u \in Int /\ start <= u /\ u < start + V[start]
    BY <1>2
  <2>2. QED
    BY <1>2, <2>1 DEF UnitsIn
<1>8. ASSUME NEW u \in UnitsIn(D, U) PROVE u \in UnitsIn(E, V)
  <2>1. PICK x \in D : u \in Int /\ x # arena /\ x <= u /\ u < x + U[x]
    BY DEF UnitsIn
  <2>2. CASE x \in R
    <3>1. u \in start..(stop - 1)
      BY <1>1, <2>1, <2>2
    <3>2. QED
      BY <1>7, <3>1
  <2>3. CASE x \in D \ R
    BY <2>1, <2>3 DEF UnitsIn
  <2>4. QED
    BY <2>2, <2>3
<1>9. QED
  BY <1>5, <1>6, <1>7, <1>8

(* The first n units of the block cur go: what was D with the units U is   *)
(* E with the units V.                                                     *)
Shrunk(D, U, cur, n, E, V) ==
  /\ D \in SUBSET Int /\ arena \in D /\ NoneTouch(D, U) /\ n \in Nat \ {0}
  /\ cur \in D /\ cur >= 0 /\ n <= U[cur]
  /\ \A c : c \in E <=> c \in D \ {cur} \/ (U[cur] # n /\ c = cur + n)
  /\ \A c \in D \ {cur} : V[c] = U[c]
  /\ U[cur] # n => V[cur + n] = U[cur] - n

(* A block that loses the n units at its front.                            *)
LEMMA BlockShrinks ==
  ASSUME NEW D, NEW U, NEW cur, NEW n, NEW E, NEW V, Shrunk(D, U, cur, n, E, V)
  PROVE  /\ NoneTouch(E, V)
         /\ \A u : u \in UnitsIn(E, V) <=> u \in UnitsIn(D, U) /\ u \notin Units(cur, n)
         /\ Units(cur, n) \subseteq UnitsIn(D, U)
         /\ U[cur] # n => cur + n \notin D /\ \A c \in D : c <= cur \/ cur + n < c
<1>0. /\ D \in SUBSET Int /\ arena \in D /\ NoneTouch(D, U) /\ n \in Nat \ {0}
      /\ cur \in D /\ cur >= 0 /\ n <= U[cur]
      /\ \A c : c \in E <=> c \in D \ {cur} \/ (U[cur] # n /\ c = cur + n)
      /\ \A c \in D \ {cur} : V[c] = U[c]
      /\ U[cur] # n => V[cur + n] = U[cur] - n
  BY DEF Shrunk
<1>1. /\ arena = -3 /\ U[arena] = 1
      /\ \A x \in D : x \in Int /\ U[x] \in Nat /\ U[x] > 0
      /\ \A x, y \in D : x < y => x + U[x] < y
  BY <1>0 DEF NoneTouch, arena
<1>2. /\ \A x \in E : (x = cur + n /\ U[cur] # n) \/ x \in D \ {cur}
      /\ \A x \in E : x \in Int /\ V[x] \in Nat \ {0}
      /\ arena \in E /\ V[arena] = 1
  <2>1. \A x \in E : (x = cur + n /\ U[cur] # n) \/ x \in D \ {cur}
    BY <1>0
  <2>2. ASSUME NEW x \in E PROVE x \in Int /\ V[x] \in Nat \ {0}
    <3>1. CASE x = cur + n /\ U[cur] # n
      <4>1. U[cur] - n \in Nat \ {0} /\ cur + n \in Int
        BY <1>0, <1>1, <3>1
      <4>2. QED
        BY <1>0, <3>1, <4>1
    <3>2. CASE x \in D \ {cur}
      <4>1. V[x] = U[x] /\ x \in D
        BY <1>0, <3>2
      <4>2. QED
        BY <1>1, <4>1
    <3>3. QED
      BY <2>1, <3>1, <3>2
  <2>3. arena \in E /\ V[arena] = 1
    BY <1>0, <1>1
  <2>4. QED
    BY <2>1, <2>2, <2>3
<1>3. U[cur] # n => cur + n \notin D /\ \A c \in D : c <= cur \/ cur + n < c
  BY <1>0, <1>1
<1>4. ASSUME NEW x \in E, NEW y \in E, x < y PROVE x + V[x] < y
  <2>1. CASE x = cur + n /\ U[cur] # n
    BY <1>0, <1>1, <1>2, <1>4, <2>1
  <2>2. CASE x \in D \ {cur} /\ y = cur + n /\ U[cur] # n
    BY <1>0, <1>1, <1>2, <1>3, <1>4, <2>2
  <2>3. CASE x \in D \ {cur} /\ y \in D \ {cur}
    BY <1>0, <1>1, <1>4, <2>3
  <2>4. QED
    BY <1>2, <2>1, <2>2, <2>3
<1>5. NoneTouch(E, V)
  BY <1>2, <1>4 DEF NoneTouch
<1>6. Units(cur, n) \subseteq UnitsIn(D, U)
  BY <1>0, <1>1 DEF Units, UnitsIn
<1>7. ASSUME NEW u \in UnitsIn(E, V) PROVE u \in UnitsIn(D, U) /\ u \notin Units(cur, n)
  <2>1. PICK x \in E : u \in Int /\ x # arena /\ x <= u /\ u < x + V[x]
    BY DEF UnitsIn
  <2>2. CASE x = cur + n /\ U[cur] # n
    BY <1>0, <1>1, <2>1, <2>2 DEF UnitsIn, Units
  <2>3. CASE x \in D \ {cur}
    <3>1. u \in UnitsIn(D, U)
      BY <1>0, <2>1, <2>3 DEF UnitsIn
    <3>2. ~(cur <= u /\ u < cur + n)
      BY <1>0, <1>1, <2>1, <2>3
    <3>3. cur \in Int /\ n \in Nat
      BY <1>0, <1>1
    <3>4. QED
      BY <2>1, <3>1, <3>2, <3>3 DEF Units
  <2>4. QED
    BY <1>2, <2>2, <2>3
<1>8. ASSUME NEW u \in UnitsIn(D, U), u \notin Units(cur, n) PROVE u \in UnitsIn(E, V)
  <2>1. PICK x \in D : u \in Int /\ x # arena /\ x <= u /\ u < x + U[x]
    BY DEF UnitsIn
  <2>2. CASE x = cur
    <3>1. cur + n <= u /\ U[cur] # n /\ cur + n \in E
      BY <1>0, <1>1, <1>8, <2>1, <2>2 DEF Units
    <3>2. u < (cur + n) + V[cur + n] /\ cur + n # arena
      BY <1>0, <1>1, <2>1, <2>2, <3>1
    <3>3. QED
      BY <2>1, <3>1, <3>2 DEF UnitsIn
  <2>3. CASE x \in D \ {cur}
    BY <1>0, <2>1, <2>3 DEF UnitsIn
  <2>4. QED
    BY <2>2, <2>3
<1>9. QED
  BY <1>3, <1>5, <1>6, <1>7, <1>8

-----------------------------------------------------------------------------
(* The list g has the addresses E with these units and successors.         *)
MadeOf(g, E, U, N) ==
  /\ DOMAIN g = E /\ g = [c \in E |-> g[c]]
  /\ \A c \in E : g[c] = [units |-> U[c], next |-> N[c]]

(* A list that is made of a ring and sizes that fit is in order.           *)
LEMMA SlobFromRing ==
  ASSUME NEW g, NEW E, NEW U, NEW N, MadeOf(g, E, U, N), Ring(E, N), NoneTouch(E, U)
  PROVE  Slob(g) /\ FreeUnits(g) = UnitsIn(E, U)
<1>0. /\ DOMAIN g = E /\ g = [c \in E |-> g[c]]
      /\ \A c \in E : g[c] = [units |-> U[c], next |-> N[c]]
  BY DEF MadeOf
<1>1. /\ IsFiniteSet(E) /\ E \in SUBSET Int /\ arena \in E
      /\ \A b \in E : (b # arena => b >= 0) /\ N[b] \in E /\ U[b] \in Nat \ {0}
      /\ U[arena] = 1
      /\ \A b, c \in E : b < c => b < N[b] /\ N[b] <= c /\ b + U[b] < c
      /\ \A b \in E : (\A c \in E : c <= b) => N[b] = arena
  BY DEF Ring, NoneTouch
<1>2. \A c \in E : g[c].units = U[c] /\ g[c].next = N[c]
  BY <1>0
<1>3. \A b, c \in E : b < c => b + U[b] < N[b] /\ N[b] <= c
  BY <1>1
<1>4. \A c \in E : g[c] \in SlobEntry(E)
  BY <1>0, <1>1 DEF SlobEntry
<1>5. g \in [E -> SlobEntry(E)]
  BY <1>0, <1>4
<1>6. Slob(g)
  BY <1>0, <1>1, <1>2, <1>3, <1>5 DEF Slob
<1>7. \A c \in E : UnitsOf(g)[c] = U[c]
  BY <1>0, <1>2 DEF UnitsOf
<1>8. FreeUnits(g) = UnitsIn(E, UnitsOf(g))
  BY <1>0 DEF FreeUnits
<1>9. UnitsIn(E, UnitsOf(g)) = UnitsIn(E, U)
  BY <1>7 DEF UnitsIn
<1>10. QED
  BY <1>6, <1>8, <1>9

(* The units and successors of a free list make a ring of blocks.          *)
RingFacts(f, D, U, N) ==
  /\ Ring(D, N) /\ NoneTouch(D, U) /\ FreeUnits(f) = UnitsIn(D, U)
  /\ IsFiniteSet(D) /\ D \in SUBSET Int /\ arena \in D /\ arena = -3
  /\ \A c \in D : /\ c \in Int /\ c >= -3 /\ (c # arena => c >= 0)
                  /\ U[c] \in Nat /\ U[c] > 0 /\ N[c] \in D /\ N[c] \in Int
                  /\ f[c].units = U[c] /\ f[c].next = N[c]
                  /\ f[c] = [units |-> U[c], next |-> N[c]]
  /\ U[arena] = 1
  /\ \A x, y \in D : x < y => x + U[x] < y /\ x < N[x] /\ N[x] <= y
  /\ \A x \in D : (\A c \in D : c <= x) => N[x] = arena

(* The ring and the sizes of a list that is in order.                      *)
LEMMA RingOfSlob ==
  ASSUME NEW f, Slob(f), NEW D, D = DOMAIN f, NEW U, U = UnitsOf(f), NEW N, N = NextOf(f)
  PROVE  RingFacts(f, D, U, N)
<1>1. Ring(D, N) /\ NoneTouch(D, U) /\ FreeUnits(f) = UnitsIn(D, U)
  BY SlobIsRing DEF FreeUnits
<1>2. \A c \in D : /\ U[c] = f[c].units /\ N[c] = f[c].next
                   /\ f[c] = [units |-> f[c].units, next |-> f[c].next]
  BY SlobFacts DEF UnitsOf, NextOf
<1>3. QED
  BY <1>1, <1>2 DEF Ring, NoneTouch, arena, RingFacts

(* A ring is known by the successors of its addresses.                     *)
LEMMA SameRing ==
  ASSUME NEW D, NEW N, Ring(D, N), NEW M, \A c \in D : M[c] = N[c]
  PROVE  Ring(D, M)
BY DEF Ring

(* Where the n units at b go: behind the block cur and below all blocks    *)
(* that come after it.                                                     *)
Behind(f, cur, b, n) ==
  /\ cur \in DOMAIN f /\ cur < b /\ cur + f[cur].units <= b
  /\ \A c \in DOMAIN f : c <= cur \/ b + n <= c

(* The list g that has them.                                               *)
LinkedRing(f, cur, b, n, g) ==
  LET next  == f[cur].next
      above == b + n = next
      below == cur + f[cur].units = b
      gone  == (IF above THEN {next} ELSE {}) \cup (IF below THEN {cur} ELSE {})
      start == IF below THEN cur ELSE b
      stop  == IF above THEN next + f[next].units ELSE b + n
  IN  /\ DOMAIN g = (DOMAIN f \ gone) \cup {start}
      /\ g[start] = [units |-> stop - start, next |-> IF above THEN f[next].next ELSE next]
      /\ ~below => g[cur] = [units |-> f[cur].units, next |-> b]
      /\ \A c \in DOMAIN f \ (gone \cup {cur}) : g[c] = f[c]
      /\ g = [c \in DOMAIN g |-> g[c]]

(* Linking a block in leaves a list in order, and its units are free.      *)
LEMMA LinkRing ==
  ASSUME NEW f, Slob(f), NEW b \in Nat, NEW n \in Nat \ {0},
         NEW cur, Behind(f, cur, b, n), NEW g, LinkedRing(f, cur, b, n, g)
  PROVE  Slob(g) /\ FreeUnits(g) = FreeUnits(f) \cup Units(b, n) /\ cur \in DOMAIN g
<1> DEFINE D     == DOMAIN f
           U     == UnitsOf(f)
           N     == NextOf(f)
           next  == N[cur]
           above == b + n = next
           below == cur + U[cur] = b
           gone  == (IF above THEN {next} ELSE {}) \cup (IF below THEN {cur} ELSE {})
           start == IF below THEN cur ELSE b
           stop  == IF above THEN next + U[next] ELSE b + n
           E     == (D \ gone) \cup {start}
           V     == [c \in E |-> IF c = start THEN stop - start ELSE U[c]]
           M     == [c \in E |-> IF c = start THEN (IF above THEN N[next] ELSE next)
                                 ELSE IF c = cur THEN b ELSE N[c]]
<1>1. /\ Ring(D, N) /\ NoneTouch(D, U) /\ FreeUnits(f) = UnitsIn(D, U)
      /\ IsFiniteSet(D) /\ D \in SUBSET Int /\ arena \in D /\ arena = -3
      /\ \A c \in D : /\ c \in Int /\ c >= -3 /\ (c # arena => c >= 0)
                      /\ U[c] \in Nat /\ U[c] > 0 /\ N[c] \in D /\ N[c] \in Int
                      /\ f[c].units = U[c] /\ f[c].next = N[c]
                      /\ f[c] = [units |-> U[c], next |-> N[c]]
      /\ U[arena] = 1
      /\ \A x, y \in D : x < y => x + U[x] < y /\ x < N[x] /\ N[x] <= y
      /\ \A x \in D : (\A c \in D : c <= x) => N[x] = arena
  <2>1. D = DOMAIN f /\ U = UnitsOf(f) /\ N = NextOf(f)
    OBVIOUS
  <2> HIDE DEF D, U, N
  <2>2. RingFacts(f, D, U, N)
    BY <2>1, RingOfSlob
  <2>3. QED
    BY <2>2 DEF RingFacts
<1>2. /\ cur \in D /\ cur < b /\ cur + U[cur] <= b
      /\ \A c \in D : c <= cur \/ b + n <= c
  BY <1>1 DEF Behind
<1>3. /\ DOMAIN g = E /\ g = [c \in E |-> g[c]]
      /\ \A c \in E : g[c] = [units |-> V[c], next |-> M[c]]
  <2>1. f[cur].next = next /\ f[cur].units = U[cur] /\ f[next].units = U[next] /\ f[next].next = N[next]
    BY <1>1, <1>2
  <2>2. /\ DOMAIN g = E /\ g = [c \in DOMAIN g |-> g[c]]
        /\ g[start] = [units |-> stop - start, next |-> IF above THEN N[next] ELSE next]
        /\ ~below => g[cur] = [units |-> U[cur], next |-> b]
        /\ \A c \in D \ (gone \cup {cur}) : g[c] = f[c]
    BY <2>1 DEF LinkedRing
  <2>3. \A c \in E : c = start \/ (c = cur /\ ~below) \/ c \in D \ (gone \cup {cur})
    OBVIOUS
  <2>4. \A c \in E : V[c] = (IF c = start THEN stop - start ELSE U[c])
    OBVIOUS
  <2>5. \A c \in E : M[c] = (IF c = start THEN (IF above THEN N[next] ELSE next)
                                 ELSE IF c = cur THEN b ELSE N[c])
    OBVIOUS
  <2>6. cur # start \/ below
    BY <1>2
  <2> HIDE DEF E, V, M, N, U, D, next, above, below, gone, start, stop
  <2>7. ASSUME NEW c \in E PROVE g[c] = [units |-> V[c], next |-> M[c]]
    <3>1. CASE c = start
      BY <2>2, <2>4, <2>5, <3>1
    <3>2. CASE c # start /\ c = cur /\ ~below
      BY <2>2, <2>4, <2>5, <3>2
    <3>3. CASE c # start /\ c \in D \ (gone \cup {cur})
      <4>1. g[c] = [units |-> U[c], next |-> N[c]]
        BY <1>1, <2>2, <3>3
      <4>2. QED
        BY <2>4, <2>5, <3>3, <4>1
    <3>4. QED
      BY <2>3, <3>1, <3>2, <3>3
  <2>8. QED
    BY <2>2, <2>7
<1>4. /\ \A c \in D : c <= cur \/ next <= c
      /\ above => next > cur /\ next # arena /\ next # b
      /\ below => cur # arena /\ cur >= 0
      /\ b \notin D /\ cur # b /\ cur \in Int
      /\ next \in D /\ next \in Int /\ next = N[cur]
  BY <1>1, <1>2
<1>5. NoneTouch(E, V) /\ UnitsIn(E, V) = UnitsIn(D, U) \cup (start..(stop - 1))
  <2>1. gone \in SUBSET D /\ arena \notin gone
    BY <1>1, <1>2, <1>4
  <2>2. start \in Nat /\ stop \in Nat /\ start < stop
    BY <1>1, <1>2, <1>4
  <2>3. ASSUME NEW c \in D \ gone PROVE c + U[c] < start \/ stop < c
    <3>a. /\ above => c # next /\ stop = next + U[next]
          /\ ~above => stop = b + n
          /\ below => c # cur /\ start = cur
          /\ ~below => start = b /\ cur + U[cur] # b
          /\ above <=> b + n = next
          /\ c \in D
      OBVIOUS
    <3>b. /\ c \in Int /\ U[c] \in Int /\ cur \in Int /\ U[cur] \in Int
          /\ next \in Int /\ U[next] \in Int
      BY <1>1, <1>2, <1>4, <3>a
    <3> HIDE DEF above, below, start, stop, gone, next, U, N, D
    <3>1. CASE c < cur
      <4>1. c + U[c] < cur
        BY <1>1, <1>2, <3>1, <3>a
      <4>2. QED
        BY <1>2, <3>a, <3>b, <4>1
    <3>2. CASE c = cur
      BY <1>2, <3>2, <3>a, <3>b
    <3>3. CASE cur < c
      <4>1. next <= c /\ b + n <= c
        BY <1>1, <1>2, <1>4, <3>3
      <4>2. CASE above
        <5>1. next < c
          BY <3>a, <3>b, <4>1, <4>2
        <5>2. next + U[next] < c
          BY <1>1, <1>4, <3>a, <5>1
        <5>3. QED
          BY <3>a, <4>2, <5>2
      <4>3. CASE ~above
        <5>1. cur < next
          BY <1>1, <1>2, <1>4, <3>3, <3>a
        <5>2. b + n <= next
          BY <1>2, <1>4, <3>b, <5>1
        <5>3. QED
          BY <3>a, <3>b, <4>1, <4>3, <5>2
      <4>4. QED
        BY <4>2, <4>3
    <3>4. QED
      BY <3>b, <3>1, <3>2, <3>3
  <2>4. ASSUME NEW c \in gone PROVE start <= c /\ c + U[c] <= stop
    BY <1>1, <1>2, <1>4
  <2>5. V[start] = stop - start /\ \A c \in D \ gone : V[c] = U[c]
    <3>1. \A c \in D \ gone : c # start /\ c \in E
      BY <1>4
    <3>2. QED
      BY <3>1
  <2>6. D \in SUBSET Int /\ NoneTouch(D, U) /\ arena \in D
    BY <1>1
  <2> HIDE DEF E, V, gone, start, stop, D, U
  <2>7. /\ NoneTouch((D \ gone) \cup {start}, V)
        /\ UnitsIn((D \ gone) \cup {start}, V) = UnitsIn(D, U) \cup (start..(stop - 1))
    BY <2>1, <2>2, <2>3, <2>4, <2>5, <2>6, BlocksJoin, SMTT(30)
  <2>8. QED
    BY <2>7 DEF E
<1>6. Ring(E, M)
  <2>a. Ring(D, N) /\ cur \in D /\ cur < b
    BY <1>1, <1>2
  <2>1. CASE ~above /\ ~below
    <3>1. /\ E = D \cup {b} /\ M[b] = N[cur] /\ M[cur] = b
          /\ \A c \in D \ {cur} : M[c] = N[c]
      BY <1>2, <1>4, <2>1
    <3>2. \A c \in D : c <= cur \/ b < c
      BY <1>1, <1>2
    <3> HIDE DEF E, M, D, N
    <3>3. Ring(D \cup {b}, M)
      BY <2>a, <3>1, <3>2, RingInsert
    <3>4. QED
      BY <3>1, <3>3
  <2>2. CASE ~above /\ below
    <3>1. E = D /\ \A c \in D : M[c] = N[c]
      BY <1>2, <1>4, <2>2
    <3> HIDE DEF E, M, D, N
    <3>2. QED
      BY <2>a, <3>1, SameRing
  <2>3. CASE above /\ below
    <3>1. E = D \ {N[cur]} /\ M[cur] = N[N[cur]] /\ \A c \in D \ {cur, next} : M[c] = N[c]
      BY <1>2, <1>4, <2>3
    <3> DEFINE K == [c \in D |-> IF c = cur THEN N[N[cur]] ELSE N[c]]
    <3>2. K[cur] = N[N[cur]] /\ \A c \in D \ {cur} : K[c] = N[c]
      BY <1>2
    <3>3. N[cur] # arena /\ \A c \in E : M[c] = K[c]
      BY <1>4, <2>3, <3>1, <3>2
    <3> HIDE DEF E, M, D, N, K
    <3>4. Ring(D \ {N[cur]}, K)
      BY <2>a, <3>2, <3>3, RingRemove
    <3>5. QED
      BY <3>1, <3>3, <3>4, SameRing
  <2>4. CASE above /\ ~below
    <3> DEFINE D2 == D \cup {b}
               N2 == [c \in D2 |-> IF c = cur THEN b ELSE IF c = b THEN N[cur] ELSE N[c]]
               K  == [c \in D2 |-> IF c = b THEN N[N[cur]] ELSE N2[c]]
    <3>1. N2[cur] = b /\ N2[b] = N[cur] /\ \A c \in D \ {cur} : N2[c] = N[c]
      BY <1>2, <1>4
    <3>2. K[b] = N[N[cur]] /\ \A c \in D2 \ {b} : K[c] = N2[c]
      OBVIOUS
    <3>3. /\ E = D2 \ {next} /\ N2[b] = next /\ next # arena /\ N2[next] = N[next]
          /\ \A c \in E : M[c] = K[c]
      <4>1. E = D2 \ {next}
        BY <1>4, <2>4
      <4>2. N2[next] = N[next]
        BY <1>4, <2>4, <3>1
      <4>3. \A c \in E : M[c] = K[c]
        BY <1>4, <2>4, <3>1, <3>2
      <4>4. QED
        BY <1>4, <2>4, <3>1, <4>1, <4>2, <4>3
    <3>4. \A c \in D : c <= cur \/ b < c
      BY <1>1, <1>2
    <3>5. Ring(D2, N2)
      <4> HIDE DEF N2, D, N, D2
      <4>a. D2 = D \cup {b}
        BY DEF D2
      <4>1. QED
        BY <2>a, <3>1, <3>4, <4>a, RingInsert
    <3>6. b \in D2 /\ K[b] = N2[N2[b]] /\ N2[b] # arena
      BY <1>4, <3>2, <3>3
    <3> HIDE DEF E, M, D, N, K, N2, D2, next
    <3>7. Ring(D2 \ {N2[b]}, K)
      BY <3>2, <3>5, <3>6, RingRemove
    <3>8. QED
      BY <3>3, <3>7, SameRing
  <2>5. QED
    BY <2>1, <2>2, <2>3, <2>4
<1>7. Slob(g) /\ FreeUnits(g) = UnitsIn(E, V)
  <2> HIDE DEF E, V, M
  <2>1. MadeOf(g, E, V, M)
    BY <1>3 DEF MadeOf
  <2>2. QED
    BY <1>5, <1>6, <2>1, SlobFromRing
<1>8. UnitsIn(D, U) \cup (start..(stop - 1)) = UnitsIn(D, U) \cup Units(b, n)
  <2>1. ASSUME NEW u \in start..(stop - 1) PROVE u \in UnitsIn(D, U) \cup Units(b, n)
    <3>1. u \in Int
      BY <1>1, <1>2, <1>4
    <3>2. CASE u < b
      <4>1. below /\ cur <= u /\ u < cur + U[cur] /\ cur # arena
        BY <1>1, <1>2, <1>4, <3>1, <3>2
      <4>2. QED
        BY <1>2, <3>1, <4>1 DEF UnitsIn
    <3>3. CASE b <= u /\ u < b + n
      BY <3>1, <3>3 DEF Units
    <3>4. CASE b + n <= u
      <4>1. above /\ next <= u /\ u < next + U[next] /\ next # arena /\ next \in D
        BY <1>1, <1>2, <1>4, <3>1, <3>4
      <4>2. QED
        BY <3>1, <4>1 DEF UnitsIn
    <3>5. QED
      BY <3>1, <3>2, <3>3, <3>4
  <2>2. ASSUME NEW u \in Units(b, n) PROVE u \in start..(stop - 1)
    BY <1>1, <1>2, <1>4 DEF Units
  <2>3. QED
    BY <2>1, <2>2
<1>9. cur \in E
  BY <1>2, <1>4
<1>10. QED
  BY <1>1, <1>3, <1>5, <1>7, <1>8, <1>9

(* The list g after n units were taken from the front of the block cur.    *)
CarvedRing(f, prev, cur, n, g) ==
  LET exact == f[cur].units = n
  IN  /\ DOMAIN g = (DOMAIN f \ {cur}) \cup (IF exact THEN {} ELSE {cur + n})
      /\ g[prev] = [units |-> f[prev].units, next |-> IF exact THEN f[cur].next ELSE cur + n]
      /\ ~exact => g[cur + n] = [units |-> f[cur].units - n, next |-> f[cur].next]
      /\ \A c \in DOMAIN f \ {cur, prev} : g[c] = f[c]
      /\ g = [c \in DOMAIN g |-> g[c]]

(* Carving leaves a list in order, and n units are no longer free.         *)
LEMMA CarveRing ==
  ASSUME NEW f, Slob(f), NEW n \in Nat, n >= 2,
         NEW prev \in DOMAIN f, NEW cur, cur = f[prev].next, f[cur].units >= n
  PROVE  /\ cur \in DOMAIN f /\ prev # cur /\ cur \in Nat
         /\ cur + n \in DOMAIN f => f[cur].units = n
         /\ Units(cur, n) \subseteq FreeUnits(f)
         /\ \A g : CarvedRing(f, prev, cur, n, g) =>
              Slob(g) /\ FreeUnits(g) = FreeUnits(f) \ Units(cur, n) /\ prev \in DOMAIN g
<1> DEFINE D == DOMAIN f
           U == UnitsOf(f)
           N == NextOf(f)
           exact == U[cur] = n
           left  == cur + n
           E == (D \ {cur}) \cup (IF exact THEN {} ELSE {left})
           V == [c \in E |-> IF c = left /\ ~exact THEN U[cur] - n ELSE U[c]]
           M == [c \in E |-> IF c = left /\ ~exact THEN N[cur]
                             ELSE IF c = prev THEN (IF exact THEN N[cur] ELSE left) ELSE N[c]]
<1>1. /\ Ring(D, N) /\ NoneTouch(D, U) /\ FreeUnits(f) = UnitsIn(D, U)
      /\ IsFiniteSet(D) /\ D \in SUBSET Int /\ arena \in D /\ arena = -3
      /\ \A c \in D : /\ c \in Int /\ c >= -3 /\ (c # arena => c >= 0)
                      /\ U[c] \in Nat /\ U[c] > 0 /\ N[c] \in D /\ N[c] \in Int
                      /\ f[c].units = U[c] /\ f[c].next = N[c]
                      /\ f[c] = [units |-> U[c], next |-> N[c]]
      /\ U[arena] = 1
      /\ \A x, y \in D : x < y => x + U[x] < y /\ x < N[x] /\ N[x] <= y
  <2>1. D = DOMAIN f /\ U = UnitsOf(f) /\ N = NextOf(f)
    OBVIOUS
  <2> HIDE DEF D, U, N
  <2>2. RingFacts(f, D, U, N)
    BY <2>1, RingOfSlob
  <2>3. QED
    BY <2>2 DEF RingFacts
<1>2. /\ prev \in D /\ cur = N[prev] /\ cur \in D /\ U[cur] >= n /\ cur # arena /\ cur >= 0
      /\ cur \in Nat /\ prev \in Int /\ cur + n \in Nat
  BY <1>1
<1> HIDE DEF D, U, N
<1> DEFINE K == [c \in D |-> IF c = prev THEN N[cur] ELSE N[c]]
<1>3. Ring(D \ {cur}, K) /\ prev < cur
  <2>1. K[prev] = N[N[prev]] /\ \A c \in D \ {prev} : K[c] = N[c]
    BY <1>2
  <2> HIDE DEF K
  <2>2. Ring(D, N) /\ prev \in D /\ N[prev] # arena
    BY <1>1, <1>2
  <2>3. Ring(D \ {N[prev]}, K) /\ prev < N[prev]
    BY <2>1, <2>2, RingRemove
  <2>4. QED
    BY <1>2, <2>3
<1>4. /\ NoneTouch(E, V)
      /\ UnitsIn(E, V) = UnitsIn(D, U) \ Units(cur, n)
      /\ Units(cur, n) \subseteq UnitsIn(D, U)
      /\ U[cur] # n => left \notin D /\ \A c \in D : c <= cur \/ left < c
  <2>1. D \in SUBSET Int /\ NoneTouch(D, U) /\ arena \in D /\ n \in Nat \ {0}
    BY <1>1
  <2>2. U[cur] # n => cur + n \notin D
    BY <1>1, <1>2 DEF NoneTouch
  <2>3. /\ \A c \in D \ {cur} : V[c] = U[c]
        /\ U[cur] # n => V[cur + n] = U[cur] - n
        /\ \A c : c \in E <=> c \in D \ {cur} \/ (U[cur] # n /\ c = cur + n)
    BY <2>2
  <2> HIDE DEF V, E
  <2>4. Shrunk(D, U, cur, n, E, V)
    BY <1>2, <2>1, <2>3 DEF Shrunk
  <2>5. /\ NoneTouch(E, V)
        /\ \A u : u \in UnitsIn(E, V) <=> u \in UnitsIn(D, U) /\ u \notin Units(cur, n)
        /\ Units(cur, n) \subseteq UnitsIn(D, U)
        /\ U[cur] # n => cur + n \notin D /\ \A c \in D : c <= cur \/ cur + n < c
    <3>1. NoneTouch(E, V)
      BY <2>4, BlockShrinks
    <3>2. \A u : u \in UnitsIn(E, V) <=> u \in UnitsIn(D, U) /\ u \notin Units(cur, n)
      BY <2>4, BlockShrinks
    <3>3. /\ Units(cur, n) \subseteq UnitsIn(D, U)
          /\ U[cur] # n => cur + n \notin D /\ \A c \in D : c <= cur \/ cur + n < c
      BY <2>4, BlockShrinks
    <3>4. QED
      BY <3>1, <3>2, <3>3
  <2>6. QED
    BY <2>5
<1>5. Ring(E, M) /\ prev \in E
  <2>1. prev \in D \ {cur} /\ K[prev] = N[cur]
    BY <1>2, <1>3
  <2>2. CASE exact
    <3>1. E = D \ {cur} /\ \A c \in E : M[c] = K[c]
      BY <2>2
    <3> HIDE DEF E, M, K
    <3>2. QED
      BY <1>3, <2>1, <3>1, SameRing
  <2>3. CASE ~exact
    <3>1. /\ E = (D \ {cur}) \cup {left} /\ left \notin D
          /\ M[prev] = left /\ M[left] = K[prev] /\ \A c \in (D \ {cur}) \ {prev} : M[c] = K[c]
      BY <1>2, <1>4, <2>1, <2>3
    <3>2. left \in Nat /\ prev < left /\ \A c \in D \ {cur} : c <= prev \/ left < c
      <4>1. \A c \in D : c <= prev \/ cur <= c
        <5> SUFFICES ASSUME NEW c \in D, prev < c PROVE cur <= c
          BY <1>1, <1>2
        <5>1. QED
          BY <1>1, <1>2
      <4>2. ASSUME NEW c \in D \ {cur}, ~(c <= prev) PROVE left < c
        BY <1>1, <1>2, <1>4, <2>3, <4>1, <4>2
      <4>3. left \in Nat /\ prev < left
        BY <1>1, <1>2, <1>3
      <4>4. QED
        BY <4>2, <4>3
    <3> HIDE DEF E, M, K, left
    <3>3. QED
      BY <1>3, <2>1, <3>1, <3>2, RingInsert
  <2>4. QED
    BY <2>2, <2>3
<1>6. ASSUME NEW g, CarvedRing(f, prev, cur, n, g)
      PROVE  Slob(g) /\ FreeUnits(g) = FreeUnits(f) \ Units(cur, n) /\ prev \in DOMAIN g
  <2>1. DOMAIN g = E /\ g = [c \in E |-> g[c]]
    BY <1>1, <1>2, <1>6 DEF CarvedRing, D
  <2>2. ASSUME NEW c \in E PROVE g[c] = [units |-> V[c], next |-> M[c]]
    <3>1. c = prev \/ (c = left /\ ~exact) \/ c \in D \ {cur, prev}
      OBVIOUS
    <3>2. /\ V[c] = IF c = left /\ ~exact THEN U[cur] - n ELSE U[c]
          /\ M[c] = IF c = left /\ ~exact THEN N[cur]
                    ELSE IF c = prev THEN (IF exact THEN N[cur] ELSE left) ELSE N[c]
      OBVIOUS
    <3>3. ~exact => left \notin D
      BY <1>4
    <3>4. /\ g[prev] = [units |-> U[prev], next |-> IF exact THEN N[cur] ELSE left]
          /\ ~exact => g[left] = [units |-> U[cur] - n, next |-> N[cur]]
          /\ \A x \in D \ {cur, prev} : g[x] = [units |-> U[x], next |-> N[x]]
      BY <1>1, <1>2, <1>6 DEF CarvedRing, D
    <3> HIDE DEF V, M, exact, left
    <3>5. QED
      BY <1>2, <3>1, <3>2, <3>3, <3>4
  <2> HIDE DEF V, M, E
  <2>a. NoneTouch(E, V) /\ Ring(E, M)
    BY <1>4, <1>5
  <2>b. MadeOf(g, E, V, M)
    BY <2>1, <2>2 DEF MadeOf
  <2>3. Slob(g) /\ FreeUnits(g) = UnitsIn(E, V)
    BY <2>a, <2>b, SlobFromRing
  <2>4. QED
    BY <1>1, <1>4, <1>5, <2>1, <2>3
<1>7. cur + n \in D => U[cur] = n
  BY <1>4
<1>8. cur \in DOMAIN f /\ prev # cur /\ cur \in Nat /\ (cur + n \in DOMAIN f => f[cur].units = n)
  BY <1>1, <1>2, <1>3, <1>7 DEF D
<1>9. QED
  BY <1>1, <1>4, <1>6, <1>8

-----------------------------------------------------------------------------
(* The heap's part of the record that the allocator's calls hand on.       *)
HeapWorld(w) ==
  /\ w = [pmm |-> w.pmm, used |-> w.used, slob |-> w.slob, slobfree |-> w.slobfree, ret |-> w.ret]
  /\ Slob(w.slob) /\ w.slobfree \in DOMAIN w.slob

(* Where slob_free stops there is room for the block, and it does stop.    *)
LEMMA PlaceIsBehind ==
  ASSUME NEW w, HeapWorld(w), NEW b \in Nat, NEW n \in Nat \ {0},
         Units(b, n) \cap FreeUnits(w.slob) = {},
         NEW cur \in DOMAIN w.slob, GoesBehind(w, cur, b)
  PROVE  Behind(w.slob, cur, b, n)
<1> DEFINE f == w.slob
           D == DOMAIN f
           U == UnitsOf(f)
           N == NextOf(f)
<1>1. /\ FreeUnits(f) = UnitsIn(D, U) /\ arena \in D /\ arena = -3
      /\ \A c \in D : /\ c \in Int /\ c >= -3 /\ (c # arena => c >= 0)
                      /\ U[c] \in Nat /\ U[c] > 0 /\ N[c] \in D /\ N[c] \in Int
                      /\ f[c].units = U[c] /\ f[c].next = N[c]
      /\ U[arena] = 1
      /\ \A x, y \in D : x < y => x + U[x] < y /\ x < N[x] /\ N[x] <= y
      /\ \A x \in D : (\A c \in D : c <= x) => N[x] = arena
  <2>1. Slob(f) /\ D = DOMAIN f /\ U = UnitsOf(f) /\ N = NextOf(f)
    BY DEF HeapWorld
  <2> HIDE DEF D, U, N, f
  <2>2. RingFacts(f, D, U, N)
    BY <2>1, RingOfSlob
  <2>3. QED
    BY <2>2 DEF RingFacts
<1> HIDE DEF U, N
<1>2. cur \in D /\ ((b > cur /\ b < N[cur]) \/ (cur >= N[cur] /\ (b > cur \/ b < N[cur])))
  BY <1>1 DEF GoesBehind
<1> HIDE DEF D, f
<1>3. cur \in D /\ cur \in Int /\ N[cur] \in Int /\ U[cur] \in Nat
  BY <1>1 DEF D, f
<1>4. \A c \in D : c > cur => N[cur] <= c /\ N[cur] > cur
  BY <1>1, <1>3
<1>5. cur >= N[cur] => N[cur] = arena /\ \A c \in D : c <= cur
  BY <1>1, <1>3, <1>4
<1>6. cur < b
  BY <1>1, <1>2, <1>3, <1>5
<1>7. \A c \in D : c <= cur \/ b < c
  BY <1>1, <1>2, <1>3, <1>4, <1>5
<1>8. \A u \in Int : b <= u /\ u < b + n => ~\E c \in D : c # arena /\ c <= u /\ u < c + U[c]
  <2>1. Units(b, n) \cap FreeUnits(f) = {}
    BY DEF f
  <2>2. SUFFICES ASSUME NEW u \in Int, b <= u, u < b + n,
                        NEW c \in D, c # arena, c <= u, u < c + U[c]
                 PROVE  FALSE
    OBVIOUS
  <2>3. u \in Units(b, n)
    BY <2>2 DEF Units
  <2>4. u \in UnitsIn(D, U)
    BY <2>2 DEF UnitsIn
  <2>5. QED
    BY <1>1, <2>1, <2>3, <2>4
<1>9. cur + U[cur] <= b
  <2>1. CASE cur = arena
    BY <1>1, <2>1
  <2>2. CASE cur # arena
    BY <1>3, <1>6, <1>8, <2>2
  <2>3. QED
    BY <2>1, <2>2
<1>10. ASSUME NEW c \in D, ~(c <= cur) PROVE b + n <= c
  <2>1. c # arena /\ b < c /\ c \in Int /\ c < c + U[c]
    BY <1>1, <1>7, <1>10
  <2>2. QED
    BY <1>8, <2>1
<1>11. QED
  BY <1>1, <1>3, <1>6, <1>9, <1>10 DEF Behind, f, D

(* A block has a place in the list.                                        *)
LEMMA PlaceExists ==
  ASSUME NEW w, HeapWorld(w), NEW b \in Nat, b \notin DOMAIN w.slob
  PROVE  \E cur \in DOMAIN w.slob : GoesBehind(w, cur, b)
<1> DEFINE f == w.slob
           D == DOMAIN f
           Below == {c \in D : c < b}
<1>1. /\ IsFiniteSet(D) /\ D \in SUBSET Int /\ arena = -3 /\ arena \in D
      /\ \A x \in D : x \in Int /\ f[x].next \in D /\ f[x].next \in Int /\ x >= -3
      /\ \A x, y \in D : x < y => x < f[x].next /\ f[x].next <= y
      /\ \A x \in D : (\A c \in D : c <= x) => f[x].next = arena
  <2>1. Slob(f) /\ D = DOMAIN f
    BY DEF HeapWorld
  <2> HIDE DEF D, f
  <2>2. RingFacts(f, D, UnitsOf(f), NextOf(f))
    BY <2>1, RingOfSlob
  <2>3. QED
    BY <2>2 DEF RingFacts
<1>2. PICK cur \in Below : \A c \in Below : c <= cur
  <2>1. Below \in SUBSET Int /\ IsFiniteSet(Below)
    BY <1>1, FS_Subset
  <2>2. arena \in Below
    BY <1>1
  <2> HIDE DEF Below
  <2>3. QED
    BY <2>1, <2>2, Extremes
<1>a. cur \in D /\ cur \in Int /\ f[cur].next \in Int /\ cur < b
  BY <1>1, <1>2
<1>b. f[cur].next \in D /\ ~(f[cur].next < b /\ cur < f[cur].next)
  BY <1>1, <1>2, <1>a
<1>c. f[cur].next # b
  BY <1>b
<1> HIDE DEF D, f, Below
<1>3. b < f[cur].next \/ cur >= f[cur].next
  BY <1>a, <1>b, <1>c
<1>4. QED
  BY <1>a, <1>3 DEF GoesBehind, D, f

(* Everything in the record but the free list stays as it was.             *)
OnlySlob(w, v) ==
  /\ v = [pmm |-> v.pmm, used |-> v.used, slob |-> v.slob, slobfree |-> v.slobfree, ret |-> v.ret]
  /\ v.pmm = w.pmm /\ v.used = w.used

(* What Linked does to the list.                                           *)
LEMMA LinkedIsRing ==
  ASSUME NEW w, HeapWorld(w), NEW b \in Nat, NEW n \in Nat \ {0},
         NEW cur, Behind(w.slob, cur, b, n)
  PROVE  LET v == Linked(w, cur, b, n)
         IN  /\ OnlySlob(w, v) /\ v.ret = w.ret /\ v.slobfree = cur
             /\ LinkedRing(w.slob, cur, b, n, v.slob)
<1> DEFINE f     == w.slob
           D     == DOMAIN f
           next  == f[cur].next
           above == b + n = next
           below == cur + f[cur].units = b
           units == IF above THEN n + f[next].units ELSE n
           after == IF above THEN f[next].next ELSE next
           left  == Restrict(f, D \ (IF above THEN {next} ELSE {}))
           g     == IF below
                    THEN [left EXCEPT ![cur] = [units |-> @.units + units, next |-> after]]
                    ELSE Put([left EXCEPT ![cur].next = b], b, [units |-> units, next |-> after])
           v     == Linked(w, cur, b, n)
<1>1. /\ cur \in D /\ cur < b /\ cur \in Int /\ next \in D /\ next \in Int
      /\ f[cur].units \in Int /\ f[next].units \in Int
      /\ \A x \in D : f[x] = [units |-> f[x].units, next |-> f[x].next]
      /\ b \notin D
  <2>1. Slob(f) /\ cur \in D /\ cur < b /\ \A c \in D : c <= cur \/ b + n <= c
    BY DEF HeapWorld, Behind
  <2> HIDE DEF f
  <2>2. /\ \A x \in D : /\ x \in Int /\ f[x].units \in Int /\ f[x].next \in D
                        /\ f[x] = [units |-> f[x].units, next |-> f[x].next]
    BY <2>1, SlobFacts
  <2>3. b \notin D
    BY <2>1, <2>2
  <2>4. QED
    BY <2>1, <2>2, <2>3
<1>2. w = [pmm |-> w.pmm, used |-> w.used, slob |-> f, slobfree |-> w.slobfree, ret |-> w.ret]
  BY DEF HeapWorld
<1>3. v = [w EXCEPT !.slob = g, !.slobfree = cur]
  BY DEF Linked
<1> HIDE DEF v
<1>4. v = [pmm |-> w.pmm, used |-> w.used, slob |-> g, slobfree |-> cur, ret |-> w.ret]
  <2> HIDE DEF g, f
  <2>1. QED
    BY <1>2, <1>3
<1>5. OnlySlob(w, v) /\ v.ret = w.ret /\ v.slobfree = cur /\ v.slob = g
  <2> HIDE DEF g, f
  <2>1. QED
    BY <1>4 DEF OnlySlob
<1>6. LinkedRing(f, cur, b, n, g)
  <2> DEFINE gone  == (IF above THEN {next} ELSE {}) \cup (IF below THEN {cur} ELSE {})
             start == IF below THEN cur ELSE b
             stop  == IF above THEN next + f[next].units ELSE b + n
             S     == D \ (IF above THEN {next} ELSE {})
  <2>1. above => next # cur
    BY <1>1
  <2>2. DOMAIN left = S /\ cur \in S /\ \A c \in S : left[c] = f[c]
    BY <1>1, <2>1 DEF Restrict
  <2>3. CASE below
    <3>1. g = [left EXCEPT ![cur] = [units |-> f[cur].units + units, next |-> after]]
      BY <2>2, <2>3
    <3> HIDE DEF left, g, f
    <3>2. /\ DOMAIN g = S /\ g[cur] = [units |-> f[cur].units + units, next |-> after]
          /\ \A c \in S \ {cur} : g[c] = f[c]
          /\ g = [c \in DOMAIN g |-> g[c]]
      BY <2>2, <3>1
    <3>3. f[cur].units + units = stop - start
      BY <1>1, <2>3
    <3>4. S = (D \ gone) \cup {start} /\ D \ (gone \cup {cur}) \in SUBSET (S \ {cur})
      BY <1>1, <2>1, <2>3
    <3>5. g[start] = [units |-> stop - start, next |-> after]
      BY <2>3, <3>2, <3>3
    <3>6. DOMAIN g = (D \ gone) \cup {start} /\ \A c \in D \ (gone \cup {cur}) : g[c] = f[c]
      BY <3>2, <3>4
    <3>7. QED
      BY <2>3, <3>2, <3>5, <3>6 DEF LinkedRing
  <2>4. CASE ~below
    <3> DEFINE h == [left EXCEPT ![cur].next = b]
    <3>1. g = Put(h, b, [units |-> units, next |-> after])
      BY <2>4
    <3>2. /\ DOMAIN h = S /\ h[cur] = [units |-> f[cur].units, next |-> b]
          /\ \A c \in S \ {cur} : h[c] = f[c]
      <4>1. left[cur] = [units |-> f[cur].units, next |-> next]
        BY <1>1, <2>2
      <4> HIDE DEF left, f
      <4>2. QED
        BY <2>2, <4>1
    <3> HIDE DEF left, g, f, h
    <3>3. /\ DOMAIN g = S \cup {b} /\ g[b] = [units |-> units, next |-> after]
          /\ \A c \in S : c # b => g[c] = h[c]
          /\ g = [c \in DOMAIN g |-> g[c]]
      BY <3>1, <3>2 DEF Put
    <3>4. units = stop - start /\ start = b
      BY <1>1, <2>4
    <3>5. g[start] = [units |-> stop - start, next |-> after]
      BY <3>3, <3>4
    <3>6. g[cur] = [units |-> f[cur].units, next |-> b]
      BY <1>1, <2>2, <3>2, <3>3
    <3>7. DOMAIN g = (D \ gone) \cup {start}
      BY <2>4, <3>3
    <3>8. \A c \in D \ (gone \cup {cur}) : g[c] = f[c]
      BY <1>1, <3>2, <3>3
    <3>9. QED
      BY <2>4, <3>3, <3>5, <3>6, <3>7, <3>8 DEF LinkedRing
  <2>5. QED
    BY <2>3, <2>4
<1>7. QED
  BY <1>5, <1>6 DEF v

(* slob_free makes the units free and keeps the rest.                      *)
LEMMA SlobFreed ==
  ASSUME NEW w, HeapWorld(w), NEW b \in Nat, NEW n \in Nat \ {0},
         Units(b, n) \cap FreeUnits(w.slob) = {}
  PROVE  LET v == slob_free(w, b, n)
         IN  /\ HeapWorld(v) /\ OnlySlob(w, v) /\ v.ret = w.ret
             /\ FreeUnits(v.slob) = FreeUnits(w.slob) \cup Units(b, n)
<1> DEFINE f == w.slob
           D == DOMAIN f
           walk == Walk(w)
           m == Cardinality(D)
           S == {i \in 0..m : GoesBehind(w, walk[i], b)}
           First(i) == i \in DOMAIN walk /\ GoesBehind(w, walk[i], b)
                         /\ \A j \in 0..(i-1) : ~GoesBehind(w, walk[j], b)
           k == CHOOSE i \in DOMAIN walk :
                  /\ GoesBehind(w, walk[i], b)
                  /\ \A j \in 0..(i-1) : ~GoesBehind(w, walk[j], b)
<1>1. /\ m \in Nat \ {0} /\ walk \in [0..m -> D]
      /\ \A c \in D : \E i \in 1..m : walk[i] = c
  BY RingWalk DEF HeapWorld
<1>2. b \notin D
  <2> SUFFICES ASSUME b \in D PROVE FALSE
    OBVIOUS
  <2>0. Slob(f)
    BY DEF HeapWorld
  <2>1. RingFacts(f, D, UnitsOf(f), NextOf(f))
    <3> HIDE DEF f
    <3>1. QED
      BY <2>0, RingOfSlob
  <2> DEFINE U == UnitsOf(f)
  <2>2. U[b] \in Nat /\ U[b] > 0 /\ FreeUnits(f) = UnitsIn(D, U) /\ arena = -3
    BY <2>1 DEF RingFacts
  <2> HIDE DEF U, f
  <2>3. b \in UnitsIn(D, U)
    BY <2>2 DEF UnitsIn
  <2>4. b \in Units(b, n)
    BY DEF Units
  <2>5. QED
    BY <2>2, <2>3, <2>4 DEF f
<1>3. PICK i \in S : \A j \in S : i <= j
  <2>1. S # {}
    BY <1>1, <1>2, PlaceExists
  <2>2. IsFiniteSet(0..m) /\ S \in SUBSET (0..m) /\ S \in SUBSET Int
    BY <1>1, FS_Interval
  <2> DEFINE I == 0..m
  <2> HIDE DEF S, I
  <2>3. S \in SUBSET Int /\ IsFiniteSet(S)
    BY <2>2, FS_Subset DEF I
  <2>4. QED
    BY <2>1, <2>3, Extremes
<1>4. First(i)
  <2>1. i \in DOMAIN walk /\ GoesBehind(w, walk[i], b) /\ i \in Int
    BY <1>1, <1>3
  <2>2. ASSUME NEW j \in 0..(i-1), GoesBehind(w, walk[j], b) PROVE FALSE
    <3> HIDE DEF walk, m
    <3>1. j \in 0..m /\ j < i /\ j \in Int
      BY <1>1, <1>3
    <3>2. QED
      BY <1>3, <2>1, <2>2, <3>1
  <2>3. QED
    BY <2>1, <2>2
<1>5. First(k)
  <2> HIDE DEF walk
  <2>1. QED
    BY <1>4
<1> DEFINE cur == walk[k]
           v == Linked(w, cur, b, n)
<1>6. cur \in D /\ GoesBehind(w, cur, b)
  <2> HIDE DEF k
  <2>1. QED
    BY <1>1, <1>5
<1>7. slob_free(w, b, n) = v
  BY DEF slob_free
<1> HIDE DEF k, cur
<1>8. Behind(f, cur, b, n)
  BY <1>6, PlaceIsBehind
<1>9. /\ OnlySlob(w, v) /\ v.ret = w.ret /\ v.slobfree = cur
      /\ LinkedRing(f, cur, b, n, v.slob)
  BY <1>8, LinkedIsRing
<1> HIDE DEF v, f
<1>10. Slob(f)
  BY DEF HeapWorld, f
<1>11. Slob(v.slob) /\ FreeUnits(v.slob) = FreeUnits(f) \cup Units(b, n) /\ cur \in DOMAIN v.slob
  BY <1>8, <1>9, <1>10, LinkRing
<1>12. HeapWorld(v)
  BY <1>9, <1>11 DEF HeapWorld, OnlySlob
<1>13. QED
  BY <1>7, <1>9, <1>11, <1>12 DEF f

(* Free units that follow one another are in one block.                    *)
LEMMA RunInBlock ==
  ASSUME NEW f, Slob(f), NEW b \in Nat, NEW n \in Nat \ {0}, Units(b, n) \subseteq FreeUnits(f)
  PROVE  \E c \in DOMAIN f : f[c].units >= n
<1> DEFINE D == DOMAIN f
           U == UnitsOf(f)
<1>1. /\ FreeUnits(f) = UnitsIn(D, U) /\ arena \in D /\ arena = -3
      /\ \A c \in D : c \in Int /\ U[c] \in Nat /\ U[c] > 0 /\ f[c].units = U[c]
      /\ \A x, y \in D : x < y => x + U[x] < y
  <2>1. RingFacts(f, D, U, NextOf(f))
    BY RingOfSlob
  <2>2. QED
    BY <2>1 DEF RingFacts
<1> HIDE DEF D, U
<1>2. \A u \in Int : b <= u /\ u < b + n => \E c \in D : c <= u /\ u < c + U[c]
  <2> SUFFICES ASSUME NEW u \in Int, b <= u, u < b + n PROVE \E c \in D : c <= u /\ u < c + U[c]
    OBVIOUS
  <2>1. u \in Units(b, n)
    BY DEF Units
  <2>2. u \in UnitsIn(D, U)
    BY <1>1, <2>1
  <2>3. QED
    BY <2>2 DEF UnitsIn
<1>3. PICK c \in D : c <= b /\ b < c + U[c]
  BY <1>2
<1> DEFINE e == c + U[c]
<1>4. e \in Int /\ e > b /\ c \in Int
  BY <1>1, <1>3
<1>5. CASE e < b + n
  <2>1. PICK d \in D : d <= e /\ e < d + U[d]
    BY <1>2, <1>4, <1>5
  <2>2. d \in Int /\ U[d] \in Nat
    BY <1>1
  <2>a. d # c
    BY <1>4, <2>1, <2>2
  <2>3. QED
    BY <1>1, <1>3, <1>4, <2>1, <2>2, <2>a
<1>6. CASE ~(e < b + n)
  <2>1. U[c] >= n
    BY <1>1, <1>3, <1>4, <1>6
  <2>2. QED
    BY <1>1, <2>1 DEF D
<1>7. QED
  BY <1>5, <1>6

(* The search takes n units from a block that has them.                    *)
LEMMA CarvedIsRing ==
  ASSUME NEW w, HeapWorld(w), NEW n \in Nat, n >= 2,
         NEW prev \in DOMAIN w.slob, NEW cur, cur = w.slob[prev].next, w.slob[cur].units >= n
  PROVE  LET v == Carved(w, prev, cur, n)
         IN  /\ OnlySlob(w, v) /\ v.ret = cur /\ v.slobfree = prev
             /\ CarvedRing(w.slob, prev, cur, n, v.slob)
<1> DEFINE f      == w.slob
           D      == DOMAIN f
           exact  == f[cur].units = n
           others == Restrict(f, D \ {cur})
           g      == IF exact
                     THEN [others EXCEPT ![prev].next = f[cur].next]
                     ELSE Put([others EXCEPT ![prev].next = cur + n], cur + n,
                              [units |-> f[cur].units - n, next |-> f[cur].next])
           v      == Carved(w, prev, cur, n)
<1>0. Slob(f)
  BY DEF HeapWorld
<1>1. /\ cur \in D /\ prev # cur
      /\ \A x \in D : f[x] = [units |-> f[x].units, next |-> f[x].next]
      /\ cur + n \in D => exact
  <2> HIDE DEF f
  <2>1. prev \in DOMAIN f /\ cur = f[prev].next /\ f[cur].units >= n
    BY DEF f
  <2>2. /\ cur \in DOMAIN f /\ prev # cur
        /\ cur + n \in DOMAIN f => f[cur].units = n
    BY <1>0, <2>1, CarveRing
  <2>3. QED
    BY <1>0, <2>2, SlobFacts
<1>2. w = [pmm |-> w.pmm, used |-> w.used, slob |-> f, slobfree |-> w.slobfree, ret |-> w.ret]
  BY DEF HeapWorld
<1>3. v = [w EXCEPT !.slob = g, !.slobfree = prev, !.ret = cur]
  BY DEF Carved, RestAt
<1> HIDE DEF v
<1>4. v = [pmm |-> w.pmm, used |-> w.used, slob |-> g, slobfree |-> prev, ret |-> cur]
  <2> HIDE DEF g, f
  <2>1. QED
    BY <1>2, <1>3
<1>5. OnlySlob(w, v) /\ v.ret = cur /\ v.slobfree = prev /\ v.slob = g
  <2> HIDE DEF g, f
  <2>1. QED
    BY <1>4 DEF OnlySlob
<1>6. CarvedRing(f, prev, cur, n, g)
  <2> DEFINE S == D \ {cur}
  <2>2. DOMAIN others = S /\ prev \in S /\ \A c \in S : others[c] = f[c]
    BY <1>1 DEF Restrict
  <2>a. others[prev] = [units |-> f[prev].units, next |-> f[prev].next]
    BY <1>1, <2>2
  <2>3. CASE exact
    <3>1. g = [others EXCEPT ![prev].next = f[cur].next]
      BY <2>3
    <3> HIDE DEF others, g, f
    <3>2. /\ DOMAIN g = S /\ g[prev] = [units |-> f[prev].units, next |-> f[cur].next]
          /\ \A c \in S \ {prev} : g[c] = f[c]
          /\ g = [c \in DOMAIN g |-> g[c]]
      BY <2>2, <2>a, <3>1
    <3>3. QED
      BY <2>3, <3>2 DEF CarvedRing
  <2>4. CASE ~exact
    <3> DEFINE h == [others EXCEPT ![prev].next = cur + n]
               left == cur + n
    <3>1. g = Put(h, left, [units |-> f[cur].units - n, next |-> f[cur].next])
      BY <2>4
    <3> HIDE DEF others, g, f, left
    <3>2. /\ DOMAIN h = S /\ h[prev] = [units |-> f[prev].units, next |-> left]
          /\ \A c \in S \ {prev} : h[c] = f[c]
      BY <2>2, <2>a DEF left
    <3> HIDE DEF h
    <3>3. /\ DOMAIN g = S \cup {left}
          /\ g[left] = [units |-> f[cur].units - n, next |-> f[cur].next]
          /\ \A c \in S : c # left => g[c] = h[c]
          /\ g = [c \in DOMAIN g |-> g[c]]
      BY <3>1, <3>2 DEF Put
    <3>4. left \notin S
      BY <1>1, <2>4 DEF left
    <3>5. /\ g[prev] = [units |-> f[prev].units, next |-> left]
          /\ \A c \in S \ {prev} : g[c] = f[c]
      BY <2>2, <3>2, <3>3, <3>4
    <3>6. QED
      BY <2>4, <3>3, <3>5 DEF CarvedRing, left
  <2>5. QED
    BY <2>3, <2>4
<1>7. QED
  BY <1>5, <1>6 DEF v

(* A search that finds a block takes n free units, and no others.          *)
LEMMA SlobSearched ==
  ASSUME NEW w, HeapWorld(w), NEW n \in Nat, n >= 2, Roomy(w, n) # {}
  PROVE  LET v == Searched(w, n)
         IN  /\ HeapWorld(v) /\ OnlySlob(w, v)
             /\ v.ret \in Nat /\ Units(v.ret, n) \subseteq FreeUnits(w.slob)
             /\ FreeUnits(v.slob) = FreeUnits(w.slob) \ Units(v.ret, n)
<1> DEFINE f == w.slob
           D == DOMAIN f
           walk == Walk(w)
           m == Cardinality(D)
           R == Roomy(w, n)
           k == CHOOSE i \in R : \A j \in R : i <= j
<1>1. /\ m \in Nat \ {0} /\ walk \in [0..m -> D]
      /\ \A i \in 1..m : walk[i] = f[walk[i-1]].next
  BY RingWalk DEF HeapWorld
<1>2. R \in SUBSET (1..m) /\ \A i \in R : f[walk[i]].units >= n
  BY DEF Roomy
<1>3. k \in R
  <2>a. R # {}
    OBVIOUS
  <2> HIDE DEF R
  <2>b. IsFiniteSet(1..m)
    BY <1>1, FS_Interval
  <2> DEFINE I == 1..m
  <2>c. I \in SUBSET Int
    BY <1>1
  <2>1. IsFiniteSet(I) /\ R \in SUBSET I /\ R \in SUBSET Int /\ R # {}
    BY <1>2, <2>a, <2>b, <2>c
  <2> HIDE DEF I
  <2>2. IsFiniteSet(R)
    BY <2>1, FS_Subset
  <2>3. \E i \in R : \A j \in R : i <= j
    BY <2>1, <2>2, Extremes
  <2>4. QED
    BY <2>3
<1> DEFINE prev == walk[k-1]
           cur  == walk[k]
           v    == Carved(w, prev, cur, n)
<1>4. Searched(w, n) = v
  BY DEF Searched
<1> HIDE DEF k, R, walk
<1>5. prev \in D /\ cur = f[prev].next /\ f[cur].units >= n
  <2>1. k \in 1..m /\ k - 1 \in 0..m
    BY <1>1, <1>2, <1>3
  <2>2. QED
    BY <1>1, <1>2, <1>3, <2>1
<1> HIDE DEF prev, cur
<1>6. /\ OnlySlob(w, v) /\ v.ret = cur /\ v.slobfree = prev
      /\ CarvedRing(f, prev, cur, n, v.slob)
  BY <1>5, CarvedIsRing
<1>7. Slob(f)
  BY DEF HeapWorld
<1> DEFINE g == v.slob
<1> HIDE DEF v, f, g
<1>8. /\ cur \in Nat /\ Units(cur, n) \subseteq FreeUnits(f)
      /\ CarvedRing(f, prev, cur, n, g) =>
           Slob(g) /\ FreeUnits(g) = FreeUnits(f) \ Units(cur, n) /\ prev \in DOMAIN g
  BY <1>5, <1>7, CarveRing
<1>9. /\ Slob(v.slob) /\ FreeUnits(v.slob) = FreeUnits(f) \ Units(cur, n)
      /\ prev \in DOMAIN v.slob
  BY <1>6, <1>8 DEF g
<1>10. HeapWorld(v)
  BY <1>6, <1>9 DEF HeapWorld, OnlySlob
<1>11. QED
  BY <1>4, <1>6, <1>8, <1>9, <1>10 DEF f

(* The units of a set of pages.                                            *)
PageUnits(P) == {u \in Nat : u \div PAGE_SIZE \in P}

(* Dividing an address gives the page that it is in.                       *)
LEMMA UnitPage ==
  /\ PAGE_SIZE \in Nat /\ PAGE_SIZE >= 4 /\ BIGBLOCK \in Nat /\ BIGBLOCK >= 2
  /\ BIGBLOCK <= PAGE_SIZE
  /\ \A u \in Nat : u \div PAGE_SIZE \in Nat
  /\ \A p \in Nat : p * PAGE_SIZE \in Nat /\ (p * PAGE_SIZE) \div PAGE_SIZE = p
                    /\ (p * PAGE_SIZE) % PAGE_SIZE = 0
                    /\ Units(p * PAGE_SIZE, PAGE_SIZE) = PageUnits({p})
<1>1. /\ PAGE_SIZE \in Nat /\ PAGE_SIZE >= 4 /\ BIGBLOCK \in Nat /\ BIGBLOCK >= 2
      /\ BIGBLOCK <= PAGE_SIZE
  BY HeapAssumption
<1> DEFINE d == PAGE_SIZE
<1>2. d \in Nat \ {0}
  BY <1>1
<1> HIDE DEF d
<1>3. ASSUME NEW u \in Nat
      PROVE  u \div d \in Nat /\ (u \div d) * d <= u /\ u < (u \div d) * d + d
  BY <1>2
<1>4. ASSUME NEW p \in Nat
      PROVE  p * d \in Nat /\ (p * d) \div d = p /\ (p * d) % d = 0
  BY <1>2
<1>5. ASSUME NEW u \in Nat, NEW p \in Nat, p * d <= u, u < p * d + d
      PROVE  u \div d = p
  BY <1>2, <1>5
<1>6. ASSUME NEW p \in Nat PROVE Units(p * d, d) = PageUnits({p})
  <2> DEFINE m == p * d
  <2>1. m \in Nat
    BY <1>4
  <2>2. ASSUME NEW u \in Units(m, d) PROVE u \in PageUnits({p})
    <3> HIDE DEF m
    <3>1. u \in Nat /\ m <= u /\ u < m + d
      BY <1>2, <2>1, <2>2 DEF Units
    <3>2. u \div d = p
      BY <1>5, <3>1 DEF m
    <3>3. QED
      BY <3>1, <3>2 DEF PageUnits, d
  <2>3. ASSUME NEW u \in PageUnits({p}) PROVE u \in Units(m, d)
    <3>1. u \in Nat /\ u \div d = p
      BY <2>3 DEF PageUnits, d
    <3>2. m <= u /\ u < m + d
      BY <1>3, <3>1
    <3> HIDE DEF m
    <3>3. QED
      BY <1>2, <2>1, <3>1, <3>2 DEF Units
  <2>4. QED
    BY <2>2, <2>3
<1>7. QED
  BY <1>1, <1>3, <1>4, <1>6 DEF d

(* What slob_alloc did when it returned a block: it may have taken a page. *)
TakenFrom(w, v, n, F, P) ==
  /\ P \subseteq F /\ v.used = w.used \cup P /\ WellFormed(v.pmm, F \ P)
  /\ HeapWorld(v) /\ v.ret \in Nat
  /\ Units(v.ret, n) \subseteq FreeUnits(w.slob) \cup PageUnits(P)
  /\ FreeUnits(v.slob) = (FreeUnits(w.slob) \cup PageUnits(P)) \ Units(v.ret, n)

(* And when it returned NULL.                                              *)
NothingTaken(w, v) == v.ret = NULL /\ OnlySlob(w, v) /\ v.slob = w.slob /\ v.slobfree = w.slobfree

(* slob_alloc takes n units, if need be of a page P more, or nothing.      *)
LEMMA SlobAllocated ==
  ASSUME NEW w, HeapWorld(w), NEW F \in SUBSET Page, WellFormed(w.pmm, F),
         NEW n \in Nat, n >= 2, n <= PAGE_SIZE,
         FreeUnits(w.slob) \cap PageUnits(F) = {}
  PROVE  LET v == slob_alloc(w, n)
         IN  NothingTaken(w, v) \/ \E P \in SUBSET F : TakenFrom(w, v, n, F, P)
<1> DEFINE v == slob_alloc(w, n)
<1>1. CASE Roomy(w, n) # {}
  <2>1. v = Searched(w, n)
    BY <1>1 DEF slob_alloc
  <2> HIDE DEF v
  <2>2. /\ HeapWorld(v) /\ OnlySlob(w, v)
        /\ v.ret \in Nat /\ Units(v.ret, n) \subseteq FreeUnits(w.slob)
        /\ FreeUnits(v.slob) = FreeUnits(w.slob) \ Units(v.ret, n)
    BY <1>1, <2>1, SlobSearched
  <2>3. PageUnits({}) = {} /\ F \ {} = F
    BY DEF PageUnits
  <2>4. TakenFrom(w, v, n, F, {})
    BY <2>2, <2>3 DEF TakenFrom, OnlySlob
  <2>5. QED
    BY <2>4 DEF v
<1>2. CASE Roomy(w, n) = {} /\ Available(w.pmm, 1)
  <2> DEFINE p == FirstFit(w.pmm, 1)
             x == [w EXCEPT !.pmm = PagesTaken(w.pmm, 1), !.used = @ \cup {p}]
             y == slob_free(x, p * PAGE_SIZE, PAGE_SIZE)
  <2>1. v = Searched(y, n) /\ y = Grown(w)
    BY <1>2 DEF slob_alloc, Grown
  <2>2. 1 \in 1..NPAGE
    BY PageAssumption
  <2>3. Run(p, 1) \subseteq F /\ WellFormed(PagesTaken(w.pmm, 1), F \ Run(p, 1))
    BY <1>2, <2>2, TakenWellFormed
  <2>4. p \in Page /\ p \in Nat /\ Run(p, 1) = {p}
    <3>1. w.pmm.free_list \in FreeLists
      BY DEF WellFormed
    <3>2. p \in Page
      BY <1>2, <3>1, FirstFitFacts DEF Blocks
    <3>3. QED
      BY <3>2 DEF Page, Run
  <2>5. /\ x.pmm = PagesTaken(w.pmm, 1) /\ x.used = w.used \cup {p}
        /\ x.slob = w.slob /\ x.slobfree = w.slobfree
        /\ x = [pmm |-> x.pmm, used |-> x.used, slob |-> x.slob, slobfree |-> x.slobfree, ret |-> x.ret]
    <3> DEFINE taken == PagesTaken(w.pmm, 1)
    <3>1. w = [pmm |-> w.pmm, used |-> w.used, slob |-> w.slob, slobfree |-> w.slobfree, ret |-> w.ret]
      BY DEF HeapWorld
    <3>a. x = [w EXCEPT !.pmm = taken, !.used = @ \cup {p}]
      OBVIOUS
    <3> HIDE DEF p, taken, x
    <3>2. x = [pmm |-> taken, used |-> w.used \cup {p}, slob |-> w.slob,
               slobfree |-> w.slobfree, ret |-> w.ret]
      BY <3>1, <3>a
    <3>3. QED
      BY <3>2 DEF taken
  <2> DEFINE b == p * PAGE_SIZE
  <2>6. b \in Nat /\ PAGE_SIZE \in Nat \ {0} /\ Units(b, PAGE_SIZE) = PageUnits({p})
    BY <2>4, UnitPage
  <2>7. HeapWorld(x)
    BY <2>5 DEF HeapWorld
  <2> HIDE DEF p, x, b, v
  <2>8. p \in F /\ Units(b, PAGE_SIZE) \cap FreeUnits(x.slob) = {}
    <3>1. p \in F
      BY <2>3, <2>4
    <3>2. PageUnits({p}) \subseteq PageUnits(F)
      BY <3>1 DEF PageUnits
    <3>3. QED
      BY <2>5, <2>6, <3>1, <3>2
  <2>9. /\ HeapWorld(y) /\ OnlySlob(x, y)
        /\ FreeUnits(y.slob) = FreeUnits(x.slob) \cup Units(b, PAGE_SIZE)
    BY <2>6, <2>7, <2>8, SlobFreed DEF b
  <2> HIDE DEF y
  <2>10. Roomy(y, n) # {}
    <3>1. Slob(y.slob) /\ y.slobfree \in DOMAIN y.slob
      BY <2>9 DEF HeapWorld
    <3>2. PICK c \in DOMAIN y.slob : y.slob[c].units >= PAGE_SIZE
      BY <2>6, <2>9, <3>1, RunInBlock
    <3>3. y.slob[c].units \in Nat
      BY <3>1, SlobFacts
    <3>4. y.slob[c].units >= n
      BY <2>6, <3>2, <3>3
    <3>5. PICK k \in 1..Cardinality(DOMAIN y.slob) : Walk(y)[k] = c
      BY <3>1, RingWalk
    <3>6. QED
      BY <3>4, <3>5 DEF Roomy
  <2>11. /\ HeapWorld(v) /\ OnlySlob(y, v)
         /\ v.ret \in Nat /\ Units(v.ret, n) \subseteq FreeUnits(y.slob)
         /\ FreeUnits(v.slob) = FreeUnits(y.slob) \ Units(v.ret, n)
    BY <2>1, <2>9, <2>10, SlobSearched
  <2>12. v.pmm = PagesTaken(w.pmm, 1) /\ v.used = w.used \cup {p}
    BY <2>5, <2>9, <2>11 DEF OnlySlob
  <2>13. TakenFrom(w, v, n, F, {p})
    BY <2>3, <2>4, <2>5, <2>6, <2>8, <2>9, <2>11, <2>12 DEF TakenFrom, p
  <2>14. {p} \in SUBSET F
    BY <2>8
  <2>15. QED
    BY <2>13, <2>14 DEF v
<1>3. CASE Roomy(w, n) = {} /\ ~Available(w.pmm, 1)
  <2>1. v = [w EXCEPT !.ret = NULL]
    BY <1>3 DEF slob_alloc
  <2>2. w = [pmm |-> w.pmm, used |-> w.used, slob |-> w.slob, slobfree |-> w.slobfree, ret |-> w.ret]
    BY DEF HeapWorld
  <2> HIDE DEF v
  <2>3. v = [pmm |-> w.pmm, used |-> w.used, slob |-> w.slob, slobfree |-> w.slobfree, ret |-> NULL]
    BY <2>1, <2>2
  <2>4. NothingTaken(w, v)
    BY <2>3 DEF NothingTaken, OnlySlob
  <2>5. QED
    BY <2>4 DEF v
<1>4. QED
  BY <1>1, <1>2, <1>3

-----------------------------------------------------------------------------
(***************************************************************************)
(* Free units and blocks in use, which are records [of, at, units] with    *)
(* the address of the object they are the header of, make up the pages hp. *)
(***************************************************************************)
UnitsOfBlock(h) == Units(h.at, h.units)

(* The free units T and the blocks of the headers H share no unit and make *)
(* up the pages hp.                                                        *)
Partition(T, H, hp) ==
  /\ \A h \in H : UnitsOfBlock(h) \cap T = {}
  /\ \A h, k \in H : h # k => UnitsOfBlock(h) \cap UnitsOfBlock(k) = {}
  /\ \A u : u \in T \/ (\E h \in H : u \in UnitsOfBlock(h)) <=> u \in PageUnits(hp)

(* A page more, all of it free.                                            *)
LEMMA PartitionGrows ==
  ASSUME NEW T, NEW H, NEW hp, Partition(T, H, hp), NEW P, P \cap hp = {}
  PROVE  Partition(T \cup PageUnits(P), H, hp \cup P)
<1>1. \A u : u \in PageUnits(hp \cup P) <=> u \in PageUnits(hp) \/ u \in PageUnits(P)
  BY DEF PageUnits
<1>2. \A u : ~(u \in PageUnits(hp) /\ u \in PageUnits(P))
  BY DEF PageUnits
<1>3. QED
  BY <1>1, <1>2 DEF Partition

(* A block more, out of the free units.                                    *)
LEMMA PartitionTakes ==
  ASSUME NEW T, NEW H, NEW hp, Partition(T, H, hp), NEW h, UnitsOfBlock(h) \subseteq T
  PROVE  Partition(T \ UnitsOfBlock(h), H \cup {h}, hp)
BY DEF Partition

(* A block less: its units are free.                                       *)
LEMMA PartitionGives ==
  ASSUME NEW T, NEW H, NEW hp, Partition(T, H, hp), NEW h \in H
  PROVE  Partition(T \cup UnitsOfBlock(h), H \ {h}, hp)
BY DEF Partition

(* The pages of a bigblock_t.                                              *)
RunOf(x) == Run(x.pages \div PAGE_SIZE, 2^x.order)

(* What bigblocks lists.                                                   *)
BigBlocks == [at : Nat, order : Nat, pages : Nat]

(* The headers of the objects O: those of small ones lie before them, those*)
(* of large ones are the bigblock_t's B.                                   *)
Headers(O, B) ==
  {[of |-> b, at |-> b - 1, units |-> O[b].units] : b \in {c \in DOMAIN O : O[c].units # 0}}
    \cup {[of |-> x.pages, at |-> x.at, units |-> BIGBLOCK] : x \in B}

(* Each bigblock_t has pages of its own, S are the pages in use.           *)
BigsRight(O, B, S, hp) ==
  /\ \A x \in B : /\ x \in BigBlocks /\ RunOf(x) \subseteq S /\ RunOf(x) \cap hp = {}
                  /\ x.pages \in DOMAIN O /\ O[x.pages].units = 0
                  /\ x.pages % PAGE_SIZE = 0
  /\ \A x, y \in B : x # y => x.pages # y.pages /\ RunOf(x) \cap RunOf(y) = {}

(* An object is a small one with its header before it, or a large one.     *)
ObjectsRight(O, B) ==
  \A b \in DOMAIN O :
    /\ b \in Nat /\ O[b].size \in Nat \ {0} /\ O[b].units \in Nat
    /\ \/ O[b].units = O[b].size + 1 /\ b >= 1
       \/ O[b].units = 0 /\ \E x \in B : x.pages = b

(* How the heap lies in memory: free units T, objects O, bigblock_t's B,   *)
(* pages in use S, of which hp are the heap's.                             *)
Layout(T, O, B, S, hp) ==
  /\ BigsRight(O, B, S, hp)
  /\ ObjectsRight(O, B)
  /\ Partition(T, Headers(O, B), hp)
  /\ hp \subseteq S

(* Powers of two are positive, and larger than the exponent.               *)
LEMMA Powers ==
  ASSUME NEW k \in Nat
  PROVE  2^k \in Nat \ {0} /\ 2^k > k
<1>1. IsFiniteSet(1..k) /\ Cardinality(1..k) = k
  BY FS_Interval
<1> DEFINE I == 1..k
           W == SUBSET I
<1>2. Cardinality(W) = 2^k /\ IsFiniteSet(W)
  BY <1>1, FS_SUBSET
<1>3. 2^k \in Nat
  BY <1>2, FS_CardinalityType
<1> DEFINE V == W \ {{}}
           f == [i \in I |-> {i}]
<1>4. IsFiniteSet(V) /\ Cardinality(V) = Cardinality(W) - 1
  BY <1>2, FS_RemoveElement
<1>5. f \in Injection(I, V)
  BY DEF Injection, IsInjective
<1>6. Cardinality(I) <= Cardinality(V)
  <2> HIDE DEF V, f, I
  <2>1. QED
    BY <1>4, <1>5, FS_Injection
<1>7. QED
  BY <1>1, <1>2, <1>3, <1>4, <1>6

(* The fields and the first page of a bigblock_t.                          *)
LEMMA RunOfFacts ==
  ASSUME NEW x \in BigBlocks
  PROVE  /\ x.at \in Nat /\ x.order \in Nat /\ x.pages \in Nat
         /\ x = [at |-> x.at, order |-> x.order, pages |-> x.pages]
         /\ x.pages \div PAGE_SIZE \in Nat /\ x.pages \div PAGE_SIZE \in RunOf(x)
<1>1. /\ x.at \in Nat /\ x.order \in Nat /\ x.pages \in Nat
      /\ x = [at |-> x.at, order |-> x.order, pages |-> x.pages]
  BY DEF BigBlocks
<1> DEFINE n == 2^x.order
           p == x.pages \div PAGE_SIZE
<1>2. n \in Nat \ {0} /\ p \in Nat
  BY <1>1, Powers, UnitPage
<1> HIDE DEF n, p
<1>3. p \in Run(p, n)
  BY <1>2 DEF Run
<1>4. QED
  BY <1>1, <1>2, <1>3 DEF RunOf, n, p

-----------------------------------------------------------------------------
(* Another page for the heap.                                              *)
LEMMA LayoutGrows ==
  ASSUME NEW T, NEW O, NEW B, NEW S, NEW hp, Layout(T, O, B, S, hp), NEW P, P \cap S = {}
  PROVE  Layout(T \cup PageUnits(P), O, B, S \cup P, hp \cup P)
<1>1. /\ BigsRight(O, B, S, hp) /\ ObjectsRight(O, B)
      /\ Partition(T, Headers(O, B), hp) /\ hp \subseteq S
  BY DEF Layout
<1>2. P \cap hp = {} /\ hp \cup P \subseteq S \cup P
  BY <1>1
<1>3. BigsRight(O, B, S \cup P, hp \cup P)
  BY <1>1 DEF BigsRight
<1>4. Partition(T \cup PageUnits(P), Headers(O, B), hp \cup P)
  BY <1>1, <1>2, PartitionGrows
<1>5. QED
  BY <1>1, <1>2, <1>3, <1>4 DEF Layout

(* The pages that others hold do not matter.                               *)
LEMMA LayoutOthers ==
  ASSUME NEW T, NEW O, NEW B, NEW S, NEW hp, Layout(T, O, B, S, hp),
         NEW R, hp \subseteq R, \A x \in B : RunOf(x) \subseteq R
  PROVE  Layout(T, O, B, R, hp)
BY DEF Layout, BigsRight

(* A small object.                                                         *)
LEMMA LayoutSmall ==
  ASSUME NEW T, NEW O, NEW B, NEW S, NEW hp, Layout(T, O, B, S, hp),
         NEW size \in Nat \ {0}, NEW ret \in Nat, Units(ret, size + 1) \subseteq T
  PROVE  /\ ret + 1 \notin DOMAIN O
         /\ Layout(T \ Units(ret, size + 1),
                   Put(O, ret + 1, [size |-> size, units |-> size + 1]), B, S, hp)
<1> DEFINE b == ret + 1
           o == [size |-> size, units |-> size + 1]
           O2 == Put(O, b, o)
           h == [of |-> b, at |-> ret, units |-> size + 1]
<1>1. /\ BigsRight(O, B, S, hp) /\ ObjectsRight(O, B)
      /\ Partition(T, Headers(O, B), hp) /\ hp \subseteq S
  BY DEF Layout
<1>2. ret \in T /\ b \in T /\ b \in Nat
  <2>1. ret \in Units(ret, size + 1) /\ b \in Units(ret, size + 1)
    BY DEF Units
  <2>2. QED
    BY <2>1
<1>3. b \notin DOMAIN O
  <2> SUFFICES ASSUME b \in DOMAIN O PROVE FALSE
    OBVIOUS
  <2>1. CASE O[b].units = O[b].size + 1
    <3> DEFINE k == [of |-> b, at |-> b - 1, units |-> O[b].units]
    <3>1. O[b].size \in Nat \ {0}
      BY <1>1 DEF ObjectsRight
    <3>2. k \in Headers(O, B)
      BY <2>1, <3>1 DEF Headers
    <3>3. b - 1 = ret /\ O[b].units \in Nat /\ O[b].units > 0
      BY <2>1, <3>1
    <3>4. ret \in Units(b - 1, O[b].units)
      BY <3>3 DEF Units
    <3>5. ret \in UnitsOfBlock(k)
      BY <3>4 DEF UnitsOfBlock
    <3> HIDE DEF k, b
    <3>6. QED
      BY <1>1, <1>2, <3>2, <3>5 DEF Partition
  <2>2. CASE O[b].units = 0 /\ \E x \in B : x.pages = b
    <3>1. PICK x \in B : x.pages = b
      BY <2>2
    <3>2. b \div PAGE_SIZE \in RunOf(x)
      BY <1>1, <3>1, RunOfFacts DEF BigsRight
    <3>3. b \div PAGE_SIZE \in hp
      BY <1>1, <1>2 DEF Partition, PageUnits
    <3>4. QED
      BY <1>1, <3>1, <3>2, <3>3 DEF BigsRight
  <2>3. QED
    BY <1>1, <2>1, <2>2 DEF ObjectsRight
<1> HIDE DEF b, o
<1>4. DOMAIN O2 = DOMAIN O \cup {b} /\ O2[b] = o /\ \A c \in DOMAIN O : O2[c] = O[c]
  BY <1>3 DEF Put
<1>5. o.size = size /\ o.units = size + 1 /\ o.units \in Nat /\ o.units # 0 /\ b - 1 = ret /\ b >= 1
  BY DEF o, b
<1> HIDE DEF O2
<1>6. BigsRight(O2, B, S, hp)
  BY <1>1, <1>4 DEF BigsRight
<1>7. ObjectsRight(O2, B)
  BY <1>1, <1>2, <1>4, <1>5 DEF ObjectsRight
<1>8. Headers(O2, B) = Headers(O, B) \cup {h}
  <2>1. \A c : c \in DOMAIN O2 /\ O2[c].units # 0 <=> (c \in DOMAIN O /\ O[c].units # 0) \/ c = b
    BY <1>3, <1>4, <1>5
  <2>2. h = [of |-> b, at |-> b - 1, units |-> O2[b].units]
    BY <1>4, <1>5
  <2> HIDE DEF h
  <2>3. QED
    BY <1>4, <2>1, <2>2 DEF Headers
<1>9. Partition(T \ UnitsOfBlock(h), Headers(O, B) \cup {h}, hp)
  <2>1. UnitsOfBlock(h) = Units(ret, size + 1)
    BY DEF UnitsOfBlock
  <2>2. QED
    BY <1>1, <2>1, PartitionTakes
<1>10. Layout(T \ UnitsOfBlock(h), O2, B, S, hp)
  BY <1>1, <1>6, <1>7, <1>8, <1>9 DEF Layout
<1>11. QED
  BY <1>3, <1>10 DEF UnitsOfBlock, O2, b, o

(* A large object.                                                         *)
LEMMA LayoutBig ==
  ASSUME NEW T, NEW O, NEW B, NEW S, NEW hp, Layout(T, O, B, S, hp),
         NEW size \in Nat \ {0}, NEW ret \in Nat, Units(ret, BIGBLOCK) \subseteq T,
         NEW base \in Nat, NEW order \in Nat, Run(base, 2^order) \cap S = {},
         NEW x, x = [at |-> ret, order |-> order, pages |-> base * PAGE_SIZE]
  PROVE  /\ x.pages \notin DOMAIN O
         /\ Layout(T \ Units(ret, BIGBLOCK), Put(O, x.pages, [size |-> size, units |-> 0]),
                   B \cup {x}, S \cup Run(base, 2^order), hp)
<1> DEFINE b == x.pages
           o == [size |-> size, units |-> 0]
           O2 == Put(O, b, o)
           h == [of |-> b, at |-> ret, units |-> BIGBLOCK]
           R == Run(base, 2^order)
<1>1. /\ BigsRight(O, B, S, hp) /\ ObjectsRight(O, B)
      /\ Partition(T, Headers(O, B), hp) /\ hp \subseteq S
  BY DEF Layout
<1>2. /\ b \in Nat /\ b \div PAGE_SIZE = base /\ b % PAGE_SIZE = 0
      /\ x \in BigBlocks /\ RunOf(x) = R /\ base \in R /\ x.at = ret
  <2>1. b = base * PAGE_SIZE /\ x.order = order /\ x.at = ret
    OBVIOUS
  <2>2. b \in Nat /\ b \div PAGE_SIZE = base /\ b % PAGE_SIZE = 0
    BY <2>1, UnitPage
  <2>3. x \in BigBlocks
    BY <2>1, <2>2 DEF BigBlocks
  <2>4. RunOf(x) = R
    BY <2>1, <2>2 DEF RunOf
  <2>5. QED
    BY <2>1, <2>2, <2>3, <2>4, RunOfFacts
<1>3. base \notin S
  BY <1>2
<1>4. b \notin DOMAIN O
  <2> SUFFICES ASSUME b \in DOMAIN O PROVE FALSE
    OBVIOUS
  <2>1. CASE O[b].units = O[b].size + 1 /\ b >= 1
    <3> DEFINE k == [of |-> b, at |-> b - 1, units |-> O[b].units]
    <3>1. O[b].size \in Nat \ {0}
      BY <1>1 DEF ObjectsRight
    <3>2. k \in Headers(O, B)
      BY <2>1, <3>1 DEF Headers
    <3>3. b - 1 \in Nat /\ O[b].units \in Nat /\ O[b].units >= 2
      BY <1>2, <2>1, <3>1
    <3> HIDE DEF b
    <3>4. b \in Units(b - 1, O[b].units)
      BY <1>2, <3>3 DEF Units
    <3>5. b \in UnitsOfBlock(k)
      BY <3>4 DEF UnitsOfBlock
    <3> HIDE DEF k
    <3>6. base \in hp
      BY <1>1, <1>2, <3>2, <3>5 DEF Partition, PageUnits
    <3>7. QED
      BY <1>1, <1>3, <3>6
  <2>2. CASE \E y \in B : y.pages = b
    <3>1. PICK y \in B : y.pages = b
      BY <2>2
    <3>2. base \in RunOf(y)
      BY <1>1, <1>2, <3>1, RunOfFacts DEF BigsRight
    <3>3. QED
      BY <1>1, <1>3, <3>1, <3>2 DEF BigsRight
  <2>3. QED
    BY <1>1, <2>1, <2>2 DEF ObjectsRight
<1>5. \A y \in B : y # x /\ y.pages # b
  BY <1>1, <1>4 DEF BigsRight
<1>6. x.pages = b
  OBVIOUS
<1> HIDE DEF b, o, R
<1>7. DOMAIN O2 = DOMAIN O \cup {b} /\ O2[b] = o /\ \A c \in DOMAIN O : O2[c] = O[c]
  BY <1>4 DEF Put
<1>8. o.size = size /\ o.units = 0
  BY DEF o
<1>a. R \cap S = {}
  BY DEF R
<1> HIDE DEF O2
<1>9. BigsRight(O2, B \cup {x}, S \cup R, hp)
  <2>1. ASSUME NEW y \in B \cup {x}
        PROVE  /\ y \in BigBlocks /\ RunOf(y) \subseteq S \cup R /\ RunOf(y) \cap hp = {}
               /\ y.pages \in DOMAIN O2 /\ O2[y.pages].units = 0
               /\ y.pages % PAGE_SIZE = 0
    <3>1. CASE y \in B
      BY <1>1, <1>7, <3>1 DEF BigsRight
    <3>2. CASE y = x
      BY <1>1, <1>2, <1>6, <1>7, <1>8, <1>a, <3>2
    <3>3. QED
      BY <3>1, <3>2
  <2>2. ASSUME NEW y \in B \cup {x}, NEW z \in B \cup {x}, y # z
        PROVE  y.pages # z.pages /\ RunOf(y) \cap RunOf(z) = {}
    <3>1. \A t \in B : t.pages # x.pages /\ RunOf(t) \cap RunOf(x) = {}
      BY <1>1, <1>2, <1>5, <1>6, <1>a DEF BigsRight
    <3>2. CASE y \in B /\ z \in B
      BY <1>1, <2>2, <3>2 DEF BigsRight
    <3>3. QED
      BY <2>2, <3>1, <3>2
  <2>3. QED
    BY <2>1, <2>2 DEF BigsRight
<1>10. ObjectsRight(O2, B \cup {x})
  <2> SUFFICES ASSUME NEW c \in DOMAIN O2
               PROVE  /\ c \in Nat /\ O2[c].size \in Nat \ {0} /\ O2[c].units \in Nat
                      /\ \/ O2[c].units = O2[c].size + 1 /\ c >= 1
                         \/ O2[c].units = 0 /\ \E y \in B \cup {x} : y.pages = c
    BY DEF ObjectsRight
  <2>1. CASE c = b
    BY <1>2, <1>6, <1>7, <1>8, <2>1
  <2>2. CASE c \in DOMAIN O
    BY <1>1, <1>7, <2>2 DEF ObjectsRight
  <2>3. QED
    BY <1>7, <2>1, <2>2
<1>11. Headers(O2, B \cup {x}) = Headers(O, B) \cup {h}
  <2>1. \A c : c \in DOMAIN O2 /\ O2[c].units # 0 <=> (c \in DOMAIN O /\ O[c].units # 0)
    BY <1>4, <1>7, <1>8
  <2>2. h = [of |-> x.pages, at |-> x.at, units |-> BIGBLOCK]
    BY <1>2, <1>6
  <2> HIDE DEF h
  <2>3. QED
    BY <1>7, <2>1, <2>2 DEF Headers
<1>12. Partition(T \ UnitsOfBlock(h), Headers(O, B) \cup {h}, hp)
  <2>1. UnitsOfBlock(h) = Units(ret, BIGBLOCK)
    BY DEF UnitsOfBlock
  <2>2. QED
    BY <1>1, <2>1, PartitionTakes
<1>13. Layout(T \ UnitsOfBlock(h), O2, B \cup {x}, S \cup R, hp)
  BY <1>1, <1>9, <1>10, <1>11, <1>12 DEF Layout
<1>14. QED
  BY <1>4, <1>13 DEF UnitsOfBlock, O2, b, o, R

(* A small object is given back.                                           *)
LEMMA LayoutSmallFreed ==
  ASSUME NEW T, NEW O, NEW B, NEW S, NEW hp, Layout(T, O, B, S, hp),
         NEW b \in DOMAIN O, O[b].units # 0
  PROVE  /\ b - 1 \in Nat /\ O[b].units \in Nat \ {0}
         /\ Units(b - 1, O[b].units) \cap T = {}
         /\ Layout(T \cup Units(b - 1, O[b].units), Restrict(O, DOMAIN O \ {b}), B, S, hp)
<1> DEFINE O2 == Restrict(O, DOMAIN O \ {b})
           h  == [of |-> b, at |-> b - 1, units |-> O[b].units]
<1>1. /\ BigsRight(O, B, S, hp) /\ ObjectsRight(O, B)
      /\ Partition(T, Headers(O, B), hp) /\ hp \subseteq S
  BY DEF Layout
<1>2. DOMAIN O2 = DOMAIN O \ {b} /\ \A c \in DOMAIN O \ {b} : O2[c] = O[c]
  BY DEF Restrict
<1> HIDE DEF O2
<1>3. /\ O[b].units = O[b].size + 1 /\ b >= 1 /\ b \in Nat /\ O[b].size \in Nat \ {0}
      /\ \A x \in B : x.pages # b
  BY <1>1 DEF ObjectsRight, BigsRight
<1>4. BigsRight(O2, B, S, hp)
  BY <1>1, <1>2, <1>3 DEF BigsRight
<1>5. ObjectsRight(O2, B)
  BY <1>1, <1>2 DEF ObjectsRight
<1>6. h \in Headers(O, B)
  BY <1>3 DEF Headers
<1>7. Headers(O2, B) = Headers(O, B) \ {h}
  <2>1. ASSUME NEW k \in Headers(O2, B) PROVE k \in Headers(O, B) /\ k # h
    <3>1. CASE \E c \in DOMAIN O2 : O2[c].units # 0 /\ k = [of |-> c, at |-> c - 1, units |-> O2[c].units]
      BY <1>2, <3>1 DEF Headers
    <3>2. CASE \E x \in B : k = [of |-> x.pages, at |-> x.at, units |-> BIGBLOCK]
      BY <1>3, <3>2 DEF Headers
    <3>3. QED
      BY <3>1, <3>2 DEF Headers
  <2>2. ASSUME NEW k \in Headers(O, B), k # h PROVE k \in Headers(O2, B)
    <3>1. CASE \E c \in DOMAIN O : O[c].units # 0 /\ k = [of |-> c, at |-> c - 1, units |-> O[c].units]
      BY <1>2, <2>2, <3>1 DEF Headers
    <3>2. CASE \E x \in B : k = [of |-> x.pages, at |-> x.at, units |-> BIGBLOCK]
      BY <3>2 DEF Headers
    <3>3. QED
      BY <3>1, <3>2 DEF Headers
  <2>3. QED
    BY <2>1, <2>2
<1>8. Partition(T \cup UnitsOfBlock(h), Headers(O, B) \ {h}, hp) /\ UnitsOfBlock(h) \cap T = {}
  <2> HIDE DEF h
  <2>1. QED
    BY <1>1, <1>6, PartitionGives DEF Partition
<1>9. UnitsOfBlock(h) = Units(b - 1, O[b].units)
  BY DEF UnitsOfBlock
<1>10. Layout(T \cup UnitsOfBlock(h), O2, B, S, hp)
  BY <1>1, <1>4, <1>5, <1>7, <1>8 DEF Layout
<1>11. b - 1 \in Nat /\ O[b].units \in Nat \ {0}
  BY <1>3
<1>12. Units(b - 1, O[b].units) \cap T = {}
  BY <1>8, <1>9
<1>13. Layout(T \cup Units(b - 1, O[b].units), Restrict(O, DOMAIN O \ {b}), B, S, hp)
  <2>1. Layout(T \cup Units(b - 1, O[b].units), O2, B, S, hp)
    <3> HIDE DEF h
    <3>1. QED
      BY <1>9, <1>10
  <2>2. QED
    BY <2>1 DEF O2
<1>14. QED
  BY <1>11, <1>12, <1>13

(* A large one is.                                                         *)
LEMMA LayoutBigFreed ==
  ASSUME NEW T, NEW O, NEW B, NEW S, NEW hp, Layout(T, O, B, S, hp), NEW x \in B
  PROVE  /\ Units(x.at, BIGBLOCK) \cap T = {}
         /\ Layout(T \cup Units(x.at, BIGBLOCK), Restrict(O, DOMAIN O \ {x.pages}), B \ {x},
                   S \ RunOf(x), hp)
<1> DEFINE b  == x.pages
           O2 == Restrict(O, DOMAIN O \ {b})
           h  == [of |-> b, at |-> x.at, units |-> BIGBLOCK]
           B2 == B \ {x}
           S2 == S \ RunOf(x)
<1>1. /\ BigsRight(O, B, S, hp) /\ ObjectsRight(O, B)
      /\ Partition(T, Headers(O, B), hp) /\ hp \subseteq S
  BY DEF Layout
<1>2. DOMAIN O2 = DOMAIN O \ {b} /\ \A c \in DOMAIN O \ {b} : O2[c] = O[c]
  BY DEF Restrict
<1>3. /\ O[b].units = 0 /\ b \in DOMAIN O
      /\ \A y \in B2 : y.pages # b /\ RunOf(y) \cap RunOf(x) = {}
  BY <1>1 DEF BigsRight
<1> HIDE DEF O2
<1>4. BigsRight(O2, B2, S2, hp)
  <2>1. ASSUME NEW y \in B2
        PROVE  /\ y \in BigBlocks /\ RunOf(y) \subseteq S2 /\ RunOf(y) \cap hp = {}
               /\ y.pages \in DOMAIN O2 /\ O2[y.pages].units = 0
               /\ y.pages % PAGE_SIZE = 0
    BY <1>1, <1>2, <1>3 DEF BigsRight
  <2>2. \A y, z \in B2 : y # z => y.pages # z.pages /\ RunOf(y) \cap RunOf(z) = {}
    BY <1>1 DEF BigsRight
  <2> HIDE DEF B2, S2
  <2>3. QED
    BY <2>1, <2>2 DEF BigsRight
<1>5. ObjectsRight(O2, B2)
  <2> SUFFICES ASSUME NEW c \in DOMAIN O2
               PROVE  /\ c \in Nat /\ O2[c].size \in Nat \ {0} /\ O2[c].units \in Nat
                      /\ \/ O2[c].units = O2[c].size + 1 /\ c >= 1
                         \/ O2[c].units = 0 /\ \E y \in B2 : y.pages = c
    BY DEF ObjectsRight
  <2>1. c \in DOMAIN O /\ c # b /\ O2[c] = O[c]
    BY <1>2
  <2>2. QED
    BY <1>1, <2>1 DEF ObjectsRight
<1>6. h \in Headers(O, B)
  BY DEF Headers
<1>7. Headers(O2, B2) = Headers(O, B) \ {h}
  <2>1. ASSUME NEW k \in Headers(O2, B2) PROVE k \in Headers(O, B) /\ k # h
    <3>1. CASE \E c \in DOMAIN O2 : O2[c].units # 0 /\ k = [of |-> c, at |-> c - 1, units |-> O2[c].units]
      BY <1>2, <3>1 DEF Headers
    <3>2. CASE \E y \in B2 : k = [of |-> y.pages, at |-> y.at, units |-> BIGBLOCK]
      BY <1>3, <3>2 DEF Headers
    <3>3. QED
      BY <3>1, <3>2 DEF Headers
  <2>2. ASSUME NEW k \in Headers(O, B), k # h PROVE k \in Headers(O2, B2)
    <3>1. CASE \E c \in DOMAIN O : O[c].units # 0 /\ k = [of |-> c, at |-> c - 1, units |-> O[c].units]
      <4>1. PICK c \in DOMAIN O :
              O[c].units # 0 /\ k = [of |-> c, at |-> c - 1, units |-> O[c].units]
        BY <3>1
      <4>2. c \in DOMAIN O2 /\ O2[c] = O[c]
        BY <1>2, <1>3, <4>1
      <4>3. QED
        BY <4>1, <4>2 DEF Headers
    <3>2. CASE \E y \in B : k = [of |-> y.pages, at |-> y.at, units |-> BIGBLOCK]
      BY <2>2, <3>2 DEF Headers
    <3>3. QED
      BY <3>1, <3>2 DEF Headers
  <2>3. QED
    BY <2>1, <2>2
<1>8. Partition(T \cup UnitsOfBlock(h), Headers(O, B) \ {h}, hp) /\ UnitsOfBlock(h) \cap T = {}
  <2> HIDE DEF h
  <2>1. QED
    BY <1>1, <1>6, PartitionGives DEF Partition
<1>9. UnitsOfBlock(h) = Units(x.at, BIGBLOCK)
  BY DEF UnitsOfBlock
<1>10. hp \subseteq S2
  BY <1>1 DEF BigsRight
<1>11. Layout(T \cup UnitsOfBlock(h), O2, B2, S2, hp)
  <2> HIDE DEF h, B2, S2
  <2>1. QED
    BY <1>4, <1>5, <1>7, <1>8, <1>10 DEF Layout
<1>12. QED
  BY <1>8, <1>9, <1>11 DEF O2

-----------------------------------------------------------------------------
(***************************************************************************)
(* The inductive invariant of the heap on the page allocator: the pages'   *)
(* invariant; the ring of free blocks is sorted, merged and contains       *)
(* slobfree; and some set hp of pages is made up of the free units and the *)
(* headers of objects and big blocks, nothing twice and nothing left over, *)
(* while each big object has a run of pages that is in use and nobody      *)
(* else's.                                                                 *)
(***************************************************************************)
Bigs == {x \in BigBlocks : InList(x, bigblocks)}

HeapInv ==
  /\ PageInv
  /\ Slob(slob) /\ slobfree \in DOMAIN slob
  /\ bigblocks \in Seq(BigBlocks) /\ NoRepeat(bigblocks)
  /\ \E hp : Layout(FreeUnits(slob), objects, Bigs, used, hp)

(* At first there is only the arena's own block.                           *)
LEMMA HeapInvInit == HeapInit => HeapInv
<1> SUFFICES ASSUME HeapInit PROVE HeapInv
  OBVIOUS
<1>1. /\ PageInit /\ slob = [b \in {arena} |-> [units |-> 1, next |-> arena]]
      /\ slobfree = arena /\ bigblocks = <<>> /\ objects = <<>>
  BY DEF HeapInit
<1>2. PageInv
  BY <1>1, PageInvInit
<1>3. DOMAIN slob = {arena} /\ slob[arena] = [units |-> 1, next |-> arena] /\ arena = -3
  BY <1>1 DEF arena
<1>4. Slob(slob) /\ FreeUnits(slob) = {}
  <2> DEFINE U == [b \in {arena} |-> 1]
             N == [b \in {arena} |-> arena]
  <2>1. MadeOf(slob, {arena}, U, N)
    BY <1>1, <1>3 DEF MadeOf
  <2>2. IsFiniteSet({arena})
    BY FS_Singleton
  <2>3. Ring({arena}, N) /\ NoneTouch({arena}, U) /\ UnitsIn({arena}, U) = {}
    BY <1>3, <2>2 DEF Ring, NoneTouch, UnitsIn
  <2> HIDE DEF U, N
  <2>4. QED
    BY <2>1, <2>3, SlobFromRing
<1>5. Bigs = {} /\ bigblocks \in Seq(BigBlocks) /\ NoRepeat(bigblocks)
  BY <1>1, EmptyList DEF Bigs
<1>6. DOMAIN objects = {}
  BY <1>1
<1>7. Layout({}, objects, {}, used, {})
  BY <1>6 DEF Layout, BigsRight, ObjectsRight, Partition, Headers, PageUnits
<1>8. QED
  BY <1>1, <1>2, <1>3, <1>4, <1>5, <1>7 DEF HeapInv

(* The model's own sets of blocks and pages, in terms of the layout.       *)
LEMMA HeapAreas ==
  ASSUME HeapInv, NEW hp, Layout(FreeUnits(slob), objects, Bigs, used, hp)
  PROVE  /\ SmallObjects = {b \in DOMAIN objects : objects[b].units # 0}
         /\ \A i \in 1..Len(bigblocks) : bigblocks[i] \in Bigs
         /\ \A c : c \in ObjectBlocks <=> \E h \in Headers(objects, Bigs) : c = UnitsOfBlock(h)
         /\ \A u : (\E c \in FreeBlocks : u \in c) <=> u \in FreeUnits(slob)
         /\ HeapPages = hp
         /\ \A p : p \in BigPages <=> \E x \in Bigs : p \in RunOf(x)
<1> DEFINE H == Headers(objects, Bigs)
           T == FreeUnits(slob)
<1>1. /\ BigsRight(objects, Bigs, used, hp) /\ ObjectsRight(objects, Bigs)
      /\ Partition(T, H, hp) /\ hp \subseteq used
  BY DEF Layout
<1>2. /\ PageInv /\ Slob(slob) /\ bigblocks \in Seq(BigBlocks) /\ used \subseteq Page
  BY DEF HeapInv, PageInv
<1>3. /\ \A i \in 1..Len(bigblocks) : bigblocks[i] \in Bigs
      /\ \A x \in Bigs : \E i \in 1..Len(bigblocks) : bigblocks[i] = x
  BY <1>2, ElementOfSeq DEF Bigs, InList
<1>4. ASSUME NEW b \in DOMAIN objects
      PROVE  BigAt(b) = {} <=> objects[b].units # 0
  <2>1. CASE objects[b].units # 0
    <3>1. \A i \in 1..Len(bigblocks) : bigblocks[i].pages # b
      BY <1>1, <1>3, <2>1 DEF BigsRight
    <3>2. QED
      BY <2>1, <3>1 DEF BigAt
  <2>2. CASE objects[b].units = 0
    <3>1. PICK x \in Bigs : x.pages = b
      BY <1>1, <2>2 DEF ObjectsRight
    <3>2. PICK i \in 1..Len(bigblocks) : bigblocks[i] = x
      BY <1>3
    <3>3. i \in BigAt(b)
      BY <1>1, <3>1, <3>2 DEF BigAt, BigsRight
    <3>4. QED
      BY <2>2, <3>3
  <2>3. QED
    BY <2>1, <2>2
<1>5. SmallObjects = {b \in DOMAIN objects : objects[b].units # 0}
  BY <1>4 DEF SmallObjects
<1>6. \A c : c \in ObjectBlocks <=> \E h \in H : c = UnitsOfBlock(h)
  <2>1. \A b \in SmallObjects : /\ objects[b].size + 1 = objects[b].units
                                /\ b \in DOMAIN objects /\ objects[b].units # 0
    BY <1>1, <1>5 DEF ObjectsRight
  <2>2. ASSUME NEW c, c \in ObjectBlocks PROVE \E h \in H : c = UnitsOfBlock(h)
    <3>1. CASE \E b \in SmallObjects : c = Units(b - 1, objects[b].size + 1)
      <4>1. PICK b \in SmallObjects : c = Units(b - 1, objects[b].size + 1)
        BY <3>1
      <4>2. [of |-> b, at |-> b - 1, units |-> objects[b].units] \in H
        BY <2>1 DEF Headers
      <4>3. QED
        BY <2>1, <4>1, <4>2 DEF UnitsOfBlock
    <3>2. CASE \E i \in 1..Len(bigblocks) : c = Units(bigblocks[i].at, BIGBLOCK)
      <4>1. PICK i \in 1..Len(bigblocks) : c = Units(bigblocks[i].at, BIGBLOCK)
        BY <3>2
      <4>2. [of |-> bigblocks[i].pages, at |-> bigblocks[i].at, units |-> BIGBLOCK] \in H
        BY <1>3 DEF Headers
      <4>3. QED
        BY <4>1, <4>2 DEF UnitsOfBlock
    <3>3. QED
      BY <2>2, <3>1, <3>2 DEF ObjectBlocks
  <2>3. ASSUME NEW h \in H PROVE UnitsOfBlock(h) \in ObjectBlocks
    <3>1. CASE \E b \in DOMAIN objects : /\ objects[b].units # 0
                                         /\ h = [of |-> b, at |-> b - 1, units |-> objects[b].units]
      <4>1. PICK b \in DOMAIN objects : /\ objects[b].units # 0
                                        /\ h = [of |-> b, at |-> b - 1, units |-> objects[b].units]
        BY <3>1
      <4>2. b \in SmallObjects
        BY <1>5, <4>1
      <4>3. UnitsOfBlock(h) = Units(b - 1, objects[b].size + 1)
        BY <2>1, <4>1, <4>2 DEF UnitsOfBlock
      <4>4. QED
        BY <4>2, <4>3 DEF ObjectBlocks
    <3>2. CASE \E x \in Bigs : h = [of |-> x.pages, at |-> x.at, units |-> BIGBLOCK]
      <4>1. PICK i \in 1..Len(bigblocks) :
              h = [of |-> bigblocks[i].pages, at |-> bigblocks[i].at, units |-> BIGBLOCK]
        BY <1>3, <3>2
      <4>2. UnitsOfBlock(h) = Units(bigblocks[i].at, BIGBLOCK)
        BY <4>1 DEF UnitsOfBlock
      <4>3. QED
        BY <4>2 DEF ObjectBlocks
    <3>3. QED
      BY <3>1, <3>2 DEF Headers
  <2>4. QED
    BY <2>2, <2>3
<1>7. \A u : (\E c \in FreeBlocks : u \in c) <=> u \in T
  <2> DEFINE D == DOMAIN slob
             U == UnitsOf(slob)
             N == NextOf(slob)
  <2>1. RingFacts(slob, D, U, N)
    BY <1>2, RingOfSlob
  <2> HIDE DEF U, N
  <2>2. /\ T = UnitsIn(D, U)
        /\ \A b \in D : b \in Int /\ U[b] \in Nat /\ slob[b].units = U[b]
    BY <2>1 DEF RingFacts
  <2>3. ASSUME NEW u
        PROVE  (\E b \in D \ {arena} : u \in Units(b, U[b])) <=> u \in UnitsIn(D, U)
    BY <2>2 DEF UnitsIn, Units
  <2>4. ASSUME NEW u
        PROVE  (\E c \in FreeBlocks : u \in c) <=> \E b \in D \ {arena} : u \in Units(b, U[b])
    BY <2>2 DEF FreeBlocks
  <2>5. QED
    BY <2>2, <2>3, <2>4
<1>8. HeapPages = hp
  <2>1. ASSUME NEW u
        PROVE  u \in UNION (ObjectBlocks \cup FreeBlocks) <=> u \in PageUnits(hp)
    <3>1. u \in UNION (ObjectBlocks \cup FreeBlocks)
            <=> (\E c \in ObjectBlocks : u \in c) \/ (\E c \in FreeBlocks : u \in c)
      OBVIOUS
    <3>2. (\E c \in ObjectBlocks : u \in c) <=> \E h \in H : u \in UnitsOfBlock(h)
      BY <1>6
    <3>3. u \in T \/ (\E h \in H : u \in UnitsOfBlock(h)) <=> u \in PageUnits(hp)
      BY <1>1 DEF Partition
    <3>4. QED
      BY <1>7, <3>1, <3>2, <3>3
  <2>2. HeapPages = {u \div PAGE_SIZE : u \in PageUnits(hp)}
    BY <2>1 DEF HeapPages, PagesOf
  <2>3. ASSUME NEW p \in hp PROVE p \in HeapPages
    <3>1. p \in Nat
      BY <1>1, <1>2, PageAssumption DEF Page
    <3>2. p * PAGE_SIZE \in Nat /\ (p * PAGE_SIZE) \div PAGE_SIZE = p
      BY <3>1, UnitPage
    <3> DEFINE u == p * PAGE_SIZE
    <3>3. u \in PageUnits(hp) /\ u \div PAGE_SIZE = p
      BY <3>2 DEF PageUnits
    <3> HIDE DEF u
    <3>4. QED
      BY <2>2, <3>3
  <2>4. \A p \in HeapPages : p \in hp
    BY <2>2 DEF PageUnits
  <2>5. QED
    BY <2>3, <2>4
<1>9. \A p : p \in BigPages <=> \E x \in Bigs : p \in RunOf(x)
  <2>1. \A p : p \in BigPages <=> \E i \in 1..Len(bigblocks) : p \in RunOf(bigblocks[i])
    BY DEF BigPages, RunOf
  <2>2. QED
    BY <1>3, <2>1
<1>10. QED
  BY <1>3, <1>5, <1>6, <1>7, <1>8, <1>9

(* The pages that others hold, for any layout of the heap.                 *)
LentRight ==
  \A hp : Layout(FreeUnits(slob), objects, Bigs, used, hp) =>
    \A p : p \in LentPages <=> p \in used /\ p \notin hp /\ \A x \in Bigs : p \notin RunOf(x)

(* It follows from what the blocks and pages of the heap are.              *)
LEMMA HeapLent == HeapInv => LentRight
<1> SUFFICES ASSUME HeapInv, NEW hp, Layout(FreeUnits(slob), objects, Bigs, used, hp), NEW p
             PROVE  p \in LentPages <=> p \in used /\ p \notin hp /\ \A x \in Bigs : p \notin RunOf(x)
  BY DEF LentRight
<1>1. HeapPages = hp /\ (p \in BigPages <=> \E x \in Bigs : p \in RunOf(x))
  BY HeapAreas
<1>2. QED
  BY <1>1 DEF LentPages

(* The same after a step.                                                  *)
LEMMA HeapLentNext == HeapInv' => LentRight'
BY HeapLent, PTL

(* What the record of the allocator's calls must satisfy with the          *)
(* bigblock_t's B and the objects O.                                       *)
GoodWorld(v) ==
  /\ HeapWorld(v) /\ v.used \subseteq Page /\ v.used \cap reserved = {}
  /\ WellFormed(v.pmm, Page \ (v.used \cup reserved))

(* The pages S, less those of the heap, are the ones lent to others now.   *)
LentWith(S, hp, B) ==
  \A p : p \in LentPages <=> p \in S /\ p \notin hp /\ \A x \in B : p \notin RunOf(x)

(* A call that hands on a good record, with objects that fit it, leaves    *)
(* the invariant true and others their pages.                              *)
LEMMA HeapBecomes ==
  ASSUME HeapInv, NEW v, Becomes(v), GoodWorld(v),
         bigblocks' \in Seq(BigBlocks), NoRepeat(bigblocks'),
         NEW hp, Layout(FreeUnits(v.slob), objects', Bigs', v.used, hp),
         LentWith(v.used, hp, Bigs')
  PROVE  HeapInv' /\ LentPages' = LentPages
<1>1. /\ pmm' = v.pmm /\ used' = v.used /\ slob' = v.slob /\ slobfree' = v.slobfree
      /\ reserved' = reserved /\ booted' = booted /\ swap_init_ok' = swap_init_ok
  BY DEF Becomes
<1>2. /\ Slob(v.slob) /\ v.slobfree \in DOMAIN v.slob
      /\ v.used \subseteq Page /\ v.used \cap reserved = {}
      /\ WellFormed(v.pmm, Page \ (v.used \cup reserved))
  BY DEF GoodWorld, HeapWorld
<1>3. reserved \subseteq Page /\ booted \in BOOLEAN /\ swap_init_ok \in BOOLEAN
  BY DEF HeapInv, PageInv
<1>4. Free' = Page \ (v.used \cup reserved)
  BY <1>1 DEF Free
<1>5. PageInv'
  BY <1>1, <1>2, <1>3, <1>4 DEF PageInv
<1>6. Slob(slob') /\ slobfree' \in DOMAIN slob'
  BY <1>1, <1>2
<1>7. \E h : Layout(FreeUnits(slob'), objects', Bigs', used', h)
  BY <1>1
<1>8. HeapInv'
  BY <1>5, <1>6, <1>7 DEF HeapInv
<1>9. LentPages' = LentPages
  <2>1. Layout(FreeUnits(slob'), objects', Bigs', used', hp)
    BY <1>1
  <2>2. \A p : p \in LentPages' <=> p \in used' /\ p \notin hp /\ \A x \in Bigs' : p \notin RunOf(x)
    BY <1>8, <2>1, HeapLentNext DEF LentRight
  <2>3. QED
    BY <1>1, <2>2 DEF LentWith
<1>10. QED
  BY <1>8, <1>9

(* The record that a call begins with.                                     *)
LEMMA HeapWorldNow ==
  ASSUME HeapInv
  PROVE  /\ GoodWorld(World) /\ Free \in SUBSET Page /\ WellFormed(pmm, Free)
         /\ World.pmm = pmm /\ World.used = used /\ World.slob = slob
         /\ World.slobfree = slobfree
BY DEF HeapInv, PageInv, GoodWorld, HeapWorld, World, Free

(* After slob_alloc the units it returned belong to nobody, like the free  *)
(* ones.                                                                   *)
Allocated(v, n, hp) ==
  /\ GoodWorld(v) /\ v.ret \in Nat
  /\ Units(v.ret, n) \cap FreeUnits(v.slob) = {}
  /\ Layout(FreeUnits(v.slob) \cup Units(v.ret, n), objects, Bigs, v.used, hp)
  /\ LentWith(v.used, hp, Bigs)

(* slob_alloc of the heap as it is now.                                    *)
LEMMA HeapAllocated ==
  ASSUME HeapInv, NEW n \in Nat, n >= 2, n <= PAGE_SIZE
  PROVE  \/ NothingTaken(World, slob_alloc(World, n))
         \/ \E hp : Allocated(slob_alloc(World, n), n, hp)
<1> DEFINE v == slob_alloc(World, n)
           T == FreeUnits(slob)
<1>1. /\ GoodWorld(World) /\ Free \in SUBSET Page /\ WellFormed(pmm, Free)
      /\ World.pmm = pmm /\ World.used = used /\ World.slob = slob
  BY HeapWorldNow
<1>2. used \subseteq Page /\ used \cap reserved = {} /\ Free = Page \ (used \cup reserved)
  BY DEF HeapInv, PageInv, Free
<1>3. PICK hp : Layout(T, objects, Bigs, used, hp)
  BY DEF HeapInv
<1>4. T \cap PageUnits(Free) = {}
  BY <1>2, <1>3 DEF Layout, Partition, PageUnits
<1>5. NothingTaken(World, v) \/ \E P \in SUBSET Free : TakenFrom(World, v, n, Free, P)
  BY <1>1, <1>4, SlobAllocated DEF GoodWorld
<1> HIDE DEF v
<1>6. ASSUME NEW P \in SUBSET Free, TakenFrom(World, v, n, Free, P)
      PROVE  \E h : Allocated(v, n, h)
  <2>1. /\ v.used = used \cup P /\ WellFormed(v.pmm, Free \ P)
        /\ HeapWorld(v) /\ v.ret \in Nat
        /\ Units(v.ret, n) \subseteq T \cup PageUnits(P)
        /\ FreeUnits(v.slob) = (T \cup PageUnits(P)) \ Units(v.ret, n)
    BY <1>1, <1>6 DEF TakenFrom
  <2>2. Free \ P = Page \ (v.used \cup reserved)
    BY <1>2, <2>1
  <2>3. GoodWorld(v)
    BY <1>2, <2>1, <2>2 DEF GoodWorld
  <2>4. P \cap used = {}
    BY <1>2
  <2>5. Layout(T \cup PageUnits(P), objects, Bigs, used \cup P, hp \cup P)
    <3> HIDE DEF T
    <3>1. QED
      BY <1>3, <2>4, LayoutGrows
  <2>6. FreeUnits(v.slob) \cup Units(v.ret, n) = T \cup PageUnits(P)
    BY <2>1
  <2>a. LentWith(v.used, hp \cup P, Bigs)
    <3>1. LentWith(used, hp, Bigs) /\ \A x \in Bigs : RunOf(x) \subseteq used
      BY <1>3, HeapLent DEF LentRight, LentWith, Layout, BigsRight
    <3>2. QED
      BY <2>1, <2>4, <3>1 DEF LentWith
  <2>7. Allocated(v, n, hp \cup P)
    BY <2>1, <2>3, <2>5, <2>6, <2>a DEF Allocated
  <2>8. QED
    BY <2>7
<1>7. QED
  BY <1>5, <1>6 DEF v

(* Every object is where it was, and of its size.                          *)
ObjectsStay == \A b \in DOMAIN objects : b \in DOMAIN objects' /\ objects'[b] = objects[b]

(* kmalloc of less than a page.                                            *)
LEMMA HeapSmall ==
  ASSUME HeapInv, NEW size \in Sizes, kmalloc_small(size)
  PROVE  HeapInv' /\ LentPages' = LentPages /\ Bigs' = Bigs /\ ObjectsStay
<1> DEFINE n == size + 1
           v == slob_alloc(World, n)
<1>1. /\ size \in Nat \ {0} /\ n \in Nat /\ n >= 2 /\ n <= PAGE_SIZE
  BY HeapAssumption DEF kmalloc_small, Small
<1>2. /\ Becomes(v) /\ bigblocks' = bigblocks
      /\ objects' = IF v.ret = NULL THEN objects
                    ELSE Put(objects, v.ret + 1, [size |-> size, units |-> n])
  BY DEF kmalloc_small
<1>3. NothingTaken(World, v) \/ \E hp : Allocated(v, n, hp)
  BY <1>1, HeapAllocated
<1>4. bigblocks' \in Seq(BigBlocks) /\ NoRepeat(bigblocks') /\ Bigs' = Bigs
  BY <1>2 DEF HeapInv, Bigs
<1> HIDE DEF v
<1>5. CASE NothingTaken(World, v)
  <2>1. /\ v.ret = NULL /\ OnlySlob(World, v) /\ v.slob = slob /\ v.slobfree = slobfree
        /\ v.pmm = pmm /\ v.used = used
    BY <1>5, HeapWorldNow DEF NothingTaken, OnlySlob
  <2>2. GoodWorld(v)
    BY <2>1, HeapWorldNow DEF GoodWorld, HeapWorld, OnlySlob
  <2>3. PICK hp : Layout(FreeUnits(slob), objects, Bigs, used, hp)
    BY DEF HeapInv
  <2>4. Layout(FreeUnits(v.slob), objects', Bigs', v.used, hp)
    BY <1>2, <1>4, <2>1, <2>3
  <2>5. LentWith(v.used, hp, Bigs')
    BY <1>4, <2>1, <2>3, HeapLent DEF LentRight, LentWith
  <2>6. HeapInv' /\ LentPages' = LentPages
    BY <1>2, <1>4, <2>2, <2>4, <2>5, HeapBecomes
  <2>7. ObjectsStay
    BY <1>2, <2>1 DEF ObjectsStay
  <2>8. QED
    BY <1>4, <2>6, <2>7
<1>6. ASSUME NEW hp, Allocated(v, n, hp) PROVE HeapInv' /\ LentPages' = LentPages /\ ObjectsStay
  <2> DEFINE T == FreeUnits(v.slob) \cup Units(v.ret, n)
  <2>1. /\ GoodWorld(v) /\ v.ret \in Nat /\ Units(v.ret, n) \cap FreeUnits(v.slob) = {}
        /\ Layout(T, objects, Bigs, v.used, hp) /\ LentWith(v.used, hp, Bigs)
    BY <1>6 DEF Allocated
  <2>2. v.ret # NULL
    BY <2>1 DEF NULL
  <2>3. T \ Units(v.ret, n) = FreeUnits(v.slob) /\ Units(v.ret, n) \subseteq T
    BY <2>1
  <2> HIDE DEF T
  <2> DEFINE O2 == Put(objects, v.ret + 1, [size |-> size, units |-> size + 1])
  <2>4. Layout(T \ Units(v.ret, size + 1), O2, Bigs, v.used, hp) /\ v.ret + 1 \notin DOMAIN objects
    BY <1>1, <2>1, <2>3, LayoutSmall
  <2>5. objects' = O2
    BY <1>2, <2>2
  <2>a. ObjectsStay
    BY <2>4, <2>5 DEF ObjectsStay, Put
  <2> HIDE DEF O2
  <2>6. Layout(FreeUnits(v.slob), objects', Bigs', v.used, hp)
    BY <1>4, <2>3, <2>4, <2>5
  <2>7. HeapInv' /\ LentPages' = LentPages
    BY <1>2, <1>4, <2>1, <2>6, HeapBecomes
  <2>8. QED
    BY <2>7, <2>a
<1>7. QED
  BY <1>3, <1>4, <1>5, <1>6

(* find_order has an answer.                                               *)
LEMMA OrderIsNat ==
  ASSUME NEW size \in Nat
  PROVE  find_order(size) \in Nat
<1> DEFINE Half(k) == size \div 2^k
           I == 0..size
           K == {k \in I : Half(k) <= PAGE_SIZE}
<1>1. ASSUME NEW k \in Nat PROVE Half(k) \in Nat
  <2> DEFINE d == 2^k
  <2>1. d \in Nat \ {0}
    BY Powers
  <2> HIDE DEF d
  <2>2. size \div d \in Nat
    BY <2>1
  <2>3. QED
    BY <2>2 DEF d
<1>2. Half(size) = 0
  <2> DEFINE d == 2^size
  <2>1. d \in Nat \ {0} /\ d > size
    BY Powers
  <2> HIDE DEF d
  <2>2. size \div d = 0
    BY <2>1
  <2>3. QED
    BY <2>2 DEF d
<1>3. PAGE_SIZE \in Nat
  BY UnitPage
<1> HIDE DEF Half
<1>4. size \in K
  BY <1>2, <1>3
<1>5. IsFiniteSet(I) /\ I \in SUBSET Int
  BY FS_Interval
<1>6. \A k \in I : k \in Nat
  OBVIOUS
<1> HIDE DEF I
<1>7. K \in SUBSET I
  OBVIOUS
<1>8. IsFiniteSet(K) /\ K \in SUBSET Int
  BY <1>5, <1>7, FS_Subset
<1>9. PICK k \in K : \A j \in K : k <= j
  <2> HIDE DEF K
  <2>1. QED
    BY <1>4, <1>8, Extremes
<1>10. k \in I /\ Half(k) <= PAGE_SIZE
  BY <1>9
<1>11. ASSUME NEW j \in 0..(k-1) PROVE Half(j) > PAGE_SIZE
  <2>1. j \in I /\ j \in Nat /\ ~(k <= j)
    BY <1>10 DEF I
  <2>2. j \notin K
    BY <1>9, <2>1
  <2>3. QED
    BY <1>1, <1>3, <2>1, <2>2
<1>12. find_order(size) \in 0..size
  BY <1>10, <1>11 DEF find_order, Half, I
<1>13. QED
  BY <1>12

(* kmalloc of a page or more adds no bigblock_t but the one of its object. *)
BigsFrom(size) ==
  \A y \in Bigs' : y \in Bigs \/ (y.order = find_order(size) /\ objects'[y.pages].size = size)

(* The invariant after it.                                                 *)
LEMMA HeapBig ==
  ASSUME HeapInv, NEW size \in Sizes, kmalloc_big(size)
  PROVE  HeapInv' /\ LentPages' = LentPages /\ BigsFrom(size) /\ ObjectsStay
<1> DEFINE v     == slob_alloc(World, BIGBLOCK)
           order == find_order(size)
           n     == 2^order
           base  == FirstFit(v.pmm, n)
           x     == [at |-> v.ret, order |-> order, pages |-> base * PAGE_SIZE]
           u     == [v EXCEPT !.pmm = PagesTaken(v.pmm, n), !.used = @ \cup Run(base, n)]
           back  == slob_free(v, v.ret, BIGBLOCK)
<1>1. size \in Nat \ {0} /\ BIGBLOCK \in Nat /\ BIGBLOCK >= 2 /\ BIGBLOCK <= PAGE_SIZE
  BY HeapAssumption, UnitPage
<1>2. order \in Nat /\ n \in Nat \ {0}
  BY <1>1, OrderIsNat, Powers
<1>3. \/ v.ret = NULL /\ Becomes(v) /\ UNCHANGED <<bigblocks, objects>>
      \/ v.ret # NULL /\ Becomes(back) /\ UNCHANGED <<bigblocks, objects>>
      \/ /\ v.ret # NULL /\ Available(v.pmm, n) /\ Becomes(u)
         /\ bigblocks' = <<x>> \o bigblocks
         /\ objects' = Put(objects, base * PAGE_SIZE, [size |-> size, units |-> 0])
  BY DEF kmalloc_big
<1>4. NothingTaken(World, v) \/ \E hp : Allocated(v, BIGBLOCK, hp)
  BY <1>1, HeapAllocated
<1>5. bigblocks \in Seq(BigBlocks) /\ NoRepeat(bigblocks)
  BY DEF HeapInv
<1> HIDE DEF v, order, n
<1>6. CASE NothingTaken(World, v)
  <2>1. /\ v.ret = NULL /\ OnlySlob(World, v) /\ v.slob = slob /\ v.slobfree = slobfree
        /\ v.pmm = pmm /\ v.used = used
    BY <1>6, HeapWorldNow DEF NothingTaken, OnlySlob
  <2>2. GoodWorld(v)
    BY <2>1, HeapWorldNow DEF GoodWorld, HeapWorld, OnlySlob
  <2>3. PICK hp : Layout(FreeUnits(slob), objects, Bigs, used, hp)
    BY DEF HeapInv
  <2>4. Becomes(v) /\ bigblocks' = bigblocks /\ objects' = objects
    BY <1>3, <2>1
  <2>5. Bigs' = Bigs
    BY <2>4 DEF Bigs
  <2>6. Layout(FreeUnits(v.slob), objects', Bigs', v.used, hp)
    BY <2>1, <2>3, <2>4, <2>5
  <2>7. LentWith(v.used, hp, Bigs')
    BY <2>1, <2>3, <2>5, HeapLent DEF LentRight, LentWith
  <2>8. HeapInv' /\ LentPages' = LentPages
    BY <1>5, <2>2, <2>4, <2>6, <2>7, HeapBecomes
  <2>9. BigsFrom(size) /\ ObjectsStay
    BY <2>4, <2>5 DEF BigsFrom, ObjectsStay
  <2>10. QED
    BY <2>8, <2>9
<1>7. ASSUME NEW hp, Allocated(v, BIGBLOCK, hp)
      PROVE  HeapInv' /\ LentPages' = LentPages /\ BigsFrom(size) /\ ObjectsStay
  <2> DEFINE F == FreeUnits(v.slob)
             T == F \cup Units(v.ret, BIGBLOCK)
             G == Page \ (v.used \cup reserved)
             R == Run(base, n)
  <2>1. /\ GoodWorld(v) /\ v.ret \in Nat /\ Units(v.ret, BIGBLOCK) \cap F = {}
        /\ Layout(T, objects, Bigs, v.used, hp) /\ LentWith(v.used, hp, Bigs)
    BY <1>7 DEF Allocated
  <2>2. v.ret # NULL
    BY <2>1 DEF NULL
  <2>3. /\ HeapWorld(v) /\ v.used \subseteq Page /\ v.used \cap reserved = {}
        /\ WellFormed(v.pmm, G) /\ G \in SUBSET Page
    BY <2>1 DEF GoodWorld
  <2>4. CASE Becomes(back) /\ bigblocks' = bigblocks /\ objects' = objects
    <3>1. /\ HeapWorld(back) /\ OnlySlob(v, back)
          /\ FreeUnits(back.slob) = FreeUnits(v.slob) \cup Units(v.ret, BIGBLOCK)
      BY <1>1, <2>1, <2>3, SlobFreed
    <3> HIDE DEF back
    <3>2. GoodWorld(back) /\ back.used = v.used
      BY <2>3, <3>1 DEF GoodWorld, OnlySlob
    <3>3. Bigs' = Bigs
      BY <2>4 DEF Bigs
    <3>4. Layout(FreeUnits(back.slob), objects', Bigs', back.used, hp)
      BY <2>1, <2>4, <3>1, <3>2, <3>3
    <3>5. LentWith(back.used, hp, Bigs')
      BY <2>1, <3>2, <3>3
    <3>6. HeapInv' /\ LentPages' = LentPages
      BY <1>5, <2>4, <3>2, <3>4, <3>5, HeapBecomes
    <3>7. BigsFrom(size) /\ ObjectsStay
      BY <2>4, <3>3 DEF BigsFrom, ObjectsStay
    <3>8. QED
      BY <3>6, <3>7
  <2>5. CASE /\ Available(v.pmm, n) /\ Becomes(u) /\ bigblocks' = <<x>> \o bigblocks
             /\ objects' = Put(objects, base * PAGE_SIZE, [size |-> size, units |-> 0])
    <3>1. n \in 1..NPAGE
      <4>1. n <= v.pmm.nr_free /\ v.pmm.nr_free = Cardinality(G)
        BY <2>3, <2>5 DEF Available, WellFormed
      <4> HIDE DEF G
      <4>2. Cardinality(G) \in 0..NPAGE
        BY <2>3, PagesFinite
      <4>3. QED
        BY <1>2, <4>1, <4>2, PageAssumption
    <3>2. R \subseteq G /\ WellFormed(PagesTaken(v.pmm, n), G \ R)
      <4> HIDE DEF G
      <4>1. QED
        BY <2>3, <2>5, <3>1, TakenWellFormed
    <3>3. base \in Nat
      <4>1. v.pmm.free_list \in FreeLists
        BY <2>3 DEF WellFormed
      <4>2. base \in Page
        BY <2>5, <4>1, FirstFitFacts DEF Blocks
      <4>3. QED
        BY <4>2, PageAssumption DEF Page
    <3> HIDE DEF base
    <3>4. R \cap v.used = {}
      BY <3>2
    <3> DEFINE taken == PagesTaken(v.pmm, n)
               S     == v.used \cup R
    <3>a. v = [pmm |-> v.pmm, used |-> v.used, slob |-> v.slob, slobfree |-> v.slobfree,
               ret |-> v.ret]
      BY <2>3 DEF HeapWorld
    <3>b. u = [v EXCEPT !.pmm = taken, !.used = S]
      OBVIOUS
    <3> HIDE DEF u, taken, S
    <3>5. u = [pmm |-> taken, used |-> S, slob |-> v.slob, slobfree |-> v.slobfree,
               ret |-> v.ret]
      BY <3>a, <3>b
    <3> USE DEF taken, S
    <3>6. GoodWorld(u) /\ u.slob = v.slob /\ u.used = v.used \cup R
      <4>1. /\ u.slob = v.slob /\ u.used = v.used \cup R /\ u.slobfree = v.slobfree
            /\ u.pmm = PagesTaken(v.pmm, n) /\ HeapWorld(u)
        BY <2>3, <3>5 DEF HeapWorld
      <4>2. u.used \subseteq Page /\ u.used \cap reserved = {}
        BY <2>3, <3>2, <4>1
      <4>3. G \ R = Page \ (u.used \cup reserved)
        BY <4>1
      <4>4. QED
        BY <3>2, <4>1, <4>2, <4>3 DEF GoodWorld
    <3>7. T \ Units(v.ret, BIGBLOCK) = F /\ Units(v.ret, BIGBLOCK) \subseteq T
      BY <2>1
    <3>8. x.pages = base * PAGE_SIZE
      OBVIOUS
    <3>9. Layout(F, objects', Bigs \cup {x}, u.used, hp) /\ x.pages \notin DOMAIN objects
      <4>1. x = [at |-> v.ret, order |-> order, pages |-> base * PAGE_SIZE]
        OBVIOUS
      <4>2. Run(base, 2^order) \cap v.used = {} /\ R = Run(base, 2^order)
        BY <3>4 DEF n
      <4> HIDE DEF T, x
      <4>3. /\ x.pages \notin DOMAIN objects
            /\ Layout(T \ Units(v.ret, BIGBLOCK), Put(objects, x.pages, [size |-> size, units |-> 0]),
                      Bigs \cup {x}, v.used \cup Run(base, 2^order), hp)
        BY <1>1, <1>2, <2>1, <3>3, <3>7, <4>1, <4>2, LayoutBig
      <4>4. QED
        BY <2>5, <3>6, <3>7, <3>8, <4>2, <4>3 DEF x
    <3>10. x \in BigBlocks /\ x \notin Bigs /\ RunOf(x) = R /\ x.order = order
      <4>1. base * PAGE_SIZE \in Nat /\ (base * PAGE_SIZE) \div PAGE_SIZE = base
        BY <3>3, UnitPage
      <4>2. x \in BigBlocks
        BY <1>2, <2>1, <4>1 DEF BigBlocks
      <4>3. base \in RunOf(x)
        BY <3>8, <4>1, <4>2, RunOfFacts
      <4>4. RunOf(x) = R
        BY <3>8, <4>1 DEF RunOf, n
      <4>5. \A y \in Bigs : RunOf(y) \subseteq v.used
        BY <2>1 DEF Layout, BigsRight
      <4>6. QED
        BY <3>4, <4>2, <4>3, <4>4, <4>5
    <3> HIDE DEF x
    <3>11. bigblocks' \in Seq(BigBlocks) /\ NoRepeat(bigblocks') /\ Bigs' = Bigs \cup {x}
      <4> DEFINE one == <<x>>
      <4>1. one \in Seq(BigBlocks) /\ NoRepeat(one) /\ \A q : InList(q, one) <=> q = x
        BY <3>10, SingletonList
      <4> HIDE DEF one
      <4>2. \A q : ~(InList(q, one) /\ InList(q, bigblocks))
        BY <3>10, <4>1 DEF Bigs
      <4>3. /\ one \o bigblocks \in Seq(BigBlocks) /\ NoRepeat(one \o bigblocks)
            /\ \A q : InList(q, one \o bigblocks) <=> InList(q, one) \/ InList(q, bigblocks)
        BY <1>5, <4>1, <4>2, ConcatLists
      <4>4. bigblocks' = one \o bigblocks
        BY <2>5 DEF one
      <4>5. QED
        BY <3>10, <4>1, <4>3, <4>4 DEF Bigs
    <3>12. LentWith(u.used, hp, Bigs')
      BY <2>1, <3>4, <3>6, <3>10, <3>11 DEF LentWith
    <3>13. HeapInv' /\ LentPages' = LentPages
      BY <2>5, <3>6, <3>9, <3>11, <3>12, HeapBecomes
    <3>14. objects'[x.pages].size = size /\ ObjectsStay
      BY <2>5, <3>8, <3>9 DEF Put, ObjectsStay
    <3>15. BigsFrom(size)
      BY <3>10, <3>11, <3>14 DEF BigsFrom, order
    <3>16. QED
      BY <3>13, <3>14, <3>15
  <2>6. QED
    BY <1>3, <2>2, <2>4, <2>5
<1>8. QED
  BY <1>4, <1>6, <1>7

(* The pages of a bigblock_t can be given back.                            *)
LEMMA RunCanGo ==
  ASSUME HeapInv, NEW x \in BigBlocks, RunOf(x) \subseteq used
  PROVE  /\ x.pages \div PAGE_SIZE \in Page /\ 2^x.order \in 1..NPAGE
         /\ RunOf(x) = Run(x.pages \div PAGE_SIZE, 2^x.order)
         /\ RunOf(x) \subseteq Page \ Free
<1> DEFINE p == x.pages \div PAGE_SIZE
           n == 2^x.order
<1>1. used \subseteq Page
  BY DEF HeapInv, PageInv
<1>2. n \in Nat \ {0} /\ p \in Page
  BY <1>1, RunOfFacts, Powers
<1> HIDE DEF n, p
<1>3. RunOf(x) = Run(p, n)
  BY DEF RunOf, n, p
<1>4. Cardinality(RunOf(x)) = n
  BY <1>2, <1>3, RunSize
<1>5. Cardinality(RunOf(x)) \in 0..NPAGE
  BY <1>1, PagesFinite
<1>6. n \in 1..NPAGE
  BY <1>2, <1>4, <1>5, PageAssumption
<1>7. RunOf(x) \subseteq Page \ Free
  BY <1>1 DEF Free
<1>8. QED
  BY <1>2, <1>3, <1>6, <1>7 DEF n, p

(* kfree of an object with pages of its own.                               *)
LEMMA HeapBigFreed ==
  ASSUME HeapInv, NEW block, kfree_big(block),
         objects' = Restrict(objects, DOMAIN objects \ {block})
  PROVE  HeapInv' /\ LentPages' = LentPages /\ Bigs' \subseteq Bigs
<1>1. PICK i \in BigAt(block) :
        /\ Becomes(slob_free([World EXCEPT
                       !.pmm = PagesFreed(pmm, block \div PAGE_SIZE, 2^bigblocks[i].order),
                       !.used = @ \ Run(block \div PAGE_SIZE, 2^bigblocks[i].order)],
                     bigblocks[i].at, BIGBLOCK))
        /\ bigblocks' = RemoveAt(bigblocks, i)
  BY DEF kfree_big
<1>2. i \in 1..Len(bigblocks) /\ bigblocks[i].pages = block
  BY DEF BigAt
<1>3. /\ bigblocks \in Seq(BigBlocks) /\ NoRepeat(bigblocks)
      /\ used \subseteq Page /\ used \cap reserved = {}
  BY DEF HeapInv, PageInv
<1> DEFINE x == bigblocks[i]
           R == RunOf(x)
<1>4. x \in BigBlocks /\ x \in Bigs /\ x.pages = block
  BY <1>2, <1>3, ElementOfSeq DEF Bigs, InList
<1> HIDE DEF x
<1>5. PICK hp : Layout(FreeUnits(slob), objects, Bigs, used, hp)
  BY DEF HeapInv
<1>6. R \subseteq used
  BY <1>4, <1>5 DEF Layout, BigsRight
<1>7. /\ block \div PAGE_SIZE \in Page /\ 2^x.order \in 1..NPAGE
      /\ R = Run(block \div PAGE_SIZE, 2^x.order) /\ R \subseteq Page \ Free
  BY <1>4, <1>6, RunCanGo
<1> DEFINE m    == PagesFreed(pmm, block \div PAGE_SIZE, 2^x.order)
           S    == used \ R
           now  == World
           w    == [now EXCEPT !.pmm = m, !.used = S]
           back == slob_free(w, x.at, BIGBLOCK)
<1> HIDE DEF R
<1>8. Becomes(back)
  BY <1>1, <1>7, HeapWorldNow DEF x
<1>9. GoodWorld(w) /\ w.slob = slob /\ w.used = S
  <2>1. /\ GoodWorld(now) /\ now.slob = slob /\ now.slobfree = slobfree
        /\ now = [pmm |-> now.pmm, used |-> now.used, slob |-> now.slob,
                  slobfree |-> now.slobfree, ret |-> now.ret]
    BY HeapWorldNow DEF GoodWorld, HeapWorld
  <2>2. w = [now EXCEPT !.pmm = m, !.used = S]
    OBVIOUS
  <2> HIDE DEF w, now, m, S
  <2>3. w = [pmm |-> m, used |-> S, slob |-> now.slob, slobfree |-> now.slobfree, ret |-> now.ret]
    BY <2>1, <2>2
  <2>4. /\ w.pmm = m /\ w.used = S /\ w.slob = slob
        /\ HeapWorld(w)
    BY <2>1, <2>3 DEF GoodWorld, HeapWorld
  <2>5. WellFormed(m, Free \cup R)
    <3>1. WellFormed(pmm, Free)
      BY DEF HeapInv, PageInv
    <3>2. QED
      BY <1>7, <3>1, FreedWellFormed DEF m
  <2>6. Free \cup R = Page \ (S \cup reserved) /\ S \subseteq Page /\ S \cap reserved = {}
    BY <1>3, <1>6 DEF Free, S
  <2>7. QED
    BY <2>4, <2>5, <2>6 DEF GoodWorld
<1> HIDE DEF w
<1>10. /\ x.at \in Nat /\ BIGBLOCK \in Nat \ {0}
  BY <1>4, RunOfFacts, UnitPage
<1>11. /\ Units(x.at, BIGBLOCK) \cap FreeUnits(slob) = {}
       /\ Layout(FreeUnits(slob) \cup Units(x.at, BIGBLOCK),
                 Restrict(objects, DOMAIN objects \ {block}), Bigs \ {x}, S, hp)
  BY <1>4, <1>5, LayoutBigFreed DEF R
<1>12. /\ HeapWorld(back) /\ OnlySlob(w, back)
       /\ FreeUnits(back.slob) = FreeUnits(slob) \cup Units(x.at, BIGBLOCK)
  BY <1>9, <1>10, <1>11, SlobFreed DEF GoodWorld
<1> HIDE DEF back
<1>13. GoodWorld(back) /\ back.used = S
  BY <1>9, <1>12 DEF GoodWorld, OnlySlob
<1>14. bigblocks' \in Seq(BigBlocks) /\ NoRepeat(bigblocks') /\ Bigs' = Bigs \ {x}
  <2> DEFINE others == SubSeq(bigblocks, 1, i - 1) \o SubSeq(bigblocks, i + 1, Len(bigblocks))
  <2>1. bigblocks' = others
    BY <1>1 DEF RemoveAt
  <2>2. /\ others \in Seq(BigBlocks) /\ NoRepeat(others)
        /\ \A q : InList(q, others) <=> InList(q, bigblocks) /\ q # x
    BY <1>2, <1>3, CutList DEF x
  <2> HIDE DEF others
  <2>3. QED
    BY <2>1, <2>2 DEF Bigs
<1>15. Layout(FreeUnits(back.slob), objects', Bigs', back.used, hp)
  BY <1>11, <1>12, <1>13, <1>14
<1>16. LentWith(back.used, hp, Bigs')
  <2>1. LentWith(used, hp, Bigs)
    BY <1>5, HeapLent DEF LentRight, LentWith
  <2>2. QED
    BY <1>4, <1>13, <1>14, <2>1 DEF LentWith, S, R
<1>17. QED
  BY <1>8, <1>13, <1>14, <1>15, <1>16, HeapBecomes

(* kfree of a small one.                                                   *)
LEMMA HeapSmallFreed ==
  ASSUME HeapInv, NEW block \in DOMAIN objects, kfree_small(block),
         objects' = Restrict(objects, DOMAIN objects \ {block})
  PROVE  HeapInv' /\ LentPages' = LentPages /\ Bigs' \subseteq Bigs
<1> DEFINE n    == objects[block].units
           back == slob_free(World, block - 1, n)
<1>1. Becomes(back) /\ bigblocks' = bigblocks /\ BigAt(block) = {}
  BY DEF kfree_small
<1>2. PICK hp : Layout(FreeUnits(slob), objects, Bigs, used, hp)
  BY DEF HeapInv
<1>3. n # 0
  <2>1. SmallObjects = {b \in DOMAIN objects : objects[b].units # 0}
    BY <1>2, HeapAreas
  <2>2. block \in SmallObjects
    BY <1>1 DEF SmallObjects
  <2>3. QED
    BY <2>1, <2>2
<1>4. /\ block - 1 \in Nat /\ n \in Nat \ {0} /\ Units(block - 1, n) \cap FreeUnits(slob) = {}
      /\ Layout(FreeUnits(slob) \cup Units(block - 1, n),
                Restrict(objects, DOMAIN objects \ {block}), Bigs, used, hp)
  BY <1>2, <1>3, LayoutSmallFreed
<1>5. GoodWorld(World) /\ World.slob = slob /\ World.used = used
  BY HeapWorldNow
<1>6. /\ HeapWorld(back) /\ OnlySlob(World, back)
      /\ FreeUnits(back.slob) = FreeUnits(slob) \cup Units(block - 1, n)
  BY <1>4, <1>5, SlobFreed DEF GoodWorld
<1> HIDE DEF back, n
<1>7. GoodWorld(back) /\ back.used = used
  BY <1>5, <1>6 DEF GoodWorld, OnlySlob
<1>8. bigblocks' \in Seq(BigBlocks) /\ NoRepeat(bigblocks') /\ Bigs' = Bigs
  BY <1>1 DEF HeapInv, Bigs
<1>9. Layout(FreeUnits(back.slob), objects', Bigs', back.used, hp)
  BY <1>4, <1>6, <1>7, <1>8
<1>10. LentWith(back.used, hp, Bigs')
  BY <1>2, <1>7, <1>8, HeapLent DEF LentRight, LentWith
<1>11. QED
  BY <1>1, <1>7, <1>8, <1>9, <1>10, HeapBecomes

(* The other callers of the page allocator leave the heap its pages.       *)
LEMMA HeapPageStep ==
  ASSUME HeapInv, [PageNext]_pageVars, UNCHANGED slobVars, HeapPages \cup BigPages \subseteq used'
  PROVE  HeapInv'
<1>1. PageInv'
  BY PageInvNext DEF HeapInv
<1>2. slob' = slob /\ slobfree' = slobfree /\ bigblocks' = bigblocks /\ objects' = objects
  BY DEF slobVars
<1>3. PICK hp : Layout(FreeUnits(slob), objects, Bigs, used, hp)
  BY DEF HeapInv
<1>4. /\ HeapPages = hp
      /\ \A p : p \in BigPages <=> \E x \in Bigs : p \in RunOf(x)
  BY <1>3, HeapAreas
<1>5. hp \subseteq used' /\ \A x \in Bigs : RunOf(x) \subseteq used'
  BY <1>4
<1>6. Layout(FreeUnits(slob), objects, Bigs, used', hp)
  BY <1>3, <1>5, LayoutOthers
<1>7. Bigs' = Bigs
  BY <1>2 DEF Bigs
<1>8. Layout(FreeUnits(slob'), objects', Bigs', used', hp)
  BY <1>2, <1>6, <1>7
<1>9. QED
  BY <1>1, <1>2, <1>8 DEF HeapInv

(* A step of the heap, or of the other callers of the page allocator.      *)
LEMMA HeapInvNext == HeapInv /\ [HeapNext]_heapVars => HeapInv'
<1> SUFFICES ASSUME HeapInv, [HeapNext]_heapVars PROVE HeapInv'
  OBVIOUS
<1>0. HeapPages \cup BigPages \subseteq used /\ used \subseteq Page
  <2>1. PICK hp : Layout(FreeUnits(slob), objects, Bigs, used, hp)
    BY DEF HeapInv
  <2>2. hp \subseteq used /\ \A x \in Bigs : RunOf(x) \subseteq used
    BY <2>1 DEF Layout, BigsRight
  <2>3. QED
    BY <2>1, <2>2, HeapAreas DEF HeapInv, PageInv
<1>1. CASE /\ Booted \/ swap_init \/ \E n \in 1..NPAGE : alloc_pages(n)
           /\ UNCHANGED slobVars
  <2>1. [PageNext]_pageVars
    BY <1>1 DEF PageNext
  <2>2. used \subseteq used'
    BY <1>1 DEF Booted, swap_init, alloc_pages
  <2>3. QED
    BY <1>0, <1>1, <2>1, <2>2, HeapPageStep
<1>2. ASSUME NEW n \in 1..NPAGE, NEW base \in Page, base + n <= NPAGE,
             default_init_memmap(base, n), UNCHANGED slobVars
      PROVE  HeapInv'
  <2>1. base \in 0..(NPAGE - n)
    BY <1>2, PageAssumption DEF Page
  <2>2. [PageNext]_pageVars
    BY <1>2, <2>1 DEF PageNext
  <2>3. used' = used
    BY <1>2 DEF default_init_memmap
  <2>4. QED
    BY <1>0, <1>2, <2>2, <2>3, HeapPageStep
<1>3. ASSUME NEW base \in LentPages, NEW n \in 1..NPAGE, Run(base, n) \subseteq LentPages,
             free_pages(base, n), UNCHANGED slobVars
      PROVE  HeapInv'
  <2>1. base \in 0..(NPAGE - n)
    <3>1. base \in Page /\ Run(base, n) \subseteq Page
      BY <1>0, <1>3 DEF LentPages
    <3>2. base + n - 1 \in Run(base, n)
      BY <3>1, PageAssumption DEF Run, Page
    <3>3. base + n - 1 \in Page
      BY <3>1, <3>2
    <3>4. QED
      BY <3>1, <3>3, PageAssumption DEF Page
  <2>2. [PageNext]_pageVars
    BY <1>3, <2>1 DEF PageNext
  <2>3. HeapPages \cup BigPages \subseteq used'
    BY <1>0, <1>3 DEF free_pages, LentPages
  <2>4. QED
    BY <1>3, <2>2, <2>3, HeapPageStep
<1>4. ASSUME NEW size \in Sizes, kmalloc_small(size) \/ kmalloc_big(size) PROVE HeapInv'
  BY <1>4, HeapSmall, HeapBig
<1>5. ASSUME NEW block \in DOMAIN objects, kfree(block) PROVE HeapInv'
  BY <1>5, HeapBigFreed, HeapSmallFreed DEF kfree
<1>6. CASE UNCHANGED heapVars
  <2>1. [PageNext]_pageVars /\ UNCHANGED slobVars /\ used' = used
    BY <1>6 DEF heapVars, pageVars
  <2>2. QED
    BY <1>0, <2>1, HeapPageStep
<1>7. QED
  BY <1>1, <1>2, <1>3, <1>4, <1>5, <1>6 DEF HeapNext

(* So the heap is always laid out right.                                   *)
LEMMA HeapInvariance == HeapSpec => []HeapInv
BY HeapInvInit, HeapInvNext, PTL DEF HeapSpec

-----------------------------------------------------------------------------
(* One cycle through the free blocks, in the order of their addresses.     *)
LEMMA HeapInvSorted == HeapInv => SlobSorted
<1> SUFFICES ASSUME HeapInv PROVE SlobSorted
  OBVIOUS
<1> DEFINE D == DOMAIN slob
           n == Cardinality(D)
           walk == Walk(World)
           Back == {b \in D : slob[b].next <= b}
<1>1. Slob(slob) /\ slobfree \in D /\ World.slob = slob /\ World.slobfree = slobfree
  BY HeapWorldNow DEF HeapInv
<1>2. /\ IsFiniteSet(D) /\ D \in SUBSET Int /\ arena = -3 /\ arena \in D
      /\ \A b \in D : /\ b \in Int /\ b >= arena /\ slob[b].units \in Nat \ {0}
                      /\ slob[b].next \in D /\ slob[b].next \in Int
      /\ \A b, c \in D : b < c => b + slob[b].units < slob[b].next /\ slob[b].next <= c
      /\ \A b \in D : (\A c \in D : c <= b) => slob[b].next = arena
  BY <1>1, SlobFacts
<1>3. /\ n \in Nat \ {0} /\ walk \in [0..n -> D] /\ walk[n] = slobfree
      /\ \A b \in D : \E k \in 1..n : walk[k] = b
  BY <1>1, RingWalk
<1> HIDE DEF D, n, walk
<1>4. {walk[k] : k \in 1..n} = D
  BY <1>3
<1>5. PICK m \in D : \A c \in D : c <= m
  BY <1>2, Extremes
<1>6. Back = {m}
  <2>1. slob[m].next = arena /\ m >= arena
    BY <1>2, <1>5
  <2>2. m \in Back
    BY <2>1
  <2>3. ASSUME NEW b \in Back PROVE b = m
    <3>1. b \in D /\ slob[b].next <= b
      OBVIOUS
    <3>2. ASSUME b < m PROVE FALSE
      <4>1. b + slob[b].units < slob[b].next
        BY <1>2, <3>1, <3>2
      <4>2. b \in Int /\ slob[b].units \in Nat /\ slob[b].next \in Int
        BY <1>2, <3>1
      <4>3. QED
        BY <3>1, <4>1, <4>2
    <3>3. QED
      BY <1>2, <1>5, <3>1, <3>2
  <2>4. QED
    BY <2>2, <2>3
<1>7. Cardinality(Back) = 1
  BY <1>6, FS_Singleton
<1>8. ASSUME NEW b \in D PROVE b + slob[b].units \notin D
  <2> SUFFICES ASSUME b + slob[b].units \in D PROVE FALSE
    OBVIOUS
  <2>1. b < b + slob[b].units
    BY <1>2
  <2>2. b + slob[b].units < slob[b].next /\ slob[b].next <= b + slob[b].units
    BY <1>2, <2>1
  <2>3. QED
    BY <1>2, <2>2
<1>9. QED
  BY <1>3, <1>4, <1>7, <1>8 DEF SlobSorted, D, n, walk

(* The blocks share no unit and fill the heap's pages.                     *)
LEMMA HeapInvExact == HeapInv => HeapExact
<1> SUFFICES ASSUME HeapInv PROVE HeapExact
  OBVIOUS
<1> DEFINE H == Headers(objects, Bigs)
           T == FreeUnits(slob)
           blocks == ObjectBlocks \cup FreeBlocks
<1>1. PICK hp : Layout(T, objects, Bigs, used, hp)
  BY DEF HeapInv
<1>2. /\ \A c : c \in ObjectBlocks <=> \E h \in H : c = UnitsOfBlock(h)
      /\ \A u : (\E c \in FreeBlocks : u \in c) <=> u \in T
      /\ HeapPages = hp
      /\ \A p : p \in BigPages <=> \E x \in Bigs : p \in RunOf(x)
  BY <1>1, HeapAreas
<1>3. /\ \A h \in H : UnitsOfBlock(h) \cap T = {}
      /\ \A h, k \in H : h # k => UnitsOfBlock(h) \cap UnitsOfBlock(k) = {}
      /\ \A u : u \in T \/ (\E h \in H : u \in UnitsOfBlock(h)) <=> u \in PageUnits(hp)
      /\ hp \subseteq used /\ \A x \in Bigs : RunOf(x) \subseteq used /\ RunOf(x) \cap hp = {}
  BY <1>1 DEF Layout, Partition, BigsRight
<1>4. used \subseteq Page
  BY DEF HeapInv, PageInv
<1>5. ASSUME NEW b \in FreeBlocks, NEW c \in FreeBlocks, b # c PROVE b \cap c = {}
  <2>1. PICK i \in DOMAIN slob \ {arena} : b = Units(i, slob[i].units)
    BY DEF FreeBlocks
  <2>2. PICK j \in DOMAIN slob \ {arena} : c = Units(j, slob[j].units)
    BY DEF FreeBlocks
  <2>3. Slob(slob) /\ i # j
    BY <1>5, <2>1, <2>2 DEF HeapInv
  <2>4. \A u : ~(u \in Units(i, slob[i].units) /\ u \in Units(j, slob[j].units))
    BY <2>3, FreeBlocksApart
  <2>5. QED
    BY <2>1, <2>2, <2>4
<1> HIDE DEF H, T
<1>6. ASSUME NEW b \in blocks, NEW c \in blocks, b # c PROVE b \cap c = {}
  <2>1. CASE b \in ObjectBlocks /\ c \in ObjectBlocks
    BY <1>2, <1>3, <1>6, <2>1
  <2>2. CASE b \in ObjectBlocks /\ c \in FreeBlocks
    BY <1>2, <1>3, <2>2
  <2>3. CASE b \in FreeBlocks /\ c \in ObjectBlocks
    BY <1>2, <1>3, <2>3
  <2>4. CASE b \in FreeBlocks /\ c \in FreeBlocks
    BY <1>5, <1>6, <2>4
  <2>5. QED
    BY <2>1, <2>2, <2>3, <2>4
<1>7. UNION blocks = UNION {Units(p * PAGE_SIZE, PAGE_SIZE) : p \in HeapPages}
  <2>1. ASSUME NEW u PROVE u \in UNION blocks <=> u \in PageUnits(hp)
    <3>1. u \in UNION blocks <=> (\E c \in ObjectBlocks : u \in c) \/ (\E c \in FreeBlocks : u \in c)
      OBVIOUS
    <3>2. (\E c \in ObjectBlocks : u \in c) <=> \E h \in H : u \in UnitsOfBlock(h)
      BY <1>2
    <3>3. QED
      BY <1>2, <1>3, <3>1, <3>2
  <2>2. ASSUME NEW u
        PROVE  u \in PageUnits(hp) <=> \E p \in hp : u \in Units(p * PAGE_SIZE, PAGE_SIZE)
    <3>1. \A p \in hp : p \in Nat
      BY <1>3, <1>4, PageAssumption DEF Page
    <3>2. \A p \in hp : Units(p * PAGE_SIZE, PAGE_SIZE) = PageUnits({p})
      BY <3>1, UnitPage
    <3>3. u \in PageUnits(hp) <=> \E p \in hp : u \in PageUnits({p})
      BY DEF PageUnits
    <3>4. QED
      BY <3>2, <3>3
  <2>3. QED
    BY <1>2, <2>1, <2>2
<1>8. HeapPages \cup BigPages \subseteq used /\ HeapPages \cap BigPages = {}
  BY <1>2, <1>3
<1>9. QED
  BY <1>6, <1>7, <1>8, HeapInvSorted DEF HeapExact

(***************************************************************************)
(* Every unit of the heap's pages is in exactly one block, free or not,    *)
(* and the free list is one cycle in the order of addresses with           *)
(* neighbours merged: for any sizes of memory, pages and objects, and any  *)
(* order of kmalloc, kfree and the calls of others.                        *)
(***************************************************************************)
THEOREM HeapIsExact == HeapSpec => []HeapExact
BY HeapInvariance, HeapInvExact, PTL

(***************************************************************************)
(* The free pages are exact for the heap too, which allocates and frees    *)
(* them inside its own calls.                                              *)
(***************************************************************************)
THEOREM HeapFreeExact == HeapSpec => []FreeExact
<1>1. HeapInv => FreeExact
  BY PageInvExact DEF HeapInv
<1>2. QED
  BY <1>1, HeapInvariance, PTL

(***************************************************************************)
(* And no run of free pages is missed, with the heap's calls in between.   *)
(***************************************************************************)
THEOREM HeapEveryRunIsFound == HeapSpec => []EveryRunIsFound
<1>1. HeapInv => EveryRunIsFound
  BY PageInvFound DEF HeapInv
<1>2. QED
  BY <1>1, HeapInvariance, PTL

(* find_order loses no remainder of the sizes that are asked for.          *)
EnoughPages == \A size \in Sizes : size <= 2^find_order(size) * PAGE_SIZE

(* A large object fits into its pages.                                     *)
BigsFit == \A x \in Bigs : objects[x.pages].size <= 2^x.order * PAGE_SIZE

(* The invariant for the refinement.                                       *)
MemoryInv == HeapInv /\ BigsFit

(* What a step does to the objects and the pages of others.                *)
Hands ==
  \/ ObjectsStay /\ LentPages \subseteq LentPages'
  \/ /\ \A b \in DOMAIN objects' : b \in DOMAIN objects /\ objects'[b] = objects[b]
     /\ LentPages' \subseteq LentPages

(* Every step gives or takes, and never does both.                         *)
LEMMA HeapHands ==
  ASSUME HeapInv, EnoughPages, [HeapNext]_heapVars, BigsFit
  PROVE  Hands /\ BigsFit'
<1>0. HeapInv'
  BY HeapInvNext
<1>1. /\ \A x \in Bigs : x.pages \in DOMAIN objects
      /\ \A x \in Bigs' : x.pages \in DOMAIN objects'
  <2>1. PICK hp : Layout(FreeUnits(slob), objects, Bigs, used, hp)
    BY DEF HeapInv
  <2>2. PICK h : Layout(FreeUnits(slob'), objects', Bigs', used', h)
    BY <1>0 DEF HeapInv
  <2>3. QED
    BY <2>1, <2>2 DEF Layout, BigsRight
<1>2. ASSUME UNCHANGED slobVars
      PROVE  /\ objects' = objects /\ BigsFit'
             /\ LentPages' = used' \ (HeapPages \cup BigPages)
  <2>1. slob' = slob /\ bigblocks' = bigblocks /\ objects' = objects
    BY <1>2 DEF slobVars
  <2>2. Bigs' = Bigs
    BY <2>1 DEF Bigs
  <2>3. HeapPages' = HeapPages /\ BigPages' = BigPages
    BY <2>1 DEF HeapPages, PagesOf, ObjectBlocks, FreeBlocks, SmallObjects, BigAt, BigPages
  <2>4. QED
    BY <2>1, <2>2, <2>3 DEF BigsFit, LentPages
<1>3. CASE /\ \/ Booted \/ swap_init \/ \E n \in 1..NPAGE : alloc_pages(n)
              \/ \E n \in 1..NPAGE, base \in Page : default_init_memmap(base, n)
           /\ UNCHANGED slobVars
  <2>1. used \subseteq used'
    BY <1>3 DEF Booted, swap_init, alloc_pages, default_init_memmap
  <2>2. QED
    BY <1>2, <1>3, <2>1 DEF Hands, ObjectsStay, LentPages
<1>4. CASE (\E base \in LentPages, n \in 1..NPAGE : free_pages(base, n)) /\ UNCHANGED slobVars
  <2>1. used' \subseteq used
    BY <1>4 DEF free_pages
  <2>2. QED
    BY <1>2, <1>4, <2>1 DEF Hands, LentPages
<1>5. CASE UNCHANGED heapVars
  <2>1. UNCHANGED slobVars /\ used' = used
    BY <1>5 DEF heapVars, pageVars
  <2>2. QED
    BY <1>2, <2>1 DEF Hands, ObjectsStay, LentPages
<1>6. ASSUME NEW size \in Sizes, kmalloc_small(size) PROVE Hands /\ BigsFit'
  <2>1. LentPages' = LentPages /\ Bigs' = Bigs /\ ObjectsStay
    BY <1>6, HeapSmall
  <2>2. BigsFit'
    BY <1>1, <2>1 DEF ObjectsStay, BigsFit
  <2>3. QED
    BY <2>1, <2>2 DEF Hands
<1>7. ASSUME NEW size \in Sizes, kmalloc_big(size) PROVE Hands /\ BigsFit'
  <2>1. LentPages' = LentPages /\ BigsFrom(size) /\ ObjectsStay
    BY <1>7, HeapBig
  <2>2. ASSUME NEW y \in Bigs' PROVE objects'[y.pages].size <= 2^y.order * PAGE_SIZE
    <3>1. CASE y \in Bigs
      BY <1>1, <2>1, <3>1 DEF ObjectsStay, BigsFit
    <3>2. CASE y.order = find_order(size) /\ objects'[y.pages].size = size
      BY <3>2 DEF EnoughPages
    <3>3. QED
      BY <2>1, <3>1, <3>2 DEF BigsFrom
  <2>3. BigsFit'
    BY <2>2 DEF BigsFit
  <2>4. QED
    BY <2>1, <2>3 DEF Hands
<1>8. ASSUME NEW block \in DOMAIN objects, kfree(block) PROVE Hands /\ BigsFit'
  <2>1. LentPages' = LentPages /\ Bigs' \subseteq Bigs
    BY <1>8, HeapBigFreed, HeapSmallFreed DEF kfree
  <2>2. \A b \in DOMAIN objects' : b \in DOMAIN objects /\ objects'[b] = objects[b]
    BY <1>8 DEF kfree, Restrict
  <2>3. BigsFit'
    BY <1>1, <2>1, <2>2 DEF BigsFit
  <2>4. QED
    BY <2>1, <2>2, <2>3 DEF Hands
<1>9. QED
  BY <1>3, <1>4, <1>5, <1>6, <1>7, <1>8 DEF HeapNext

(* The units of n pages.                                                   *)
LEMMA RunUnits ==
  ASSUME NEW p \in Nat, NEW n \in Nat \ {0}, NEW m \in Nat, m <= n * PAGE_SIZE
  PROVE  Units(p * PAGE_SIZE, m) \subseteq PageUnits(Run(p, n))
<1> DEFINE d == PAGE_SIZE
<1>1. d \in Nat \ {0}
  BY UnitPage
<1> HIDE DEF d
<1>2. p * d \in Nat /\ n * d \in Nat /\ (p + n) * d = p * d + n * d
  BY <1>1
<1>3. ASSUME NEW u \in Units(p * d, m) PROVE u \in PageUnits(Run(p, n))
  <2>1. u \in Nat /\ p * d <= u /\ u < (p + n) * d
    BY <1>2, <1>3 DEF Units, d
  <2> DEFINE q == u \div d
  <2>2. q \in Nat /\ q * d <= u /\ u < q * d + d
    BY <1>1, <2>1
  <2> HIDE DEF q
  <2>3. (q + 1) * d = q * d + d
    BY <1>1, <2>2
  <2>4. \A i, j \in Nat : i <= j => i * d <= j * d
    BY <1>1
  <2>5. ~(q + 1 <= p)
    BY <1>1, <1>2, <2>1, <2>2, <2>3, <2>4
  <2>6. ~(p + n <= q)
    BY <1>1, <1>2, <2>1, <2>2, <2>4
  <2>7. q \in Run(p, n)
    BY <2>2, <2>5, <2>6 DEF Run
  <2>8. QED
    BY <2>1, <2>7 DEF PageUnits, q, d
<1>4. QED
  BY <1>3 DEF d

(* What each live block lies in: the block of a small object, the pages of *)
(* a large one, a page lent to others.                                     *)
SmallBlock(b) == [of |-> b, at |-> b - 1, units |-> objects[b].units]

(* The three kinds of live blocks.                                         *)
LiveAs(c, hp) ==
  \/ \E b \in DOMAIN objects : /\ objects[b].units # 0 /\ c = Units(b, objects[b].size)
                               /\ SmallBlock(b) \in Headers(objects, Bigs)
                               /\ c \subseteq UnitsOfBlock(SmallBlock(b))
                               /\ c \subseteq PageUnits(hp)
  \/ \E x \in Bigs : c = Units(x.pages, objects[x.pages].size) /\ c \subseteq PageUnits(RunOf(x))
  \/ \E p \in LentPages : c = Units(p * PAGE_SIZE, PAGE_SIZE) /\ c = PageUnits({p})

(* There are no others.                                                    *)
LEMMA LiveBlocksLie ==
  ASSUME MemoryInv, NEW hp, Layout(FreeUnits(slob), objects, Bigs, used, hp), NEW c \in LiveBlocks
  PROVE  LiveAs(c, hp)
<1>1. /\ BigsRight(objects, Bigs, used, hp) /\ ObjectsRight(objects, Bigs)
      /\ Partition(FreeUnits(slob), Headers(objects, Bigs), hp)
  BY DEF Layout
<1>2. HeapInv /\ BigsFit
  BY DEF MemoryInv
<1>3. CASE \E p \in LentPages : c = Units(p * PAGE_SIZE, PAGE_SIZE)
  <2>1. PICK p \in LentPages : c = Units(p * PAGE_SIZE, PAGE_SIZE)
    BY <1>3
  <2>2. p \in Nat
    BY <1>2, PageAssumption DEF LentPages, HeapInv, PageInv, Page
  <2>3. c = PageUnits({p})
    BY <2>1, <2>2, UnitPage
  <2>4. QED
    BY <2>1, <2>3 DEF LiveAs
<1>4. ASSUME NEW b \in DOMAIN objects, c = Units(b, objects[b].size), objects[b].units # 0
      PROVE  LiveAs(c, hp)
  <2> DEFINE size == objects[b].size
             n    == objects[b].units
  <2>1. b \in Nat /\ size \in Nat /\ n = size + 1 /\ b >= 1
    BY <1>1, <1>4 DEF ObjectsRight
  <2>2. SmallBlock(b) \in Headers(objects, Bigs)
    BY <1>4 DEF SmallBlock, Headers
  <2>3. UnitsOfBlock(SmallBlock(b)) = Units(b - 1, n)
    BY DEF SmallBlock, UnitsOfBlock
  <2>4. Units(b, size) \subseteq Units(b - 1, n)
    <3> HIDE DEF size, n
    <3>1. QED
      BY <2>1 DEF Units
  <2>5. c \subseteq UnitsOfBlock(SmallBlock(b))
    BY <1>4, <2>3, <2>4
  <2>6. c \subseteq PageUnits(hp)
    BY <1>1, <2>2, <2>5 DEF Partition
  <2>7. QED
    BY <1>4, <2>2, <2>5, <2>6 DEF LiveAs
<1>5. ASSUME NEW b \in DOMAIN objects, c = Units(b, objects[b].size), objects[b].units = 0
      PROVE  LiveAs(c, hp)
  <2>1. PICK x \in Bigs : x.pages = b
    BY <1>1, <1>5 DEF ObjectsRight
  <2>2. x \in BigBlocks /\ x.pages % PAGE_SIZE = 0 /\ objects[b].size \in Nat
    BY <1>1, <2>1 DEF BigsRight, ObjectsRight
  <2> DEFINE p == x.pages \div PAGE_SIZE
             n == 2^x.order
  <2>3. p \in Nat /\ n \in Nat \ {0} /\ b \in Nat
    BY <2>1, <2>2, RunOfFacts, Powers
  <2>4. p * PAGE_SIZE = b
    <3> DEFINE d == PAGE_SIZE
    <3>1. d \in Nat \ {0}
      BY UnitPage
    <3> HIDE DEF d
    <3>2. b % d = 0 => (b \div d) * d = b
      BY <2>3, <3>1
    <3>3. QED
      BY <2>1, <2>2, <3>2 DEF d
  <2>5. objects[b].size <= n * PAGE_SIZE
    BY <1>2, <2>1 DEF BigsFit
  <2>6. RunOf(x) = Run(p, n)
    BY DEF RunOf
  <2> HIDE DEF p, n
  <2>7. c \subseteq PageUnits(RunOf(x))
    BY <1>5, <2>2, <2>3, <2>4, <2>5, <2>6, RunUnits
  <2>8. QED
    BY <1>5, <2>1, <2>7 DEF LiveAs
<1>6. QED
  BY <1>3, <1>4, <1>5 DEF LiveBlocks

(* Live blocks share no memory.                                            *)
NoOverlap == \A b, c \in LiveBlocks : b # c => b \cap c = {}

(* Blocks of one kind are apart by the layout, those of two kinds are in   *)
(* different pages.                                                        *)
LEMMA LiveApart == MemoryInv => NoOverlap
<1> SUFFICES ASSUME MemoryInv, NEW b \in LiveBlocks, NEW c \in LiveBlocks, b # c
             PROVE  b \cap c = {}
  BY DEF NoOverlap
<1>1. HeapInv
  BY DEF MemoryInv
<1>2. PICK hp : Layout(FreeUnits(slob), objects, Bigs, used, hp)
  BY <1>1 DEF HeapInv
<1>3. /\ BigsRight(objects, Bigs, used, hp)
      /\ Partition(FreeUnits(slob), Headers(objects, Bigs), hp)
  BY <1>2 DEF Layout
<1>4. \A p : p \in LentPages <=> p \in used /\ p \notin hp /\ \A x \in Bigs : p \notin RunOf(x)
  BY <1>1, <1>2, HeapLent DEF LentRight
<1>5. LiveAs(b, hp) /\ LiveAs(c, hp)
  BY <1>2, LiveBlocksLie
<1>6. \A P, Q : P \cap Q = {} => PageUnits(P) \cap PageUnits(Q) = {}
  BY DEF PageUnits
(* Which pages a live block is in: the heap's, a large object's, another's.*)
<1> DEFINE InSmall(d) == \E i \in DOMAIN objects : /\ objects[i].units # 0
                                                 /\ d = Units(i, objects[i].size)
                                                 /\ SmallBlock(i) \in Headers(objects, Bigs)
                                                 /\ d \subseteq UnitsOfBlock(SmallBlock(i))
                                                 /\ d \subseteq PageUnits(hp)
           InLarge(d) == \E x \in Bigs : /\ d = Units(x.pages, objects[x.pages].size)
                                       /\ d \subseteq PageUnits(RunOf(x))
           InLent(d)  == \E p \in LentPages : d = PageUnits({p})
<1>7. \A d : LiveAs(d, hp) => InSmall(d) \/ InLarge(d) \/ InLent(d)
  BY DEF LiveAs
<1>8. ASSUME NEW d, NEW e, InSmall(d), InSmall(e), d # e PROVE d \cap e = {}
  <2>1. PICK i \in DOMAIN objects : /\ d = Units(i, objects[i].size)
                                    /\ SmallBlock(i) \in Headers(objects, Bigs)
                                    /\ d \subseteq UnitsOfBlock(SmallBlock(i))
    BY <1>8
  <2>2. PICK j \in DOMAIN objects : /\ e = Units(j, objects[j].size)
                                    /\ SmallBlock(j) \in Headers(objects, Bigs)
                                    /\ e \subseteq UnitsOfBlock(SmallBlock(j))
    BY <1>8
  <2>3. SmallBlock(i) # SmallBlock(j)
    BY <1>8, <2>1, <2>2 DEF SmallBlock
  <2>4. QED
    BY <1>3, <2>1, <2>2, <2>3 DEF Partition
<1>9. ASSUME NEW d, NEW e, InLarge(d), InLarge(e), d # e PROVE d \cap e = {}
  <2>1. PICK x \in Bigs : d = Units(x.pages, objects[x.pages].size) /\ d \subseteq PageUnits(RunOf(x))
    BY <1>9
  <2>2. PICK y \in Bigs : e = Units(y.pages, objects[y.pages].size) /\ e \subseteq PageUnits(RunOf(y))
    BY <1>9
  <2>3. RunOf(x) \cap RunOf(y) = {}
    BY <1>3, <1>9, <2>1, <2>2 DEF BigsRight
  <2>4. QED
    BY <1>6, <2>1, <2>2, <2>3
<1>10. ASSUME NEW d, NEW e, InLent(d), InLent(e), d # e PROVE d \cap e = {}
  BY <1>10 DEF PageUnits
<1>11. ASSUME NEW d, NEW e, InSmall(d), InLarge(e) PROVE d \cap e = {}
  <2>1. PICK x \in Bigs : e \subseteq PageUnits(RunOf(x))
    BY <1>11
  <2>2. RunOf(x) \cap hp = {} /\ d \subseteq PageUnits(hp)
    BY <1>3, <1>11 DEF BigsRight
  <2>3. QED
    BY <1>6, <2>1, <2>2
<1>12. ASSUME NEW d, NEW e, InSmall(d), InLent(e) PROVE d \cap e = {}
  <2>1. PICK p \in LentPages : e = PageUnits({p})
    BY <1>12
  <2>2. {p} \cap hp = {} /\ d \subseteq PageUnits(hp)
    BY <1>4, <1>12
  <2>3. QED
    BY <1>6, <2>1, <2>2
<1>13. ASSUME NEW d, NEW e, InLarge(d), InLent(e) PROVE d \cap e = {}
  <2>1. PICK x \in Bigs : d \subseteq PageUnits(RunOf(x))
    BY <1>13
  <2>2. PICK p \in LentPages : e = PageUnits({p})
    BY <1>13
  <2>3. {p} \cap RunOf(x) = {}
    BY <1>4
  <2>4. QED
    BY <1>6, <2>1, <2>2, <2>3
<1> HIDE DEF InSmall, InLarge, InLent
<1>14. InSmall(b) \/ InLarge(b) \/ InLent(b)
  BY <1>5, <1>7
<1>15. InSmall(c) \/ InLarge(c) \/ InLent(c)
  BY <1>5, <1>7
<1>16. \A d, e : d \cap e = {} => e \cap d = {}
  OBVIOUS
<1>17. QED
  BY <1>8, <1>9, <1>10, <1>11, <1>12, <1>13, <1>14, <1>15, <1>16

(* The same after a step.                                                  *)
LEMMA LiveApartNext == MemoryInv' => NoOverlap'
BY LiveApart, PTL

(* A step gives memory that nobody has, or takes memory back.              *)
LEMMA MemoryStep ==
  ASSUME MemoryInv, EnoughPages, [HeapNext]_heapVars
  PROVE  MemoryInv' /\ [Memory!Next]_LiveBlocks
<1>1. MemoryInv' /\ Hands
  BY HeapHands, HeapInvNext DEF MemoryInv
<1>2. CASE ObjectsStay /\ LentPages \subseteq LentPages'
  <2>1. LiveBlocks \subseteq LiveBlocks'
    BY <1>2 DEF LiveBlocks, ObjectsStay
  <2>2. \A b, c \in LiveBlocks' : b # c => b \cap c = {}
    BY <1>1, LiveApartNext DEF NoOverlap
  <2>3. Memory!Alloc
    BY <2>1, <2>2 DEF Memory!Alloc
  <2>4. QED
    BY <1>1, <2>3 DEF Memory!Next
<1>3. CASE /\ \A b \in DOMAIN objects' : b \in DOMAIN objects /\ objects'[b] = objects[b]
           /\ LentPages' \subseteq LentPages
  <2>1. Memory!Free
    BY <1>3 DEF Memory!Free, LiveBlocks
  <2>2. QED
    BY <1>1, <2>1 DEF Memory!Next
<1>4. QED
  BY <1>1, <1>2, <1>3 DEF Hands

(***************************************************************************)
(* What kmalloc and alloc_pages hand out never overlaps and stays the      *)
(* caller's until it is given back, for any sizes of which find_order      *)
(* loses no remainder.  (For others it is not so: 8193 bytes get two       *)
(* pages.)                                                                 *)
(***************************************************************************)
THEOREM HeapImplementsMemory ==
  ASSUME EnoughPages
  PROVE  HeapSpec => MemorySpec
<1>1. HeapInit => MemoryInv /\ Memory!Init
  <2> SUFFICES ASSUME HeapInit PROVE MemoryInv /\ Memory!Init
    OBVIOUS
  <2>1. DOMAIN objects = {} /\ bigblocks = <<>> /\ used = {}
    BY DEF HeapInit, PageInit
  <2>2. Bigs = {}
    BY <2>1, EmptyList DEF Bigs
  <2>3. LiveBlocks = {}
    BY <2>1 DEF LiveBlocks, LentPages
  <2>4. QED
    BY <2>2, <2>3, HeapInvInit DEF MemoryInv, BigsFit, Memory!Init
<1>2. MemoryInv /\ [HeapNext]_heapVars => MemoryInv' /\ [Memory!Next]_LiveBlocks
  BY MemoryStep
<1>3. QED
  BY <1>1, <1>2, PTL DEF HeapSpec, MemorySpec, Memory!Spec

=============================================================================

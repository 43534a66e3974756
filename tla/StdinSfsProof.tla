--------------------------- MODULE StdinSfsProof ---------------------------
(***************************************************************************)
(* Two parts of the file system that share no state.                       *)
(*                                                                         *)
(* The terminal, for any set of readers and rings of any size.  First that *)
(* no wakeup is lost, for which it does not matter which characters there  *)
(* are, only whether there is one.  Then that each character is read once  *)
(* and in its order, through both rings: the line is what was read and     *)
(* what is held in the three places, one after the other, and each step    *)
(* moves its characters without changing it.  Then that stdin is a bounded *)
(* queue.                                                                  *)
(*                                                                         *)
(* The blocks of the simple file system, for any files, any number of      *)
(* blocks and any shape of the block map: every block is free or in one    *)
(* place, and what is not marked to be written is the same on the disk.    *)
(***************************************************************************)
EXTENDS Stdin, Sfs, ListLemmas

(* What a read and a key work on has its type.                             *)
WaitTypes ==
  /\ p_rpos \in Nat /\ p_wpos \in Nat /\ p_rpos <= p_wpos
  /\ wait_queue \in Seq(Reader)
  /\ wakeup_flags \in [Reader -> {"WT_KBD", "WT_INTERRUPTED"}]
  /\ wait_state \in [Reader -> {"WT_KBD", "0"}]
  /\ exiting \in [Reader -> BOOLEAN]
  /\ left \in [Reader -> Nat]
  /\ pc \in [Reader -> {"user", "read", "dead"}]

(* The inductive invariant.                                                *)
WaitInv == WaitTypes /\ NobodySleepsOnInput

waitVars == <<p_rpos, p_wpos, procVars>>

(* The invariant speaks of these variables only.                           *)
LEMMA WaitInvStutters == WaitInv /\ UNCHANGED waitVars => WaitInv'
BY DEF WaitInv, WaitTypes, NobodySleepsOnInput, LinkedInFrame, waitVars, procVars

-----------------------------------------------------------------------------
(* Nothing is typed and nobody waits at the start.                         *)
LEMMA WaitInit == Init => WaitInv
<1> SUFFICES ASSUME Init PROVE WaitInv
  OBVIOUS
<1>1. WaitTypes
  BY EmptySeq DEF Init, WaitTypes
<1>2. NobodySleepsOnInput
  BY EmptySeq DEF Init, NobodySleepsOnInput, LinkedInFrame, NoRepeat, InList
<1>3. QED
  BY <1>1, <1>2 DEF WaitInv

(* A key that reaches stdin leaves nobody linked and nobody asleep.        *)
LEMMA KeyWakesAll ==
  ASSUME WaitInv, NEW c, dev_stdin_write(c), UNCHANGED <<exiting, left, pc>>
  PROVE  WaitInv'
<1>1. Len(wait_queue) \in Nat
  BY LenProperties DEF WaitInv, WaitTypes
<1>2. wait_queue' = <<>>
  BY <1>1, SubSeqEmpty DEF dev_stdin_write, WokenCount
<1>3. \A r \in Reader : InList(r, wait_queue) <=> r \in Woken
  BY DEF InList, Woken, WokenCount
<1>4. \A r \in Reader : wait_state'[r] = "0"
  BY <1>3 DEF dev_stdin_write, WaitInv, WaitTypes, NobodySleepsOnInput
<1>5. WaitTypes'
  <2>1. p_rpos' \in Nat /\ p_wpos' \in Nat /\ p_rpos' <= p_wpos'
    BY DEF dev_stdin_write, WaitInv, WaitTypes
  <2>2. wait_queue' \in Seq(Reader)
    BY <1>2, EmptySeq
  <2>3. /\ wakeup_flags' \in [Reader -> {"WT_KBD", "WT_INTERRUPTED"}]
        /\ wait_state' \in [Reader -> {"WT_KBD", "0"}]
    BY DEF dev_stdin_write, WaitInv, WaitTypes
  <2>4. QED
    BY <2>1, <2>2, <2>3 DEF WaitInv, WaitTypes
<1>6. NoRepeat(wait_queue') /\ \A r : ~InList(r, wait_queue')
  BY <1>2, EmptySeq DEF NoRepeat, InList
<1>7. QED
  BY <1>4, <1>5, <1>6 DEF WaitInv, NobodySleepsOnInput, LinkedInFrame

(***************************************************************************)
(* A read that is not linked either returns, or finds the buffer empty and *)
(* links itself; in both cases it leaves the others' sleep as it was,      *)
(* since it takes a character only if nobody sleeps.                       *)
(***************************************************************************)
LEMMA ReadLinksItself ==
  ASSUME WaitInv, NEW r \in Reader, NEW n \in Nat, dev_stdin_read(r, n),
         ~InList(r, wait_queue)
  PROVE  WaitInv'
<1> DEFINE k == IF n <= p_wpos - p_rpos THEN n ELSE p_wpos - p_rpos
<1>1. /\ k \in Nat /\ k <= n /\ k <= p_wpos - p_rpos
      /\ p_rpos' = p_rpos + k /\ p_wpos' = p_wpos
      /\ left' = [left EXCEPT ![r] = n - k]
      /\ exiting' = exiting
  BY DEF dev_stdin_read, lineVars, WaitInv, WaitTypes
<1>2. /\ p_rpos' \in Nat /\ p_wpos' \in Nat /\ p_rpos' <= p_wpos'
      /\ left' \in [Reader -> Nat]
      /\ p_rpos = p_wpos => p_rpos' = p_wpos'
  BY <1>1 DEF WaitInv, WaitTypes
<1>3. wait_state[r] = "0"
  BY DEF WaitInv, WaitTypes, NobodySleepsOnInput
<1>4. CASE k = n
  <2>1. /\ pc' = [pc EXCEPT ![r] = AfterRead(r)]
        /\ UNCHANGED <<wait_state, wakeup_flags, wait_queue>>
    BY <1>4 DEF dev_stdin_read, Unlinked
  <2>2. WaitTypes'
    BY <2>1, <1>1, <1>2 DEF WaitInv, WaitTypes, AfterRead
  <2>3. \A q \in Reader : InList(q, wait_queue) => pc'[q] = pc[q]
    BY <2>1 DEF WaitInv, WaitTypes
  <2>4. QED
    BY <2>1, <2>2, <2>3, <1>1, <1>2 DEF WaitInv, NobodySleepsOnInput, LinkedInFrame
<1>5. CASE k # n
  <2>1. /\ pc' = [pc EXCEPT ![r] = "read"]
        /\ wait_state' = [wait_state EXCEPT ![r] = "WT_KBD"]
        /\ wakeup_flags' = [wakeup_flags EXCEPT ![r] = "WT_INTERRUPTED"]
        /\ wait_queue' = Append(wait_queue, r)
    BY <1>5 DEF dev_stdin_read
  <2>2. /\ wait_queue' \in Seq(Reader) /\ NoRepeat(wait_queue')
        /\ \A q : InList(q, wait_queue') <=> InList(q, wait_queue) \/ q = r
    BY <2>1, AppendList DEF WaitInv, WaitTypes, NobodySleepsOnInput, LinkedInFrame
  <2>3. WaitTypes'
    BY <2>1, <2>2, <1>1, <1>2 DEF WaitInv, WaitTypes
  <2>4. p_rpos' = p_wpos'
    BY <1>1, <1>5 DEF WaitInv, WaitTypes
  <2>5. \A q \in Reader : InList(q, wait_queue') => pc'[q] = "read" /\ wakeup_flags'[q] = "WT_INTERRUPTED"
    BY <2>1, <2>2 DEF WaitInv, WaitTypes, NobodySleepsOnInput, LinkedInFrame
  <2>6. \A q \in Reader : wait_state'[q] = "WT_KBD" => InList(q, wait_queue')
    BY <2>1, <2>2 DEF WaitInv, WaitTypes, NobodySleepsOnInput
  <2>7. QED
    BY <2>2, <2>3, <2>4, <2>5, <2>6 DEF WaitInv, NobodySleepsOnInput, LinkedInFrame
<1>6. QED
  BY <1>4, <1>5

(* A read that a kill ended takes itself, and nobody else, out of the queue.*)
LEMMA InterruptedUnlinks ==
  ASSUME WaitInv, NEW r \in Reader, read_interrupted(r)
  PROVE  WaitInv'
<1>1. /\ wait_queue' \in Seq(Reader) /\ NoRepeat(wait_queue')
      /\ \A q : InList(q, wait_queue') <=> InList(q, wait_queue) /\ q # r
  <2>1. wait_queue' = Unlinked(r)
    BY DEF read_interrupted
  <2>2. CASE ~InList(r, wait_queue)
    BY <2>1, <2>2 DEF Unlinked, WaitInv, WaitTypes, NobodySleepsOnInput, LinkedInFrame
  <2>3. CASE InList(r, wait_queue)
    <3>1. PlaceOf(r) \in 1..Len(wait_queue) /\ wait_queue[PlaceOf(r)] = r
      BY <2>3 DEF InList, PlaceOf
    <3>2. wait_queue' = SubSeq(wait_queue, 1, PlaceOf(r) - 1)
                          \o SubSeq(wait_queue, PlaceOf(r) + 1, Len(wait_queue))
      BY <2>1, <2>3 DEF Unlinked, RemoveAt
    <3>3. wait_queue \in Seq(Reader) /\ NoRepeat(wait_queue)
      BY DEF WaitInv, WaitTypes, NobodySleepsOnInput, LinkedInFrame
    <3>4. QED
      BY <3>1, <3>2, <3>3, CutList
  <2>4. QED
    BY <2>2, <2>3
<1>2. /\ wait_state[r] = "0"
      /\ pc' = [pc EXCEPT ![r] = AfterRead(r)]
      /\ left' = [left EXCEPT ![r] = 0]
      /\ UNCHANGED <<p_rpos, p_wpos, wakeup_flags, wait_state, exiting>>
  BY DEF read_interrupted, Runs, ringVars
<1>3. WaitTypes'
  BY <1>1, <1>2 DEF WaitInv, WaitTypes, AfterRead
<1>4. \A q \in Reader : InList(q, wait_queue') => pc'[q] = "read" /\ wakeup_flags'[q] = "WT_INTERRUPTED"
  BY <1>1, <1>2 DEF WaitInv, WaitTypes, NobodySleepsOnInput, LinkedInFrame
<1>5. \A q \in Reader : wait_state'[q] = "WT_KBD" => p_rpos' = p_wpos' /\ InList(q, wait_queue')
  BY <1>1, <1>2 DEF WaitInv, NobodySleepsOnInput
<1>6. QED
  BY <1>1, <1>3, <1>4, <1>5 DEF WaitInv, NobodySleepsOnInput, LinkedInFrame

-----------------------------------------------------------------------------
(* Every step keeps the invariant.                                         *)
LEMMA WaitNext == WaitInv /\ [Next]_vars => WaitInv'
<1> SUFFICES ASSUME WaitInv, [Next]_vars PROVE WaitInv'
  OBVIOUS
<1>1. CASE kbd_interrupt
  <2>1. CASE GetsChar(Drained)
    BY <1>1, <2>1, KeyWakesAll DEF kbd_interrupt
  <2>2. CASE ~GetsChar(Drained)
    BY <1>1, <2>2, WaitInvStutters DEF kbd_interrupt, waitVars, procVars, ringVars
  <2>3. QED
    BY <2>1, <2>2
<1>2. CASE KeyPressed \/ SerialByte \/ NothingTyped
  BY <1>2, WaitInvStutters DEF KeyPressed, SerialByte, NothingTyped, waitVars, ringVars
<1>3. ASSUME NEW r \in Reader, sys_read(r)
      PROVE  WaitInv'
  <2>1. PICK n \in 1..MaxLen : dev_stdin_read(r, n)
    BY <1>3 DEF sys_read
  <2>2. ~InList(r, wait_queue)
    BY <1>3 DEF sys_read, WaitInv, NobodySleepsOnInput, LinkedInFrame
  <2>3. n \in Nat
    BY StdinAssumption
  <2>4. QED
    BY <2>1, <2>2, <2>3, ReadLinksItself
<1>4. ASSUME NEW r \in Reader, read_on(r)
      PROVE  WaitInv'
  <2>1. ~InList(r, wait_queue)
    BY <1>4 DEF read_on, WaitInv, NobodySleepsOnInput, LinkedInFrame
  <2>2. left[r] \in Nat /\ dev_stdin_read(r, left[r])
    BY <1>4 DEF read_on, WaitInv, WaitTypes
  <2>3. QED
    BY <2>1, <2>2, ReadLinksItself
<1>5. ASSUME NEW r \in Reader, read_interrupted(r)
      PROVE  WaitInv'
  BY <1>5, InterruptedUnlinks
<1>6. ASSUME NEW r \in Reader, trap_exit(r)
      PROVE  WaitInv'
  <2>1. ~InList(r, wait_queue)
    BY <1>6 DEF trap_exit, WaitInv, NobodySleepsOnInput, LinkedInFrame
  <2>2. QED
    BY <1>6, <2>1
    DEF trap_exit, ringVars, WaitInv, WaitTypes, NobodySleepsOnInput, LinkedInFrame
<1>7. ASSUME NEW r \in Reader, do_kill(r)
      PROVE  WaitInv'
  BY <1>7 DEF do_kill, ringVars, WaitInv, WaitTypes, NobodySleepsOnInput, LinkedInFrame
<1>8. CASE UNCHANGED vars
  BY <1>8, WaitInvStutters DEF vars, waitVars, ringVars
<1>9. QED
  BY <1>1, <1>2, <1>3, <1>4, <1>5, <1>6, <1>7, <1>8 DEF Next, ReaderStep

(***************************************************************************)
(* Nobody sleeps on the terminal while stdin has a character, and a wait_t *)
(* is linked only while the read on whose stack it lies sleeps in it.      *)
(***************************************************************************)
THEOREM StdinNoLostWakeup == Spec => []NobodySleepsOnInput
<1>1. WaitInv => NobodySleepsOnInput
  BY DEF WaitInv
<1>2. QED
  BY <1>1, WaitInit, WaitNext, PTL DEF Spec

-----------------------------------------------------------------------------
(***************************************************************************)
(* Remainders.  A ring of n slots tells n successive positions apart.      *)
(***************************************************************************)
LEMMA SmallMod == ASSUME NEW n \in Nat \ {0}, NEW x \in 0..(n-1) PROVE x % n = x
OBVIOUS

(* Remainders are places in the ring.                                      *)
LEMMA ModRange == ASSUME NEW n \in Nat \ {0}, NEW x \in Int PROVE x % n \in 0..(n-1)
OBVIOUS

(* What a remainder is.                                                    *)
LEMMA DivMod ==
  ASSUME NEW n \in Nat \ {0}, NEW x \in Int
  PROVE  x % n \in 0..(n-1) /\ x \div n \in Int /\ x = n * (x \div n) + (x % n)
OBVIOUS

(* Once around the ring is the same place.                                 *)
LEMMA AddMod == ASSUME NEW n \in Nat \ {0}, NEW x \in Int PROVE (x + n) % n = x % n
<1> DEFINE q == x \div n
           r == x % n
<1>1. r \in 0..(n-1) /\ q \in Int /\ x = n * q + r
  BY DivMod
<1> HIDE DEF q, r
<1> DEFINE d == q + 1
<1>2. x + n = n * d + r /\ d \in Int
  BY <1>1
<1> HIDE DEF d
<1>3. (n * d + r) % n = r
  BY <1>1, <1>2
<1>4. QED
  BY <1>2, <1>3 DEF r

(* Two positions with the same slot are one or a whole ring apart.         *)
LEMMA WindowMod ==
  ASSUME NEW n \in Nat \ {0}, NEW x \in Int, NEW d \in 0..(n-1), x % n = (x + d) % n
  PROVE  d = 0
<1> DEFINE q  == x \div n
           r  == x % n
           q1 == (x + d) \div n
<1>1. r \in 0..(n-1) /\ q \in Int /\ x = n * q + r
  BY DivMod
<1>2. q1 \in Int /\ x + d = n * q1 + r
  BY DivMod
<1> HIDE DEF q, r, q1
<1>3. n * q \in Int /\ n * q1 \in Int /\ n * q1 = n * q + d
  BY <1>1, <1>2
<1> DEFINE k == q1 - q
<1>4. n * k = n * q1 - n * q /\ k \in Int
  BY <1>1, <1>2
<1> HIDE DEF k
<1>5. n * k = d
  BY <1>3, <1>4
<1>6. ASSUME 0 < n * k, n * k < n PROVE FALSE
  BY <1>4, <1>6
<1>7. QED
  BY <1>5, <1>6

(* Successors and distances in a ring.                                     *)
LEMMA RingMod ==
  ASSUME NEW n \in Nat \ {0}, NEW r \in 0..(n-1), NEW w \in 0..(n-1)
  PROVE  /\ (w + 1) % n = IF w + 1 = n THEN 0 ELSE w + 1
         /\ (w - r) % n = IF r <= w THEN w - r ELSE w - r + n
<1>1. (w + 1) % n = IF w + 1 = n THEN 0 ELSE w + 1
  <2>1. CASE w + 1 = n
    <3>1. (0 + n) % n = 0 % n /\ 0 % n = 0
      BY AddMod, SmallMod
    <3>2. QED
      BY <2>1, <3>1
  <2>2. CASE w + 1 # n
    BY <2>2, SmallMod
  <2>3. QED
    BY <2>1, <2>2
<1>2. (w - r) % n = IF r <= w THEN w - r ELSE w - r + n
  <2>1. CASE r <= w
    BY <2>1, SmallMod
  <2>2. CASE ~(r <= w)
    <3>1. w - r \in Int /\ (w - r) + n \in 0..(n-1)
      BY <2>2
    <3>2. ((w - r) + n) % n = (w - r) % n
      BY <3>1, AddMod
    <3>3. QED
      BY <2>2, <3>1, <3>2, SmallMod
  <2>3. QED
    BY <2>1, <2>2
<1>3. QED
  BY <1>1, <1>2

-----------------------------------------------------------------------------
(***************************************************************************)
(* The console's ring.                                                     *)
(***************************************************************************)
Value == Char \cup {Empty}

Ring == [buf : [0..(CONSBUFSIZE-1) -> Value], rpos : 0..(CONSBUFSIZE-1), wpos : 0..(CONSBUFSIZE-1)]

(* What a ring holds, as a sequence.                                       *)
LEMMA HeldFacts ==
  ASSUME NEW ring \in Ring
  PROVE  /\ Held(ring) \in Seq(Value)
         /\ Len(Held(ring)) = (ring.wpos - ring.rpos) % CONSBUFSIZE
         /\ Len(Held(ring)) \in 0..(CONSBUFSIZE-1)
         /\ \A k \in 1..Len(Held(ring)) : Held(ring)[k] = ring.buf[(ring.rpos + k - 1) % CONSBUFSIZE]
<1> DEFINE n == CONSBUFSIZE
           m == (ring.wpos - ring.rpos) % n
<1>1. /\ n \in Nat \ {0} /\ ring.wpos \in 0..(n-1) /\ ring.rpos \in 0..(n-1)
      /\ ring.buf \in [0..(n-1) -> Value]
  BY StdinAssumption DEF Ring
<1>2. m \in 0..(n-1)
  <2>1. ring.wpos - ring.rpos \in Int
    BY <1>1
  <2>2. QED
    BY <1>1, <2>1, ModRange
<1>3. ASSUME NEW k \in 1..m PROVE ring.buf[(ring.rpos + k - 1) % n] \in Value
  <2>1. ring.rpos + k - 1 \in Int
    BY <1>1, <1>2
  <2> DEFINE i == (ring.rpos + k - 1) % n
  <2>2. i \in 0..(n-1)
    BY <1>1, <2>1, ModRange
  <2> HIDE DEF i, n
  <2>3. QED
    BY <1>1, <2>2 DEF i
<1>4. Held(ring) = [k \in 1..m |-> ring.buf[(ring.rpos + k - 1) % n]]
  BY DEF Held
<1> HIDE DEF m
<1>5. m \in Nat
  BY <1>1, <1>2
<1>6. Held(ring) \in [1..m -> Value]
  BY <1>3, <1>4
<1>7. Held(ring) \in Seq(Value) /\ Len(Held(ring)) = m
  BY <1>5, <1>6
<1>8. QED
  BY <1>2, <1>4, <1>7 DEF m

(* A character more, unless the ring is full: then it is empty at once.    *)
LEMMA ConsIntrHeld ==
  ASSUME NEW ring \in Ring, NEW c \in Char
  PROVE  /\ cons_intr(ring, c) \in Ring
         /\ Held(cons_intr(ring, c)) = <<>> \/ Held(cons_intr(ring, c)) = Append(Held(ring), c)
<1> DEFINE n   == CONSBUFSIZE
           r   == ring.rpos
           w   == ring.wpos
           new == cons_intr(ring, c)
           v   == (w + 1) % n
           len == Len(Held(ring))
<1>1. /\ n \in Nat \ {0} /\ w \in 0..(n-1) /\ r \in 0..(n-1)
      /\ ring.buf \in [0..(n-1) -> Value] /\ c \in Value
  BY StdinAssumption DEF Ring, Value
<1>2. /\ v = IF w + 1 = n THEN 0 ELSE w + 1
      /\ v \in 0..(n-1)
  <2> HIDE DEF n, w, r
  <2>1. v = IF w + 1 = n THEN 0 ELSE w + 1
    BY <1>1, RingMod
  <2> HIDE DEF v
  <2>2. QED
    BY <1>1, <2>1
<1>3. /\ new \in Ring /\ new.rpos = r /\ new.wpos = v
      /\ new.buf = [ring.buf EXCEPT ![w] = c]
  BY <1>1, <1>2 DEF cons_intr, Ring
<1>4. /\ len = IF r <= w THEN w - r ELSE w - r + n
      /\ len \in 0..(n-1)
      /\ Held(ring) \in Seq(Value)
      /\ \A k \in 1..len : Held(ring)[k] = ring.buf[(r + k - 1) % n]
  <2>1. /\ len = (w - r) % n /\ len \in 0..(n-1) /\ Held(ring) \in Seq(Value)
        /\ \A k \in 1..len : Held(ring)[k] = ring.buf[(r + k - 1) % n]
    BY HeldFacts
  <2> HIDE DEF n, w, r, len
  <2>2. (w - r) % n = IF r <= w THEN w - r ELSE w - r + n
    BY <1>1, RingMod
  <2>3. QED
    BY <2>1, <2>2
<1>5. /\ Len(Held(new)) = IF r <= v THEN v - r ELSE v - r + n
      /\ Held(new) \in Seq(Value)
      /\ \A k \in 1..Len(Held(new)) : Held(new)[k] = new.buf[(r + k - 1) % n]
  <2> HIDE DEF v, r, w, new
  <2>1. /\ Len(Held(new)) = (v - r) % n
        /\ Held(new) \in Seq(Value)
        /\ \A k \in 1..Len(Held(new)) : Held(new)[k] = new.buf[(r + k - 1) % n]
    BY <1>3, HeldFacts
  <2>2. (v - r) % n = IF r <= v THEN v - r ELSE v - r + n
    BY <1>1, <1>2, RingMod
  <2>3. QED
    BY <2>1, <2>2
<1>6. (r + len) % n = w
  <2> HIDE DEF n, r, w, len
  <2>1. CASE r <= w
    <3>1. r + len = w
      BY <1>1, <1>4, <2>1
    <3>2. QED
      BY <1>1, <3>1, SmallMod
  <2>2. CASE ~(r <= w)
    <3>1. r + len = w + n
      BY <1>1, <1>4, <2>2
    <3>2. w % n = w
      BY <1>1, SmallMod
    <3>3. (w + n) % n = w % n
      <4>1. w \in Int
        BY <1>1
      <4>2. QED
        BY <1>1, <4>1, AddMod
    <3>4. QED
      BY <3>1, <3>2, <3>3
  <2>3. QED
    BY <2>1, <2>2
<1> HIDE DEF n, r, w, v, len, new
<1>7. CASE v = r
  <2>1. Len(Held(new)) = 0
    BY <1>1, <1>5, <1>7
  <2>2. Held(new) = <<>>
    BY <1>5, <2>1, EmptySeq
  <2>3. QED
    BY <1>3, <2>2 DEF new
<1>8. CASE v # r
  <2>1. Len(Held(new)) = len + 1
    BY <1>1, <1>2, <1>4, <1>5, <1>8
  <2>2. ASSUME NEW k \in 1..len PROVE Held(new)[k] = Held(ring)[k]
    <3> DEFINE i == (r + k - 1) % n
    <3>1. r + k - 1 \in Int /\ len - k + 1 \in 0..(n-1) /\ len - k + 1 # 0
          /\ (r + k - 1) + (len - k + 1) = r + len
      BY <1>1, <1>4
    <3>2. i # w
      BY <1>1, <1>6, <3>1, WindowMod
    <3>3. i \in 0..(n-1)
      BY <1>1, <3>1, ModRange
    <3>4. Held(new)[k] = new.buf[i] /\ Held(ring)[k] = ring.buf[i]
      BY <1>4, <1>5, <2>1
    <3> HIDE DEF i
    <3>5. QED
      BY <1>1, <1>3, <3>2, <3>3, <3>4
  <2>3. Held(new)[len + 1] = c
    <3>1. len + 1 \in 1..(len + 1) /\ r + (len + 1) - 1 = r + len
      BY <1>1, <1>4
    <3>2. Held(new)[len + 1] = new.buf[w]
      BY <1>5, <1>6, <2>1, <3>1
    <3>3. QED
      BY <1>1, <1>3, <3>2
  <2> DEFINE app == Append(Held(ring), c)
  <2>4. /\ app \in Seq(Value) /\ Len(app) = len + 1
        /\ \A k \in 1..len : app[k] = Held(ring)[k]
        /\ app[len + 1] = c
    BY <1>1, <1>4, AppendProperties DEF len
  <2> HIDE DEF app
  <2>5. \A k \in 1..(len + 1) : Held(new)[k] = app[k]
    BY <1>4, <2>2, <2>3, <2>4
  <2>6. Held(new) = app
    BY <1>5, <2>1, <2>4, <2>5, SeqEqual
  <2>7. QED
    BY <1>3, <2>6 DEF new, app
<1>9. QED
  BY <1>7, <1>8

(* Reading takes the oldest character out.                                 *)
LEMMA NextReadHeld ==
  ASSUME NEW ring \in Ring
  PROVE  /\ ~GetsChar(ring) => Held(ring) = <<>>
         /\ GetsChar(ring) => /\ NextRead(ring) \in Ring
                              /\ Held(ring) # <<>>
                              /\ Head(Held(ring)) = ring.buf[ring.rpos]
                              /\ Held(NextRead(ring)) = Tail(Held(ring))
<1> DEFINE n   == CONSBUFSIZE
           r   == ring.rpos
           w   == ring.wpos
           new == NextRead(ring)
           v   == (r + 1) % n
           len == Len(Held(ring))
<1>1. n \in Nat \ {0} /\ w \in 0..(n-1) /\ r \in 0..(n-1)
  BY StdinAssumption DEF Ring
<1>2. /\ v = IF r + 1 = n THEN 0 ELSE r + 1
      /\ v \in 0..(n-1)
  <2> HIDE DEF n, w, r
  <2>1. v = IF r + 1 = n THEN 0 ELSE r + 1
    BY <1>1, RingMod
  <2> HIDE DEF v
  <2>2. QED
    BY <1>1, <2>1
<1>3. /\ new \in Ring /\ new.rpos = v /\ new.wpos = w
      /\ new.buf = ring.buf
  BY <1>1, <1>2 DEF NextRead, Ring
<1>4. /\ len = IF r <= w THEN w - r ELSE w - r + n
      /\ len \in 0..(n-1)
      /\ Held(ring) \in Seq(Value)
      /\ \A k \in 1..len : Held(ring)[k] = ring.buf[(r + k - 1) % n]
  <2>1. /\ len = (w - r) % n /\ len \in 0..(n-1) /\ Held(ring) \in Seq(Value)
        /\ \A k \in 1..len : Held(ring)[k] = ring.buf[(r + k - 1) % n]
    BY HeldFacts
  <2> HIDE DEF n, w, r, len
  <2>2. (w - r) % n = IF r <= w THEN w - r ELSE w - r + n
    BY <1>1, RingMod
  <2>3. QED
    BY <2>1, <2>2
<1>5. /\ Len(Held(new)) = IF v <= w THEN w - v ELSE w - v + n
      /\ Held(new) \in Seq(Value)
      /\ \A k \in 1..Len(Held(new)) : Held(new)[k] = ring.buf[(v + k - 1) % n]
  <2> HIDE DEF v, r, w, new
  <2>1. /\ Len(Held(new)) = (w - v) % n
        /\ Held(new) \in Seq(Value)
        /\ \A k \in 1..Len(Held(new)) : Held(new)[k] = ring.buf[(v + k - 1) % n]
    BY <1>3, HeldFacts
  <2>2. (w - v) % n = IF v <= w THEN w - v ELSE w - v + n
    BY <1>1, <1>2, RingMod
  <2>3. QED
    BY <2>1, <2>2
<1>6. GetsChar(ring) <=> r # w
  BY DEF GetsChar
<1> HIDE DEF n, r, w, v, len, new
<1>7. CASE r = w
  <2>1. len = 0
    BY <1>1, <1>4, <1>7
  <2>2. Held(ring) = <<>>
    BY <1>4, <2>1, EmptySeq DEF len
  <2>3. QED
    BY <1>6, <1>7, <2>2
<1>8. CASE r # w
  <2>1. Len(Held(new)) = len - 1 /\ len > 0
    BY <1>1, <1>2, <1>4, <1>5, <1>8
  <2>2. Held(ring) # <<>>
    BY <2>1, EmptySeq DEF len
  <2>3. Head(Held(ring)) = ring.buf[r]
    <3>1. 1 \in 1..len /\ r + 1 - 1 = r
      BY <1>1, <1>4, <2>1
    <3>2. r % n = r
      BY <1>1, SmallMod
    <3>3. Held(ring)[1] = ring.buf[(r + 1 - 1) % n]
      BY <1>4, <3>1
    <3>4. QED
      BY <3>1, <3>2, <3>3
  <2> DEFINE tail == Tail(Held(ring))
  <2>4. /\ tail \in Seq(Value) /\ Len(tail) = len - 1
        /\ \A k \in 1..(len - 1) : tail[k] = Held(ring)[k + 1]
    BY <1>4, <2>2, HeadTailProperties DEF len
  <2> HIDE DEF tail
  <2>5. ASSUME NEW k \in 1..(len - 1) PROVE Held(new)[k] = tail[k]
    <3>1. k + 1 \in 1..len /\ r + (k + 1) - 1 = r + k
      BY <1>1, <1>4
    <3>2. tail[k] = ring.buf[(r + k) % n]
      BY <1>4, <2>4, <3>1
    <3>3. (v + k - 1) % n = (r + k) % n
      <4>1. CASE r + 1 = n
        <5>1. v + k - 1 \in Int /\ (v + k - 1) + n = r + k
          BY <1>1, <1>2, <1>4, <4>1
        <5>2. QED
          BY <1>1, <5>1, AddMod
      <4>2. CASE r + 1 # n
        <5>1. v + k - 1 = r + k
          BY <1>1, <1>2, <1>4, <4>2
        <5>2. QED
          BY <5>1
      <4>3. QED
        BY <4>1, <4>2
    <3>4. QED
      BY <1>5, <2>1, <3>2, <3>3
  <2>6. Held(new) = tail
    BY <1>5, <2>1, <2>4, <2>5, SeqEqual
  <2>7. QED
    BY <1>3, <1>6, <1>8, <2>2, <2>3, <2>6 DEF new, tail, r
<1>9. QED
  BY <1>7, <1>8

-----------------------------------------------------------------------------
(***************************************************************************)
(* The ring of stdin, whose positions only grow.                           *)
(***************************************************************************)
StdinRing ==
  /\ stdin_buffer \in [0..(STDIN_BUFSIZE-1) -> Value]
  /\ p_rpos \in Nat /\ p_wpos \in Nat
  /\ p_rpos <= p_wpos /\ p_wpos <= p_rpos + STDIN_BUFSIZE

(* What a buffer holds between two positions.                              *)
Between(buf, r, w) == [k \in 1..(w - r) |-> buf[(r + k - 1) % STDIN_BUFSIZE]]

(* It is a sequence.                                                       *)
LEMMA BetweenFacts ==
  ASSUME NEW buf \in [0..(STDIN_BUFSIZE-1) -> Value], NEW r \in Nat, NEW w \in Nat, r <= w
  PROVE  /\ Between(buf, r, w) \in Seq(Value)
         /\ Len(Between(buf, r, w)) = w - r
         /\ \A k \in 1..(w - r) : Between(buf, r, w)[k] = buf[(r + k - 1) % STDIN_BUFSIZE]
<1> DEFINE n == STDIN_BUFSIZE
           m == w - r
<1>1. n \in Nat \ {0} /\ m \in Nat
  BY StdinAssumption
<1>2. ASSUME NEW k \in 1..m PROVE buf[(r + k - 1) % n] \in Value
  <2>1. r + k - 1 \in Int
    BY <1>1
  <2> DEFINE i == (r + k - 1) % n
  <2>2. i \in 0..(n-1)
    BY <1>1, <2>1, ModRange
  <2> HIDE DEF i
  <2>3. QED
    BY <2>2 DEF i
<1>3. Between(buf, r, w) = [k \in 1..m |-> buf[(r + k - 1) % n]]
  BY DEF Between
<1> HIDE DEF m
<1>4. Between(buf, r, w) \in [1..m -> Value]
  BY <1>2, <1>3
<1>5. Between(buf, r, w) \in Seq(Value) /\ Len(Between(buf, r, w)) = m
  BY <1>1, <1>4
<1>6. QED
  BY <1>3, <1>5 DEF m

(* StdinChars, before a step and after it.                                 *)
LEMMA StdinFacts ==
  ASSUME StdinRing
  PROVE  /\ StdinChars \in Seq(Value)
         /\ Len(StdinChars) = p_wpos - p_rpos
         /\ \A k \in 1..(p_wpos - p_rpos) :
              StdinChars[k] = stdin_buffer[(p_rpos + k - 1) % STDIN_BUFSIZE]
<1>1. StdinChars = Between(stdin_buffer, p_rpos, p_wpos)
  BY DEF StdinChars, Between
<1>2. QED
  BY <1>1, BetweenFacts DEF StdinRing

(* The same after a step.                                                  *)
LEMMA StdinFactsPrimed ==
  ASSUME StdinRing'
  PROVE  /\ StdinChars' \in Seq(Value)
         /\ Len(StdinChars') = p_wpos' - p_rpos'
         /\ \A k \in 1..(p_wpos' - p_rpos') :
              StdinChars'[k] = stdin_buffer'[(p_rpos' + k - 1) % STDIN_BUFSIZE]
<1>1. StdinChars' = Between(stdin_buffer', p_rpos', p_wpos')
  BY DEF StdinChars, Between
<1>2. QED
  BY <1>1, BetweenFacts DEF StdinRing

(* A character more: at the end, or in the place of the oldest.            *)
LEMMA WriteRing ==
  ASSUME StdinRing, NEW c \in Value, dev_stdin_write(c)
  PROVE  /\ StdinRing'
         /\ StdinChars' = IF HasRoom THEN Append(StdinChars, c) ELSE <<c>> \o Tail(StdinChars)
         /\ ~HasRoom => StdinChars # <<>> /\ Head(StdinChars) = stdin_buffer[p_wpos % STDIN_BUFSIZE]
         /\ HasRoom <=> Len(StdinChars) < STDIN_BUFSIZE
<1> DEFINE n    == STDIN_BUFSIZE
           r    == p_rpos
           w    == p_wpos
           slot == w % n
           old  == StdinChars
           new  == StdinChars'
<1>1. /\ n \in Nat \ {0} /\ r \in Nat /\ w \in Nat /\ w - r \in 0..n
      /\ stdin_buffer \in [0..(n-1) -> Value]
  BY StdinAssumption DEF StdinRing
<1>2. /\ stdin_buffer' = [stdin_buffer EXCEPT ![slot] = c]
      /\ p_wpos' = IF HasRoom THEN w + 1 ELSE w
      /\ p_rpos' = r
      /\ HasRoom <=> w - r < n
  BY DEF dev_stdin_write, HasRoom
<1>3. slot \in 0..(n-1)
  BY <1>1, ModRange
<1> HIDE DEF slot
<1>4. StdinRing'
  BY <1>1, <1>2, <1>3 DEF StdinRing
<1>5. /\ old \in Seq(Value) /\ Len(old) = w - r
      /\ \A k \in 1..(w - r) : old[k] = stdin_buffer[(r + k - 1) % n]
  BY StdinFacts
<1>6. /\ new \in Seq(Value) /\ Len(new) = p_wpos' - r
      /\ \A k \in 1..(p_wpos' - r) : new[k] = stdin_buffer'[(r + k - 1) % n]
  BY <1>2, <1>4, StdinFactsPrimed
<1> HIDE DEF n, r, w, old, new
(* Every other slot keeps its character.                                   *)
<1>7. ASSUME NEW k \in 1..(w - r), r + k - 1 # w - n
      PROVE  stdin_buffer'[(r + k - 1) % n] = old[k]
  <2> DEFINE i == (r + k - 1) % n
  <2>1. r + k - 1 \in Int /\ w - (r + k - 1) \in 0..(n-1) /\ w - (r + k - 1) # 0
        /\ (r + k - 1) + (w - (r + k - 1)) = w
    BY <1>1, <1>7
  <2>2. i # slot
    BY <1>1, <2>1, WindowMod DEF slot
  <2>3. i \in 0..(n-1)
    BY <1>1, <2>1, ModRange
  <2>4. old[k] = stdin_buffer[i]
    BY <1>5
  <2> HIDE DEF i
  <2>5. QED
    BY <1>1, <1>2, <1>3, <2>2, <2>3, <2>4 DEF i
<1>8. CASE HasRoom
  <2> DEFINE app == Append(old, c)
  <2>1. /\ app \in Seq(Value) /\ Len(app) = w - r + 1
        /\ \A k \in 1..(w - r) : app[k] = old[k]
        /\ app[w - r + 1] = c
    BY <1>5, AppendProperties
  <2> HIDE DEF app
  <2>2. Len(new) = w - r + 1 /\ p_wpos' - r = w - r + 1
    BY <1>1, <1>2, <1>6, <1>8
  <2>3. ASSUME NEW k \in 1..(w - r) PROVE new[k] = old[k]
    <3>1. r + k - 1 # w - n /\ k \in 1..(w - r + 1)
      BY <1>1, <1>2, <1>8
    <3>2. QED
      BY <1>6, <1>7, <2>2, <3>1
  <2>4. new[w - r + 1] = c
    <3>1. w - r + 1 \in 1..(w - r + 1) /\ r + (w - r + 1) - 1 = w
      BY <1>1
    <3>2. new[w - r + 1] = stdin_buffer'[slot]
      BY <1>6, <2>2, <3>1 DEF slot
    <3>3. QED
      BY <1>1, <1>2, <1>3, <3>2
  <2>5. \A k \in 1..(w - r + 1) : new[k] = app[k]
    BY <1>1, <2>1, <2>3, <2>4
  <2>6. new = app
    BY <1>6, <2>1, <2>2, <2>5, SeqEqual
  <2>7. QED
    BY <1>1, <1>2, <1>4, <1>5, <1>8, <2>6 DEF app, old, new, n
<1>9. CASE ~HasRoom
  <2> DEFINE one == <<c>>
             tail == Tail(old)
             cat == one \o tail
  <2>1. w = r + n /\ w - r = n /\ p_wpos' - r = n
    BY <1>1, <1>2, <1>9
  <2>2. slot = r % n
    <3>1. r \in Int
      BY <1>1
    <3>2. (r + n) % n = r % n
      BY <1>1, <3>1, AddMod
    <3>3. QED
      BY <2>1, <3>2 DEF slot
  <2>3. 1 \in 1..n /\ r + 1 - 1 = r
    BY <1>1
  <2>4. old # <<>>
    BY <1>1, <1>5, <2>1, EmptySeq
  <2>5. Head(old) = stdin_buffer[slot]
    <3>1. old[1] = stdin_buffer[slot]
      BY <1>5, <2>1, <2>2, <2>3
    <3>2. QED
      BY <3>1
  <2>6. one \in Seq(Value) /\ Len(one) = 1 /\ one[1] = c
    OBVIOUS
  <2>7. /\ tail \in Seq(Value) /\ Len(tail) = n - 1
        /\ \A k \in 1..(n - 1) : tail[k] = old[k + 1]
    BY <1>5, <2>1, <2>4, HeadTailProperties
  <2> HIDE DEF one, tail
  <2>8. /\ cat \in Seq(Value) /\ Len(cat) = 1 + (n - 1)
        /\ \A k \in 1..(1 + (n - 1)) : cat[k] = IF k <= 1 THEN one[k] ELSE tail[k - 1]
    <3>1. /\ cat \in Seq(Value) /\ Len(cat) = Len(one) + Len(tail)
          /\ \A k \in 1..(Len(one) + Len(tail)) :
               cat[k] = IF k <= Len(one) THEN one[k] ELSE tail[k - Len(one)]
      <4>1. one \in Seq(Value) /\ tail \in Seq(Value)
        BY <2>6, <2>7
      <4>2. QED
        BY <4>1, ConcatProperties
    <3> HIDE DEF cat
    <3>2. QED
      BY <2>6, <2>7, <3>1
  <2> HIDE DEF cat
  <2>9. Len(new) = n /\ Len(cat) = n
    BY <1>1, <1>6, <2>1, <2>8
  <2>10. ASSUME NEW k \in 1..n PROVE new[k] = cat[k]
    <3>1. CASE k = 1
      <4>1. new[k] = stdin_buffer'[slot]
        BY <1>6, <2>1, <2>2, <2>3, <3>1
      <4>2. cat[k] = c
        BY <1>1, <2>6, <2>8, <3>1
      <4>3. QED
        BY <1>1, <1>2, <1>3, <4>1, <4>2
    <3>2. CASE k # 1
      <4>1. r + k - 1 # w - n /\ k - 1 \in 1..(n - 1) /\ (k - 1) + 1 = k
        BY <1>1, <2>1, <3>2
      <4>2. new[k] = old[k]
        BY <1>6, <1>7, <2>1, <4>1
      <4>3. cat[k] = tail[k - 1]
        BY <1>1, <2>8, <3>2
      <4>4. QED
        BY <2>7, <4>1, <4>2, <4>3
    <3>3. QED
      BY <3>1, <3>2
  <2>11. new = cat
    BY <1>6, <2>8, <2>9, <2>10, SeqEqual
  <2>12. QED
    BY <1>1, <1>2, <1>4, <1>5, <1>9, <2>4, <2>5, <2>11 DEF cat, one, tail, old, new, n, slot, w
<1>10. QED
  BY <1>8, <1>9

(* A read takes the first k characters out.                                *)
LEMMA ReadRing ==
  ASSUME StdinRing, NEW k \in 0..(p_wpos - p_rpos),
         p_rpos' = p_rpos + k, UNCHANGED <<p_wpos, stdin_buffer>>
  PROVE  /\ StdinRing'
         /\ StdinChars' = SubSeq(StdinChars, k + 1, Len(StdinChars))
<1> DEFINE m   == p_wpos - p_rpos
           new == StdinChars'
           sub == SubSeq(StdinChars, k + 1, Len(StdinChars))
<1>1. m \in Nat /\ k \in 0..m /\ p_rpos \in Nat /\ p_wpos' - p_rpos' = m - k
  BY DEF StdinRing
<1>2. StdinRing'
  BY StdinAssumption DEF StdinRing
<1>3. /\ StdinChars \in Seq(Value) /\ Len(StdinChars) = m
      /\ \A j \in 1..m : StdinChars[j] = stdin_buffer[(p_rpos + j - 1) % STDIN_BUFSIZE]
  BY StdinFacts
<1>4. /\ new \in Seq(Value) /\ Len(new) = m - k
      /\ \A j \in 1..(m - k) : new[j] = stdin_buffer[((p_rpos + k) + j - 1) % STDIN_BUFSIZE]
  <2>1. /\ new \in Seq(Value) /\ Len(new) = p_wpos' - p_rpos'
        /\ \A j \in 1..(p_wpos' - p_rpos') : new[j] = stdin_buffer'[(p_rpos' + j - 1) % STDIN_BUFSIZE]
    BY <1>2, StdinFactsPrimed
  <2> HIDE DEF new, m
  <2>2. QED
    BY <1>1, <2>1
<1> HIDE DEF m, new
<1>5. /\ sub \in Seq(Value) /\ Len(sub) = m - k
      /\ \A j \in 1..(m - k) : sub[j] = StdinChars[k + j]
  <2>1. \A j \in (k+1)..m : StdinChars[j] \in Value
    BY <1>1, <1>3, ElementOfSeq
  <2>2. QED
    BY <1>1, <1>3, <2>1, SubSeqProperties
<1> HIDE DEF sub
<1>6. ASSUME NEW j \in 1..(m - k) PROVE new[j] = sub[j]
  <2>1. k + j \in 1..m /\ p_rpos + (k + j) - 1 = (p_rpos + k) + j - 1
    BY <1>1
  <2>2. StdinChars[k + j] = stdin_buffer[(p_rpos + (k + j) - 1) % STDIN_BUFSIZE]
    BY <1>3, <2>1
  <2>3. QED
    BY <1>4, <1>5, <2>1, <2>2
<1>7. QED
  BY <1>2, <1>4, <1>5, <1>6, SeqEqual DEF new, sub

-----------------------------------------------------------------------------
(***************************************************************************)
(* cons_intr for one character after the other: what the ring holds then   *)
(* is the end of what it held and was given.                               *)
(***************************************************************************)
Ending(t, s) ==
  /\ Len(t) <= Len(s)
  /\ \A i \in 1..Len(t) : t[i] = s[(Len(s) - Len(t)) + i]

(* A character more leaves an end, or nothing, an end.                     *)
LEMMA EndingAppend ==
  ASSUME NEW V, NEW s \in Seq(V), NEW t \in Seq(V), Ending(t, s), NEW c \in V
  PROVE  Ending(Append(t, c), Append(s, c)) /\ Ending(<<>>, Append(s, c)) /\ Ending(s, s)
<1> DEFINE t1 == Append(t, c)
           s1 == Append(s, c)
           n  == Len(s)
           m  == Len(t)
<1>1. n \in Nat /\ m \in Nat /\ m <= n
  BY LenProperties DEF Ending
<1>2. /\ Len(t1) = m + 1 /\ t1[m + 1] = c /\ \A i \in 1..m : t1[i] = t[i]
      /\ Len(s1) = n + 1 /\ s1[n + 1] = c /\ \A i \in 1..n : s1[i] = s[i]
  BY AppendProperties
<1>3. \A i \in 1..m : t[i] = s[(n - m) + i]
  BY DEF Ending
<1> HIDE DEF t1, s1, n, m
<1>4. ASSUME NEW i \in 1..(m + 1) PROVE t1[i] = s1[((n + 1) - (m + 1)) + i]
  <2>1. CASE i = m + 1
    BY <1>1, <1>2, <2>1
  <2>2. CASE i # m + 1
    <3>1. i \in 1..m /\ (n - m) + i \in 1..n /\ ((n + 1) - (m + 1)) + i = (n - m) + i
      BY <1>1, <2>2
    <3>2. QED
      BY <1>2, <1>3, <3>1
  <2>3. QED
    BY <2>1, <2>2
<1>5. Ending(t1, s1)
  <2>1. Len(t1) <= Len(s1)
    BY <1>1, <1>2
  <2>2. \A i \in 1..Len(t1) : t1[i] = s1[(Len(s1) - Len(t1)) + i]
    BY <1>2, <1>4
  <2>3. QED
    BY <2>1, <2>2 DEF Ending
<1>6. Ending(<<>>, s1)
  BY <1>1, <1>2 DEF Ending
<1>7. Ending(s, s)
  BY <1>1 DEF Ending, n
<1>8. QED
  BY <1>5, <1>6, <1>7 DEF t1, s1

(* The end of a sequence without repetitions has none either, and if it    *)
(* has all of its elements it is the sequence.                             *)
LEMMA EndingFacts ==
  ASSUME NEW V, NEW s \in Seq(V), NEW t \in Seq(V), Ending(t, s)
  PROVE  /\ ToSet(t) \subseteq ToSet(s)
         /\ NoRepeat(s) => NoRepeat(t)
         /\ NoRepeat(s) /\ ToSet(s) \subseteq ToSet(t) => t = s
<1> DEFINE n == Len(s)
           m == Len(t)
<1>1. n \in Nat /\ m \in Nat /\ m <= n
  BY LenProperties DEF Ending
<1>2. \A i \in 1..m : t[i] = s[(n - m) + i] /\ (n - m) + i \in 1..n
  BY <1>1 DEF Ending
<1>3. ToSet(s) = {s[i] : i \in 1..n} /\ ToSet(t) = {t[i] : i \in 1..m}
  BY LenProperties DEF ToSet
<1> HIDE DEF n, m
<1>4. ToSet(t) \subseteq ToSet(s)
  BY <1>2, <1>3
<1>5. ASSUME NoRepeat(s), ToSet(s) \subseteq ToSet(t) PROVE t = s
  <2>1. n = m
    <3>1. ASSUME n # m PROVE FALSE
      <4>1. 1 \in 1..n /\ n > m
        BY <1>1, <3>1
      <4>2. PICK i \in 1..m : t[i] = s[1]
        BY <1>3, <1>5, <4>1
      <4>3. s[(n - m) + i] = s[1] /\ (n - m) + i \in 1..n
        BY <1>2, <4>2
      <4>4. (n - m) + i = 1
        BY <1>5, <4>1, <4>3 DEF NoRepeat, n
      <4>5. QED
        BY <1>1, <4>1, <4>4
    <3>2. QED
      BY <3>1
  <2>2. \A i \in 1..m : t[i] = s[i]
    BY <1>1, <1>2, <2>1
  <2>3. QED
    BY <2>1, <2>2, SeqEqual DEF n, m
<1>6. ASSUME NoRepeat(s), NEW i \in 1..m, NEW j \in 1..m, t[i] = t[j] PROVE i = j
  <2>1. s[(n - m) + i] = s[(n - m) + j]
    BY <1>2, <1>6
  <2>2. (n - m) + i = (n - m) + j
    BY <1>2, <1>6, <2>1 DEF NoRepeat, n
  <2>3. QED
    BY <1>1, <2>2
<1>7. NoRepeat(s) => NoRepeat(t)
  BY <1>6 DEF NoRepeat, m
<1>8. QED
  BY <1>4, <1>5, <1>7

(* What cons_getc drains, the UART first.                                  *)
device == uart \o kbd

(* Of what the console held and is given, the drained ring holds the end.  *)
LEMMA DrainedHeld ==
  ASSUME cons \in Ring, device \in Seq(Char)
  PROVE  /\ Drained \in Ring
         /\ ConsChars \o device \in Seq(Value)
         /\ Ending(Held(Drained), ConsChars \o device)
<1> DEFINE n    == Len(device)
           S    == 1..n
           pick == [T \in SUBSET S |-> Max(T)]
           step == [x \in S \X Ring |-> cons_intr(x[2], device[x[1]])]
           it   == CHOOSE iter : iter = [s \in SUBSET DOMAIN device |->
                     IF s = {} THEN cons
                     ELSE LET x == Max(s)
                          IN  cons_intr(iter[s \ {x}], device[x])]
<1>1. n \in Nat /\ DOMAIN device = S /\ IsFiniteSet(S) /\ \A i \in S : device[i] \in Char
  BY LenProperties, ElementOfSeq, FS_Interval
<1>2. \A T \in SUBSET S : T # {} => pick[T] \in T
  BY <1>1, MaxOfFew
<1>3. \A x \in S, v \in Ring : step[<<x, v>>] = cons_intr(v, device[x]) /\ step[<<x, v>>] \in Ring
  BY <1>1, ConsIntrHeld
<1>4. PICK f \in [SUBSET S -> Ring] :
        \A T \in SUBSET S :
          f[T] = IF T = {} THEN cons ELSE step[<<pick[T], f[T \ {pick[T]}]>>]
  <2> HIDE DEF pick, step, S
  <2>1. FoldSolutions(S, Ring, cons, pick, step) # {}
    BY <1>1, <1>2, <1>3, FoldExists
  <2>2. QED
    BY <2>1 DEF FoldSolutions
<1>5. f = [s \in SUBSET DOMAIN device |->
             IF s = {} THEN cons
             ELSE LET x == Max(s)
                  IN  cons_intr(f[s \ {x}], device[x])]
  <2>1. ASSUME NEW s \in SUBSET S, s # {}
        PROVE  f[s] = cons_intr(f[s \ {Max(s)}], device[Max(s)])
    <3>1. pick[s] = Max(s) /\ pick[s] \in S /\ f[s \ {pick[s]}] \in Ring
      BY <1>2, <1>4, <2>1
    <3> HIDE DEF pick, step
    <3>2. f[s] = step[<<pick[s], f[s \ {pick[s]}]>>]
      BY <1>4, <2>1
    <3>3. QED
      BY <1>3, <3>1, <3>2
  <2>2. QED
    BY <1>1, <1>4, <2>1
<1>6. it = [s \in SUBSET DOMAIN device |->
             IF s = {} THEN cons
             ELSE LET x == Max(s)
                  IN  cons_intr(it[s \ {x}], device[x])]
  <2> DEFINE Rec(iter) == iter = [s \in SUBSET DOMAIN device |->
             IF s = {} THEN cons
             ELSE LET x == Max(s)
                  IN  cons_intr(iter[s \ {x}], device[x])]
  <2>1. Rec(f)
    BY <1>5
  <2>2. it = CHOOSE iter : Rec(iter)
    OBVIOUS
  <2> HIDE DEF Rec, it
  <2>3. Rec(it)
    BY <2>1, <2>2
  <2>4. QED
    BY <2>3 DEF Rec
<1>7. it[DOMAIN device] = Drained
  BY DEF Drained, FoldLeft, MapThenFoldSet, device
<1> HIDE DEF it
<1>8. it[{}] = cons
  BY <1>6
<1>9. ASSUME NEW k \in Nat, k + 1 <= n
      PROVE  it[1..(k + 1)] = cons_intr(it[1..k], device[k + 1])
  <2>1. 1..(k + 1) \in SUBSET S /\ 1..(k + 1) # {} /\ k + 1 \in 1..(k + 1)
    BY <1>1, <1>9
  <2>2. Max(1..(k + 1)) = k + 1
    <3> DEFINE T   == 1..(k + 1)
               top == Max(T)
    <3>1. k + 1 \in T /\ T \in SUBSET (1..(k + 1)) /\ k + 1 \in Nat /\ T # {}
      BY <2>1
    <3> HIDE DEF T
    <3>2. top \in T /\ top >= k + 1
      BY <3>1, MaxOfFew
    <3> HIDE DEF top
    <3>3. top = k + 1
      BY <3>2 DEF T
    <3>4. QED
      BY <3>3 DEF top, T
  <2>3. (1..(k + 1)) \ {k + 1} = 1..k
    OBVIOUS
  <2>4. QED
    BY <1>1, <1>6, <2>1, <2>2, <2>3
<1> DEFINE given(k) == ConsChars \o SubSeq(device, 1, k)
           P == {k \in Nat : k <= n => /\ it[1..k] \in Ring
                                       /\ given(k) \in Seq(Value)
                                       /\ Ending(Held(it[1..k]), given(k))}
<1>10. ConsChars \in Seq(Value) /\ device \in Seq(Value) /\ Char \subseteq Value
  <2>1. Char \subseteq Value
    BY DEF Value
  <2>2. QED
    BY <2>1, HeldFacts, SeqMonotonic DEF ConsChars
<1>11. 0 \in P
  <2>1. 1..0 = {} /\ SubSeq(device, 1, 0) = <<>>
    BY SubSeqEmpty
  <2>2. given(0) = Held(cons)
    BY <1>10, <2>1, ConcatEmptySeq DEF ConsChars
  <2>3. Ending(Held(cons), Held(cons)) /\ Held(cons) \in Seq(Value)
    <3>1. Held(cons) \in Seq(Value) /\ Len(Held(cons)) \in Nat
      BY HeldFacts, LenProperties
    <3>2. QED
      BY <3>1 DEF Ending
  <2>4. QED
    BY <1>8, <2>1, <2>2, <2>3
<1>12. ASSUME NEW k \in Nat, k \in P PROVE k + 1 \in P
  <2>1. ASSUME k + 1 <= n
        PROVE  /\ it[1..(k + 1)] \in Ring
               /\ given(k + 1) \in Seq(Value)
               /\ Ending(Held(it[1..(k + 1)]), given(k + 1))
    <3> DEFINE old == it[1..k]
               c   == device[k + 1]
               new == cons_intr(old, c)
    <3>1. old \in Ring /\ given(k) \in Seq(Value) /\ Ending(Held(old), given(k))
      BY <1>1, <1>12, <2>1
    <3>2. c \in Char /\ c \in Value /\ Held(old) \in Seq(Value)
      BY <1>1, <1>10, <2>1, <3>1, HeldFacts
    <3>3. it[1..(k + 1)] = new
      BY <1>9, <2>1
    <3>4. new \in Ring /\ (Held(new) = <<>> \/ Held(new) = Append(Held(old), c))
      BY <3>1, <3>2, ConsIntrHeld
    <3>5. given(k + 1) = Append(given(k), c)
      <4> DEFINE pre == SubSeq(device, 1, k)
      <4>1. SubSeq(device, 1, k + 1) = pre \o <<c>>
        <5>1. 1 \in 1..Len(device) /\ k + 1 \in 1..Len(device) /\ (k + 1) - 1 = k
          BY <1>1, <2>1
        <5>2. QED
          BY <1>10, <5>1, SubSeqRecursiveSecond
      <4>2. pre \in Seq(Value) /\ <<c>> \in Seq(Value)
        <5>1. \A i \in 1..k : device[i] \in Value
          BY <1>1, <1>10, <2>1
        <5>2. QED
          BY <3>2, <5>1, SubSeqProperties
      <4>3. ConsChars \o (pre \o <<c>>) = (ConsChars \o pre) \o <<c>>
        BY <1>10, <4>2, ConcatAssociative
      <4>4. (ConsChars \o pre) \o <<c>> = Append(ConsChars \o pre, c)
        BY <3>1, <3>2, AppendIsConcat
      <4>5. QED
        BY <4>1, <4>3, <4>4
    <3> HIDE DEF given, old, c, new
    <3>6. Ending(Held(new), given(k + 1)) /\ given(k + 1) \in Seq(Value)
      <4>1. /\ Ending(Append(Held(old), c), Append(given(k), c))
            /\ Ending(<<>>, Append(given(k), c))
        BY <3>1, <3>2, EndingAppend
      <4>2. Append(given(k), c) \in Seq(Value)
        BY <3>1, <3>2, AppendProperties
      <4>3. QED
        BY <3>4, <3>5, <4>1, <4>2
    <3>7. QED
      BY <3>3, <3>4, <3>6
  <2> HIDE DEF given
  <2>2. QED
    BY <2>1
<1>13. n \in P
  <2> HIDE DEF P
  <2>1. QED
    BY <1>1, <1>11, <1>12, InductionOnNat
<1>14. given(n) = ConsChars \o device
  BY SubSeqFull
<1> HIDE DEF given
<1>15. it[1..n] \in Ring /\ given(n) \in Seq(Value) /\ Ending(Held(it[1..n]), given(n))
  BY <1>1, <1>13
<1>16. it[1..n] = Drained
  BY <1>1, <1>7
<1>17. QED
  BY <1>14, <1>15, <1>16

-----------------------------------------------------------------------------
(***************************************************************************)
(* Sequences of characters: their elements, and how they are cut and       *)
(* joined.  Joining has a name of its own, so that the provers treat it by *)
(* these facts alone.                                                      *)
(***************************************************************************)
Join(s, t) == s \o t

(* Length and elements of two lists joined.                                *)
LEMMA JoinFacts ==
  ASSUME NEW V, NEW s \in Seq(V), NEW t \in Seq(V)
  PROVE  /\ Join(s, t) \in Seq(V)
         /\ ToSet(Join(s, t)) = ToSet(s) \cup ToSet(t)
<1>1. Range(s \o t) = Range(s) \cup Range(t)
  BY RangeConcatenation
<1>2. QED
  BY <1>1, ConcatProperties DEF Range, ToSet, Join

(* Joining three lists.                                                    *)
LEMMA JoinAssociative ==
  ASSUME NEW V, NEW s \in Seq(V), NEW t \in Seq(V), NEW u \in Seq(V)
  PROVE  Join(Join(s, t), u) = Join(s, Join(t, u))
BY ConcatAssociative DEF Join

(* Joining the empty list.                                                 *)
LEMMA JoinEmpty ==
  ASSUME NEW V, NEW s \in Seq(V)
  PROVE  Join(s, <<>>) = s /\ <<>> \in Seq(V) /\ ToSet(<<>>) = {}
BY ConcatEmptySeq, EmptySeq DEF Join, ToSet

(* One character more, the first one and the others, and the first k.      *)
LEMMA JoinOne ==
  ASSUME NEW V, NEW s \in Seq(V), NEW c \in V
  PROVE  Append(s, c) = Join(s, <<c>>) /\ <<c>> \in Seq(V) /\ ToSet(<<c>>) = {c}
<1>1. Append(s, c) = Join(s, <<c>>)
  BY AppendIsConcat DEF Join
<1>2. <<c>> \in Seq(V) /\ ToSet(<<c>>) = {c}
  BY DEF ToSet
<1>3. QED
  BY <1>1, <1>2

(* A list is its head joined to the rest.                                  *)
LEMMA JoinRest ==
  ASSUME NEW V, NEW s \in Seq(V), s # <<>>
  PROVE  /\ Head(s) \in V /\ Tail(s) \in Seq(V)
         /\ <<Head(s)>> \in Seq(V)
         /\ Len(Tail(s)) = Len(s) - 1 /\ Len(s) \in Nat \ {0}
         /\ Join(<<Head(s)>>, Tail(s)) = s
         /\ ToSet(<<Head(s)>>) = {Head(s)}
<1>1. /\ Head(s) \in V /\ Tail(s) \in Seq(V)
      /\ Len(Tail(s)) = Len(s) - 1 /\ Len(s) \in Nat \ {0}
  BY HeadTailProperties, EmptySeq
<1>2. <<Head(s)>> \o Tail(s) = s
  <2>1. 1 \in 1..Len(s) /\ Len(s) \in 1..Len(s)
    BY <1>1
  <2>2. SubSeq(s, 1, Len(s)) = <<s[1]>> \o SubSeq(s, 1 + 1, Len(s))
    BY <2>1, SubSeqRecursiveFirst
  <2>3. SubSeq(s, 1, Len(s)) = s /\ Tail(s) = SubSeq(s, 2, Len(s)) /\ Head(s) = s[1] /\ 1 + 1 = 2
    BY SubSeqFull, TailIsSubSeq
  <2>4. QED
    BY <2>2, <2>3
<1>3. ToSet(<<Head(s)>>) = {Head(s)} /\ <<Head(s)>> \in Seq(V)
  BY <1>1 DEF ToSet
<1>4. QED
  BY <1>1, <1>2, <1>3 DEF Join

(* A list is two pieces of it joined.                                      *)
LEMMA JoinCut ==
  ASSUME NEW V, NEW s \in Seq(V), NEW k \in 0..Len(s)
  PROVE  /\ SubSeq(s, 1, k) \in Seq(V) /\ SubSeq(s, k + 1, Len(s)) \in Seq(V)
         /\ Join(SubSeq(s, 1, k), SubSeq(s, k + 1, Len(s))) = s
<1> DEFINE n == Len(s)
<1>1. n \in Nat /\ \A i \in 1..n : s[i] \in V
  BY LenProperties, ElementOfSeq
<1>2. SubSeq(s, 1, n) = s
  BY SubSeqFull
<1>3. 1 \in 1..(n + 1) /\ k \in (1-1)..n /\ n \in k..n /\ k + 1 \in Int /\ k \in Int
  BY <1>1
<1>4. SubSeq(s, 1, k) \o SubSeq(s, k + 1, n) = SubSeq(s, 1, n)
  BY <1>3, ConcatAdjacentSubSeq
<1> HIDE DEF n
<1>5. SubSeq(s, 1, k) \in Seq(V)
  <2>1. \A i \in 1..k : s[i] \in V
    BY <1>1, <1>3
  <2>2. QED
    BY <1>3, <2>1, SubSeqProperties
<1>6. SubSeq(s, k + 1, n) \in Seq(V)
  <2>1. \A i \in (k + 1)..n : s[i] \in V
    BY <1>1, <1>3
  <2>2. QED
    BY <1>1, <1>3, <2>1, SubSeqProperties
<1>7. QED
  BY <1>2, <1>4, <1>5, <1>6 DEF Join, n

(* Two lists joined have no repetition when neither has one and they share *)
(* nothing.                                                                *)
LEMMA JoinNoRepeat ==
  ASSUME NEW V, NEW s \in Seq(V), NEW t \in Seq(V)
  PROVE  /\ NoRepeat(Join(s, t)) => NoRepeat(s) /\ NoRepeat(t) /\ ToSet(s) \cap ToSet(t) = {}
         /\ NoRepeat(s) /\ NoRepeat(t) /\ ToSet(s) \cap ToSet(t) = {} => NoRepeat(Join(s, t))
<1> DEFINE n == Len(s)
           m == Len(t)
           c == Join(s, t)
<1>1. n \in Nat /\ m \in Nat
  BY LenProperties
<1>2. Len(c) = n + m /\ \A i \in 1..(n + m) : c[i] = IF i <= n THEN s[i] ELSE t[i - n]
  BY ConcatProperties DEF Join
<1>3. ToSet(s) = {s[i] : i \in 1..n} /\ ToSet(t) = {t[i] : i \in 1..m}
  BY LenProperties DEF ToSet
<1> HIDE DEF n, m, c
<1>4. \A i \in 1..n : i \in 1..(n + m) /\ c[i] = s[i]
  BY <1>1, <1>2
<1>5. ASSUME NEW j \in 1..m PROVE n + j \in 1..(n + m) /\ c[n + j] = t[j]
  <2>1. n + j \in 1..(n + m) /\ ~(n + j <= n) /\ (n + j) - n = j
    BY <1>1
  <2>2. QED
    BY <1>2, <2>1
<1>6. ASSUME NoRepeat(c)
      PROVE  NoRepeat(s) /\ NoRepeat(t) /\ ToSet(s) \cap ToSet(t) = {}
  <2>1. \A i, j \in 1..(n + m) : c[i] = c[j] => i = j
    BY <1>2, <1>6 DEF NoRepeat
  <2>2. NoRepeat(s)
    BY <1>4, <2>1 DEF NoRepeat, n
  <2>3. ASSUME NEW i \in 1..m, NEW j \in 1..m, t[i] = t[j] PROVE i = j
    <3>1. n + i = n + j
      BY <1>5, <2>1, <2>3
    <3>2. QED
      BY <1>1, <3>1
  <2>4. ASSUME NEW i \in 1..n, NEW j \in 1..m, s[i] = t[j] PROVE FALSE
    <3>1. i = n + j
      BY <1>4, <1>5, <2>1, <2>4
    <3>2. QED
      BY <1>1, <3>1
  <2>5. QED
    BY <1>3, <2>2, <2>3, <2>4 DEF NoRepeat, m
<1>7. ASSUME NoRepeat(s), NoRepeat(t), ToSet(s) \cap ToSet(t) = {}
      PROVE  NoRepeat(c)
  <2>1. \A q : ~(InList(q, s) /\ InList(q, t))
    BY <1>3, <1>7 DEF InList, n, m
  <2>2. QED
    BY <1>7, <2>1, ConcatLists DEF c, Join
<1>8. QED
  BY <1>6, <1>7 DEF c

(***************************************************************************)
(* The line: what was read, then what stdin, the console and the devices   *)
(* hold.                                                                   *)
(***************************************************************************)
Line(a, s, b, d) == Join(a, Join(Join(s, b), d))

(* Its elements, and where stdin's part ends.                              *)
LEMMA LineElements ==
  ASSUME NEW V, NEW a \in Seq(V), NEW s \in Seq(V), NEW b \in Seq(V), NEW d \in Seq(V)
  PROVE  /\ Line(a, s, b, d) \in Seq(V)
         /\ ToSet(Line(a, s, b, d)) = ToSet(a) \cup ToSet(s) \cup ToSet(b) \cup ToSet(d)
<1>1. Join(s, b) \in Seq(V) /\ ToSet(Join(s, b)) = ToSet(s) \cup ToSet(b)
  BY JoinFacts
<1>2. /\ Join(Join(s, b), d) \in Seq(V)
      /\ ToSet(Join(Join(s, b), d)) = ToSet(Join(s, b)) \cup ToSet(d)
  BY <1>1, JoinFacts
<1>3. /\ Line(a, s, b, d) \in Seq(V)
      /\ ToSet(Line(a, s, b, d)) = ToSet(a) \cup ToSet(Join(Join(s, b), d))
  BY <1>2, JoinFacts DEF Line
<1>4. QED
  BY <1>1, <1>2, <1>3

(* The line cut where stdin's ring ends.                                   *)
LEMMA LineInTwo ==
  ASSUME NEW V, NEW a \in Seq(V), NEW s \in Seq(V), NEW b \in Seq(V), NEW d \in Seq(V)
  PROVE  Line(a, s, b, d) = Join(Join(a, s), Join(b, d))
<1>1. Join(b, d) \in Seq(V) /\ Join(Join(s, b), d) = Join(s, Join(b, d))
  BY JoinFacts, JoinAssociative
<1>2. Join(Join(a, s), Join(b, d)) = Join(a, Join(s, Join(b, d)))
  BY <1>1, JoinAssociative
<1>3. QED
  BY <1>1, <1>2 DEF Line

(* More at its end.                                                        *)
LEMMA LineTyped ==
  ASSUME NEW V, NEW a \in Seq(V), NEW s \in Seq(V), NEW b \in Seq(V), NEW d \in Seq(V),
         NEW t \in Seq(V)
  PROVE  Line(a, s, b, Join(d, t)) = Join(Line(a, s, b, d), t)
<1> DEFINE sb == Join(s, b)
           sbd == Join(sb, d)
<1>1. sb \in Seq(V)
  BY JoinFacts
<1>2. sbd \in Seq(V) /\ Join(sb, Join(d, t)) = Join(sbd, t)
  BY <1>1, JoinFacts, JoinAssociative
<1>3. Join(a, Join(sbd, t)) = Join(Join(a, sbd), t)
  BY <1>1, <1>2, JoinAssociative
<1>4. QED
  BY <1>1, <1>2, <1>3 DEF Line

(* The console took what the devices had, and kept the end of it.          *)
LEMMA LineDrained ==
  ASSUME NEW V, NEW a \in Seq(V), NEW s \in Seq(V), NEW b \in Seq(V), NEW d \in Seq(V),
         NEW h \in Seq(V), Ending(h, Join(b, d))
  PROVE  /\ ToSet(Line(a, s, h, <<>>)) \cup (ToSet(Join(b, d)) \ ToSet(h)) = ToSet(Line(a, s, b, d))
         /\ NoRepeat(Line(a, s, b, d)) =>
              /\ NoRepeat(Line(a, s, h, <<>>))
              /\ ToSet(Line(a, s, h, <<>>)) \cap (ToSet(Join(b, d)) \ ToSet(h)) = {}
              /\ ToSet(Join(b, d)) \ ToSet(h) = {} => Line(a, s, h, <<>>) = Line(a, s, b, d)
<1> DEFINE x == Join(b, d)
           as == Join(a, s)
           e == <<>>
<1>1. x \in Seq(V) /\ ToSet(x) = ToSet(b) \cup ToSet(d) /\ as \in Seq(V)
  BY JoinFacts
<1>2. Line(a, s, b, d) = Join(as, x)
  BY LineInTwo
<1>3. /\ ToSet(h) \subseteq ToSet(x) /\ (NoRepeat(x) => NoRepeat(h))
      /\ NoRepeat(x) /\ ToSet(x) \subseteq ToSet(h) => h = x
  BY <1>1, EndingFacts
<1>4. e \in Seq(V) /\ ToSet(e) = {} /\ Join(h, e) = h
  BY JoinEmpty
<1> HIDE DEF e
<1>5. ToSet(Line(a, s, h, e)) = ToSet(a) \cup ToSet(s) \cup ToSet(h) \cup ToSet(e)
  BY <1>4, LineElements
<1>6. ToSet(Line(a, s, b, d)) = ToSet(a) \cup ToSet(s) \cup ToSet(b) \cup ToSet(d)
  BY LineElements
<1>7. Line(a, s, h, e) = Join(as, h)
  BY <1>4, LineInTwo
<1> HIDE DEF x, as
<1>8. ASSUME NoRepeat(Line(a, s, b, d))
      PROVE  /\ NoRepeat(Line(a, s, h, e))
             /\ ToSet(Line(a, s, h, e)) \cap (ToSet(x) \ ToSet(h)) = {}
             /\ ToSet(x) \ ToSet(h) = {} => Line(a, s, h, e) = Line(a, s, b, d)
  <2>1. NoRepeat(as) /\ NoRepeat(x) /\ ToSet(as) \cap ToSet(x) = {}
    BY <1>1, <1>2, <1>8, JoinNoRepeat
  <2>2. NoRepeat(h) /\ ToSet(as) \cap ToSet(h) = {}
    BY <1>3, <2>1
  <2>3. NoRepeat(Join(as, h)) /\ ToSet(Join(as, h)) = ToSet(as) \cup ToSet(h)
    <3>1. ToSet(Join(as, h)) = ToSet(as) \cup ToSet(h)
      <4>1. as \in Seq(V) /\ h \in Seq(V)
        BY <1>1
      <4>2. QED
        BY ONLY <4>1, JoinFacts
    <3>2. NoRepeat(Join(as, h))
      BY <1>1, <2>1, <2>2, JoinNoRepeat
    <3>3. QED
      BY <3>1, <3>2
  <2>4. ToSet(x) \ ToSet(h) = {} => h = x
    BY <1>3, <2>1
  <2>5. QED
    BY <1>2, <1>7, <2>1, <2>3, <2>4
<1>9. ToSet(Line(a, s, h, e)) \cup (ToSet(x) \ ToSet(h)) = ToSet(Line(a, s, b, d))
  BY <1>4, <1>1, <1>3, <1>5, <1>6
<1>10. QED
  BY <1>8, <1>9 DEF x, e

(* What moves from the console to stdin stays in its place.                *)
LEMMA LineMoved ==
  ASSUME NEW V, NEW a \in Seq(V), NEW s \in Seq(V), NEW f \in Seq(V), NEW t \in Seq(V),
         NEW d \in Seq(V)
  PROVE  Line(a, Join(s, f), t, d) = Line(a, s, Join(f, t), d)
BY JoinAssociative DEF Line

(* What a read takes from stdin follows what was read.                     *)
LEMMA LineRead ==
  ASSUME NEW V, NEW a \in Seq(V), NEW p \in Seq(V), NEW q \in Seq(V), NEW b \in Seq(V),
         NEW d \in Seq(V)
  PROVE  Line(Join(a, p), q, b, d) = Line(a, Join(p, q), b, d)
<1>1. Join(p, q) \in Seq(V) /\ Join(a, p) \in Seq(V) /\ Join(Join(a, p), q) = Join(a, Join(p, q))
  BY JoinFacts, JoinAssociative
<1>2. Line(a, Join(p, q), b, d) = Join(Join(a, Join(p, q)), Join(b, d))
  BY <1>1, LineInTwo
<1>3. Line(Join(a, p), q, b, d) = Join(Join(Join(a, p), q), Join(b, d))
  BY <1>1, LineInTwo
<1>4. QED
  BY <1>1, <1>2, <1>3

(* A character that takes the place of the one at stdin's head.            *)
LEMMA LineReplaced ==
  ASSUME NEW V, NEW a \in Seq(V), NEW f \in Seq(V), NEW g \in Seq(V), NEW q \in Seq(V),
         NEW t \in Seq(V), NoRepeat(Line(a, Join(g, q), Join(f, t), <<>>))
  PROVE  /\ NoRepeat(Line(a, Join(f, q), t, <<>>))
         /\ ToSet(Line(a, Join(f, q), t, <<>>)) \cap ToSet(g) = {}
         /\ ToSet(Line(a, Join(f, q), t, <<>>)) \cup ToSet(g)
              = ToSet(Line(a, Join(g, q), Join(f, t), <<>>))
<1> DEFINE e  == <<>>
           gq == Join(g, q)
           fq == Join(f, q)
           ft == Join(f, t)
           agq == Join(a, gq)
           afq == Join(a, fq)
<1>1. e \in Seq(V) /\ ToSet(e) = {} /\ \A s \in Seq(V) : Join(s, e) = s
  BY JoinEmpty
<1>2. /\ gq \in Seq(V) /\ ToSet(gq) = ToSet(g) \cup ToSet(q)
      /\ fq \in Seq(V) /\ ToSet(fq) = ToSet(f) \cup ToSet(q)
      /\ ft \in Seq(V) /\ ToSet(ft) = ToSet(f) \cup ToSet(t)
  BY JoinFacts
<1>3. /\ NoRepeat(gq) => NoRepeat(g) /\ NoRepeat(q) /\ ToSet(g) \cap ToSet(q) = {}
      /\ NoRepeat(f) /\ NoRepeat(q) /\ ToSet(f) \cap ToSet(q) = {} => NoRepeat(fq)
      /\ NoRepeat(ft) => NoRepeat(f) /\ NoRepeat(t) /\ ToSet(f) \cap ToSet(t) = {}
  BY JoinNoRepeat
<1> HIDE DEF e, gq, fq, ft
<1>4. /\ agq \in Seq(V) /\ ToSet(agq) = ToSet(a) \cup ToSet(gq)
      /\ afq \in Seq(V) /\ ToSet(afq) = ToSet(a) \cup ToSet(fq)
  BY <1>2, JoinFacts
<1>5. /\ NoRepeat(agq) => NoRepeat(a) /\ NoRepeat(gq) /\ ToSet(a) \cap ToSet(gq) = {}
      /\ NoRepeat(a) /\ NoRepeat(fq) /\ ToSet(a) \cap ToSet(fq) = {} => NoRepeat(afq)
  BY <1>2, JoinNoRepeat
<1>6. Line(a, gq, ft, e) = Join(agq, ft) /\ Line(a, fq, t, e) = Join(afq, t)
  BY <1>1, <1>2, LineInTwo
<1> HIDE DEF agq, afq
<1>7. /\ ToSet(Join(agq, ft)) = ToSet(agq) \cup ToSet(ft)
      /\ ToSet(Join(afq, t)) = ToSet(afq) \cup ToSet(t)
  BY <1>2, <1>4, JoinFacts
<1>8. /\ NoRepeat(Join(agq, ft))
           => NoRepeat(agq) /\ NoRepeat(ft) /\ ToSet(agq) \cap ToSet(ft) = {}
      /\ NoRepeat(afq) /\ NoRepeat(t) /\ ToSet(afq) \cap ToSet(t) = {}
           => NoRepeat(Join(afq, t))
  BY <1>2, <1>4, JoinNoRepeat
<1>9. NoRepeat(Join(agq, ft))
  BY <1>6 DEF e, gq, ft
<1>10. /\ NoRepeat(agq) /\ NoRepeat(ft) /\ ToSet(agq) \cap ToSet(ft) = {}
       /\ NoRepeat(a) /\ NoRepeat(gq) /\ NoRepeat(g) /\ NoRepeat(q) /\ NoRepeat(f) /\ NoRepeat(t)
       /\ ToSet(a) \cap ToSet(gq) = {} /\ ToSet(g) \cap ToSet(q) = {} /\ ToSet(f) \cap ToSet(t) = {}
  BY <1>3, <1>5, <1>8, <1>9
<1>11. NoRepeat(fq) /\ ToSet(a) \cap ToSet(fq) = {} /\ ToSet(afq) \cap ToSet(t) = {}
  BY <1>2, <1>3, <1>4, <1>10
<1>12. NoRepeat(Join(afq, t))
  BY <1>5, <1>8, <1>10, <1>11
<1>13. ToSet(Join(afq, t)) \cap ToSet(g) = {}
  BY <1>2, <1>4, <1>7, <1>10
<1>14. ToSet(Join(afq, t)) \cup ToSet(g) = ToSet(Join(agq, ft))
  BY <1>2, <1>4, <1>7
<1>15. QED
  BY <1>6, <1>12, <1>13, <1>14 DEF e, gq, fq, ft

-----------------------------------------------------------------------------
(***************************************************************************)
(* Every character typed is in the line, once, or was lost, and as long as *)
(* none was lost the line is in order: what precedes a character typed     *)
(* before it came over the serial line, and the other one is a key.        *)
(***************************************************************************)
Ordered(w, K) ==
  \A i, j \in 1..Len(w) : i < j /\ w[i] > w[j] => w[i] \notin K /\ w[j] \in K

Accounted(w, l, n, K) ==
  /\ ToSet(w) \cup l = 1..n /\ ToSet(w) \cap l = {}
  /\ NoRepeat(w)
  /\ l = {} => Ordered(w, K)

(* Characters m that leave the line are lost, and if none is it stays.     *)
LEMMA AccountedLoss ==
  ASSUME NEW n, NEW w, NEW l, NEW K, Accounted(w, l, n, K),
         NEW v, NEW m, ToSet(v) \cup m = ToSet(w), ToSet(v) \cap m = {}, NoRepeat(v),
         m = {} => v = w
  PROVE  Accounted(v, l \cup m, n, K)
<1>1. ToSet(w) \cup l = 1..n /\ ToSet(w) \cap l = {}
  BY DEF Accounted
<1>2. ToSet(v) \cup (l \cup m) = 1..n /\ ToSet(v) \cap (l \cup m) = {}
  BY <1>1
<1>3. ASSUME l \cup m = {} PROVE Ordered(v, K)
  BY <1>3 DEF Accounted
<1>4. QED
  BY <1>2, <1>3 DEF Accounted

(***************************************************************************)
(* The next character that is typed joins the line at its end, or before   *)
(* the keys q that the keyboard holds if it comes over the serial line.    *)
(***************************************************************************)
LEMMA AccountedTyped ==
  ASSUME NEW n \in Nat, NEW V, n + 1 \in V, NEW p \in Seq(V), NEW q \in Seq(V),
         NEW l, NEW K, NEW L, Accounted(Join(p, q), l, n, K), K \subseteq 1..n,
         ToSet(q) \subseteq K,
         (q = <<>> /\ L = K \cup {n + 1}) \/ L = K
  PROVE  /\ Accounted(Join(Join(p, <<n + 1>>), q), l, n + 1, L)
         /\ L \subseteq 1..(n + 1)
<1> DEFINE c == n + 1
           t == <<c>>
           pt == Join(p, t)
           w == Join(p, q)
           v == Join(pt, q)
           a == Len(p)
           b == Len(q)
<1>1. c \notin 1..n /\ 1..c = (1..n) \cup {c} /\ \A x \in 1..n : x \in Nat /\ x < c
  OBVIOUS
<1>2. c \in V /\ L \subseteq 1..c /\ \A x \in 1..n : x \in L <=> x \in K
  BY <1>1
<1>3. q = <<>> \/ c \notin L
  BY <1>1
<1> HIDE DEF c
<1>4. t \in Seq(V) /\ ToSet(t) = {c} /\ Len(t) = 1 /\ t[1] = c /\ NoRepeat(t)
  BY <1>2 DEF ToSet, NoRepeat
<1>5. a \in Nat /\ b \in Nat
  BY LenProperties
<1> HIDE DEF t
<1>6. /\ Len(w) = a + b /\ \A i \in 1..(a + b) : w[i] = IF i <= a THEN p[i] ELSE q[i - a]
  BY ConcatProperties DEF Join
<1>7. /\ pt \in Seq(V) /\ Len(pt) = a + 1
      /\ \A i \in 1..(a + 1) : pt[i] = IF i <= a THEN p[i] ELSE t[i - a]
  <2>1. /\ pt \in Seq(V) /\ Len(pt) = a + Len(t)
        /\ \A i \in 1..(a + Len(t)) : pt[i] = IF i <= a THEN p[i] ELSE t[i - a]
    BY <1>4, ConcatProperties DEF Join
  <2> HIDE DEF pt, a
  <2>2. QED
    BY <1>4, <2>1
<1>8. /\ ToSet(pt) = ToSet(p) \cup {c} /\ ToSet(w) = ToSet(p) \cup ToSet(q) /\ w \in Seq(V)
      /\ NoRepeat(p) /\ ToSet(p) \cap {c} = {} => NoRepeat(pt)
      /\ NoRepeat(w) => NoRepeat(p) /\ NoRepeat(q) /\ ToSet(p) \cap ToSet(q) = {}
  <2>1. ToSet(pt) = ToSet(p) \cup {c} /\ ToSet(w) = ToSet(p) \cup ToSet(q) /\ w \in Seq(V)
    BY <1>4, JoinFacts
  <2>2. NoRepeat(p) /\ ToSet(p) \cap {c} = {} => NoRepeat(pt)
    BY <1>4, JoinNoRepeat
  <2>3. NoRepeat(w) => NoRepeat(p) /\ NoRepeat(q) /\ ToSet(p) \cap ToSet(q) = {}
    BY JoinNoRepeat
  <2>4. QED
    BY <2>1, <2>2, <2>3
<1> HIDE DEF pt
<1>9. /\ Len(v) = (a + 1) + b
      /\ \A i \in 1..((a + 1) + b) : v[i] = IF i <= a + 1 THEN pt[i] ELSE q[i - (a + 1)]
  <2>1. /\ Len(v) = Len(pt) + b
        /\ \A i \in 1..(Len(pt) + b) : v[i] = IF i <= Len(pt) THEN pt[i] ELSE q[i - Len(pt)]
    <3>1. pt \in Seq(V)
      BY <1>7
    <3>2. QED
      BY <3>1, ConcatProperties DEF Join
  <2> HIDE DEF v, b, a
  <2>2. QED
    BY <1>7, <2>1
<1>10. /\ ToSet(v) = ToSet(pt) \cup ToSet(q)
       /\ NoRepeat(pt) /\ NoRepeat(q) /\ ToSet(pt) \cap ToSet(q) = {} => NoRepeat(v)
  BY <1>7, JoinFacts, JoinNoRepeat
<1>11. ToSet(w) = {w[i] : i \in 1..(a + b)} /\ ToSet(q) = {q[i] : i \in 1..b}
  <2>1. DOMAIN w = 1..(a + b) /\ DOMAIN q = 1..b
    BY <1>6, <1>8
  <2>2. QED
    BY <2>1 DEF ToSet
<1>12. ToSet(w) \cup l = 1..n /\ ToSet(w) \cap l = {} /\ NoRepeat(w)
       /\ (l = {} => Ordered(w, K))
  BY DEF Accounted
<1> HIDE DEF v, w, a, b
<1>13. c \notin ToSet(w) /\ c \notin l
  BY <1>1, <1>12
<1>14. ToSet(v) = ToSet(w) \cup {c}
  BY <1>8, <1>10
<1>15. ToSet(v) \cup l = 1..c /\ ToSet(v) \cap l = {}
  BY <1>1, <1>12, <1>13, <1>14
<1>16. NoRepeat(v)
  BY <1>8, <1>10, <1>12, <1>13
<1> DEFINE at(i) == IF i <= a THEN i ELSE i - 1
<1>17. v[a + 1] = c
  <2>1. a + 1 \in 1..((a + 1) + b) /\ a + 1 <= a + 1 /\ a + 1 \in 1..(a + 1)
        /\ ~(a + 1 <= a) /\ (a + 1) - a = 1
    BY <1>5
  <2>2. QED
    BY <1>4, <1>7, <1>9, <2>1
<1>18. ASSUME NEW i \in 1..((a + 1) + b), i # a + 1
       PROVE  at(i) \in 1..(a + b) /\ v[i] = w[at(i)] /\ v[i] \in 1..n
  <2>1. at(i) \in 1..(a + b)
    BY <1>5, <1>18
  <2>2. ASSUME i <= a PROVE v[i] = w[at(i)]
    <3>1. i <= a + 1 /\ i \in 1..(a + 1) /\ i \in 1..(a + b)
      BY <1>5, <2>2
    <3>2. v[i] = p[i] /\ w[i] = p[i]
      BY <1>6, <1>7, <1>9, <2>2, <3>1
    <3>3. at(i) = i
      BY <2>2
    <3> HIDE DEF at
    <3>4. QED
      BY <3>2, <3>3
  <2>3. ASSUME ~(i <= a) PROVE v[i] = w[at(i)]
    <3>1. ~(i <= a + 1) /\ ~(i - 1 <= a) /\ i - (a + 1) = (i - 1) - a /\ at(i) = i - 1
      BY <1>5, <1>18, <2>3
    <3>2. v[i] = q[i - (a + 1)]
      BY <1>9, <3>1
    <3>3. w[i - 1] = q[(i - 1) - a]
      BY <1>6, <2>1, <3>1
    <3> HIDE DEF at
    <3>4. QED
      BY <3>1, <3>2, <3>3
  <2>4. v[i] = w[at(i)]
    BY <2>2, <2>3
  <2> HIDE DEF at
  <2>5. QED
    BY <1>11, <1>12, <2>1, <2>4
<1>19. ASSUME NEW i \in 1..((a + 1) + b), i > a + 1 PROVE q # <<>> /\ v[i] \in ToSet(q)
  <2>1. ~(i <= a + 1) /\ i - (a + 1) \in 1..b /\ b # 0
    BY <1>5, <1>19
  <2>2. v[i] = q[i - (a + 1)]
    BY <1>9, <2>1
  <2>3. q # <<>>
    BY <2>1 DEF b
  <2>4. QED
    BY <1>11, <2>1, <2>2, <2>3
<1>20. ASSUME Ordered(w, K), NEW i \in 1..((a + 1) + b), NEW j \in 1..((a + 1) + b),
              i < j, v[i] > v[j]
       PROVE  v[i] \notin L /\ v[j] \in L
  <2>1. CASE i = a + 1
    <3>1. q # <<>> /\ v[j] \in ToSet(q)
      BY <1>19, <1>20, <2>1
    <3>2. v[j] \in K /\ v[j] \in 1..n
      BY <3>1
    <3>3. QED
      BY <1>2, <1>3, <1>17, <2>1, <3>1, <3>2
  <2>2. CASE j = a + 1
    <3>1. v[j] = c /\ v[i] \in 1..n
      BY <1>17, <1>18, <1>20, <2>2
    <3>2. QED
      BY <1>1, <1>20, <3>1 DEF c
  <2>3. CASE i # a + 1 /\ j # a + 1
    <3>1. /\ at(i) \in 1..(a + b) /\ v[i] = w[at(i)] /\ v[i] \in 1..n
          /\ at(j) \in 1..(a + b) /\ v[j] = w[at(j)] /\ v[j] \in 1..n
      BY <1>18, <2>3
    <3>2. at(i) < at(j)
      BY <1>5, <1>20, <2>3
    <3> HIDE DEF at
    <3>3. w[at(i)] \notin K /\ w[at(j)] \in K
      BY <1>6, <1>20, <3>1, <3>2 DEF Ordered
    <3>4. QED
      BY <1>2, <3>1, <3>3
  <2>4. QED
    BY <2>1, <2>2, <2>3
<1>21. l = {} => Ordered(v, L)
  BY <1>9, <1>12, <1>20 DEF Ordered
<1>22. Accounted(v, l, c, L)
  BY <1>15, <1>16, <1>21 DEF Accounted
<1>23. QED
  BY <1>2, <1>22 DEF v, pt, t, c

LineTypes ==
  /\ StdinRing
  /\ cons \in Ring
  /\ uart \in Seq(Char) /\ kbd \in Seq(Char)
  /\ irq \in BOOLEAN
  /\ left \in [Reader -> 0..MaxLen]
  /\ typed \in 0..MaxTyped
  /\ taken \in Seq(Value)
  /\ p_wpos + Len(ConsChars) + Len(device) <= typed
  /\ keys \subseteq 1..typed /\ ToSet(kbd) \subseteq keys

(* The inductive invariant, next to WaitInv.                               *)
LineInv ==
  /\ LineTypes
  /\ Accounted(Line(taken, StdinChars, ConsChars, device), lost, typed, keys)

(* The types of its parts.                                                 *)
LEMMA LineParts ==
  ASSUME LineTypes
  PROVE  /\ StdinChars \in Seq(Value) /\ ConsChars \in Seq(Value)
         /\ uart \in Seq(Value) /\ kbd \in Seq(Value) /\ taken \in Seq(Value)
         /\ device \in Seq(Char) /\ device \in Seq(Value) /\ device = Join(uart, kbd)
         /\ Len(StdinChars) = p_wpos - p_rpos
         /\ p_rpos \in Nat /\ p_wpos \in Nat /\ p_rpos <= p_wpos
         /\ Len(ConsChars) \in Nat /\ Len(device) \in Nat /\ typed \in Nat /\ MaxTyped \in Nat
<1>1. StdinChars \in Seq(Value) /\ Len(StdinChars) = p_wpos - p_rpos
  BY StdinFacts DEF LineTypes
<1>2. ConsChars \in Seq(Value)
  BY HeldFacts DEF LineTypes, ConsChars
<1>3. /\ uart \in Seq(Value) /\ kbd \in Seq(Value) /\ device \in Seq(Value)
      /\ device \in Seq(Char) /\ device = Join(uart, kbd)
  <2>1. Char \subseteq Value
    BY DEF Value
  <2>2. device \in Seq(Char) /\ device = Join(uart, kbd)
    BY ConcatProperties DEF LineTypes, device, Join
  <2>3. QED
    BY <2>1, <2>2, SeqMonotonic DEF LineTypes
<1>4. Len(ConsChars) \in Nat /\ Len(device) \in Nat
  BY <1>2, <1>3, LenProperties
<1>5. QED
  BY <1>1, <1>2, <1>3, <1>4, StdinAssumption DEF LineTypes, StdinRing

(* What a step that leaves the line alone leaves.                          *)
lineOf == <<stdin_buffer, p_rpos, p_wpos, uart, kbd, cons, typed, taken, lost, keys>>

(* The invariant speaks of these variables only.                           *)
LEMMA LineStutters ==
  ASSUME LineInv, UNCHANGED lineOf, irq' \in BOOLEAN, left' \in [Reader -> 0..MaxLen]
  PROVE  LineInv'
<1>1. StdinChars' = StdinChars /\ ConsChars' = ConsChars /\ device' = device
  BY DEF lineOf, StdinChars, ConsChars, Held, device
<1>2. LineTypes'
  BY <1>1 DEF LineInv, LineTypes, StdinRing, lineOf
<1>3. QED
  BY <1>1, <1>2 DEF LineInv, lineOf

(* Nothing is typed at the start.                                          *)
LEMMA LineInit == Init => LineInv
<1> SUFFICES ASSUME Init PROVE LineInv
  OBVIOUS
<1> DEFINE e == <<>>
<1>1. /\ p_rpos = 0 /\ p_wpos = 0 /\ typed = 0 /\ lost = {} /\ taken = e /\ uart = e /\ kbd = e
      /\ keys = {}
      /\ cons.rpos = 0 /\ cons.wpos = 0
  BY DEF Init
<1>2. e \in Seq(Value) /\ e \in Seq(Char) /\ Len(e) = 0 /\ ToSet(e) = {} /\ Join(e, e) = e
  BY JoinEmpty, EmptySeq
<1>3. device = e
  BY <1>1, <1>2 DEF device, Join
<1>4. StdinRing
  BY StdinAssumption DEF Init, StdinRing, Value
<1>5. cons \in Ring
  BY StdinAssumption DEF Init, Ring, Value
<1>6. Len(StdinChars) = 0 /\ StdinChars \in Seq(Value)
  BY <1>1, <1>4, StdinFacts
<1>7. Len(ConsChars) = 0 /\ ConsChars \in Seq(Value)
  <2>1. 0 % CONSBUFSIZE = 0
    BY StdinAssumption, SmallMod
  <2>2. Len(ConsChars) = (0 - 0) % CONSBUFSIZE /\ ConsChars \in Seq(Value)
    BY <1>1, <1>5, HeldFacts DEF ConsChars
  <2>3. QED
    BY <2>1, <2>2
<1>8. StdinChars = e /\ ConsChars = e
  BY <1>6, <1>7, EmptySeq
<1>9. LineTypes
  <2>1. irq \in BOOLEAN /\ left \in [Reader -> 0..MaxLen] /\ typed \in 0..MaxTyped
    <3>1. 0 \in 0..MaxLen /\ 0 \in 0..MaxTyped
      BY StdinAssumption
    <3>2. QED
      BY <3>1 DEF Init
  <2>2. p_wpos + Len(ConsChars) + Len(device) <= typed
    BY <1>1, <1>2, <1>7, <1>3
  <2>3. QED
    BY <1>1, <1>2, <1>4, <1>5, <2>1, <2>2 DEF LineTypes
<1>10. Line(taken, StdinChars, ConsChars, device) = e
  BY <1>1, <1>2, <1>8, <1>3 DEF Line
<1>11. NoRepeat(e) /\ Ordered(e, keys)
  BY <1>2 DEF NoRepeat, Ordered
<1>12. QED
  BY <1>1, <1>2, <1>9, <1>10, <1>11 DEF LineInv, Accounted

(***************************************************************************)
(* A character that is typed is the last one of its device: a key is the   *)
(* last one of the line, and a byte of the serial line comes before the    *)
(* keys that the keyboard holds.                                           *)
(***************************************************************************)
LEMMA TypedLine ==
  ASSUME LineInv, typed < MaxTyped, typed' = typed + 1,
         UNCHANGED <<cons, ringVars, left, taken, lost>>, irq' = TRUE,
         \/ uart' = uart /\ kbd' = Append(kbd, typed') /\ keys' = keys \cup {typed'}
         \/ uart' = Append(uart, typed') /\ kbd' = kbd /\ keys' = keys
  PROVE  LineInv'
<1> DEFINE c == typed + 1
           t == <<c>>
           e == <<>>
           w == Line(taken, StdinChars, ConsChars, device)
           u == Line(taken, StdinChars, ConsChars, uart)
           v == Line(taken, StdinChars, ConsChars, device')
<1>1. LineTypes /\ Accounted(w, lost, typed, keys)
  BY DEF LineInv
<1>2. /\ StdinChars' = StdinChars /\ ConsChars' = ConsChars /\ taken' = taken /\ lost' = lost
      /\ typed' = c /\ p_wpos' = p_wpos
  BY DEF ringVars, StdinChars, ConsChars, Held
<1>3. c \in Char /\ c \in Value /\ c \in 0..MaxTyped
  <2>1. typed \in Nat /\ MaxTyped \in Nat
    BY <1>1, LineParts
  <2>2. QED
    BY <2>1 DEF Char, Value
<1>4. /\ StdinChars \in Seq(Value) /\ ConsChars \in Seq(Value)
      /\ uart \in Seq(Value) /\ kbd \in Seq(Value) /\ taken \in Seq(Value)
      /\ device \in Seq(Value) /\ device = Join(uart, kbd)
      /\ uart \in Seq(Char) /\ kbd \in Seq(Char) /\ typed \in Nat
      /\ keys \subseteq 1..typed /\ ToSet(kbd) \subseteq keys
  BY <1>1, LineParts DEF LineTypes
<1>5. device' = Join(uart', kbd')
  BY DEF device, Join
<1>6. e \in Seq(Value) /\ ToSet(e) = {}
  BY <1>4, JoinEmpty
<1> HIDE DEF c, e
<1>7. t \in Seq(Value) /\ ToSet(t) = {c} /\ Len(t) = 1
  BY <1>3, <1>4, JoinOne
<1>8. w \in Seq(Value) /\ u \in Seq(Value) /\ Join(w, e) = w
  <2>1. w \in Seq(Value) /\ u \in Seq(Value)
    BY <1>4, LineElements
  <2> HIDE DEF w, u
  <2>2. QED
    BY <2>1, JoinEmpty DEF e
<1>9. w = Join(u, kbd)
  BY <1>4, LineTyped
<1> DEFINE Result == /\ Accounted(v, lost, c, keys') /\ keys' \subseteq 1..c
                     /\ ToSet(kbd') \subseteq keys' /\ Len(device') = Len(device) + 1
                     /\ uart' \in Seq(Char) /\ kbd' \in Seq(Char)
<1>10. ASSUME uart' = uart, kbd' = Append(kbd, c), keys' = keys \cup {c} PROVE Result
  <2>1. kbd' = Join(kbd, t)
    BY <1>3, <1>4, <1>10, JoinOne
  <2> HIDE DEF t
  <2>2. device' = Join(device, t)
    BY <1>4, <1>5, <1>7, <1>10, <2>1, JoinAssociative
  <2>3. v = Join(w, t)
    BY <1>4, <1>7, <2>2, LineTyped
  <2>4. Join(w, t) \in Seq(Value) /\ Join(Join(w, t), e) = Join(w, t)
    <3> HIDE DEF w
    <3>1. Join(w, t) \in Seq(Value)
      BY <1>7, <1>8, JoinFacts
    <3>2. QED
      BY <3>1, JoinEmpty DEF e
  <2>5. Accounted(v, lost, c, keys') /\ keys' \subseteq 1..c
    <3> HIDE DEF w, v
    <3>1. Accounted(Join(w, e), lost, typed, keys)
      BY <1>1, <1>8
    <3>2. Accounted(Join(Join(w, t), e), lost, c, keys') /\ keys' \subseteq 1..c
      BY <1>3, <1>4, <1>6, <1>8, <1>10, <3>1, AccountedTyped DEF t, c, e
    <3>3. QED
      BY <2>3, <2>4, <3>2
  <2>6. kbd' \in Seq(Char) /\ uart' \in Seq(Char)
    BY <1>3, <1>4, <1>10, AppendProperties
  <2>7. ToSet(kbd') \subseteq keys'
    <3>1. ToSet(kbd') = ToSet(kbd) \cup ToSet(t)
      BY <1>4, <1>7, <2>1, JoinFacts
    <3>2. QED
      BY <1>4, <1>7, <1>10, <3>1
  <2>8. Len(device') = Len(device) + 1
    <3>1. Len(Join(device, t)) = Len(device) + Len(t)
      BY <1>4, <1>7, ConcatProperties DEF Join
    <3>2. QED
      BY <1>7, <2>2, <3>1
  <2> HIDE DEF v
  <2>9. QED
    BY <2>5, <2>6, <2>7, <2>8
<1>11. ASSUME uart' = Append(uart, c), kbd' = kbd, keys' = keys PROVE Result
  <2>1. uart' = Join(uart, t)
    BY <1>3, <1>4, <1>11, JoinOne
  <2>2. uart' \in Seq(Char) /\ uart' \in Seq(Value)
    BY <1>3, <1>4, <1>11, AppendProperties
  <2> HIDE DEF t
  <2>3. v = Join(Line(taken, StdinChars, ConsChars, uart'), kbd)
    <3> DEFINE x == uart'
    <3>1. v = Line(taken, StdinChars, ConsChars, Join(x, kbd)) /\ x \in Seq(Value)
      BY <1>5, <1>11, <2>2
    <3> HIDE DEF x, v
    <3>2. QED
      BY <1>4, <3>1, LineTyped DEF x
  <2>4. Line(taken, StdinChars, ConsChars, uart') = Join(u, t)
    BY <1>4, <1>7, <2>1, LineTyped
  <2>5. Accounted(v, lost, c, keys') /\ keys' \subseteq 1..c
    <3> HIDE DEF w, v, u
    <3>1. Accounted(Join(u, kbd), lost, typed, keys)
      BY <1>1, <1>9
    <3>2. Accounted(Join(Join(u, t), kbd), lost, c, keys') /\ keys' \subseteq 1..c
      BY <1>3, <1>4, <1>8, <1>11, <3>1, AccountedTyped DEF t, c
    <3>3. QED
      BY <2>3, <2>4, <3>2 DEF v
  <2>6. Len(device') = Len(device) + 1
    <3>1. Len(uart') = Len(uart) + 1
      BY <1>4, <1>11, AppendProperties
    <3>2. Len(device) = Len(uart) + Len(kbd) /\ Len(device') = Len(uart') + Len(kbd)
      BY <1>4, <1>5, <1>11, <2>2, ConcatProperties DEF Join
    <3>3. Len(uart) \in Nat /\ Len(kbd) \in Nat
      BY <1>4, LenProperties
    <3>4. QED
      BY <3>1, <3>2, <3>3
  <2>7. uart' \in Seq(Char) /\ kbd' \in Seq(Char) /\ ToSet(kbd') \subseteq keys'
    BY <1>4, <1>11, <2>2
  <2> HIDE DEF v
  <2>8. QED
    BY <2>5, <2>6, <2>7
<1>12. Result
  <2> HIDE DEF Result
  <2>1. QED
    BY <1>2, <1>10, <1>11
<1>13. LineTypes'
  <2>1. p_wpos' + Len(ConsChars') + Len(device') <= typed'
    <3>1. /\ p_wpos \in Nat /\ Len(ConsChars) \in Nat /\ Len(device) \in Nat
          /\ p_wpos + Len(ConsChars) + Len(device) <= typed
      BY <1>1, LineParts DEF LineTypes
    <3>2. QED
      BY <1>2, <1>4, <1>12, <3>1 DEF c
  <2>2. StdinRing' /\ cons' \in Ring /\ irq' \in BOOLEAN
        /\ left' \in [Reader -> 0..MaxLen] /\ taken' \in Seq(Value)
    BY <1>1 DEF ringVars, LineTypes, StdinRing
  <2>3. QED
    BY <1>2, <1>3, <1>12, <2>1, <2>2 DEF LineTypes
<1>14. QED
  BY <1>2, <1>12, <1>13 DEF LineInv, v

(* An interrupt: the console drains the devices and hands stdin a character.*)
LEMMA InterruptLine ==
  ASSUME LineInv, kbd_interrupt PROVE LineInv'
<1> DEFINE w == Line(taken, StdinChars, ConsChars, device)
           h == Held(Drained)
           e == <<>>
           v == Line(taken, StdinChars, h, e)
           dropped == lost \cup Overrun
<1>1. LineTypes /\ Accounted(w, lost, typed, keys)
  BY DEF LineInv
<1>2. /\ StdinChars \in Seq(Value) /\ ConsChars \in Seq(Value)
      /\ device \in Seq(Value) /\ taken \in Seq(Value) /\ keys \subseteq 1..typed
      /\ p_wpos \in Nat /\ Len(ConsChars) \in Nat /\ Len(device) \in Nat /\ typed \in Nat
      /\ StdinRing /\ cons \in Ring /\ device \in Seq(Char)
      /\ p_wpos + Len(ConsChars) + Len(device) <= typed
  BY <1>1, LineParts DEF LineTypes
<1>3. /\ Drained \in Ring
      /\ Ending(h, Join(ConsChars, device))
  BY <1>2, DrainedHeld DEF Join
<1>4. h \in Seq(Value) /\ Len(h) \in Nat
  BY <1>3, HeldFacts
<1>5. Len(h) <= Len(ConsChars) + Len(device)
  <2>1. Len(Join(ConsChars, device)) = Len(ConsChars) + Len(device)
    BY <1>2, ConcatProperties DEF Join
  <2>2. QED
    BY <1>3, <2>1 DEF Ending
<1>6. Overrun = ToSet(Join(ConsChars, device)) \ ToSet(h)
  BY DEF Overrun, Join, device
<1>7. e \in Seq(Value) /\ e \in Seq(Char) /\ Len(e) = 0
  BY JoinEmpty, EmptySeq
<1>8. Accounted(v, dropped, typed, keys)
  <2> HIDE DEF h
  <2>1. /\ ToSet(v) \cup Overrun = ToSet(w)
        /\ NoRepeat(w) =>
             NoRepeat(v) /\ ToSet(v) \cap Overrun = {} /\ (Overrun = {} => v = w)
    BY <1>2, <1>3, <1>4, <1>6, LineDrained
  <2> HIDE DEF v, w
  <2>2. NoRepeat(w)
    BY <1>1 DEF Accounted
  <2>3. QED
    BY <1>1, <2>1, <2>2, AccountedLoss
<1>9. /\ uart' = e /\ kbd' = e /\ ToSet(e) = {} /\ keys' = keys
       /\ keys' \subseteq 1..typed /\ ToSet(kbd') \subseteq keys'
  BY <1>2, JoinEmpty DEF kbd_interrupt
<1>10. device' = e
  BY <1>9, JoinEmpty DEF device, Join
<1>11. device' = e /\ typed' = typed /\ taken' = taken /\ irq' = FALSE /\ left' = left
  BY <1>10 DEF kbd_interrupt
<1>12. CASE ~GetsChar(Drained)
  <2>1. cons' = Drained /\ lost' = dropped /\ UNCHANGED ringVars
    BY <1>12 DEF kbd_interrupt
  <2>2. StdinChars' = StdinChars /\ ConsChars' = h /\ p_wpos' = p_wpos
    BY <2>1 DEF ringVars, StdinChars, ConsChars, Held
  <2>3. StdinRing'
    BY <1>2, <2>1 DEF StdinRing, ringVars
  <2>4. p_wpos' + Len(ConsChars') + Len(device') <= typed'
    <3> HIDE DEF h, e
    <3>1. QED
      BY <1>2, <1>4, <1>5, <1>7, <1>11, <2>2
  <2>5. LineTypes'
    <3> HIDE DEF e
    <3>1. QED
      BY <1>1, <1>3, <1>7, <1>11, <1>9, <2>1, <2>3, <2>4 DEF LineTypes
  <2>6. QED
    BY <1>8, <1>11, <1>9, <2>1, <2>2, <2>5 DEF LineInv
<1>13. CASE GetsChar(Drained)
  <2> DEFINE c == Drained.buf[Drained.rpos]
  <2>1. /\ NextRead(Drained) \in Ring /\ h # <<>> /\ Head(h) = c
        /\ Held(NextRead(Drained)) = Tail(h)
    BY <1>3, <1>13, NextReadHeld
  <2>2. cons' = NextRead(Drained) /\ dev_stdin_write(c)
    BY <1>13 DEF kbd_interrupt
  <2>3. /\ c \in Value /\ Tail(h) \in Seq(Value) /\ Len(Tail(h)) = Len(h) - 1
    BY <1>4, <2>1, JoinRest
  <2>4. ConsChars' = Tail(h)
    BY <2>1, <2>2 DEF ConsChars, Held
  <2> HIDE DEF c
  <2>5. /\ StdinRing'
        /\ StdinChars' = IF HasRoom THEN Append(StdinChars, c) ELSE <<c>> \o Tail(StdinChars)
        /\ ~HasRoom => StdinChars # <<>> /\ Head(StdinChars) = stdin_buffer[p_wpos % STDIN_BUFSIZE]
    BY <1>2, <2>2, <2>3, WriteRing
  <2>6. /\ p_wpos' = IF HasRoom THEN p_wpos + 1 ELSE p_wpos
        /\ lost' = dropped \cup IF HasRoom THEN {} ELSE {stdin_buffer[p_wpos % STDIN_BUFSIZE]}
    BY <2>2 DEF dev_stdin_write
  <2>7. LineTypes'
    <3> HIDE DEF h, e
    <3>1. p_wpos' + Len(ConsChars') + Len(device') <= typed'
      BY <1>2, <1>4, <1>5, <1>7, <1>11, <2>3, <2>4, <2>6
    <3>2. QED
      BY <1>1, <1>7, <1>11, <1>9, <2>1, <2>2, <2>5, <3>1 DEF LineTypes
  <2>8. CASE HasRoom
    <3>1. lost' = dropped /\ StdinChars' = Append(StdinChars, c)
      BY <2>5, <2>6, <2>8
    <3>2. Line(taken, Append(StdinChars, c), Tail(h), e) = v
      <4> DEFINE f == <<c>>
                 t == Tail(h)
      <4> HIDE DEF h, e
      <4>1. f \in Seq(Value) /\ t \in Seq(Value) /\ Join(f, t) = h
        BY <1>4, <2>1, JoinRest
      <4>2. Append(StdinChars, c) = Join(StdinChars, f)
        BY <1>2, <2>3, JoinOne
      <4> HIDE DEF f, t
      <4>3. taken \in Seq(Value) /\ StdinChars \in Seq(Value) /\ e \in Seq(Value)
        BY <1>2, <1>7
      <4>4. Line(taken, Join(StdinChars, f), t, e) = Line(taken, StdinChars, Join(f, t), e)
        BY <4>1, <4>3, LineMoved
      <4>5. QED
        BY <4>1, <4>2, <4>4 DEF t
    <3>3. QED
      BY <1>8, <1>11, <1>9, <2>4, <2>7, <3>1, <3>2 DEF LineInv
  <2>9. CASE ~HasRoom
    <3> DEFINE n == Join(<<c>>, Tail(StdinChars))
               u == Line(taken, n, Tail(h), e)
               m == {Head(StdinChars)}
    <3>1. lost' = dropped \cup m /\ StdinChars' = n
      BY <2>5, <2>6, <2>9 DEF Join
    <3>2. ToSet(u) \cup m = ToSet(v) /\ ToSet(u) \cap m = {} /\ NoRepeat(u)
      <4> DEFINE f == <<c>>
                 g == <<Head(StdinChars)>>
                 t == Tail(h)
                 q == Tail(StdinChars)
      <4>1. NoRepeat(v)
        BY <1>8 DEF Accounted
      <4> HIDE DEF h
      <4>2. f \in Seq(Value) /\ t \in Seq(Value) /\ Join(f, t) = h
        BY <1>4, <2>1, JoinRest
      <4>3. g \in Seq(Value) /\ q \in Seq(Value) /\ Join(g, q) = StdinChars /\ ToSet(g) = m
        BY <1>2, <2>5, <2>9, JoinRest
      <4>4. v = Line(taken, Join(g, q), Join(f, t), <<>>) /\ u = Line(taken, Join(f, q), t, <<>>)
        BY <4>2, <4>3
      <4> HIDE DEF f, g, t, q, m, u, v
      <4>5. /\ NoRepeat(u) /\ ToSet(u) \cap ToSet(g) = {}
            /\ ToSet(u) \cup ToSet(g) = ToSet(v)
        BY <1>2, <4>1, <4>2, <4>3, <4>4, LineReplaced
      <4>6. QED
        BY <4>3, <4>5
    <3>3. m # {}
      OBVIOUS
    <3> HIDE DEF u, m, v, dropped
    <3>4. Accounted(u, dropped \cup m, typed, keys)
      BY <1>8, <3>2, <3>3, AccountedLoss
    <3>5. QED
      BY <1>11, <1>9, <2>4, <2>7, <3>1, <3>4 DEF LineInv, u
  <2>10. QED
    BY <2>8, <2>9
<1>14. QED
  BY <1>12, <1>13

(* A read.                                                                 *)
LEMMA ReadLine ==
  ASSUME LineInv, NEW r \in Reader, NEW n \in 0..MaxLen, dev_stdin_read(r, n)
  PROVE  LineInv'
<1> DEFINE k == IF n <= p_wpos - p_rpos THEN n ELSE p_wpos - p_rpos
           w == Line(taken, StdinChars, ConsChars, device)
<1>1. LineTypes /\ Accounted(w, lost, typed, keys)
  BY DEF LineInv
<1>2. /\ StdinChars \in Seq(Value) /\ ConsChars \in Seq(Value)
      /\ device \in Seq(Value) /\ taken \in Seq(Value)
      /\ Len(StdinChars) = p_wpos - p_rpos
      /\ p_rpos \in Nat /\ p_wpos \in Nat /\ p_rpos <= p_wpos /\ StdinRing
  BY <1>1, LineParts DEF LineTypes
<1>3. k \in 0..(p_wpos - p_rpos) /\ k \in 0..n
  BY <1>2
<1>4. /\ p_rpos' = p_rpos + k /\ UNCHANGED <<p_wpos, stdin_buffer>>
      /\ taken' = Join(taken, SubSeq(StdinChars, 1, k))
      /\ left' = [left EXCEPT ![r] = n - k]
      /\ UNCHANGED <<uart, kbd, device, irq, cons, typed, lost, keys>>
  BY DEF dev_stdin_read, lineVars, Join, device
<1> HIDE DEF k
<1>5. StdinRing' /\ StdinChars' = SubSeq(StdinChars, k + 1, Len(StdinChars))
  BY <1>2, <1>3, <1>4, ReadRing
<1>6. /\ taken' \in Seq(Value)
      /\ Line(taken', StdinChars', ConsChars, device) = w
  <2> DEFINE p == SubSeq(StdinChars, 1, k)
             q == SubSeq(StdinChars, k + 1, Len(StdinChars))
  <2>1. k \in 0..Len(StdinChars)
    BY <1>2, <1>3
  <2>2. p \in Seq(Value) /\ q \in Seq(Value) /\ Join(p, q) = StdinChars
    BY <1>2, <2>1, JoinCut
  <2>3. taken' = Join(taken, p) /\ StdinChars' = q
    BY <1>4, <1>5
  <2> HIDE DEF p, q
  <2>4. Join(taken, p) \in Seq(Value)
    BY <1>2, <2>2, JoinFacts
  <2>5. Line(Join(taken, p), q, ConsChars, device) = Line(taken, Join(p, q), ConsChars, device)
    BY <1>2, <2>2, LineRead
  <2>6. QED
    BY <2>2, <2>3, <2>4, <2>5
<1>7. ConsChars' = ConsChars
  BY <1>4 DEF ConsChars, Held
<1>8. left' \in [Reader -> 0..MaxLen]
  <2>1. n - k \in 0..MaxLen
    BY <1>3, StdinAssumption
  <2>2. QED
    BY <1>1, <1>4, <2>1 DEF LineTypes
<1>9. LineTypes'
  BY <1>1, <1>4, <1>5, <1>6, <1>7, <1>8 DEF LineTypes
<1>10. QED
  BY <1>1, <1>4, <1>6, <1>7, <1>9 DEF LineInv

(* Every step keeps the invariant.                                         *)
LEMMA LineNext == LineInv /\ [Next]_vars => LineInv'
<1> SUFFICES ASSUME LineInv, [Next]_vars PROVE LineInv'
  OBVIOUS
<1> USE DEF lineOf, ringVars, lineVars
<1>1. irq \in BOOLEAN /\ left \in [Reader -> 0..MaxLen] /\ 0 \in 0..MaxLen
  BY StdinAssumption DEF LineInv, LineTypes
<1>2. CASE kbd_interrupt
  BY <1>2, InterruptLine
<1>3. CASE KeyPressed \/ SerialByte
  BY <1>3, TypedLine DEF KeyPressed, SerialByte, procVars
<1>4. CASE NothingTyped
  BY <1>1, <1>4, LineStutters DEF NothingTyped, procVars
<1>5. ASSUME NEW r \in Reader, sys_read(r)
      PROVE  LineInv'
  <2>1. PICK n \in 1..MaxLen : dev_stdin_read(r, n)
    BY <1>5 DEF sys_read
  <2>2. n \in 0..MaxLen
    BY StdinAssumption
  <2>3. QED
    BY <2>1, <2>2, ReadLine
<1>6. ASSUME NEW r \in Reader, read_on(r)
      PROVE  LineInv'
  BY <1>1, <1>6, ReadLine DEF read_on
<1>7. ASSUME NEW r \in Reader, read_interrupted(r)
      PROVE  LineInv'
  BY <1>1, <1>7, LineStutters DEF read_interrupted
<1>8. ASSUME NEW r \in Reader, trap_exit(r) \/ do_kill(r)
      PROVE  LineInv'
  BY <1>1, <1>8, LineStutters DEF trap_exit, do_kill
<1>9. CASE UNCHANGED vars
  BY <1>1, <1>9, LineStutters DEF vars, procVars
<1>10. QED
  BY <1>2, <1>3, <1>4, <1>5, <1>6, <1>7, <1>8, <1>9 DEF Next, ReaderStep

(***************************************************************************)
(* Each character is read once, or is still under way, or was overwritten; *)
(* and as long as none was, characters are read in the order in which they *)
(* were typed, but for bytes of the serial line that overtake keys.        *)
(***************************************************************************)
THEOREM StdinTypedOnce == Spec => []TypedOnce
<1>1. Init => WaitInv /\ LineInv
  BY WaitInit, LineInit
<1>2. WaitInv /\ LineInv /\ [Next]_vars => WaitInv' /\ LineInv'
  BY WaitNext, LineNext
<1>3. WaitInv /\ LineInv => TypedOnce
  <2> SUFFICES ASSUME WaitInv, LineInv PROVE TypedOnce
    OBVIOUS
  <2>1. LineTypes /\ p_rpos \in Nat /\ p_wpos \in Nat /\ p_rpos <= p_wpos
        /\ Len(ConsChars) \in Nat /\ Len(device) \in Nat /\ MaxTyped \in Nat
    BY LineParts DEF LineInv
  <2>2. p_rpos \in 0..MaxTyped /\ p_wpos \in p_rpos..(p_rpos + STDIN_BUFSIZE)
    BY <2>1, StdinAssumption DEF LineTypes, StdinRing
  <2>3. TypeOK
    BY <2>1, <2>2 DEF TypeOK, LineTypes, StdinRing, Ring, Value, WaitInv, WaitTypes
  <2>4. Line(taken, StdinChars, ConsChars, device) = taken \o UnderWay
    BY DEF Line, Join, UnderWay, device
  <2>5. QED
    BY <2>3, <2>4 DEF TypedOnce, LineInv, Accounted, Ordered, InOrder
<1>4. QED
  BY <1>1, <1>2, <1>3, PTL DEF Spec

-----------------------------------------------------------------------------
(***************************************************************************)
(* The ring with its ever growing positions is a bounded queue.            *)
(***************************************************************************)

(* What an interrupt hands to stdin was typed.                             *)
LEMMA HandsOverChar ==
  ASSUME LineInv, GetsChar(Drained)
  PROVE  Drained.buf[Drained.rpos] \in Char
<1> DEFINE h == Held(Drained)
           x == Join(ConsChars, device)
<1>1. LineTypes /\ Accounted(Line(taken, StdinChars, ConsChars, device), lost, typed, keys)
  BY DEF LineInv
<1>2. /\ StdinChars \in Seq(Value) /\ ConsChars \in Seq(Value)
      /\ device \in Seq(Value) /\ taken \in Seq(Value)
      /\ cons \in Ring /\ device \in Seq(Char)
  BY <1>1, LineParts DEF LineTypes
<1>3. Drained \in Ring /\ x \in Seq(Value) /\ Ending(h, x)
  BY <1>2, DrainedHeld DEF Join
<1>4. h \in Seq(Value) /\ h # <<>> /\ Head(h) = Drained.buf[Drained.rpos]
  BY <1>3, HeldFacts, NextReadHeld
<1>5. Head(h) \in ToSet(h)
  <2>1. Len(h) \in Nat \ {0}
    BY <1>4, JoinRest
  <2> HIDE DEF h
  <2>2. 1 \in DOMAIN h /\ Head(h) = h[1]
    BY <1>4, <2>1
  <2>3. QED
    BY <2>2 DEF ToSet
<1>6. ToSet(h) \subseteq ToSet(x)
  <2> HIDE DEF h, x
  <2>1. QED
    BY <1>3, <1>4, EndingFacts
<1>7. ToSet(x) = ToSet(ConsChars) \cup ToSet(device)
  BY <1>2, JoinFacts
<1>8. ToSet(ConsChars) \cup ToSet(device) \subseteq 1..typed
  <2>1. ToSet(Line(taken, StdinChars, ConsChars, device))
          = ToSet(taken) \cup ToSet(StdinChars) \cup ToSet(ConsChars) \cup ToSet(device)
    BY <1>2, LineElements
  <2>2. QED
    BY <1>1, <2>1 DEF Accounted
<1>9. 1..typed \subseteq Char
  BY <1>1, StdinAssumption DEF LineTypes, Char
<1>10. QED
  BY <1>4, <1>5, <1>6, <1>7, <1>8, <1>9

(* A read is a Take, or changes nothing.                                   *)
LEMMA ReadTakes ==
  ASSUME LineInv, NEW r \in Reader, NEW n \in 0..MaxLen, dev_stdin_read(r, n)
  PROVE  [Input!Next]_StdinChars
<1> DEFINE k == IF n <= p_wpos - p_rpos THEN n ELSE p_wpos - p_rpos
<1>1. /\ StdinChars \in Seq(Value) /\ Len(StdinChars) = p_wpos - p_rpos
      /\ p_rpos \in Nat /\ p_wpos \in Nat /\ p_rpos <= p_wpos /\ StdinRing
  BY LineParts DEF LineInv, LineTypes
<1>2. k \in 0..(p_wpos - p_rpos) /\ p_rpos' = p_rpos + k /\ UNCHANGED <<p_wpos, stdin_buffer>>
  BY <1>1 DEF dev_stdin_read
<1> HIDE DEF k
<1>3. StdinChars' = SubSeq(StdinChars, k + 1, Len(StdinChars))
  BY <1>1, <1>2, ReadRing
<1>4. CASE k = 0
  BY <1>1, <1>3, <1>4, SubSeqFull
<1>5. CASE k # 0
  <2>1. k \in 1..Len(StdinChars)
    BY <1>1, <1>2, <1>5
  <2>2. Input!Take(k)
    BY <1>3 DEF Input!Take
  <2>3. QED
    BY <2>1, <2>2 DEF Input!Next
<1>6. QED
  BY <1>4, <1>5

(* An interrupt is a Put, and no other step touches the ring.              *)
LEMMA InputStep ==
  ASSUME LineInv, [Next]_vars
  PROVE  [Input!Next]_StdinChars
<1>1. CASE UNCHANGED ringVars
  BY <1>1 DEF ringVars, StdinChars
<1>2. CASE kbd_interrupt
  <2> DEFINE c == Drained.buf[Drained.rpos]
  <2>1. CASE GetsChar(Drained)
    <3>1. c \in Char /\ dev_stdin_write(c)
      BY <1>2, <2>1, HandsOverChar DEF kbd_interrupt
    <3> HIDE DEF c
    <3>2. c \in Value /\ StdinRing
      BY <3>1 DEF Value, LineInv, LineTypes
    <3>3. Input!Put(c)
      BY <3>1, <3>2, WriteRing DEF Input!Put
    <3>4. QED
      BY <3>1, <3>3 DEF Input!Next
  <2>2. CASE ~GetsChar(Drained)
    BY <1>1, <1>2, <2>2 DEF kbd_interrupt
  <2>3. QED
    BY <2>1, <2>2
<1>3. CASE KeyPressed \/ SerialByte \/ NothingTyped
  BY <1>1, <1>3 DEF KeyPressed, SerialByte, NothingTyped
<1>4. ASSUME NEW r \in Reader, sys_read(r)
      PROVE  [Input!Next]_StdinChars
  <2>1. PICK n \in 1..MaxLen : dev_stdin_read(r, n)
    BY <1>4 DEF sys_read
  <2>2. n \in 0..MaxLen
    BY StdinAssumption
  <2>3. QED
    BY <2>1, <2>2, ReadTakes
<1>5. ASSUME NEW r \in Reader, read_on(r)
      PROVE  [Input!Next]_StdinChars
  BY <1>5, ReadTakes DEF read_on, LineInv, LineTypes
<1>6. ASSUME NEW r \in Reader, read_interrupted(r) \/ trap_exit(r) \/ do_kill(r)
      PROVE  [Input!Next]_StdinChars
  BY <1>1, <1>6 DEF read_interrupted, trap_exit, do_kill
<1>7. CASE UNCHANGED vars
  BY <1>1, <1>7 DEF vars
<1>8. QED
  BY <1>2, <1>3, <1>4, <1>5, <1>6, <1>7 DEF Next, ReaderStep

(* stdin is a queue of at most STDIN_BUFSIZE characters that keeps their   *)
(* order; a character that finds it full takes the place of the oldest.    *)
THEOREM StdinImplementsInput == Spec => InputSpec
<1>1. Init => Input!Init
  <2>1. SUFFICES ASSUME Init PROVE StdinChars = <<>>
    BY DEF Input!Init
  <2>2. LineTypes /\ p_rpos = 0 /\ p_wpos = 0
    <3>1. LineInv
      BY <2>1, LineInit
    <3>2. QED
      BY <2>1, <3>1 DEF LineInv, Init
  <2>3. StdinChars \in Seq(Value) /\ Len(StdinChars) = 0
    BY <2>2, LineParts
  <2>4. QED
    BY <2>3, EmptySeq
<1>2. LineInv /\ [Next]_vars => [Input!Next]_StdinChars
  BY InputStep
<1>3. QED
  BY <1>1, <1>2, LineInit, LineNext, PTL DEF Spec, InputSpec, Input!Spec

-----------------------------------------------------------------------------
(***************************************************************************)
(* The places where numbers of blocks are kept, and what is kept there in  *)
(* the inodes d and the tables e.                                          *)
(***************************************************************************)
Kept(d, e) ==
  [p \in Place |->
     IF p[2] = "direct" THEN d[p[1]].direct[p[3]]
     ELSE IF p[2] = "indirect" THEN d[p[1]].indirect
     ELSE IF d[p[1]].indirect = 0 THEN 0 ELSE e[d[p[1]].indirect][p[3]]]

(* The place of block index of file f.                                     *)
PlaceOfBlock(f, index) ==
  IF index \in Direct THEN <<f, "direct", index>> ELSE <<f, "entry", index - NDIRECT>>

(* There are three kinds of places.                                        *)
LEMMA PlaceForms ==
  /\ \A f \in File : /\ \A i \in Direct : <<f, "direct", i>> \in Place
                     /\ <<f, "indirect", 0>> \in Place
                     /\ \A i \in Entry : <<f, "entry", i>> \in Place
  /\ \A p \in Place : \E f \in File :
       \/ \E i \in Direct : p = <<f, "direct", i>>
       \/ p = <<f, "indirect", 0>>
       \/ \E i \in Entry : p = <<f, "entry", i>>
<1>1. ASSUME NEW f \in File
      PROVE  /\ \A i \in Direct : <<f, "direct", i>> \in Place
             /\ <<f, "indirect", 0>> \in Place
             /\ \A i \in Entry : <<f, "entry", i>> \in Place
  BY DEF Place
<1>2. ASSUME NEW p \in Place
      PROVE  \E f \in File : \/ \E i \in Direct : p = <<f, "direct", i>>
                             \/ p = <<f, "indirect", 0>>
                             \/ \E i \in Entry : p = <<f, "entry", i>>
  <2>1. CASE p \in File \X {"direct"} \X Direct
    BY <2>1
  <2>2. CASE p \in File \X {"indirect"} \X {0}
    BY <2>2
  <2>3. CASE p \in File \X {"entry"} \X Entry
    BY <2>3
  <2>4. QED
    BY <2>1, <2>2, <2>3 DEF Place
<1>3. QED
  BY <1>1, <1>2

(* What is kept in an inode, and in the table, of which some files have    *)
(* none.                                                                   *)
Pointed(d, f, i) == d[f].direct[i]
Listed(d, e, f, i) == IF d[f].indirect = 0 THEN 0 ELSE e[d[f].indirect][i]

(* The places in inodes hold what the inode has there.                     *)
LEMMA KeptAtDirect ==
  ASSUME NEW d, NEW e, NEW f \in File, NEW i \in Direct
  PROVE  <<f, "direct", i>> \in Place /\ Kept(d, e)[<<f, "direct", i>>] = Pointed(d, f, i)
BY PlaceForms DEF Kept, Pointed

(* What is kept as the number of the table.                                *)
LEMMA KeptAtIndirect ==
  ASSUME NEW d, NEW e, NEW f \in File
  PROVE  <<f, "indirect", 0>> \in Place /\ Kept(d, e)[<<f, "indirect", 0>>] = d[f].indirect
BY PlaceForms DEF Kept

(* The places in tables hold what is listed there.                         *)
LEMMA KeptAtEntry ==
  ASSUME NEW d, NEW e, NEW f \in File, NEW i \in Entry
  PROVE  <<f, "entry", i>> \in Place /\ Kept(d, e)[<<f, "entry", i>>] = Listed(d, e, f, i)
BY PlaceForms DEF Kept, Listed

(* The model's own word for it.                                            *)
LEMMA KeptNow == \A p \in Place : Kept(din, entry)[p] = At(p)
<1>1. ASSUME NEW p \in Place PROVE Kept(din, entry)[p] = At(p)
  BY DEF Kept, At
<1>2. QED
  BY <1>1

(* Two functions on the places are equal if they are so for each kind.     *)
LEMMA SameKept ==
  ASSUME NEW H, NEW K, DOMAIN H = Place, DOMAIN K = Place,
         H = [p \in Place |-> H[p]], K = [p \in Place |-> K[p]],
         \A f \in File : /\ \A i \in Direct : H[<<f, "direct", i>>] = K[<<f, "direct", i>>]
                         /\ H[<<f, "indirect", 0>>] = K[<<f, "indirect", 0>>]
                         /\ \A i \in Entry : H[<<f, "entry", i>>] = K[<<f, "entry", i>>]
  PROVE  H = K
<1>1. ASSUME NEW p \in Place PROVE H[p] = K[p]
  <2>1. PICK f \in File : \/ \E i \in Direct : p = <<f, "direct", i>>
                          \/ p = <<f, "indirect", 0>>
                          \/ \E i \in Entry : p = <<f, "entry", i>>
    BY PlaceForms
  <2>2. QED
    BY <2>1
<1>2. QED
  BY <1>1

-----------------------------------------------------------------------------
(***************************************************************************)
(* Every block is in F or kept in exactly one place.                       *)
(***************************************************************************)
Exact(H, F) ==
  /\ H \in [Place -> BlockOrNone] /\ F \subseteq Block
  /\ \A p \in Place : H[p] \notin F
  /\ \A p, q \in Place : H[p] = H[q] /\ H[p] # 0 => p = q
  /\ \A b \in Block : b \in F \/ \E p \in Place : H[p] = b

(* Something else is kept in one place.                                    *)
Put(H, p, b) == [H EXCEPT ![p] = b]

(* A free block is put into an empty place.                                *)
LEMMA ExactTake ==
  ASSUME NEW H, NEW F, Exact(H, F), NEW p \in Place, H[p] = 0, NEW b \in F
  PROVE  Exact(Put(H, p, b), F \ {b})
<1> DEFINE K == Put(H, p, b)
<1>1. b \in Block /\ b # 0 /\ b \in BlockOrNone
  BY SfsAssumption DEF Exact, Block, BlockOrNone
<1>2. K \in [Place -> BlockOrNone] /\ \A q \in Place : K[q] = IF q = p THEN b ELSE H[q]
  BY <1>1 DEF Exact, Put
<1> HIDE DEF K
<1>3. \A q \in Place : K[q] \notin F \ {b}
  BY <1>2 DEF Exact
<1>4. ASSUME NEW q \in Place, NEW r \in Place, K[q] = K[r], K[q] # 0 PROVE q = r
  BY <1>1, <1>2, <1>4 DEF Exact
<1>5. ASSUME NEW c \in Block PROVE c \in F \ {b} \/ \E q \in Place : K[q] = c
  <2>1. CASE c = b
    BY <1>2, <2>1
  <2>2. CASE c \in F \ {b}
    BY <2>2
  <2>3. CASE c \notin F
    <3>1. PICK q \in Place : H[q] = c
      BY <2>3 DEF Exact
    <3>2. q # p
      BY <1>1, <3>1 DEF Block
    <3>3. QED
      BY <1>2, <3>1, <3>2
  <2>4. QED
    BY <2>1, <2>2, <2>3
<1>6. QED
  BY <1>2, <1>3, <1>4, <1>5 DEF Exact, K

(* A block is taken out of its place and is free.                          *)
LEMMA ExactGive ==
  ASSUME NEW H, NEW F, Exact(H, F), NEW p \in Place, H[p] # 0
  PROVE  /\ Exact(Put(H, p, 0), F \cup {H[p]})
         /\ H[p] \in Block /\ H[p] \notin F
<1> DEFINE K == Put(H, p, 0)
           b == H[p]
<1>1. b \in Block /\ b # 0 /\ 0 \in BlockOrNone /\ b \notin F /\ 0 \notin Block
  BY SfsAssumption DEF Exact, Block, BlockOrNone
<1>2. K \in [Place -> BlockOrNone] /\ \A q \in Place : K[q] = IF q = p THEN 0 ELSE H[q]
  BY <1>1 DEF Exact, Put
<1> HIDE DEF K
<1>3. \A q \in Place : K[q] \notin F \cup {b}
  <2> SUFFICES ASSUME NEW q \in Place PROVE K[q] \notin F \cup {b}
    OBVIOUS
  <2>1. CASE q = p
    BY <1>1, <1>2, <2>1 DEF Exact
  <2>2. CASE q # p
    BY <1>1, <1>2, <2>2 DEF Exact
  <2>3. QED
    BY <2>1, <2>2
<1>4. ASSUME NEW q \in Place, NEW r \in Place, K[q] = K[r], K[q] # 0 PROVE q = r
  BY <1>1, <1>2, <1>4 DEF Exact
<1>5. ASSUME NEW c \in Block PROVE c \in F \cup {b} \/ \E q \in Place : K[q] = c
  BY <1>2 DEF Exact
<1>6. F \cup {b} \subseteq Block
  BY <1>1 DEF Exact
<1>7. QED
  BY <1>1, <1>2, <1>3, <1>4, <1>5, <1>6 DEF Exact, K

(* As many places hold a block as there are blocks in use.                 *)
LEMMA ExactCount ==
  ASSUME NEW H, NEW F, Exact(H, F)
  PROVE  Cardinality({p \in Place : H[p] # 0}) = Cardinality(Block \ F)
<1> DEFINE S == {p \in Place : H[p] # 0}
           B == Block \ F
           g == [b \in B |-> CHOOSE p \in Place : H[p] = b]
<1>1. IsFiniteSet(B)
  <2>1. NBLOCK \in Int /\ 1 \in Int
    BY SfsAssumption
  <2>2. IsFiniteSet(Block)
    BY <2>1, FS_Interval DEF Block
  <2>3. QED
    BY <2>2, FS_Subset
<1>2. \A b \in B : g[b] \in Place /\ H[g[b]] = b
  BY DEF Exact
<1>3. 0 \notin Block
  BY SfsAssumption DEF Block
<1>4. g \in [B -> S]
  BY <1>2, <1>3
<1>5. \A b, c \in B : b # c => g[b] # g[c]
  BY <1>2
<1>6. \A p \in S : H[p] \in B /\ g[H[p]] = p
  <2> SUFFICES ASSUME NEW p \in S PROVE H[p] \in B /\ g[H[p]] = p
    OBVIOUS
  <2>1. H[p] \in B
    BY SfsAssumption DEF Exact, Block, BlockOrNone
  <2>2. QED
    BY <1>2, <2>1 DEF Exact
<1> HIDE DEF g, S, B
<1>7. g \in Bijection(B, S)
  BY <1>4, <1>5, <1>6 DEF Bijection, Injection, Surjection, IsInjective
<1>8. ExistsBijection(B, S)
  BY <1>7 DEF ExistsBijection
<1>9. Cardinality(S) = Cardinality(B)
  BY <1>1, <1>8, FS_Bijection
<1>10. QED
  BY <1>9 DEF S, B

-----------------------------------------------------------------------------
Inodes == [File -> Inode]
Tables == [Block -> [Entry -> BlockOrNone]]
EmptyTable == [i \in Entry |-> 0]

(* Only the block maps of the inodes matter.                               *)
LEMMA KeptSame ==
  ASSUME NEW d, NEW d2, NEW e,
         \A f \in File : d2[f].direct = d[f].direct /\ d2[f].indirect = d[f].indirect
  PROVE  Kept(d2, e) = Kept(d, e)
<1>1. ASSUME NEW p \in Place PROVE Kept(d2, e)[p] = Kept(d, e)[p]
  <2>1. PICK f \in File : \/ \E i \in Direct : p = <<f, "direct", i>>
                          \/ p = <<f, "indirect", 0>>
                          \/ \E i \in Entry : p = <<f, "entry", i>>
    BY PlaceForms
  <2>2. CASE \E i \in Direct : p = <<f, "direct", i>>
    <3>1. PICK i \in Direct : p = <<f, "direct", i>>
      BY <2>2
    <3>2. Kept(d2, e)[p] = Pointed(d2, f, i)
      BY <3>1, KeptAtDirect
    <3>3. Kept(d, e)[p] = Pointed(d, f, i)
      BY <3>1, KeptAtDirect
    <3>4. QED
      BY <3>2, <3>3 DEF Pointed
  <2>3. CASE p = <<f, "indirect", 0>>
    BY <2>3, KeptAtIndirect
  <2>4. CASE \E i \in Entry : p = <<f, "entry", i>>
    <3>1. PICK i \in Entry : p = <<f, "entry", i>>
      BY <2>4
    <3>2. Kept(d2, e)[p] = Listed(d2, e, f, i)
      BY <3>1, KeptAtEntry
    <3>3. Kept(d, e)[p] = Listed(d, e, f, i)
      BY <3>1, KeptAtEntry
    <3>4. QED
      BY <3>2, <3>3 DEF Listed
  <2>5. QED
    BY <2>1, <2>2, <2>3, <2>4
<1>2. QED
  BY <1>1 DEF Kept

(* The table of a file is not among the free blocks.                       *)
LEMMA TableKept ==
  ASSUME NEW d \in Inodes, NEW e \in Tables, NEW F, Exact(Kept(d, e), F),
         NEW f \in File
  PROVE  /\ d[f].indirect \in BlockOrNone /\ d[f].indirect \notin F
         /\ d[f].indirect # 0 => d[f].indirect \in Block
         /\ \A g \in File : d[g].indirect = d[f].indirect /\ d[f].indirect # 0 => g = f
<1>1. \A g \in File : /\ <<g, "indirect", 0>> \in Place
                      /\ Kept(d, e)[<<g, "indirect", 0>>] = d[g].indirect
  BY KeptAtDirect, KeptAtIndirect, KeptAtEntry
<1>2. d[f].indirect \in BlockOrNone /\ d[f].indirect \notin F
  BY <1>1 DEF Exact
<1>3. d[f].indirect # 0 => d[f].indirect \in Block
  BY <1>2, SfsAssumption DEF Block, BlockOrNone
<1>4. ASSUME NEW g \in File, d[g].indirect = d[f].indirect, d[f].indirect # 0 PROVE g = f
  <2> DEFINE p == <<g, "indirect", 0>>
             q == <<f, "indirect", 0>>
             H == Kept(d, e)
  <2>1. p \in Place /\ q \in Place /\ H[p] = H[q] /\ H[p] # 0
    BY <1>1, <1>4
  <2>2. p = q
    <3> HIDE DEF p, q, H
    <3>1. Exact(H, F)
      BY DEF H
    <3>2. QED
      BY <2>1, <3>1 DEF Exact
  <2>3. QED
    BY <2>2
<1>5. QED
  BY <1>2, <1>3, <1>4

(* A block is cleared.                                                     *)
Cleared(e, b) == [e EXCEPT ![b] = EmptyTable]

(* What is kept does not change when a free block is cleared.              *)
LEMMA KeptCleared ==
  ASSUME NEW d \in Inodes, NEW e \in Tables, NEW F, Exact(Kept(d, e), F), NEW b \in F
  PROVE  Kept(d, Cleared(e, b)) = Kept(d, e)
<1> DEFINE e2 == Cleared(e, b)
<1>1. ASSUME NEW p \in Place PROVE Kept(d, e2)[p] = Kept(d, e)[p]
  <2>1. PICK f \in File : \/ \E i \in Direct : p = <<f, "direct", i>>
                          \/ p = <<f, "indirect", 0>>
                          \/ \E i \in Entry : p = <<f, "entry", i>>
    BY PlaceForms
  <2>2. d[f].indirect # 0 => e2[d[f].indirect] = e[d[f].indirect]
    BY TableKept DEF Tables, Cleared
  <2> HIDE DEF e2
  <2>3. CASE \E i \in Direct : p = <<f, "direct", i>>
    <3>1. PICK i \in Direct : p = <<f, "direct", i>>
      BY <2>3
    <3>2. Kept(d, e2)[p] = Pointed(d, f, i)
      BY <3>1, KeptAtDirect
    <3>3. Kept(d, e)[p] = Pointed(d, f, i)
      BY <3>1, KeptAtDirect
    <3>4. QED
      BY <3>2, <3>3 DEF Pointed
  <2>4. CASE p = <<f, "indirect", 0>>
    BY <2>4, KeptAtIndirect
  <2>5. CASE \E i \in Entry : p = <<f, "entry", i>>
    <3>1. PICK i \in Entry : p = <<f, "entry", i>>
      BY <2>5
    <3>2. Kept(d, e2)[p] = Listed(d, e2, f, i)
      BY <3>1, KeptAtEntry
    <3>3. Kept(d, e)[p] = Listed(d, e, f, i)
      BY <3>1, KeptAtEntry
    <3>4. QED
      BY <2>2, <3>2, <3>3 DEF Listed
  <2>6. QED
    BY <2>1, <2>3, <2>4, <2>5
<1>2. QED
  BY <1>1 DEF Kept

(* Of the block maps only the direct entry i of file f changes, to b.      *)
DirectSet(d, d2, f, i, b) ==
  /\ d2[f].direct = [d[f].direct EXCEPT ![i] = b]
  /\ \A g \in File : g # f => d2[g].direct = d[g].direct
  /\ \A g \in File : d2[g].indirect = d[g].indirect

(* A direct entry is set.                                                  *)
LEMMA KeptDirect ==
  ASSUME NEW d \in Inodes, NEW d2 \in Inodes, NEW e, NEW f \in File, NEW i \in Direct, NEW b,
         DirectSet(d, d2, f, i, b)
  PROVE  Kept(d2, e) = Put(Kept(d, e), <<f, "direct", i>>, b)
<1> DEFINE K == Put(Kept(d, e), <<f, "direct", i>>, b)
           p0 == <<f, "direct", i>>
<1>1. \A p \in Place : K[p] = IF p = p0 THEN b ELSE Kept(d, e)[p]
  BY DEF Kept, Put
<1>2. DOMAIN K = Place /\ K = [p \in Place |-> K[p]]
  BY DEF Kept, Put
<1> HIDE DEF K
<1>3. ASSUME NEW g \in File, NEW j \in Direct
      PROVE  Kept(d2, e)[<<g, "direct", j>>] = K[<<g, "direct", j>>]
  <2>1. d[g].direct \in [Direct -> BlockOrNone]
    BY DEF Inodes, Inode
  <2>2. Kept(d2, e)[<<g, "direct", j>>] = Pointed(d2, g, j)
    BY KeptAtDirect
  <2>3. K[<<g, "direct", j>>] = IF g = f /\ j = i THEN b ELSE Pointed(d, g, j)
    BY <1>1, KeptAtDirect
  <2>4. QED
    BY <2>1, <2>2, <2>3 DEF Pointed, DirectSet
<1>4. ASSUME NEW g \in File
      PROVE  Kept(d2, e)[<<g, "indirect", 0>>] = K[<<g, "indirect", 0>>]
  <2>1. Kept(d2, e)[<<g, "indirect", 0>>] = d2[g].indirect
    BY KeptAtIndirect
  <2>2. K[<<g, "indirect", 0>>] = d[g].indirect
    BY <1>1, KeptAtIndirect
  <2>3. QED
    BY <2>1, <2>2 DEF DirectSet
<1>5. ASSUME NEW g \in File, NEW j \in Entry
      PROVE  Kept(d2, e)[<<g, "entry", j>>] = K[<<g, "entry", j>>]
  <2>1. Kept(d2, e)[<<g, "entry", j>>] = Listed(d2, e, g, j)
    BY KeptAtEntry
  <2>2. K[<<g, "entry", j>>] = Listed(d, e, g, j)
    BY <1>1, KeptAtEntry
  <2>3. d2[g].indirect = d[g].indirect
    BY DEF DirectSet
  <2>4. QED
    BY <2>1, <2>2, <2>3 DEF Listed
<1>6. DOMAIN Kept(d2, e) = Place /\ Kept(d2, e) = [p \in Place |-> Kept(d2, e)[p]]
  BY DEF Kept
<1>7. Kept(d2, e) = K
  BY <1>2, <1>3, <1>4, <1>5, <1>6, SameKept
<1>8. QED
  BY <1>7 DEF K

(* An empty table is given to a file that has none.                        *)
LEMMA KeptTable ==
  ASSUME NEW d \in Inodes, NEW d2 \in Inodes, NEW e \in Tables, NEW f \in File, NEW t \in Block,
         d[f].indirect = 0, e[t] = EmptyTable,
         d2[f].direct = d[f].direct, d2[f].indirect = t,
         \A g \in File : g # f => d2[g] = d[g]
  PROVE  Kept(d2, e) = Put(Kept(d, e), <<f, "indirect", 0>>, t)
<1> DEFINE p0 == <<f, "indirect", 0>>
           K == Put(Kept(d, e), p0, t)
<1>1. \A p \in Place : K[p] = IF p = p0 THEN t ELSE Kept(d, e)[p]
  BY DEF Kept, Put
<1>2. DOMAIN K = Place /\ K = [p \in Place |-> K[p]]
  BY DEF Kept, Put
<1>0. t # 0
  BY SfsAssumption DEF Block
<1> HIDE DEF K
<1>3. ASSUME NEW g \in File, NEW j \in Direct
      PROVE  Kept(d2, e)[<<g, "direct", j>>] = K[<<g, "direct", j>>]
  <2>2. Kept(d2, e)[<<g, "direct", j>>] = Pointed(d2, g, j)
    BY KeptAtDirect
  <2>3. K[<<g, "direct", j>>] = Pointed(d, g, j)
    BY <1>1, KeptAtDirect
  <2>4. QED
    BY <2>2, <2>3 DEF Pointed
<1>4. ASSUME NEW g \in File
      PROVE  Kept(d2, e)[<<g, "indirect", 0>>] = K[<<g, "indirect", 0>>]
  <2>1. Kept(d2, e)[<<g, "indirect", 0>>] = d2[g].indirect
    BY KeptAtIndirect
  <2>2. K[<<g, "indirect", 0>>] = IF g = f THEN t ELSE d[g].indirect
    BY <1>1, KeptAtIndirect
  <2>3. QED
    BY <2>1, <2>2
<1>5. ASSUME NEW g \in File, NEW j \in Entry
      PROVE  Kept(d2, e)[<<g, "entry", j>>] = K[<<g, "entry", j>>]
  <2>1. Kept(d2, e)[<<g, "entry", j>>] = Listed(d2, e, g, j)
    BY KeptAtEntry
  <2>2. K[<<g, "entry", j>>] = Listed(d, e, g, j)
    BY <1>1, KeptAtEntry
  <2>3. CASE g = f
    BY <1>0, <2>1, <2>2, <2>3 DEF EmptyTable, Listed
  <2>4. CASE g # f
    BY <2>1, <2>2, <2>4 DEF Listed
  <2>5. QED
    BY <2>3, <2>4 DEF Listed
<1>6. DOMAIN Kept(d2, e) = Place /\ Kept(d2, e) = [p \in Place |-> Kept(d2, e)[p]]
  BY DEF Kept
<1>7. Kept(d2, e) = K
  BY <1>2, <1>3, <1>4, <1>5, <1>6, SameKept
<1>8. QED
  BY <1>7 DEF K

(* An entry of a table is set.                                             *)
EntrySet(e, t, i, b) == [e EXCEPT ![t] = [e[t] EXCEPT ![i] = b]]

(* An entry of a table belongs to one file.                                *)
LEMMA KeptEntry ==
  ASSUME NEW d \in Inodes, NEW e \in Tables, NEW F, Exact(Kept(d, e), F),
         NEW f \in File, NEW t, t = d[f].indirect, t # 0, NEW i \in Entry, NEW b
  PROVE  Kept(d, EntrySet(e, t, i, b)) = Put(Kept(d, e), <<f, "entry", i>>, b)
<1> DEFINE p0 == <<f, "entry", i>>
           K == Put(Kept(d, e), p0, b)
           e2 == EntrySet(e, t, i, b)
<1>1. \A p \in Place : K[p] = IF p = p0 THEN b ELSE Kept(d, e)[p]
  BY DEF Kept, Put
<1>2. DOMAIN K = Place /\ K = [p \in Place |-> K[p]]
  BY DEF Kept, Put
<1>0. t \in Block /\ \A g \in File : d[g].indirect = t => g = f
  BY TableKept
<1>9. ASSUME NEW s \in Block, NEW j \in Entry
      PROVE  e2[s][j] = IF s = t /\ j = i THEN b ELSE e[s][j]
  BY <1>0 DEF Tables, EntrySet
<1> HIDE DEF K, e2
<1>3. ASSUME NEW g \in File, NEW j \in Direct
      PROVE  Kept(d, e2)[<<g, "direct", j>>] = K[<<g, "direct", j>>]
  <2>2. Kept(d, e2)[<<g, "direct", j>>] = Pointed(d, g, j)
    BY KeptAtDirect
  <2>3. K[<<g, "direct", j>>] = Pointed(d, g, j)
    BY <1>1, KeptAtDirect
  <2>4. QED
    BY <2>2, <2>3 DEF Pointed
<1>4. ASSUME NEW g \in File
      PROVE  Kept(d, e2)[<<g, "indirect", 0>>] = K[<<g, "indirect", 0>>]
  <2>1. Kept(d, e2)[<<g, "indirect", 0>>] = d[g].indirect
    BY KeptAtIndirect
  <2>2. K[<<g, "indirect", 0>>] = d[g].indirect
    BY <1>1, KeptAtIndirect
  <2>3. QED
    BY <2>1, <2>2
<1>5. ASSUME NEW g \in File, NEW j \in Entry
      PROVE  Kept(d, e2)[<<g, "entry", j>>] = K[<<g, "entry", j>>]
  <2>1. Kept(d, e2)[<<g, "entry", j>>] = Listed(d, e2, g, j)
    BY KeptAtEntry
  <2>2. K[<<g, "entry", j>>] = IF g = f /\ j = i THEN b ELSE Listed(d, e, g, j)
    BY <1>1, KeptAtEntry
  <2>3. d[g].indirect # 0 => d[g].indirect \in Block
    BY TableKept
  <2>4. d[g].indirect # 0 => e2[d[g].indirect][j] =
                                IF d[g].indirect = t /\ j = i THEN b ELSE e[d[g].indirect][j]
    BY <1>9, <2>3
  <2>5. QED
    BY <1>0, <2>1, <2>2, <2>4 DEF Listed
<1>6. DOMAIN Kept(d, e2) = Place /\ Kept(d, e2) = [p \in Place |-> Kept(d, e2)[p]]
  BY DEF Kept
<1>7. Kept(d, e2) = K
  BY <1>2, <1>3, <1>4, <1>5, <1>6, SameKept
<1>8. QED
  BY <1>7 DEF K, e2

-----------------------------------------------------------------------------
(***************************************************************************)
(* What the calls work on, and what is right of it.                        *)
(***************************************************************************)
Answer == {"ok", "E_NO_MEM", "range"}

SfsWorld ==
  [freemap : SUBSET Block, unused : Int, din : Inodes, entry : Tables, dirty : SUBSET File,
   super_dirty : BOOLEAN, ret : Answer, got : BlockOrNone]

(* Each block is in one place, and the free ones are counted.              *)
Sound(w) ==
  /\ w \in SfsWorld
  /\ Exact(Kept(w.din, w.entry), w.freemap)
  /\ w.unused = Cardinality(w.freemap)

(* A call that fails is noted.                                             *)
LEMMA FailedWorld ==
  ASSUME NEW w \in SfsWorld, NEW r \in Answer
  PROVE  LET v == Failed(w, r)
         IN  /\ v \in SfsWorld /\ v.ret = r /\ v.din = w.din /\ v.entry = w.entry
             /\ v.freemap = w.freemap /\ v.unused = w.unused /\ v.dirty = w.dirty
             /\ v.super_dirty = w.super_dirty
BY DEF SfsWorld, Failed

(* A file is marked to be written.                                         *)
LEMMA DirtiedWorld ==
  ASSUME NEW w \in SfsWorld, NEW f \in File
  PROVE  LET v == Dirtied(w, f)
         IN  /\ v \in SfsWorld /\ v.ret = w.ret /\ v.din = w.din /\ v.entry = w.entry
             /\ v.freemap = w.freemap /\ v.unused = w.unused /\ v.dirty = w.dirty \cup {f}
             /\ v.super_dirty = w.super_dirty
BY DEF SfsWorld, Dirtied

(* A free block is taken.                                                  *)
Allocated(w, v, b) ==
  /\ v \in SfsWorld /\ v.ret = w.ret /\ v.got = b /\ v.super_dirty = TRUE
  /\ v.freemap = w.freemap \ {b} /\ v.unused = w.unused - 1
  /\ v.din = w.din /\ v.dirty = w.dirty
  /\ v.entry = Cleared(w.entry, b)

(* sfs_block_alloc takes a free block, if there is one.                    *)
LEMMA AllocWorld ==
  ASSUME NEW w \in SfsWorld
  PROVE  /\ w.freemap = {} => sfs_block_alloc(w) = Failed(w, "E_NO_MEM")
         /\ w.freemap # {} => \E b \in w.freemap : Allocated(w, sfs_block_alloc(w), b)
<1>1. w.freemap = {} => sfs_block_alloc(w) = Failed(w, "E_NO_MEM")
  BY DEF sfs_block_alloc
<1>2. ASSUME w.freemap # {} PROVE \E b \in w.freemap : Allocated(w, sfs_block_alloc(w), b)
  <2> DEFINE b == Min(w.freemap)
             v == sfs_block_alloc(w)
  <2>1. w.freemap \in SUBSET Int /\ IsFiniteSet(w.freemap)
    <3>1. NBLOCK \in Int /\ 1 \in Int /\ w.freemap \subseteq Block
      BY SfsAssumption DEF SfsWorld
    <3>2. IsFiniteSet(Block)
      BY <3>1, FS_Interval DEF Block
    <3>3. QED
      BY <3>1, <3>2, FS_Subset DEF Block
  <2>2. \E x \in w.freemap : \A y \in w.freemap : x <= y
    BY <1>2, <2>1, Extremes
  <2>3. b \in w.freemap
    BY <2>2 DEF Min
  <2>4. b \in Block /\ b \in BlockOrNone /\ EmptyTable \in [Entry -> BlockOrNone]
    BY <2>3, SfsAssumption DEF SfsWorld, Block, BlockOrNone, EmptyTable
  <2> HIDE DEF b
  <2>5. v = [w EXCEPT !.freemap = @ \ {b}, !.unused = @ - 1, !.super_dirty = TRUE,
                     !.got = b, !.entry[b] = EmptyTable]
    BY <1>2 DEF sfs_block_alloc, b, EmptyTable
  <2> DEFINE F == w.freemap \ {b}
             e == [w.entry EXCEPT ![b] = EmptyTable]
             u == w.unused - 1
  <2>8. F \in SUBSET Block /\ u \in Int /\ e \in Tables
    BY <2>4 DEF SfsWorld, Tables
  <2>9. v = [w EXCEPT !.freemap = F, !.unused = u, !.super_dirty = TRUE, !.got = b, !.entry = e]
    BY <2>5 DEF SfsWorld
  <2> HIDE DEF v, F, e, u
  <2>10. /\ v.ret = w.ret /\ v.got = b /\ v.super_dirty = TRUE /\ v.freemap = F
         /\ v.unused = u /\ v.din = w.din /\ v.dirty = w.dirty /\ v.entry = e
    BY <2>9 DEF SfsWorld
  <2>11. v \in SfsWorld
    BY <2>4, <2>8, <2>9 DEF SfsWorld
  <2>6. Allocated(w, v, b)
    BY <2>10, <2>11 DEF Allocated, Cleared, F, e, u
  <2>7. QED
    BY <2>3, <2>6 DEF v
<1>3. QED
  BY <1>1, <1>2

(* sfs_block_free gives a block back.                                      *)
LEMMA FreeWorld ==
  ASSUME NEW w \in SfsWorld, NEW b \in Block
  PROVE  LET v == sfs_block_free(w, b)
         IN  /\ v \in SfsWorld /\ v.ret = w.ret /\ v.super_dirty = TRUE
             /\ v.freemap = w.freemap \cup {b} /\ v.unused = w.unused + 1
             /\ v.din = w.din /\ v.dirty = w.dirty /\ v.entry = w.entry
<1> DEFINE v == sfs_block_free(w, b)
<1>1. w.freemap \cup {b} \in SUBSET Block /\ w.unused + 1 \in Int
  BY DEF SfsWorld
<1>2. v = [w EXCEPT !.freemap = w.freemap \cup {b}, !.unused = w.unused + 1, !.super_dirty = TRUE]
  BY DEF sfs_block_free
<1> HIDE DEF v
<1>3. /\ v.ret = w.ret /\ v.super_dirty = TRUE /\ v.got = w.got
      /\ v.freemap = w.freemap \cup {b} /\ v.unused = w.unused + 1
      /\ v.din = w.din /\ v.dirty = w.dirty /\ v.entry = w.entry
  BY <1>2 DEF SfsWorld
<1>4. v \in SfsWorld
  BY <1>1, <1>2 DEF SfsWorld
<1>5. QED
  BY <1>3, <1>4 DEF v

(* The count follows the free map.                                         *)
LEMMA FreeCount ==
  ASSUME NEW F \in SUBSET Block, NEW b \in Block
  PROVE  /\ Cardinality(F) \in 0..NBLOCK
         /\ b \in F => Cardinality(F \ {b}) = Cardinality(F) - 1
         /\ b \notin F => Cardinality(F \cup {b}) = Cardinality(F) + 1
<1>1. NBLOCK \in Int /\ 1 \in Int /\ NBLOCK \in Nat
  BY SfsAssumption
<1>2. IsFiniteSet(Block) /\ Cardinality(Block) = NBLOCK
  BY <1>1, FS_Interval DEF Block
<1>3. IsFiniteSet(F) /\ Cardinality(F) <= NBLOCK
  BY <1>2, FS_Subset
<1>4. Cardinality(F) \in Nat
  BY <1>3, FS_CardinalityType
<1>5. b \in F => Cardinality(F \ {b}) = Cardinality(F) - 1
  BY <1>3, FS_RemoveElement
<1>6. b \notin F => Cardinality(F \cup {b}) = Cardinality(F) + 1
  BY <1>3, FS_AddElement
<1>7. QED
  BY <1>1, <1>3, <1>4, <1>5, <1>6

(* sfs_block_alloc on a sound disk.                                        *)
LEMMA AllocSound ==
  ASSUME NEW w, NEW v, NEW b, Sound(w), b \in w.freemap, Allocated(w, v, b)
  PROVE  /\ Kept(v.din, v.entry) = Kept(w.din, w.entry)
         /\ v.unused = Cardinality(v.freemap)
         /\ b \in Block /\ b # 0 /\ v.entry \in Tables /\ w.din \in Inodes
         /\ v.entry[b] = EmptyTable
         /\ \A c \in Block : c # b => v.entry[c] = w.entry[c]
<1>1. w.din \in Inodes /\ w.entry \in Tables /\ w.freemap \in SUBSET Block
  BY DEF Sound, SfsWorld
<1>2. Kept(v.din, v.entry) = Kept(w.din, w.entry)
  <2>1. Kept(w.din, Cleared(w.entry, b)) = Kept(w.din, w.entry)
    BY <1>1, KeptCleared DEF Sound
  <2>2. v.din = w.din /\ v.entry = Cleared(w.entry, b)
    BY DEF Allocated
  <2>3. QED
    BY <2>1, <2>2
<1>3. b \in Block /\ b # 0
  BY <1>1, SfsAssumption DEF Block
<1>4. v.unused = Cardinality(v.freemap)
  BY <1>1, <1>3, FreeCount DEF Sound, Allocated
<1>5. v.entry \in Tables
  BY DEF Allocated, SfsWorld
<1>6. v.entry[b] = EmptyTable /\ \A c \in Block : c # b => v.entry[c] = w.entry[c]
  BY <1>1, <1>3 DEF Allocated, Cleared, Tables
<1>7. QED
  BY <1>1, <1>2, <1>3, <1>4, <1>5, <1>6

(* A world with other inodes.                                              *)
LEMMA DinWorld ==
  ASSUME NEW w \in SfsWorld, NEW d \in Inodes
  PROVE  LET v == [w EXCEPT !.din = d]
         IN  /\ v \in SfsWorld /\ v.ret = w.ret /\ v.din = d /\ v.entry = w.entry
             /\ v.freemap = w.freemap /\ v.unused = w.unused /\ v.dirty = w.dirty
             /\ v.super_dirty = w.super_dirty
BY DEF SfsWorld

(* A world with other tables.                                              *)
LEMMA EntryWorld ==
  ASSUME NEW w \in SfsWorld, NEW e \in Tables
  PROVE  LET v == [w EXCEPT !.entry = e]
         IN  /\ v \in SfsWorld /\ v.ret = w.ret /\ v.din = w.din /\ v.entry = e
             /\ v.freemap = w.freemap /\ v.unused = w.unused /\ v.dirty = w.dirty
             /\ v.super_dirty = w.super_dirty
BY DEF SfsWorld

(* What a search for a block with create may do: it takes blocks for empty *)
(* places and marks what it changed.                                       *)
Progress(w, v) ==
  /\ Sound(v)
  /\ \A p \in Place : Kept(w.din, w.entry)[p] # 0 => Kept(v.din, v.entry)[p] # 0
  /\ \A g \in File : v.din[g].size = w.din[g].size /\ v.din[g].blocks = w.din[g].blocks
  /\ w.dirty \subseteq v.dirty
  /\ \A g \in File : g \notin v.dirty => v.din[g].direct = w.din[g].direct
                                         /\ v.din[g].indirect = w.din[g].indirect
  /\ v.super_dirty = FALSE => /\ w.super_dirty = FALSE
                              /\ v.freemap = w.freemap /\ v.unused = w.unused

(* The answer ok means that the block is there.                            *)
Found(v, f, index) ==
  v.ret = "ok" => index < NDIRECT + NENTRY /\ Kept(v.din, v.entry)[PlaceOfBlock(f, index)] # 0

(* A world that differs in the answer only.                                *)
LEMMA ProgressNone ==
  ASSUME NEW w, NEW v \in SfsWorld, Sound(w), v.din = w.din, v.entry = w.entry,
         v.freemap = w.freemap, v.unused = w.unused, v.dirty = w.dirty,
         v.super_dirty = w.super_dirty
  PROVE  Progress(w, v)
BY DEF Progress, Sound

(* A search in the inode itself.                                           *)
LEMMA DirectFound ==
  ASSUME NEW w, Sound(w), w.ret = "ok", NEW f \in File, NEW index \in Direct
  PROVE  Progress(w, sfs_bmap_get(w, f, index)) /\ Found(sfs_bmap_get(w, f, index), f, index)
<1> DEFINE v == sfs_bmap_get(w, f, index)
           a == sfs_block_alloc(w)
           p == <<f, "direct", index>>
           K == Kept(w.din, w.entry)
<1>0. w \in SfsWorld /\ w.din \in Inodes /\ w.entry \in Tables
  BY DEF Sound, SfsWorld
<1>1. /\ p \in Place /\ p = PlaceOfBlock(f, index) /\ K[p] = w.din[f].direct[index]
      /\ index < NDIRECT + NENTRY
  <2>1. index < NDIRECT + NENTRY
    BY SfsAssumption DEF Direct
  <2>2. p \in Place /\ K[p] = Pointed(w.din, f, index)
    BY KeptAtDirect
  <2>3. QED
    BY <2>1, <2>2 DEF Pointed, PlaceOfBlock
<1>2. CASE w.din[f].direct[index] # 0
  <2>1. v = Failed(w, "ok")
    BY <1>2 DEF sfs_bmap_get, Failed
  <2>2. Progress(w, v) /\ v.din = w.din /\ v.entry = w.entry
    BY <1>0, <2>1, FailedWorld, ProgressNone DEF Answer
  <2>3. Found(v, f, index)
    BY <1>1, <1>2, <2>2 DEF Found
  <2>4. QED
    BY <2>2, <2>3
<1>3. CASE w.din[f].direct[index] = 0 /\ w.freemap = {}
  <2>1. a.ret = "E_NO_MEM"
    BY <1>0, <1>3, AllocWorld, FailedWorld DEF Answer
  <2>2. v = Failed(w, "E_NO_MEM")
    BY <1>3, <2>1 DEF sfs_bmap_get, Failed
  <2>3. Progress(w, v) /\ v.ret # "ok"
    BY <1>0, <2>2, FailedWorld, ProgressNone DEF Answer
  <2>4. QED
    BY <2>3 DEF Found
<1>4. CASE w.din[f].direct[index] = 0 /\ w.freemap # {}
  <2>1. PICK b \in w.freemap : Allocated(w, a, b)
    BY <1>0, <1>4, AllocWorld
  <2>2. /\ Kept(a.din, a.entry) = K /\ a.unused = Cardinality(a.freemap)
        /\ b \in Block /\ b # 0 /\ b \in BlockOrNone
    BY <2>1, AllocSound DEF Block, BlockOrNone
  <2>3. a \in SfsWorld /\ a.ret = "ok" /\ a.got = b /\ a.din = w.din /\ a.dirty = w.dirty
        /\ a.freemap = w.freemap \ {b} /\ a.super_dirty = TRUE
    BY <2>1 DEF Allocated
  <2> DEFINE r == [w.din[f] EXCEPT !.direct[index] = b]
             d == [w.din EXCEPT ![f] = r]
             x == [a EXCEPT !.din = d]
  <2>4. /\ r \in Inode /\ r.direct = [w.din[f].direct EXCEPT ![index] = b]
        /\ r.indirect = w.din[f].indirect /\ r.size = w.din[f].size /\ r.blocks = w.din[f].blocks
    <3>1. w.din[f] \in Inode
      BY <1>0 DEF Inodes
    <3>2. QED
      BY <2>2, <3>1 DEF Inode
  <2>5. d \in Inodes /\ d[f] = r /\ \A g \in File : g # f => d[g] = w.din[g]
    BY <1>0, <2>4 DEF Inodes
  <2>6. v = Dirtied(x, f)
    <3>1. v = Dirtied([a EXCEPT !.din[f].direct[index] = a.got], f)
      BY <1>4, <2>3 DEF sfs_bmap_get
    <3>2. [a EXCEPT !.din[f].direct[index] = a.got] = x
      BY <2>3 DEF SfsWorld
    <3>3. QED
      BY <3>1, <3>2
  <2> HIDE DEF r, d, x, v, a
  <2>7. /\ x \in SfsWorld /\ x.ret = "ok" /\ x.din = d /\ x.entry = a.entry
        /\ x.freemap = a.freemap /\ x.unused = a.unused /\ x.dirty = w.dirty
        /\ x.super_dirty = TRUE
    BY <2>3, <2>5, DinWorld DEF x
  <2>8. /\ v \in SfsWorld /\ v.ret = "ok" /\ v.din = d /\ v.entry = a.entry
        /\ v.freemap = w.freemap \ {b} /\ v.unused = a.unused /\ v.dirty = w.dirty \cup {f}
        /\ v.super_dirty = TRUE
    BY <2>3, <2>6, <2>7, DirtiedWorld
  <2>9. Kept(v.din, v.entry) = Put(K, p, b)
    <3>1. Kept(d, a.entry) = Put(Kept(w.din, a.entry), p, b)
      <4>1. DirectSet(w.din, d, f, index, b)
        BY <2>4, <2>5 DEF DirectSet
      <4>2. QED
        BY <1>0, <2>5, <4>1, KeptDirect
    <3>2. Kept(w.din, a.entry) = K
      BY <2>2, <2>3
    <3>3. QED
      BY <2>8, <3>1, <3>2
  <2>10. Exact(Put(K, p, b), w.freemap \ {b})
    BY <1>1, <1>4, ExactTake DEF Sound
  <2>11. Sound(v)
    BY <2>2, <2>3, <2>8, <2>9, <2>10 DEF Sound
  <2>12. \A q \in Place : K[q] # 0 => Kept(v.din, v.entry)[q] # 0
    BY <2>2, <2>9 DEF Kept, Put
  <2>13. Kept(v.din, v.entry)[p] # 0
    BY <1>1, <2>2, <2>9 DEF Kept, Put
  <2>14. \A g \in File : /\ v.din[g].size = w.din[g].size /\ v.din[g].blocks = w.din[g].blocks
                         /\ g # f => v.din[g] = w.din[g]
    BY <2>4, <2>5, <2>8
  <2>15. Progress(w, v)
    BY <2>8, <2>11, <2>12, <2>14 DEF Progress
  <2>16. Found(v, f, index)
    BY <1>1, <2>13 DEF Found
  <2>17. QED
    BY <2>15, <2>16 DEF v
<1>5. QED
  BY <1>2, <1>3, <1>4

(* A search that goes by the table, of which the file has one.             *)
LEMMA ListedFound ==
  ASSUME NEW w, Sound(w), w.ret = "ok", NEW f \in File, w.din[f].indirect # 0,
         NEW index \in Nat, index \notin Direct, NEW i \in Entry, i = index - NDIRECT
  PROVE  Progress(w, sfs_bmap_get_sub(w, f, i)) /\ Found(sfs_bmap_get_sub(w, f, i), f, index)
<1> DEFINE v == sfs_bmap_get_sub(w, f, i)
           t == w.din[f].indirect
           table == [w EXCEPT !.got = t]
           leaf == sfs_block_alloc(table)
           mapped == [leaf EXCEPT !.entry[t][i] = leaf.got, !.din[f].indirect = t]
           p == <<f, "entry", i>>
           K == Kept(w.din, w.entry)
<1>0. w \in SfsWorld /\ w.din \in Inodes /\ w.entry \in Tables
  BY DEF Sound, SfsWorld
<1>1. /\ p \in Place /\ p = PlaceOfBlock(f, index)
      /\ index < NDIRECT + NENTRY
  <2>1. index < NDIRECT + NENTRY
    BY SfsAssumption DEF Entry
  <2>2. p \in Place
    BY KeptAtEntry
  <2>3. p = PlaceOfBlock(f, index)
    BY DEF PlaceOfBlock
  <2>4. QED
    BY <2>1, <2>2, <2>3
<1>2. t \in Block /\ t \in BlockOrNone /\ t \notin w.freemap
  BY <1>0, TableKept DEF Sound
<1>3. K[p] = w.entry[t][i]
  <2>1. K[p] = Listed(w.din, w.entry, f, i)
    BY KeptAtEntry
  <2>2. QED
    BY <2>1 DEF Listed
<1>4. /\ table \in SfsWorld /\ table.got = t /\ table.ret = "ok" /\ table.din = w.din
      /\ table.entry = w.entry /\ table.freemap = w.freemap /\ table.unused = w.unused
      /\ table.dirty = w.dirty /\ table.super_dirty = w.super_dirty
  BY <1>0, <1>2 DEF SfsWorld
<1>5. v = CASE table.ret # "ok" -> table
            [] table.ret = "ok" /\ table.entry[t][i] # 0 -> table
            [] table.ret = "ok" /\ table.entry[t][i] = 0 /\ leaf.ret # "ok" -> GiveBack(w, table, f)
            [] OTHER -> mapped
  <2> HIDE DEF leaf
  <2>1. leaf = sfs_block_alloc(table)
    BY DEF leaf
  <2>2. QED
    BY <1>4, <2>1 DEF sfs_bmap_get_sub
<1> HIDE DEF v, table, leaf, mapped, t
<1>6. CASE w.entry[t][i] # 0
  <2>1. v = table
    BY <1>4, <1>5, <1>6
  <2>2. Progress(w, v)
    BY <1>4, <2>1, ProgressNone
  <2>3. Found(v, f, index)
    BY <1>1, <1>3, <1>4, <1>6, <2>1 DEF Found
  <2>4. QED
    BY <2>2, <2>3 DEF v
<1>7. CASE w.entry[t][i] = 0 /\ w.freemap = {}
  <2>1. leaf.ret = "E_NO_MEM"
    BY <1>4, <1>7, AllocWorld, FailedWorld DEF Answer, leaf
  <2>2. v = GiveBack(w, table, f)
    BY <1>4, <1>5, <1>7, <2>1
  <2>3. v = Failed(w, "E_NO_MEM")
    BY <2>2 DEF GiveBack, t
  <2>4. Progress(w, v) /\ v.ret # "ok"
    BY <1>0, <2>3, FailedWorld, ProgressNone DEF Answer
  <2>5. QED
    BY <2>4 DEF Found, v
<1>8. CASE w.entry[t][i] = 0 /\ w.freemap # {}
  <2>1. PICK b \in w.freemap : Allocated(table, leaf, b)
    BY <1>4, <1>8, AllocWorld DEF leaf
  <2>2. Sound(table)
    BY <1>4 DEF Sound
  <2>3. /\ Kept(leaf.din, leaf.entry) = K /\ leaf.unused = Cardinality(leaf.freemap)
        /\ b \in Block /\ b # 0 /\ b \in BlockOrNone
    BY <1>4, <2>1, <2>2, AllocSound DEF Block, BlockOrNone
  <2>4. /\ leaf \in SfsWorld /\ leaf.ret = "ok" /\ leaf.got = b /\ leaf.din = w.din
        /\ leaf.dirty = w.dirty /\ leaf.freemap = w.freemap \ {b} /\ leaf.super_dirty = TRUE
        /\ leaf.entry \in Tables
    BY <1>4, <2>1 DEF Allocated, SfsWorld
  <2> DEFINE e == EntrySet(leaf.entry, t, i, b)
  <2>5. e \in Tables
    BY <1>2, <2>3, <2>4 DEF Tables, EntrySet
  <2>6. mapped = [leaf EXCEPT !.entry = e]
    <3>1. [leaf.din EXCEPT ![f].indirect = t] = leaf.din
      BY <1>0, <2>4 DEF Inodes, Inode, t
    <3>2. mapped = [leaf EXCEPT !.entry = e, !.din = [leaf.din EXCEPT ![f].indirect = t]]
      BY <2>4 DEF mapped, SfsWorld, EntrySet
    <3> HIDE DEF e
    <3>3. [leaf EXCEPT !.entry = e, !.din = leaf.din] = [leaf EXCEPT !.entry = e]
      BY <2>4 DEF SfsWorld
    <3>4. QED
      BY <3>1, <3>2, <3>3
  <2>7. v = mapped
    BY <1>4, <1>5, <1>8, <2>4
  <2> HIDE DEF e
  <2>8. /\ v \in SfsWorld /\ v.ret = "ok" /\ v.din = w.din /\ v.entry = e
        /\ v.freemap = w.freemap \ {b} /\ v.unused = leaf.unused /\ v.dirty = w.dirty
        /\ v.super_dirty = TRUE
    BY <2>4, <2>5, <2>6, <2>7, EntryWorld
  <2>9. Kept(v.din, v.entry) = Put(K, p, b)
    <3>1. Exact(Kept(w.din, leaf.entry), w.freemap)
      BY <2>3, <2>4 DEF Sound
    <3>2. Kept(w.din, e) = Put(Kept(w.din, leaf.entry), p, b)
      <4>1. t = w.din[f].indirect /\ t # 0
        BY DEF t
      <4>2. Kept(w.din, EntrySet(leaf.entry, t, i, b)) = Put(Kept(w.din, leaf.entry), p, b)
        <5>1. w.din \in Inodes /\ leaf.entry \in Tables
          BY <1>0, <2>4
        <5>2. QED
          BY <3>1, <4>1, <5>1, KeptEntry
      <4>3. QED
        BY <4>2 DEF e
    <3>3. QED
      BY <2>3, <2>4, <2>8, <3>2
  <2>10. Exact(Put(K, p, b), w.freemap \ {b})
    BY <1>1, <1>3, <1>8, ExactTake DEF Sound
  <2>11. Sound(v)
    BY <2>3, <2>4, <2>8, <2>9, <2>10 DEF Sound
  <2>12. \A q \in Place : K[q] # 0 => Kept(v.din, v.entry)[q] # 0
    BY <2>3, <2>9 DEF Kept, Put
  <2>13. Kept(v.din, v.entry)[p] # 0
    BY <1>1, <2>3, <2>9 DEF Kept, Put
  <2>14. Progress(w, v)
    BY <2>8, <2>11, <2>12 DEF Progress
  <2>15. Found(v, f, index)
    BY <1>1, <2>13 DEF Found
  <2>16. QED
    BY <2>14, <2>15 DEF v
<1>9. QED
  BY <1>6, <1>7, <1>8

(* A search that goes by the table, which has to be made first.            *)
LEMMA TableFound ==
  ASSUME NEW w, Sound(w), w.ret = "ok", NEW f \in File, w.din[f].indirect = 0,
         NEW index \in Nat, index \notin Direct, NEW i \in Entry, i = index - NDIRECT
  PROVE  Progress(w, sfs_bmap_get_sub(w, f, i)) /\ Found(sfs_bmap_get_sub(w, f, i), f, index)
<1> DEFINE v == sfs_bmap_get_sub(w, f, i)
           table == sfs_block_alloc(w)
           t == table.got
           leaf == sfs_block_alloc(table)
           mapped == [leaf EXCEPT !.entry[t][i] = leaf.got, !.din[f].indirect = t]
           p == <<f, "entry", i>>
           q == <<f, "indirect", 0>>
           K == Kept(w.din, w.entry)
<1>0. w \in SfsWorld /\ w.din \in Inodes /\ w.entry \in Tables
  BY DEF Sound, SfsWorld
<1>1. /\ p \in Place /\ p = PlaceOfBlock(f, index) /\ q \in Place /\ p # q
      /\ index < NDIRECT + NENTRY
  <2>1. index < NDIRECT + NENTRY
    BY SfsAssumption DEF Entry
  <2>2. p \in Place /\ q \in Place
    BY KeptAtEntry, KeptAtIndirect
  <2>3. p = PlaceOfBlock(f, index)
    BY DEF PlaceOfBlock
  <2>4. QED
    BY <2>1, <2>2, <2>3
<1>2. K[q] = 0 /\ K[p] = 0
  <2>1. K[p] = Listed(w.din, w.entry, f, i) /\ K[q] = w.din[f].indirect
    BY KeptAtEntry, KeptAtIndirect
  <2>2. QED
    BY <2>1 DEF Listed
<1>5. v = CASE table.ret # "ok" -> table
            [] table.ret = "ok" /\ table.entry[t][i] # 0 -> table
            [] table.ret = "ok" /\ table.entry[t][i] = 0 /\ leaf.ret # "ok" -> GiveBack(w, table, f)
            [] OTHER -> Dirtied(mapped, f)
  <2> HIDE DEF leaf, table
  <2>1. table = sfs_block_alloc(w) /\ leaf = sfs_block_alloc(table)
    BY DEF leaf, table
  <2>2. QED
    BY <2>1 DEF sfs_bmap_get_sub
<1> HIDE DEF v, table, leaf, mapped, t
<1>6. CASE w.freemap = {}
  <2>1. table = Failed(w, "E_NO_MEM")
    BY <1>0, <1>6, AllocWorld DEF table
  <2>2. table.ret = "E_NO_MEM"
    BY <1>0, <2>1, FailedWorld DEF Answer
  <2>3. v = Failed(w, "E_NO_MEM")
    BY <1>5, <2>1, <2>2
  <2>4. Progress(w, v) /\ v.ret # "ok"
    BY <1>0, <2>3, FailedWorld, ProgressNone DEF Answer
  <2>5. QED
    BY <2>4 DEF Found, v
<1>7. CASE w.freemap # {}
  <2>1. PICK b \in w.freemap : Allocated(w, table, b)
    BY <1>0, <1>7, AllocWorld DEF table
  <2>2. /\ Kept(table.din, table.entry) = K /\ table.unused = Cardinality(table.freemap)
        /\ b \in Block /\ b # 0 /\ b \in BlockOrNone /\ table.entry[b] = EmptyTable
    BY <2>1, AllocSound DEF Block, BlockOrNone
  <2>3. /\ table \in SfsWorld /\ table.ret = "ok" /\ t = b /\ table.din = w.din
        /\ table.dirty = w.dirty /\ table.freemap = w.freemap \ {b} /\ table.super_dirty = TRUE
        /\ table.entry \in Tables /\ table.unused = w.unused - 1
    BY <2>1 DEF Allocated, SfsWorld, t
  <2>4. table.entry[t][i] = 0
    BY <2>2, <2>3 DEF EmptyTable
  <2>5. CASE table.freemap = {}
    <3>1. leaf.ret = "E_NO_MEM"
      BY <2>3, <2>5, AllocWorld, FailedWorld DEF Answer, leaf
    <3>2. v = Failed(sfs_block_free(table, b), "E_NO_MEM")
      BY <1>5, <2>3, <2>4, <3>1 DEF GiveBack, t
    <3>3. /\ sfs_block_free(table, b) \in SfsWorld
          /\ v \in SfsWorld /\ v.ret = "E_NO_MEM" /\ v.super_dirty = TRUE
          /\ v.freemap = table.freemap \cup {b} /\ v.unused = table.unused + 1
          /\ v.din = w.din /\ v.dirty = w.dirty /\ v.entry = table.entry
      <4> DEFINE x == sfs_block_free(table, b)
      <4>1. /\ x \in SfsWorld /\ x.super_dirty = TRUE
            /\ x.freemap = table.freemap \cup {b} /\ x.unused = table.unused + 1
            /\ x.din = table.din /\ x.dirty = table.dirty /\ x.entry = table.entry
        BY <2>2, <2>3, FreeWorld
      <4> HIDE DEF x
      <4>2. v = Failed(x, "E_NO_MEM")
        BY <3>2 DEF x
      <4>3. /\ v \in SfsWorld /\ v.ret = "E_NO_MEM" /\ v.super_dirty = x.super_dirty
            /\ v.freemap = x.freemap /\ v.unused = x.unused
            /\ v.din = x.din /\ v.dirty = x.dirty /\ v.entry = x.entry
        BY <4>1, <4>2, FailedWorld DEF Answer
      <4>4. QED
        BY <2>3, <4>1, <4>3 DEF x
    <3>4. v.freemap = w.freemap /\ v.unused = w.unused
      <4>1. w.unused \in Int
        BY <1>0 DEF SfsWorld
      <4>2. QED
        BY <2>1, <2>3, <3>3, <4>1
    <3>5. Kept(v.din, v.entry) = K
      BY <2>2, <2>3, <3>3
    <3>6. Sound(v)
      BY <3>3, <3>4, <3>5 DEF Sound
    <3>7. Progress(w, v)
      BY <3>3, <3>5, <3>6 DEF Progress
    <3>8. QED
      BY <3>3, <3>7 DEF Found, v
  <2>6. CASE table.freemap # {}
    <3>1. PICK c \in table.freemap : Allocated(table, leaf, c)
      BY <2>3, <2>6, AllocWorld DEF leaf
    <3>2. c \in w.freemap /\ c \in Block /\ c # b /\ c # 0 /\ c \in BlockOrNone
      BY <1>0, <2>3, <3>1, SfsAssumption DEF SfsWorld, Block, BlockOrNone
    <3>3. /\ leaf \in SfsWorld /\ leaf.ret = "ok" /\ leaf.got = c /\ leaf.din = w.din
          /\ leaf.dirty = w.dirty /\ leaf.freemap = (w.freemap \ {b}) \ {c}
          /\ leaf.super_dirty = TRUE /\ leaf.unused = table.unused - 1
          /\ leaf.entry = Cleared(table.entry, c) /\ leaf.entry \in Tables
      BY <2>3, <3>1 DEF Allocated, SfsWorld
    <3>4. leaf.entry[b] = EmptyTable
      BY <2>2, <2>3, <3>2, <3>3 DEF Tables, Cleared
    <3>5. Kept(w.din, leaf.entry) = K
      <4>1. c \in w.freemap /\ Exact(Kept(w.din, table.entry), w.freemap)
        BY <2>2, <2>3, <3>2 DEF Sound
      <4>2. Kept(w.din, Cleared(table.entry, c)) = Kept(w.din, table.entry)
        BY <1>0, <2>3, <4>1, KeptCleared
      <4>3. QED
        BY <2>2, <2>3, <3>3, <4>2
    <3> DEFINE r == [w.din[f] EXCEPT !.indirect = b]
               d == [w.din EXCEPT ![f] = r]
               e == EntrySet(leaf.entry, b, i, c)
    <3>6. /\ r \in Inode /\ r.direct = w.din[f].direct /\ r.indirect = b
          /\ r.size = w.din[f].size /\ r.blocks = w.din[f].blocks
      <4>1. w.din[f] \in Inode
        BY <1>0 DEF Inodes
      <4>2. QED
        BY <2>2, <4>1 DEF Inode
    <3>7. d \in Inodes /\ d[f] = r /\ \A g \in File : g # f => d[g] = w.din[g]
      BY <1>0, <3>6 DEF Inodes
    <3>8. e \in Tables
      BY <2>2, <3>2, <3>3 DEF Tables, EntrySet
    <3>9. mapped = [[leaf EXCEPT !.entry = e] EXCEPT !.din = d]
      BY <2>3, <3>3 DEF mapped, SfsWorld, EntrySet
    <3>10. v = Dirtied(mapped, f)
      BY <1>5, <2>3, <2>4, <3>3
    <3> HIDE DEF r, d, e
    <3> DEFINE x == [leaf EXCEPT !.entry = e]
    <3>11. /\ x \in SfsWorld /\ x.ret = "ok" /\ x.din = w.din /\ x.entry = e
           /\ x.freemap = leaf.freemap /\ x.unused = leaf.unused /\ x.dirty = w.dirty
           /\ x.super_dirty = TRUE
      BY <3>3, <3>8, EntryWorld
    <3>12. mapped = [x EXCEPT !.din = d]
      BY <3>9
    <3> HIDE DEF x
    <3>13. /\ mapped \in SfsWorld /\ mapped.ret = "ok" /\ mapped.din = d /\ mapped.entry = e
           /\ mapped.freemap = leaf.freemap /\ mapped.unused = leaf.unused
           /\ mapped.dirty = w.dirty /\ mapped.super_dirty = TRUE
      BY <3>7, <3>11, <3>12, DinWorld
    <3>14. /\ v \in SfsWorld /\ v.ret = "ok" /\ v.din = d /\ v.entry = e
           /\ v.freemap = (w.freemap \ {b}) \ {c} /\ v.unused = w.unused - 1 - 1
           /\ v.dirty = w.dirty \cup {f} /\ v.super_dirty = TRUE
      BY <2>3, <3>3, <3>10, <3>13, DirtiedWorld
    <3> DEFINE K1 == Put(K, q, b)
               K2 == Put(K1, p, c)
    <3>15. Exact(K1, w.freemap \ {b})
      BY <1>1, <1>2, <2>1, ExactTake DEF Sound
    <3>16. Kept(d, leaf.entry) = K1
      <4>1. Kept(d, leaf.entry) = Put(Kept(w.din, leaf.entry), q, b)
        BY <1>0, <2>2, <3>3, <3>4, <3>6, <3>7, KeptTable
      <4>2. QED
        BY <3>5, <4>1
    <3>17. K1[p] = 0
      BY <1>1, <1>2 DEF Kept, Put
    <3> HIDE DEF K1
    <3>18. Kept(d, e) = K2
      <4>1. d[f].indirect = b /\ Exact(Kept(d, leaf.entry), w.freemap \ {b})
        BY <3>6, <3>7, <3>15, <3>16
      <4>2. Kept(d, EntrySet(leaf.entry, b, i, c)) = Put(Kept(d, leaf.entry), p, c)
        BY <2>2, <3>3, <3>7, <4>1, KeptEntry
      <4>3. QED
        BY <3>16, <4>2 DEF e
    <3>19. Exact(K2, (w.freemap \ {b}) \ {c})
      <4>1. c \in w.freemap \ {b}
        BY <3>2
      <4>2. QED
        BY <1>1, <3>15, <3>17, <4>1, ExactTake
    <3>20. v.unused = Cardinality(v.freemap)
      <4>1. w.freemap \in SUBSET Block /\ w.freemap \ {b} \in SUBSET Block /\ w.unused \in Int
        BY <1>0 DEF SfsWorld
      <4>2. Cardinality(w.freemap \ {b}) = Cardinality(w.freemap) - 1
        BY <2>2, <4>1, FreeCount
      <4>3. Cardinality((w.freemap \ {b}) \ {c}) = Cardinality(w.freemap \ {b}) - 1
        BY <3>2, <4>1, FreeCount
      <4>4. QED
        BY <3>14, <4>1, <4>2, <4>3 DEF Sound
    <3>21. Sound(v)
      BY <3>14, <3>18, <3>19, <3>20 DEF Sound
    <3>22. /\ \A o \in Place : K[o] # 0 => Kept(v.din, v.entry)[o] # 0
           /\ Kept(v.din, v.entry)[p] # 0
      BY <1>1, <2>2, <3>2, <3>14, <3>18 DEF Kept, K1, Put
    <3>23. \A g \in File : /\ v.din[g].size = w.din[g].size /\ v.din[g].blocks = w.din[g].blocks
                           /\ g # f => v.din[g] = w.din[g]
      BY <3>6, <3>7, <3>14
    <3>24. Progress(w, v)
      BY <3>14, <3>21, <3>22, <3>23 DEF Progress
    <3>25. Found(v, f, index)
      BY <1>1, <3>22 DEF Found
    <3>26. QED
      BY <3>24, <3>25 DEF v
  <2>7. QED
    BY <2>5, <2>6
<1>8. QED
  BY <1>6, <1>7

(* sfs_bmap_get_nolock with create, whatever the index.                    *)
LEMMA BlockFound ==
  ASSUME NEW w, Sound(w), w.ret = "ok", NEW f \in File, NEW index \in Nat
  PROVE  Progress(w, sfs_bmap_get(w, f, index)) /\ Found(sfs_bmap_get(w, f, index), f, index)
<1>1. CASE index \in Direct
  BY <1>1, DirectFound
<1>2. CASE index \notin Direct /\ index - NDIRECT \in Entry
  <2> DEFINE i == index - NDIRECT
  <2>1. sfs_bmap_get(w, f, index) = sfs_bmap_get_sub(w, f, i)
    BY <1>2 DEF sfs_bmap_get
  <2>2. i \in Entry
    BY <1>2
  <2> HIDE DEF i
  <2>3. i = index - NDIRECT
    BY DEF i
  <2>4. QED
    BY <1>2, <2>1, <2>2, <2>3, ListedFound, TableFound
<1>3. CASE index \notin Direct /\ index - NDIRECT \notin Entry
  <2>1. sfs_bmap_get(w, f, index) = Failed(w, "range")
    BY <1>3 DEF sfs_bmap_get
  <2>2. Progress(w, Failed(w, "range")) /\ Failed(w, "range").ret # "ok"
    BY FailedWorld, ProgressNone DEF Answer, Sound
  <2>3. QED
    BY <2>1, <2>2 DEF Found
<1>4. QED
  BY <1>1, <1>2, <1>3

-----------------------------------------------------------------------------
(***************************************************************************)
(* What holds of the world between two calls: every block that a file      *)
(* counts is there, and what is not marked is the same on the disk.        *)
(***************************************************************************)
Full(w) ==
  \A f \in File : \A index \in 0..(w.din[f].blocks - 1) :
    Kept(w.din, w.entry)[PlaceOfBlock(f, index)] # 0

(* The inode d has what is on the disk, and perhaps counts more blocks.    *)
OfDisk(d, f) ==
  /\ d.direct = disk[f].direct /\ d.indirect = disk[f].indirect
  /\ d.size = disk[f].size /\ disk[f].blocks <= d.blocks

Agrees(w) ==
  /\ \A f \in File : f \notin w.dirty => OfDisk(w.din[f], f)
  /\ w.super_dirty = FALSE => image.freemap = w.freemap /\ image.unused = w.unused

Right(w) ==
  /\ Sound(w)
  /\ Full(w)
  /\ Agrees(w)
  /\ disk \in Inodes

(* Blocks of files are in places, and in different ones.                   *)
LEMMA PlacesOfBlocks ==
  /\ \A f \in File, i \in 0..(NDIRECT + NENTRY - 1) : PlaceOfBlock(f, i) \in Place
  /\ \A f, g \in File, i, j \in Nat : PlaceOfBlock(f, i) = PlaceOfBlock(g, j) => f = g /\ i = j
<1>1. ASSUME NEW f \in File, NEW i \in 0..(NDIRECT + NENTRY - 1)
      PROVE  PlaceOfBlock(f, i) \in Place
  <2>1. CASE i \in Direct
    BY <2>1, KeptAtDirect DEF PlaceOfBlock
  <2>2. CASE i \notin Direct
    <3>1. i - NDIRECT \in Entry
      BY <2>2, SfsAssumption DEF Direct, Entry
    <3>2. QED
      BY <2>2, <3>1, KeptAtEntry DEF PlaceOfBlock
  <2>3. QED
    BY <2>1, <2>2
<1>2. ASSUME NEW f \in File, NEW g \in File, NEW i \in Nat, NEW j \in Nat,
             PlaceOfBlock(f, i) = PlaceOfBlock(g, j)
      PROVE  f = g /\ i = j
  BY <1>2, SfsAssumption DEF PlaceOfBlock
<1>3. QED
  BY <1>1, <1>2

(* Changes that leave sizes, and the blocks of other files, alone.         *)
OnlyBlocks(w, v, f) ==
  /\ \A g \in File : v.din[g].size = w.din[g].size
  /\ \A g \in File : g # f => v.din[g].blocks = w.din[g].blocks

(* A block is added to a file.                                             *)
LEMMA LoadRight ==
  ASSUME NEW w, Right(w), w.ret = "ok", NEW f \in File
  PROVE  LET v == sfs_bmap_load(w, f)
         IN  /\ Right(v)
             /\ OnlyBlocks(w, v, f)
             /\ v.din[f].blocks = w.din[f].blocks + (IF v.ret = "ok" THEN 1 ELSE 0)
<1> DEFINE index == w.din[f].blocks
           x == sfs_bmap_get(w, f, index)
           v == sfs_bmap_load(w, f)
<1>1. w.din \in Inodes /\ w.din[f] \in Inode /\ index \in Nat /\ index <= NDIRECT + NENTRY
  <2>1. w.din \in Inodes
    BY DEF Right, Sound, SfsWorld
  <2>2. w.din[f] \in Inode
    BY <2>1 DEF Inodes
  <2>3. index \in 0..(NDIRECT + NENTRY)
    BY <2>2 DEF Inode
  <2>4. QED
    BY <2>1, <2>2, <2>3, SfsAssumption
<1>2. v = Counted(w, x, f)
  BY DEF sfs_bmap_load
<1> HIDE DEF index, x, v
<1>3. Progress(w, x) /\ Found(x, f, index)
  BY <1>1, BlockFound DEF Right, x
<1>4. x \in SfsWorld /\ x.din \in Inodes /\ x.din[f] \in Inode /\ Sound(x)
  <2>1. x \in SfsWorld /\ Sound(x)
    BY <1>3 DEF Progress, Sound
  <2>2. x.din \in Inodes
    BY <2>1 DEF SfsWorld
  <2>3. QED
    BY <2>1, <2>2 DEF Inodes
<1>5. Full(x)
  <2> SUFFICES ASSUME NEW g \in File, NEW k \in 0..(x.din[g].blocks - 1)
               PROVE  Kept(x.din, x.entry)[PlaceOfBlock(g, k)] # 0
    BY DEF Full
  <2>1. k \in 0..(w.din[g].blocks - 1) /\ w.din[g] \in Inode
    BY <1>1, <1>3 DEF Progress, Inodes
  <2>2. w.din[g].blocks \in 0..(NDIRECT + NENTRY)
    BY <2>1 DEF Inode
  <2>3. PlaceOfBlock(g, k) \in Place
    <3>1. k \in 0..(NDIRECT + NENTRY - 1)
      BY <2>1, <2>2, SfsAssumption
    <3>2. QED
      BY <3>1, PlacesOfBlocks
  <2>4. Kept(w.din, w.entry)[PlaceOfBlock(g, k)] # 0
    BY <2>1 DEF Right, Full
  <2>5. QED
    BY <1>3, <2>3, <2>4 DEF Progress
<1>6. Agrees(x)
  <2>1. \A g \in File : g \notin x.dirty => OfDisk(x.din[g], g)
    <3> SUFFICES ASSUME NEW g \in File, g \notin x.dirty PROVE OfDisk(x.din[g], g)
      OBVIOUS
    <3>1. g \notin w.dirty /\ x.din[g].direct = w.din[g].direct
          /\ x.din[g].indirect = w.din[g].indirect
          /\ x.din[g].size = w.din[g].size /\ x.din[g].blocks = w.din[g].blocks
      BY <1>3 DEF Progress
    <3>2. OfDisk(w.din[g], g)
      BY <3>1 DEF Right, Agrees
    <3>3. QED
      BY <3>1, <3>2 DEF OfDisk
  <2>2. x.super_dirty = FALSE => image.freemap = x.freemap /\ image.unused = x.unused
    BY <1>3 DEF Progress, Right, Agrees
  <2>3. QED
    BY <2>1, <2>2 DEF Agrees
<1>7. CASE x.ret # "ok"
  <2>1. v = x
    BY <1>2, <1>7 DEF Counted
  <2>2. Right(v)
    BY <1>4, <1>5, <1>6, <2>1 DEF Right
  <2>3. OnlyBlocks(w, v, f) /\ v.din[f].blocks = w.din[f].blocks
    BY <1>3, <2>1 DEF Progress, OnlyBlocks
  <2>4. QED
    BY <1>1, <1>7, <2>1, <2>2, <2>3 DEF v, index
<1>8. CASE x.ret = "ok"
  <2> DEFINE r == [x.din[f] EXCEPT !.blocks = @ + 1]
             d == [x.din EXCEPT ![f] = r]
  <2>0. x.din[f].blocks = index /\ index < NDIRECT + NENTRY
    BY <1>3, <1>8 DEF Progress, Found, index
  <2>1. /\ r \in Inode /\ r.blocks = index + 1 /\ r.size = x.din[f].size
        /\ r.direct = x.din[f].direct /\ r.indirect = x.din[f].indirect
    <3>1. index + 1 \in 0..(NDIRECT + NENTRY)
      BY <1>1, <2>0, SfsAssumption
    <3>2. r = [x.din[f] EXCEPT !.blocks = index + 1]
      BY <2>0
    <3> HIDE DEF r
    <3>3. QED
      BY <1>4, <3>1, <3>2 DEF Inode
  <2>2. d \in Inodes /\ d[f] = r /\ \A g \in File : g # f => d[g] = x.din[g]
    BY <1>4, <2>1 DEF Inodes
  <2>3. v = [x EXCEPT !.din = d]
    BY <1>2, <1>8 DEF Counted
  <2> HIDE DEF r, d
  <2>4. /\ v \in SfsWorld /\ v.ret = x.ret /\ v.din = d /\ v.entry = x.entry
        /\ v.freemap = x.freemap /\ v.unused = x.unused /\ v.dirty = x.dirty
        /\ v.super_dirty = x.super_dirty
    BY <1>4, <2>2, <2>3, DinWorld
  <2>5. Kept(v.din, v.entry) = Kept(x.din, x.entry)
    <3>1. \A g \in File : d[g].direct = x.din[g].direct /\ d[g].indirect = x.din[g].indirect
      BY <2>1, <2>2
    <3>2. Kept(d, x.entry) = Kept(x.din, x.entry)
      BY <3>1, KeptSame
    <3>3. QED
      BY <2>4, <3>2
  <2>6. Sound(v)
    BY <1>4, <2>4, <2>5 DEF Sound
  <2>7. Full(v)
    <3> SUFFICES ASSUME NEW g \in File, NEW k \in 0..(d[g].blocks - 1)
                 PROVE  Kept(x.din, x.entry)[PlaceOfBlock(g, k)] # 0
      BY <2>4, <2>5 DEF Full
    <3>1. CASE k \in 0..(x.din[g].blocks - 1)
      BY <1>5, <3>1 DEF Full
    <3>2. CASE g = f /\ k = index
      BY <1>3, <1>8, <3>2 DEF Found
    <3>3. QED
      BY <1>1, <2>0, <2>1, <2>2, <3>1, <3>2
  <2>8. Agrees(v)
    <3>1. \A g \in File : g \notin v.dirty => OfDisk(v.din[g], g)
      <4> SUFFICES ASSUME NEW g \in File, g \notin x.dirty PROVE OfDisk(d[g], g)
        BY <2>4
      <4>1. OfDisk(x.din[g], g)
        BY <1>6 DEF Agrees
      <4>2. disk[g].blocks \in Nat
        <5>1. disk[g] \in Inode
          BY DEF Right, Inodes
        <5>2. disk[g].blocks \in 0..(NDIRECT + NENTRY)
          BY <5>1 DEF Inode
        <5>3. QED
          BY <5>2, SfsAssumption
      <4>3. QED
        BY <1>1, <2>0, <2>1, <2>2, <4>1, <4>2 DEF OfDisk
    <3>2. QED
      BY <1>6, <2>4, <3>1 DEF Agrees
  <2>9. Right(v)
    BY <2>6, <2>7, <2>8 DEF Right
  <2>10. OnlyBlocks(w, v, f)
    BY <1>3, <2>1, <2>2, <2>4 DEF Progress, OnlyBlocks
  <2>11. v.din[f].blocks = w.din[f].blocks + 1
    BY <2>1, <2>2, <2>4 DEF index
  <2>12. QED
    BY <1>8, <2>4, <2>9, <2>10, <2>11 DEF v
<1>9. QED
  BY <1>7, <1>8

(* The last block of a file is freed.                                      *)
LEMMA TruncRight ==
  ASSUME NEW w, Right(w), NEW f \in File, w.din[f].blocks > 0
  PROVE  LET v == sfs_bmap_truncate(w, f)
         IN  /\ Right(v) /\ v.ret = w.ret
             /\ OnlyBlocks(w, v, f)
             /\ v.din[f].blocks = w.din[f].blocks - 1
<1> DEFINE index == w.din[f].blocks - 1
           i == index - NDIRECT
           ent == w.din[f].indirect
           v == sfs_bmap_truncate(w, f)
           p == PlaceOfBlock(f, index)
           K == Kept(w.din, w.entry)
           b == K[p]
<1>1. w \in SfsWorld /\ w.din \in Inodes /\ w.entry \in Tables /\ w.din[f] \in Inode
  <2>1. w \in SfsWorld /\ w.din \in Inodes /\ w.entry \in Tables
    BY DEF Right, Sound, SfsWorld
  <2>2. QED
    BY <2>1 DEF Inodes
<1>2. index \in 0..(NDIRECT + NENTRY - 1) /\ w.din[f].blocks = index + 1 /\ index \in Nat
  <2>1. w.din[f].blocks \in 0..(NDIRECT + NENTRY)
    BY <1>1 DEF Inode
  <2>2. QED
    BY <2>1, SfsAssumption
<1>3. p \in Place /\ b # 0
  BY <1>2, PlacesOfBlocks DEF Right, Full
<1>4. /\ Exact(Put(K, p, 0), w.freemap \cup {b})
      /\ b \in Block /\ b \notin w.freemap
  BY <1>3, ExactGive DEF Right, Sound
<1>5. \E d \in Inodes, e \in Tables :
        /\ Kept(d, e) = Put(K, p, 0)
        /\ v = Dirtied([[[sfs_block_free(w, b) EXCEPT !.entry = e] EXCEPT !.din = d]
                        EXCEPT !.din[f].blocks = @ - 1], f)
        /\ \A g \in File : /\ g # f => d[g] = w.din[g]
                           /\ d[g].size = w.din[g].size /\ d[g].blocks = w.din[g].blocks
  <2> DEFINE y == sfs_block_free(w, b)
  <2>0. /\ y \in SfsWorld /\ y.din = w.din /\ y.entry = w.entry
    BY <1>1, <1>4, FreeWorld
  <2>1. CASE index \in Direct
    <3>1. p = <<f, "direct", index>>
      BY <2>1 DEF PlaceOfBlock
    <3>2. b = w.din[f].direct[index]
      <4>1. K[<<f, "direct", index>>] = Pointed(w.din, f, index)
        BY <2>1, KeptAtDirect
      <4>2. QED
        BY <3>1, <4>1 DEF Pointed
    <3> DEFINE r == [w.din[f] EXCEPT !.direct[index] = 0]
               d == [w.din EXCEPT ![f] = r]
    <3>3. /\ r \in Inode /\ r.direct = [w.din[f].direct EXCEPT ![index] = 0]
          /\ r.indirect = w.din[f].indirect /\ r.size = w.din[f].size
          /\ r.blocks = w.din[f].blocks
      <4>1. 0 \in BlockOrNone
        BY SfsAssumption DEF BlockOrNone
      <4>2. QED
        BY <1>1, <2>1, <4>1 DEF Inode
    <3>4. d \in Inodes /\ d[f] = r /\ \A g \in File : g # f => d[g] = w.din[g]
      BY <1>1, <3>3 DEF Inodes
    <3>5. v = Dirtied([[y EXCEPT !.din[f].direct[index] = 0] EXCEPT !.din[f].blocks = @ - 1], f)
      BY <1>3, <2>1, <3>2 DEF sfs_bmap_truncate
    <3>6. [y EXCEPT !.din[f].direct[index] = 0] = [[y EXCEPT !.entry = w.entry] EXCEPT !.din = d]
      <4> HIDE DEF y
      <4>1. [y EXCEPT !.entry = w.entry] = y
        BY <2>0 DEF SfsWorld
      <4>2. [y EXCEPT !.din[f].direct[index] = 0] = [y EXCEPT !.din = d]
        BY <2>0 DEF SfsWorld
      <4>3. QED
        BY <4>1, <4>2
    <3> HIDE DEF r, d, v, y, b, index
    <3>7. DirectSet(w.din, d, f, index, 0)
      BY <3>3, <3>4 DEF DirectSet
    <3>8. Kept(d, w.entry) = Put(K, p, 0)
      <4>1. Kept(d, w.entry) = Put(Kept(w.din, w.entry), <<f, "direct", index>>, 0)
        BY <1>1, <2>1, <3>4, <3>7, KeptDirect
      <4>2. QED
        BY <3>1, <4>1
    <3>9. \A g \in File : /\ g # f => d[g] = w.din[g]
                          /\ d[g].size = w.din[g].size /\ d[g].blocks = w.din[g].blocks
      BY <3>3, <3>4
    <3>10. v = Dirtied([[[y EXCEPT !.entry = w.entry] EXCEPT !.din = d]
                        EXCEPT !.din[f].blocks = @ - 1], f)
      BY <3>5, <3>6
    <3>11. QED
      BY <1>1, <3>4, <3>8, <3>9, <3>10 DEF y
  <2>2. CASE index \notin Direct
    <3>1. p = <<f, "entry", i>> /\ i \in Entry
      BY <1>2, <2>2, SfsAssumption DEF PlaceOfBlock, Direct, Entry
    <3>2. b = Listed(w.din, w.entry, f, i)
      BY <3>1, KeptAtEntry
    <3>3. ent # 0 /\ b = w.entry[ent][i]
      BY <1>3, <3>2 DEF Listed
    <3> DEFINE e == EntrySet(w.entry, ent, i, 0)
    <3>4. ent \in Block
      BY <1>1, <3>3, TableKept DEF Right, Sound
    <3>5. e \in Tables
      <4>1. 0 \in BlockOrNone
        BY SfsAssumption DEF BlockOrNone
      <4>2. QED
        BY <1>1, <3>1, <3>4, <4>1 DEF Tables, EntrySet
    <3>6. v = Dirtied([[y EXCEPT !.entry[ent][i] = 0] EXCEPT !.din[f].blocks = @ - 1], f)
      BY <1>3, <2>2, <3>3 DEF sfs_bmap_truncate
    <3>7. [y EXCEPT !.entry[ent][i] = 0] = [[y EXCEPT !.entry = e] EXCEPT !.din = w.din]
      <4> HIDE DEF y, ent, i
      <4>1. [y EXCEPT !.entry[ent][i] = 0] = [y EXCEPT !.entry = e]
        BY <2>0 DEF SfsWorld, EntrySet
      <4> HIDE DEF e
      <4>2. [[y EXCEPT !.entry = e] EXCEPT !.din = w.din] = [y EXCEPT !.entry = e]
        BY <2>0 DEF SfsWorld
      <4>3. QED
        BY <4>1, <4>2
    <3> HIDE DEF e, v, y, b, i, index
    <3>8. Kept(w.din, e) = Put(K, p, 0)
      <4>1. ent = w.din[f].indirect
        OBVIOUS
      <4> HIDE DEF ent
      <4>2. Exact(Kept(w.din, w.entry), w.freemap)
        BY DEF Right, Sound
      <4>3. Kept(w.din, EntrySet(w.entry, ent, i, 0)) = Put(Kept(w.din, w.entry), <<f, "entry", i>>, 0)
        BY <1>1, <3>1, <3>3, <4>1, <4>2, KeptEntry
      <4>4. QED
        BY <3>1, <4>3 DEF e
    <3>9. v = Dirtied([[[y EXCEPT !.entry = e] EXCEPT !.din = w.din]
                        EXCEPT !.din[f].blocks = @ - 1], f)
      BY <3>6, <3>7
    <3>10. QED
      BY <1>1, <3>5, <3>8, <3>9 DEF y
  <2>3. QED
    BY <2>1, <2>2
<1> HIDE DEF v, b, p, index
<1>6. PICK d0 \in Inodes, e0 \in Tables :
        /\ Kept(d0, e0) = Put(K, p, 0)
        /\ v = Dirtied([[[sfs_block_free(w, b) EXCEPT !.entry = e0] EXCEPT !.din = d0]
                        EXCEPT !.din[f].blocks = @ - 1], f)
        /\ \A g \in File : /\ g # f => d0[g] = w.din[g]
                           /\ d0[g].size = w.din[g].size /\ d0[g].blocks = w.din[g].blocks
  BY <1>5
<1> DEFINE y == sfs_block_free(w, b)
           y1 == [y EXCEPT !.entry = e0]
           y2 == [y1 EXCEPT !.din = d0]
           r == [d0[f] EXCEPT !.blocks = @ - 1]
           d == [d0 EXCEPT ![f] = r]
           y3 == [y2 EXCEPT !.din = d]
<1>7. /\ y \in SfsWorld /\ y.ret = w.ret /\ y.super_dirty = TRUE
      /\ y.freemap = w.freemap \cup {b} /\ y.unused = w.unused + 1
      /\ y.din = w.din /\ y.dirty = w.dirty /\ y.entry = w.entry
  BY <1>1, <1>4, FreeWorld
<1>8. /\ r \in Inode /\ r.blocks = index /\ r.size = d0[f].size
      /\ r.direct = d0[f].direct /\ r.indirect = d0[f].indirect
  <2>1. d0[f] \in Inode /\ d0[f].blocks = index + 1
    BY <1>2, <1>6 DEF Inodes
  <2>2. index \in 0..(NDIRECT + NENTRY)
    BY <1>2, SfsAssumption
  <2>3. r = [d0[f] EXCEPT !.blocks = index]
    BY <1>2, <2>1
  <2> HIDE DEF r
  <2>4. QED
    BY <2>1, <2>2, <2>3 DEF Inode
<1>9. d \in Inodes /\ d[f] = r /\ \A g \in File : g # f => d[g] = d0[g]
  BY <1>6, <1>8 DEF Inodes
<1> HIDE DEF y
<1>10. /\ y1 \in SfsWorld /\ y1.ret = w.ret /\ y1.super_dirty = TRUE
       /\ y1.freemap = y.freemap /\ y1.unused = y.unused
       /\ y1.din = w.din /\ y1.dirty = w.dirty /\ y1.entry = e0
  BY <1>6, <1>7, EntryWorld
<1> HIDE DEF y1
<1>11. /\ y2 \in SfsWorld /\ y2.ret = w.ret /\ y2.super_dirty = TRUE
       /\ y2.freemap = y.freemap /\ y2.unused = y.unused
       /\ y2.din = d0 /\ y2.dirty = w.dirty /\ y2.entry = e0
  BY <1>6, <1>10, DinWorld
<1>12. v = Dirtied(y3, f)
  <2>1. v = Dirtied([y2 EXCEPT !.din[f].blocks = @ - 1], f)
    BY <1>6 DEF y, y1, y2
  <2> HIDE DEF y2
  <2>2. [y2 EXCEPT !.din[f].blocks = @ - 1] = y3
    BY <1>11 DEF SfsWorld
  <2> HIDE DEF y3
  <2>3. QED
    BY <2>1, <2>2
<1> HIDE DEF y2, r, d
<1>13. /\ y3 \in SfsWorld /\ y3.ret = w.ret /\ y3.super_dirty = TRUE
       /\ y3.freemap = y.freemap /\ y3.unused = y.unused
       /\ y3.din = d /\ y3.dirty = w.dirty /\ y3.entry = e0
  BY <1>9, <1>11, DinWorld
<1> HIDE DEF y3
<1>14. /\ v \in SfsWorld /\ v.ret = w.ret /\ v.super_dirty = TRUE
       /\ v.freemap = w.freemap \cup {b} /\ v.unused = w.unused + 1
       /\ v.din = d /\ v.dirty = w.dirty \cup {f} /\ v.entry = e0
  BY <1>7, <1>12, <1>13, DirtiedWorld
<1>15. Kept(v.din, v.entry) = Put(K, p, 0)
  <2>1. \A g \in File : d[g].direct = d0[g].direct /\ d[g].indirect = d0[g].indirect
    BY <1>8, <1>9
  <2>2. Kept(d, e0) = Kept(d0, e0)
    BY <2>1, KeptSame
  <2>3. QED
    BY <1>6, <1>14, <2>2
<1>16. Sound(v)
  <2>1. w.freemap \in SUBSET Block
    BY <1>1 DEF SfsWorld
  <2>2. Cardinality(w.freemap \cup {b}) = Cardinality(w.freemap) + 1
    BY <1>4, <2>1, FreeCount
  <2>3. QED
    BY <1>4, <1>14, <1>15, <2>2 DEF Right, Sound
<1>17. \A g \in File : /\ v.din[g].size = w.din[g].size
                       /\ g # f => v.din[g] = w.din[g]
  BY <1>6, <1>8, <1>9, <1>14
<1>18. v.din[f].blocks = index
  BY <1>8, <1>9, <1>14
<1>19. Full(v)
  <2> SUFFICES ASSUME NEW g \in File, NEW k \in 0..(v.din[g].blocks - 1)
               PROVE  Kept(v.din, v.entry)[PlaceOfBlock(g, k)] # 0
    BY DEF Full
  <2>1. k \in 0..(w.din[g].blocks - 1) /\ k \in Nat /\ (g = f => k # index)
    <3>1. CASE g = f
      BY <1>2, <1>18, <3>1
    <3>2. CASE g # f
      BY <1>17, <3>2
    <3>3. QED
      BY <3>1, <3>2
  <2>2. K[PlaceOfBlock(g, k)] # 0
    BY <2>1 DEF Right, Full
  <2>3. PlaceOfBlock(g, k) # p
    BY <1>2, <2>1, PlacesOfBlocks DEF p
  <2>4. PlaceOfBlock(g, k) \in Place
    <3>1. w.din[g] \in Inode
      BY <1>1 DEF Inodes
    <3>2. w.din[g].blocks \in 0..(NDIRECT + NENTRY)
      BY <3>1 DEF Inode
    <3>3. k \in 0..(NDIRECT + NENTRY - 1)
      BY <2>1, <3>2, SfsAssumption
    <3>4. QED
      BY <3>3, PlacesOfBlocks
  <2>5. QED
    BY <1>15, <2>2, <2>3, <2>4 DEF Kept, Put
<1>20. Agrees(v)
  <2>1. \A g \in File : g \notin v.dirty => OfDisk(v.din[g], g)
    BY <1>14, <1>17 DEF Right, Agrees
  <2>2. QED
    BY <1>14, <2>1 DEF Agrees
<1>21. Right(v) /\ OnlyBlocks(w, v, f)
  BY <1>16, <1>17, <1>19, <1>20 DEF Right, OnlyBlocks
<1>22. QED
  BY <1>14, <1>18, <1>21 DEF v, index

-----------------------------------------------------------------------------
(***************************************************************************)
(* Blocks are added, or freed, one by one.                                 *)
(***************************************************************************)
Grown(w, f, n) ==
  FoldSet(LAMBDA k, v : IF v.ret = "ok" THEN sfs_bmap_load(v, f) ELSE v, w, 1..n)

Shrunk(w, f, n) == FoldSet(LAMBDA k, v : sfs_bmap_truncate(v, f), w, 1..n)

(* The worlds that can be reached from w by resizing f.                    *)
Around(w, f) == {v \in SfsWorld : Right(v) /\ OnlyBlocks(w, v, f)}

(* The worlds after some steps.                                            *)
GrownInTurn(c, w, f, n) ==
  /\ c \in [SUBSET (1..n) -> Around(w, f)]
  /\ c[{}] = w
  /\ \A T \in SUBSET (1..n) : T # {} =>
       \E k \in T : c[T] = IF c[T \ {k}].ret = "ok" THEN sfs_bmap_load(c[T \ {k}], f) ELSE c[T \ {k}]

ShrunkInTurn(c, w, f, n) ==
  /\ c \in [SUBSET (1..n) -> Around(w, f)]
  /\ c[{}] = w
  /\ \A T \in SUBSET (1..n) : T # {} =>
       \E k \in T : c[T] = sfs_bmap_truncate(c[T \ {k}], f)

(* A file has so many blocks.                                              *)
LEMMA AroundBlocks ==
  ASSUME NEW w, NEW f \in File, NEW v \in Around(w, f)
  PROVE  v.din[f].blocks \in 0..(NDIRECT + NENTRY) /\ v.din[f].blocks \in Int
<1>1. v.din \in Inodes
  BY DEF Around, SfsWorld
<1>2. v.din[f] \in Inode
  BY <1>1 DEF Inodes
<1>3. v.din[f].blocks \in 0..(NDIRECT + NENTRY)
  BY <1>2 DEF Inode
<1>4. QED
  BY <1>3

(* What OnlyBlocks allows may be done twice.                               *)
LEMMA AroundTwice ==
  ASSUME NEW w, NEW f, NEW v \in Around(w, f), NEW x, Right(x), OnlyBlocks(v, x, f)
  PROVE  x \in Around(w, f)
BY DEF Around, OnlyBlocks, Right, Sound

(* The blocks are added in some order.                                     *)
LEMMA GrownOneByOne ==
  ASSUME NEW w, Right(w), NEW f \in File, NEW n \in Int
  PROVE  \E c : c[1..n] = Grown(w, f, n) /\ GrownInTurn(c, w, f, n)
<1> DEFINE S == 1..n
           W == Around(w, f)
           pick == [T \in SUBSET S |-> CHOOSE k \in T : TRUE]
           step == [x \in S \X W |-> IF x[2].ret = "ok" THEN sfs_bmap_load(x[2], f) ELSE x[2]]
           c == CHOOSE iter : iter = [s \in SUBSET S |->
                  IF s = {} THEN w
                  ELSE LET x == CHOOSE x \in s : TRUE
                       IN  IF iter[s \ {x}].ret = "ok" THEN sfs_bmap_load(iter[s \ {x}], f)
                           ELSE iter[s \ {x}]]
<1>1. IsFiniteSet(S)
  <2>1. 1 \in Int
    OBVIOUS
  <2>2. QED
    BY <2>1, FS_Interval
<1>2. w \in W
  BY DEF Around, Right, Sound, OnlyBlocks
<1>3. \A k \in S, v \in W : step[<<k, v>>] \in W
  <2> SUFFICES ASSUME NEW k \in S, NEW v \in W
               PROVE  (IF v.ret = "ok" THEN sfs_bmap_load(v, f) ELSE v) \in W
    OBVIOUS
  <2>1. CASE v.ret = "ok"
    <3>1. Right(v)
      BY DEF Around
    <3>2. Right(sfs_bmap_load(v, f)) /\ OnlyBlocks(v, sfs_bmap_load(v, f), f)
      BY <2>1, <3>1, LoadRight
    <3>3. QED
      BY <2>1, <3>2, AroundTwice
  <2>2. CASE v.ret # "ok"
    BY <2>2
  <2>3. QED
    BY <2>1, <2>2
<1>4. \A T \in SUBSET S : T # {} => pick[T] \in T
  OBVIOUS
<1>5. PICK g \in [SUBSET S -> W] :
        \A T \in SUBSET S :
          g[T] = IF T = {} THEN w ELSE step[<<pick[T], g[T \ {pick[T]}]>>]
  <2> HIDE DEF pick, step, S, W
  <2>1. FoldSolutions(S, W, w, pick, step) # {}
    BY <1>1, <1>2, <1>3, <1>4, FoldExists
  <2>2. QED
    BY <2>1 DEF FoldSolutions
<1> DEFINE next(h, s) == LET x == CHOOSE x \in s : TRUE
                         IN  IF h[s \ {x}].ret = "ok" THEN sfs_bmap_load(h[s \ {x}], f)
                             ELSE h[s \ {x}]
           Rec(h) == h = [s \in SUBSET S |-> IF s = {} THEN w ELSE next(h, s)]
<1>6. Rec(g)
  <2>1. ASSUME NEW s \in SUBSET S, s # {} PROVE g[s] = next(g, s)
    <3> DEFINE x == CHOOSE x \in s : TRUE
    <3>0. x \in s
      BY <2>1
    <3>1. x \in S /\ x = pick[s] /\ s \ {x} \in SUBSET S
      <4>1. pick[s] = x
        OBVIOUS
      <4> HIDE DEF x, pick
      <4>2. QED
        BY <3>0, <4>1
    <3>2. g[s \ {x}] \in W
      BY <3>1
    <3>3. g[s] = step[<<x, g[s \ {x}]>>]
      BY <1>5, <2>1, <3>1
    <3> HIDE DEF W, S, pick, x
    <3>4. g[s] = IF g[s \ {x}].ret = "ok" THEN sfs_bmap_load(g[s \ {x}], f) ELSE g[s \ {x}]
      BY <3>1, <3>2, <3>3
    <3>5. QED
      BY <3>4 DEF x
  <2> HIDE DEF next, step, pick, W, S
  <2>2. g = [s \in SUBSET S |-> IF s = {} THEN w ELSE next(g, s)]
    BY <1>5, <2>1
  <2>3. QED
    BY <2>2
<1>7. c = CHOOSE h : Rec(h)
  OBVIOUS
<1>8. c[S] = Grown(w, f, n)
  BY DEF Grown, FoldSet, MapThenFoldSet
<1> HIDE DEF c, Rec
<1>9. Rec(c)
  BY <1>6, <1>7
<1>10. c = g
  <2> DEFINE P == {T \in SUBSET S : c[T] = g[T]}
  <2>1. \A T \in SUBSET S : c[T] = IF T = {} THEN w ELSE next(c, T)
    BY <1>9 DEF Rec
  <2>2. \A T \in SUBSET S : g[T] = IF T = {} THEN w ELSE next(g, T)
    BY <1>6 DEF Rec
  <2>3. ASSUME NEW T \in SUBSET S, \A x \in T : T \ {x} \in P PROVE T \in P
    <3>1. CASE T = {}
      BY <2>1, <2>2, <3>1
    <3>2. CASE T # {}
      <4> DEFINE x == CHOOSE x \in T : TRUE
      <4>1. c[T \ {x}] = g[T \ {x}]
        BY <2>3, <3>2
      <4>2. next(c, T) = next(g, T)
        BY <4>1
      <4> HIDE DEF next
      <4>3. QED
        BY <2>1, <2>2, <3>2, <4>2
    <3>3. QED
      BY <3>1, <3>2
  <2> HIDE DEF P, next
  <2>4. \A T \in SUBSET S : T \in P
    BY <1>1, <2>3, InductionOnSubsets
  <2>5. DOMAIN c = SUBSET S /\ c = [T \in SUBSET S |-> c[T]]
    BY <1>9 DEF Rec
  <2>6. QED
    BY <2>4, <2>5 DEF P
<1>11. c[{}] = w
  BY <1>9 DEF Rec
<1>12. ASSUME NEW T \in SUBSET S, T # {}
       PROVE  \E k \in T : c[T] = IF c[T \ {k}].ret = "ok" THEN sfs_bmap_load(c[T \ {k}], f)
                                  ELSE c[T \ {k}]
  <2> DEFINE x == CHOOSE x \in T : TRUE
  <2>1. x \in T
    BY <1>12
  <2>2. c[T] = next(c, T)
    BY <1>9, <1>12 DEF Rec
  <2>3. QED
    BY <2>1, <2>2
<1>13. c \in [SUBSET (1..n) -> Around(w, f)]
  BY <1>10
<1>14. QED
  BY <1>8, <1>11, <1>12, <1>13 DEF GrownInTurn

(* The blocks are freed in some order; there are as many.                 *)
LEMMA ShrunkOneByOne ==
  ASSUME NEW w, Right(w), NEW f \in File, NEW n \in Int,
         n <= w.din[f].blocks
  PROVE  \E c : c[1..n] = Shrunk(w, f, n) /\ ShrunkInTurn(c, w, f, n)
<1> DEFINE S == 1..n
           W == Around(w, f)
           pick == [T \in SUBSET S |-> CHOOSE k \in T : TRUE]
           step == [x \in S \X W |-> IF x[2].din[f].blocks > 0 THEN sfs_bmap_truncate(x[2], f) ELSE x[2]]
           c == CHOOSE iter : iter = [s \in SUBSET S |->
                  IF s = {} THEN w
                  ELSE LET x == CHOOSE x \in s : TRUE
                       IN  sfs_bmap_truncate(iter[s \ {x}], f)]
<1>1. IsFiniteSet(S)
  <2>1. 1 \in Int
    OBVIOUS
  <2>2. QED
    BY <2>1, FS_Interval
<1>2. w \in W
  BY DEF Around, Right, Sound, OnlyBlocks
<1>3. \A k \in S, v \in W : step[<<k, v>>] \in W
  <2> SUFFICES ASSUME NEW k \in S, NEW v \in W
               PROVE  (IF v.din[f].blocks > 0 THEN sfs_bmap_truncate(v, f) ELSE v) \in W
    OBVIOUS
  <2>1. CASE v.din[f].blocks > 0
    <3>1. Right(v)
      BY DEF Around
    <3>2. Right(sfs_bmap_truncate(v, f)) /\ OnlyBlocks(v, sfs_bmap_truncate(v, f), f)
      BY <2>1, <3>1, TruncRight
    <3>3. QED
      BY <2>1, <3>2, AroundTwice
  <2>2. CASE ~(v.din[f].blocks > 0)
    BY <2>2
  <2>3. QED
    BY <2>1, <2>2
<1>4. \A T \in SUBSET S : T # {} => pick[T] \in T
  OBVIOUS
<1>5. PICK g \in [SUBSET S -> W] :
        \A T \in SUBSET S :
          g[T] = IF T = {} THEN w ELSE step[<<pick[T], g[T \ {pick[T]}]>>]
  <2> HIDE DEF pick, step, S, W
  <2>1. FoldSolutions(S, W, w, pick, step) # {}
    BY <1>1, <1>2, <1>3, <1>4, FoldExists
  <2>2. QED
    BY <2>1 DEF FoldSolutions
<1>16. \A T \in SUBSET S : g[T].din[f].blocks = w.din[f].blocks - Cardinality(T)
  <2> DEFINE P == {T \in SUBSET S : g[T].din[f].blocks = w.din[f].blocks - Cardinality(T)}
  <2>0. w.din[f].blocks \in Int
    BY AroundBlocks, <1>2
  <2>1. ASSUME NEW T \in SUBSET S, \A x \in T : T \ {x} \in P PROVE T \in P
    <3>1. CASE T = {}
      <4>1. g[T] = w /\ Cardinality(T) = 0
        BY <1>5, <3>1, FS_EmptySet
      <4>2. QED
        BY <2>0, <4>1
    <3>2. CASE T # {}
      <4> DEFINE x == pick[T]
                 v == g[T \ {x}]
      <4>1. x \in T /\ T \ {x} \in SUBSET S /\ x \in S
        BY <1>4, <3>2
      <4>2. v.din[f].blocks = w.din[f].blocks - Cardinality(T \ {x}) /\ v \in W
        BY <2>1, <4>1
      <4>3. IsFiniteSet(T) /\ Cardinality(T) <= Cardinality(S)
        BY <1>1, FS_Subset
      <4>4. Cardinality(T \ {x}) = Cardinality(T) - 1 /\ Cardinality(T) \in Nat
        BY <4>1, <4>3, FS_RemoveElement, FS_CardinalityType
      <4>5. v.din[f].blocks > 0
        <5>1. S = {} \/ n >= 1
          OBVIOUS
        <5>2. n >= 1
          BY <4>1, <5>1
        <5>3. Cardinality(S) = n
          <6>1. 1 \in Int
            OBVIOUS
          <6>2. Cardinality(S) = IF 1 > n THEN 0 ELSE n - 1 + 1
            BY <6>1, FS_Interval
          <6>3. QED
            BY <5>2, <6>2
        <5>4. QED
          BY <2>0, <4>2, <4>3, <4>4, <5>3
      <4>6. g[T] = step[<<x, v>>]
        BY <1>5, <3>2
      <4> HIDE DEF x, v, W, S, pick
      <4>7. g[T] = sfs_bmap_truncate(v, f)
        BY <4>1, <4>2, <4>5, <4>6
      <4>8. Right(v)
        BY <4>2 DEF W, Around
      <4>9. g[T].din[f].blocks = v.din[f].blocks - 1
        BY <4>5, <4>7, <4>8, TruncRight
      <4>10. QED
        BY <2>0, <4>2, <4>4, <4>9
    <3>3. QED
      BY <3>1, <3>2
  <2> HIDE DEF P, step, pick, W, S
  <2>2. \A T \in SUBSET S : T \in P
    BY <1>1, <2>1, InductionOnSubsets
  <2>3. QED
    BY <2>2 DEF P
<1>17. \A T \in SUBSET S : \A x \in T : g[T \ {x}].din[f].blocks > 0
  <2> SUFFICES ASSUME NEW T \in SUBSET S, NEW x \in T PROVE g[T \ {x}].din[f].blocks > 0
    OBVIOUS
  <2>0. w.din[f].blocks \in Int
    BY AroundBlocks, <1>2
  <2>1. g[T \ {x}].din[f].blocks = w.din[f].blocks - Cardinality(T \ {x})
    BY <1>16
  <2>2. IsFiniteSet(T) /\ Cardinality(T) <= Cardinality(S)
    BY <1>1, FS_Subset
  <2>3. Cardinality(T \ {x}) = Cardinality(T) - 1 /\ Cardinality(T) \in Nat
    BY <2>2, FS_RemoveElement, FS_CardinalityType
  <2>4. n >= 1 /\ x \in 1..n
    OBVIOUS
  <2>5. Cardinality(S) = n
    <3>1. 1 \in Int
      OBVIOUS
    <3>2. Cardinality(S) = IF 1 > n THEN 0 ELSE n - 1 + 1
      BY <3>1, FS_Interval
    <3>3. QED
      BY <2>4, <3>2
  <2>6. QED
    BY <2>0, <2>1, <2>2, <2>3, <2>5
<1> DEFINE next(h, s) == LET x == CHOOSE x \in s : TRUE
                         IN  sfs_bmap_truncate(h[s \ {x}], f)
           Rec(h) == h = [s \in SUBSET S |-> IF s = {} THEN w ELSE next(h, s)]
<1>6. Rec(g)
  <2>1. ASSUME NEW s \in SUBSET S, s # {} PROVE g[s] = next(g, s)
    <3> DEFINE x == CHOOSE x \in s : TRUE
    <3>0. x \in s
      BY <2>1
    <3>1. x \in S /\ x = pick[s] /\ s \ {x} \in SUBSET S
      <4>1. pick[s] = x
        OBVIOUS
      <4> HIDE DEF x, pick
      <4>2. QED
        BY <3>0, <4>1
    <3>2. g[s \ {x}] \in W
      BY <3>1
    <3>3. g[s] = step[<<x, g[s \ {x}]>>]
      BY <1>5, <2>1, <3>1
    <3> HIDE DEF W, S, pick, x
    <3>4. g[s] = IF g[s \ {x}].din[f].blocks > 0 THEN sfs_bmap_truncate(g[s \ {x}], f)
                 ELSE g[s \ {x}]
      BY <3>1, <3>2, <3>3
    <3>6. g[s \ {x}].din[f].blocks > 0
      BY <1>17, <3>0
    <3>5. QED
      BY <3>4, <3>6 DEF x
  <2> HIDE DEF next, step, pick, W, S
  <2>2. g = [s \in SUBSET S |-> IF s = {} THEN w ELSE next(g, s)]
    BY <1>5, <2>1
  <2>3. QED
    BY <2>2
<1>7. c = CHOOSE h : Rec(h)
  OBVIOUS
<1>8. c[S] = Shrunk(w, f, n)
  BY DEF Shrunk, FoldSet, MapThenFoldSet
<1> HIDE DEF c, Rec
<1>9. Rec(c)
  BY <1>6, <1>7
<1>10. c = g
  <2> DEFINE P == {T \in SUBSET S : c[T] = g[T]}
  <2>1. \A T \in SUBSET S : c[T] = IF T = {} THEN w ELSE next(c, T)
    BY <1>9 DEF Rec
  <2>2. \A T \in SUBSET S : g[T] = IF T = {} THEN w ELSE next(g, T)
    BY <1>6 DEF Rec
  <2>3. ASSUME NEW T \in SUBSET S, \A x \in T : T \ {x} \in P PROVE T \in P
    <3>1. CASE T = {}
      BY <2>1, <2>2, <3>1
    <3>2. CASE T # {}
      <4> DEFINE x == CHOOSE x \in T : TRUE
      <4>1. c[T \ {x}] = g[T \ {x}]
        BY <2>3, <3>2
      <4>2. next(c, T) = next(g, T)
        BY <4>1
      <4> HIDE DEF next
      <4>3. QED
        BY <2>1, <2>2, <3>2, <4>2
    <3>3. QED
      BY <3>1, <3>2
  <2> HIDE DEF P, next
  <2>4. \A T \in SUBSET S : T \in P
    BY <1>1, <2>3, InductionOnSubsets
  <2>5. DOMAIN c = SUBSET S /\ c = [T \in SUBSET S |-> c[T]]
    BY <1>9 DEF Rec
  <2>6. QED
    BY <2>4, <2>5 DEF P
<1>11. c[{}] = w
  BY <1>9 DEF Rec
<1>12. ASSUME NEW T \in SUBSET S, T # {}
       PROVE  \E k \in T : c[T] = sfs_bmap_truncate(c[T \ {k}], f)
  <2> DEFINE x == CHOOSE x \in T : TRUE
  <2>1. x \in T
    BY <1>12
  <2>2. c[T] = next(c, T)
    BY <1>9, <1>12 DEF Rec
  <2>3. QED
    BY <2>1, <2>2
<1>13. c \in [SUBSET (1..n) -> Around(w, f)]
  BY <1>10
<1>14. QED
  BY <1>8, <1>11, <1>12, <1>13 DEF ShrunkInTurn

(* Growing: the count of blocks goes up with each block until one fails.   *)
LEMMA GrownRight ==
  ASSUME NEW w, Right(w), w.ret = "ok", NEW f \in File, NEW n \in Int
  PROVE  LET v == Grown(w, f, n)
         IN  /\ v \in Around(w, f)
             /\ v.din[f].blocks >= w.din[f].blocks
             /\ v.ret = "ok" => v.din[f].blocks = w.din[f].blocks + Cardinality(1..n)
             /\ n <= 0 => v = w
<1> DEFINE S == 1..n
           blocks == w.din[f].blocks
<1>1. PICK c : c[S] = Grown(w, f, n) /\ GrownInTurn(c, w, f, n)
  BY GrownOneByOne
<1>2. IsFiniteSet(S)
  <2>1. 1 \in Int
    OBVIOUS
  <2>2. QED
    BY <2>1, FS_Interval
<1>3. \A T \in SUBSET S : c[T] \in Around(w, f) /\ c[T].din[f].blocks \in Int
  BY <1>1, AroundBlocks DEF GrownInTurn
<1>4. c[{}] = w /\ {} \in SUBSET S
  BY <1>1 DEF GrownInTurn
<1>5. blocks \in Int
  BY <1>3, <1>4
<1> DEFINE P == {T \in SUBSET S :
                   /\ c[T].din[f].blocks >= blocks
                   /\ c[T].ret = "ok" => c[T].din[f].blocks = blocks + Cardinality(T)}
<1>6. ASSUME NEW T \in SUBSET S, \A x \in T : T \ {x} \in P PROVE T \in P
  <2>1. CASE T = {}
    <3>1. Cardinality(T) = 0
      BY <2>1, FS_EmptySet
    <3>2. QED
      BY <1>4, <1>5, <2>1, <3>1
  <2>2. CASE T # {}
    <3>1. PICK k \in T : c[T] = IF c[T \ {k}].ret = "ok" THEN sfs_bmap_load(c[T \ {k}], f)
                                ELSE c[T \ {k}]
      BY <1>1, <2>2 DEF GrownInTurn
    <3> DEFINE v == c[T \ {k}]
    <3>2. /\ v.din[f].blocks >= blocks /\ T \ {k} \in SUBSET S
          /\ v.ret = "ok" => v.din[f].blocks = blocks + Cardinality(T \ {k})
      BY <1>6
    <3>3. Right(v) /\ v.din[f].blocks \in Int
      BY <1>3, <3>2 DEF Around
    <3>4. Cardinality(T \ {k}) = Cardinality(T) - 1 /\ Cardinality(T) \in Nat
      <4>1. IsFiniteSet(T)
        BY <1>2, FS_Subset
      <4>2. QED
        BY <4>1, FS_RemoveElement, FS_CardinalityType
    <3>5. c[T] = IF v.ret = "ok" THEN sfs_bmap_load(v, f) ELSE v
      BY <3>1
    <3>6. CASE v.ret = "ok"
      <4>1. c[T].din[f].blocks = v.din[f].blocks + (IF c[T].ret = "ok" THEN 1 ELSE 0)
        <5> HIDE DEF v
        <5>1. c[T] = sfs_bmap_load(v, f)
          BY <3>5, <3>6
        <5>2. QED
          BY <3>3, <3>6, <5>1, LoadRight
      <4>2. QED
        BY <1>5, <3>2, <3>3, <3>4, <3>6, <4>1
    <3>7. CASE v.ret # "ok"
      BY <3>2, <3>5, <3>7
    <3>8. QED
      BY <3>6, <3>7
  <2>3. QED
    BY <2>1, <2>2
<1> HIDE DEF P
<1>7. \A T \in SUBSET S : T \in P
  BY <1>2, <1>6, InductionOnSubsets
<1>8. n <= 0 => S = {}
  OBVIOUS
<1>9. S \in P /\ S \in SUBSET S
  BY <1>7
<1> HIDE DEF S
<1>10. QED
  BY <1>1, <1>3, <1>4, <1>8, <1>9 DEF P, S

(* Shrinking: each block freed is one less.                                *)
LEMMA ShrunkRight ==
  ASSUME NEW w, Right(w), NEW f \in File, NEW n \in Int, n <= w.din[f].blocks
  PROVE  LET v == Shrunk(w, f, n)
         IN  /\ v \in Around(w, f) /\ v.ret = w.ret
             /\ v.din[f].blocks = w.din[f].blocks - Cardinality(1..n)
             /\ n <= 0 => v = w
<1> DEFINE S == 1..n
           blocks == w.din[f].blocks
<1>1. PICK c : c[S] = Shrunk(w, f, n) /\ ShrunkInTurn(c, w, f, n)
  BY ShrunkOneByOne
<1>2. IsFiniteSet(S)
  <2>1. 1 \in Int
    OBVIOUS
  <2>2. QED
    BY <2>1, FS_Interval
<1>3. \A T \in SUBSET S : c[T] \in Around(w, f) /\ c[T].din[f].blocks \in Int
  BY <1>1, AroundBlocks DEF ShrunkInTurn
<1>4. c[{}] = w /\ {} \in SUBSET S
  BY <1>1 DEF ShrunkInTurn
<1>5. blocks \in Int
  BY <1>3, <1>4
<1>6. n >= 1 => Cardinality(S) = n
  <2>1. 1 \in Int
    OBVIOUS
  <2>2. Cardinality(S) = IF 1 > n THEN 0 ELSE n - 1 + 1
    BY <2>1, FS_Interval
  <2>3. QED
    BY <2>2
<1> DEFINE P == {T \in SUBSET S :
                   /\ c[T].ret = w.ret
                   /\ c[T].din[f].blocks = blocks - Cardinality(T)}
<1>7. ASSUME NEW T \in SUBSET S, \A x \in T : T \ {x} \in P PROVE T \in P
  <2>1. CASE T = {}
    <3>1. Cardinality(T) = 0
      BY <2>1, FS_EmptySet
    <3>2. QED
      BY <1>4, <1>5, <2>1, <3>1
  <2>2. CASE T # {}
    <3>1. PICK k \in T : c[T] = sfs_bmap_truncate(c[T \ {k}], f)
      BY <1>1, <2>2 DEF ShrunkInTurn
    <3> DEFINE v == c[T \ {k}]
    <3>2. /\ v.ret = w.ret /\ T \ {k} \in SUBSET S
          /\ v.din[f].blocks = blocks - Cardinality(T \ {k})
      BY <1>7
    <3>3. Right(v) /\ v.din[f].blocks \in Int
      BY <1>3, <3>2 DEF Around
    <3>4. /\ Cardinality(T \ {k}) = Cardinality(T) - 1 /\ Cardinality(T) \in Nat
          /\ Cardinality(T) <= Cardinality(S)
      <4>1. IsFiniteSet(T) /\ Cardinality(T) <= Cardinality(S)
        BY <1>2, FS_Subset
      <4>2. QED
        BY <4>1, FS_RemoveElement, FS_CardinalityType
    <3>5. v.din[f].blocks > 0
      <4>1. k \in S /\ n >= 1
        OBVIOUS
      <4>2. QED
        BY <1>5, <1>6, <3>2, <3>4, <4>1
    <3>6. c[T].ret = v.ret /\ c[T].din[f].blocks = v.din[f].blocks - 1
      <4>1. c[T] = sfs_bmap_truncate(v, f)
        BY <3>1
      <4> HIDE DEF v
      <4>2. QED
        BY <3>3, <3>5, <4>1, TruncRight
    <3>7. QED
      BY <1>5, <3>2, <3>4, <3>6
  <2>3. QED
    BY <2>1, <2>2
<1> HIDE DEF P
<1>8. \A T \in SUBSET S : T \in P
  BY <1>2, <1>7, InductionOnSubsets
<1>9. n <= 0 => S = {}
  OBVIOUS
<1>10. S \in P /\ S \in SUBSET S
  BY <1>8
<1> HIDE DEF S
<1>11. QED
  BY <1>1, <1>3, <1>4, <1>9, <1>10 DEF P, S

-----------------------------------------------------------------------------
(***************************************************************************)
(* The inductive invariant.                                                *)
(***************************************************************************)
SfsInv ==
  /\ Right(Now)
  /\ image \in [freemap : SUBSET Block, unused : 0..NBLOCK]
  /\ \A f \in File : /\ Blocks(din[f].size) <= din[f].blocks
                     /\ Blocks(disk[f].size) <= disk[f].blocks
  /\ halted \in {"no", "assert", "range"}

(* Lengths have so many blocks.                                            *)
LEMMA BlocksOfLength == Blocks(0) = 0 /\ \A len \in Nat : Blocks(len) \in Nat
<1>1. BLKSIZE \in Nat \ {0}
  BY SfsAssumption
<1>2. ASSUME NEW len \in Nat PROVE (len + BLKSIZE - 1) \div BLKSIZE \in Nat
  BY <1>1
<1>3. (0 + BLKSIZE - 1) \div BLKSIZE = 0
  BY <1>1
<1>4. QED
  BY <1>2, <1>3 DEF Blocks

(* The record of the variables.                                            *)
LEMMA NowFields ==
  /\ Now.freemap = freemap /\ Now.unused = unused /\ Now.din = din /\ Now.entry = entry
  /\ Now.dirty = dirty /\ Now.super_dirty = super_dirty /\ Now.ret = "ok"
BY DEF Now

(* The variables have their types.                                         *)
LEMMA SfsTypes ==
  ASSUME SfsInv
  PROVE  SfsTypeOK /\ din \in Inodes /\ entry \in Tables /\ disk \in Inodes
<1>1. Now \in SfsWorld /\ unused = Cardinality(freemap) /\ disk \in Inodes
  BY NowFields DEF SfsInv, Right, Sound
<1>2. freemap \in SUBSET Block /\ din \in Inodes /\ entry \in Tables /\ dirty \in SUBSET File
      /\ super_dirty \in BOOLEAN
  BY <1>1, NowFields DEF SfsWorld
<1>3. unused \in 0..NBLOCK
  <2>1. CASE \E b \in Block : TRUE
    BY <1>1, <1>2, <2>1, FreeCount
  <2>2. CASE ~\E b \in Block : TRUE
    <3>1. freemap = {}
      BY <1>2, <2>2
    <3>2. QED
      BY <1>1, <3>1, FS_EmptySet, SfsAssumption
  <2>3. QED
    BY <2>1, <2>2
<1>4. QED
  BY <1>1, <1>2, <1>3 DEF SfsTypeOK, SfsInv, Inodes, Tables

(* The variables take over what the calls worked on.                       *)
LEMMA RightNow ==
  ASSUME NEW w, Right(w), freemap' = w.freemap, unused' = w.unused, din' = w.din,
         entry' = w.entry, dirty' = w.dirty, super_dirty' = w.super_dirty,
         UNCHANGED <<disk, image>>
  PROVE  Right(Now)'
<1>1. /\ Now'.freemap = w.freemap /\ Now'.unused = w.unused /\ Now'.din = w.din
      /\ Now'.entry = w.entry /\ Now'.dirty = w.dirty /\ Now'.super_dirty = w.super_dirty
  BY DEF Now
<1>2. Now' \in SfsWorld
  <2>1. w \in SfsWorld /\ 0 \in BlockOrNone
    BY SfsAssumption DEF Right, Sound, BlockOrNone
  <2>2. QED
    BY <2>1 DEF Now, SfsWorld, Answer
<1>3. Sound(Now)'
  BY <1>1, <1>2 DEF Right, Sound
<1>4. Full(Now)'
  BY <1>1 DEF Right, Full
<1>5. Agrees(Now)'
  BY <1>1 DEF Right, Agrees, OfDisk
<1>6. QED
  BY <1>3, <1>4, <1>5 DEF Right

(* A length is set, and the blocks for it are there if all went well.      *)
LEMMA ResizedRight ==
  ASSUME SfsInv, NEW f \in File, NEW len \in 0..MAXLEN
  PROVE  LET w == Resized(f, len)
         IN  /\ Right(w)
             /\ \A g \in File : Blocks(w.din[g].size) <= w.din[g].blocks
<1> DEFINE more == Blocks(len) - din[f].blocks
           grown == Grown(Now, f, more)
           x == Shrunk(grown, f, -more)
           w == Resized(f, len)
<1>1. len \in Nat /\ Blocks(len) \in Nat
  <2>1. len \in Nat
    BY SfsAssumption
  <2>2. QED
    BY <2>1, BlocksOfLength
<1>2. /\ Right(Now) /\ Now.ret = "ok" /\ Now.din = din /\ Now \in Around(Now, f)
      /\ din[f].blocks \in 0..(NDIRECT + NENTRY) /\ din[f].blocks \in Int
  <2>1. Right(Now) /\ Now.ret = "ok" /\ Now.din = din
    BY NowFields DEF SfsInv
  <2>2. Now \in Around(Now, f)
    BY <2>1 DEF Around, OnlyBlocks, Right, Sound
  <2>3. QED
    BY <2>1, <2>2, AroundBlocks
<1>3. more \in Int /\ -more \in Int
  BY <1>1, <1>2
<1>4. w = IF x.ret = "ok" THEN Dirtied([x EXCEPT !.din[f].size = len], f) ELSE x
  BY DEF Resized, Grown, Shrunk
<1> HIDE DEF w, x, grown
<1>5. /\ grown \in Around(Now, f) /\ Right(grown) /\ grown.din[f].blocks >= din[f].blocks
      /\ grown.ret = "ok" => grown.din[f].blocks = din[f].blocks + Cardinality(1..more)
      /\ more <= 0 => grown = Now
  <2>1. Right(Now) /\ Now.ret = "ok" /\ more \in Int /\ Now.din = din
    BY <1>2, <1>3
  <2> HIDE DEF more
  <2>2. QED
    BY <2>1, GrownRight DEF Around, grown
<1>6. -more <= grown.din[f].blocks /\ grown.din[f].blocks \in Int
  <2>1. grown.din[f].blocks \in Int
    BY <1>5, AroundBlocks
  <2>2. QED
    BY <1>1, <1>2, <1>5, <2>1
<1>7. /\ x \in Around(grown, f) /\ Right(x) /\ x.ret = grown.ret
      /\ x.din[f].blocks = grown.din[f].blocks - Cardinality(1..(-more))
      /\ -more <= 0 => x = grown
  <2>1. Right(grown) /\ -more \in Int /\ -more <= grown.din[f].blocks
    BY <1>3, <1>5, <1>6
  <2> HIDE DEF more
  <2>2. QED
    BY <2>1, ShrunkRight DEF Around, x
<1>8. x \in Around(Now, f)
  BY <1>5, <1>7, AroundTwice DEF Around
<1>9. /\ \A g \in File : x.din[g].size = din[g].size
      /\ \A g \in File : g # f => x.din[g].blocks = din[g].blocks
      /\ x \in SfsWorld
  BY <1>2, <1>8 DEF Around, OnlyBlocks
<1>10. \A g \in File : /\ Blocks(din[g].size) <= din[g].blocks
                       /\ Blocks(din[g].size) \in Nat
  <2> SUFFICES ASSUME NEW g \in File
               PROVE Blocks(din[g].size) <= din[g].blocks /\ Blocks(din[g].size) \in Nat
    OBVIOUS
  <2>1. din[g] \in Inode
    BY SfsTypes DEF Inodes
  <2>2. din[g].size \in Nat
    BY <2>1, SfsAssumption DEF Inode
  <2>3. QED
    BY <2>2, BlocksOfLength DEF SfsInv
<1>11. CASE x.ret # "ok"
  <2>1. w = x
    BY <1>4, <1>11
  <2>2. more > 0
    <3>1. CASE more <= 0
      BY <1>2, <1>5, <1>7, <1>11, <3>1
    <3>2. QED
      BY <1>3, <3>1
  <2>3. x = grown
    BY <1>3, <1>7, <2>2
  <2>4. \A g \in File : Blocks(w.din[g].size) <= w.din[g].blocks
    <3> SUFFICES ASSUME NEW g \in File PROVE Blocks(x.din[g].size) <= x.din[g].blocks
      BY <2>1
    <3>1. CASE g = f
      BY <1>2, <1>5, <1>6, <1>9, <1>10, <2>3, <3>1
    <3>2. CASE g # f
      BY <1>9, <1>10, <3>2
    <3>3. QED
      BY <3>1, <3>2
  <2>5. QED
    BY <1>7, <2>1, <2>4 DEF w
<1>12. CASE x.ret = "ok"
  <2>1. x.din[f].blocks = Blocks(len)
    <3>1. \A m \in Int : Cardinality(1..m) = IF m <= 0 THEN 0 ELSE m
      <4> SUFFICES ASSUME NEW m \in Int PROVE Cardinality(1..m) = IF m <= 0 THEN 0 ELSE m
        OBVIOUS
      <4>1. 1 \in Int
        OBVIOUS
      <4>2. Cardinality(1..m) = IF 1 > m THEN 0 ELSE m - 1 + 1
        BY <4>1, FS_Interval
      <4>3. QED
        BY <4>2
    <3>2. Cardinality(1..more) = IF more <= 0 THEN 0 ELSE more
      BY <1>3, <3>1
    <3>3. Cardinality(1..(-more)) = IF -more <= 0 THEN 0 ELSE -more
      BY <1>3, <3>1
    <3>4. grown.din[f].blocks = din[f].blocks + Cardinality(1..more)
      BY <1>5, <1>7, <1>12
    <3>5. CASE more <= 0
      <4>1. grown.din[f].blocks = din[f].blocks
        BY <1>2, <3>2, <3>4, <3>5
      <4>2. Cardinality(1..(-more)) = -more
        BY <1>3, <3>3, <3>5
      <4>3. QED
        BY <1>1, <1>2, <1>7, <4>1, <4>2
    <3>6. CASE more > 0
      <4>1. grown.din[f].blocks = din[f].blocks + more /\ x = grown
        BY <1>3, <1>7, <3>2, <3>4, <3>6
      <4>2. QED
        BY <1>1, <1>2, <4>1
    <3>7. QED
      BY <1>3, <3>5, <3>6
  <2> HIDE DEF more
  <2> DEFINE r == [x.din[f] EXCEPT !.size = len]
             d == [x.din EXCEPT ![f] = r]
             y == [x EXCEPT !.din = d]
  <2>2. x.din \in Inodes /\ x.din[f] \in Inode
    <3>1. x.din \in Inodes
      BY <1>9 DEF SfsWorld
    <3>2. QED
      BY <3>1 DEF Inodes
  <2>3. /\ r \in Inode /\ r.size = len /\ r.blocks = x.din[f].blocks
        /\ r.direct = x.din[f].direct /\ r.indirect = x.din[f].indirect
    BY <2>2 DEF Inode
  <2>4. d \in Inodes /\ d[f] = r /\ \A g \in File : g # f => d[g] = x.din[g]
    BY <2>2, <2>3 DEF Inodes
  <2>5. w = Dirtied(y, f)
    <3>1. w = Dirtied([x EXCEPT !.din[f].size = len], f)
      BY <1>4, <1>12
    <3>2. [x EXCEPT !.din[f].size = len] = y
      BY <1>9 DEF SfsWorld
    <3> HIDE DEF y
    <3>3. QED
      BY <3>1, <3>2
  <2> HIDE DEF r, d
  <2>6. /\ y \in SfsWorld /\ y.din = d /\ y.entry = x.entry
        /\ y.freemap = x.freemap /\ y.unused = x.unused /\ y.dirty = x.dirty
        /\ y.super_dirty = x.super_dirty
    BY <1>9, <2>4, DinWorld
  <2> HIDE DEF y
  <2>7. /\ w \in SfsWorld /\ w.din = d /\ w.entry = x.entry
        /\ w.freemap = x.freemap /\ w.unused = x.unused /\ w.dirty = x.dirty \cup {f}
        /\ w.super_dirty = x.super_dirty
    BY <2>5, <2>6, DirtiedWorld
  <2>8. Kept(w.din, w.entry) = Kept(x.din, x.entry)
    <3>1. \A g \in File : d[g].direct = x.din[g].direct /\ d[g].indirect = x.din[g].indirect
      BY <2>3, <2>4
    <3>2. Kept(d, x.entry) = Kept(x.din, x.entry)
      BY <3>1, KeptSame
    <3>3. QED
      BY <2>7, <3>2
  <2>9. Sound(w)
    BY <1>7, <2>7, <2>8 DEF Right, Sound
  <2>10. Full(w)
    <3>1. \A g \in File : d[g].blocks = x.din[g].blocks
      BY <2>3, <2>4
    <3>2. QED
      BY <1>7, <2>7, <2>8, <3>1 DEF Right, Full
  <2>11. Agrees(w)
    <3>1. \A g \in File : g \notin w.dirty => OfDisk(w.din[g], g)
      BY <1>7, <2>4, <2>7 DEF Right, Agrees
    <3>2. w.super_dirty = FALSE => image.freemap = w.freemap /\ image.unused = w.unused
      BY <1>7, <2>7 DEF Right, Agrees
    <3>3. QED
      BY <3>1, <3>2 DEF Agrees
  <2>12. Right(w)
    BY <1>7, <2>9, <2>10, <2>11 DEF Right
  <2>13. \A g \in File : Blocks(w.din[g].size) <= w.din[g].blocks
    <3> SUFFICES ASSUME NEW g \in File PROVE Blocks(w.din[g].size) <= w.din[g].blocks
      OBVIOUS
    <3>1. CASE g = f
      <4>1. w.din[g].size = len /\ w.din[g].blocks = Blocks(len)
        BY <2>1, <2>3, <2>4, <2>7, <3>1
      <4>2. QED
        BY <1>1, <4>1
    <3>2. CASE g # f
      BY <1>9, <1>10, <2>4, <2>7, <3>2
    <3>3. QED
      BY <3>1, <3>2
  <2>14. QED
    BY <2>12, <2>13 DEF w
<1>13. QED
  BY <1>11, <1>12

(* A disk with empty files.                                                *)
LEMMA SfsInvInit == SfsInit => SfsInv
<1> SUFFICES ASSUME SfsInit PROVE SfsInv
  OBVIOUS
<1>1. EmptyFile \in Inode /\ EmptyTable \in [Entry -> BlockOrNone] /\ 0 \in BlockOrNone
  BY SfsAssumption DEF EmptyFile, Inode, EmptyTable, BlockOrNone
<1>2. /\ din \in Inodes /\ disk \in Inodes /\ entry \in Tables
      /\ \A f \in File : din[f] = EmptyFile /\ disk[f] = EmptyFile
      /\ freemap = Block /\ unused = NBLOCK /\ dirty = {} /\ super_dirty = FALSE
      /\ image.freemap = Block /\ image.unused = NBLOCK
      /\ \A b \in Block : entry[b] = EmptyTable
  BY <1>1 DEF SfsInit, Inodes, Tables, EmptyTable
<1>3. Cardinality(Block) = NBLOCK /\ NBLOCK \in 0..NBLOCK
  <2>1. 1 \in Int /\ NBLOCK \in Int /\ NBLOCK \in Nat
    BY SfsAssumption
  <2>2. Cardinality(Block) = IF 1 > NBLOCK THEN 0 ELSE NBLOCK - 1 + 1
    BY <2>1, FS_Interval DEF Block
  <2>3. QED
    BY <2>1, <2>2
<1>4. \A p \in Place : Kept(din, entry)[p] = 0
  <2> SUFFICES ASSUME NEW p \in Place PROVE Kept(din, entry)[p] = 0
    OBVIOUS
  <2>1. PICK f \in File : \/ \E i \in Direct : p = <<f, "direct", i>>
                          \/ p = <<f, "indirect", 0>>
                          \/ \E i \in Entry : p = <<f, "entry", i>>
    BY PlaceForms
  <2>2. CASE \E i \in Direct : p = <<f, "direct", i>>
    <3>1. PICK i \in Direct : p = <<f, "direct", i>>
      BY <2>2
    <3>2. Kept(din, entry)[p] = Pointed(din, f, i)
      BY <3>1, KeptAtDirect
    <3>3. QED
      BY <1>2, <3>2 DEF Pointed, EmptyFile
  <2>3. CASE p = <<f, "indirect", 0>>
    BY <1>2, <2>3, KeptAtIndirect DEF EmptyFile
  <2>4. CASE \E i \in Entry : p = <<f, "entry", i>>
    <3>1. PICK i \in Entry : p = <<f, "entry", i>>
      BY <2>4
    <3>2. Kept(din, entry)[p] = Listed(din, entry, f, i)
      BY <3>1, KeptAtEntry
    <3>3. QED
      BY <1>2, <3>2 DEF Listed, EmptyFile
  <2>5. QED
    BY <2>1, <2>2, <2>3, <2>4
<1>5. Exact(Kept(din, entry), Block)
  <2>1. Kept(din, entry) \in [Place -> BlockOrNone]
    BY <1>1, <1>4 DEF Kept
  <2>2. 0 \notin Block
    BY SfsAssumption DEF Block
  <2>3. QED
    BY <1>4, <2>1, <2>2 DEF Exact
<1>6. Sound(Now)
  <2>1. Now \in SfsWorld
    <3>1. freemap \in SUBSET Block /\ unused \in Int /\ dirty \in SUBSET File
          /\ super_dirty \in BOOLEAN
      <4>1. super_dirty = FALSE /\ dirty = {}
        BY <1>2
      <4>2. freemap = Block /\ unused \in Int
        BY <1>2, SfsAssumption
      <4>3. QED
        BY <4>1, <4>2
    <3>2. QED
      BY <1>1, <1>2, <3>1 DEF Now, SfsWorld, Answer
  <2>2. QED
    BY <1>2, <1>3, <1>5, <2>1, NowFields DEF Sound
<1>7. Full(Now)
  BY <1>2, NowFields DEF Full, EmptyFile
<1>8. Agrees(Now)
  <2>1. \A f \in File : OfDisk(din[f], f)
    BY <1>2 DEF OfDisk, EmptyFile
  <2>2. QED
    BY <1>2, <2>1, NowFields DEF Agrees
<1>9. \A f \in File : Blocks(din[f].size) <= din[f].blocks /\ Blocks(disk[f].size) <= disk[f].blocks
  BY <1>2, BlocksOfLength DEF EmptyFile
<1>10. image \in [freemap : SUBSET Block, unused : 0..NBLOCK] /\ halted \in {"no", "assert", "range"}
  BY <1>3 DEF SfsInit
<1>11. QED
  BY <1>2, <1>6, <1>7, <1>8, <1>9, <1>10 DEF SfsInv, Right

(* A file is resized, or not.                                              *)
LEMMA TruncfileKeeps ==
  ASSUME SfsInv, NEW f \in File, NEW len \in 0..MAXLEN, sfs_truncfile(f, len)
  PROVE  SfsInv'
<1>1. UNCHANGED <<disk, image>>
  BY DEF sfs_truncfile
<1>2. CASE din[f].size = len
  <2>1. /\ halted' \in {"no", "assert"}
        /\ UNCHANGED <<freemap, unused, din, entry, dirty, super_dirty>>
    BY <1>2 DEF sfs_truncfile
  <2>2. Right(Now)'
    BY <1>1, <2>1, NowFields, RightNow DEF SfsInv
  <2>3. QED
    BY <1>1, <2>1, <2>2 DEF SfsInv, Blocks
<1>3. CASE din[f].size # len
  <2> DEFINE w == Resized(f, len)
  <2>1. /\ halted' \in {"no", "range"}
        /\ freemap' = w.freemap /\ unused' = w.unused /\ din' = w.din
        /\ entry' = w.entry /\ dirty' = w.dirty /\ super_dirty' = w.super_dirty
    BY <1>3 DEF sfs_truncfile
  <2>2. Right(w) /\ \A g \in File : Blocks(w.din[g].size) <= w.din[g].blocks
    BY ResizedRight
  <2> HIDE DEF w
  <2>3. Right(Now)'
    BY <1>1, <2>1, <2>2, RightNow
  <2>4. \A g \in File : /\ Blocks(din'[g].size) <= din'[g].blocks
                        /\ Blocks(disk'[g].size) <= disk'[g].blocks
    BY <1>1, <2>1, <2>2 DEF SfsInv
  <2>5. QED
    BY <1>1, <2>1, <2>3, <2>4 DEF SfsInv, Blocks
<1>4. QED
  BY <1>2, <1>3

(* Nothing that the invariant says of blocks changes when inodes are       *)
(* written or read again, if those that are not marked are the same.       *)
LEMMA WrittenRight ==
  ASSUME SfsInv, UNCHANGED <<freemap, unused, entry>>, din' \in Inodes, disk' \in Inodes,
         dirty' \in SUBSET File, super_dirty' \in BOOLEAN,
         \A f \in File : /\ din'[f].direct = din[f].direct /\ din'[f].indirect = din[f].indirect
                         /\ din'[f].blocks <= din[f].blocks
                         /\ f \notin dirty' => /\ disk'[f].direct = din'[f].direct
                                               /\ disk'[f].indirect = din'[f].indirect
                                               /\ disk'[f].size = din'[f].size
                                               /\ disk'[f].blocks <= din'[f].blocks,
         super_dirty' = FALSE => image'.freemap = freemap /\ image'.unused = unused
  PROVE  Right(Now)'
<1>1. /\ Now'.freemap = freemap /\ Now'.unused = unused /\ Now'.din = din'
      /\ Now'.entry = entry /\ Now'.dirty = dirty' /\ Now'.super_dirty = super_dirty'
  BY DEF Now
<1>2. /\ Now \in SfsWorld /\ Exact(Kept(din, entry), freemap) /\ unused = Cardinality(freemap)
      /\ Full(Now)
  BY NowFields DEF SfsInv, Right, Sound
<1>3. Now' \in SfsWorld
  <2>1. freemap \in SUBSET Block /\ unused \in Int /\ entry \in Tables /\ 0 \in BlockOrNone
    BY <1>2, NowFields, SfsAssumption DEF SfsWorld, BlockOrNone
  <2>2. QED
    BY <2>1 DEF Now, SfsWorld, Answer
<1>4. Kept(din', entry) = Kept(din, entry)
  BY KeptSame
<1>5. Sound(Now)'
  BY <1>1, <1>2, <1>3, <1>4 DEF Sound
<1>6. \A f \in File : din'[f].blocks \in Int /\ din[f].blocks \in Int
  <2> SUFFICES ASSUME NEW f \in File PROVE din'[f].blocks \in Int /\ din[f].blocks \in Int
    OBVIOUS
  <2>1. din[f] \in Inode /\ din'[f] \in Inode
    BY SfsTypes DEF Inodes
  <2>2. din[f].blocks \in 0..(NDIRECT + NENTRY) /\ din'[f].blocks \in 0..(NDIRECT + NENTRY)
    BY <2>1 DEF Inode
  <2>3. QED
    BY <2>2
<1>7. Full(Now)'
  <2> SUFFICES ASSUME NEW f \in File, NEW k \in 0..(din'[f].blocks - 1)
               PROVE  Kept(din, entry)[PlaceOfBlock(f, k)] # 0
    BY <1>1, <1>4 DEF Full
  <2>1. k \in 0..(din[f].blocks - 1)
    BY <1>6
  <2>2. QED
    BY <1>2, <2>1, NowFields DEF Full
<1>8. Agrees(Now)'
  <2>1. \A f \in File : f \notin dirty' => OfDisk(din[f], f)'
    BY DEF OfDisk
  <2>2. QED
    BY <1>1, <2>1 DEF Agrees, OfDisk
<1>9. QED
  BY <1>5, <1>7, <1>8 DEF Right

(* What the inodes that are not marked say on the disk.                    *)
LEMMA CleanSame ==
  ASSUME SfsInv, NEW f \in File, f \notin dirty
  PROVE  /\ disk[f].direct = din[f].direct /\ disk[f].indirect = din[f].indirect
         /\ disk[f].size = din[f].size /\ disk[f].blocks <= din[f].blocks
BY NowFields DEF SfsInv, Right, Agrees, OfDisk

(* Numbers of blocks can be compared.                                      *)
LEMMA BlockCounts ==
  ASSUME SfsInv, NEW f \in File
  PROVE  /\ din[f] \in Inode /\ disk[f] \in Inode
         /\ din[f].blocks \in Int /\ disk[f].blocks \in Int
<1>1. din[f] \in Inode /\ disk[f] \in Inode
  BY SfsTypes DEF Inodes
<1>2. din[f].blocks \in 0..(NDIRECT + NENTRY) /\ disk[f].blocks \in 0..(NDIRECT + NENTRY)
  BY <1>1 DEF Inode
<1>3. QED
  BY <1>1, <1>2

(* An inode is written.                                                    *)
LEMMA FsyncKeeps == ASSUME SfsInv, NEW f \in File, sfs_fsync(f) PROVE SfsInv'
<1>1. /\ UNCHANGED <<freemap, unused, din, entry, super_dirty, image, halted>>
      /\ dirty' = dirty \ {f}
      /\ disk' = [disk EXCEPT ![f] = din[f]]
  BY DEF sfs_fsync
<1>2. /\ din \in Inodes /\ disk \in Inodes /\ dirty \in SUBSET File /\ super_dirty \in BOOLEAN
  BY SfsTypes DEF SfsTypeOK
<1>3. disk' \in Inodes /\ \A g \in File : disk'[g] = IF g = f THEN din[f] ELSE disk[g]
  BY <1>1, <1>2 DEF Inodes
<1>4. \A g \in File : g \notin dirty' =>
        /\ disk'[g].direct = din[g].direct /\ disk'[g].indirect = din[g].indirect
        /\ disk'[g].size = din[g].size /\ disk'[g].blocks <= din[g].blocks
  <2> SUFFICES ASSUME NEW g \in File, g \notin dirty'
               PROVE  /\ disk'[g].direct = din[g].direct /\ disk'[g].indirect = din[g].indirect
                      /\ disk'[g].size = din[g].size /\ disk'[g].blocks <= din[g].blocks
    OBVIOUS
  <2>1. CASE g = f
    BY <1>3, <2>1, BlockCounts
  <2>2. CASE g # f
    BY <1>1, <1>3, <2>2, CleanSame
  <2>3. QED
    BY <2>1, <2>2
<1>5. super_dirty = FALSE => image.freemap = freemap /\ image.unused = unused
  BY NowFields DEF SfsInv, Right, Agrees
<1>6. Right(Now)'
  <2>1. \A g \in File : din[g].blocks <= din[g].blocks
    BY BlockCounts
  <2>2. dirty' \in SUBSET File
    BY <1>1, <1>2
  <2>3. QED
    BY <1>1, <1>2, <1>3, <1>4, <1>5, <2>1, <2>2, WrittenRight
<1>7. QED
  BY <1>1, <1>3, <1>6 DEF SfsInv, Blocks

(* An inode is written if it has to be, and read again.                    *)
LEMMA ReclaimKeeps == ASSUME SfsInv, NEW f \in File, sfs_reclaim(f) PROVE SfsInv'
<1>1. /\ UNCHANGED <<freemap, unused, entry, super_dirty, image, halted>>
      /\ dirty' = dirty \ {f}
      /\ disk' = IF f \in dirty THEN [disk EXCEPT ![f] = din[f]] ELSE disk
      /\ din' = [din EXCEPT ![f] = disk'[f]]
  BY DEF sfs_reclaim
<1>2. /\ din \in Inodes /\ disk \in Inodes /\ dirty \in SUBSET File /\ super_dirty \in BOOLEAN
  BY SfsTypes DEF SfsTypeOK
<1>3. disk' \in Inodes /\ \A g \in File : disk'[g] = IF g = f /\ f \in dirty THEN din[f] ELSE disk[g]
  BY <1>1, <1>2 DEF Inodes
<1>4. din' \in Inodes /\ \A g \in File : din'[g] = IF g = f THEN disk'[f] ELSE din[g]
  BY <1>1, <1>2, <1>3 DEF Inodes
<1>5. ASSUME NEW g \in File
      PROVE  /\ din'[g].direct = din[g].direct /\ din'[g].indirect = din[g].indirect
             /\ din'[g].blocks <= din[g].blocks
             /\ g \notin dirty' => /\ disk'[g].direct = din'[g].direct
                                   /\ disk'[g].indirect = din'[g].indirect
                                   /\ disk'[g].size = din'[g].size
                                   /\ disk'[g].blocks <= din'[g].blocks
             /\ Blocks(din'[g].size) <= din'[g].blocks /\ Blocks(disk'[g].size) <= disk'[g].blocks
  <2>0. Blocks(din[g].size) <= din[g].blocks /\ Blocks(disk[g].size) <= disk[g].blocks
    BY DEF SfsInv
  <2>1. CASE g = f /\ f \in dirty
    BY <1>3, <1>4, <2>0, <2>1, BlockCounts
  <2>2. CASE g = f /\ f \notin dirty
    BY <1>3, <1>4, <2>0, <2>2, BlockCounts, CleanSame
  <2>3. CASE g # f
    BY <1>1, <1>3, <1>4, <2>0, <2>3, BlockCounts, CleanSame
  <2>4. QED
    BY <2>1, <2>2, <2>3
<1>6. super_dirty = FALSE => image.freemap = freemap /\ image.unused = unused
  BY NowFields DEF SfsInv, Right, Agrees
<1>7. Right(Now)'
  <2>1. dirty' \in SUBSET File
    BY <1>1, <1>2
  <2>2. QED
    BY <1>1, <1>2, <1>3, <1>4, <1>5, <1>6, <2>1, WrittenRight
<1>8. QED
  BY <1>1, <1>5, <1>7 DEF SfsInv, Blocks

(* Everything is written.                                                  *)
LEMMA SyncKeeps == ASSUME SfsInv, sfs_sync PROVE SfsInv'
<1>1. /\ UNCHANGED <<freemap, unused, din, entry, halted>>
      /\ dirty' = {} /\ super_dirty' = FALSE
      /\ disk' = [f \in File |-> IF f \in dirty THEN din[f] ELSE disk[f]]
      /\ image' = ImageAfterSync
  BY DEF sfs_sync
<1>2. SfsTypeOK /\ din \in Inodes /\ disk \in Inodes
  BY SfsTypes
<1>3. disk' \in Inodes /\ \A g \in File : disk'[g] = IF g \in dirty THEN din[g] ELSE disk[g]
  BY <1>1, <1>2 DEF Inodes
<1>4. /\ image'.freemap = freemap /\ image'.unused = unused
      /\ image' \in [freemap : SUBSET Block, unused : 0..NBLOCK]
  <2>1. super_dirty = FALSE => image.freemap = freemap /\ image.unused = unused
    BY NowFields DEF SfsInv, Right, Agrees
  <2>2. QED
    BY <1>1, <1>2, <2>1 DEF ImageAfterSync, SfsTypeOK
<1>5. ASSUME NEW g \in File
      PROVE  /\ din[g].blocks <= din[g].blocks
             /\ disk'[g].direct = din[g].direct /\ disk'[g].indirect = din[g].indirect
             /\ disk'[g].size = din[g].size /\ disk'[g].blocks <= din[g].blocks
             /\ Blocks(din[g].size) <= din[g].blocks /\ Blocks(disk'[g].size) <= disk'[g].blocks
  <2>0. Blocks(din[g].size) <= din[g].blocks /\ Blocks(disk[g].size) <= disk[g].blocks
    BY DEF SfsInv
  <2>1. CASE g \in dirty
    BY <1>3, <2>0, <2>1, BlockCounts
  <2>2. CASE g \notin dirty
    BY <1>3, <2>0, <2>2, BlockCounts, CleanSame
  <2>3. QED
    BY <2>1, <2>2
<1>6. Right(Now)'
  <2>1. dirty' \in SUBSET File /\ super_dirty' \in BOOLEAN
    BY <1>1
  <2>2. QED
    BY <1>1, <1>2, <1>3, <1>4, <1>5, <2>1, WrittenRight
<1>7. QED
  BY <1>1, <1>4, <1>5, <1>6 DEF SfsInv, Blocks

(* The disk is read again, and the superblock agrees with the free map.    *)
LEMMA MountKeeps == ASSUME SfsInv, sfs_do_mount PROVE SfsInv'
<1>1. /\ UNCHANGED <<disk, entry, dirty, super_dirty, image>>
      /\ dirty = {} /\ super_dirty = FALSE
      /\ freemap' = image.freemap /\ unused' = image.unused /\ din' = disk
      /\ halted' = IF Cardinality(image.freemap) = image.unused THEN "no" ELSE "mount"
  BY SfsTypes DEF sfs_do_mount, SfsTypeOK
<1>2. din \in Inodes /\ disk \in Inodes
  BY SfsTypes
<1>3. image.freemap = freemap /\ image.unused = unused /\ unused = Cardinality(freemap)
  BY <1>1, NowFields DEF SfsInv, Right, Agrees, Sound
<1>4. ASSUME NEW g \in File
      PROVE  /\ disk[g].direct = din[g].direct /\ disk[g].indirect = din[g].indirect
             /\ disk[g].blocks <= din[g].blocks /\ disk[g].blocks <= disk[g].blocks
             /\ Blocks(disk[g].size) <= disk[g].blocks
  BY <1>1, BlockCounts, CleanSame DEF SfsInv
<1>5. Right(Now)'
  <2>1. dirty' \in SUBSET File /\ super_dirty' \in BOOLEAN
    BY <1>1
  <2>2. QED
    BY <1>1, <1>2, <1>3, <1>4, <2>1, WrittenRight
<1>6. QED
  BY <1>1, <1>3, <1>4, <1>5 DEF SfsInv, Blocks

(* Every step keeps the invariant.                                         *)
LEMMA SfsInvStep == SfsInv /\ [SfsNext]_sfsVars => SfsInv'
<1> SUFFICES ASSUME SfsInv, [SfsNext]_sfsVars PROVE SfsInv'
  OBVIOUS
<1>1. CASE sfs_sync
  BY <1>1, SyncKeeps
<1>2. CASE sfs_do_mount
  BY <1>2, MountKeeps
<1>3. ASSUME NEW f \in File, sfs_truncfile(f, 0) PROVE SfsInv'
  <2>1. 0 \in 0..MAXLEN
    BY SfsAssumption
  <2>2. QED
    BY <1>3, <2>1, TruncfileKeeps
<1>4. ASSUME NEW f \in File, NEW pos \in Position, sfs_tryseek(f, pos) PROVE SfsInv'
  <2>1. pos \in 0..MAXLEN /\ sfs_truncfile(f, pos)
    BY <1>4, SfsAssumption DEF sfs_tryseek
  <2>2. QED
    BY <2>1, TruncfileKeeps
<1>5. ASSUME NEW f \in File, sfs_fsync(f) PROVE SfsInv'
  BY <1>5, FsyncKeeps
<1>6. ASSUME NEW f \in File, sfs_reclaim(f) PROVE SfsInv'
  BY <1>6, ReclaimKeeps
<1>7. CASE UNCHANGED sfsVars
  <2>1. UNCHANGED <<freemap, unused, din, disk, entry, dirty, super_dirty, image, halted>>
    BY <1>7 DEF sfsVars
  <2>2. Right(Now)'
    BY <2>1, NowFields, RightNow DEF SfsInv
  <2>3. QED
    BY <2>1, <2>2 DEF SfsInv, Blocks
<1>8. QED
  BY <1>1, <1>2, <1>3, <1>4, <1>5, <1>6, <1>7 DEF SfsNext

(* The invariant always holds.                                             *)
THEOREM SfsInvariant == SfsSpec => []SfsInv
<1>1. QED
  BY SfsInvInit, SfsInvStep, PTL DEF SfsSpec

-----------------------------------------------------------------------------
(* Every block is free or in one place, and they are counted.              *)
LEMMA BlocksExactHolds == SfsInv => BlocksExact
<1> SUFFICES ASSUME SfsInv PROVE BlocksExact
  OBVIOUS
<1> DEFINE K == Kept(din, entry)
<1>1. SfsTypeOK
  BY SfsTypes
<1>2. Exact(K, freemap) /\ unused = Cardinality(freemap)
  BY NowFields DEF SfsInv, Right, Sound
<1>3. \A p \in Place : K[p] = At(p)
  BY KeptNow
<1> HIDE DEF K
<1>4. freemap = Block \ {At(p) : p \in Place}
  <2>1. ASSUME NEW b \in Block PROVE b \in freemap <=> ~\E p \in Place : b = At(p)
    <3>1. b # 0
      BY SfsAssumption DEF Block
    <3>2. QED
      BY <1>2, <1>3, <3>1 DEF Exact
  <2>2. freemap \subseteq Block
    BY <1>2 DEF Exact
  <2>3. QED
    BY <2>1, <2>2
<1>5. {p \in Place : At(p) # 0} = {p \in Place : K[p] # 0}
  BY <1>3
<1>6. Cardinality({p \in Place : At(p) # 0}) = Cardinality(Block \ freemap)
  BY <1>2, <1>5, ExactCount
<1>7. QED
  BY <1>1, <1>2, <1>4, <1>6 DEF BlocksExact

(* The files on the disk hold the blocks that those in memory hold.        *)
LEMMA DiskExactHolds == SfsInv => DiskExact
<1> SUFFICES ASSUME SfsInv, dirty = {}, ~super_dirty
             PROVE  /\ image.freemap = Block \ UNION {OnDisk(f) : f \in File}
                    /\ image.unused = Cardinality(image.freemap)
                    /\ halted # "mount"
  BY DEF DiskExact
<1> DEFINE K == Kept(din, entry)
<1>1. Exact(K, freemap) /\ unused = Cardinality(freemap)
  BY NowFields DEF SfsInv, Right, Sound
<1>2. super_dirty = FALSE
  BY SfsTypes DEF SfsTypeOK
<1>3. image.freemap = freemap /\ image.unused = unused
  BY <1>2, NowFields DEF SfsInv, Right, Agrees
<1>4. \A f \in File : disk[f].direct = din[f].direct /\ disk[f].indirect = din[f].indirect
  BY CleanSame
<1>5. ASSUME NEW p \in Place PROVE \E f \in File : K[p] = 0 \/ K[p] \in OnDisk(f)
  <2>1. PICK f \in File : \/ \E i \in Direct : p = <<f, "direct", i>>
                          \/ p = <<f, "indirect", 0>>
                          \/ \E i \in Entry : p = <<f, "entry", i>>
    BY PlaceForms
  <2>2. CASE \E i \in Direct : p = <<f, "direct", i>>
    <3>1. PICK i \in Direct : p = <<f, "direct", i>>
      BY <2>2
    <3>2. K[p] = Pointed(din, f, i)
      BY <3>1, KeptAtDirect
    <3>3. QED
      BY <1>4, <3>2 DEF Pointed, OnDisk
  <2>3. CASE p = <<f, "indirect", 0>>
    <3>1. K[p] = din[f].indirect
      BY <2>3, KeptAtIndirect
    <3>2. QED
      BY <1>4, <3>1 DEF OnDisk
  <2>4. CASE \E i \in Entry : p = <<f, "entry", i>>
    <3>1. PICK i \in Entry : p = <<f, "entry", i>>
      BY <2>4
    <3>2. K[p] = Listed(din, entry, f, i)
      BY <3>1, KeptAtEntry
    <3>3. QED
      BY <1>4, <3>2 DEF Listed, OnDisk
  <2>5. QED
    BY <2>1, <2>2, <2>3, <2>4
<1>6. ASSUME NEW f \in File, NEW b \in OnDisk(f), b # 0 PROVE \E p \in Place : K[p] = b
  <2>1. CASE b \in {disk[f].direct[i] : i \in Direct}
    <3>1. PICK i \in Direct : b = disk[f].direct[i]
      BY <2>1
    <3>2. <<f, "direct", i>> \in Place /\ K[<<f, "direct", i>>] = Pointed(din, f, i)
      BY KeptAtDirect
    <3>3. QED
      BY <1>4, <3>1, <3>2 DEF Pointed
  <2>2. CASE b = disk[f].indirect
    <3>1. <<f, "indirect", 0>> \in Place /\ K[<<f, "indirect", 0>>] = din[f].indirect
      BY KeptAtIndirect
    <3>2. QED
      BY <1>4, <2>2, <3>1
  <2>3. CASE disk[f].indirect # 0 /\ b \in {entry[disk[f].indirect][i] : i \in Entry}
    <3>1. PICK i \in Entry : b = entry[disk[f].indirect][i]
      BY <2>3
    <3>2. <<f, "entry", i>> \in Place /\ K[<<f, "entry", i>>] = Listed(din, entry, f, i)
      BY KeptAtEntry
    <3>3. QED
      BY <1>4, <2>3, <3>1, <3>2 DEF Listed
  <2>4. QED
    BY <2>1, <2>2, <2>3 DEF OnDisk
<1> HIDE DEF K
<1>7. freemap = Block \ UNION {OnDisk(f) : f \in File}
  <2>1. ASSUME NEW b \in Block PROVE b \in freemap <=> ~\E f \in File : b \in OnDisk(f)
    <3>1. b # 0
      BY SfsAssumption DEF Block
    <3>2. CASE b \in freemap
      BY <1>1, <1>6, <3>1, <3>2 DEF Exact
    <3>3. CASE b \notin freemap
      <4>1. PICK p \in Place : K[p] = b
        BY <1>1, <3>3 DEF Exact
      <4>2. QED
        BY <1>5, <3>1, <3>3, <4>1
    <3>4. QED
      BY <3>2, <3>3
  <2>2. freemap \subseteq Block
    BY <1>1 DEF Exact
  <2>3. QED
    BY <2>1, <2>2
<1>8. halted # "mount"
  BY DEF SfsInv
<1>9. QED
  BY <1>1, <1>3, <1>7, <1>8

(* Every block that a file counts is there.                                *)
LEMMA NoHolesHolds == SfsInv => NoHoles
<1> SUFFICES ASSUME SfsInv, NEW f \in File
             PROVE  /\ \A index \in 0..(din[f].blocks - 1) :
                         \E p \in {<<f, "direct", index>>, <<f, "entry", index - NDIRECT>>} \cap Place :
                           At(p) # 0
                    /\ Blocks(din[f].size) <= din[f].blocks
  BY DEF NoHoles
<1>1. ASSUME NEW index \in 0..(din[f].blocks - 1)
      PROVE  \E p \in {<<f, "direct", index>>, <<f, "entry", index - NDIRECT>>} \cap Place :
               At(p) # 0
  <2> DEFINE p == PlaceOfBlock(f, index)
  <2>1. Kept(din, entry)[p] # 0
    BY NowFields DEF SfsInv, Right, Full
  <2>2. p \in Place
    <3>1. din[f] \in Inode
      BY BlockCounts
    <3>2. din[f].blocks \in 0..(NDIRECT + NENTRY)
      BY <3>1 DEF Inode
    <3>3. index \in 0..(NDIRECT + NENTRY - 1)
      BY <3>2, SfsAssumption
    <3>4. QED
      BY <3>3, PlacesOfBlocks
  <2>3. p \in {<<f, "direct", index>>, <<f, "entry", index - NDIRECT>>}
    BY DEF PlaceOfBlock
  <2> HIDE DEF p
  <2>4. At(p) # 0
    BY <2>1, <2>2, KeptNow
  <2>5. QED
    BY <2>2, <2>3, <2>4
<1>2. Blocks(din[f].size) <= din[f].blocks
  BY DEF SfsInv
<1>3. QED
  BY <1>1, <1>2

(* Every block is free or held in one place of one file, and the           *)
(* superblock counts them.                                                 *)
THEOREM SfsBlocksExact == SfsSpec => []BlocksExact
BY SfsInvariant, BlocksExactHolds, PTL

(* The disk by itself is right whenever nothing is to be written.          *)
THEOREM SfsDiskExact == SfsSpec => []DiskExact
BY SfsInvariant, DiskExactHolds, PTL

(* The files have the blocks they count, and enough for their lengths.     *)
THEOREM SfsNoHoles == SfsSpec => []NoHoles
BY SfsInvariant, NoHolesHolds, PTL

=============================================================================
